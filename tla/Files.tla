------------------------------- MODULE Files -------------------------------
(***************************************************************************)
(* The descriptor table of a process and its system calls: SYS_OPEN,        *)
(* SYS_READ, SYS_WRITE and SYS_CLOSE of trap_handler.c, the copy in         *)
(* SYS_FORK, init_process_fds() and the scrub in free_proc().  exec() and   *)
(* exit() leave the table as it is; a zombie's is scrubbed when it is       *)
(* reaped.  The console's own input is module Uart.                         *)
(*                                                                         *)
(* Whether a user pointer passes its check is an input (module UserMemory). *)
(***************************************************************************)
EXTENDS Ramdisk

CONSTANTS
    MAX_PROCS,
    FD_MAX,
    OpenNames,      \* bound: the names programs open
    FdArgs,         \* bound: the descriptors they pass
    MAX_SIZE        \* bound: the sizes programs read and write are 0 .. MAX_SIZE

ASSUME FdAssumption ==
    /\ MAX_PROCS \in Nat \ {0}
    /\ FD_MAX \in Nat /\ FD_MAX > 3
    /\ MAX_SIZE \in Nat

Slots == 0 .. MAX_PROCS - 1
Fds == 0 .. FD_MAX - 1

E_NOENT == -1
E_BADF  == -2
E_FAULT == -3
E_NOMEM == -4
E_PERM  == -5
E_AGAIN == -6

VARIABLES
    open_files,     \* process_table[p].open_files
    used,           \* the slots in use
    a0,             \* the result of the last call
    buffer          \* the bytes it copied to the caller

vars == <<argv, disk, open_files, used, a0, buffer>>

None == [type |-> "NONE", offset |-> 0, size |-> 0, data |-> 0]
ConsoleFile == [None EXCEPT !.type = "CONSOLE"]

init_process_fds == [fd \in Fds |-> IF fd <= 2 THEN ConsoleFile ELSE None]
Scrubbed == [fd \in Fds |-> None]

Init ==
    /\ argv \in Inputs /\ disk = mkramdisk(argv)
    /\ open_files = [p \in Slots |-> IF p = 0 THEN init_process_fds ELSE Scrubbed]
    /\ used = {0}
    /\ a0 = 0 /\ buffer = <<>>

-----------------------------------------------------------------------------
(* A call of process p.                                                    *)

Return(res) == a0' = res /\ UNCHANGED <<argv, disk>>

Fails(code) == Return(code) /\ buffer' = <<>> /\ UNCHANGED <<open_files, used>>

SetFile(p, fd, file) == open_files' = [open_files EXCEPT ![p][fd] = file]

FreeFds(p) == {fd \in 3 .. FD_MAX - 1 : open_files[p][fd].type = "NONE"}

\* The file starts at offset 0 of the entry's bytes.
OpenedFile(e) ==
    [type |-> "RAMDISK", offset |-> 0, size |-> disk.entries[e].size,
     data |-> disk.entries[e].offset]

\* Mutant: the offset of an earlier use of the slot is kept.
Bug_CloseFile(file) == [file EXCEPT !.type = "NONE"]

CloseFile(file) == None

Open(p, name) ==
    LET e == ramdisk_get_entry(name) IN
    \/ FreeFds(p) = {} /\ Fails(E_NOMEM)
    \/ FreeFds(p) # {} /\ e = 0 /\ Fails(E_NOENT)
    \/ /\ FreeFds(p) # {} /\ e # 0
       /\ SetFile(p, Min(FreeFds(p)), OpenedFile(e))
       /\ Return(Min(FreeFds(p)))
       /\ buffer' = <<>>
       /\ UNCHANGED used

\* The checks the calls share: a bad pointer, then a bad descriptor.  (close()
\* has no pointer.)
BadPointer == Fails(E_FAULT)
IsOpen(p, fd) == fd \in Fds /\ open_files[p][fd].type # "NONE"
OfType(p, fd, t) == fd \in Fds /\ open_files[p][fd].type = t

BadFd(p, fd) == ~IsOpen(p, fd) /\ Fails(E_BADF)

\* What is left of the file, at most size bytes, and the offset after it.
ReadSize(file, size) == Min2(size, file.size - file.offset)
Advance(file, size) == [file EXCEPT !.offset = @ + ReadSize(file, size)]

ReadFile(p, fd, size) ==
    /\ OfType(p, fd, "RAMDISK")
    /\ LET file == open_files[p][fd] IN
         /\ buffer' = DiskBytes(file.data + file.offset, ReadSize(file, size))
         /\ SetFile(p, fd, Advance(file, size))
         /\ Return(ReadSize(file, size))
    /\ UNCHANGED used

\* The console delivers what was typed (module Uart), at least a byte unless
\* none was asked for; what it delivers is not a file's.
ReadConsole(p, fd, size) ==
    /\ OfType(p, fd, "CONSOLE")
    /\ \E n \in 0 .. size : (n = 0 <=> size = 0) /\ Return(n)
    /\ buffer' = <<>>
    /\ UNCHANGED <<open_files, used>>

Read(p, fd, size) == BadFd(p, fd) \/ ReadFile(p, fd, size) \/ ReadConsole(p, fd, size)

\* The RAMDISK is read-only.
Write(p, fd, size) ==
    \/ BadFd(p, fd)
    \/ OfType(p, fd, "CONSOLE") /\ Fails(size)
    \/ OfType(p, fd, "RAMDISK") /\ Fails(E_PERM)

Close(p, fd) ==
    \/ BadFd(p, fd)
    \/ /\ IsOpen(p, fd)
       /\ SetFile(p, fd, CloseFile(open_files[p][fd]))
       /\ Return(0) /\ buffer' = <<>>
       /\ UNCHANGED used

\* Mutant: the child is left with what alloc_proc() gave it.
Bug_ChildFds(p) == init_process_fds

ChildFds(p) == open_files[p]

\* alloc_proc() takes the first free slot and gives it the console; fork() then
\* copies every file_t.  When alloc_proc() finds no memory for the page table or
\* the kernel stack the slot goes back as it is, the console in 0, 1 and 2.
Fork(p) ==
    LET free == Slots \ used IN
    \/ free = {} /\ Fails(E_AGAIN)
    \/ /\ free # {}
       /\ open_files' = [open_files EXCEPT ![Min(free)] = init_process_fds]
       /\ Return(E_AGAIN) /\ buffer' = <<>>
       /\ UNCHANGED used
    \/ /\ free # {}
       /\ open_files' = [open_files EXCEPT ![Min(free)] = ChildFds(p)]
       /\ used' = used \cup {Min(free)}
       /\ Return(1) /\ buffer' = <<>>

\* A process has exited and its parent reaps it.
free_proc(p) ==
    /\ used # {p}
    /\ used' = used \ {p}
    /\ open_files' = [open_files EXCEPT ![p] = Scrubbed]
    /\ Return(1) /\ buffer' = <<>>

-----------------------------------------------------------------------------
Next == \E p \in used :
    \/ BadPointer
    \/ \E name \in OpenNames : Open(p, name)
    \/ \E fd \in FdArgs, size \in 0 .. MAX_SIZE : Read(p, fd, size) \/ Write(p, fd, size)
    \/ \E fd \in FdArgs : Close(p, fd)
    \/ Fork(p) \/ free_proc(p)

Spec == Init /\ [][Next]_vars

-----------------------------------------------------------------------------
(* Properties.                                                             *)

FileT == [type : {"NONE", "CONSOLE", "RAMDISK"}, offset : 0 .. Len(disk.bytes),
          size : 0 .. Len(disk.bytes), data : 0 .. Len(disk.bytes)]

\* Every variable holds a value its C type and its uses allow.
TypeOK ==
    /\ open_files \in [Slots -> [Fds -> FileT]]
    /\ used \subseteq Slots
    /\ a0 \in Int
    /\ buffer \in Seq(Char)

\* No read can leave the file: the offset stays within the size, so that
\* size - offset (uint32_t) never wraps, and the file within the image.
OffsetWithinFile ==
    \A p \in Slots, fd \in Fds :
        LET f == open_files[p][fd] IN
        /\ f.offset <= f.size
        /\ f.data + f.size <= Len(disk.bytes)

\* Nothing of a file survives in a descriptor that is closed or in a slot that
\* was given back: the next file or the next process starts clean.  (A fork that
\* ran out of memory does leave the console in 0, 1 and 2 of the unused slot.)
\* The console sits on 0, 1 and 2 only, files never do.
NothingLeftBehind ==
    \A p \in Slots, fd \in Fds :
        LET f == open_files[p][fd] IN
        /\ f.type = "NONE" => f = None
        /\ p \notin used => f \in {None, ConsoleFile}
        /\ f.type = "CONSOLE" => fd <= 2
        /\ f.type = "RAMDISK" => fd > 2

\* Descriptors are sound in every process: no read can leave its file, and
\* nothing of an earlier file or process is left in one.
DescriptorsSound == TypeOK /\ OffsetWithinFile /\ NothingLeftBehind

\* The table as programs see it: the file behind a descriptor is the bytes its
\* data and size fields delimit in the image.  No program sees the row of a slot
\* that is not in use.
View(f) ==
    CASE f.type = "NONE"    -> <<"closed">>
      [] f.type = "CONSOLE" -> <<"console">>
      [] f.type = "RAMDISK" -> <<"file", DiskBytes(f.data, f.size), f.offset>>

RowView(row) == [fd \in Fds |-> View(row[fd])]
ClosedRow == [fd \in Fds |-> <<"closed">>]
TableView == [p \in Slots |-> IF p \in used THEN RowView(open_files[p]) ELSE ClosedRow]
Contents == {argv[i].bytes : i \in DOMAIN argv}

Tables == INSTANCE FileTable WITH
    contents <- Contents,
    table    <- TableView,
    alive    <- used,
    got      <- buffer

\* Over any sequence of calls by any processes the descriptors behave as
\* private read positions in whole files: reads deliver consecutive bytes of
\* the file that was opened, a forked child goes on independently from where
\* its parent was, and nobody else's calls interfere.
ImplementsFileTable == Tables!FTSpec
=============================================================================
