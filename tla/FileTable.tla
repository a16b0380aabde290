----------------------------- MODULE FileTable -----------------------------
(***************************************************************************)
(* What the file system calls promise a program: every process has          *)
(* descriptors of its own, each one closed, the console, or a file at a     *)
(* position.  A read delivers the bytes that follow the position and moves  *)
(* it on; what one process does to its descriptors never shows in another.  *)
(***************************************************************************)
EXTENDS Integers, Sequences

CONSTANTS Slots, Fds

VARIABLES
    contents,   \* what the files hold; never written
    table,      \* table[p][fd]
    alive,      \* the processes
    got         \* the bytes the last read delivered

Closed == <<"closed">>
Console == <<"console">>
At(content, pos) == <<"file", content, pos>>

Fresh == [fd \in Fds |-> IF fd <= 2 THEN Console ELSE Closed]
None == [fd \in Fds |-> Closed]

FTInit ==
    /\ alive = {0}
    /\ table = [p \in Slots |-> IF p = 0 THEN Fresh ELSE None]
    /\ got = <<>>

\* A descriptor that was closed now names a file, at its start.
Open(p, fd) ==
    /\ table[p][fd] = Closed
    /\ \E c \in contents : table' = [table EXCEPT ![p][fd] = At(c, 0)]
    /\ got' = <<>>
    /\ UNCHANGED alive

\* The next n bytes, for some n.
Read(p, fd) ==
    /\ table[p][fd][1] = "file"
    /\ LET content == table[p][fd][2]
           pos == table[p][fd][3]
       IN \E n \in 0 .. Len(content) - pos :
            /\ got' = SubSeq(content, pos + 1, pos + n)
            /\ table' = [table EXCEPT ![p][fd] = At(content, pos + n)]
    /\ UNCHANGED alive

Close(p, fd) ==
    /\ table[p][fd] # Closed
    /\ table' = [table EXCEPT ![p][fd] = Closed]
    /\ got' = <<>>
    /\ UNCHANGED alive

\* A call that fails, or that has nothing to do with files.
Other == got' = <<>> /\ UNCHANGED <<table, alive>>

Fork(p, c) ==
    /\ c \notin alive
    /\ alive' = alive \cup {c}
    /\ table' = [table EXCEPT ![c] = table[p]]
    /\ got' = <<>>

End(p) ==
    /\ alive' = alive \ {p}
    /\ table' = [table EXCEPT ![p] = None]
    /\ got' = <<>>

Call ==
    \/ \E p \in alive :
         \/ \E fd \in Fds : Open(p, fd) \/ Read(p, fd) \/ Close(p, fd)
         \/ \E c \in Slots : Fork(p, c)
         \/ End(p)
    \/ Other

FTNext == Call /\ UNCHANGED contents

FTSpec == FTInit /\ [][FTNext]_<<contents, table, alive, got>>
=============================================================================
