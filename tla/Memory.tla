------------------------------- MODULE Memory -------------------------------
(***************************************************************************)
(* Physical frames and address spaces: kernel/mm/pmm.c, kernel/mm/vmm.c,   *)
(* and what alloc_proc(), load_elf(), free_proc() and the system calls     *)
(* fork, exec, wait, exit and sbrk do with them.                           *)
(*                                                                         *)
(* A page table is the Sv39 tree itself: a function from the paths that    *)
(* are valid entries to what they point at.  <<>> is the root, <<i>> and   *)
(* <<i, j>> the tables below it, <<i, j, k>> a leaf.  A table and a user   *)
(* leaf point at a frame; a kernel leaf (the identity map of RAM, the MMIO *)
(* windows) is not PTE_U and is KERNEL.  In the code ROOT, WIDTH and FAN   *)
(* are 512 and PAGE is 4096.                                               *)
(*                                                                         *)
(* Every allocation can fail, at any point of a handler, since the size of *)
(* the memory is any of RamSizes.  Handlers are atomic (see Process), so   *)
(* they are functions on a record m: the free frames, the table being      *)
(* built, the page just allocated, the user pages mapped so far, and how   *)
(* the handler fares.                                                      *)
(***************************************************************************)
EXTENDS Integers, Sequences, FiniteSetsExt

CONSTANTS
    MAX_PROCS, RamSizes, Images,    \* Images: sizes of the programs, in pages
    Increments,                     \* arguments of sbrk(), in bytes
    PAGE,                           \* bytes of a page
    ROOT, WIDTH, FAN,               \* entries of a table of level 2, 1 and 0
    USER,                           \* entries of the root below 2 GB
    MmioPage                        \* the page of the device windows

KERNEL == -1
NONE   == -2                         \* a null pointer

\* Where things are, as virtual page numbers below 2 GB: the program and its
\* heap from 0 on, the MMIO windows above everything the heap can reach before
\* memory runs out (188 MB of heap in 128 MB of RAM), the stack in the last
\* page of the first GB, which is all below the first entry of the root.
StackPage  == WIDTH * FAN - 1
HeapMax    == (StackPage - 1) * PAGE
Leaf(v)    == <<0, v \div FAN, v % FAN>>
KernelLeaf == <<USER, 0, 0>>         \* the identity map of RAM, from 2 GB on

ASSUME SizesAssumption ==
    /\ PAGE \in Nat \ {0} /\ WIDTH \in Nat \ {0} /\ FAN \in Nat \ {0}
    /\ USER \in Nat \ {0} /\ ROOT \in Nat /\ USER < ROOT
    /\ MmioPage \in Nat /\ MmioPage < StackPage

ASSUME MemoryAssumption ==
    /\ MAX_PROCS \in Nat \ {0}
    /\ RamSizes \subseteq 0 .. MmioPage
    /\ Images \subseteq Nat \ {0}
    /\ Increments \subseteq Int

\* The entries a page table may have, and the table that an entry is in.
Paths ==
    {<<>>} \cup {<<i>> : i \in 0 .. ROOT - 1}
           \cup {<<i, j>> : i \in 0 .. ROOT - 1, j \in 0 .. WIDTH - 1}
           \cup {<<i, j, k>> : i \in 0 .. ROOT - 1, j \in 0 .. WIDTH - 1, k \in 0 .. FAN - 1}
Up(p) == IF Len(p) = 1 THEN <<>> ELSE IF Len(p) = 2 THEN <<p[1]>> ELSE <<p[1], p[2]>>

Slots == 0 .. MAX_PROCS - 1

VARIABLES
    ram,        \* TOTAL_PAGES: the number of frames
    free,       \* the frames whose bit in the bitmap is 0
    pt,         \* process_table[i].page_table: the tree, or the empty function
    kstack,     \* process_table[i].kernel_stack
    state,      \* "UNUSED", "LIVE" (READY, RUNNING, BLOCKED) or "ZOMBIE"
    parent,     \* the slot whose pid is parent_pid, or NONE
    image,      \* pages of the program it runs
    heap_break, \* in bytes
    current,    \* current_proc
    satp,       \* the root frame the MMU uses
    mode,       \* "user", "halted", or which system call panicked
    boot,       \* frames of the page table kmain() built, kept for ever
    lost        \* frames that no pointer leads to any more, by code path

vars == <<ram, free, pt, kstack, state, parent, image, heap_break, current,
          satp, mode, boot, lost>>

EmptyTable == [p \in {} |-> NONE]

\* Table t with entry p set to x.
Put(t, p, x) == [q \in DOMAIN t \cup {p} |-> IF q = p THEN x ELSE t[q]]

\* for (k = 0; k < n; k++) a = Body(a, k);
For(n, a, Body(_, _)) ==
    LET loop[k \in 0 .. n] == IF k = 0 THEN a ELSE Body(loop[k - 1], k - 1)
    IN loop[n]

-----------------------------------------------------------------------------
(* pmm.c and vmm.c.                                                        *)

Begin(fr, t) ==
    [free |-> fr, pt |-> t, page |-> NONE, mapped |-> 0, status |-> "ok"]

\* pmm_alloc_page(): the lowest free frame, or failure.
pmm_alloc_page(m) ==
    IF m.free = {} THEN [m EXCEPT !.status = "fail"]
    ELSE [m EXCEPT !.page = Min(m.free), !.free = @ \ {Min(m.free)}]

pmm_free_page(m, f) == [m EXCEPT !.free = @ \cup {f}]

\* One level of the walk of map_page(): the table at path p, made if missing.
Ensure(m, p) ==
    IF m.status # "ok" \/ p \in DOMAIN m.pt THEN m
    ELSE LET a == pmm_alloc_page(m) IN
         IF a.status # "ok" THEN a ELSE [a EXCEPT !.pt = Put(@, p, a.page)]

map_page(m, path, pa) ==
    LET t == Ensure(Ensure(m, Up(Up(path))), Up(path)) IN
    IF t.status # "ok" THEN t ELSE [t EXCEPT !.pt = Put(@, path, pa)]

\* Mutant: the page is not given back.
Bug_MapNewPageLeak(m, v) ==
    LET a == pmm_alloc_page(m)
        b == map_page(a, Leaf(v), a.page)
    IN IF m.status # "ok" THEN m
       ELSE IF a.status # "ok" THEN a
       ELSE IF b.status = "ok" THEN [b EXCEPT !.mapped = @ + 1] ELSE b

\* A page of its own mapped for the user; the page goes back if a table for it
\* cannot be made.
MapNewPage(m, v) ==
    LET a == pmm_alloc_page(m) IN
    IF m.status # "ok" THEN m
    ELSE IF a.status # "ok" THEN a
    ELSE LET b == map_page(a, Leaf(v), a.page) IN
         IF b.status = "ok" THEN [b EXCEPT !.mapped = @ + 1]
         ELSE pmm_free_page(b, a.page)

\* A fresh root table.
NewRoot(m) ==
    LET a == pmm_alloc_page(m) IN
    IF a.status # "ok" THEN a ELSE [a EXCEPT !.pt = Put(EmptyTable, <<>>, a.page)]

\* The identity maps of RAM and of the devices; without memory it panics.
vmm_map_kernel(m) ==
    LET k == map_page(map_page(m, KernelLeaf, KERNEL), Leaf(MmioPage), KERNEL)
    IN IF k.status = "fail" THEN [k EXCEPT !.status = "panic"] ELSE k

\* vmm_free_pt() gives back the root, every table and every user page.
TableFrames(t) == {t[p] : p \in DOMAIN t} \ {KERNEL}

\* Mutant: the frames are freed and the entries stay.
Bug_vmm_unmap_range(m, pages) ==
    [m EXCEPT !.free = @ \cup {m.pt[Leaf(v)] : v \in pages}]

\* vmm_unmap_range(): the user pages go, the tables stay.
vmm_unmap_range(m, pages) ==
    LET gone == {Leaf(v) : v \in pages} \cap DOMAIN m.pt IN
    [m EXCEPT !.free = @ \cup {m.pt[p] : p \in gone},
              !.pt = [p \in DOMAIN m.pt \ gone |-> m.pt[p]]]

\* Mutant: leaves without PTE_U, the device windows, are copied as well.
Bug_CopyEntry(m, t, p) ==
    IF m.status # "ok" \/ p \notin DOMAIN t THEN m
    ELSE IF Len(p) < 3 THEN Ensure(m, p)
    ELSE LET a == pmm_alloc_page(m) IN
         IF a.status # "ok" THEN a ELSE [a EXCEPT !.pt = Put(@, p, a.page)]

\* Entry p of the parent's table t, if valid: a table is merged into the child's
\* or made, a user page is copied, a kernel leaf is left to vmm_map_kernel().
CopyEntry(m, t, p) ==
    IF m.status # "ok" \/ p \notin DOMAIN t \/ t[p] = KERNEL THEN m
    ELSE IF Len(p) < 3 THEN Ensure(m, p)
    ELSE LET a == pmm_alloc_page(m) IN
         IF a.status # "ok" THEN a ELSE [a EXCEPT !.pt = Put(@, p, a.page)]

\* vmm_copy_uvm() level by level: the valid entries below 2 GB depth first, a
\* table before what is below it.
CopyLevel0(m, t, i, j) == For(FAN, m, LAMBDA x, k : CopyEntry(x, t, <<i, j, k>>))
CopyLevel1(m, t, i) ==
    For(WIDTH, m, LAMBDA x, j :
        IF <<i, j>> \in DOMAIN t THEN CopyLevel0(CopyEntry(x, t, <<i, j>>), t, i, j) ELSE x)
CopyLevel2(m, t) ==
    For(USER, m, LAMBDA x, i :
        IF <<i>> \in DOMAIN t THEN CopyLevel1(CopyEntry(x, t, <<i>>), t, i) ELSE x)
vmm_copy_uvm(m, t) ==
    LET c == CopyLevel2(m, t)
    IN IF c.status = "fail" THEN [c EXCEPT !.status = "panic"] ELSE c

-----------------------------------------------------------------------------
(* process.c.                                                              *)

\* The pages first .. first + n - 1, one after the other.
MapNewPages(m, first, n) ==
    For(n, m, LAMBDA x, k : MapNewPage(x, first + k))

\* load_elf(): the pages of the program, then the stack.  Running out of
\* memory in a segment or for the stack page ends in a panic of the caller;
\* the result of mapping the stack page is not looked at, so without memory
\* for its tables the page is lost and the program starts without a stack.
load_elf(m, pages) ==
    LET segs  == MapNewPages(m, 0, pages)
        a     == pmm_alloc_page(segs)
        stack == map_page(a, Leaf(StackPage), a.page)
    IN IF segs.status # "ok" THEN [segs EXCEPT !.status = "panic"]
       ELSE IF a.status # "ok" THEN [a EXCEPT !.status = "panic"]
       ELSE IF stack.status # "ok" THEN [stack EXCEPT !.status = "nostack", !.page = a.page]
       ELSE stack

\* alloc_proc(): root table, kernel map, kernel stack.  Without a root table
\* or a kernel stack it gives the slot back; m.page is the kernel stack.
alloc_proc(m) ==
    LET r == NewRoot(m)
        k == vmm_map_kernel(r)
        s == pmm_alloc_page(k)
    IN IF r.status # "ok" THEN r
       ELSE IF k.status # "ok" THEN k
       ELSE s

-----------------------------------------------------------------------------
(* kmain(), with enough memory to get to the first process.                *)

Boot(n) == vmm_map_kernel(NewRoot(Begin(0 .. n - 1, EmptyTable)))
Boot1(n) == alloc_proc([Boot(n) EXCEPT !.pt = EmptyTable])
Boot2(n, pages) == load_elf(Boot1(n), pages)

Init ==
    \E n \in RamSizes, pages \in Images :
      LET b == Boot(n)  p == Boot1(n)  e == Boot2(n, pages) IN
      /\ b.status = "ok" /\ p.status = "ok" /\ e.status = "ok"
      /\ ram = n
      /\ free = e.free
      /\ pt = [i \in Slots |-> IF i = 0 THEN e.pt ELSE EmptyTable]
      /\ kstack = [i \in Slots |-> IF i = 0 THEN p.page ELSE NONE]
      /\ state = [i \in Slots |-> IF i = 0 THEN "LIVE" ELSE "UNUSED"]
      /\ parent = [i \in Slots |-> NONE]
      /\ image = [i \in Slots |-> IF i = 0 THEN pages ELSE 0]
      /\ heap_break = [i \in Slots |-> IF i = 0 THEN pages * PAGE ELSE 0]
      /\ current = 0
      /\ satp = e.pt[<<>>]
      /\ mode = "user"
      /\ boot = TableFrames(b.pt)
      /\ lost = [fork |-> {}, exec |-> {}]

-----------------------------------------------------------------------------
(* The system calls.                                                       *)

InUser == mode = "user" /\ state[current] = "LIVE"

FreeSlots == {i \in Slots : state[i] = "UNUSED"}

\* SYS_FORK.  E_AGAIN without a slot, a root table or a kernel stack: in the
\* last case the page table that was built stays behind with no owner.  After a
\* panic nothing runs any more; what it had changed is not shown.
Fork ==
    /\ InUser /\ FreeSlots # {}
    /\ LET child == Min(FreeSlots)
           p == alloc_proc(Begin(free, EmptyTable))
           c == vmm_copy_uvm(p, pt[current])
       IN CASE p.status = "fail" ->
                 /\ free' = p.free
                 /\ lost' = [lost EXCEPT !.fork = @ \cup TableFrames(p.pt)]
                 /\ UNCHANGED <<pt, kstack, state, parent, image, heap_break, mode>>
            [] p.status = "panic" \/ (p.status = "ok" /\ c.status = "panic") ->
                 /\ mode' = "fork_panic"
                 /\ UNCHANGED <<free, pt, kstack, state, parent, image,
                                heap_break, lost>>
            [] OTHER ->
                 /\ free' = c.free
                 /\ pt' = [pt EXCEPT ![child] = c.pt]
                 /\ kstack' = [kstack EXCEPT ![child] = p.page]
                 /\ state' = [state EXCEPT ![child] = "LIVE"]
                 /\ parent' = [parent EXCEPT ![child] = current]
                 /\ image' = [image EXCEPT ![child] = image[current]]
                 /\ heap_break' = [heap_break EXCEPT ![child] = heap_break[current]]
                 /\ UNCHANGED <<mode, lost>>
    /\ UNCHANGED <<ram, current, satp, boot>>

\* SYS_EXEC of a program that exists: a new address space, then the old one
\* is freed.  Every failure past this point panics, as in fork().
Exec ==
    /\ InUser
    /\ \E pages \in Images :
         LET r == NewRoot(Begin(free, EmptyTable))
             k == IF r.status = "ok" THEN vmm_map_kernel(r) ELSE r
             e == IF k.status = "ok" THEN load_elf(k, pages) ELSE k
         IN IF e.status \in {"fail", "panic"}
            THEN /\ mode' = "exec_panic"
                 /\ UNCHANGED <<free, pt, image, heap_break, satp, lost>>
            ELSE /\ free' = e.free \cup TableFrames(pt[current])
                 /\ pt' = [pt EXCEPT ![current] = e.pt]
                 /\ satp' = e.pt[<<>>]
                 /\ image' = [image EXCEPT ![current] = pages]
                 /\ heap_break' = [heap_break EXCEPT ![current] = pages * PAGE]
                 /\ lost' = [lost EXCEPT !.exec =
                               @ \cup IF e.status = "nostack" THEN {e.page} ELSE {}]
                 /\ UNCHANGED mode
    /\ UNCHANGED <<ram, kstack, state, parent, current, boot>>

\* Mutant: the end of the heap is rounded down.
Bug_PageEnd(b) == b \div PAGE

\* The first page a heap that ends at b does not need.
PageEnd(b) == (b + PAGE - 1) \div PAGE

\* SYS_SBRK: all the pages up to the new break, or none of them.
Sbrk(inc) ==
    /\ InUser
    /\ LET old == heap_break[current]
           m   == MapNewPages(Begin(free, pt[current]), PageEnd(old),
                              PageEnd(old + inc) - PageEnd(old))
           end == PageEnd(old) + m.mapped
           u   == vmm_unmap_range(m, PageEnd(old) .. end - 1)
       IN IF inc <= 0 \/ old + inc > HeapMax THEN UNCHANGED <<free, pt, heap_break>>
          ELSE IF m.status = "ok"
          THEN /\ free' = m.free
               /\ pt' = [pt EXCEPT ![current] = m.pt]
               /\ heap_break' = [heap_break EXCEPT ![current] = old + inc]
          ELSE /\ free' = u.free
               /\ pt' = [pt EXCEPT ![current] = u.pt]
               /\ UNCHANGED heap_break
    /\ UNCHANGED <<ram, kstack, state, parent, image, current, satp, mode, boot, lost>>

\* Mutant: satp keeps the page table of the process switched away from.
Bug_SwitchTo(i) == current' = i /\ UNCHANGED satp

\* The end of schedule(): the next process and its page table.
SwitchTo(i) == current' = i /\ satp' = pt[i][<<>>]

\* A timer tick or a blocking call.
Switch ==
    /\ InUser
    /\ \E i \in Slots : state[i] = "LIVE" /\ SwitchTo(i)
    /\ UNCHANGED <<ram, free, pt, kstack, state, parent, image, heap_break, mode, boot,
                   lost>>

\* exit_current() frees nothing: the kernel still runs on this kernel stack
\* and this page table.
Exit ==
    /\ InUser
    /\ state' = [state EXCEPT ![current] = "ZOMBIE"]
    /\ \/ \E i \in Slots \ {current} : /\ state[i] = "LIVE" /\ SwitchTo(i)
                                        /\ UNCHANGED mode
       \/ /\ \A i \in Slots \ {current} : state[i] # "LIVE"
          /\ mode' = "halted" /\ UNCHANGED <<current, satp>>
    /\ UNCHANGED <<ram, free, pt, kstack, parent, image, heap_break, boot, lost>>

\* SYS_WAIT that finds a zombie child: free_proc().  Children of the process
\* that is gone are nobody's.
Reap ==
    /\ InUser
    /\ LET Z == {i \in Slots : parent[i] = current /\ state[i] = "ZOMBIE"}
           z == Min(Z)
       IN /\ Z # {}
          /\ free' = free \cup {kstack[z]} \cup TableFrames(pt[z])
          /\ pt' = [pt EXCEPT ![z] = EmptyTable]
          /\ kstack' = [kstack EXCEPT ![z] = NONE]
          /\ state' = [state EXCEPT ![z] = "UNUSED"]
          /\ parent' = [i \in Slots |-> IF i = z \/ parent[i] = z THEN NONE
                                        ELSE parent[i]]
          /\ image' = [image EXCEPT ![z] = 0]
          /\ heap_break' = [heap_break EXCEPT ![z] = 0]
    /\ UNCHANGED <<ram, current, satp, mode, boot, lost>>

Spin == mode \in {"fork_panic", "exec_panic", "halted"} /\ UNCHANGED vars

Next ==
    \/ Fork \/ Exec \/ Exit \/ Reap \/ Switch \/ Spin
    \/ \E inc \in Increments : Sbrk(inc)

Spec == Init /\ [][Next]_vars

-----------------------------------------------------------------------------
(* Properties.                                                             *)

InUse == {i \in Slots : state[i] # "UNUSED"}
Owned(i) == TableFrames(pt[i]) \cup {kstack[i]}

\* Every variable holds a value of its kind.
TypeOK ==
    /\ free \subseteq 0 .. ram - 1
    /\ \A i \in Slots : \A p \in DOMAIN pt[i] :
          /\ p \in Paths
          /\ pt[i][p] \in 0 .. ram - 1 \/ (pt[i][p] = KERNEL /\ Len(p) = 3)
    /\ state \in [Slots -> {"UNUSED", "LIVE", "ZOMBIE"}]
    /\ current \in Slots
    /\ mode \in {"user", "halted", "fork_panic", "exec_panic"}

\* Isolation: a frame has one role in one address space.  No two entries of a
\* page table and no two processes share a frame, none of them is free or
\* belongs to the boot table, whatever failed half way before.
FramesExclusive ==
    /\ \A i \in InUse :
         /\ \A p, q \in DOMAIN pt[i] : pt[i][p] = pt[i][q] /\ pt[i][p] # KERNEL => p = q
         /\ kstack[i] \notin TableFrames(pt[i])
         /\ Owned(i) \cap (free \cup boot) = {}
    /\ \A i, j \in InUse : i # j => Owned(i) \cap Owned(j) = {}

\* Nothing leaks: a frame that is not free is owned by a process or by the
\* boot table, or was lost on one of the two paths that "lost" records.
FramesAccounted ==
    mode \notin {"fork_panic", "exec_panic"} =>
      free \cup boot \cup lost.fork \cup lost.exec
        \cup UNION {Owned(i) : i \in InUse} = 0 .. ram - 1

\* The mapped user pages of a process are its program, its heap up to the
\* break, and its stack: sbrk() is all or nothing, fork() copies every page
\* and the break that goes with them, exec() leaves nothing behind.
HeapMatchesBreak ==
    \A i \in InUse :
      {p \in DOMAIN pt[i] : Len(p) = 3 /\ pt[i][p] # KERNEL} \ {Leaf(StackPage)}
        = {Leaf(v) : v \in {w \in 0 .. StackPage - 1 : w * PAGE < heap_break[i]}}

\* The kernel finds its code, its data and its devices in every address space
\* it may trap in: fork() merges into the tables that vmm_map_kernel() made,
\* and no user page replaces an MMIO window.
KernelMapped ==
    \A i \in InUse : \A p \in {KernelLeaf, Leaf(MmioPage)} :
        p \in DOMAIN pt[i] /\ pt[i][p] = KERNEL

\* Every page table, also one that fork() filled or sbrk() undid, is a tree of
\* three levels with the kernel in it: an entry is in a table that is there.
TablesWellFormed ==
    /\ TypeOK /\ KernelMapped
    /\ \A i \in InUse : \A p \in DOMAIN pt[i] \ {<<>>} : Up(p) \in DOMAIN pt[i]

\* The page table in satp is the current process's and its frames, like the
\* kernel stack's, are not free: neither exec() nor wait() frees the address
\* space the hart is using.
SatpValid ==
    /\ pt[current] # EmptyTable /\ satp = pt[current][<<>>]
    /\ satp \notin free /\ kstack[current] \notin free

\* alloc_proc() rolls back ("Rollback on failure"): a fork() that returns
\* E_AGAIN leaves no frame behind.
ForkFailureLosesNothing == lost.fork = {}

\* A failure of map_page() is not ignored: a program that exec() started has
\* its stack.
StackMapped == \A i \in InUse : Leaf(StackPage) \in DOMAIN pt[i]

\* exec() without memory returns to the caller and leaves it as it was, as the
\* comment on SYS_EXEC says ("Process continues with original program").
ExecFailureReturns == mode # "exec_panic"
=============================================================================
