------------------------------- MODULE Heap -------------------------------
(***************************************************************************)
(* The heap of one program: malloc(), free() and sbrk() of                  *)
(* user/syscalls.c over the SYS_SBRK handler of trap_handler.c.             *)
(*                                                                         *)
(* The free list lives in the heap itself: meta is what the program has     *)
(* stored in its block headers, by header address.  The frames SYS_SBRK     *)
(* needs may be taken by other processes at any time, so a call that needs  *)
(* a new page may fail; Memory.tla shows that it then leaves no trace.      *)
(***************************************************************************)
EXTENDS Integers, FiniteSets, FiniteSetsExt, PageSize

CONSTANTS
    META_SIZE,      \* sizeof(block_meta_t), 24
    INT_SPAN,       \* 2^32, the width of sbrk()'s parameter
    HEAP_START,     \* heap_break of a fresh program
    heap_max,       \* its limit, one page under the stack
    Sizes           \* bound: the arguments of malloc() and sbrk()

E_NOMEM == -4
E_PERM == -5

ASSUME HeapAssumption ==
    /\ PAGE_SIZE \in Nat \ {0} /\ META_SIZE \in Nat \ {0} /\ INT_SPAN \in Nat \ {0}
    /\ HEAP_START \in Nat \ {0} /\ heap_max \in Nat /\ HEAP_START <= heap_max
    /\ Sizes \subseteq Nat

VARIABLES
    heap_break,     \* the kernel's end of the heap
    global_base,    \* the first block, 0 if there is none
    meta,           \* the headers in the heap
    live,           \* the pointers the program holds: size asked for, by pointer
    running         \* FALSE once the kernel has ended the program

heapVars == <<heap_break, global_base, meta, live, running>>

HeapInit ==
    /\ heap_break = HEAP_START
    /\ global_base = 0
    /\ meta = << >> /\ live = << >>
    /\ running = TRUE

-----------------------------------------------------------------------------
(* The kernel's side.                                                      *)

\* A size_t passed as int: the low bits, as a two's complement number.
ToInt(n) == LET low == n % INT_SPAN IN IF low < INT_SPAN \div 2 THEN low ELSE low - INT_SPAN

PageEnd(a) == PAGE_SIZE * ((a + PAGE_SIZE - 1) \div PAGE_SIZE)

\* What SYS_SBRK may answer; it moves heap_break only when it succeeds.
SysSbrk(increment) ==
    IF increment < 0 THEN {E_PERM}
    ELSE IF heap_break + increment > heap_max THEN {E_NOMEM}
    ELSE IF PageEnd(heap_break + increment) = PageEnd(heap_break) THEN {heap_break}
    ELSE {heap_break, E_NOMEM}

Grown(ret, increment) == heap_break' = IF ret < 0 THEN heap_break ELSE heap_break + increment

-----------------------------------------------------------------------------
(* The library's side.                                                     *)

\* The blocks in list order, as find_free_block() walks them; 0 behind the last.
Chain ==
    LET nth[i \in 1 .. Cardinality(DOMAIN meta)] ==
            IF i = 1 THEN global_base
            ELSE IF nth[i - 1] = 0 THEN 0
            ELSE meta[nth[i - 1]].next
    IN nth

\* Mutant: the size of a free block is not looked at.
Bug_Fits(b, size) == meta[b].is_free

Fits(b, size) == meta[b].is_free /\ meta[b].size >= size

find_free_block(size) ==
    LET found == {i \in DOMAIN Chain : Chain[i] # 0 /\ Fits(Chain[i], size)}
    IN IF found = {} THEN 0 ELSE Chain[Min(found)]

\* last, when find_free_block() found nothing.
LastBlock ==
    LET blocks == {i \in DOMAIN Chain : Chain[i] # 0}
    IN IF blocks = {} THEN 0 ELSE Chain[Max(blocks)]

Reuse(b, size) ==
    /\ meta' = [meta EXCEPT ![b].is_free = FALSE]
    /\ live' = [p \in DOMAIN live \cup {b + META_SIZE} |->
                   IF p = b + META_SIZE THEN size ELSE live[p]]
    /\ UNCHANGED <<heap_break, global_base, running>>

\* Mutant: the new block becomes the head of the list and the rest is dropped.
Bug_Linked(b, last) == [base |-> b, next |-> 0]

\* Where the new block b is hung: behind last, or as the first of all.
Linked(b, last) ==
    IF last # 0 THEN [base |-> global_base, next |-> b] ELSE [base |-> b, next |-> 0]

Extend(b, size) ==
    LET link == Linked(b, LastBlock)
    IN /\ global_base' = link.base
       /\ meta' = [a \in DOMAIN meta \cup {b} |->
                      IF a = b THEN [size |-> size, next |-> 0, is_free |-> FALSE]
                      ELSE IF a = LastBlock THEN [meta[a] EXCEPT !.next = link.next]
                      ELSE meta[a]]
       /\ live' = [p \in DOMAIN live \cup {b + META_SIZE} |->
                      IF p = b + META_SIZE THEN size ELSE live[p]]
       /\ UNCHANGED running

\* The store to a header at a negative address faults: the kernel ends the program.
Fault ==
    /\ running' = FALSE
    /\ UNCHANGED <<global_base, meta, live>>

NewBlock(size) ==
    LET increment == ToInt(META_SIZE + size)
    IN \E ret \in SysSbrk(increment) :
          /\ Grown(ret, increment)
          /\ CASE ret = -1 -> UNCHANGED <<global_base, meta, live, running>>
               [] ret < -1 -> Fault
               [] OTHER -> Extend(ret, size)

malloc(size) ==
    /\ running /\ size # 0          \* malloc(0) returns 0
    /\ LET b == find_free_block(size)
       IN IF b # 0 THEN Reuse(b, size) ELSE NewBlock(size)

free(p) ==                          \* free(0) does nothing
    /\ running /\ p \in DOMAIN live
    /\ meta' = [meta EXCEPT ![p - META_SIZE].is_free = TRUE]
    /\ live' = [q \in DOMAIN live \ {p} |-> live[q]]
    /\ UNCHANGED <<heap_break, global_base, running>>

\* A program may also grow its heap itself.
sbrk(n) ==
    /\ running
    /\ \E ret \in SysSbrk(ToInt(n)) : Grown(ret, ToInt(n))
    /\ UNCHANGED <<global_base, meta, live, running>>

HeapNext ==
    \/ \E n \in Sizes : malloc(n) \/ sbrk(n)
    \/ \E p \in DOMAIN live : free(p)

HeapSpec == HeapInit /\ [][HeapNext]_heapVars

-----------------------------------------------------------------------------
(* Properties.                                                             *)

\* The bytes a live allocation and a header occupy.
Extent(p) == p .. p + live[p] - 1
Header(b) == b .. b + META_SIZE - 1

\* What malloc() has handed out lies inside the heap the kernel has mapped,
\* shares no byte with another allocation and none with a header of the list,
\* however the calls of malloc(), free() and sbrk() were mixed and whichever
\* freed block a call got again.
AllocationsDisjoint ==
    \A p \in DOMAIN live :
        /\ Extent(p) \subseteq HEAP_START .. heap_break - 1
        /\ \A q \in DOMAIN live \ {p} : Extent(p) \cap Extent(q) = {}
        /\ \A b \in DOMAIN meta : Extent(p) \cap Header(b) = {}

\* The heap grows in malloc() only when no freed block is large enough: a block
\* that was freed once is never lost to the list.
GrowsOnlyWhenNeeded ==
    [][\A n \in Sizes \ {0} :
         malloc(n) /\ heap_break' # heap_break =>
            \A b \in DOMAIN meta : meta[b].is_free => meta[b].size < n]_heapVars

\* malloc() reports that the kernel has no memory (it returns 0 when sbrk()
\* fails); it does not end the program.
FailureIsReported == running
=============================================================================
