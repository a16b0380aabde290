-------------------------------- MODULE Pmm --------------------------------
(***************************************************************************)
(* The physical memory manager: kernel/mm/pmm.c.                           *)
(*                                                                         *)
(* The bitmap is an array of bytes right behind the kernel image, in the   *)
(* memory it manages; a byte is the set of its bits that are 1.  Addresses *)
(* are numbers, a page is known to its holders by its address.             *)
(***************************************************************************)
EXTENDS Integers, FiniteSets, PageSize

CONSTANTS
    PHYSICAL_RAM_START,     \* 0x80000000
    TOTAL_PAGES,            \* 32768
    end                     \* _end, the end of the kernel image

bitmap_size == TOTAL_PAGES \div 8

\* linker.ld aligns _end to a page; the bitmap of 128 MB is one page long.
ASSUME PmmAssumption ==
    /\ PAGE_SIZE \in Nat \ {0} /\ PHYSICAL_RAM_START \in Nat \ {0}
    /\ PHYSICAL_RAM_START % PAGE_SIZE = 0
    /\ TOTAL_PAGES \in Nat /\ TOTAL_PAGES % 8 = 0
    /\ end \in Nat /\ end >= PHYSICAL_RAM_START
    /\ (end - PHYSICAL_RAM_START) % PAGE_SIZE = 0 /\ bitmap_size % PAGE_SIZE = 0
    /\ end + bitmap_size <= PHYSICAL_RAM_START + TOTAL_PAGES * PAGE_SIZE

VARIABLES
    bitmap,
    held        \* the pages handed out and not yet given back, by address

vars == <<bitmap, held>>

Pages == 0 .. TOTAL_PAGES - 1
Bytes == 0 .. bitmap_size - 1

\* Bit i of the array is 1.
InUse(i) == i % 8 \in bitmap[i \div 8]

SetBit(i) == [bitmap EXCEPT ![i \div 8] = @ \cup {i % 8}]

\* Mutant: the whole byte is cleared.
Bug_ClearBit(i) == [bitmap EXCEPT ![i \div 8] = {}]

ClearBit(i) == [bitmap EXCEPT ![i \div 8] = @ \ {i % 8}]

pmm_translator(i) == PHYSICAL_RAM_START + PAGE_SIZE * i

\* Mutant: the bitmap itself is not protected.
Bug_pages_to_protect == (end - PHYSICAL_RAM_START) \div PAGE_SIZE

\* Everything up to the end of the bitmap, in whole pages.
pages_to_protect == (end + bitmap_size - PHYSICAL_RAM_START) \div PAGE_SIZE

\* init_pmm()
Init ==
    /\ bitmap = [b \in Bytes |-> {k \in 0 .. 7 : 8 * b + k < pages_to_protect}]
    /\ held = {}

pmm_alloc_page ==
    \E i \in Pages :
        /\ ~InUse(i) /\ \A j \in 0 .. i - 1 : InUse(j)
        /\ bitmap' = SetBit(i)
        /\ held' = held \cup {pmm_translator(i)}

\* Out of memory: 0 is returned.
AllocFails == (\A i \in Pages : InUse(i)) /\ UNCHANGED vars

\* What a caller may pass to pmm_free_page(): a page it holds, or something
\* that is not a page of RAM.
IsPage(p) ==
    /\ PHYSICAL_RAM_START <= p /\ p < PHYSICAL_RAM_START + TOTAL_PAGES * PAGE_SIZE
    /\ p % PAGE_SIZE = 0

pmm_free_page(p) ==
    IF IsPage(p)
    THEN /\ bitmap' = ClearBit((p - PHYSICAL_RAM_START) \div PAGE_SIZE)
         /\ held' = held \ {p}
    ELSE UNCHANGED vars

Strays == {0, PHYSICAL_RAM_START + 1, PHYSICAL_RAM_START + TOTAL_PAGES * PAGE_SIZE}

Next ==
    \/ pmm_alloc_page \/ AllocFails
    \/ \E p \in held \cup {q \in Strays : ~IsPage(q)} : pmm_free_page(p)

Spec == Init /\ [][Next]_vars

-----------------------------------------------------------------------------
(* Properties.                                                             *)

\* Bit and holder agree: a page is marked just when it is protected or held.
BitmapExact ==
    \A i \in Pages : InUse(i) <=> i < pages_to_protect \/ pmm_translator(i) \in held

\* No page that is handed out contains a byte of the firmware, the kernel or
\* the bitmap.
KernelNeverHandedOut == \A p \in held : p >= end + bitmap_size

\* The bitmap says who has a page, and nobody has one of the kernel's.
BitmapSound == BitmapExact /\ KernelNeverHandedOut

Unmarked == {i \in Pages : ~InUse(i)}

F == INSTANCE FrameSet WITH Frames <- pages_to_protect .. TOTAL_PAGES - 1, free <- Unmarked

\* The bitmap implements the set of free frames that module Memory uses: the
\* lowest free page goes out, what is freed can be allocated again, and no
\* other page changes hands.
ImplementsFrameSet == F!Spec
=============================================================================
