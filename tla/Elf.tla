-------------------------------- MODULE Elf --------------------------------
(***************************************************************************)
(* load_elf() of kernel/proc/process.c: what is in the pages of a program   *)
(* and with which permissions they are mapped.  The frames behind them and  *)
(* the panics of its callers are module Memory.                            *)
(*                                                                         *)
(* A program header is a record; byte k of the data of segment i in the    *)
(* file is <<i, k>>, and ZERO is a byte that memset() left.  One action is *)
(* one turn of the loop over a segment's pages.                            *)
(***************************************************************************)
EXTENDS Integers, Sequences, PageSize

CONSTANTS
    PAGES,          \* pages of the address space below the stack
    Headers,        \* the program headers an image may have
    MAX_HEADERS     \* bound: e_phnum

ASSUME ElfAssumption ==
    /\ PAGE_SIZE \in Nat \ {0} /\ PAGES \in Nat \ {0} /\ MAX_HEADERS \in Nat
    /\ \A h \in Headers :
         /\ h.vaddr \in Nat /\ h.memsz \in Nat /\ h.filesz \in 0 .. h.memsz
         /\ h.vaddr + h.memsz <= PAGES * PAGE_SIZE

ZERO == <<0, 0>>
Unmapped == [flags |-> {}, bytes |-> [j \in 0 .. PAGE_SIZE - 1 |-> ZERO]]
StackPage == PAGES

VARIABLES
    magic,          \* the file starts with the ELF magic
    phdr,           \* its program headers
    i,              \* the header load_elf() is at
    current_offset, \* how far it is in that segment
    max_end,
    pages,          \* the user page table: permissions and contents
    heap_break,
    result          \* "loading", what it returns, or "spin" after a PANIC

elfVars == <<magic, phdr, i, current_offset, max_end, pages, heap_break, result>>

ElfInit ==
    /\ magic \in BOOLEAN
    /\ \E n \in 1 .. MAX_HEADERS : phdr \in [1 .. n -> Headers]
    /\ i = 1 /\ current_offset = 0 /\ max_end = 0
    /\ pages = [p \in 0 .. PAGES |-> Unmapped]
    /\ heap_break = 0
    /\ result = "loading"

-----------------------------------------------------------------------------
Returns(r) ==
    /\ result' = r
    /\ UNCHANGED <<magic, phdr, i, current_offset, max_end, pages, heap_break>>

BadMagic == result = "loading" /\ ~magic /\ Returns("-1")

Loading == result = "loading" /\ magic

\* There is another page of a PT_LOAD segment to load.
MorePages ==
    Loading /\ i <= Len(phdr) /\ phdr[i].load /\ current_offset < phdr[i].memsz

\* Mutant: the last page copies a whole page of the file.
Bug_copy_size(filesz, off) == IF filesz > off THEN PAGE_SIZE ELSE 0

copy_size(filesz, off) ==
    IF off + PAGE_SIZE <= filesz THEN PAGE_SIZE ELSE IF filesz > off THEN filesz - off ELSE 0

\* W^X: a segment that asks for both loses X.
PageFlags(wanted) ==
    {"U"} \cup IF {"W", "X"} \subseteq wanted THEN wanted \ {"X"} ELSE wanted

LoadPage ==
    /\ MorePages
    /\ LET h == phdr[i]
           n == copy_size(h.filesz, current_offset)
       IN pages' = [pages EXCEPT ![(h.vaddr + current_offset) \div PAGE_SIZE] =
                       [flags |-> PageFlags(h.flags),
                        bytes |-> [j \in 0 .. PAGE_SIZE - 1 |->
                                      IF j < n THEN <<i, current_offset + j>> ELSE ZERO]]]
    /\ current_offset' = current_offset + PAGE_SIZE
    /\ UNCHANGED <<magic, phdr, i, max_end, heap_break, result>>

\* No frame for the page: spin.  None for its page table: return -1.
OutOfMemory == MorePages /\ \E r \in {"spin", "-1"} : Returns(r)

\* Mutant: the end of the last segment counts, not the highest.
Bug_MaxEnd(h) == h.vaddr + h.memsz

MaxEnd(h) == IF h.vaddr + h.memsz > max_end THEN h.vaddr + h.memsz ELSE max_end

NextHeader ==
    /\ Loading /\ i <= Len(phdr) /\ ~MorePages
    /\ max_end' = IF phdr[i].load THEN MaxEnd(phdr[i]) ELSE max_end
    /\ i' = i + 1
    /\ current_offset' = 0
    /\ UNCHANGED <<magic, phdr, pages, heap_break, result>>

\* The stack page, unless there is no memory for its page table (the result of
\* map_page() is not looked at), the break and the return.
Finish ==
    /\ Loading /\ i > Len(phdr)
    /\ pages' \in {pages, [pages EXCEPT ![StackPage] =
                                [Unmapped EXCEPT !.flags = {"U", "R", "W"}]]}
    /\ heap_break' = PAGE_SIZE * ((max_end + PAGE_SIZE - 1) \div PAGE_SIZE)
    /\ result' = "0"
    /\ UNCHANGED <<magic, phdr, i, current_offset, max_end>>

NoStack == Loading /\ i > Len(phdr) /\ Returns("-1")

ElfNext == BadMagic \/ LoadPage \/ OutOfMemory \/ NextHeader \/ Finish \/ NoStack

ElfSpec == ElfInit /\ [][ElfNext]_elfVars

-----------------------------------------------------------------------------
(* Properties.                                                             *)

Segments == {k \in DOMAIN phdr : phdr[k].load /\ phdr[k].memsz > 0}
SegmentPages(k) == phdr[k].vaddr \div PAGE_SIZE .. (phdr[k].vaddr + phdr[k].memsz - 1) \div PAGE_SIZE

\* The linker gives no two segments the same page.
PagesDisjoint ==
    \A k, l \in Segments : k # l => SegmentPages(k) \cap SegmentPages(l) = {}

\* What the program may do with a segment: what it asked for, but never execute
\* what it can write.
Rights(wanted) == {"U"} \cup {f \in wanted : f = "X" => "W" \notin wanted}

\* Byte n of segment k is where the program expects it, with the segment's
\* rights: the file's data first, zeroes behind it.
ByteInPlace(k, n) ==
    LET a == phdr[k].vaddr + n
        p == pages[a \div PAGE_SIZE]
    IN /\ p.flags = Rights(phdr[k].flags)
       /\ p.bytes[a % PAGE_SIZE] = IF n < phdr[k].filesz THEN <<k, n>> ELSE ZERO

\* An image whose segments start at page boundaries is in memory as it was
\* linked when load_elf() returns 0: file data, zeroed .bss up to the end of
\* the last page, each with its own segment's rights, whatever the sizes and the
\* order of the headers.
AlignedImageInPlace ==
    result = "0" /\ PagesDisjoint /\ (\A k \in Segments : phdr[k].vaddr % PAGE_SIZE = 0) =>
        \A k \in Segments : \A a \in 0 .. PAGES * PAGE_SIZE - 1 :
            a \div PAGE_SIZE \in SegmentPages(k) => ByteInPlace(k, a - phdr[k].vaddr)

\* The heap starts above everything that was loaded, in whichever order the
\* headers came, and at a page of its own.
HeapAboveImage ==
    result = "0" =>
        \A p \in 0 .. PAGES - 1 : pages[p].flags # {} => (p + 1) * PAGE_SIZE <= heap_break
=============================================================================
