---------------------------- MODULE Pages_proofs ----------------------------
(***************************************************************************)
(* Proofs about modules Pmm, UserMemory and Elf, for every page size, every *)
(* size of the memories and of the kernel, and every program image.         *)
(***************************************************************************)
EXTENDS Pmm, UserMemory, Elf, SetInduction, TLAPS

\* A multiple of P divided by P: the page number comes back from the address.
LEMMA MultipleDiv ==
    ASSUME NEW P \in Nat \ {0}, NEW n \in Nat
    PROVE  (P * n) \div P = n /\ (P * n) % P = 0
<1> DEFINE q == (P * n) \div P
           r == (P * n) % P
<1>1. P * n \in Nat
  OBVIOUS
<1>2. q \in Int /\ r \in Int /\ P * n = P * q + r /\ 0 <= r /\ r < P
  BY <1>1, SMT
<1>3. P * (n - q) = r
  BY <1>2, SMT
<1>4. n - q = 0
  <2>1. CASE n - q >= 1
    <3>1. P * (n - q) >= P
      BY <2>1, <1>2, SMT
    <3> QED BY <3>1, <1>2, <1>3
  <2>2. CASE n - q <= -1
    <3>1. P * (n - q) <= -P
      BY <2>2, <1>2, SMT
    <3> QED BY <3>1, <1>2, <1>3
  <2> QED BY <2>1, <2>2, <1>2
<1>5. r = 0
  BY <1>3, <1>4, <1>2
<1> QED BY <1>4, <1>5, <1>2

\* A number that P divides is P times its quotient.
LEMMA ExactDiv ==
    ASSUME NEW P \in Nat \ {0}, NEW n \in Nat, n % P = 0
    PROVE  n \div P \in Nat /\ n = P * (n \div P)
<1>1. n \div P \in Int /\ n = P * (n \div P) + (n % P)
  BY SMT
<1>2. n \div P >= 0
  BY SMT
<1>3. P * (n \div P) \in Int
  BY <1>1, SMT
<1> QED BY <1>1, <1>2, <1>3

\* Quotient and remainder.
LEMMA DivFacts ==
    ASSUME NEW P \in Nat \ {0}, NEW n \in Nat
    PROVE  /\ n \div P \in Nat /\ n % P \in 0 .. P - 1
           /\ P * (n \div P) \in Nat /\ n = P * (n \div P) + (n % P)
<1>1. n \div P \in Int /\ n % P \in Int /\ 0 <= n % P /\ n % P < P /\ n \div P >= 0
  BY SMT
<1>2. n = P * (n \div P) + (n % P)
  BY SMT
<1>3. P * (n \div P) \in Int /\ P * (n \div P) >= 0
  BY <1>1, SMT
<1> QED BY <1>1, <1>2, <1>3

\* From one multiple of P to the next it is at least P.
LEMMA MultipleStep ==
    ASSUME NEW P \in Nat \ {0}, NEW x \in Nat, NEW y \in Nat, x < y
    PROVE  P * x + P <= P * y /\ P * x \in Nat /\ P * y \in Nat
<1>1. P * (y - x) >= P
  <2>1. PICK d \in Nat : y - x = d + 1
    <3>1. y - x - 1 \in Nat /\ y - x = (y - x - 1) + 1
      OBVIOUS
    <3> QED BY <3>1
  <2>2. P * (d + 1) = P * d + P /\ P * d >= 0 /\ P * d \in Int
    BY <2>1, SMT
  <2> QED BY <2>1, <2>2
<1>2. P * (y - x) = P * y - P * x /\ P * x \in Nat /\ P * y \in Nat
  BY SMT
<1> QED BY <1>1, <1>2

\* They are the only ones.
LEMMA DivUnique ==
    ASSUME NEW P \in Nat \ {0}, NEW q \in Nat, NEW r \in 0 .. P - 1,
           NEW b \in Nat, b = P * q, NEW n \in Nat, n = b + r
    PROVE  n \div P = q /\ n % P = r
<1> DEFINE d == n \div P
           m == n % P
<1>1. d \in Nat /\ m \in 0 .. P - 1 /\ P * d \in Nat /\ n = P * d + m
  BY DivFacts
<1>2. P * q \in Nat
  BY SMT
<1> HIDE DEF d, m
<1>3. ~(d < q)
  <2> SUFFICES ASSUME d < q PROVE FALSE
    OBVIOUS
  <2>1. P * d + P <= P * q
    BY <1>1, MultipleStep
  <2> QED BY <1>1, <1>2, <2>1
<1>4. ~(q < d)
  <2> SUFFICES ASSUME q < d PROVE FALSE
    OBVIOUS
  <2>1. P * q + P <= P * d
    BY <1>1, MultipleStep
  <2> QED BY <1>1, <1>2, <2>1
<1>5. d = q
  BY <1>1, <1>3, <1>4
<1>6. m = r
  BY <1>1, <1>2, <1>5
<1> QED BY <1>5, <1>6 DEF d, m

\* The quotient grows with the number.
LEMMA DivMonotone ==
    ASSUME NEW P \in Nat \ {0}, NEW m \in Nat, NEW n \in Nat, m <= n
    PROVE  m \div P <= n \div P
<1> DEFINE x == m \div P
           y == n \div P
<1>1. /\ x \in Nat /\ P * x \in Nat /\ P * x <= m
      /\ y \in Nat /\ P * y \in Nat /\ n < P * y + P
  <2>1. /\ x \in Nat /\ m % P \in 0 .. P - 1 /\ P * x \in Nat /\ m = P * x + (m % P)
        /\ y \in Nat /\ n % P \in 0 .. P - 1 /\ P * y \in Nat /\ n = P * y + (n % P)
    BY DivFacts
  <2> HIDE DEF x, y
  <2> QED BY <2>1
<1> HIDE DEF x, y
<1> SUFFICES ASSUME y < x PROVE FALSE
  BY <1>1 DEF x, y
<1>2. P * y + P <= P * x
  BY <1>1, MultipleStep
<1> QED BY <1>1, <1>2

-----------------------------------------------------------------------------
\* Every page has a bit of its own in the bitmap.
LEMMA BitPosition ==
    ASSUME NEW f \in Pages
    PROVE  f \div 8 \in Bytes /\ f % 8 \in 0 .. 7 /\ f = 8 * (f \div 8) + (f % 8)
BY PmmAssumption DEF Pages, Bytes, bitmap_size

\* The protected pages are whole: they end where the bitmap ends.
LEMMA ProtectedPages ==
    /\ pages_to_protect \in Nat
    /\ PHYSICAL_RAM_START + PAGE_SIZE * pages_to_protect = end + bitmap_size
<1> DEFINE a == end - PHYSICAL_RAM_START
           x == a \div PAGE_SIZE
           y == bitmap_size \div PAGE_SIZE
<1>1. a \in Nat /\ bitmap_size \in Nat /\ PAGE_SIZE \in Nat \ {0}
  BY PmmAssumption DEF bitmap_size
<1>2. x \in Nat /\ a = PAGE_SIZE * x
  BY <1>1, ExactDiv, PmmAssumption
<1>3. y \in Nat /\ bitmap_size = PAGE_SIZE * y
  BY <1>1, ExactDiv, PmmAssumption
<1>4. end + bitmap_size - PHYSICAL_RAM_START = PAGE_SIZE * (x + y)
  <2>1. end + bitmap_size - PHYSICAL_RAM_START = a + bitmap_size
    BY <1>1, PmmAssumption
  <2>2. PAGE_SIZE * (x + y) = PAGE_SIZE * x + PAGE_SIZE * y
    BY <1>1, <1>2, <1>3, SMT
  <2> QED BY <2>1, <2>2, <1>2, <1>3
<1>5. pages_to_protect = x + y
  BY <1>1, <1>2, <1>3, <1>4, MultipleDiv, x + y \in Nat DEF pages_to_protect
<1> QED BY <1>1, <1>2, <1>3, <1>4, <1>5, PmmAssumption

\* Address and page number determine each other, and a page is a page of RAM.
LEMMA Translation ==
    ASSUME NEW f \in Pages
    PROVE  /\ pmm_translator(f) \in Nat
           /\ (pmm_translator(f) - PHYSICAL_RAM_START) \div PAGE_SIZE = f
           /\ IsPage(pmm_translator(f))
<1>1. f \in Nat /\ f < TOTAL_PAGES /\ PAGE_SIZE \in Nat \ {0} /\ TOTAL_PAGES \in Nat
      /\ PHYSICAL_RAM_START \in Nat /\ PHYSICAL_RAM_START % PAGE_SIZE = 0
  BY PmmAssumption DEF Pages
<1>2. PAGE_SIZE * f \in Nat /\ PAGE_SIZE * f < TOTAL_PAGES * PAGE_SIZE
  BY <1>1, SMT
<1>3. (pmm_translator(f) - PHYSICAL_RAM_START) = PAGE_SIZE * f
  BY <1>1, <1>2 DEF pmm_translator
<1>4. pmm_translator(f) % PAGE_SIZE = 0
  <2> DEFINE s == PHYSICAL_RAM_START \div PAGE_SIZE
  <2>1. s \in Nat /\ PHYSICAL_RAM_START = PAGE_SIZE * s
    BY <1>1, ExactDiv
  <2>2. pmm_translator(f) = PAGE_SIZE * (s + f)
    <3>1. PAGE_SIZE * (s + f) = PAGE_SIZE * s + PAGE_SIZE * f
      BY <1>1, <2>1, SMT
    <3> QED BY <3>1, <2>1 DEF pmm_translator
  <2> QED BY <2>1, <2>2, <1>1, MultipleDiv, s + f \in Nat
<1> QED BY <1>1, <1>2, <1>3, <1>4, MultipleDiv DEF IsPage, pmm_translator

\* Two pages never have the same bit.
LEMMA TranslationInjective ==
    ASSUME NEW f \in Pages, NEW j \in Pages, pmm_translator(f) = pmm_translator(j)
    PROVE  f = j
BY Translation

-----------------------------------------------------------------------------
(* The inductive invariant: a page is marked just when it is protected or  *)
(* held (BitmapExact), and what is held are addresses of pages behind the  *)
(* protected ones, so that freeing one clears the bit it set.              *)

\* What callers hold are pages of the machine.
HeldArePages ==
    \A p \in held : \E f \in Pages : f >= pages_to_protect /\ p = pmm_translator(f)

\* The inductive invariant of the bitmap.
PmmInv ==
    /\ bitmap \in [Bytes -> SUBSET (0 .. 7)]
    /\ HeldArePages
    /\ BitmapExact

\* It holds after pmm_init().
LEMMA InitPmmInv == Init => PmmInv
<1> SUFFICES ASSUME Init PROVE PmmInv
  OBVIOUS
<1>1. bitmap \in [Bytes -> SUBSET (0 .. 7)]
  BY DEF Init
<1>2. HeldArePages
  BY DEF Init, HeldArePages
<1>3. BitmapExact
  <2> SUFFICES ASSUME NEW f \in Pages PROVE InUse(f) <=> f < pages_to_protect
    BY DEF BitmapExact, Init
  <2>1. bitmap[f \div 8] = {k \in 0 .. 7 : 8 * (f \div 8) + k < pages_to_protect}
    BY BitPosition DEF Init
  <2> QED BY <2>1, BitPosition DEF InUse
<1> QED BY <1>1, <1>2, <1>3 DEF PmmInv

\* Two pages never share a bit.
LEMMA BitsDistinct ==
    ASSUME NEW f \in Pages, NEW j \in Pages, f \div 8 = j \div 8, f % 8 = j % 8
    PROVE  f = j
BY BitPosition

\* Marking and unmarking page f changes the mark of page f only.
LEMMA SetBitEffect ==
    ASSUME PmmInv, NEW f \in Pages, bitmap' = SetBit(f)
    PROVE  /\ bitmap' \in [Bytes -> SUBSET (0 .. 7)]
           /\ \A j \in Pages : InUse(j)' <=> InUse(j) \/ j = f
<1>1. f \div 8 \in Bytes /\ f % 8 \in 0 .. 7 /\ bitmap \in [Bytes -> SUBSET (0 .. 7)]
  BY BitPosition DEF PmmInv
<1>2. bitmap' \in [Bytes -> SUBSET (0 .. 7)]
  BY <1>1 DEF SetBit
<1>3. ASSUME NEW j \in Pages PROVE InUse(j)' <=> InUse(j) \/ j = f
  <2>1. j \div 8 \in Bytes
    BY BitPosition
  <2>2. CASE j \div 8 = f \div 8
    <3>1. bitmap'[j \div 8] = bitmap[j \div 8] \cup {f % 8}
      BY <1>1, <2>1, <2>2 DEF SetBit
    <3> QED BY <3>1, <2>2, BitsDistinct DEF InUse
  <2>3. CASE j \div 8 # f \div 8
    <3>1. bitmap'[j \div 8] = bitmap[j \div 8]
      BY <1>1, <2>1, <2>3 DEF SetBit
    <3> QED BY <3>1, <2>3 DEF InUse
  <2> QED BY <2>2, <2>3
<1> QED BY <1>2, <1>3

\* Clearing one bit changes the answer for that page alone.
LEMMA ClearBitEffect ==
    ASSUME PmmInv, NEW f \in Pages, bitmap' = ClearBit(f)
    PROVE  /\ bitmap' \in [Bytes -> SUBSET (0 .. 7)]
           /\ \A j \in Pages : InUse(j)' <=> InUse(j) /\ j # f
<1>1. f \div 8 \in Bytes /\ f % 8 \in 0 .. 7 /\ bitmap \in [Bytes -> SUBSET (0 .. 7)]
  BY BitPosition DEF PmmInv
<1>2. bitmap' \in [Bytes -> SUBSET (0 .. 7)]
  BY <1>1 DEF ClearBit
<1>3. ASSUME NEW j \in Pages PROVE InUse(j)' <=> InUse(j) /\ j # f
  <2>1. j \div 8 \in Bytes
    BY BitPosition
  <2>2. CASE j \div 8 = f \div 8
    <3>1. bitmap'[j \div 8] = bitmap[j \div 8] \ {f % 8}
      BY <1>1, <2>1, <2>2 DEF ClearBit
    <3> QED BY <3>1, <2>2, BitsDistinct DEF InUse
  <2>3. CASE j \div 8 # f \div 8
    <3>1. bitmap'[j \div 8] = bitmap[j \div 8]
      BY <1>1, <2>1, <2>3 DEF ClearBit
    <3> QED BY <3>1, <2>3 DEF InUse
  <2> QED BY <2>2, <2>3
<1> QED BY <1>2, <1>3

\* What an allocation does: it marks and hands out one page that was neither.
LEMMA AllocEffect ==
    ASSUME PmmInv, pmm_alloc_page
    PROVE  \E f \in Pages :
              /\ ~InUse(f) /\ \A j \in 0 .. f - 1 : InUse(j)
              /\ f >= pages_to_protect
              /\ held' = held \cup {pmm_translator(f)}
              /\ bitmap' \in [Bytes -> SUBSET (0 .. 7)]
              /\ \A j \in Pages : InUse(j)' <=> InUse(j) \/ j = f
<1>1. PICK f \in Pages : /\ ~InUse(f) /\ \A j \in 0 .. f - 1 : InUse(j)
                         /\ bitmap' = SetBit(f)
                         /\ held' = held \cup {pmm_translator(f)}
  BY DEF pmm_alloc_page
<1>2. f >= pages_to_protect
  BY <1>1, ProtectedPages, PmmAssumption DEF PmmInv, BitmapExact, Pages
<1>3. /\ bitmap' \in [Bytes -> SUBSET (0 .. 7)]
      /\ \A j \in Pages : InUse(j)' <=> InUse(j) \/ j = f
  BY <1>1, SetBitEffect
<1> QED BY <1>1, <1>2, <1>3

\* What freeing a held page does.
LEMMA FreeEffect ==
    ASSUME PmmInv, NEW p \in held, pmm_free_page(p)
    PROVE  \E f \in Pages :
              /\ f >= pages_to_protect /\ p = pmm_translator(f) /\ InUse(f)
              /\ held' = held \ {p}
              /\ bitmap' \in [Bytes -> SUBSET (0 .. 7)]
              /\ \A j \in Pages : InUse(j)' <=> InUse(j) /\ j # f
<1>1. PICK f \in Pages : f >= pages_to_protect /\ p = pmm_translator(f)
  BY DEF PmmInv, HeldArePages
<1>2. InUse(f)
  BY <1>1 DEF PmmInv, BitmapExact
<1>3. bitmap' = ClearBit(f) /\ held' = held \ {p}
  BY <1>1, Translation DEF pmm_free_page
<1>4. /\ bitmap' \in [Bytes -> SUBSET (0 .. 7)]
      /\ \A j \in Pages : InUse(j)' <=> InUse(j) /\ j # f
  BY <1>3, ClearBitEffect
<1> QED BY <1>1, <1>2, <1>3, <1>4

\* A step allocates a page, frees a held one, or changes nothing.
LEMMA StepCases ==
    ASSUME [Next]_vars
    PROVE  pmm_alloc_page \/ (\E p \in held : pmm_free_page(p)) \/ UNCHANGED vars
BY DEF Next, AllocFails, pmm_free_page, vars

\* Every step keeps it.
LEMMA NextPmmInv == PmmInv /\ [Next]_vars => PmmInv'
<1> SUFFICES ASSUME PmmInv, [Next]_vars PROVE PmmInv'
  OBVIOUS
<1>1. CASE pmm_alloc_page
  <2>1. PICK f \in Pages :
              /\ ~InUse(f) /\ f >= pages_to_protect
              /\ held' = held \cup {pmm_translator(f)}
              /\ bitmap' \in [Bytes -> SUBSET (0 .. 7)]
              /\ \A j \in Pages : InUse(j)' <=> InUse(j) \/ j = f
    BY <1>1, AllocEffect
  <2>2. HeldArePages'
    BY <2>1 DEF PmmInv, HeldArePages, pages_to_protect, pmm_translator
  <2>3. BitmapExact'
    <3> SUFFICES ASSUME NEW j \in Pages
                 PROVE  InUse(j)' <=> j < pages_to_protect \/ pmm_translator(j) \in held'
      BY DEF BitmapExact
    <3>1. InUse(j) <=> j < pages_to_protect \/ pmm_translator(j) \in held
      BY DEF PmmInv, BitmapExact
    <3>2. pmm_translator(j) \in held' <=> pmm_translator(j) \in held \/ j = f
      BY <2>1, TranslationInjective
    <3> QED BY <2>1, <3>1, <3>2
  <2> QED BY <2>1, <2>2, <2>3 DEF PmmInv
<1>2. CASE \E p \in held : pmm_free_page(p)
  <2>1. PICK p \in held : pmm_free_page(p)
    BY <1>2
  <2>2. PICK f \in Pages :
              /\ f >= pages_to_protect /\ p = pmm_translator(f)
              /\ held' = held \ {p}
              /\ bitmap' \in [Bytes -> SUBSET (0 .. 7)]
              /\ \A j \in Pages : InUse(j)' <=> InUse(j) /\ j # f
    BY <2>1, FreeEffect
  <2>3. HeldArePages'
    BY <2>2 DEF PmmInv, HeldArePages
  <2>4. BitmapExact'
    <3> SUFFICES ASSUME NEW j \in Pages
                 PROVE  InUse(j)' <=> j < pages_to_protect \/ pmm_translator(j) \in held'
      BY DEF BitmapExact
    <3>1. InUse(j) <=> j < pages_to_protect \/ pmm_translator(j) \in held
      BY DEF PmmInv, BitmapExact
    <3>2. pmm_translator(j) \in held' <=> pmm_translator(j) \in held /\ j # f
      BY <2>2, TranslationInjective
    <3>3. j = f => ~(j < pages_to_protect)
      BY <2>2, ProtectedPages DEF Pages
    <3> QED BY <2>2, <3>1, <3>2, <3>3
  <2> QED BY <2>2, <2>3, <2>4 DEF PmmInv
<1>3. CASE UNCHANGED vars
  BY <1>3 DEF PmmInv, HeldArePages, BitmapExact, InUse, vars
<1> QED BY <1>1, <1>2, <1>3, StepCases

\* The bitmap and the holders of pages agree in every reachable state.
THEOREM BitmapIsExact == Spec => []BitmapExact
<1>1. PmmInv => BitmapExact
  BY DEF PmmInv
<1> QED BY <1>1, InitPmmInv, NextPmmInv, PTL DEF Spec

\* init_pmm() protects enough: no page that pmm_alloc_page() returns reaches
\* into the firmware, the kernel or the bitmap.
THEOREM KernelIsSafe == Spec => []KernelNeverHandedOut
<1>1. PmmInv => KernelNeverHandedOut
  <2> SUFFICES ASSUME PmmInv, NEW p \in held PROVE p >= end + bitmap_size
    BY DEF KernelNeverHandedOut
  <2>1. PICK f \in Pages : f >= pages_to_protect /\ p = pmm_translator(f)
    BY DEF PmmInv, HeldArePages
  <2>2. PAGE_SIZE * f >= PAGE_SIZE * pages_to_protect
    BY <2>1, ProtectedPages, PmmAssumption, SMT DEF Pages
  <2>3. PAGE_SIZE * f \in Int /\ PAGE_SIZE * pages_to_protect \in Int
    BY ProtectedPages, PmmAssumption, SMT DEF Pages
  <2> QED BY <2>1, <2>2, <2>3, ProtectedPages, PmmAssumption DEF pmm_translator
<1> QED BY <1>1, InitPmmInv, NextPmmInv, PTL DEF Spec

\* The bitmap is exact and nothing of the kernel's is ever handed out.
THEOREM BitmapIsSound == Spec => []BitmapSound
<1>1. BitmapExact /\ KernelNeverHandedOut => BitmapSound
  BY DEF BitmapSound
<1> QED BY <1>1, BitmapIsExact, KernelIsSafe, PTL

\* The bitmap implements the set of free frames: the page handed out is the
\* lowest free one, a freed page is free again, nothing else changes.
THEOREM BitmapImplementsFrameSet == Spec => ImplementsFrameSet
<1>1. Init => F!Init
  <2> SUFFICES ASSUME Init PROVE Unmarked = pages_to_protect .. TOTAL_PAGES - 1
    BY DEF F!Init
  <2>1. ASSUME NEW f \in Pages PROVE InUse(f) <=> f < pages_to_protect
    BY InitPmmInv DEF PmmInv, BitmapExact, Init
  <2> QED BY <2>1, ProtectedPages, PmmAssumption DEF Unmarked, Pages
<1>2. PmmInv /\ [Next]_vars => [F!Alloc \/ F!Free]_Unmarked
  <2> SUFFICES ASSUME PmmInv, [Next]_vars PROVE F!Alloc \/ F!Free \/ Unmarked' = Unmarked
    OBVIOUS
  <2>1. CASE pmm_alloc_page
    <3>1. PICK f \in Pages :
              /\ ~InUse(f) /\ \A j \in 0 .. f - 1 : InUse(j)
              /\ \A j \in Pages : InUse(j)' <=> InUse(j) \/ j = f
      BY <2>1, AllocEffect
    <3>2. f \in Unmarked /\ Unmarked' = Unmarked \ {f}
      BY <3>1 DEF Unmarked
    <3>3. \A g \in Unmarked : f <= g
      BY <3>1, PmmAssumption DEF Unmarked, Pages
    <3> QED BY <3>2, <3>3 DEF F!Alloc
  <2>2. CASE \E p \in held : pmm_free_page(p)
    <3>1. PICK f \in Pages :
              /\ f >= pages_to_protect /\ InUse(f)
              /\ \A j \in Pages : InUse(j)' <=> InUse(j) /\ j # f
      BY <2>2, FreeEffect
    <3>2. f \in (pages_to_protect .. TOTAL_PAGES - 1) \ Unmarked
      BY <3>1, ProtectedPages, PmmAssumption DEF Unmarked, Pages
    <3>3. Unmarked' = Unmarked \cup {f}
      BY <3>1 DEF Unmarked
    <3> QED BY <3>2, <3>3 DEF F!Free
  <2>3. CASE UNCHANGED vars
    BY <2>3 DEF vars, Unmarked, InUse
  <2> QED BY <2>1, <2>2, <2>3, StepCases
<1> QED BY <1>1, <1>2, InitPmmInv, NextPmmInv, PTL DEF Spec, ImplementsFrameSet, F!Spec

-----------------------------------------------------------------------------
(* load_elf().                                                             *)

\* Of a page that is loaded, with the header load_elf() is at: it starts below
\* the end of a segment that is done, or of the one being loaded.
BelowEnd(p) ==
    \/ p * PAGE_SIZE < max_end
    \/ i <= Len(phdr) /\ phdr[i].load /\ p * PAGE_SIZE < phdr[i].vaddr + phdr[i].memsz

\* The inductive invariant: the position of the heap needs to know what
\* load_elf() has yet to count.
ElfInv ==
    /\ phdr \in Seq(Headers)
    /\ i \in Nat \ {0} /\ current_offset \in Nat /\ max_end \in Nat /\ heap_break \in Int
    /\ DOMAIN pages = 0 .. PAGES
    /\ result = "loading" => \A p \in 0 .. PAGES - 1 : pages[p].flags # {} => BelowEnd(p)
    /\ HeapAboveImage

\* The loader begins with nothing mapped.
LEMMA InitElfInv == ElfInit => ElfInv
<1> SUFFICES ASSUME ElfInit PROVE ElfInv
  OBVIOUS
<1>1. phdr \in Seq(Headers)
  <2>1. PICK n \in 1 .. MAX_HEADERS : phdr \in [1 .. n -> Headers]
    BY DEF ElfInit
  <2> QED BY <2>1
<1>2. \A p \in 0 .. PAGES : pages[p].flags = {}
  BY DEF ElfInit, Unmapped
<1>3. PAGES \in Nat \ {0}
  BY ElfAssumption
<1>4. /\ i \in Nat \ {0} /\ current_offset \in Nat /\ max_end \in Nat
      /\ heap_break \in Int /\ DOMAIN pages = 0 .. PAGES
  BY DEF ElfInit
<1>6. \A p \in 0 .. PAGES - 1 : pages[p].flags = {}
  BY <1>2, <1>3
<1>7. HeapAboveImage
  BY <1>6 DEF ElfInit, HeapAboveImage
<1> QED BY <1>1, <1>4, <1>6, <1>7 DEF ElfInv

\* The header load_elf() is at.
LEMMA HeaderFacts ==
    ASSUME ElfInv, i <= Len(phdr)
    PROVE  /\ phdr[i] \in Headers
           /\ phdr[i].vaddr \in Nat /\ phdr[i].memsz \in Nat
           /\ phdr[i].vaddr + phdr[i].memsz <= PAGES * PAGE_SIZE
<1>1. phdr[i] \in Headers
  BY DEF ElfInv
<1> QED BY <1>1, ElfAssumption

\* The page of an address is below it, and below the stack if the address is.
LEMMA PageOf ==
    ASSUME NEW a \in Nat, a < PAGES * PAGE_SIZE
    PROVE  /\ a \div PAGE_SIZE \in 0 .. PAGES - 1
           /\ (a \div PAGE_SIZE) * PAGE_SIZE <= a
<1> DEFINE q == a \div PAGE_SIZE
<1>1. PAGE_SIZE \in Nat \ {0} /\ PAGES \in Nat
  BY ElfAssumption
<1>2. q \in Int /\ a = PAGE_SIZE * q + (a % PAGE_SIZE) /\ a % PAGE_SIZE \in Nat /\ q >= 0
  BY <1>1, SMT
<1>3. PAGE_SIZE * q \in Int /\ PAGE_SIZE * q = q * PAGE_SIZE
  BY <1>1, <1>2, SMT
<1>4. q * PAGE_SIZE <= a
  BY <1>2, <1>3
<1>5. q < PAGES
  <2> SUFFICES ASSUME q >= PAGES PROVE FALSE
    BY <1>1, <1>2
  <2>1. q * PAGE_SIZE >= PAGES * PAGE_SIZE
    BY <1>1, <1>2, SMT
  <2> QED BY <2>1, <1>3, <1>4, <1>1, SMT
<1> QED BY <1>1, <1>2, <1>4, <1>5

\* One page of a segment keeps the invariant.
LEMMA LoadPageElfInv ==
    ASSUME ElfInv, LoadPage
    PROVE  ElfInv'
<1> DEFINE a == phdr[i].vaddr + current_offset
           q == a \div PAGE_SIZE
<1>1. /\ i <= Len(phdr) /\ phdr[i].load /\ current_offset < phdr[i].memsz
      /\ result = "loading"
      /\ UNCHANGED <<phdr, i, max_end, heap_break, result>>
      /\ current_offset' = current_offset + PAGE_SIZE
  BY DEF LoadPage, MorePages, Loading
<1>2. /\ phdr[i].vaddr \in Nat /\ phdr[i].memsz \in Nat
      /\ phdr[i].vaddr + phdr[i].memsz <= PAGES * PAGE_SIZE
  BY <1>1, HeaderFacts
<1>3. PAGES * PAGE_SIZE \in Nat
  BY ElfAssumption, SMT
<1>4. a \in Nat /\ a < PAGES * PAGE_SIZE /\ a < phdr[i].vaddr + phdr[i].memsz
  BY <1>1, <1>2, <1>3 DEF ElfInv
<1>5. q \in 0 .. PAGES - 1 /\ q * PAGE_SIZE <= a
  BY <1>4, PageOf
<1>6. PICK content : pages' = [pages EXCEPT ![q] = [flags |-> PageFlags(phdr[i].flags),
                                                    bytes |-> content]]
  BY DEF LoadPage
<1>7. /\ DOMAIN pages' = 0 .. PAGES
      /\ \A p \in 0 .. PAGES : p # q => pages'[p] = pages[p]
      /\ pages'[q].flags = PageFlags(phdr[i].flags)
  BY <1>5, <1>6, ElfAssumption DEF ElfInv
<1>9. ASSUME NEW p \in 0 .. PAGES - 1, pages'[p].flags # {} PROVE BelowEnd(p)'
  <2>1. CASE p = q
    <3>1. q * PAGE_SIZE \in Int
      BY <1>5, ElfAssumption, SMT
    <3> QED BY <2>1, <3>1, <1>1, <1>2, <1>4, <1>5 DEF BelowEnd
  <2>2. CASE p # q
    <3>1. pages[p].flags # {}
      BY <2>2, <1>7, <1>9, ElfAssumption
    <3> QED BY <3>1, <1>1 DEF ElfInv, BelowEnd
  <2> QED BY <2>1, <2>2
<1>10. HeapAboveImage'
  BY <1>1 DEF HeapAboveImage
<1> QED BY <1>1, <1>7, <1>9, <1>10, ElfAssumption DEF ElfInv

\* So does going on to the next program header.
LEMMA NextHeaderElfInv ==
    ASSUME ElfInv, NextHeader
    PROVE  ElfInv'
<1>1. /\ i <= Len(phdr) /\ result = "loading" /\ i' = i + 1 /\ current_offset' = 0
      /\ UNCHANGED <<phdr, pages, heap_break, result>>
      /\ max_end' = IF phdr[i].load THEN MaxEnd(phdr[i]) ELSE max_end
  BY DEF NextHeader, Loading
<1>2. phdr[i].vaddr \in Nat /\ phdr[i].memsz \in Nat
  BY <1>1, HeaderFacts
<1>3. /\ max_end' \in Nat /\ max_end' >= max_end
      /\ phdr[i].load => max_end' >= phdr[i].vaddr + phdr[i].memsz
  BY <1>1, <1>2 DEF ElfInv, MaxEnd
<1>4. ASSUME NEW p \in 0 .. PAGES - 1, pages'[p].flags # {} PROVE BelowEnd(p)'
  <2>1. BelowEnd(p)
    BY <1>1, <1>4 DEF ElfInv
  <2>2. p * PAGE_SIZE \in Int
    BY ElfAssumption, SMT
  <2>3. p * PAGE_SIZE < max_end'
    BY <2>1, <2>2, <1>2, <1>3 DEF BelowEnd, ElfInv
  <2> QED BY <2>3 DEF BelowEnd
<1>5. HeapAboveImage'
  BY <1>1 DEF ElfInv, HeapAboveImage
<1> QED BY <1>1, <1>3, <1>4, <1>5 DEF ElfInv

\* Rounding up to a page goes past every page that starts below.
LEMMA RoundUp ==
    ASSUME NEW m \in Nat, NEW p \in Nat, p * PAGE_SIZE < m
    PROVE  (p + 1) * PAGE_SIZE <= PAGE_SIZE * ((m + PAGE_SIZE - 1) \div PAGE_SIZE)
<1> DEFINE n == m + PAGE_SIZE - 1
           q == n \div PAGE_SIZE
<1>1. PAGE_SIZE \in Nat \ {0}
  BY ElfAssumption
<1>2. n \in Nat
  BY <1>1
<1>3. q \in Int /\ n = PAGE_SIZE * q + (n % PAGE_SIZE) /\ n % PAGE_SIZE \in Nat /\ n % PAGE_SIZE < PAGE_SIZE
  BY <1>1, <1>2, SMT
<1>4. p < q
  <2> SUFFICES ASSUME p >= q PROVE FALSE
    BY <1>3
  <2>1. p * PAGE_SIZE >= PAGE_SIZE * q
    BY <1>1, <1>3, SMT
  <2>2. p * PAGE_SIZE \in Int /\ PAGE_SIZE * q \in Int
    BY <1>1, <1>3, SMT
  <2> QED BY <2>1, <2>2, <1>1, <1>3
<1> QED BY <1>1, <1>3, <1>4, SMT

\* And the end of the loop.
LEMMA FinishElfInv ==
    ASSUME ElfInv, Finish
    PROVE  ElfInv'
<1>1. /\ i > Len(phdr) /\ result = "loading" /\ result' = "0"
      /\ UNCHANGED <<phdr, i, current_offset, max_end>>
      /\ heap_break' = PAGE_SIZE * ((max_end + PAGE_SIZE - 1) \div PAGE_SIZE)
  BY DEF Finish, Loading
<1>2. /\ DOMAIN pages' = 0 .. PAGES
      /\ \A p \in 0 .. PAGES - 1 : pages'[p] = pages[p]
      /\ pages'[PAGES] = pages[PAGES] \/ pages'[PAGES].flags = {"U", "R", "W"}
  BY ElfAssumption DEF Finish, ElfInv, StackPage, Unmapped
<1>3. heap_break' \in Int
  <2>1. max_end + PAGE_SIZE - 1 \in Nat /\ PAGE_SIZE \in Nat \ {0}
    BY ElfAssumption DEF ElfInv
  <2>2. (max_end + PAGE_SIZE - 1) \div PAGE_SIZE \in Int
    BY <2>1, SMT
  <2> QED BY <1>1, <2>1, <2>2, SMT
<1>5. HeapAboveImage'
  <2> SUFFICES ASSUME NEW p \in 0 .. PAGES - 1, pages'[p].flags # {}
               PROVE  (p + 1) * PAGE_SIZE <= heap_break'
    BY DEF HeapAboveImage
  <2>1. p * PAGE_SIZE < max_end
    BY <1>1, <1>2 DEF ElfInv, BelowEnd
  <2> QED BY <2>1, <1>1, RoundUp DEF ElfInv
<1> QED BY <1>1, <1>2, <1>3, <1>5 DEF ElfInv

\* Every step keeps it.
LEMMA NextElfInv == ElfInv /\ [ElfNext]_elfVars => ElfInv'
<1> SUFFICES ASSUME ElfInv, [ElfNext]_elfVars PROVE ElfInv'
  OBVIOUS
<1>1. ASSUME NEW r \in {"-1", "spin"}, Returns(r) PROVE ElfInv'
  BY <1>1 DEF Returns, ElfInv, HeapAboveImage
<1>2. CASE BadMagic
  BY <1>1, <1>2 DEF BadMagic
<1>3. CASE OutOfMemory
  BY <1>1, <1>3 DEF OutOfMemory
<1>4. CASE NoStack
  BY <1>1, <1>4 DEF NoStack
<1>5. CASE UNCHANGED elfVars
  BY <1>5 DEF elfVars, ElfInv, HeapAboveImage, BelowEnd
<1> QED BY <1>2, <1>3, <1>4, <1>5, LoadPageElfInv, NextHeaderElfInv, FinishElfInv DEF ElfNext

\* A program's heap starts above every page that was loaded for it, for every
\* image, aligned or not, and every order of its headers.
THEOREM ElfHeapAboveImage == ElfSpec => []HeapAboveImage
<1>1. ElfInv => HeapAboveImage
  BY DEF ElfInv
<1> QED BY <1>1, InitElfInv, NextElfInv, PTL DEF ElfSpec

-----------------------------------------------------------------------------
(* What is in the pages of an image whose segments are aligned.            *)

\* The programs the linker script makes: segments on pages of their own.
Aligned == PagesDisjoint /\ \A k \in Segments : phdr[k].vaddr % PAGE_SIZE = 0

\* The bytes of the pages of segment k are in place, up to address e.
InPlaceUpTo(k, e) ==
    \A a \in 0 .. PAGES * PAGE_SIZE - 1 :
        a \div PAGE_SIZE \in SegmentPages(k) /\ a < e => ByteInPlace(k, a - phdr[k].vaddr)

\* The segments before header i are in place, and segment i is as far as the
\* loop over its pages is.
Progress ==
    \A k \in Segments :
        /\ k < i => InPlaceUpTo(k, PAGES * PAGE_SIZE)
        /\ k = i => InPlaceUpTo(k, phdr[k].vaddr + current_offset)

\* The inductive invariant for the contents: the loop takes whole pages.
LoadInv ==
    /\ ElfInv
    /\ current_offset % PAGE_SIZE = 0
    /\ Aligned /\ result \in {"loading", "0"} => Progress
    /\ result = "0" => i > Len(phdr)

\* The pages of segment k are pages below the stack, from that of its first
\* byte on.
LEMMA SegmentFacts ==
    ASSUME ElfInv, NEW k \in Segments
    PROVE  /\ k \in 1 .. Len(phdr) /\ phdr[k] \in Headers
           /\ phdr[k].vaddr \in Nat /\ phdr[k].memsz \in Nat \ {0}
           /\ phdr[k].filesz \in 0 .. phdr[k].memsz
           /\ phdr[k].vaddr + phdr[k].memsz <= PAGES * PAGE_SIZE
           /\ phdr[k].load
<1>1. k \in 1 .. Len(phdr) /\ phdr[k] \in Headers /\ phdr[k].load /\ phdr[k].memsz > 0
  BY DEF ElfInv, Segments
<1>2. /\ phdr[k].vaddr \in Nat /\ phdr[k].memsz \in Nat
      /\ phdr[k].filesz \in 0 .. phdr[k].memsz
      /\ phdr[k].vaddr + phdr[k].memsz <= PAGES * PAGE_SIZE
  BY <1>1, ElfAssumption
<1> QED BY <1>1, <1>2

\* An address in a page of an aligned segment is not before the segment.
LEMMA NotBefore ==
    ASSUME ElfInv, NEW k \in Segments, phdr[k].vaddr % PAGE_SIZE = 0,
           NEW a \in Nat, a \div PAGE_SIZE \in SegmentPages(k)
    PROVE  a >= phdr[k].vaddr
<1> DEFINE v == phdr[k].vaddr \div PAGE_SIZE
           d == a \div PAGE_SIZE
<1>0. PAGE_SIZE \in Nat \ {0} /\ phdr[k].vaddr \in Nat
  BY ElfAssumption, SegmentFacts
<1>1. v \in Nat /\ phdr[k].vaddr = PAGE_SIZE * v
  BY <1>0, ExactDiv
<1>2. d \in Nat /\ PAGE_SIZE * d \in Nat /\ PAGE_SIZE * d <= a
  <2>1. d \in Nat /\ a % PAGE_SIZE \in 0 .. PAGE_SIZE - 1 /\ PAGE_SIZE * d \in Nat
        /\ a = PAGE_SIZE * d + (a % PAGE_SIZE)
    BY <1>0, DivFacts
  <2> HIDE DEF d
  <2> QED BY <1>0, <2>1
<1>3. v <= d
  <2>1. (phdr[k].vaddr + phdr[k].memsz - 1) \in Nat
    BY SegmentFacts
  <2>2. (phdr[k].vaddr + phdr[k].memsz - 1) \div PAGE_SIZE \in Nat
    BY <1>0, <2>1, DivFacts
  <2> QED BY <1>1, <2>2 DEF SegmentPages
<1> HIDE DEF v, d
<1>4. CASE v = d
  BY <1>1, <1>2, <1>4
<1>5. CASE v < d
  <2>1. PAGE_SIZE * v + PAGE_SIZE <= PAGE_SIZE * d
    BY <1>0, <1>1, <1>2, <1>5, MultipleStep
  <2> QED BY <1>0, <1>1, <1>2, <2>1
<1> QED BY <1>1, <1>2, <1>3, <1>4, <1>5

\* A segment of which nothing is loaded yet is in place up to its start.
LEMMA NothingYet ==
    ASSUME ElfInv, NEW k \in Segments, phdr[k].vaddr % PAGE_SIZE = 0
    PROVE  InPlaceUpTo(k, phdr[k].vaddr)
<1> SUFFICES ASSUME NEW a \in 0 .. PAGES * PAGE_SIZE - 1,
                    a \div PAGE_SIZE \in SegmentPages(k), a < phdr[k].vaddr
             PROVE  FALSE
  BY DEF InPlaceUpTo
<1>1. a \in Nat /\ phdr[k].vaddr \in Nat
  BY SegmentFacts
<1>2. a >= phdr[k].vaddr
  BY <1>1, NotBefore
<1> QED BY <1>1, <1>2

\* When the loop has passed the segment's size it has passed its last page.
LEMMA AllPassed ==
    ASSUME ElfInv, NEW k \in Segments, phdr[k].vaddr % PAGE_SIZE = 0,
           current_offset % PAGE_SIZE = 0, current_offset >= phdr[k].memsz,
           NEW a \in Nat, a \div PAGE_SIZE \in SegmentPages(k)
    PROVE  a < phdr[k].vaddr + current_offset
<1> DEFINE v == phdr[k].vaddr \div PAGE_SIZE
           o == current_offset \div PAGE_SIZE
           d == a \div PAGE_SIZE
           l == phdr[k].vaddr + phdr[k].memsz - 1
           e == l \div PAGE_SIZE
<1>0. PAGE_SIZE \in Nat \ {0} /\ phdr[k].vaddr \in Nat /\ current_offset \in Nat
      /\ l \in Nat /\ l < phdr[k].vaddr + current_offset
  <2>1. PAGE_SIZE \in Nat \ {0} /\ phdr[k].vaddr \in Nat /\ phdr[k].memsz \in Nat \ {0}
    BY ElfAssumption, SegmentFacts
  <2>2. current_offset \in Nat
    BY DEF ElfInv
  <2>3. l \in Nat
    BY <2>1
  <2>4. l < phdr[k].vaddr + current_offset
    BY <2>1, <2>2
  <2> QED BY <2>1, <2>2, <2>3, <2>4
<1>1. v \in Nat /\ phdr[k].vaddr = PAGE_SIZE * v /\ o \in Nat /\ current_offset = PAGE_SIZE * o
  BY <1>0, ExactDiv
<1>2. /\ d \in Nat /\ PAGE_SIZE * d \in Nat /\ a < PAGE_SIZE * d + PAGE_SIZE
      /\ e \in Nat /\ PAGE_SIZE * e \in Nat /\ PAGE_SIZE * e <= l
  <2>1. /\ d \in Nat /\ a % PAGE_SIZE \in 0 .. PAGE_SIZE - 1 /\ PAGE_SIZE * d \in Nat
        /\ a = PAGE_SIZE * d + (a % PAGE_SIZE)
    BY <1>0, DivFacts
  <2>2. /\ e \in Nat /\ l % PAGE_SIZE \in 0 .. PAGE_SIZE - 1 /\ PAGE_SIZE * e \in Nat
        /\ l = PAGE_SIZE * e + (l % PAGE_SIZE)
    BY <1>0, DivFacts
  <2> HIDE DEF d, e, l
  <2>3. a < PAGE_SIZE * d + PAGE_SIZE
    <3>1. PICK r \in 0 .. PAGE_SIZE - 1 : a = PAGE_SIZE * d + r
      BY <2>1
    <3> QED BY <1>0, <2>1, <3>1
  <2>4. PAGE_SIZE * e <= l
    BY <1>0, <2>2
  <2> QED BY <2>1, <2>2, <2>3, <2>4
<1>3. d <= e
  <2>1. d \in v .. e
    BY DEF SegmentPages
  <2> QED BY <1>1, <1>2, <2>1
<1>4. PAGE_SIZE * (v + o) = phdr[k].vaddr + current_offset /\ v + o \in Nat
  <2> HIDE DEF v, o
  <2>1. PAGE_SIZE * (v + o) = PAGE_SIZE * v + PAGE_SIZE * o
    BY <1>0, <1>1, SMT
  <2> QED BY <1>1, <2>1
<1>5. PICK s \in Nat : s = v + o
  BY <1>4
<1>6. PAGE_SIZE * s = phdr[k].vaddr + current_offset
  BY <1>4, <1>5
<1> HIDE DEF v, o, d, e, l
<1>7. ~(s <= e)
  <2> SUFFICES ASSUME s <= e PROVE FALSE
    OBVIOUS
  <2>1. PAGE_SIZE * s <= PAGE_SIZE * e
    <3>1. CASE s = e
      BY <1>2, <3>1
    <3>2. CASE s < e
      <4>1. PAGE_SIZE * s + PAGE_SIZE <= PAGE_SIZE * e /\ PAGE_SIZE * s \in Nat
        BY <1>0, <1>2, <3>2, MultipleStep
      <4> QED BY <1>0, <1>2, <4>1
    <3> QED BY <1>2, <1>5, <3>1, <3>2
  <2> QED BY <1>0, <1>2, <1>6, <2>1
<1>8. d < s
  BY <1>2, <1>3, <1>5, <1>7
<1>9. PAGE_SIZE * d + PAGE_SIZE <= PAGE_SIZE * s
  BY <1>0, <1>2, <1>8, MultipleStep
<1> QED BY <1>0, <1>2, <1>6, <1>9

\* One byte of the page that a turn of the loop fills.
LEMMA CopiedByte ==
    ASSUME NEW filesz \in Nat, NEW off \in Nat, NEW j \in 0 .. PAGE_SIZE - 1
    PROVE  j < copy_size(filesz, off) <=> off + j < filesz
BY ElfAssumption DEF copy_size

\* A turn of the loop puts the next page of its segment in place and, since the
\* segments have no page in common, moves nothing that is in place.
LEMMA LoadPageProgress ==
    ASSUME LoadInv, LoadPage, ElfInv', Aligned
    PROVE  Progress'
<1> DEFINE h == phdr[i]
           V == phdr[i].vaddr
           q == (V + current_offset) \div PAGE_SIZE
           v == V \div PAGE_SIZE
           o == current_offset \div PAGE_SIZE
<1>1. /\ i <= Len(phdr) /\ phdr[i].load /\ current_offset < phdr[i].memsz
      /\ UNCHANGED <<phdr, i>>
      /\ current_offset' = current_offset + PAGE_SIZE /\ result = "loading"
      /\ PAGE_SIZE \in Nat \ {0} /\ PAGES \in Nat \ {0} /\ current_offset \in Nat
      /\ i \in Nat \ {0} /\ DOMAIN pages = 0 .. PAGES /\ ElfInv
  BY ElfAssumption DEF LoadPage, MorePages, Loading, LoadInv, ElfInv
<1>p. PAGE_SIZE \in Nat \ {0}
  BY <1>1
<1>o. current_offset \in Nat
  BY <1>1
<1>2. /\ phdr[i].vaddr \in Nat /\ phdr[i].memsz \in Nat
      /\ phdr[i].vaddr + phdr[i].memsz <= PAGES * PAGE_SIZE
  BY <1>1, HeaderFacts
<1>3. i \in Segments
  BY <1>1, <1>2 DEF Segments, ElfInv
<1>4. phdr[i].filesz \in Nat
  BY <1>1, <1>3, SegmentFacts
<1>5. v \in Nat /\ V = PAGE_SIZE * v /\ o \in Nat /\ current_offset = PAGE_SIZE * o
  <2>1. V % PAGE_SIZE = 0 /\ current_offset % PAGE_SIZE = 0
    BY <1>3 DEF Aligned, LoadInv
  <2> QED BY <1>1, <1>2, <2>1, ExactDiv
<1>6. PICK s \in Nat : s = v + o /\ PAGE_SIZE * s = V + current_offset
  <2> HIDE DEF v, o, V
  <2>1. PAGE_SIZE * (v + o) = PAGE_SIZE * v + PAGE_SIZE * o
    BY <1>1, <1>5, SMT
  <2>2. v + o \in Nat
    BY <1>5
  <2> QED BY <1>5, <2>1, <2>2
<1> DEFINE B == PAGE_SIZE * s
<1>b. B \in Nat /\ B = V + current_offset
  <2>1. V + current_offset \in Nat
    BY <1>1, <1>2
  <2> QED BY <1>6, <2>1
<1>d. \A a \in Nat : a \div PAGE_SIZE = s <=> B <= a /\ a < B + PAGE_SIZE
  <2> SUFFICES ASSUME NEW a \in Nat
               PROVE  a \div PAGE_SIZE = s <=> B <= a /\ a < B + PAGE_SIZE
    OBVIOUS
  <2>1. ASSUME a \div PAGE_SIZE = s PROVE B <= a /\ a < B + PAGE_SIZE
    <3>1. PICK r \in 0 .. PAGE_SIZE - 1 : a = B + r
      BY <1>1, <2>1, DivFacts
    <3> HIDE DEF B
    <3> QED BY <1>1, <1>b, <3>1
  <2>2. ASSUME B <= a, a < B + PAGE_SIZE PROVE a \div PAGE_SIZE = s
    <3>1. PICK r \in 0 .. PAGE_SIZE - 1 : a = B + r
      <4> HIDE DEF B
      <4>1. a - B \in 0 .. PAGE_SIZE - 1 /\ a = B + (a - B)
        BY <1>1, <1>b, <2>2
      <4> QED BY <4>1
    <3>2. PICK b \in Nat : b = B
      BY <1>b
    <3>3. b = PAGE_SIZE * s /\ a = b + r
      BY <3>1, <3>2
    <3> HIDE DEF B
    <3>4. b = PAGE_SIZE * s
      BY <3>3
    <3>5. a = b + r
      BY <3>3
    <3> QED BY <1>p, <3>4, <3>5, DivUnique
  <2> QED BY <2>1, <2>2
<1> HIDE DEF B
<1>7. q = s
  <2>1. PICK x \in Nat : x = V + current_offset
    BY <1>b
  <2>2. B <= x /\ x < B + PAGE_SIZE
    BY <1>1, <1>b, <2>1
  <2>3. x \div PAGE_SIZE = s
    BY <1>d, <2>2, Zenon
  <2> QED BY <2>1, <2>3
<1>8. q \in SegmentPages(i)
  <2> DEFINE l == V + phdr[i].memsz - 1
  <2>a. V \in Nat /\ current_offset \in Nat /\ phdr[i].memsz \in Nat
        /\ current_offset < phdr[i].memsz
    BY <1>1, <1>2
  <2> HIDE DEF V
  <2>1. V + current_offset \in Nat /\ l \in Nat /\ V <= V + current_offset
        /\ V + current_offset <= l
    BY <2>a
  <2> USE DEF V
  <2>2. V \div PAGE_SIZE <= q /\ q <= l \div PAGE_SIZE
    BY <1>1, <1>2, <2>1, DivMonotone
  <2>3. V \div PAGE_SIZE \in Nat /\ l \div PAGE_SIZE \in Nat
    BY <1>1, <1>2, <2>1, DivFacts
  <2> QED BY <1>6, <1>7, <2>2, <2>3 DEF SegmentPages
<1>9. q \in 0 .. PAGES - 1
  <2>1. V + current_offset \in Nat /\ V + current_offset < PAGES * PAGE_SIZE
    <3>1. PAGES * PAGE_SIZE \in Nat
      BY <1>1, SMT
    <3> QED BY <1>1, <1>2, <3>1
  <2> QED BY <2>1, PageOf
<1> DEFINE n == copy_size(phdr[i].filesz, current_offset)
           new == [flags |-> PageFlags(phdr[i].flags),
                   bytes |-> [j \in 0 .. PAGE_SIZE - 1 |->
                                IF j < n THEN <<i, current_offset + j>> ELSE ZERO]]
<1>10. pages' = [pages EXCEPT ![q] = new]
  BY DEF LoadPage
<1>11. /\ pages'[q] = new /\ \A p \in 0 .. PAGES : p # q => pages'[p] = pages[p]
  <2>1. q \in 0 .. PAGES
    BY <1>1, <1>9
  <2> HIDE DEF q, new
  <2> QED BY <1>1, <1>10, <2>1
<1>12. /\ new.flags = Rights(phdr[i].flags)
       /\ \A j \in 0 .. PAGE_SIZE - 1 :
             new.bytes[j] = IF current_offset + j < phdr[i].filesz
                            THEN <<i, current_offset + j>> ELSE ZERO
  <2>1. new.flags = Rights(phdr[i].flags)
    <3>1. PageFlags(phdr[i].flags) = Rights(phdr[i].flags)
      BY DEF PageFlags, Rights
    <3> QED BY <3>1
  <2>2. \A j \in 0 .. PAGE_SIZE - 1 : j < n <=> current_offset + j < phdr[i].filesz
    BY <1>1, <1>4, CopiedByte
  <2>3. \A j \in 0 .. PAGE_SIZE - 1 :
           new.bytes[j] = IF j < n THEN <<i, current_offset + j>> ELSE ZERO
    OBVIOUS
  <2> HIDE DEF new, n
  <2> QED BY <2>1, <2>2, <2>3
<1> HIDE DEF h, V, q, v, o, n, new
<1>13. \A a \in 0 .. PAGES * PAGE_SIZE - 1 : a \in Nat /\ a \div PAGE_SIZE \in 0 .. PAGES - 1
  <2> SUFFICES ASSUME NEW a \in 0 .. PAGES * PAGE_SIZE - 1
               PROVE  a \in Nat /\ a \div PAGE_SIZE \in 0 .. PAGES - 1
    OBVIOUS
  <2>1. PAGES * PAGE_SIZE \in Nat
    BY <1>1, SMT
  <2>2. a \in Nat /\ a < PAGES * PAGE_SIZE
    BY <2>1
  <2> QED BY <2>2, PageOf
<1>14. Segments' = Segments /\ \A k \in Segments : SegmentPages(k)' = SegmentPages(k)
  BY <1>1 DEF Segments, SegmentPages
<1>15. ASSUME NEW k \in Segments, NEW a \in 0 .. PAGES * PAGE_SIZE - 1,
              a \div PAGE_SIZE \in SegmentPages(k), a \div PAGE_SIZE # q,
              ByteInPlace(k, a - phdr[k].vaddr)
       PROVE  ByteInPlace(k, a - phdr[k].vaddr)'
  <2>0. a \in Nat /\ a \div PAGE_SIZE \in 0 .. PAGES - 1
    BY <1>13
  <2>1. a \in Nat /\ phdr[k].vaddr \in Nat /\ a \div PAGE_SIZE \in 0 .. PAGES
    BY <1>1, <1>15, <2>0, SegmentFacts
  <2>2. pages'[a \div PAGE_SIZE] = pages[a \div PAGE_SIZE]
    BY <1>11, <1>15, <2>1
  <2>3. phdr[k].vaddr + (a - phdr[k].vaddr) = a
    BY <2>1
  <2> QED BY <1>1, <1>15, <2>2, <2>3 DEF ByteInPlace
<1>16. ASSUME NEW k \in Segments, k < i PROVE InPlaceUpTo(k, PAGES * PAGE_SIZE)'
  <2> SUFFICES ASSUME NEW a \in 0 .. PAGES * PAGE_SIZE - 1,
                      a \div PAGE_SIZE \in SegmentPages(k), a < PAGES * PAGE_SIZE
               PROVE  ByteInPlace(k, a - phdr[k].vaddr)'
    BY <1>1, <1>14 DEF InPlaceUpTo
  <2>1. ByteInPlace(k, a - phdr[k].vaddr)
    BY <1>1, <1>16 DEF LoadInv, Progress, InPlaceUpTo
  <2>2. a \div PAGE_SIZE # q
    <3>1. SegmentPages(k) \cap SegmentPages(i) = {}
      BY <1>1, <1>3, <1>16 DEF Aligned, PagesDisjoint
    <3> QED BY <1>8, <3>1
  <2> QED BY <1>15, <2>1, <2>2
<1>17. ASSUME NEW k \in Segments, k = i
       PROVE  InPlaceUpTo(k, phdr[k].vaddr + current_offset)'
  <2>a. SUFFICES ASSUME NEW a \in Nat, a \in 0 .. PAGES * PAGE_SIZE - 1,
                        a \div PAGE_SIZE \in SegmentPages(i),
                        a < phdr[i].vaddr + (current_offset + PAGE_SIZE)
                 PROVE  ByteInPlace(k, a - phdr[k].vaddr)'
    BY <1>1, <1>13, <1>14, <1>17 DEF InPlaceUpTo
  <2>0. a \in Nat /\ a \div PAGE_SIZE \in Nat
    BY <1>13, <2>a
  <2>1. CASE a \div PAGE_SIZE = q
    <3> DEFINE j == a % PAGE_SIZE
    <3>1. j \in 0 .. PAGE_SIZE - 1 /\ a = B + j
      BY <1>1, <1>7, <2>0, <2>1, DivFacts DEF B
    <3> HIDE DEF j
    <3>2. a - phdr[i].vaddr = current_offset + j /\ phdr[i].vaddr + (a - phdr[i].vaddr) = a
      <4>1. PICK w \in Nat : w = phdr[i].vaddr /\ B = w + current_offset
        BY <1>2, <1>b DEF V
      <4>2. a - w = current_offset + j /\ w + (a - w) = a
        BY <1>o, <1>p, <3>1, <4>1
      <4> QED BY <4>1, <4>2
    <3>3. pages'[a \div PAGE_SIZE] = new
      BY <1>11, <2>1
    <3>4. /\ pages'[a \div PAGE_SIZE].flags = Rights(phdr[i].flags)
          /\ pages'[a \div PAGE_SIZE].bytes[a % PAGE_SIZE] =
                IF a - phdr[i].vaddr < phdr[i].filesz
                THEN <<i, a - phdr[i].vaddr>> ELSE ZERO
      BY <1>12, <3>1, <3>2, <3>3 DEF j
    <3> QED BY <1>1, <1>17, <3>2, <3>4 DEF ByteInPlace
  <2>2. CASE a \div PAGE_SIZE # q
    <3>1. a < phdr[i].vaddr + current_offset
      <4>1. ~(B <= a /\ a < B + PAGE_SIZE)
        BY <1>7, <1>d, <2>0, <2>2
      <4>2. a < phdr[i].vaddr + (current_offset + PAGE_SIZE)
        BY <2>a
      <4> QED BY <1>1, <1>2, <1>b, <4>1, <4>2 DEF V
    <3>2. ByteInPlace(i, a - phdr[i].vaddr)
      BY <1>1, <1>3, <2>a, <3>1 DEF LoadInv, Progress, InPlaceUpTo
    <3>3. a \in 0 .. PAGES * PAGE_SIZE - 1 /\ a \div PAGE_SIZE \in SegmentPages(i)
      BY <2>a
    <3> QED BY <1>15, <1>17, <2>2, <3>2, <3>3
  <2> QED BY <2>1, <2>2
<1>18. Progress'
  BY <1>1, <1>14, <1>16, <1>17 DEF Progress
<1> QED BY <1>18

\* The next header: the segment the loop has left is in place to its last page,
\* and of the next one nothing has to be yet.
LEMMA NextHeaderProgress ==
    ASSUME LoadInv, NextHeader, ElfInv', Aligned
    PROVE  Progress'
<1>1. /\ i <= Len(phdr) /\ i' = i + 1 /\ current_offset' = 0 /\ i \in Nat
      /\ UNCHANGED <<phdr, pages>> /\ result = "loading" /\ ~MorePages /\ Loading
      /\ current_offset \in Nat /\ current_offset % PAGE_SIZE = 0 /\ ElfInv
  BY DEF NextHeader, Loading, LoadInv, ElfInv
<1>2. Progress
  BY <1>1 DEF LoadInv
<1>3. /\ Segments' = Segments
      /\ \A k \in Segments : SegmentPages(k)' = SegmentPages(k)
      /\ \A k, n : ByteInPlace(k, n)' <=> ByteInPlace(k, n)
  BY <1>1 DEF Segments, SegmentPages, ByteInPlace
<1>4. ASSUME NEW k \in Segments, k < i' PROVE InPlaceUpTo(k, PAGES * PAGE_SIZE)'
  <2>1. k \in Nat /\ (k < i \/ k = i)
    BY <1>1, <1>4, SegmentFacts
  <2>2. CASE k < i
    BY <1>1, <1>2, <1>3, <2>2 DEF Progress, InPlaceUpTo
  <2>3. CASE k = i
    <3>a. SUFFICES ASSUME NEW a \in Nat, a \in 0 .. PAGES * PAGE_SIZE - 1,
                          a \div PAGE_SIZE \in SegmentPages(k)
                   PROVE  ByteInPlace(k, a - phdr[k].vaddr)
      BY <1>1, <1>3 DEF InPlaceUpTo
    <3>1. phdr[k].load /\ phdr[k].memsz \in Nat /\ phdr[k].vaddr % PAGE_SIZE = 0
      BY <1>1, SegmentFacts DEF Aligned
    <3>2. current_offset >= phdr[k].memsz
      BY <1>1, <2>3, <3>1 DEF MorePages
    <3>3. a < phdr[k].vaddr + current_offset
      BY <1>1, <3>1, <3>2, <3>a, AllPassed
    <3> QED BY <1>2, <2>3, <3>3, <3>a DEF Progress, InPlaceUpTo
  <2> QED BY <2>1, <2>2, <2>3
<1>5. ASSUME NEW k \in Segments, k = i'
      PROVE  InPlaceUpTo(k, phdr[k].vaddr + current_offset)'
  <2>1. phdr[k].vaddr \in Nat /\ phdr[k].vaddr % PAGE_SIZE = 0
    BY <1>1, SegmentFacts DEF Aligned
  <2>2. InPlaceUpTo(k, phdr[k].vaddr)
    BY <1>1, <2>1, NothingYet
  <2>3. phdr[k].vaddr + 0 = phdr[k].vaddr
    BY <2>1
  <2> QED BY <1>1, <1>3, <2>2, <2>3 DEF InPlaceUpTo
<1> QED BY <1>3, <1>4, <1>5 DEF Progress

\* Mapping the stack page touches no page of the image.
LEMMA FinishProgress ==
    ASSUME LoadInv, Finish, Aligned
    PROVE  Progress' /\ (i > Len(phdr))'
<1>1. /\ i > Len(phdr) /\ result = "loading"
      /\ UNCHANGED <<phdr, i, current_offset>> /\ ElfInv
  BY DEF Finish, Loading, LoadInv
<1>2. Progress
  BY <1>1 DEF LoadInv
<1>3. \A p \in 0 .. PAGES - 1 : pages'[p] = pages[p]
  BY ElfAssumption, <1>1 DEF Finish, ElfInv, StackPage
<1>4. Segments' = Segments /\ \A k \in Segments : SegmentPages(k)' = SegmentPages(k)
  BY <1>1 DEF Segments, SegmentPages
<1>5. \A a \in 0 .. PAGES * PAGE_SIZE - 1 : a \in Nat /\ a \div PAGE_SIZE \in 0 .. PAGES - 1
  <2> SUFFICES ASSUME NEW a \in 0 .. PAGES * PAGE_SIZE - 1
               PROVE  a \in Nat /\ a \div PAGE_SIZE \in 0 .. PAGES - 1
    OBVIOUS
  <2>1. PAGES * PAGE_SIZE \in Nat
    BY ElfAssumption, SMT
  <2>2. a \in Nat /\ a < PAGES * PAGE_SIZE
    BY <2>1
  <2> QED BY <2>2, PageOf
<1>6. ASSUME NEW k \in Segments, NEW a \in 0 .. PAGES * PAGE_SIZE - 1,
             ByteInPlace(k, a - phdr[k].vaddr)
      PROVE  ByteInPlace(k, a - phdr[k].vaddr)'
  <2>1. phdr[k].vaddr + (a - phdr[k].vaddr) = a
    <3>1. PICK w \in Nat : w = phdr[k].vaddr
      BY <1>1, SegmentFacts
    <3>2. PICK b \in Nat : b = a
      BY <1>5
    <3>3. w + (b - w) = b
      OBVIOUS
    <3> QED BY <3>1, <3>2, <3>3
  <2>2. pages'[a \div PAGE_SIZE] = pages[a \div PAGE_SIZE]
    BY <1>3, <1>5
  <2> QED BY <1>1, <1>6, <2>1, <2>2 DEF ByteInPlace
<1>7. Progress'
  BY <1>1, <1>2, <1>4, <1>6 DEF Progress, InPlaceUpTo
<1> QED BY <1>1, <1>7

\* Before the first header nothing has to be in place.
LEMMA InitLoadInv == ElfInit => LoadInv
<1> SUFFICES ASSUME ElfInit PROVE LoadInv
  OBVIOUS
<1>1. ElfInv /\ i = 1 /\ current_offset = 0 /\ result = "loading"
  BY InitElfInv DEF ElfInit
<1>2. current_offset % PAGE_SIZE = 0
  <2>1. 0 \in 0 .. PAGE_SIZE - 1 /\ PAGE_SIZE * 0 = 0 /\ PAGE_SIZE \in Nat \ {0}
    BY ElfAssumption
  <2>2. (PAGE_SIZE * 0) % PAGE_SIZE = 0
    BY <2>1, MultipleDiv
  <2> QED BY <1>1, <2>1, <2>2
<1>3. ASSUME Aligned PROVE Progress
  <2> SUFFICES ASSUME NEW k \in Segments
               PROVE  ~(k < i) /\ (k = i => InPlaceUpTo(k, phdr[k].vaddr + current_offset))
    BY DEF Progress
  <2>1. k \in 1 .. Len(phdr) /\ phdr[k].vaddr \in Nat
    BY <1>1, SegmentFacts
  <2>2. InPlaceUpTo(k, phdr[k].vaddr)
    BY <1>1, <1>3, NothingYet DEF Aligned
  <2>3. phdr[k].vaddr + current_offset = phdr[k].vaddr
    BY <1>1, <2>1
  <2>4. ~(k < i)
    BY <1>1, <2>1
  <2> QED BY <2>2, <2>3, <2>4
<1> QED BY <1>1, <1>2, <1>3 DEF LoadInv

\* Every step of load_elf() keeps what it has put in place.
LEMMA NextLoadInv == LoadInv /\ [ElfNext]_elfVars => LoadInv'
<1> SUFFICES ASSUME LoadInv, [ElfNext]_elfVars PROVE LoadInv'
  OBVIOUS
<1>0. ElfInv' /\ ElfInv
  BY NextElfInv DEF LoadInv
<1>1. phdr' = phdr
  BY DEF ElfNext, BadMagic, Returns, LoadPage, OutOfMemory, NextHeader, Finish,
         NoStack, elfVars
<1>2. Aligned' <=> Aligned
  BY <1>1 DEF Aligned, PagesDisjoint, Segments, SegmentPages
<1>3. CASE LoadPage
  <2>1. result = "loading" /\ result' = result
    BY <1>3 DEF LoadPage, MorePages, Loading
  <2>2. (current_offset % PAGE_SIZE = 0)'
    <3>1. PICK o \in Nat : current_offset = PAGE_SIZE * o /\ PAGE_SIZE \in Nat \ {0}
      BY <1>0, ElfAssumption, ExactDiv DEF LoadInv, ElfInv
    <3>2. PAGE_SIZE * (o + 1) = current_offset + PAGE_SIZE
      <4>1. PAGE_SIZE * (o + 1) = PAGE_SIZE * o + PAGE_SIZE
        BY <3>1, SMT
      <4> QED BY <3>1, <4>1
    <3>3. PICK t \in Nat : t = o + 1
      OBVIOUS
    <3>4. (PAGE_SIZE * t) % PAGE_SIZE = 0
      BY <3>1, MultipleDiv
    <3>5. current_offset' = current_offset + PAGE_SIZE
      BY <1>3 DEF LoadPage
    <3> QED BY <3>2, <3>3, <3>4, <3>5
  <2>3. Aligned => Progress'
    BY <1>0, <1>3, LoadPageProgress
  <2> QED BY <1>0, <1>2, <2>1, <2>2, <2>3 DEF LoadInv
<1>4. CASE NextHeader
  <2>1. result = "loading" /\ result' = result /\ current_offset' = 0
    BY <1>4 DEF NextHeader, Loading
  <2>2. (current_offset % PAGE_SIZE = 0)'
    <3>1. PAGE_SIZE * 0 = 0 /\ PAGE_SIZE \in Nat \ {0}
      BY ElfAssumption
    <3>2. (PAGE_SIZE * 0) % PAGE_SIZE = 0
      BY <3>1, MultipleDiv
    <3> QED BY <2>1, <3>1, <3>2
  <2>3. Aligned => Progress'
    BY <1>0, <1>4, NextHeaderProgress
  <2> QED BY <1>0, <1>2, <2>1, <2>2, <2>3 DEF LoadInv
<1>5. CASE Finish
  <2>1. result' = "0" /\ current_offset' = current_offset /\ i' = i /\ i > Len(phdr)
    BY <1>5 DEF Finish
  <2>2. Aligned => Progress'
    BY <1>5, FinishProgress
  <2> QED BY <1>0, <1>1, <1>2, <2>1, <2>2 DEF LoadInv
<1>6. ASSUME NEW r \in {"-1", "spin"}, Returns(r) PROVE LoadInv'
  BY <1>0, <1>6 DEF LoadInv, Returns
<1>7. CASE UNCHANGED elfVars
  BY <1>0, <1>7
  DEF LoadInv, elfVars, Aligned, PagesDisjoint, Segments, SegmentPages, Progress,
      InPlaceUpTo, ByteInPlace
<1> QED BY <1>3, <1>4, <1>5, <1>6, <1>7 DEF ElfNext, BadMagic, OutOfMemory, NoStack

\* An image whose segments start at page boundaries is in memory as it was
\* linked when load_elf() returns 0, for every page size, every number of
\* headers and whatever their sizes and order.
THEOREM ImageIsInPlace == ElfSpec => []AlignedImageInPlace
<1>1. LoadInv => AlignedImageInPlace
  <2> SUFFICES ASSUME LoadInv, result = "0", Aligned,
                      NEW k \in Segments, NEW a \in 0 .. PAGES * PAGE_SIZE - 1,
                      a \div PAGE_SIZE \in SegmentPages(k)
               PROVE  ByteInPlace(k, a - phdr[k].vaddr)
    BY DEF AlignedImageInPlace, Aligned
  <2>1. k < i
    <3>1. k \in 1 .. Len(phdr) /\ i > Len(phdr) /\ i \in Nat /\ Len(phdr) \in Nat
      BY SegmentFacts DEF LoadInv, ElfInv
    <3> QED BY <3>1
  <2>2. InPlaceUpTo(k, PAGES * PAGE_SIZE)
    BY <2>1 DEF LoadInv, Progress
  <2>3. a < PAGES * PAGE_SIZE
    <3>1. PAGES * PAGE_SIZE \in Nat
      BY ElfAssumption, SMT
    <3> QED BY <3>1
  <2> QED BY <2>2, <2>3 DEF InPlaceUpTo
<1> QED BY <1>1, InitLoadInv, NextLoadInv, PTL DEF ElfSpec
-----------------------------------------------------------------------------
(* The checks of user pointers.                                            *)

\* A number is its own remainder when it is smaller than the divisor.
LEMMA SmallMod ==
    ASSUME NEW P \in Nat \ {0}, NEW n \in Nat, n < P
    PROVE  n % P = n
<1>1. P * 0 = 0 /\ 0 \in Nat /\ n \in 0 .. P - 1 /\ n = 0 + n
  OBVIOUS
<1> QED BY <1>1, DivUnique

\* Rounding down to a page.
LEMMA DownFacts ==
    ASSUME NEW n \in Nat
    PROVE  Down(n) = PAGE_SIZE * (n \div PAGE_SIZE)
<1> DEFINE d == n \div PAGE_SIZE
           r == n % PAGE_SIZE
<1>1. d \in Nat /\ r \in 0 .. PAGE_SIZE - 1 /\ PAGE_SIZE * d \in Nat /\ n = PAGE_SIZE * d + r
  BY AddressAssumption, DivFacts
<1>2. PICK b \in Nat : b = PAGE_SIZE * d
  BY <1>1
<1>3. n - r = b
  <2> HIDE DEF d, r
  <2>1. n = b + r
    BY <1>1, <1>2
  <2> QED BY <1>1, <2>1, AddressAssumption
<1> QED BY <1>2, <1>3 DEF Down

\* Above the address space there is room for a page: adding PAGE_SIZE - 1 to
\* the end of a range in it does not wrap around.
LEMMA RoomAbove == VSPACE + PAGE_SIZE <= WORD /\ WORD \in Nat \ {0}
<1> DEFINE w == WORD \div VSPACE
           x == VSPACE \div PAGE_SIZE
<1>1. w \in Nat /\ WORD = VSPACE * w /\ x \in Nat /\ VSPACE = PAGE_SIZE * x
  BY AddressAssumption, ExactDiv
<1> HIDE DEF w, x
<1>2. PAGE_SIZE <= VSPACE
  <2>1. x # 0
    BY <1>1, AddressAssumption
  <2>2. PAGE_SIZE * 0 + PAGE_SIZE <= PAGE_SIZE * x
    BY <1>1, <2>1, AddressAssumption, MultipleStep
  <2> QED BY <1>1, <2>2, AddressAssumption
<1>3. 1 < w
  <2>1. w # 0 /\ w # 1
    BY <1>1, AddressAssumption
  <2> QED BY <1>1, <2>1
<1>4. VSPACE * 1 + VSPACE <= VSPACE * w
  BY <1>1, <1>3, AddressAssumption, MultipleStep
<1>5. VSPACE + VSPACE <= WORD
  BY <1>1, <1>4, AddressAssumption
<1> QED BY <1>2, <1>5, AddressAssumption

\* The loop of user_range_ok() over a range that does not wrap looks at the pages
\* from that of the first byte to that of the last, and at no other.
LEMMA PagesLookedAt ==
    ASSUME NEW va \in Nat, NEW len \in Nat \ {0}, va + len + PAGE_SIZE - 1 < WORD
    PROVE  {q \in Down(va) .. RangeEnd(va, len) - 1 : q % PAGE_SIZE = 0}
             = {PAGE_SIZE * x : x \in va \div PAGE_SIZE .. (va + len - 1) \div PAGE_SIZE}
<1> DEFINE P == PAGE_SIZE
           l == va + len - 1
           f == va \div PAGE_SIZE
           e == l \div PAGE_SIZE
<1>0. P \in Nat \ {0} /\ WORD \in Nat \ {0}
  BY AddressAssumption, RoomAbove
<1>1. l \in Nat /\ va <= l
  BY <1>0
<1>2. f \in Nat /\ e \in Nat /\ P * f \in Nat /\ P * e \in Nat
  BY <1>0, <1>1, DivFacts
<1>3. Down(va) = P * f
  BY DownFacts
<1>4. RangeEnd(va, len) = P * (e + 1)
  <2>1. PICK n \in Nat : n = va + len + PAGE_SIZE - 1 /\ n = l + P /\ n < WORD
    BY <1>0, <1>1
  <2>2. n % WORD = n
    BY <1>0, <2>1, SmallMod
  <2>3. n \div PAGE_SIZE = e + 1
    <3>1. PICK r \in 0 .. P - 1 : l = P * e + r
      BY <1>0, <1>1, DivFacts
    <3>2. PICK b \in Nat : b = P * e
      BY <1>2
    <3>3. P * (e + 1) = b + P
      <4> HIDE DEF e
      <4>1. P * (e + 1) = P * e + P
        BY <1>0, <1>2, SMT
      <4> QED BY <3>2, <4>1
    <3>4. PICK g \in Nat : g = e + 1
      BY <1>2
    <3>5. PICK c \in Nat : c = P * g /\ c = b + P
      BY <1>0, <3>2, <3>3, <3>4
    <3>6. n = c + r
      BY <1>0, <2>1, <3>1, <3>2, <3>5
    <3>7. n \div P = g
      BY <1>0, <3>1, <3>5, <3>6, DivUnique
    <3> QED BY <3>4, <3>7
  <2>4. Down(n) = P * (e + 1)
    BY <2>1, <2>3, DownFacts
  <2> QED BY <2>1, <2>2, <2>4 DEF RangeEnd
<1> HIDE DEF f, e, l, P
<1>5. ASSUME NEW q \in P * f .. P * (e + 1) - 1, q % P = 0
      PROVE  \E x \in f .. e : q = P * x
  <2>1. q \in Nat /\ P * f <= q /\ q < P * (e + 1)
    <3>1. P * (e + 1) \in Nat
      BY <1>0, <1>2, SMT
    <3> QED BY <1>2, <3>1
  <2>2. PICK x \in Nat : q = P * x
    BY <1>0, <1>5, <2>1, ExactDiv
  <2>3. ~(x < f)
    <3> SUFFICES ASSUME x < f PROVE FALSE
      OBVIOUS
    <3>1. P * x + P <= P * f /\ P * x \in Nat
      BY <1>0, <1>2, <2>2, MultipleStep
    <3> QED BY <1>0, <1>2, <1>5, <2>1, <2>2, <3>1
  <2>4. ~(e < x)
    <3> SUFFICES ASSUME e < x PROVE FALSE
      OBVIOUS
    <3>1. P * e + P <= P * x /\ P * x \in Nat
      BY <1>0, <1>2, <2>2, MultipleStep
    <3>2. P * (e + 1) = P * e + P
      BY <1>0, <1>2, SMT
    <3> QED BY <1>0, <1>2, <1>5, <2>1, <2>2, <3>1, <3>2
  <2>5. x \in f .. e
    BY <1>2, <2>2, <2>3, <2>4
  <2> QED BY <2>2, <2>5
<1>6. ASSUME NEW x \in f .. e
      PROVE  P * x \in P * f .. P * (e + 1) - 1 /\ (P * x) % P = 0
  <2>1. x \in Nat /\ f <= x /\ x <= e /\ P * x \in Nat
    BY <1>0, <1>2, SMT
  <2>2. (P * x) % P = 0
    BY <1>0, <2>1, MultipleDiv
  <2>3. P * f <= P * x
    <3>1. CASE f = x
      BY <1>2, <3>1
    <3>2. CASE f < x
      <4>1. P * f + P <= P * x
        BY <1>0, <1>2, <2>1, <3>2, MultipleStep
      <4> QED BY <1>0, <1>2, <2>1, <4>1
    <3> QED BY <1>2, <2>1, <3>1, <3>2
  <2>4. P * x <= P * e
    <3>1. CASE x = e
      BY <1>2, <3>1
    <3>2. CASE x < e
      <4>1. P * x + P <= P * e
        BY <1>0, <1>2, <2>1, <3>2, MultipleStep
      <4> QED BY <1>0, <1>2, <2>1, <4>1
    <3> QED BY <1>2, <2>1, <3>1, <3>2
  <2>5. P * (e + 1) = P * e + P
    BY <1>0, <1>2, SMT
  <2>8. P * x < P * (e + 1)
    BY <1>0, <1>2, <2>1, <2>4, <2>5
  <2>9. P * (e + 1) \in Nat
    BY <1>0, <1>2, SMT
  <2> QED BY <1>2, <2>1, <2>2, <2>3, <2>8, <2>9
<1>7. {q \in P * f .. P * (e + 1) - 1 : q % P = 0} = {P * x : x \in f .. e}
  BY <1>5, <1>6
<1> QED BY <1>3, <1>4, <1>7 DEF f, e, l, P

\* The page tables see one page behind all addresses of a page.
LEMMA LookupOfPage ==
    ASSUME NEW a \in Nat
    PROVE  vmm_lookup(a) = vmm_lookup(PAGE_SIZE * (a \div PAGE_SIZE))
<1> DEFINE P == PAGE_SIZE
           V == VSPACE
           x == a \div P
           b == P * x
           k == b \div V
           z == b % V
           v == V \div P
<1>0. P \in Nat \ {0} /\ V \in Nat \ {0}
  BY AddressAssumption
<1>1. PICK r \in 0 .. P - 1 : x \in Nat /\ b \in Nat /\ a = b + r
  BY <1>0, DivFacts
<1>2. v \in Nat /\ V = P * v
  BY <1>0, AddressAssumption, ExactDiv
<1>3. k \in Nat /\ z \in 0 .. V - 1 /\ V * k \in Nat /\ b = V * k + z
  BY <1>0, <1>1, DivFacts
<1> HIDE DEF P, V, x, k, z, v
<1>4. PICK w \in Nat : z = P * w /\ w < v
  <2> DEFINE w == x - v * k
  <2>1. P * (x - v * k) = P * x - (P * v) * k /\ v * k \in Int /\ w \in Int
    BY <1>0, <1>1, <1>2, <1>3, SMT
  <2>2. z = P * w
    <3>1. (P * v) * k = V * k
      BY <1>2
    <3>2. z = b - V * k
      BY <1>1, <1>3
    <3> QED BY <2>1, <3>1, <3>2
  <2> HIDE DEF w
  <2>3. w >= 0
    <3> SUFFICES ASSUME w < 0 PROVE FALSE
      BY <2>1
    <3>1. PICK d \in Nat \ {0} : w = 0 - d
      <4>1. 0 - w \in Nat \ {0} /\ w = 0 - (0 - w)
        BY <2>1
      <4> QED BY <4>1
    <3>2. P * w = 0 - (P * d) /\ P * d \in Nat /\ P * d > 0
      BY <1>0, <3>1, SMT
    <3> QED BY <1>3, <2>2, <3>2
  <2>4. ~(v <= w)
    <3> SUFFICES ASSUME v <= w PROVE FALSE
      OBVIOUS
    <3>1. CASE v = w
      BY <1>0, <1>2, <1>3, <2>2, <3>1
    <3>2. CASE v < w
      <4>1. P * v + P <= P * w /\ P * v \in Nat /\ P * w \in Nat
        BY <1>0, <1>2, <2>1, <2>3, <3>2, MultipleStep
      <4> QED BY <1>0, <1>2, <1>3, <2>2, <4>1
    <3> QED BY <1>2, <2>1, <2>3, <3>1, <3>2
  <2> QED BY <1>2, <2>1, <2>2, <2>3, <2>4
<1>5. z + r < V
  <2>1. P * w + P <= P * v /\ P * w \in Nat /\ P * v \in Nat
    BY <1>0, <1>2, <1>4, MultipleStep
  <2>2. z + P <= V
    BY <1>2, <1>4, <2>1
  <2> QED BY <1>0, <1>3, <2>2
<1>6. a % V = z + r
  <2>1. PICK c \in Nat : c = V * k
    BY <1>3
  <2>2. PICK y \in 0 .. V - 1 : y = z + r /\ a = c + y
    <3>1. z + r \in 0 .. V - 1 /\ a = c + (z + r)
      BY <1>0, <1>1, <1>3, <1>5, <2>1
    <3> QED BY <3>1
  <2>3. a % V = y
    <3>1. V \in Nat \ {0} /\ k \in Nat /\ c = V * k /\ a = c + y
      BY <1>0, <1>3, <2>1, <2>2
    <3> HIDE DEF b
    <3> QED BY ONLY <3>1, a \in Nat, y \in 0 .. V - 1, c \in Nat, DivUnique
  <2> QED BY <2>2, <2>3
<1>7. (a % V) \div P = w /\ (b % V) \div P = w
  <2>1. z \in Nat /\ z + r \in Nat /\ z = z + 0 /\ 0 \in 0 .. P - 1
    BY <1>0, <1>3
  <2>2. (z + r) \div P = w
    BY <1>0, <1>4, <2>1, DivUnique
  <2>3. z \div P = w
    BY <1>0, <1>4, <2>1, DivUnique
  <2> QED BY <1>6, <2>2, <2>3 DEF z
<1> QED BY <1>7 DEF vmm_lookup, P, V, x

\* So it accepts just the ranges whose pages all grant the access.
LEMMA RangeIsPages ==
    ASSUME NEW va \in Nat, NEW len \in Nat \ {0}, va + len + PAGE_SIZE - 1 < WORD, NEW need
    PROVE  user_range_ok(va, len, need) <=>
              /\ va # 0
              /\ \A x \in va \div PAGE_SIZE .. (va + len - 1) \div PAGE_SIZE :
                    Granted(PAGE_SIZE * x, need)
<1> DEFINE f == va \div PAGE_SIZE
           e == (va + len - 1) \div PAGE_SIZE
           Looked == {q \in Down(va) .. RangeEnd(va, len) - 1 : q % PAGE_SIZE = 0}
<1>1. Looked = {PAGE_SIZE * x : x \in f .. e}
  BY PagesLookedAt
<1>2. user_range_ok(va, len, need) <=> va # 0 /\ \A q \in Looked : Granted(q, need)
  BY DEF user_range_ok
<1> HIDE DEF Looked, f, e
<1>3. (\A q \in Looked : Granted(q, need)) <=> \A x \in f .. e : Granted(PAGE_SIZE * x, need)
  BY <1>1, Zenon
<1> QED BY <1>2, <1>3 DEF f, e

\* A range that does not wrap is accepted just when the page of every byte
\* grants the access.
LEMMA RangeIsBytes ==
    ASSUME NEW va \in Nat, NEW len \in Nat \ {0}, va + len + PAGE_SIZE - 1 < WORD, NEW need
    PROVE  user_range_ok(va, len, need) <=>
              va # 0 /\ \A a \in va .. va + len - 1 : Granted(a, need)
<1> DEFINE f == va \div PAGE_SIZE
           l == va + len - 1
           e == l \div PAGE_SIZE
<1>0. PAGE_SIZE \in Nat \ {0} /\ l \in Nat /\ va <= l
  BY AddressAssumption
<1>1. f \in Nat /\ e \in Nat
  BY <1>0, DivFacts
<1>2. ASSUME NEW a \in va .. l PROVE a \in Nat /\ a \div PAGE_SIZE \in f .. e
  <2>1. a \in Nat /\ va <= a /\ a <= l
    BY <1>0
  <2>2. a \div PAGE_SIZE \in Nat /\ f <= a \div PAGE_SIZE /\ a \div PAGE_SIZE <= e
    BY <1>0, <2>1, DivMonotone, DivFacts
  <2> HIDE DEF f, e, l
  <2> QED BY <1>0, <1>1, <2>1, <2>2
<1>3. ASSUME NEW x \in f .. e PROVE \E a \in va .. l : a \div PAGE_SIZE = x
  <2>1. x \in Nat /\ f <= x /\ x <= e
    BY <1>1
  <2>2. PICK b \in Nat : b = PAGE_SIZE * x /\ b \div PAGE_SIZE = x
    <3>1. PAGE_SIZE * x \in Nat
      BY <1>0, <2>1, SMT
    <3> QED BY <1>0, <2>1, <3>1, MultipleDiv
  <2>3. CASE va <= b
    <3>1. b <= l
      <4> SUFFICES ASSUME l < b PROVE FALSE
        BY <1>0
      <4>1. PICK g \in Nat, r \in 0 .. PAGE_SIZE - 1 : l = g + r /\ g = PAGE_SIZE * e
        BY <1>0, DivFacts
      <4> HIDE DEF e, l
      <4>2. g <= l
        BY <1>0, <4>1
      <4>3. CASE x = e
        BY <1>0, <2>2, <4>1, <4>2, <4>3
      <4>4. CASE x < e
        <5>1. PAGE_SIZE * x + PAGE_SIZE <= PAGE_SIZE * e
          BY <1>0, <1>1, <2>1, <4>4, MultipleStep
        <5>2. b + PAGE_SIZE <= g
          BY <2>2, <4>1, <5>1
        <5> QED BY <1>0, <4>2, <5>2
      <4> QED BY <1>1, <2>1, <4>3, <4>4
    <3>2. b \in va .. l
      BY <1>0, <2>3, <3>1
    <3> QED BY <2>2, <3>2
  <2>4. CASE b < va
    <3>1. x = f
      <4> SUFFICES ASSUME f < x PROVE FALSE
        BY <1>1, <2>1
      <4>1. PICK g \in Nat, r \in 0 .. PAGE_SIZE - 1 : va = g + r /\ g = PAGE_SIZE * f
        BY <1>0, DivFacts
      <4> HIDE DEF f
      <4>2. PAGE_SIZE * f + PAGE_SIZE <= PAGE_SIZE * x
        BY <1>0, <1>1, <2>1, MultipleStep
      <4>3. g + PAGE_SIZE <= b
        BY <2>2, <4>1, <4>2
      <4> QED BY <1>0, <2>4, <4>1, <4>3
    <3>2. va \in va .. l
      BY <1>0
    <3> QED BY <3>1, <3>2
  <2> QED BY <2>2, <2>3, <2>4
<1>4. user_range_ok(va, len, need) <=>
         va # 0 /\ \A x \in f .. e : Granted(PAGE_SIZE * x, need)
  BY RangeIsPages
<1> HIDE DEF f, e, l
<1>5. \A a \in va .. l : Granted(a, need) <=> Granted(PAGE_SIZE * (a \div PAGE_SIZE), need)
  BY <1>2, LookupOfPage DEF Granted
<1>6. (\A a \in va .. l : Granted(a, need)) <=>
         \A x \in f .. e : Granted(PAGE_SIZE * x, need)
  <2>1. ASSUME \A a \in va .. l : Granted(a, need), NEW x \in f .. e
        PROVE  Granted(PAGE_SIZE * x, need)
    <3>1. PICK a \in va .. l : a \div PAGE_SIZE = x
      BY <1>3
    <3> QED BY <1>5, <2>1, <3>1
  <2>2. ASSUME \A x \in f .. e : Granted(PAGE_SIZE * x, need), NEW a \in va .. l
        PROVE  Granted(a, need)
    BY <1>2, <1>5, <2>2
  <2> QED BY <2>1, <2>2
<1> QED BY <1>4, <1>6 DEF l

\* A range whose rounded end wraps is accepted without a look.
LEMMA RangeWraps ==
    ASSUME NEW va \in Addresses, NEW len \in 1 .. MAX_LEN,
           va + len + PAGE_SIZE - 1 >= WORD, NEW need
    PROVE  user_range_ok(va, len, need) <=> va # 0
<1> DEFINE n == va + len + PAGE_SIZE - 1
           m == n - WORD
<1>0. PAGE_SIZE \in Nat \ {0} /\ WORD \in Nat \ {0} /\ va \in Nat /\ n \in Nat
  BY AddressAssumption, RoomAbove DEF Addresses
<1>1. m \in Nat /\ m < WORD /\ m <= va /\ n = WORD + m
  BY <1>0, AddressAssumption DEF Addresses
<1> HIDE DEF n, m
<1>2. n % WORD = m
  <2>1. WORD * 1 = WORD /\ 1 \in Nat /\ m \in 0 .. WORD - 1
    BY <1>0, <1>1
  <2> QED BY <1>0, <1>1, <2>1, DivUnique
<1>3. RangeEnd(va, len) = Down(m)
  BY <1>2 DEF RangeEnd, n
<1>4. m \div PAGE_SIZE <= va \div PAGE_SIZE /\ m \div PAGE_SIZE \in Nat /\ va \div PAGE_SIZE \in Nat
  BY <1>0, <1>1, DivMonotone, DivFacts
<1>5. /\ Down(m) = PAGE_SIZE * (m \div PAGE_SIZE) /\ Down(va) = PAGE_SIZE * (va \div PAGE_SIZE)
  BY <1>0, <1>1, DownFacts
<1>6. Down(m) \in Nat /\ Down(va) \in Nat /\ Down(m) <= Down(va)
  <2> DEFINE y == m \div PAGE_SIZE
             x == va \div PAGE_SIZE
  <2> HIDE DEF y, x
  <2>1. y \in Nat /\ x \in Nat /\ y <= x
    BY <1>4 DEF x, y
  <2>2. CASE y = x
    <3>1. PAGE_SIZE * x \in Nat
      BY <1>0, <2>1, SMT
    <3> QED BY <1>5, <2>2, <3>1 DEF x, y
  <2>3. CASE y < x
    <3>1. PAGE_SIZE * y + PAGE_SIZE <= PAGE_SIZE * x /\ PAGE_SIZE * y \in Nat /\ PAGE_SIZE * x \in Nat
      BY <1>0, <2>1, <2>3, MultipleStep
    <3> QED BY <1>0, <1>5, <3>1 DEF x, y
  <2> QED BY <2>1, <2>2, <2>3
<1>7. Down(va) .. RangeEnd(va, len) - 1 = {}
  BY <1>3, <1>6
<1> QED BY <1>7 DEF user_range_ok

\* Inside the address space the page tables and the MMU agree.
LEMMA GrantedInside ==
    ASSUME NEW a \in Nat, a < VSPACE, NEW need
    PROVE  Granted(a, need) <=> Accessible(a, need)
<1>1. a % VSPACE = a
  BY AddressAssumption, SmallMod
<1> QED BY <1>1 DEF Granted, Accessible, vmm_lookup

\* The check of a range of the address space is what the MMU allows.
LEMMA RangeExact ==
    ASSUME NEW va \in Nat, NEW len \in Nat \ {0}, va + len <= VSPACE, NEW need
    PROVE  user_range_ok(va, len, need) <=>
              va # 0 /\ \A a \in va .. va + len - 1 : Accessible(a, need)
<1>1. va + len + PAGE_SIZE - 1 < WORD
  BY AddressAssumption, RoomAbove
<1>2. \A a \in va .. va + len - 1 : Granted(a, need) <=> Accessible(a, need)
  <2> SUFFICES ASSUME NEW a \in va .. va + len - 1
               PROVE  Granted(a, need) <=> Accessible(a, need)
    OBVIOUS
  <2>1. a \in Nat /\ a < VSPACE
    BY AddressAssumption
  <2> QED BY <2>1, GrantedInside
<1>3. user_range_ok(va, len, need) <=> va # 0 /\ \A a \in va .. va + len - 1 : Granted(a, need)
  BY <1>1, RangeIsBytes
<1> QED BY <1>2, <1>3, Zenon

\* A turn of user_str_ok() inside the address space.
LEMMA TurnInside ==
    ASSUME NEW a \in Nat, a < VSPACE
    PROVE  StrTurn(a) = IF a # 0 /\ Accessible(a, "R")
                        THEN IF a \in nul THEN "yes" ELSE "more" ELSE "no"
<1>1. user_range_ok(a, 1, "R") <=> a # 0 /\ \A b \in a .. a + 1 - 1 : Accessible(b, "R")
  <2>1. 1 \in Nat \ {0} /\ a + 1 <= VSPACE
    BY AddressAssumption
  <2> QED BY <2>1, RangeExact, Zenon
<1>2. a .. a + 1 - 1 = {a}
  OBVIOUS
<1>3. user_range_ok(a, 1, "R") <=> a # 0 /\ Accessible(a, "R")
  BY <1>1, <1>2
<1>4. ~(a >= VSPACE)
  BY AddressAssumption
<1> QED BY <1>3, <1>4 DEF StrTurn

\* A turn that goes on, or says yes, is inside the address space.
LEMMA TurnGoesOn ==
    ASSUME NEW a \in Nat, StrTurn(a) \in {"more", "yes"}
    PROVE  a < VSPACE /\ a # 0
<1>1. user_range_ok(a, 1, "R") /\ ~(a >= VSPACE)
  BY DEF StrTurn
<1>2. a # 0
  BY <1>1 DEF user_range_ok
<1> QED BY <1>1, <1>2, AddressAssumption

\* A name can be read to its first NUL within max bytes.
Readable(s) ==
    /\ s # 0
    /\ \E n \in 0 .. MAX_STR - 1 :
          /\ s + n \in nul
          /\ \A k \in 0 .. n - 1 : s + k \notin nul
          /\ \A a \in s .. s + n : Accessible(a, "R")

\* A name that user_str_ok() accepts can be read: the loop cannot have come
\* around the end of the word, where it would have met the NULL address.
LEMMA AcceptedIsReadable ==
    ASSUME NEW s \in Addresses, Ends(s, MAX_STR, "yes")
    PROVE  Readable(s)
<1>0. s \in Nat /\ s < WORD /\ WORD \in Nat \ {0} /\ MAX_STR \in Nat /\ MAX_STR < WORD
      /\ VSPACE \in Nat /\ VSPACE < WORD
  BY AddressAssumption, RoomAbove DEF Addresses
<1>1. PICK n \in 0 .. MAX_STR - 1 :
         /\ StrTurn((s + n) % WORD) = "yes"
         /\ \A k \in 0 .. n - 1 : StrTurn((s + k) % WORD) = "more"
  BY DEF Ends
<1>2. n \in Nat /\ n <= MAX_STR - 1
  BY <1>0
<1>3. \A k \in 0 .. n : StrTurn((s + k) % WORD) \in {"more", "yes"}
  <2> SUFFICES ASSUME NEW k \in 0 .. n PROVE StrTurn((s + k) % WORD) \in {"more", "yes"}
    OBVIOUS
  <2>1. k = n \/ k \in 0 .. n - 1
    BY <1>2
  <2> QED BY <1>1, <2>1
<1>4. s + n < WORD
  <2> SUFFICES ASSUME s + n >= WORD PROVE FALSE
    BY <1>0, <1>2
  <2>1. PICK k \in 0 .. n : s + k = WORD
    <3>1. WORD - s \in 0 .. n /\ s + (WORD - s) = WORD
      BY <1>0, <1>2
    <3> QED BY <3>1
  <2>2. WORD % WORD = 0
    <3>1. WORD * 1 = WORD /\ 1 \in Nat /\ 0 \in 0 .. WORD - 1 /\ WORD = WORD + 0
      BY <1>0
    <3> QED BY <1>0, <3>1, DivUnique
  <2>3. StrTurn(0) \in {"more", "yes"}
    BY <1>3, <2>1, <2>2
  <2> QED BY <2>3, TurnGoesOn
<1>5. ASSUME NEW k \in 0 .. n
      PROVE  s + k \in Nat /\ (s + k) % WORD = s + k /\ s + k < VSPACE /\ s + k # 0
  <2>1. s + k \in Nat /\ s + k < WORD
    BY <1>0, <1>2, <1>4
  <2>2. (s + k) % WORD = s + k
    BY <1>0, <2>1, SmallMod
  <2>3. StrTurn(s + k) \in {"more", "yes"}
    BY <1>3, <2>2
  <2> QED BY <2>1, <2>2, <2>3, TurnGoesOn
<1>6. ASSUME NEW k \in 0 .. n
      PROVE  /\ Accessible(s + k, "R")
             /\ s + k \in nul <=> StrTurn((s + k) % WORD) = "yes"
  <2>1. StrTurn(s + k) \in {"more", "yes"}
    BY <1>3, <1>5
  <2>2. StrTurn(s + k) = IF s + k # 0 /\ Accessible(s + k, "R")
                         THEN IF s + k \in nul THEN "yes" ELSE "more" ELSE "no"
    BY <1>5, TurnInside
  <2> QED BY <1>5, <2>1, <2>2
<1>7. s # 0
  <2>1. 0 \in 0 .. n /\ s + 0 = s
    BY <1>0, <1>2
  <2> QED BY <1>5, <2>1
<1>8. s + n \in nul
  <2>1. n \in 0 .. n
    BY <1>2
  <2> QED BY <1>1, <1>6, <2>1
<1>9. ASSUME NEW k \in 0 .. n - 1 PROVE s + k \notin nul
  <2>1. k \in 0 .. n
    BY <1>2
  <2> QED BY <1>1, <1>6, <2>1
<1>10. ASSUME NEW a \in s .. s + n PROVE Accessible(a, "R")
  <2>1. PICK k \in 0 .. n : a = s + k
    <3>1. a - s \in 0 .. n /\ a = s + (a - s)
      BY <1>0, <1>2
    <3> QED BY <3>1
  <2> QED BY <1>6, <2>1
<1> QED BY <1>7, <1>8, <1>9, <1>10 DEF Readable

\* A name that can be read is accepted.
LEMMA ReadableIsAccepted ==
    ASSUME NEW s \in Addresses, Readable(s)
    PROVE  Ends(s, MAX_STR, "yes")
<1>0. s \in Nat /\ WORD \in Nat \ {0} /\ MAX_STR \in Nat
      /\ VSPACE \in Nat /\ VSPACE < WORD
  BY AddressAssumption, RoomAbove DEF Addresses
<1>1. PICK n \in 0 .. MAX_STR - 1 :
          /\ s + n \in nul
          /\ \A k \in 0 .. n - 1 : s + k \notin nul
          /\ \A a \in s .. s + n : Accessible(a, "R")
  BY DEF Readable
<1>2. ASSUME NEW k \in 0 .. n
      PROVE  StrTurn((s + k) % WORD) = IF s + k \in nul THEN "yes" ELSE "more"
  <2>1. n \in Nat /\ s + k \in s .. s + n /\ s + k \in Nat
    BY <1>0
  <2>2. Accessible(s + k, "R") /\ s + k < VSPACE
    BY <1>1, <2>1 DEF Accessible
  <2>3. s + k # 0
    BY <1>0, <2>1 DEF Readable
  <2>4. (s + k) % WORD = s + k
    <3>1. s + k < WORD
      BY <1>0, <2>1, <2>2
    <3> QED BY <1>0, <2>1, <3>1, SmallMod
  <2>5. StrTurn(s + k) = IF s + k \in nul THEN "yes" ELSE "more"
    BY <2>1, <2>2, <2>3, TurnInside
  <2> QED BY <2>4, <2>5
<1>3. StrTurn((s + n) % WORD) = "yes"
  <2>1. n \in 0 .. n
    BY <1>0
  <2> QED BY <1>1, <1>2, <2>1
<1>4. ASSUME NEW k \in 0 .. n - 1 PROVE StrTurn((s + k) % WORD) = "more"
  <2>1. k \in 0 .. n
    BY <1>0
  <2> QED BY <1>1, <1>2, <2>1
<1> QED BY <1>3, <1>4 DEF Ends

\* The check of a name that ends inside the address space does not fault.
LEMMA NoFaultInside ==
    ASSUME NEW s \in Addresses, s + MAX_STR <= VSPACE
    PROVE  ~Ends(s, MAX_STR, "fault")
<1> SUFFICES ASSUME NEW n \in 0 .. MAX_STR - 1 PROVE StrTurn((s + n) % WORD) # "fault"
  BY DEF Ends
<1>1. s + n \in Nat /\ s + n < VSPACE /\ s + n < WORD /\ WORD \in Nat \ {0}
  BY AddressAssumption, RoomAbove DEF Addresses
<1>2. (s + n) % WORD = s + n
  BY <1>1, SmallMod
<1> QED BY <1>1, <1>2, TurnInside

\* The checks of user pointers accept just the buffers and names behind which
\* every byte is mapped with the permission asked for, whatever the address;
\* inside the address space that is what the MMU allows, and outside it the
\* wrapping ranges pass too.  For every page size, every address space and every
\* state of the page tables and of the memory.
THEOREM PointerChecksAreExact == UserSpec => []PointerChecksExact
<1>1. RangeCheckByteWise
  <2> SUFFICES ASSUME NEW va \in Addresses, NEW len \in 1 .. MAX_LEN, NEW need \in {"R", "W"}
               PROVE  user_range_ok(va, len, need) <=>
                         /\ va # 0
                         /\ \/ va + len + PAGE_SIZE - 1 >= WORD
                            \/ \A a \in va .. va + len - 1 : Granted(a, need)
    BY DEF RangeCheckByteWise
  <2>1. va \in Nat /\ len \in Nat \ {0} /\ va + len + PAGE_SIZE - 1 \in Int /\ WORD \in Int
    BY AddressAssumption DEF Addresses
  <2>2. CASE va + len + PAGE_SIZE - 1 >= WORD
    BY <2>2, RangeWraps
  <2>3. CASE va + len + PAGE_SIZE - 1 < WORD
    <3>1. ~(va + len + PAGE_SIZE - 1 >= WORD)
      BY <2>1, <2>3
    <3> QED BY <2>1, <2>3, <3>1, RangeIsBytes
  <2> QED BY <2>1, <2>2, <2>3
<1>2. RangeCheckExact
  <2> SUFFICES ASSUME NEW va \in 0 .. VSPACE - 1, NEW len \in 1 .. MAX_LEN,
                      NEW need \in {"R", "W"}, va + len <= VSPACE
               PROVE  user_range_ok(va, len, need) <=>
                         va # 0 /\ \A a \in va .. va + len - 1 : Accessible(a, need)
    BY DEF RangeCheckExact
  <2>1. va \in Nat /\ len \in Nat \ {0}
    BY AddressAssumption
  <2> QED BY <2>1, RangeExact
<1>3. StringCheckExact
  <2> SUFFICES ASSUME NEW s \in Addresses
               PROVE  /\ user_str_ok(s, MAX_STR) = "yes" <=> Readable(s)
                      /\ s + MAX_STR <= VSPACE => user_str_ok(s, MAX_STR) # "fault"
    BY DEF StringCheckExact, Readable
  <2>1. Ends(s, MAX_STR, "yes") <=> Readable(s)
    BY AcceptedIsReadable, ReadableIsAccepted
  <2>2. s + MAX_STR <= VSPACE => ~Ends(s, MAX_STR, "fault")
    BY NoFaultInside
  <2> QED BY <2>1, <2>2 DEF user_str_ok
<1>4. PointerChecksExact
  BY <1>1, <1>2, <1>3 DEF PointerChecksExact
<1> QED BY <1>4, PTL
=============================================================================
