--------------------------- MODULE Memory_proofs ---------------------------
(***************************************************************************)
(* Proofs about Memory: isolation, the accounting of frames, the shape and *)
(* the contents of every address space, and satp, for every number of      *)
(* processes, every memory size, program size and argument of sbrk(), and  *)
(* every size of a page and of the tables.                                 *)
(*                                                                         *)
(* A handler is followed call by call.  Good(m, U, H) is what every call   *)
(* keeps, also when it fails half way: the frames U the handler began with *)
(* are each in one place.  The loops over pages and over the three levels  *)
(* of a page table are sequences of turns; Copied() and PagesResult() say  *)
(* how far they have got.  Space(t, n) is an address space with n pages of *)
(* program and heap.                                                       *)
(***************************************************************************)
EXTENDS Memory, SetInduction, FiniteSetTheorems, TLAPS

\* Paths by their length, and the table each is in.
LEMMA PathForms ==
    ASSUME NEW i, NEW j, NEW k
    PROVE  /\ Len(<<>>) = 0 /\ Len(<<i>>) = 1 /\ Len(<<i, j>>) = 2 /\ Len(<<i, j, k>>) = 3
           /\ Up(<<i>>) = <<>> /\ Up(<<i, j>>) = <<i>> /\ Up(<<i, j, k>>) = <<i, j>>
BY DEF Up

\* Paths of different lengths differ, and equal ones agree step by step.
LEMMA PathsDiffer ==
    ASSUME NEW i, NEW j, NEW k, NEW a, NEW b, NEW c
    PROVE  /\ <<>> # <<i>> /\ <<>> # <<i, j>> /\ <<>> # <<i, j, k>>
           /\ <<i>> # <<a, b>> /\ <<i>> # <<a, b, c>> /\ <<i, j>> # <<a, b, c>>
           /\ <<i>> = <<a>> => i = a
           /\ <<i, j>> = <<a, b>> => i = a /\ j = b
           /\ <<i, j, k>> = <<a, b, c>> => i = a /\ j = b /\ k = c
BY PathForms

\* What is assumed of the sizes, for the steps that calculate with them.
LEMMA Sizes ==
    /\ PAGE \in Nat /\ PAGE > 0 /\ WIDTH \in Nat /\ WIDTH > 0 /\ FAN \in Nat /\ FAN > 0
    /\ USER \in Nat /\ USER > 0 /\ ROOT \in Nat /\ USER < ROOT
    /\ MmioPage \in Nat /\ StackPage \in Nat /\ MmioPage < StackPage
<1>1. WIDTH \in Nat /\ WIDTH > 0 /\ FAN \in Nat /\ FAN > 0
  BY SizesAssumption
<1>2. WIDTH * FAN \in Nat /\ WIDTH * FAN > 0
  BY <1>1
<1>3. StackPage \in Nat
  BY <1>2 DEF StackPage
<1> QED BY <1>1, <1>3, SizesAssumption

\* Dividing by the size of a table or of a page.
LEMMA Division ==
    ASSUME NEW v \in Nat, NEW n \in Nat, n > 0
    PROVE  /\ v \div n \in Nat /\ v % n \in 0 .. n - 1 /\ v = n * (v \div n) + (v % n)
           /\ \A k \in Nat : v < k * n => v \div n < k
<1> DEFINE q == v \div n
           r == v % n
<1>1. q \in Nat /\ r \in 0 .. n - 1 /\ v = n * q + r
  OBVIOUS
<1> HIDE DEF q, r
<1>2. ASSUME NEW k \in Nat, v < k * n, ~(q < k) PROVE FALSE
  <2>1. PICK d \in Nat : q = k + d
    <3>1. q - k \in Nat /\ q = k + (q - k)
      BY <1>1, <1>2
    <3> QED BY <3>1
  <2>2. n * q = k * n + n * d /\ n * d \in Nat /\ k * n \in Nat
    BY <2>1
  <2> QED BY <1>1, <1>2, <2>2
<1>3. \A k \in Nat : v < k * n => q < k
  BY <1>1, <1>2
<1> QED BY <1>1, <1>3 DEF q, r

\* The indices of a page's leaf are in their tables.
LEMMA LeafIndices ==
    ASSUME NEW v \in 0 .. StackPage
    PROVE  v \div FAN \in 0 .. WIDTH - 1 /\ v % FAN \in 0 .. FAN - 1
<1>1. v \in Nat /\ v < WIDTH * FAN
  <2>1. WIDTH * FAN \in Nat
    BY Sizes
  <2> QED BY <2>1, Sizes DEF StackPage
<1>2. v \div FAN \in Nat /\ v % FAN \in 0 .. FAN - 1 /\ v \div FAN < WIDTH
  BY <1>1, Sizes, Division
<1> QED BY <1>2, Sizes

\* The first page a break does not need: break b needs page w when it is above
\* the page's first byte.
LEMMA PageEndFacts ==
    ASSUME NEW b \in Nat
    PROVE  /\ PageEnd(b) \in Nat
           /\ \A w \in Nat : w < PageEnd(b) <=> w * PAGE < b
           /\ \A c \in Nat : b <= c => PageEnd(b) <= PageEnd(c)
           /\ PageEnd(b * PAGE) = b /\ b * PAGE \in Nat
<1>1. ASSUME NEW x \in Nat
      PROVE  /\ PageEnd(x) \in Nat
             /\ \A w \in Nat : w < PageEnd(x) <=> w * PAGE < x
  <2> DEFINE y == x + PAGE - 1
             q == y \div PAGE
             r == y % PAGE
  <2>1. y \in Nat
    BY Sizes
  <2>2. /\ q \in Nat /\ r \in 0 .. PAGE - 1 /\ y = PAGE * q + r
        /\ \A k \in Nat : y < k * PAGE => q < k
    <3> HIDE DEF y
    <3> QED BY <2>1, Sizes, Division
  <2> HIDE DEF q, r
  <2>3. ASSUME NEW w \in Nat, w < q PROVE w * PAGE < x
    <3>1. PICK d \in Nat : q = w + 1 + d
      <4>1. q - w - 1 \in Nat /\ q = w + 1 + (q - w - 1)
        BY <2>2, <2>3
      <4> QED BY <4>1
    <3>2. PAGE * q = w * PAGE + PAGE + PAGE * d /\ PAGE * d \in Nat /\ w * PAGE \in Nat
      BY <3>1, Sizes
    <3> QED BY <2>2, <3>2, Sizes
  <2>4. ASSUME NEW w \in Nat, ~(w < q) PROVE ~(w * PAGE < x)
    <3>1. PICK d \in Nat : w = q + d
      <4>1. w - q \in Nat /\ w = q + (w - q)
        BY <2>2, <2>4
      <4> QED BY <4>1
    <3>2. w * PAGE = PAGE * q + PAGE * d /\ PAGE * d \in Nat /\ PAGE * q \in Nat
      BY <2>2, <3>1, Sizes
    <3> QED BY <2>2, <3>2, Sizes
  <2>5. PageEnd(x) = q
    BY DEF PageEnd, q
  <2> QED BY <2>2, <2>3, <2>4, <2>5
<1>2. ASSUME NEW c \in Nat, b <= c PROVE PageEnd(b) <= PageEnd(c)
  <2> SUFFICES ASSUME PageEnd(c) < PageEnd(b) PROVE FALSE
    BY <1>1
  <2>1. PageEnd(c) \in Nat /\ PageEnd(c) * PAGE < b /\ ~(PageEnd(c) * PAGE < c)
    BY <1>1
  <2>2. PageEnd(c) * PAGE \in Nat
    BY <2>1, Sizes
  <2> QED BY <1>2, <2>1, <2>2
<1>3. b * PAGE \in Nat
  BY Sizes
<1>4. PageEnd(b * PAGE) = b
  <2> DEFINE e == PageEnd(b * PAGE)
  <2>1. e \in Nat /\ \A w \in Nat : w < e <=> w * PAGE < b * PAGE
    BY <1>1, <1>3
  <2> HIDE DEF e
  <2>2. ~(b < e)
    BY <1>3, <2>1
  <2>3. ASSUME e < b PROVE FALSE
    <3>1. PICK d \in Nat : b = e + 1 + d
      <4>1. b - e - 1 \in Nat /\ b = e + 1 + (b - e - 1)
        BY <2>1, <2>3
      <4> QED BY <4>1
    <3>2. b * PAGE = e * PAGE + PAGE + PAGE * d /\ PAGE * d \in Nat /\ e * PAGE \in Nat
      BY <2>1, <3>1, Sizes
    <3> QED BY <2>1, <3>2, Sizes
  <2> QED BY <2>1, <2>2, <2>3 DEF e
<1> QED BY <1>1, <1>2, <1>3, <1>4

\* A page of the user's half has a leaf of its own, in two tables of its own.
LEMMA LeafFacts ==
    ASSUME NEW v \in 0 .. StackPage
    PROVE  /\ Leaf(v) \in Paths /\ Len(Leaf(v)) = 3
           /\ Up(Leaf(v)) = <<0, v \div FAN>> /\ Up(Up(Leaf(v))) = <<0>>
           /\ Leaf(v) # KernelLeaf
           /\ \A w \in 0 .. StackPage : Leaf(v) = Leaf(w) => v = w
<1>1. v \div FAN \in 0 .. WIDTH - 1 /\ v % FAN \in 0 .. FAN - 1
  BY LeafIndices
<1>2. Leaf(v) \in Paths
  BY <1>1, Sizes DEF Leaf, Paths
<1>3. ASSUME NEW w \in 0 .. StackPage, Leaf(v) = Leaf(w) PROVE v = w
  <2>1. v \div FAN = w \div FAN /\ v % FAN = w % FAN
    BY <1>3, PathsDiffer DEF Leaf
  <2>2. /\ v = FAN * (v \div FAN) + (v % FAN)
        /\ w = FAN * (w \div FAN) + (w % FAN)
    <3>1. v \in Nat /\ w \in Nat
      BY Sizes
    <3> QED BY <3>1, Sizes, Division
  <2> QED BY <2>1, <2>2
<1>4. Leaf(v) # KernelLeaf
  BY PathsDiffer, Sizes DEF Leaf, KernelLeaf
<1>5. Len(Leaf(v)) = 3 /\ Up(Leaf(v)) = <<0, v \div FAN>> /\ Up(Up(Leaf(v))) = <<0>>
  <2>1. Len(Leaf(v)) = 3 /\ Up(Leaf(v)) = <<0, v \div FAN>>
    BY PathForms DEF Leaf
  <2>2. Up(<<0, v \div FAN>>) = <<0>>
    BY PathForms
  <2> QED BY <2>1, <2>2
<1> QED BY <1>2, <1>3, <1>4, <1>5

-----------------------------------------------------------------------------
(* What a handler's record m keeps: the frames U it began with are its free   *)
(* ones, the table's, and those H it has in hand; none is in two places.      *)

\* A record of this kind.
Mem(m) == m = [free |-> m.free, pt |-> m.pt, page |-> m.page, mapped |-> m.mapped,
               status |-> m.status]

\* A tree of three levels: an entry is in a table that is there, and points at a
\* frame unless it is a leaf of the kernel.
Tree(t) ==
    \A p \in DOMAIN t :
        /\ p \in Paths
        /\ t[p] \in Nat \/ (t[p] = KERNEL /\ Len(p) = 3)
        /\ p # <<>> => Up(p) \in DOMAIN t

\* No two entries of a table point at the same frame.
Unshared(t) == \A p, q \in DOMAIN t : t[p] = t[q] /\ t[p] # KERNEL => p = q

\* The frames U are all accounted for, each in one place: free, in the table, or H.
Good(m, U, H) ==
    /\ Mem(m)
    /\ U \subseteq Nat
    /\ m.free \cup TableFrames(m.pt) \cup H = U
    /\ m.free \cap TableFrames(m.pt) = {}
    /\ m.free \cap H = {}
    /\ TableFrames(m.pt) \cap H = {}
    /\ Tree(m.pt)
    /\ Unshared(m.pt)

\* Put() sets one entry.
LEMMA PutEffect ==
    ASSUME NEW t, NEW p, NEW x
    PROVE  /\ DOMAIN Put(t, p, x) = DOMAIN t \cup {p}
           /\ Put(t, p, x)[p] = x
           /\ \A q \in DOMAIN t : q # p => Put(t, p, x)[q] = t[q]
BY DEF Put

\* The fields of a record one of whose fields was set.
LEMMA SetField ==
    ASSUME NEW m, Mem(m), NEW x
    PROVE  /\ [m EXCEPT !.free = x] = [free |-> x, pt |-> m.pt, page |-> m.page,
                                       mapped |-> m.mapped, status |-> m.status]
           /\ [m EXCEPT !.pt = x] = [free |-> m.free, pt |-> x, page |-> m.page,
                                     mapped |-> m.mapped, status |-> m.status]
           /\ [m EXCEPT !.mapped = x] = [free |-> m.free, pt |-> m.pt, page |-> m.page,
                                         mapped |-> x, status |-> m.status]
           /\ [m EXCEPT !.page = x] = [free |-> m.free, pt |-> m.pt, page |-> x,
                                       mapped |-> m.mapped, status |-> m.status]
           /\ [m EXCEPT !.status = x] = [free |-> m.free, pt |-> m.pt, page |-> m.page,
                                         mapped |-> m.mapped, status |-> x]
BY DEF Mem

\* A handler that only sets its status keeps everything else.
LEMMA SetStatus ==
    ASSUME NEW m, NEW U, NEW H, Good(m, U, H), NEW s
    PROVE  /\ Good([m EXCEPT !.status = s], U, H)
           /\ [m EXCEPT !.status = s].status = s
           /\ [m EXCEPT !.status = s].pt = m.pt
           /\ [m EXCEPT !.status = s].free = m.free
           /\ [m EXCEPT !.status = s].mapped = m.mapped
           /\ [m EXCEPT !.status = s].page = m.page
BY SetField DEF Good, Mem

\* A new entry in a table that is there, for a frame the table does not use.
LEMMA PutTree ==
    ASSUME NEW t, Tree(t), Unshared(t), NEW p \in Paths, p \notin DOMAIN t,
           p # <<>> => Up(p) \in DOMAIN t,
           NEW x, x \in Nat \/ (x = KERNEL /\ Len(p) = 3), x \notin TableFrames(t)
    PROVE  /\ Tree(Put(t, p, x)) /\ Unshared(Put(t, p, x))
           /\ TableFrames(Put(t, p, x)) = TableFrames(t) \cup ({x} \ {KERNEL})
<1> DEFINE u == Put(t, p, x)
<1>1. DOMAIN u = DOMAIN t \cup {p} /\ u[p] = x
  BY DEF Put
<1>2. \A q \in DOMAIN t : u[q] = t[q]
  BY DEF Put
<1> HIDE DEF u
<1>3. Tree(u)
  BY <1>1, <1>2 DEF Tree
<1>4. Unshared(u)
  <2>1. \A q \in DOMAIN t : t[q] # KERNEL => t[q] # x
    BY DEF TableFrames
  <2> SUFFICES ASSUME NEW q \in DOMAIN u, NEW r \in DOMAIN u, u[q] = u[r], u[q] # KERNEL
               PROVE  q = r
    BY DEF Unshared
  <2>2. CASE q = p
    BY <1>1, <1>2, <2>1, <2>2
  <2>3. CASE r = p
    BY <1>1, <1>2, <2>1, <2>3
  <2>4. CASE q # p /\ r # p
    BY <1>1, <1>2, <2>4 DEF Unshared
  <2> QED BY <2>2, <2>3, <2>4
<1>5. TableFrames(u) = TableFrames(t) \cup ({x} \ {KERNEL})
  BY <1>1, <1>2 DEF TableFrames
<1> QED BY <1>3, <1>4, <1>5 DEF u

\* A frame in hand becomes the target of a new entry.
LEMMA PutGood ==
    ASSUME NEW m, NEW U, NEW H, NEW f \in Nat, f \notin H, Good(m, U, H \cup {f}),
           NEW p \in Paths, p \notin DOMAIN m.pt, p # <<>> => Up(p) \in DOMAIN m.pt,
           NEW n, n = [m EXCEPT !.pt = Put(@, p, f)]
    PROVE  /\ Good(n, U, H)
           /\ n.pt = Put(m.pt, p, f) /\ n.free = m.free
           /\ n.mapped = m.mapped /\ n.status = m.status /\ n.page = m.page
<1>1. n = [free |-> m.free, pt |-> Put(m.pt, p, f), page |-> m.page,
           mapped |-> m.mapped, status |-> m.status]
  BY SetField DEF Good
<1>2. Mem(n)
  BY <1>1 DEF Mem
<1>3. n.free = m.free /\ n.pt = Put(m.pt, p, f) /\ n.mapped = m.mapped
      /\ n.status = m.status /\ n.page = m.page
  BY <1>1
<1>4. f \notin TableFrames(m.pt) /\ f # KERNEL
  BY DEF Good, KERNEL
<1>5. Tree(n.pt) /\ Unshared(n.pt) /\ TableFrames(n.pt) = TableFrames(m.pt) \cup {f}
  BY <1>3, <1>4, PutTree DEF Good
<1> QED BY <1>2, <1>3, <1>5 DEF Good

\* An entry for a page that is not the allocator's.
LEMMA PutKernelGood ==
    ASSUME NEW m, NEW U, NEW H, Good(m, U, H),
           NEW p \in Paths, Len(p) = 3, p \notin DOMAIN m.pt, Up(p) \in DOMAIN m.pt,
           NEW n, n = [m EXCEPT !.pt = Put(@, p, KERNEL)]
    PROVE  /\ Good(n, U, H)
           /\ n.pt = Put(m.pt, p, KERNEL) /\ n.free = m.free
           /\ n.mapped = m.mapped /\ n.status = m.status /\ n.page = m.page
<1>1. n = [free |-> m.free, pt |-> Put(m.pt, p, KERNEL), page |-> m.page,
           mapped |-> m.mapped, status |-> m.status]
  BY SetField DEF Good
<1>2. Mem(n)
  BY <1>1 DEF Mem
<1>3. n.free = m.free /\ n.pt = Put(m.pt, p, KERNEL) /\ n.mapped = m.mapped
      /\ n.status = m.status /\ n.page = m.page
  BY <1>1
<1>4. KERNEL \notin TableFrames(m.pt)
  BY DEF TableFrames
<1>5. /\ Tree(Put(m.pt, p, KERNEL)) /\ Unshared(Put(m.pt, p, KERNEL))
      /\ TableFrames(Put(m.pt, p, KERNEL)) = TableFrames(m.pt) \cup ({KERNEL} \ {KERNEL})
  <2>1. Tree(m.pt) /\ Unshared(m.pt)
    BY DEF Good
  <2> QED BY <1>4, <2>1, PutTree
<1>6. Tree(n.pt) /\ Unshared(n.pt) /\ TableFrames(n.pt) = TableFrames(m.pt)
  BY <1>3, <1>5
<1> QED BY <1>2, <1>3, <1>6 DEF Good

\* pmm_alloc_page() takes a frame that is free into the hand, or fails.
LEMMA AllocEffect ==
    ASSUME NEW m, NEW U, NEW H, Good(m, U, H), NEW a, a = pmm_alloc_page(m)
    PROVE  /\ a.pt = m.pt /\ a.mapped = m.mapped
           /\ \/ /\ m.free = {} /\ a.status = "fail" /\ Good(a, U, H)
                 /\ a.free = m.free
              \/ /\ m.free # {} /\ a.status = m.status
                 /\ a.page \in m.free /\ a.page \in Nat /\ a.page \notin H
                 /\ a.free = m.free \ {a.page}
                 /\ Good(a, U, H \cup {a.page})
<1>1. CASE m.free = {}
  BY <1>1, SetStatus DEF pmm_alloc_page
<1>2. CASE m.free # {}
  <2> DEFINE f == Min(m.free)
  <2>1. f \in m.free
    <3>1. m.free \subseteq Nat
      BY DEF Good
    <3> QED BY <1>2, <3>1, LeastInSet
  <2> HIDE DEF f
  <2>2. a = [[m EXCEPT !.page = f] EXCEPT !.free = m.free \ {f}]
    BY <1>2 DEF pmm_alloc_page, f, Good, Mem
  <2>3. a = [free |-> m.free \ {f}, pt |-> m.pt, page |-> f, mapped |-> m.mapped,
             status |-> m.status]
    BY <2>2 DEF Good, Mem
  <2>4. Mem(a) /\ a.free = m.free \ {f} /\ a.pt = m.pt /\ a.page = f
        /\ a.mapped = m.mapped /\ a.status = m.status
    BY <2>3 DEF Mem
  <2>5. Good(a, U, H \cup {f}) /\ f \in Nat /\ f \notin H
    BY <2>1, <2>4 DEF Good
  <2> QED BY <1>2, <2>1, <2>4, <2>5
<1> QED BY <1>1, <1>2

\* Table u is t with more entries, of which S are leaves.
Adds(t, u, S) ==
    /\ DOMAIN t \subseteq DOMAIN u
    /\ \A q \in DOMAIN t : u[q] = t[q]
    /\ S \subseteq DOMAIN u
    /\ \A q \in DOMAIN u : Len(q) = 3 /\ q \notin DOMAIN t => q \in S

\* Adding nothing.
LEMMA AddsNothing == ASSUME NEW t PROVE Adds(t, t, {})
BY DEF Adds

\* Adding twice.
LEMMA AddsChain ==
    ASSUME NEW t, NEW u, NEW w, NEW S, NEW T, Adds(t, u, S), Adds(u, w, T)
    PROVE  Adds(t, w, S \cup T)
BY DEF Adds

\* Put() adds one entry.
LEMMA PutAdds ==
    ASSUME NEW t, NEW p, NEW x, p \notin DOMAIN t
    PROVE  Adds(t, Put(t, p, x), IF Len(p) = 3 THEN {p} ELSE {})
<1> DEFINE u == Put(t, p, x)
<1>1. DOMAIN u = DOMAIN t \cup {p}
  BY DEF Put
<1>2. \A q \in DOMAIN t : u[q] = t[q]
  BY DEF Put
<1> HIDE DEF u
<1>3. Adds(t, u, IF Len(p) = 3 THEN {p} ELSE {})
  BY <1>1, <1>2 DEF Adds
<1> QED BY <1>3 DEF u

\* One level of the walk of map_page().
LEMMA EnsureEffect ==
    ASSUME NEW m, NEW U, NEW H, Good(m, U, H), m.status = "ok",
           NEW p \in Paths, Len(p) # 3, p # <<>>, Up(p) \in DOMAIN m.pt,
           NEW n, n = Ensure(m, p)
    PROVE  /\ Good(n, U, H) /\ Adds(m.pt, n.pt, {}) /\ n.mapped = m.mapped
           /\ n.free \subseteq m.free
           /\ \/ n.status = "ok" /\ p \in DOMAIN n.pt
              \/ n.status = "fail"
<1>1. CASE p \in DOMAIN m.pt
  BY <1>1, AddsNothing DEF Ensure
<1>2. CASE p \notin DOMAIN m.pt
  <2> DEFINE a == pmm_alloc_page(m)
  <2> HIDE DEF a
  <2>1. /\ a.pt = m.pt /\ a.mapped = m.mapped
        /\ \/ /\ m.free = {} /\ a.status = "fail" /\ Good(a, U, H)
              /\ a.free = m.free
           \/ /\ m.free # {} /\ a.status = m.status
              /\ a.page \in m.free /\ a.page \in Nat /\ a.page \notin H
              /\ a.free = m.free \ {a.page}
              /\ Good(a, U, H \cup {a.page})
    BY AllocEffect DEF a
  <2>2. n = IF a.status # "ok" THEN a ELSE [a EXCEPT !.pt = Put(@, p, a.page)]
    BY <1>2 DEF Ensure, a
  <2>3. CASE m.free = {}
    BY <2>1, <2>2, <2>3, AddsNothing
  <2>4. CASE m.free # {}
    <3>1. n = [a EXCEPT !.pt = Put(@, p, a.page)]
      BY <2>1, <2>2, <2>4
    <3>2. /\ Good(n, U, H)
          /\ n.pt = Put(a.pt, p, a.page) /\ n.free = a.free
          /\ n.mapped = a.mapped /\ n.status = a.status
      BY <3>1, <1>2, <2>1, <2>4, PutGood
    <3>3. n.pt = Put(m.pt, p, a.page)
      BY <3>2, <2>1
    <3>4. Adds(m.pt, n.pt, {})
      BY <3>3, <1>2, PutAdds
    <3>5. p \in DOMAIN n.pt
      BY <3>3 DEF Put
    <3> QED BY <3>2, <3>4, <3>5, <2>1, <2>4
  <2> QED BY <2>3, <2>4
<1> QED BY <1>1, <1>2

\* The three levels of a leaf are entries of a page table.
LEMMA LeafPath ==
    ASSUME NEW i \in 0 .. ROOT - 1, NEW j \in 0 .. WIDTH - 1, NEW k \in 0 .. FAN - 1
    PROVE  /\ <<i>> \in Paths /\ <<i, j>> \in Paths /\ <<i, j, k>> \in Paths
BY DEF Paths

\* The walk: both tables above a leaf are there, or memory has run out.
LEMMA WalkEffect ==
    ASSUME NEW m, NEW U, NEW H, Good(m, U, H), m.status = "ok", <<>> \in DOMAIN m.pt,
           NEW i \in 0 .. ROOT - 1, NEW j \in 0 .. WIDTH - 1,
           NEW n, n = Ensure(Ensure(m, <<i>>), <<i, j>>)
    PROVE  /\ Good(n, U, H) /\ Adds(m.pt, n.pt, {}) /\ n.mapped = m.mapped
           /\ n.free \subseteq m.free
           /\ \/ n.status = "ok" /\ <<i, j>> \in DOMAIN n.pt
              \/ n.status = "fail"
<1> DEFINE a == Ensure(m, <<i>>)
<1>1. <<i>> \in Paths /\ <<i, j>> \in Paths
  BY DEF Paths
<1>2. /\ Len(<<i>>) # 3 /\ <<i>> # <<>> /\ Up(<<i>>) = <<>>
      /\ Len(<<i, j>>) # 3 /\ <<i, j>> # <<>> /\ Up(<<i, j>>) = <<i>>
  <2>1. Len(<<i>>) = 1 /\ Len(<<i, j>>) = 2 /\ Up(<<i>>) = <<>> /\ Up(<<i, j>>) = <<i>>
    BY PathForms
  <2>2. <<i>> # <<>> /\ <<i, j>> # <<>>
    BY PathsDiffer
  <2> QED BY <2>1, <2>2
<1> HIDE DEF a
<1>3. /\ Good(a, U, H) /\ Adds(m.pt, a.pt, {}) /\ a.mapped = m.mapped
      /\ a.free \subseteq m.free
      /\ \/ a.status = "ok" /\ <<i>> \in DOMAIN a.pt
         \/ a.status = "fail"
  BY <1>1, <1>2, EnsureEffect DEF a
<1>4. n = Ensure(a, <<i, j>>)
  BY DEF a
<1>5. CASE a.status = "ok"
  <2>1. /\ Good(n, U, H) /\ Adds(a.pt, n.pt, {}) /\ n.mapped = a.mapped
        /\ n.free \subseteq a.free
        /\ \/ n.status = "ok" /\ <<i, j>> \in DOMAIN n.pt
           \/ n.status = "fail"
    BY <1>1, <1>2, <1>3, <1>4, <1>5, EnsureEffect
  <2>2. Adds(m.pt, n.pt, {} \cup {})
    BY <1>3, <2>1, AddsChain
  <2>3. {} \cup {} = {}
    OBVIOUS
  <2> QED BY <1>3, <2>1, <2>2, <2>3
<1>6. CASE a.status = "fail"
  BY <1>3, <1>4, <1>6 DEF Ensure
<1> QED BY <1>3, <1>5, <1>6

\* map_page() of a leaf that is not there, for a frame in hand: the entry is
\* made, or the frame stays in hand.
MapResult(m, n, path, f, U, H) ==
    /\ n.mapped = m.mapped
    /\ n.free \subseteq m.free
    /\ \/ /\ n.status = "ok" /\ Good(n, U, H)
          /\ Adds(m.pt, n.pt, {path}) /\ n.pt[path] = f
       \/ /\ n.status = "fail" /\ Good(n, U, H \cup {f}) /\ Adds(m.pt, n.pt, {})

\* map_page() of a frame in hand: it is in the table, or still in hand on failure.
LEMMA MapFrameEffect ==
    ASSUME NEW m, NEW U, NEW H, NEW f \in Nat, f \notin H, Good(m, U, H \cup {f}),
           m.status = "ok", <<>> \in DOMAIN m.pt,
           NEW i \in 0 .. ROOT - 1, NEW j \in 0 .. WIDTH - 1, NEW k \in 0 .. FAN - 1,
           NEW path, path = <<i, j, k>>, path \notin DOMAIN m.pt,
           NEW n, n = map_page(m, path, f)
    PROVE  MapResult(m, n, path, f, U, H)
<1> DEFINE w == Ensure(Ensure(m, <<i>>), <<i, j>>)
<1>1. /\ Up(path) = <<i, j>> /\ Up(Up(path)) = <<i>> /\ Len(path) = 3 /\ path # <<>>
      /\ path \in Paths
  <2>1. Up(path) = <<i, j>> /\ Len(path) = 3
    BY PathForms
  <2>2. Up(<<i, j>>) = <<i>>
    BY PathForms
  <2>3. path # <<>> /\ path \in Paths
    BY PathsDiffer, LeafPath
  <2> QED BY <2>1, <2>2, <2>3
<1>2. n = IF w.status # "ok" THEN w ELSE [w EXCEPT !.pt = Put(@, path, f)]
  BY <1>1 DEF map_page
<1> HIDE DEF w
<1>3. /\ Good(w, U, H \cup {f}) /\ Adds(m.pt, w.pt, {}) /\ w.mapped = m.mapped
      /\ w.free \subseteq m.free
      /\ \/ w.status = "ok" /\ <<i, j>> \in DOMAIN w.pt
         \/ w.status = "fail"
  BY WalkEffect DEF w
<1>4. CASE w.status = "ok"
  <2>1. path \notin DOMAIN w.pt
    BY <1>1, <1>3 DEF Adds
  <2>2. n = [w EXCEPT !.pt = Put(@, path, f)]
    BY <1>2, <1>4
  <2>3. /\ Good(n, U, H) /\ n.pt = Put(w.pt, path, f) /\ n.free = w.free
        /\ n.mapped = w.mapped /\ n.status = w.status
    BY <1>1, <1>3, <1>4, <2>1, <2>2, PutGood
  <2>4. Adds(w.pt, n.pt, {path})
    <3>1. n.pt = Put(w.pt, path, f)
      BY <2>3
    <3>2. Adds(w.pt, Put(w.pt, path, f), IF Len(path) = 3 THEN {path} ELSE {})
      BY <2>1, PutAdds, Zenon
    <3> QED BY <1>1, <3>1, <3>2, Zenon
  <2>5. Adds(m.pt, n.pt, {} \cup {path})
    BY <1>3, <2>4, AddsChain
  <2>6. {} \cup {path} = {path}
    OBVIOUS
  <2>7. n.pt[path] = f
    BY <2>3 DEF Put
  <2> QED BY <1>3, <1>4, <2>3, <2>5, <2>6, <2>7 DEF MapResult
<1>5. CASE w.status = "fail"
  BY <1>2, <1>3, <1>5 DEF MapResult
<1> QED BY <1>3, <1>4, <1>5

\* map_page() for the kernel's own mappings.
MapKernelResult(m, n, path, U, H) ==
    /\ n.mapped = m.mapped /\ n.free \subseteq m.free /\ Good(n, U, H)
    /\ \/ n.status = "ok" /\ Adds(m.pt, n.pt, {path}) /\ n.pt[path] = KERNEL
       \/ n.status = "fail" /\ Adds(m.pt, n.pt, {})

\* map_page() of a page of the kernel takes frames for tables only.
LEMMA MapKernelEffect ==
    ASSUME NEW m, NEW U, NEW H, Good(m, U, H), m.status = "ok", <<>> \in DOMAIN m.pt,
           NEW i \in 0 .. ROOT - 1, NEW j \in 0 .. WIDTH - 1, NEW k \in 0 .. FAN - 1,
           NEW path, path = <<i, j, k>>, path \notin DOMAIN m.pt,
           NEW n, n = map_page(m, path, KERNEL)
    PROVE  MapKernelResult(m, n, path, U, H)
<1> DEFINE w == Ensure(Ensure(m, <<i>>), <<i, j>>)
<1>1. /\ Up(path) = <<i, j>> /\ Up(Up(path)) = <<i>> /\ Len(path) = 3
      /\ path \in Paths
  <2>1. Up(path) = <<i, j>> /\ Len(path) = 3
    BY PathForms
  <2>2. Up(<<i, j>>) = <<i>>
    BY PathForms
  <2> QED BY <2>1, <2>2, LeafPath
<1>2. n = IF w.status # "ok" THEN w ELSE [w EXCEPT !.pt = Put(@, path, KERNEL)]
  BY <1>1 DEF map_page
<1> HIDE DEF w
<1>3. /\ Good(w, U, H) /\ Adds(m.pt, w.pt, {}) /\ w.mapped = m.mapped
      /\ w.free \subseteq m.free
      /\ \/ w.status = "ok" /\ <<i, j>> \in DOMAIN w.pt
         \/ w.status = "fail"
  BY WalkEffect DEF w
<1>4. CASE w.status = "ok"
  <2>1. path \notin DOMAIN w.pt
    BY <1>1, <1>3 DEF Adds
  <2>2. n = [w EXCEPT !.pt = Put(@, path, KERNEL)]
    BY <1>2, <1>4
  <2>3. /\ Good(n, U, H) /\ n.pt = Put(w.pt, path, KERNEL) /\ n.free = w.free
        /\ n.mapped = w.mapped /\ n.status = w.status
    BY <1>1, <1>3, <1>4, <2>1, <2>2, PutKernelGood
  <2>4. Adds(w.pt, n.pt, {path})
    <3>1. n.pt = Put(w.pt, path, KERNEL)
      BY <2>3
    <3>2. Adds(w.pt, Put(w.pt, path, KERNEL), IF Len(path) = 3 THEN {path} ELSE {})
      BY <2>1, PutAdds, Zenon
    <3> QED BY <1>1, <3>1, <3>2, Zenon
  <2>5. Adds(m.pt, n.pt, {} \cup {path})
    BY <1>3, <2>4, AddsChain
  <2>6. {} \cup {path} = {path}
    OBVIOUS
  <2>7. n.pt[path] = KERNEL
    BY <2>3 DEF Put
  <2> QED BY <1>3, <1>4, <2>3, <2>5, <2>6, <2>7 DEF MapKernelResult
<1>5. CASE w.status = "fail"
  BY <1>2, <1>3, <1>5 DEF MapKernelResult
<1> QED BY <1>3, <1>4, <1>5

\* After a failure the walk does nothing any more.
LEMMA MapFailed ==
    ASSUME NEW m, m.status # "ok", NEW path, NEW x PROVE map_page(m, path, x) = m
BY DEF map_page, Ensure

\* A page in hand goes back.
FreeResult(m, n, f, U, H) ==
    /\ Good(n, U, H) /\ n.pt = m.pt /\ n.mapped = m.mapped
    /\ n.status = m.status /\ n.free = m.free \cup {f}

\* pmm_free_page() of a page in hand.
LEMMA FreeEffect ==
    ASSUME NEW m, NEW U, NEW H, NEW f \in Nat, f \notin H, Good(m, U, H \cup {f}),
           NEW n, n = pmm_free_page(m, f)
    PROVE  FreeResult(m, n, f, U, H)
<1>1. n = [free |-> m.free \cup {f}, pt |-> m.pt, page |-> m.page, mapped |-> m.mapped,
           status |-> m.status]
  BY SetField DEF Good, pmm_free_page
<1>2. Mem(n) /\ n.pt = m.pt /\ n.mapped = m.mapped /\ n.status = m.status
      /\ n.free = m.free \cup {f}
  BY <1>1 DEF Mem
<1> QED BY <1>2 DEF Good, FreeResult

\* One page for the user: the page is mapped, or nothing but tables is added.
NewPageResult(m, n, v, U, H) ==
    /\ Good(n, U, H)
    /\ \/ /\ n.status = "ok" /\ n.mapped = m.mapped + 1
          /\ m.free # {} /\ v \in 0 .. StackPage /\ Leaf(v) \notin DOMAIN m.pt
          /\ Adds(m.pt, n.pt, {Leaf(v)}) /\ n.pt[Leaf(v)] # KERNEL
       \/ /\ n.status = "fail" /\ n.mapped = m.mapped /\ Adds(m.pt, n.pt, {})

\* One page mapped, or on failure the page given back.
LEMMA MapNewPageEffect ==
    ASSUME NEW m, NEW U, NEW H, Good(m, U, H), m.status = "ok", <<>> \in DOMAIN m.pt,
           m.mapped \in Nat,
           NEW v \in Nat, m.free # {} => v \in 0 .. StackPage /\ Leaf(v) \notin DOMAIN m.pt,
           NEW n, n = MapNewPage(m, v)
    PROVE  NewPageResult(m, n, v, U, H)
<1> DEFINE a == pmm_alloc_page(m)
           b == map_page(a, Leaf(v), a.page)
<1>1. n = IF a.status # "ok" THEN a
          ELSE IF b.status = "ok" THEN [b EXCEPT !.mapped = @ + 1]
          ELSE pmm_free_page(b, a.page)
  BY DEF MapNewPage
<1> HIDE DEF a
<1>2. /\ a.pt = m.pt /\ a.mapped = m.mapped
      /\ \/ /\ m.free = {} /\ a.status = "fail" /\ Good(a, U, H)
            /\ a.free = m.free
         \/ /\ m.free # {} /\ a.status = m.status
            /\ a.page \in m.free /\ a.page \in Nat /\ a.page \notin H
            /\ a.free = m.free \ {a.page}
            /\ Good(a, U, H \cup {a.page})
  BY AllocEffect DEF a
<1>3. CASE m.free = {}
  BY <1>1, <1>2, <1>3, AddsNothing DEF NewPageResult
<1>4. CASE m.free # {}
  <2>1. v \div FAN \in 0 .. WIDTH - 1 /\ v % FAN \in 0 .. FAN - 1 /\ 0 \in 0 .. ROOT - 1
    BY <1>4, LeafIndices, Sizes
  <2> HIDE DEF b
  <2>2. /\ b.mapped = a.mapped
        /\ b.free \subseteq a.free
        /\ \/ /\ b.status = "ok" /\ Good(b, U, H)
              /\ Adds(a.pt, b.pt, {Leaf(v)}) /\ b.pt[Leaf(v)] = a.page
           \/ /\ b.status = "fail" /\ Good(b, U, H \cup {a.page}) /\ Adds(a.pt, b.pt, {})
    <3>1. Leaf(v) = <<0, v \div FAN, v % FAN>>
      BY DEF Leaf
    <3>2. a.status = "ok" /\ <<>> \in DOMAIN a.pt /\ Leaf(v) \notin DOMAIN a.pt
      BY <1>2, <1>4
    <3>3. PICK f \in Nat : f = a.page /\ f \notin H /\ Good(a, U, H \cup {f})
      BY <1>2, <1>4
    <3>4. b = map_page(a, Leaf(v), f)
      BY <3>3 DEF b
    <3>5. MapResult(a, b, Leaf(v), f, U, H)
      BY <2>1, <3>1, <3>2, <3>3, <3>4, MapFrameEffect
    <3> QED BY <3>3, <3>5 DEF MapResult
  <2>3. CASE b.status = "ok"
    <3>1. n = [b EXCEPT !.mapped = @ + 1]
      BY <1>1, <1>2, <1>4, <2>3
    <3>2. n = [free |-> b.free, pt |-> b.pt, page |-> b.page, mapped |-> b.mapped + 1,
               status |-> b.status]
      BY <2>2, <2>3, <3>1, SetField DEF Good
    <3>3. Mem(n) /\ n.free = b.free /\ n.pt = b.pt /\ n.mapped = b.mapped + 1
          /\ n.status = b.status
      BY <3>2 DEF Mem
    <3>4. Good(n, U, H)
      BY <2>2, <2>3, <3>3 DEF Good
    <3>5. n.pt[Leaf(v)] # KERNEL
      BY <1>2, <1>4, <2>2, <2>3, <3>3 DEF KERNEL
    <3> QED BY <1>2, <1>4, <2>2, <2>3, <3>3, <3>4, <3>5 DEF NewPageResult
  <2>4. CASE b.status = "fail"
    <3>1. n = pmm_free_page(b, a.page)
      BY <1>1, <1>2, <1>4, <2>4
    <3>2. Good(n, U, H) /\ n.pt = b.pt /\ n.mapped = b.mapped /\ n.status = b.status
      <4>1. PICK f \in Nat : f = a.page /\ f \notin H /\ Good(b, U, H \cup {f})
        BY <1>2, <1>4, <2>2, <2>4
      <4>2. n = pmm_free_page(b, f)
        BY <3>1, <4>1
      <4>3. FreeResult(b, n, f, U, H)
        BY <4>1, <4>2, FreeEffect
      <4> QED BY <4>3 DEF FreeResult
    <3> QED BY <1>2, <1>4, <2>2, <2>4, <3>2 DEF NewPageResult
  <2> QED BY <2>2, <2>3, <2>4
<1> QED BY <1>3, <1>4

-----------------------------------------------------------------------------
(* The loop over pages.                                                     *)

\* The heap never grows into the MMIO windows: while a frame is free, fewer
\* pages are mapped below than there are frames.
LEMMA RoomBelowMmio ==
    ASSUME NEW m, NEW U, NEW H, Good(m, U, H), U \subseteq 0 .. MmioPage - 1,
           NEW v \in Nat,
           \A w \in 0 .. v - 1 : Leaf(w) \in DOMAIN m.pt /\ m.pt[Leaf(w)] # KERNEL,
           m.free # {}
    PROVE  v < MmioPage
<1> SUFFICES ASSUME ~(v < MmioPage) PROVE FALSE
  OBVIOUS
<1>1. PICK x \in m.free : TRUE
  OBVIOUS
<1> DEFINE F == [w \in 0 .. MmioPage |-> IF w < MmioPage THEN m.pt[Leaf(w)] ELSE x]
<1>2. \A w \in 0 .. MmioPage - 1 :
         /\ w \in 0 .. v - 1 /\ w \in 0 .. StackPage
         /\ Leaf(w) \in DOMAIN m.pt /\ m.pt[Leaf(w)] # KERNEL
         /\ m.pt[Leaf(w)] \in TableFrames(m.pt)
  BY Sizes DEF TableFrames
<1>3. ASSUME NEW w \in 0 .. MmioPage PROVE F[w] \in 0 .. MmioPage - 1
  <2>1. CASE w = MmioPage
    <3>1. F[w] = x
      BY <2>1, Sizes
    <3>2. x \in U
      BY <1>1 DEF Good
    <3> QED BY <3>1, <3>2
  <2>2. CASE w # MmioPage
    <3>1. w \in 0 .. MmioPage - 1 /\ w < MmioPage
      BY <2>2, Sizes
    <3>2. m.pt[Leaf(w)] \in TableFrames(m.pt)
      BY <1>2, <3>1
    <3>3. m.pt[Leaf(w)] \in U
      BY <3>2 DEF Good
    <3> QED BY <3>1, <3>3
  <2> QED BY <2>1, <2>2
<1>4. F \in [0 .. MmioPage -> 0 .. MmioPage - 1]
  BY <1>3
<1>5. /\ IsFiniteSet(0 .. MmioPage) /\ IsFiniteSet(0 .. MmioPage - 1)
      /\ Cardinality(0 .. MmioPage - 1) < Cardinality(0 .. MmioPage)
  <2>1. 0 \in Int /\ MmioPage \in Int /\ MmioPage - 1 \in Int
    BY Sizes
  <2>2. /\ IsFiniteSet(0 .. MmioPage)
        /\ Cardinality(0 .. MmioPage) = IF 0 > MmioPage THEN 0 ELSE MmioPage - 0 + 1
    BY <2>1, FS_Interval
  <2>3. /\ IsFiniteSet(0 .. MmioPage - 1)
        /\ Cardinality(0 .. MmioPage - 1) =
              IF 0 > MmioPage - 1 THEN 0 ELSE (MmioPage - 1) - 0 + 1
    BY <2>1, FS_Interval
  <2> QED BY <2>2, <2>3, Sizes
<1>6. PICK y \in 0 .. MmioPage, z \in 0 .. MmioPage : y # z /\ F[y] = F[z]
  <2> HIDE DEF F
  <2> QED BY <1>4, <1>5, FS_PigeonHole
<1>7. ASSUME NEW w \in 0 .. MmioPage - 1 PROVE F[w] = m.pt[Leaf(w)] /\ F[w] # x
  <2>1. F[w] = m.pt[Leaf(w)]
    BY Sizes
  <2>2. m.pt[Leaf(w)] \in TableFrames(m.pt)
    BY <1>2
  <2> QED BY <1>1, <2>1, <2>2 DEF Good
<1>8. F[MmioPage] = x
  BY Sizes
<1>9. y \in 0 .. MmioPage - 1 /\ z \in 0 .. MmioPage - 1
  <2> HIDE DEF F
  <2> QED BY <1>6, <1>7, <1>8, Sizes
<1>10. Leaf(y) = Leaf(z)
  <2>1. m.pt[Leaf(y)] = m.pt[Leaf(z)]
    BY <1>6, <1>7, <1>9, Zenon
  <2>2. Leaf(y) \in DOMAIN m.pt /\ Leaf(z) \in DOMAIN m.pt /\ m.pt[Leaf(y)] # KERNEL
    BY <1>2, <1>9
  <2> QED BY <2>1, <2>2 DEF Good, Unshared
<1>11. y = z
  BY <1>2, <1>9, <1>10, LeafFacts
<1> QED BY <1>6, <1>11

\* MapNewPages() is a run of its loop.
LEMMA PagesLoop ==
    ASSUME NEW m, NEW first, NEW n \in Nat
    PROVE  \E f : /\ f[0] = m
                  /\ \A k \in 1 .. n : f[k] = MapNewPage(f[k - 1], first + (k - 1))
                  /\ f[n] = MapNewPages(m, first, n)
<1> DEFINE Is(f, N) == f = [k \in 0 .. N |-> IF k = 0 THEN m
                                            ELSE MapNewPage(f[k - 1], first + (k - 1))]
           S == {N \in Nat : ~ \E f : Is(f, N)}
<1>1. ASSUME NEW N \in S PROVE \E k \in S : k < N
  <2>1. N # 0
    <3> DEFINE f == [k \in 0 .. 0 |-> m]
    <3>1. Is(f, 0)
      BY Z3
    <3> HIDE DEF f, Is
    <3> QED BY <3>1
  <2>2. CASE \E f : Is(f, N - 1)
    <3>1. PICK f : Is(f, N - 1)
      BY <2>2
    <3> DEFINE last == MapNewPage(f[N - 1], first + (N - 1))
    <3> HIDE DEF last
    <3> DEFINE g == [k \in 0 .. N |-> IF k < N THEN f[k] ELSE last]
    <3>2. ASSUME NEW k \in 0 .. N
          PROVE  g[k] = IF k = 0 THEN m ELSE MapNewPage(g[k - 1], first + (k - 1))
      <4>1. CASE k < N
        <5>1. k \in 0 .. N - 1 /\ g[k] = f[k] /\ (k # 0 => g[k - 1] = f[k - 1])
          BY <4>1, <2>1
        <5>2. f[k] = IF k = 0 THEN m ELSE MapNewPage(f[k - 1], first + (k - 1))
          BY <3>1, <5>1
        <5> HIDE DEF g, Is
        <5> QED BY <5>1, <5>2
      <4>2. CASE k = N
        <5>1. g[k] = last /\ g[k - 1] = f[k - 1]
          BY <4>2, <2>1
        <5> HIDE DEF g, Is
        <5> QED BY <5>1, <4>2, <2>1 DEF last
      <4> QED BY <4>1, <4>2
    <3>3. Is(g, N)
      <4>1. g = [k \in 0 .. N |-> g[k]]
        OBVIOUS
      <4> HIDE DEF g
      <4> QED BY <3>2, <4>1
    <3> HIDE DEF g, Is
    <3> QED BY <3>3
  <2>3. CASE ~ \E f : Is(f, N - 1)
    <3>1. N - 1 \in Nat /\ N - 1 < N
      BY <2>1
    <3> HIDE DEF Is
    <3> QED BY <3>1, <2>3
  <2> QED BY <2>2, <2>3
<1>2. S = {}
  <2>1. S \subseteq Nat
    OBVIOUS
  <2> HIDE DEF S
  <2> QED BY <1>1, <2>1, NoLeast
<1>3. \E f : Is(f, n)
  <2> HIDE DEF Is
  <2> QED BY <1>2
<1> DEFINE F == CHOOSE f : Is(f, n)
<1>4. Is(F, n)
  <2> HIDE DEF Is
  <2> QED BY <1>3, Zenon
<1>5. MapNewPages(m, first, n) = F[n]
  BY DEF MapNewPages, For
<1> HIDE DEF F
<1>6. F[0] = m
  BY <1>4
<1>7. \A k \in 1 .. n : F[k] = MapNewPage(F[k - 1], first + (k - 1))
  BY <1>4
<1> HIDE DEF Is
<1> QED BY <1>5, <1>6, <1>7

\* What the loop has done after k turns: it has mapped c pages from page first
\* on, all k of them unless memory ran out.
PagesResult(m, x, first, k, U, H) ==
    \E c \in 0 .. k :
        /\ x.mapped = c
        /\ Good(x, U, H)
        /\ c > 0 => first + c <= MmioPage
        /\ Adds(m.pt, x.pt, {Leaf(w) : w \in first .. first + c - 1})
        /\ \A w \in first .. first + c - 1 : x.pt[Leaf(w)] # KERNEL
        /\ (x.status = "ok" /\ c = k) \/ x.status = "fail"

\* Pages can be mapped from page first on: those below are, those above are not.
ReadyAt(t, first) ==
    /\ <<>> \in DOMAIN t
    /\ \A w \in 0 .. first - 1 : Leaf(w) \in DOMAIN t /\ t[Leaf(w)] # KERNEL
    /\ \A w \in first .. MmioPage - 1 : Leaf(w) \notin DOMAIN t

\* One turn of the loop over pages.
LEMMA PagesStep ==
    ASSUME NEW m, NEW U, NEW H, U \subseteq 0 .. MmioPage - 1,
           NEW first \in Nat, ReadyAt(m.pt, first),
           NEW k \in Nat, NEW x, PagesResult(m, x, first, k, U, H),
           NEW n, n = MapNewPage(x, first + k)
    PROVE  PagesResult(m, n, first, k + 1, U, H)
<1>1. PICK c \in 0 .. k :
        /\ x.mapped = c
        /\ Good(x, U, H)
        /\ c > 0 => first + c <= MmioPage
        /\ Adds(m.pt, x.pt, {Leaf(w) : w \in first .. first + c - 1})
        /\ \A w \in first .. first + c - 1 : x.pt[Leaf(w)] # KERNEL
        /\ (x.status = "ok" /\ c = k) \/ x.status = "fail"
  BY DEF PagesResult
<1>2. CASE x.status = "fail"
  <2>1. n = x
    BY <1>2 DEF MapNewPage
  <2>2. c \in 0 .. k + 1
    OBVIOUS
  <2> QED BY <1>1, <1>2, <2>1, <2>2 DEF PagesResult
<1>3. CASE x.status = "ok"
  <2> DEFINE v == first + k
             L == {Leaf(w) : w \in first .. first + c - 1}
  <2>1. c = k /\ v \in Nat
    BY <1>1, <1>3
  <2>2. <<>> \in DOMAIN x.pt
    BY <1>1 DEF ReadyAt, Adds
  <2>3. ASSUME NEW w \in 0 .. v - 1 PROVE Leaf(w) \in DOMAIN x.pt /\ x.pt[Leaf(w)] # KERNEL
    <3>1. CASE w \in 0 .. first - 1
      <4>1. Leaf(w) \in DOMAIN m.pt /\ m.pt[Leaf(w)] # KERNEL
        BY <3>1 DEF ReadyAt
      <4> QED BY <1>1, <4>1 DEF Adds
    <3>2. CASE w \in first .. first + c - 1
      <4>1. Leaf(w) \in L
        BY <3>2
      <4>2. L \subseteq DOMAIN x.pt
        BY <1>1 DEF Adds
      <4> QED BY <1>1, <3>2, <4>1, <4>2
    <3> QED BY <2>1, <3>1, <3>2
  <2>4. x.free # {} => v < MmioPage
    <3> HIDE DEF v
    <3> QED BY <1>1, <2>1, <2>3, RoomBelowMmio
  <2>5. ASSUME x.free # {} PROVE v \in 0 .. StackPage /\ Leaf(v) \notin DOMAIN x.pt
    <3>1. v < MmioPage /\ v \in 0 .. StackPage /\ v \in first .. MmioPage - 1
      BY <2>1, <2>4, <2>5, Sizes
    <3>2. Leaf(v) \notin DOMAIN m.pt
      BY <3>1 DEF ReadyAt
    <3>3. Leaf(v) \notin L
      <4> SUFFICES ASSUME NEW w \in first .. first + c - 1, Leaf(v) = Leaf(w) PROVE FALSE
        OBVIOUS
      <4>1. w \in 0 .. StackPage /\ w # v
        BY <2>1, <3>1, Sizes
      <4> HIDE DEF v
      <4> QED BY <3>1, <4>1, LeafFacts
    <3>4. Len(Leaf(v)) = 3
      BY <3>1, LeafFacts
    <3> HIDE DEF v
    <3> QED BY <1>1, <3>1, <3>2, <3>3, <3>4 DEF Adds
  <2>6. NewPageResult(x, n, v, U, H)
    <3>1. x.mapped \in Nat
      BY <1>1
    <3>2. n = MapNewPage(x, v)
      OBVIOUS
    <3> HIDE DEF v
    <3> QED BY <1>1, <1>3, <2>1, <2>2, <2>5, <3>1, <3>2, MapNewPageEffect
  <2>7. CASE n.status = "ok"
    <3>1. /\ Good(n, U, H) /\ n.mapped = c + 1 /\ x.free # {}
          /\ Adds(x.pt, n.pt, {Leaf(v)}) /\ n.pt[Leaf(v)] # KERNEL
      <4> HIDE DEF v
      <4> QED BY <1>1, <2>6, <2>7 DEF NewPageResult
    <3>2. v < MmioPage
      BY <2>4, <3>1
    <3>3. Adds(m.pt, n.pt, L \cup {Leaf(v)})
      <4> HIDE DEF v
      <4> QED BY <1>1, <3>1, AddsChain
    <3>4. L \cup {Leaf(v)} = {Leaf(w) : w \in first .. first + (c + 1) - 1}
      <4>1. first .. first + (c + 1) - 1 = (first .. first + c - 1) \cup {v}
        BY <2>1
      <4> HIDE DEF v
      <4> QED BY <4>1
    <3>5. ASSUME NEW w \in first .. first + (c + 1) - 1 PROVE n.pt[Leaf(w)] # KERNEL
      <4>1. CASE w = v
        BY <3>1, <4>1
      <4>2. CASE w # v
        <5>1. w \in 0 .. v - 1
          BY <2>1, <4>2
        <5>2. Leaf(w) \in DOMAIN x.pt /\ x.pt[Leaf(w)] # KERNEL
          BY <2>3, <5>1
        <5> HIDE DEF v
        <5> QED BY <3>1, <5>2 DEF Adds
      <4> QED BY <4>1, <4>2
    <3>6. c + 1 \in 0 .. k + 1 /\ c + 1 = k + 1 /\ first + (c + 1) <= MmioPage
      BY <2>1, <3>2, Sizes
    <3>7. Adds(m.pt, n.pt, {Leaf(w) : w \in first .. first + (c + 1) - 1})
      BY <3>3, <3>4
    <3> HIDE DEF v, L
    <3> QED BY <2>7, <3>1, <3>5, <3>6, <3>7 DEF PagesResult
  <2>8. CASE n.status # "ok"
    <3>1. Good(n, U, H) /\ n.status = "fail" /\ n.mapped = c /\ Adds(x.pt, n.pt, {})
      <4> HIDE DEF v
      <4> QED BY <1>1, <2>6, <2>8 DEF NewPageResult
    <3>2. Adds(m.pt, n.pt, L \cup {})
      <4> HIDE DEF L
      <4>1. Adds(m.pt, x.pt, L)
        BY <1>1 DEF L
      <4> QED BY <3>1, <4>1, AddsChain
    <3>3. L \cup {} = L
      OBVIOUS
    <3>4. Adds(m.pt, n.pt, {Leaf(w) : w \in first .. first + c - 1})
      BY <3>2, <3>3
    <3>5. ASSUME NEW w \in first .. first + c - 1 PROVE n.pt[Leaf(w)] # KERNEL
      <4>1. w \in 0 .. v - 1
        BY <2>1
      <4>2. Leaf(w) \in DOMAIN x.pt /\ x.pt[Leaf(w)] # KERNEL
        BY <2>3, <4>1
      <4> QED BY <3>1, <4>2 DEF Adds
    <3>6. c \in 0 .. k + 1
      OBVIOUS
    <3> HIDE DEF v, L
    <3> QED BY <1>1, <3>1, <3>4, <3>5, <3>6 DEF PagesResult
  <2> QED BY <2>7, <2>8
<1> QED BY <1>1, <1>2, <1>3

\* MapNewPages() after all its turns.
LEMMA PagesEffect ==
    ASSUME NEW m, NEW U, NEW H, Good(m, U, H), U \subseteq 0 .. MmioPage - 1,
           m.status = "ok", m.mapped = 0, NEW first \in Nat, ReadyAt(m.pt, first),
           NEW n \in Nat
    PROVE  PagesResult(m, MapNewPages(m, first, n), first, n, U, H)
<1>1. PICK f : /\ f[0] = m
               /\ \A k \in 1 .. n : f[k] = MapNewPage(f[k - 1], first + (k - 1))
               /\ f[n] = MapNewPages(m, first, n)
  BY PagesLoop
<1> DEFINE P(k) == PagesResult(m, f[k], first, k, U, H)
           S == {k \in 0 .. n : ~P(k)}
<1>2. P(0)
  <2>1. first .. first + 0 - 1 = {}
    OBVIOUS
  <2>2. {Leaf(w) : w \in first .. first + 0 - 1} = {}
    BY <2>1
  <2>3. Adds(m.pt, f[0].pt, {Leaf(w) : w \in first .. first + 0 - 1})
    BY <1>1, <2>2, AddsNothing
  <2>4. 0 \in 0 .. 0 /\ ~(0 > 0)
    OBVIOUS
  <2> QED BY <1>1, <2>1, <2>3, <2>4 DEF PagesResult
<1>3. ASSUME NEW k \in S PROVE \E l \in S : l < k
  <2>1. k # 0 /\ ~P(k) /\ k \in 0 .. n
    BY <1>2
  <2>2. PICK l \in Nat : l = k - 1 /\ l + 1 = k /\ k \in 1 .. n /\ l \in 0 .. n
    BY <2>1
  <2>3. f[k] = MapNewPage(f[l], first + l)
    BY <1>1, <2>2
  <2>4. P(l) => P(l + 1)
    BY <2>2, <2>3, PagesStep
  <2> HIDE DEF P
  <2>5. l \in S /\ l < k
    BY <2>1, <2>2, <2>4
  <2> QED BY <2>5
<1>4. S = {}
  <2>1. S \subseteq Nat
    OBVIOUS
  <2> HIDE DEF S
  <2> QED BY <1>3, <2>1, NoLeast
<1>5. P(n)
  <2> HIDE DEF P
  <2> QED BY <1>4
<1> QED BY <1>1, <1>5

-----------------------------------------------------------------------------
(* Address spaces.                                                          *)

\* The kernel's mappings, n pages of program and heap, and perhaps the stack.
Space(t, n) ==
    /\ <<>> \in DOMAIN t
    /\ \A p \in {KernelLeaf, Leaf(MmioPage)} : p \in DOMAIN t /\ t[p] = KERNEL
    /\ n <= MmioPage
    /\ \A w \in 0 .. n - 1 : Leaf(w) \in DOMAIN t /\ t[Leaf(w)] # KERNEL
    /\ \A q \in DOMAIN t : Len(q) = 3 =>
          q \in {KernelLeaf, Leaf(MmioPage), Leaf(StackPage)} \cup {Leaf(w) : w \in 0 .. n - 1}
    /\ Leaf(StackPage) \in DOMAIN t => t[Leaf(StackPage)] # KERNEL

\* The next page of the heap is not mapped yet.
LEMMA SpaceReady ==
    ASSUME NEW t, NEW n \in Nat, Space(t, n) PROVE ReadyAt(t, n)
<1> SUFFICES ASSUME NEW w \in n .. MmioPage - 1, Leaf(w) \in DOMAIN t PROVE FALSE
  BY DEF Space, ReadyAt
<1>1. /\ w \in 0 .. StackPage /\ w # MmioPage /\ w # StackPage
      /\ MmioPage \in 0 .. StackPage /\ StackPage \in 0 .. StackPage
  BY Sizes
<1>2. Len(Leaf(w)) = 3 /\ Leaf(w) # KernelLeaf
  BY <1>1, LeafFacts
<1>3. Leaf(w) # Leaf(MmioPage) /\ Leaf(w) # Leaf(StackPage)
  BY <1>1, LeafFacts
<1>4. PICK z \in 0 .. n - 1 : Leaf(w) = Leaf(z)
  BY <1>2, <1>3 DEF Space
<1>5. z \in 0 .. StackPage /\ z # w
  BY <1>1
<1> QED BY <1>1, <1>4, <1>5, LeafFacts

\* More tables, or the stack, leave an address space one.
LEMMA SpaceAdds ==
    ASSUME NEW t, NEW u, NEW n \in Nat, NEW S, Space(t, n), Adds(t, u, S),
           S \subseteq {Leaf(StackPage)}, Leaf(StackPage) \in S => u[Leaf(StackPage)] # KERNEL
    PROVE  Space(u, n)
<1>1. <<>> \in DOMAIN u
  BY DEF Space, Adds
<1>2. \A p \in {KernelLeaf, Leaf(MmioPage)} : p \in DOMAIN u /\ u[p] = KERNEL
  BY DEF Space, Adds
<1>3. \A w \in 0 .. n - 1 : Leaf(w) \in DOMAIN u /\ u[Leaf(w)] # KERNEL
  BY DEF Space, Adds
<1>4. \A q \in DOMAIN u : Len(q) = 3 =>
          q \in {KernelLeaf, Leaf(MmioPage), Leaf(StackPage)} \cup {Leaf(w) : w \in 0 .. n - 1}
  BY DEF Space, Adds
<1>5. Leaf(StackPage) \in DOMAIN u => u[Leaf(StackPage)] # KERNEL
  <2>1. Len(Leaf(StackPage)) = 3
    BY LeafFacts, Sizes
  <2> QED BY <2>1 DEF Space, Adds
<1>6. n <= MmioPage
  BY DEF Space
<1> QED BY <1>1, <1>2, <1>3, <1>4, <1>5, <1>6 DEF Space

\* The loop over pages makes a larger one.
LEMMA PagesSpace ==
    ASSUME NEW m, NEW x, NEW first \in Nat, NEW c \in Nat, Space(m.pt, first),
           c > 0 => first + c <= MmioPage,
           Adds(m.pt, x.pt, {Leaf(w) : w \in first .. first + c - 1}),
           \A w \in first .. first + c - 1 : x.pt[Leaf(w)] # KERNEL
    PROVE  Space(x.pt, first + c)
<1> DEFINE t == m.pt
           u == x.pt
           L == {Leaf(w) : w \in first .. first + c - 1}
<1>a. Space(t, first) /\ Adds(t, u, L) /\ \A w \in first .. first + c - 1 : u[Leaf(w)] # KERNEL
  OBVIOUS
<1>1. first + c <= MmioPage
  BY Sizes DEF Space
<1>2. ASSUME NEW w \in 0 .. first + c - 1 PROVE Leaf(w) \in DOMAIN u /\ u[Leaf(w)] # KERNEL
  <2>1. CASE w \in 0 .. first - 1
    BY <1>a, <2>1 DEF Space, Adds
  <2>2. CASE w \in first .. first + c - 1
    <3>1. Leaf(w) \in L
      BY <2>2
    <3> HIDE DEF L, u, t
    <3> QED BY <1>a, <2>2, <3>1 DEF Adds
  <2> QED BY <2>1, <2>2
<1>3. ASSUME NEW q \in DOMAIN u, Len(q) = 3
      PROVE  q \in {KernelLeaf, Leaf(MmioPage), Leaf(StackPage)}
                    \cup {Leaf(w) : w \in 0 .. first + c - 1}
  <2>1. CASE q \in DOMAIN t
    <3>1. q \in {KernelLeaf, Leaf(MmioPage), Leaf(StackPage)}
                 \cup {Leaf(w) : w \in 0 .. first - 1}
      BY <1>3, <2>1 DEF Space
    <3>2. 0 .. first - 1 \subseteq 0 .. first + c - 1
      OBVIOUS
    <3> QED BY <3>1, <3>2
  <2>2. CASE q \notin DOMAIN t
    <3>1. q \in L
      <4> HIDE DEF L, u, t
      <4> QED BY <1>a, <1>3, <2>2 DEF Adds
    <3>2. first .. first + c - 1 \subseteq 0 .. first + c - 1
      OBVIOUS
    <3> QED BY <3>1, <3>2
  <2> QED BY <2>1, <2>2
<1>4. ASSUME Leaf(StackPage) \in DOMAIN u PROVE u[Leaf(StackPage)] # KERNEL
  <2>1. Leaf(StackPage) \in DOMAIN t => u[Leaf(StackPage)] # KERNEL
    <3> HIDE DEF L, u, t
    <3> QED BY <1>a DEF Space, Adds
  <2>2. Len(Leaf(StackPage)) = 3
    BY LeafFacts, Sizes
  <2>3. Leaf(StackPage) \in L => u[Leaf(StackPage)] # KERNEL
    OBVIOUS
  <2> HIDE DEF L, u, t
  <2> QED BY <1>a, <1>4, <2>1, <2>2, <2>3 DEF Adds
<1>5. /\ <<>> \in DOMAIN u
      /\ \A p \in {KernelLeaf, Leaf(MmioPage)} : p \in DOMAIN u /\ u[p] = KERNEL
  <2> HIDE DEF L, u, t
  <2> QED BY <1>a DEF Space, Adds
<1> HIDE DEF L, u, t
<1>6. Space(u, first + c)
  BY <1>1, <1>2, <1>3, <1>4, <1>5 DEF Space
<1> QED BY <1>6 DEF u

\* The root of a page table is a frame.
LEMMA RootIsFrame ==
    ASSUME NEW t, Tree(t), <<>> \in DOMAIN t
    PROVE  t[<<>>] \in Nat /\ t[<<>>] \in TableFrames(t)
<1>1. t[<<>>] \in Nat
  BY PathForms DEF Tree
<1> QED BY <1>1 DEF TableFrames, KERNEL

\* Nothing is below a leaf.
LEMMA UpIsTable ==
    ASSUME NEW p \in Paths PROVE Len(Up(p)) # 3
<1>1. CASE \E i, j, k : p = <<i, j, k>>
  <2>1. PICK i, j, k : p = <<i, j, k>>
    BY <1>1
  <2>2. Up(p) = <<i, j>>
    BY <2>1, PathForms
  <2> QED BY <2>2, PathForms
<1>2. CASE \E i, j : p = <<i, j>>
  <2>1. PICK i, j : p = <<i, j>>
    BY <1>2
  <2>2. Up(p) = <<i>>
    BY <2>1, PathForms
  <2> QED BY <2>2, PathForms
<1>3. CASE \E i : p = <<i>>
  <2>1. PICK i : p = <<i>>
    BY <1>3
  <2>2. Up(p) = <<>>
    BY <2>1, PathForms
  <2> QED BY <2>2, PathForms
<1>4. CASE p = <<>>
  <2>1. Up(p) = <<p[1], p[2]>>
    BY <1>4, PathForms DEF Up
  <2> QED BY <2>1, PathForms
<1> QED BY <1>1, <1>2, <1>3, <1>4 DEF Paths

\* vmm_unmap_range() of user pages gives their frames back.
LEMMA UnmapEffect ==
    ASSUME NEW m, NEW U, NEW H, Good(m, U, H),
           NEW first \in Nat, NEW c \in Nat, first + c <= MmioPage,
           Space(m.pt, first + c),
           NEW n, n = vmm_unmap_range(m, first .. first + c - 1)
    PROVE  Good(n, U, H) /\ Space(n.pt, first)
<1> DEFINE t == m.pt
           gone == {Leaf(w) : w \in first .. first + c - 1} \cap DOMAIN t
           F == {t[p] : p \in gone}
           u == [p \in DOMAIN t \ gone |-> t[p]]
<1>a. Mem(m) /\ Tree(t) /\ Unshared(t) /\ Space(t, first + c)
  BY DEF Good
<1>1. ASSUME NEW p \in gone
      PROVE  /\ p \in DOMAIN t /\ t[p] # KERNEL
             /\ \E w \in first .. first + c - 1 : p = Leaf(w) /\ w \in 0 .. StackPage
             /\ Len(p) = 3
  <2>1. PICK w \in first .. first + c - 1 : p = Leaf(w)
    OBVIOUS
  <2>2. w \in 0 .. first + c - 1 /\ w \in 0 .. StackPage
    BY Sizes
  <2>3. Len(Leaf(w)) = 3
    BY <2>2, LeafFacts
  <2>4. t[Leaf(w)] # KERNEL
    BY <1>a, <2>2 DEF Space
  <2> QED BY <2>1, <2>2, <2>3, <2>4
<1>2. n = [[m EXCEPT !.free = m.free \cup F] EXCEPT !.pt = u]
  BY <1>a DEF vmm_unmap_range, Mem
<1> HIDE DEF F, u
<1>3. n = [free |-> m.free \cup F, pt |-> u, page |-> m.page, mapped |-> m.mapped,
           status |-> m.status]
  BY <1>a, <1>2 DEF Mem
<1>4. Mem(n) /\ n.free = m.free \cup F /\ n.pt = u
  BY <1>3 DEF Mem
<1> HIDE DEF gone, t
<1>5. gone \subseteq DOMAIN t
  BY <1>1
<1>6. DOMAIN u = DOMAIN t \ gone /\ \A p \in DOMAIN t \ gone : u[p] = t[p]
  BY DEF u
<1>7. TableFrames(t) = TableFrames(u) \cup F
  BY <1>1, <1>5, <1>6 DEF TableFrames, F
<1>8. TableFrames(u) \cap F = {}
  <2> SUFFICES ASSUME NEW p \in DOMAIN t \ gone, NEW q \in gone, t[p] = t[q] PROVE FALSE
    BY <1>6 DEF TableFrames, F
  <2>1. q \in DOMAIN t /\ t[q] # KERNEL
    BY <1>1
  <2>2. p = q
    BY <1>a, <2>1 DEF Unshared
  <2> QED BY <2>2
<1>9. Unshared(u)
  BY <1>a, <1>6 DEF Unshared
<1>10. Tree(u)
  <2> SUFFICES ASSUME NEW p \in DOMAIN u
               PROVE  /\ p \in Paths
                      /\ u[p] \in Nat \/ (u[p] = KERNEL /\ Len(p) = 3)
                      /\ p # <<>> => Up(p) \in DOMAIN u
    BY DEF Tree
  <2>1. /\ p \in Paths /\ (t[p] \in Nat \/ (t[p] = KERNEL /\ Len(p) = 3))
        /\ p # <<>> => Up(p) \in DOMAIN t
    BY <1>a, <1>6 DEF Tree
  <2>2. Up(p) \notin gone
    BY <1>1, <2>1, UpIsTable
  <2> QED BY <1>6, <2>1, <2>2
<1>11. Good(n, U, H)
  <2>1. m.free \cup TableFrames(t) \cup H = U /\ U \subseteq Nat /\ m.free \cap TableFrames(t) = {}
        /\ m.free \cap H = {} /\ TableFrames(t) \cap H = {}
    BY DEF Good, t
  <2> QED BY <1>4, <1>7, <1>8, <1>9, <1>10, <2>1 DEF Good
<1>12. Space(u, first)
  <2>1. ASSUME NEW p \in DOMAIN t,
               p \in {KernelLeaf, Leaf(MmioPage), Leaf(StackPage), <<>>}
                       \cup {Leaf(w) : w \in 0 .. first - 1}
        PROVE  p \in DOMAIN u /\ u[p] = t[p]
    <3> SUFFICES ASSUME p \in gone PROVE FALSE
      BY <1>6
    <3>1. PICK w \in first .. first + c - 1 : p = Leaf(w) /\ w \in 0 .. StackPage
      BY <1>1
    <3>2. Len(p) = 3
      BY <1>1
    <3>3. p # <<>>
      <4>1. Leaf(w) # <<>>
        BY PathsDiffer DEF Leaf
      <4> QED BY <3>1, <4>1
    <3>4. p # KernelLeaf
      BY <3>1, LeafFacts
    <3>5. /\ w # MmioPage /\ w # StackPage
          /\ MmioPage \in 0 .. StackPage /\ StackPage \in 0 .. StackPage
      BY <3>1, Sizes
    <3>6. p # Leaf(MmioPage) /\ p # Leaf(StackPage)
      BY <3>1, <3>5, LeafFacts
    <3>7. PICK z \in 0 .. first - 1 : p = Leaf(z)
      BY <2>1, <3>3, <3>4, <3>6
    <3>8. z \in 0 .. StackPage /\ z # w
      BY <3>1, <3>7, Sizes
    <3> QED BY <3>1, <3>7, <3>8, LeafFacts
  <2>2. /\ <<>> \in DOMAIN t
        /\ \A p \in {KernelLeaf, Leaf(MmioPage)} : p \in DOMAIN t /\ t[p] = KERNEL
        /\ \A w \in 0 .. first + c - 1 : Leaf(w) \in DOMAIN t /\ t[Leaf(w)] # KERNEL
        /\ Leaf(StackPage) \in DOMAIN t => t[Leaf(StackPage)] # KERNEL
    BY <1>a DEF Space
  <2>3. <<>> \in DOMAIN u
    BY <2>1, <2>2
  <2>4. \A p \in {KernelLeaf, Leaf(MmioPage)} : p \in DOMAIN u /\ u[p] = KERNEL
    BY <2>1, <2>2
  <2>5. ASSUME NEW w \in 0 .. first - 1 PROVE Leaf(w) \in DOMAIN u /\ u[Leaf(w)] # KERNEL
    <3>1. w \in 0 .. first + c - 1
      OBVIOUS
    <3>2. Leaf(w) \in DOMAIN t /\ t[Leaf(w)] # KERNEL
      BY <2>2, <3>1
    <3>3. Leaf(w) \in DOMAIN u /\ u[Leaf(w)] = t[Leaf(w)]
      BY <2>1, <3>2
    <3> QED BY <3>2, <3>3
  <2>6. ASSUME NEW q \in DOMAIN u, Len(q) = 3
        PROVE  q \in {KernelLeaf, Leaf(MmioPage), Leaf(StackPage)}
                       \cup {Leaf(w) : w \in 0 .. first - 1}
    <3>1. q \in DOMAIN t /\ q \notin gone
      BY <1>6
    <3>2. q \in {KernelLeaf, Leaf(MmioPage), Leaf(StackPage)}
                  \cup {Leaf(w) : w \in 0 .. first + c - 1}
      BY <1>a, <2>6, <3>1 DEF Space
    <3>3. ASSUME NEW w \in 0 .. first + c - 1, q = Leaf(w)
          PROVE  q \in {Leaf(z) : z \in 0 .. first - 1}
      <4>1. w \notin first .. first + c - 1
        BY <3>1, <3>3 DEF gone
      <4>2. w \in 0 .. first - 1
        BY <4>1
      <4> QED BY <3>3, <4>2
    <3> QED BY <3>2, <3>3
  <2>7. Leaf(StackPage) \in DOMAIN u => u[Leaf(StackPage)] # KERNEL
    BY <1>6, <2>2
  <2>8. first <= MmioPage
    BY Sizes
  <2> QED BY <2>3, <2>4, <2>5, <2>6, <2>7, <2>8 DEF Space
<1> QED BY <1>4, <1>11, <1>12

\* A fresh root.
RootResult(m, r, U, H) ==
    /\ Good(r, U, H) /\ r.mapped = m.mapped
    /\ \/ r.status = "ok" /\ DOMAIN r.pt = {<<>>}
       \/ r.status = "fail" /\ r.pt = m.pt

\* NewRoot() with the empty table in hand.
LEMMA NewRootEffect ==
    ASSUME NEW m, NEW U, NEW H, Good(m, U, H), m.status = "ok", m.pt = EmptyTable,
           NEW r, r = NewRoot(m)
    PROVE  RootResult(m, r, U, H)
<1> DEFINE a == pmm_alloc_page(m)
<1>1. r = IF a.status # "ok" THEN a ELSE [a EXCEPT !.pt = Put(EmptyTable, <<>>, a.page)]
  BY DEF NewRoot
<1> HIDE DEF a
<1>2. /\ a.pt = m.pt /\ a.mapped = m.mapped
      /\ \/ /\ m.free = {} /\ a.status = "fail" /\ Good(a, U, H)
            /\ a.free = m.free
         \/ /\ m.free # {} /\ a.status = m.status
            /\ a.page \in m.free /\ a.page \in Nat /\ a.page \notin H
            /\ a.free = m.free \ {a.page}
            /\ Good(a, U, H \cup {a.page})
  BY AllocEffect DEF a
<1>3. CASE m.free = {}
  BY <1>1, <1>2, <1>3 DEF RootResult
<1>4. CASE m.free # {}
  <2>1. a.pt = EmptyTable /\ a.status = "ok"
    BY <1>2, <1>4
  <2>2. r = [a EXCEPT !.pt = Put(@, <<>>, a.page)]
    BY <1>1, <2>1
  <2>3. <<>> \in Paths /\ <<>> \notin DOMAIN a.pt
    BY <2>1 DEF Paths, EmptyTable
  <2>4. /\ Good(r, U, H)
        /\ r.pt = Put(a.pt, <<>>, a.page) /\ r.free = a.free
        /\ r.mapped = a.mapped /\ r.status = a.status /\ r.page = a.page
    BY <1>2, <1>4, <2>2, <2>3, PutGood
  <2>5. DOMAIN r.pt = DOMAIN EmptyTable \cup {<<>>}
    BY <2>1, <2>4 DEF Put
  <2>6. DOMAIN r.pt = {<<>>}
    BY <2>5 DEF EmptyTable
  <2> QED BY <1>2, <2>1, <2>4, <2>6 DEF RootResult
<1> QED BY <1>3, <1>4

\* vmm_map_kernel() of a fresh root: the kernel's mappings and nothing else.
KernelResult(r, k, U, H) ==
    \/ k.status = "panic"
    \/ /\ k.status = "ok" /\ Good(k, U, H) /\ k.mapped = r.mapped
       /\ Space(k.pt, 0) /\ Leaf(StackPage) \notin DOMAIN k.pt

\* The kernel is mapped, or the allocation panics.
LEMMA MapKernel ==
    ASSUME NEW r, NEW U, NEW H, Good(r, U, H), r.status = "ok", DOMAIN r.pt = {<<>>},
           NEW k, k = vmm_map_kernel(r)
    PROVE  KernelResult(r, k, U, H)
<1> DEFINE a == map_page(r, KernelLeaf, KERNEL)
           b == map_page(a, Leaf(MmioPage), KERNEL)
<1>1. k = IF b.status = "fail" THEN [b EXCEPT !.status = "panic"] ELSE b
  BY DEF vmm_map_kernel
<1>2. /\ Len(<<>>) = 0 /\ Len(KernelLeaf) = 3 /\ Len(Leaf(MmioPage)) = 3
      /\ Len(Leaf(StackPage)) = 3 /\ Leaf(MmioPage) # KernelLeaf
      /\ Leaf(StackPage) # KernelLeaf /\ Leaf(StackPage) # Leaf(MmioPage)
  <2>1. MmioPage \in 0 .. StackPage /\ StackPage \in 0 .. StackPage /\ MmioPage # StackPage
    BY Sizes
  <2>2. /\ Len(Leaf(MmioPage)) = 3 /\ Leaf(MmioPage) # KernelLeaf
        /\ Len(Leaf(StackPage)) = 3 /\ Leaf(StackPage) # KernelLeaf
    BY <2>1, LeafFacts
  <2>3. Leaf(StackPage) # Leaf(MmioPage)
    BY <2>1, LeafFacts
  <2>4. Len(KernelLeaf) = 3 /\ Len(<<>>) = 0
    BY DEF KernelLeaf
  <2> QED BY <2>2, <2>3, <2>4
<1> HIDE DEF a
<1>3. /\ a.mapped = r.mapped /\ Good(a, U, H)
      /\ \/ a.status = "ok" /\ Adds(r.pt, a.pt, {KernelLeaf}) /\ a.pt[KernelLeaf] = KERNEL
         \/ a.status = "fail"
  <2>1. KernelLeaf = <<USER, 0, 0>> /\ USER \in 0 .. ROOT - 1 /\ 0 \in 0 .. WIDTH - 1
        /\ 0 \in 0 .. FAN - 1
    BY Sizes DEF KernelLeaf
  <2>2. KernelLeaf \notin DOMAIN r.pt /\ <<>> \in DOMAIN r.pt
    BY <1>2
  <2>3. a = map_page(r, KernelLeaf, KERNEL)
    BY DEF a
  <2>4. MapKernelResult(r, a, KernelLeaf, U, H)
    BY <2>1, <2>2, <2>3, MapKernelEffect
  <2> QED BY <2>4 DEF MapKernelResult
<1>4. CASE a.status = "fail"
  <2>1. b = a
    BY <1>4, MapFailed
  <2> HIDE DEF b
  <2>2. k = [b EXCEPT !.status = "panic"] /\ Good(b, U, H)
    BY <1>1, <1>3, <1>4, <2>1
  <2> QED BY <2>2, SetStatus DEF KernelResult
<1>5. CASE a.status = "ok"
  <2>1. PICK i, j, l : /\ Leaf(MmioPage) = <<i, j, l>> /\ i \in 0 .. ROOT - 1
                       /\ j \in 0 .. WIDTH - 1 /\ l \in 0 .. FAN - 1
    <3>1. /\ 0 \in 0 .. ROOT - 1 /\ MmioPage \div FAN \in 0 .. WIDTH - 1
          /\ MmioPage % FAN \in 0 .. FAN - 1
      <4>1. MmioPage \in 0 .. StackPage
        BY Sizes
      <4> QED BY <4>1, LeafIndices, Sizes
    <3> QED BY <3>1 DEF Leaf
  <2>2. Leaf(MmioPage) \notin DOMAIN a.pt /\ <<>> \in DOMAIN a.pt
    BY <1>2, <1>3, <1>5 DEF Adds
  <2> HIDE DEF b
  <2>3. b = map_page(a, Leaf(MmioPage), KERNEL)
    BY DEF b
  <2>4. /\ b.mapped = a.mapped /\ b.free \subseteq a.free /\ Good(b, U, H)
        /\ \/ /\ b.status = "ok" /\ Adds(a.pt, b.pt, {Leaf(MmioPage)})
              /\ b.pt[Leaf(MmioPage)] = KERNEL
           \/ b.status = "fail" /\ Adds(a.pt, b.pt, {})
    <3>1. MapKernelResult(a, b, Leaf(MmioPage), U, H)
      BY <1>3, <1>5, <2>1, <2>2, <2>3, MapKernelEffect
    <3> QED BY <3>1 DEF MapKernelResult
  <2>5. CASE b.status = "fail"
    <3>1. k = [b EXCEPT !.status = "panic"]
      BY <1>1, <2>5
    <3> QED BY <2>4, <3>1, SetStatus DEF KernelResult
  <2>6. CASE b.status = "ok"
    <3>1. k = b
      BY <1>1, <2>6
    <3>2. Adds(r.pt, a.pt, {KernelLeaf}) /\ Adds(a.pt, b.pt, {Leaf(MmioPage)})
      BY <1>3, <1>5, <2>4, <2>6
    <3>3. \A q \in DOMAIN b.pt : Len(q) = 3 => q \in {KernelLeaf, Leaf(MmioPage)}
      BY <1>2, <3>2 DEF Adds
    <3>4. /\ <<>> \in DOMAIN b.pt /\ KernelLeaf \in DOMAIN b.pt
          /\ Leaf(MmioPage) \in DOMAIN b.pt
          /\ b.pt[KernelLeaf] = KERNEL /\ b.pt[Leaf(MmioPage)] = KERNEL
      BY <1>3, <1>5, <2>4, <2>6, <3>2 DEF Adds
    <3>5. Leaf(StackPage) \notin DOMAIN b.pt
      BY <1>2, <3>3
    <3>6. 0 <= MmioPage /\ 0 .. 0 - 1 = {}
      BY Sizes
    <3>7. Space(b.pt, 0)
      BY <3>3, <3>4, <3>5, <3>6 DEF Space
    <3> QED BY <1>3, <2>4, <2>6, <3>1, <3>5, <3>7 DEF KernelResult
  <2> QED BY <2>4, <2>5, <2>6
<1> QED BY <1>3, <1>4, <1>5

\* alloc_proc(): an address space and a kernel stack, or the frames of the
\* page table are left in it.
ProcResult(s, U) ==
    \/ s.status = "panic"
    \/ /\ s.status = "fail" /\ Good(s, U, {})
    \/ /\ s.status = "ok" /\ s.page \in Nat /\ Good(s, U, {s.page}) /\ s.mapped = 0
       /\ Space(s.pt, 0) /\ Leaf(StackPage) \notin DOMAIN s.pt

\* What alloc_proc() leaves behind in its three outcomes.
LEMMA AllocProcEffect ==
    ASSUME NEW m, NEW U, Good(m, U, {}), m.status = "ok", m.pt = EmptyTable, m.mapped = 0,
           NEW s, s = alloc_proc(m)
    PROVE  ProcResult(s, U)
<1> DEFINE r == NewRoot(m)
           k == vmm_map_kernel(r)
           a == pmm_alloc_page(k)
<1>1. s = IF r.status # "ok" THEN r ELSE IF k.status # "ok" THEN k ELSE a
  BY DEF alloc_proc
<1> HIDE DEF r
<1>2. RootResult(m, r, U, {})
  BY NewRootEffect DEF r
<1>3. CASE r.status = "fail"
  BY <1>1, <1>2, <1>3 DEF RootResult, ProcResult
<1>4. CASE r.status = "ok"
  <2>1. Good(r, U, {}) /\ DOMAIN r.pt = {<<>>} /\ r.mapped = 0
    BY <1>2, <1>4 DEF RootResult
  <2> HIDE DEF k
  <2>2. KernelResult(r, k, U, {})
    BY <1>4, <2>1, MapKernel DEF k
  <2>3. CASE k.status = "panic"
    BY <1>1, <1>4, <2>3 DEF ProcResult
  <2>4. CASE k.status = "ok"
    <3>1. Good(k, U, {}) /\ k.mapped = 0 /\ Space(k.pt, 0) /\ Leaf(StackPage) \notin DOMAIN k.pt
      BY <2>1, <2>2, <2>4 DEF KernelResult
    <3>2. s = a
      BY <1>1, <1>4, <2>4
    <3> HIDE DEF a
    <3>3. /\ a.pt = k.pt /\ a.mapped = k.mapped
          /\ \/ /\ k.free = {} /\ a.status = "fail" /\ Good(a, U, {})
                /\ a.free = k.free
             \/ /\ k.free # {} /\ a.status = k.status
                /\ a.page \in k.free /\ a.page \in Nat /\ a.page \notin {}
                /\ a.free = k.free \ {a.page}
                /\ Good(a, U, {} \cup {a.page})
      BY <3>1, AllocEffect DEF a
    <3>4. {} \cup {a.page} = {a.page}
      OBVIOUS
    <3> QED BY <2>4, <3>1, <3>2, <3>3, <3>4 DEF ProcResult
  <2> QED BY <2>2, <2>3, <2>4 DEF KernelResult
<1> QED BY <1>2, <1>3, <1>4 DEF RootResult

\* load_elf(): the program's pages and the stack; when the stack cannot be
\* mapped its page is in nobody's hands.
LoadResult(e, pages, U, H) ==
    \/ e.status = "panic"
    \/ /\ e.status = "ok" /\ Good(e, U, H) /\ Space(e.pt, pages)
    \/ /\ e.status = "nostack" /\ e.page \in Nat /\ e.page \notin H
       /\ Good(e, U, H \cup {e.page}) /\ Space(e.pt, pages)

\* load_elf() into a fresh address space.
LEMMA LoadElfEffect ==
    ASSUME NEW m, NEW U, NEW H, Good(m, U, H), U \subseteq 0 .. MmioPage - 1,
           m.status = "ok", m.mapped = 0,
           Space(m.pt, 0), Leaf(StackPage) \notin DOMAIN m.pt, NEW pages \in Nat,
           NEW e, e = load_elf(m, pages)
    PROVE  LoadResult(e, pages, U, H)
<1> DEFINE segs  == MapNewPages(m, 0, pages)
           a     == pmm_alloc_page(segs)
           stack == map_page(a, Leaf(StackPage), a.page)
<1>1. e = IF segs.status # "ok" THEN [segs EXCEPT !.status = "panic"]
          ELSE IF a.status # "ok" THEN [a EXCEPT !.status = "panic"]
          ELSE IF stack.status # "ok" THEN [stack EXCEPT !.status = "nostack", !.page = a.page]
          ELSE stack
  BY DEF load_elf
<1> HIDE DEF segs
<1>0. PICK z \in Nat : z = 0
  OBVIOUS
<1>2. PagesResult(m, segs, z, pages, U, H)
  <2>1. Space(m.pt, z) /\ segs = MapNewPages(m, z, pages)
    BY <1>0 DEF segs
  <2>2. ReadyAt(m.pt, z)
    BY <2>1, SpaceReady
  <2>3. PagesResult(m, MapNewPages(m, z, pages), z, pages, U, H)
    BY <2>2, PagesEffect
  <2> QED BY <2>1, <2>3
<1>3. PICK c \in 0 .. pages :
        /\ Good(segs, U, H)
        /\ c > 0 => z + c <= MmioPage
        /\ Adds(m.pt, segs.pt, {Leaf(w) : w \in z .. z + c - 1})
        /\ \A w \in z .. z + c - 1 : segs.pt[Leaf(w)] # KERNEL
        /\ (segs.status = "ok" /\ c = pages) \/ segs.status = "fail"
  BY <1>2 DEF PagesResult
<1>4. CASE segs.status = "fail"
  <2>1. e = [segs EXCEPT !.status = "panic"]
    BY <1>1, <1>4
  <2> QED BY <1>3, <2>1, SetStatus DEF LoadResult
<1>5. CASE segs.status = "ok"
  <2>1. c = pages
    BY <1>3, <1>5
  <2>2. Space(segs.pt, pages)
    <3>1. Space(m.pt, z) /\ c \in Nat
      BY <1>0
    <3>2. Space(segs.pt, z + c)
      BY <1>3, <3>1, PagesSpace
    <3>3. z + c = pages
      BY <1>0, <2>1
    <3> QED BY <3>2, <3>3
  <2>3. Leaf(StackPage) \notin DOMAIN segs.pt
    <3>1. StackPage \in 0 .. StackPage
      BY Sizes
    <3>2. Len(Leaf(StackPage)) = 3
      BY <3>1, LeafFacts
    <3>3. ASSUME NEW w \in z .. z + c - 1 PROVE Leaf(StackPage) # Leaf(w)
      <4>1. w \in 0 .. StackPage /\ w # StackPage
        BY <1>3, Sizes
      <4> QED BY <3>1, <4>1, LeafFacts
    <3>4. Leaf(StackPage) \notin {Leaf(w) : w \in z .. z + c - 1}
      BY <3>3
    <3> QED BY <1>3, <3>2, <3>4 DEF Adds
  <2> HIDE DEF a
  <2>4. /\ a.pt = segs.pt /\ a.mapped = segs.mapped
        /\ \/ /\ segs.free = {} /\ a.status = "fail" /\ Good(a, U, H)
              /\ a.free = segs.free
           \/ /\ segs.free # {} /\ a.status = segs.status
              /\ a.page \in segs.free /\ a.page \in Nat /\ a.page \notin H
              /\ a.free = segs.free \ {a.page}
              /\ Good(a, U, H \cup {a.page})
    BY <1>3, AllocEffect DEF a
  <2>5. CASE segs.free = {}
    <3>1. e = [a EXCEPT !.status = "panic"] /\ Good(a, U, H)
      BY <1>1, <1>5, <2>4, <2>5
    <3> QED BY <3>1, SetStatus DEF LoadResult
  <2>6. CASE segs.free # {}
    <3>1. a.status = "ok" /\ a.page \in Nat /\ a.page \notin H /\ Good(a, U, H \cup {a.page})
      BY <1>5, <2>4, <2>6
    <3>2. PICK f \in Nat : f = a.page /\ f \notin H /\ Good(a, U, H \cup {f})
      BY <3>1
    <3>3. PICK i, j, k : /\ Leaf(StackPage) = <<i, j, k>> /\ i \in 0 .. ROOT - 1
                         /\ j \in 0 .. WIDTH - 1 /\ k \in 0 .. FAN - 1
      <4>1. /\ 0 \in 0 .. ROOT - 1 /\ StackPage \div FAN \in 0 .. WIDTH - 1
            /\ StackPage % FAN \in 0 .. FAN - 1
        <5>1. StackPage \in 0 .. StackPage
          BY Sizes
        <5> QED BY <5>1, LeafIndices, Sizes
      <4> QED BY <4>1 DEF Leaf
    <3>4. <<>> \in DOMAIN a.pt /\ Leaf(StackPage) \notin DOMAIN a.pt
      BY <2>2, <2>3, <2>4 DEF Space
    <3> HIDE DEF stack
    <3>5. stack = map_page(a, Leaf(StackPage), f)
      BY <3>2 DEF stack
    <3>6. MapResult(a, stack, Leaf(StackPage), f, U, H)
      BY <3>1, <3>2, <3>3, <3>4, <3>5, MapFrameEffect
    <3>7. CASE stack.status = "ok"
      <4>1. e = stack
        BY <1>1, <1>5, <3>1, <3>7
      <4>2. /\ Good(stack, U, H) /\ Adds(a.pt, stack.pt, {Leaf(StackPage)})
            /\ stack.pt[Leaf(StackPage)] = f
        BY <3>6, <3>7 DEF MapResult
      <4>3. f # KERNEL
        BY <3>2 DEF KERNEL
      <4>4. Space(a.pt, pages)
        BY <2>2, <2>4
      <4>5. Space(stack.pt, pages)
        BY <4>2, <4>3, <4>4, SpaceAdds
      <4> QED BY <3>7, <4>1, <4>2, <4>5 DEF LoadResult
    <3>8. CASE stack.status = "fail"
      <4>1. Good(stack, U, H \cup {f}) /\ Adds(a.pt, stack.pt, {})
        BY <3>6, <3>8 DEF MapResult
      <4>2. Space(a.pt, pages)
        BY <2>2, <2>4
      <4>3. Space(stack.pt, pages)
        <5>1. {} \subseteq {Leaf(StackPage)} /\ Leaf(StackPage) \notin {}
          OBVIOUS
        <5> QED BY <4>1, <4>2, <5>1, SpaceAdds
      <4>4. e = [[stack EXCEPT !.status = "nostack"] EXCEPT !.page = a.page]
        BY <1>1, <1>5, <3>1, <3>8
      <4>5. Mem(stack)
        BY <4>1 DEF Good
      <4>6. e = [free |-> stack.free, pt |-> stack.pt, page |-> f,
                 mapped |-> stack.mapped, status |-> "nostack"]
        BY <3>2, <4>4, <4>5 DEF Mem
      <4>7. Mem(e) /\ e.free = stack.free /\ e.pt = stack.pt /\ e.page = f
            /\ e.status = "nostack"
        BY <4>6 DEF Mem
      <4>8. Good(e, U, H \cup {f})
        BY <4>1, <4>7 DEF Good
      <4> QED BY <3>2, <4>3, <4>7, <4>8 DEF LoadResult
    <3> QED BY <3>6, <3>7, <3>8 DEF MapResult
  <2> QED BY <2>5, <2>6
<1> QED BY <1>3, <1>4, <1>5

-----------------------------------------------------------------------------
(* vmm_copy_uvm(): the runs of its three loops.                             *)

\* A table of leaves.
LeafTurn(x, t, i, j, k) == CopyEntry(x, t, <<i, j, k>>)

\* The loop over a table of leaves as the sequence of its turns.
LEMMA Level0Loop ==
    ASSUME NEW m, NEW t, NEW i, NEW j
    PROVE  \E f : /\ f[0] = m
                  /\ \A k \in 1 .. FAN : f[k] = LeafTurn(f[k - 1], t, i, j, k - 1)
                  /\ f[FAN] = CopyLevel0(m, t, i, j)
<1> DEFINE Is(f, N) == f = [k \in 0 .. N |-> IF k = 0 THEN m
                                            ELSE LeafTurn(f[k - 1], t, i, j, k - 1)]
           S == {N \in Nat : ~ \E f : Is(f, N)}
<1>1. ASSUME NEW N \in S PROVE \E k \in S : k < N
  <2>1. N # 0
    <3> DEFINE f == [k \in 0 .. 0 |-> m]
    <3>1. Is(f, 0)
      BY Z3
    <3> HIDE DEF f, Is
    <3> QED BY <3>1
  <2>2. CASE \E f : Is(f, N - 1)
    <3>1. PICK f : Is(f, N - 1)
      BY <2>2
    <3> DEFINE last == LeafTurn(f[N - 1], t, i, j, N - 1)
    <3> HIDE DEF last
    <3> DEFINE g == [k \in 0 .. N |-> IF k < N THEN f[k] ELSE last]
    <3>2. ASSUME NEW k \in 0 .. N
          PROVE  g[k] = IF k = 0 THEN m ELSE LeafTurn(g[k - 1], t, i, j, k - 1)
      <4>1. CASE k < N
        <5>1. k \in 0 .. N - 1 /\ g[k] = f[k] /\ (k # 0 => g[k - 1] = f[k - 1])
          BY <4>1, <2>1
        <5>2. f[k] = IF k = 0 THEN m ELSE LeafTurn(f[k - 1], t, i, j, k - 1)
          BY <3>1, <5>1
        <5> HIDE DEF g, Is
        <5> QED BY <5>1, <5>2
      <4>2. CASE k = N
        <5>1. g[k] = last /\ g[k - 1] = f[k - 1]
          BY <4>2, <2>1
        <5> HIDE DEF g, Is
        <5> QED BY <5>1, <4>2, <2>1 DEF last
      <4> QED BY <4>1, <4>2
    <3>3. Is(g, N)
      <4>1. g = [k \in 0 .. N |-> g[k]]
        OBVIOUS
      <4> HIDE DEF g
      <4> QED BY <3>2, <4>1
    <3> HIDE DEF g, Is
    <3> QED BY <3>3
  <2>3. CASE ~ \E f : Is(f, N - 1)
    <3>1. N - 1 \in Nat /\ N - 1 < N
      BY <2>1
    <3> HIDE DEF Is
    <3> QED BY <3>1, <2>3
  <2> QED BY <2>2, <2>3
<1>2. S = {}
  <2>1. S \subseteq Nat
    OBVIOUS
  <2> HIDE DEF S
  <2> QED BY <1>1, <2>1, NoLeast
<1>3. \E f : Is(f, FAN)
  <2>1. FAN \in Nat
    BY Sizes
  <2> HIDE DEF Is
  <2> QED BY <1>2, <2>1
<1> DEFINE F == CHOOSE f : Is(f, FAN)
<1>4. Is(F, FAN)
  <2> HIDE DEF Is
  <2> QED BY <1>3, Zenon
<1>5. CopyLevel0(m, t, i, j) = F[FAN]
  BY DEF CopyLevel0, For, LeafTurn
<1> HIDE DEF F
<1>6. F[0] = m
  BY <1>4, Sizes
<1>7. \A k \in 1 .. FAN : F[k] = LeafTurn(F[k - 1], t, i, j, k - 1)
  BY <1>4, Sizes
<1> HIDE DEF Is
<1> QED BY <1>5, <1>6, <1>7

\* A table of tables.
TableTurn(x, t, i, j) ==
    IF <<i, j>> \in DOMAIN t THEN CopyLevel0(CopyEntry(x, t, <<i, j>>), t, i, j) ELSE x

\* The loop over a table of tables as the sequence of its turns.
LEMMA Level1Loop ==
    ASSUME NEW m, NEW t, NEW i
    PROVE  \E f : /\ f[0] = m
                  /\ \A k \in 1 .. WIDTH : f[k] = TableTurn(f[k - 1], t, i, k - 1)
                  /\ f[WIDTH] = CopyLevel1(m, t, i)
<1> DEFINE Is(f, N) == f = [k \in 0 .. N |-> IF k = 0 THEN m
                                            ELSE TableTurn(f[k - 1], t, i, k - 1)]
           S == {N \in Nat : ~ \E f : Is(f, N)}
<1>1. ASSUME NEW N \in S PROVE \E k \in S : k < N
  <2>1. N # 0
    <3> DEFINE f == [k \in 0 .. 0 |-> m]
    <3>1. Is(f, 0)
      BY Z3
    <3> HIDE DEF f, Is
    <3> QED BY <3>1
  <2>2. CASE \E f : Is(f, N - 1)
    <3>1. PICK f : Is(f, N - 1)
      BY <2>2
    <3> DEFINE last == TableTurn(f[N - 1], t, i, N - 1)
    <3> HIDE DEF last
    <3> DEFINE g == [k \in 0 .. N |-> IF k < N THEN f[k] ELSE last]
    <3>2. ASSUME NEW k \in 0 .. N
          PROVE  g[k] = IF k = 0 THEN m ELSE TableTurn(g[k - 1], t, i, k - 1)
      <4>1. CASE k < N
        <5>1. k \in 0 .. N - 1 /\ g[k] = f[k] /\ (k # 0 => g[k - 1] = f[k - 1])
          BY <4>1, <2>1
        <5>2. f[k] = IF k = 0 THEN m ELSE TableTurn(f[k - 1], t, i, k - 1)
          BY <3>1, <5>1
        <5> HIDE DEF g, Is
        <5> QED BY <5>1, <5>2
      <4>2. CASE k = N
        <5>1. g[k] = last /\ g[k - 1] = f[k - 1]
          BY <4>2, <2>1
        <5> HIDE DEF g, Is
        <5> QED BY <5>1, <4>2, <2>1 DEF last
      <4> QED BY <4>1, <4>2
    <3>3. Is(g, N)
      <4>1. g = [k \in 0 .. N |-> g[k]]
        OBVIOUS
      <4> HIDE DEF g
      <4> QED BY <3>2, <4>1
    <3> HIDE DEF g, Is
    <3> QED BY <3>3
  <2>3. CASE ~ \E f : Is(f, N - 1)
    <3>1. N - 1 \in Nat /\ N - 1 < N
      BY <2>1
    <3> HIDE DEF Is
    <3> QED BY <3>1, <2>3
  <2> QED BY <2>2, <2>3
<1>2. S = {}
  <2>1. S \subseteq Nat
    OBVIOUS
  <2> HIDE DEF S
  <2> QED BY <1>1, <2>1, NoLeast
<1>3. \E f : Is(f, WIDTH)
  <2>1. WIDTH \in Nat
    BY Sizes
  <2> HIDE DEF Is
  <2> QED BY <1>2, <2>1
<1> DEFINE F == CHOOSE f : Is(f, WIDTH)
<1>4. Is(F, WIDTH)
  <2> HIDE DEF Is
  <2> QED BY <1>3, Zenon
<1>5. CopyLevel1(m, t, i) = F[WIDTH]
  BY DEF CopyLevel1, For, TableTurn
<1> HIDE DEF F
<1>6. F[0] = m
  BY <1>4, Sizes
<1>7. \A k \in 1 .. WIDTH : F[k] = TableTurn(F[k - 1], t, i, k - 1)
  BY <1>4, Sizes
<1> HIDE DEF Is
<1> QED BY <1>5, <1>6, <1>7

\* The root.
RootTurn(x, t, i) ==
    IF <<i>> \in DOMAIN t THEN CopyLevel1(CopyEntry(x, t, <<i>>), t, i) ELSE x

\* The loop over the root as the sequence of its turns.
LEMMA Level2Loop ==
    ASSUME NEW m, NEW t
    PROVE  \E f : /\ f[0] = m
                  /\ \A k \in 1 .. USER : f[k] = RootTurn(f[k - 1], t, k - 1)
                  /\ f[USER] = CopyLevel2(m, t)
<1> DEFINE Is(f, N) == f = [k \in 0 .. N |-> IF k = 0 THEN m
                                            ELSE RootTurn(f[k - 1], t, k - 1)]
           S == {N \in Nat : ~ \E f : Is(f, N)}
<1>1. ASSUME NEW N \in S PROVE \E k \in S : k < N
  <2>1. N # 0
    <3> DEFINE f == [k \in 0 .. 0 |-> m]
    <3>1. Is(f, 0)
      BY Z3
    <3> HIDE DEF f, Is
    <3> QED BY <3>1
  <2>2. CASE \E f : Is(f, N - 1)
    <3>1. PICK f : Is(f, N - 1)
      BY <2>2
    <3> DEFINE last == RootTurn(f[N - 1], t, N - 1)
    <3> HIDE DEF last
    <3> DEFINE g == [k \in 0 .. N |-> IF k < N THEN f[k] ELSE last]
    <3>2. ASSUME NEW k \in 0 .. N
          PROVE  g[k] = IF k = 0 THEN m ELSE RootTurn(g[k - 1], t, k - 1)
      <4>1. CASE k < N
        <5>1. k \in 0 .. N - 1 /\ g[k] = f[k] /\ (k # 0 => g[k - 1] = f[k - 1])
          BY <4>1, <2>1
        <5>2. f[k] = IF k = 0 THEN m ELSE RootTurn(f[k - 1], t, k - 1)
          BY <3>1, <5>1
        <5> HIDE DEF g, Is
        <5> QED BY <5>1, <5>2
      <4>2. CASE k = N
        <5>1. g[k] = last /\ g[k - 1] = f[k - 1]
          BY <4>2, <2>1
        <5> HIDE DEF g, Is
        <5> QED BY <5>1, <4>2, <2>1 DEF last
      <4> QED BY <4>1, <4>2
    <3>3. Is(g, N)
      <4>1. g = [k \in 0 .. N |-> g[k]]
        OBVIOUS
      <4> HIDE DEF g
      <4> QED BY <3>2, <4>1
    <3> HIDE DEF g, Is
    <3> QED BY <3>3
  <2>3. CASE ~ \E f : Is(f, N - 1)
    <3>1. N - 1 \in Nat /\ N - 1 < N
      BY <2>1
    <3> HIDE DEF Is
    <3> QED BY <3>1, <2>3
  <2> QED BY <2>2, <2>3
<1>2. S = {}
  <2>1. S \subseteq Nat
    OBVIOUS
  <2> HIDE DEF S
  <2> QED BY <1>1, <2>1, NoLeast
<1>3. \E f : Is(f, USER)
  <2>1. USER \in Nat
    BY Sizes
  <2> HIDE DEF Is
  <2> QED BY <1>2, <2>1
<1> DEFINE F == CHOOSE f : Is(f, USER)
<1>4. Is(F, USER)
  <2> HIDE DEF Is
  <2> QED BY <1>3, Zenon
<1>5. CopyLevel2(m, t) = F[USER]
  BY DEF CopyLevel2, For, RootTurn
<1> HIDE DEF F
<1>6. F[0] = m
  BY <1>4, Sizes
<1>7. \A k \in 1 .. USER : F[k] = RootTurn(F[k - 1], t, k - 1)
  BY <1>4, Sizes
<1> HIDE DEF Is
<1> QED BY <1>5, <1>6, <1>7

\* The entries D of the parent's table t have been looked at: the tables and
\* user pages among them are in the child's, which has no other user pages.
Copied(x, t, D, U, H) ==
    \/ x.status = "fail" /\ Good(x, U, H)
    \/ /\ x.status = "ok" /\ Good(x, U, H)
       /\ <<>> \in DOMAIN x.pt
       /\ \A p \in {KernelLeaf, Leaf(MmioPage)} : p \in DOMAIN x.pt /\ x.pt[p] = KERNEL
       /\ \A p \in D : p \in DOMAIN t /\ t[p] # KERNEL => p \in DOMAIN x.pt
       /\ \A q \in DOMAIN x.pt : Len(q) = 3 =>
             \/ q \in {KernelLeaf, Leaf(MmioPage)}
             \/ q \in D /\ q \in DOMAIN t /\ t[q] # KERNEL /\ x.pt[q] # KERNEL

\* The address space fork() copies from.
Source(t) ==
    /\ Tree(t)
    /\ \A p \in {KernelLeaf, Leaf(MmioPage)} : p \in DOMAIN t /\ t[p] = KERNEL

\* Entries that are not valid need not be looked at.
LEMMA CopySkip ==
    ASSUME NEW x, NEW t, NEW D, NEW E, NEW U, NEW H, Copied(x, t, D, U, H),
           D \subseteq E, (E \ D) \cap DOMAIN t = {}
    PROVE  Copied(x, t, E, U, H)
<1>1. CASE x.status = "fail"
  BY <1>1 DEF Copied
<1>2. CASE x.status # "fail"
  <2>1. \A p \in E : p \in DOMAIN t /\ t[p] # KERNEL => p \in DOMAIN x.pt
    BY <1>2 DEF Copied
  <2>2. \A q \in DOMAIN x.pt : Len(q) = 3 =>
             \/ q \in {KernelLeaf, Leaf(MmioPage)}
             \/ q \in E /\ q \in DOMAIN t /\ t[q] # KERNEL /\ x.pt[q] # KERNEL
    BY <1>2 DEF Copied
  <2> QED BY <1>2, <2>1, <2>2 DEF Copied
<1> QED BY <1>1, <1>2

\* One more entry in the child's table.
LEMMA CopyPut ==
    ASSUME NEW x, NEW n, NEW t, NEW D, NEW U, NEW H, NEW p,
           Copied(x, t, D, U, H), x.status = "ok",
           n.status = "ok", Good(n, U, H),
           p \in DOMAIN n.pt, p \in DOMAIN t, t[p] # KERNEL, n.pt[p] # KERNEL,
           Adds(x.pt, n.pt, IF Len(p) = 3 THEN {p} ELSE {})
    PROVE  Copied(n, t, D \cup {p}, U, H)
<1> DEFINE u == x.pt
           w == n.pt
<1>1. /\ <<>> \in DOMAIN u
      /\ \A q \in {KernelLeaf, Leaf(MmioPage)} : q \in DOMAIN u /\ u[q] = KERNEL
      /\ \A q \in D : q \in DOMAIN t /\ t[q] # KERNEL => q \in DOMAIN u
      /\ \A q \in DOMAIN u : Len(q) = 3 =>
             \/ q \in {KernelLeaf, Leaf(MmioPage)}
             \/ q \in D /\ q \in DOMAIN t /\ t[q] # KERNEL /\ u[q] # KERNEL
  BY DEF Copied
<1>2. DOMAIN u \subseteq DOMAIN w /\ \A q \in DOMAIN u : w[q] = u[q]
  BY DEF Adds
<1>3. \A q \in DOMAIN w : Len(q) = 3 /\ q \notin DOMAIN u => q = p
  BY DEF Adds
<1>4. p \in DOMAIN w /\ w[p] # KERNEL
  OBVIOUS
<1> HIDE DEF u, w
<1>5. <<>> \in DOMAIN w
  BY <1>1, <1>2
<1>6. \A q \in {KernelLeaf, Leaf(MmioPage)} : q \in DOMAIN w /\ w[q] = KERNEL
  BY <1>1, <1>2
<1>7. \A q \in D \cup {p} : q \in DOMAIN t /\ t[q] # KERNEL => q \in DOMAIN w
  BY <1>1, <1>2, <1>4
<1>8. ASSUME NEW q \in DOMAIN w, Len(q) = 3
      PROVE  \/ q \in {KernelLeaf, Leaf(MmioPage)}
             \/ q \in D \cup {p} /\ q \in DOMAIN t /\ t[q] # KERNEL /\ w[q] # KERNEL
  <2>1. CASE q \in DOMAIN u
    BY <1>1, <1>2, <1>8, <2>1
  <2>2. CASE q \notin DOMAIN u
    <3>1. q = p
      BY <1>3, <1>8, <2>2
    <3> QED BY <1>4, <3>1
  <2> QED BY <2>1, <2>2
<1> QED BY <1>5, <1>6, <1>7, <1>8 DEF Copied, w

\* A path has at most three steps.
LEMMA PathLength ==
    ASSUME NEW p \in Paths PROVE Len(p) \in 0 .. 3
<1>1. CASE \E i, j, k : p = <<i, j, k>>
  BY <1>1, PathForms
<1>2. CASE \E i, j : p = <<i, j>>
  BY <1>2, PathForms
<1>3. CASE \E i : p = <<i>>
  <2>1. PICK i : p = <<i>>
    BY <1>3
  <2>2. Len(<<i>>) = 1
    BY PathForms
  <2> QED BY <2>1, <2>2
<1>4. CASE p = <<>>
  BY <1>4, PathForms
<1> QED BY <1>1, <1>2, <1>3, <1>4 DEF Paths

\* CopyEntry() of an entry whose table has been looked at.
LEMMA CopyEntryStep ==
    ASSUME NEW x, NEW t, NEW D, NEW U, NEW H, Copied(x, t, D, U, H), Source(t),
           NEW p \in Paths, p # <<>>, p \notin D, Up(p) = <<>> \/ Up(p) \in D,
           NEW n, n = CopyEntry(x, t, p)
    PROVE  Copied(n, t, D \cup {p}, U, H)
<1>1. CASE x.status = "fail"
  <2>1. n = x
    BY <1>1 DEF CopyEntry
  <2> QED BY <1>1, <2>1 DEF Copied
<1>2. CASE x.status # "fail" /\ (p \notin DOMAIN t \/ t[p] = KERNEL)
  <2>1. n = x
    BY <1>2 DEF CopyEntry
  <2>2. \A q \in D \cup {p} : q \in DOMAIN t /\ t[q] # KERNEL => q \in DOMAIN x.pt
    BY <1>2 DEF Copied
  <2>3. \A q \in DOMAIN x.pt : Len(q) = 3 =>
             \/ q \in {KernelLeaf, Leaf(MmioPage)}
             \/ q \in D \cup {p} /\ q \in DOMAIN t /\ t[q] # KERNEL /\ x.pt[q] # KERNEL
    BY <1>2 DEF Copied
  <2> QED BY <1>2, <2>1, <2>2, <2>3 DEF Copied
<1>3. CASE x.status # "fail" /\ p \in DOMAIN t /\ t[p] # KERNEL
  <2>1. x.status = "ok" /\ Good(x, U, H)
    BY <1>3 DEF Copied
  <2>2. Up(p) \in DOMAIN x.pt
    <3>1. Up(p) \in DOMAIN t /\ Len(Up(p)) # 3
      BY <1>3, UpIsTable DEF Source, Tree
    <3>2. t[Up(p)] # KERNEL
      <4>1. t[Up(p)] \in Nat
        BY <3>1 DEF Source, Tree
      <4> QED BY <4>1 DEF KERNEL
    <3> QED BY <1>3, <3>1, <3>2 DEF Copied
  <2>3. CASE Len(p) # 3
    <3>1. n = Ensure(x, p)
      <4>1. Len(p) \in 0 .. 3
        BY PathLength
      <4>2. Len(p) < 3
        BY <2>3, <4>1
      <4> QED BY <1>3, <2>1, <4>2 DEF CopyEntry
    <3>2. /\ Good(n, U, H) /\ Adds(x.pt, n.pt, {}) /\ n.mapped = x.mapped
          /\ n.free \subseteq x.free
          /\ \/ n.status = "ok" /\ p \in DOMAIN n.pt
             \/ n.status = "fail"
      BY <2>1, <2>2, <2>3, <3>1, EnsureEffect
    <3>3. CASE n.status = "fail"
      BY <3>2, <3>3 DEF Copied
    <3>4. CASE n.status = "ok"
      <4>1. p \in DOMAIN n.pt /\ (IF Len(p) = 3 THEN {p} ELSE {}) = {}
        BY <2>3, <3>2, <3>4
      <4>2. n.pt[p] # KERNEL
        BY <2>3, <3>2, <4>1 DEF Good, Tree, KERNEL
      <4> QED BY <1>3, <2>1, <3>2, <3>4, <4>1, <4>2, CopyPut
    <3> QED BY <3>2, <3>3, <3>4
  <2>4. CASE Len(p) = 3
    <3> DEFINE a == pmm_alloc_page(x)
    <3>1. n = IF a.status # "ok" THEN a ELSE [a EXCEPT !.pt = Put(@, p, a.page)]
      BY <1>3, <2>1, <2>4 DEF CopyEntry
    <3>2. p \notin DOMAIN x.pt
      <4>1. p \notin {KernelLeaf, Leaf(MmioPage)}
        BY <1>3 DEF Source
      <4> QED BY <1>3, <2>4, <4>1 DEF Copied
    <3> HIDE DEF a
    <3>3. /\ a.pt = x.pt /\ a.mapped = x.mapped
          /\ \/ /\ x.free = {} /\ a.status = "fail" /\ Good(a, U, H)
                /\ a.free = x.free
             \/ /\ x.free # {} /\ a.status = x.status
                /\ a.page \in x.free /\ a.page \in Nat /\ a.page \notin H
                /\ a.free = x.free \ {a.page}
                /\ Good(a, U, H \cup {a.page})
      BY <2>1, AllocEffect DEF a
    <3>4. CASE x.free = {}
      BY <3>1, <3>3, <3>4 DEF Copied
    <3>5. CASE x.free # {}
      <4>1. a.status = "ok" /\ a.page \in Nat /\ a.page \notin H /\ Good(a, U, H \cup {a.page})
        BY <2>1, <3>3, <3>5
      <4>2. n = [a EXCEPT !.pt = Put(@, p, a.page)]
        BY <3>1, <4>1
      <4>3. p \notin DOMAIN a.pt /\ Up(p) \in DOMAIN a.pt
        BY <2>2, <3>2, <3>3
      <4>4. /\ Good(n, U, H)
            /\ n.pt = Put(a.pt, p, a.page) /\ n.free = a.free
            /\ n.mapped = a.mapped /\ n.status = a.status /\ n.page = a.page
        BY <4>1, <4>2, <4>3, PutGood
      <4>5. n.pt = Put(x.pt, p, a.page) /\ n.status = "ok"
        BY <3>3, <4>1, <4>4
      <4>6. Adds(x.pt, Put(x.pt, p, a.page), IF Len(p) = 3 THEN {p} ELSE {})
        BY <3>2, PutAdds
      <4>7. p \in DOMAIN n.pt /\ n.pt[p] = a.page
        BY <4>5 DEF Put
      <4>8. n.pt[p] # KERNEL
        BY <4>1, <4>7 DEF KERNEL
      <4>9. Adds(x.pt, n.pt, IF Len(p) = 3 THEN {p} ELSE {})
        BY <4>5, <4>6
      <4> QED BY <1>3, <2>1, <4>4, <4>5, <4>7, <4>8, <4>9, CopyPut
    <3> QED BY <3>4, <3>5
  <2> QED BY <2>3, <2>4
<1> QED BY <1>1, <1>2, <1>3

\* The last level of vmm_copy_uvm(): the leaves of one table.
LEMMA CopyLeaves ==
    ASSUME NEW x, NEW t, NEW D, NEW U, NEW H, Copied(x, t, D, U, H), Source(t),
           NEW i \in 0 .. ROOT - 1, NEW j \in 0 .. WIDTH - 1,
           <<i, j>> \in D, \A l : <<i, j, l>> \notin D
    PROVE  Copied(CopyLevel0(x, t, i, j), t,
                  D \cup {<<i, j, l>> : l \in 0 .. FAN - 1}, U, H)
<1>1. PICK f : /\ f[0] = x
               /\ \A k \in 1 .. FAN : f[k] = LeafTurn(f[k - 1], t, i, j, k - 1)
               /\ f[FAN] = CopyLevel0(x, t, i, j)
  BY Level0Loop
<1> DEFINE E(k) == D \cup {<<i, j, l>> : l \in 0 .. k - 1}
           P(k) == Copied(f[k], t, E(k), U, H)
           S == {k \in 0 .. FAN : ~P(k)}
<1>2. P(0)
  <2>1. E(0) = D
    OBVIOUS
  <2> QED BY <1>1, <2>1
<1>3. ASSUME NEW k \in 1 .. FAN, P(k - 1) PROVE P(k)
  <2>1. k - 1 \in 0 .. FAN - 1
    BY Sizes
  <2> DEFINE p == <<i, j, k - 1>>
  <2>2. p \in Paths /\ p # <<>> /\ Up(p) = <<i, j>>
    <3>1. p \in Paths
      BY <2>1 DEF Paths
    <3>2. p # <<>>
      BY PathsDiffer
    <3>3. Up(p) = <<i, j>>
      BY PathForms
    <3> QED BY <3>1, <3>2, <3>3
  <2>3. p \notin E(k - 1)
    <3>1. p \notin D
      OBVIOUS
    <3>2. ASSUME NEW l \in 0 .. (k - 1) - 1 PROVE p # <<i, j, l>>
      <4>1. l # k - 1
        BY Sizes
      <4> QED BY <4>1, PathsDiffer
    <3> QED BY <3>1, <3>2
  <2>4. E(k) = E(k - 1) \cup {p}
    <3>1. 0 .. k - 1 = (0 .. (k - 1) - 1) \cup {k - 1}
      BY Sizes
    <3> QED BY <3>1
  <2>5. f[k] = CopyEntry(f[k - 1], t, p)
    BY <1>1 DEF LeafTurn
  <2>6. <<i, j>> \in E(k - 1)
    OBVIOUS
  <2> HIDE DEF E, p
  <2> QED BY <1>3, <2>2, <2>3, <2>4, <2>5, <2>6, CopyEntryStep
<1>4. ASSUME NEW k \in S PROVE \E z \in S : z < k
  <2>1. k # 0 /\ k \in 1 .. FAN /\ k - 1 \in 0 .. FAN /\ k - 1 < k
    <3> HIDE DEF P
    <3> QED BY <1>2, Sizes
  <2> HIDE DEF P
  <2> QED BY <1>3, <2>1
<1>5. S = {}
  <2>1. S \subseteq Nat
    BY Sizes
  <2> HIDE DEF S
  <2> QED BY <1>4, <2>1, NoLeast
<1>6. P(FAN)
  <2>1. FAN \in 0 .. FAN
    BY Sizes
  <2> HIDE DEF P
  <2> QED BY <1>5, <2>1
<1> QED BY <1>1, <1>6

\* A table and its leaves.
TableBelow(i, j) == {<<i, j>>} \cup {<<i, j, l>> : l \in 0 .. FAN - 1}

\* One turn of the level above.
LEMMA CopyTable ==
    ASSUME NEW x, NEW t, NEW D, NEW U, NEW H, Copied(x, t, D, U, H), Source(t),
           NEW i \in 0 .. ROOT - 1, NEW j \in 0 .. WIDTH - 1,
           <<i>> \in D, <<i, j>> \notin D, \A l : <<i, j, l>> \notin D
    PROVE  Copied(TableTurn(x, t, i, j), t, D \cup TableBelow(i, j), U, H)
<1> DEFINE p == <<i, j>>
           n == CopyEntry(x, t, p)
<1>1. p \in Paths /\ p # <<>> /\ Up(p) = <<i>>
  <2>1. p \in Paths
    BY DEF Paths
  <2>2. p # <<>>
    BY PathsDiffer
  <2>3. Up(p) = <<i>>
    BY PathForms
  <2> QED BY <2>1, <2>2, <2>3
<1>2. CASE p \in DOMAIN t
  <2>1. Copied(n, t, D \cup {p}, U, H)
    <3> HIDE DEF p, n
    <3> QED BY <1>1, CopyEntryStep DEF n, p
  <2>2. \A l : <<i, j, l>> \notin D \cup {p}
    BY PathsDiffer
  <2>3. p \in D \cup {p}
    OBVIOUS
  <2> DEFINE E == D \cup {p}
  <2> HIDE DEF n, E
  <2>4. Copied(CopyLevel0(n, t, i, j), t, E \cup {<<i, j, l>> : l \in 0 .. FAN - 1}, U, H)
    BY <2>1, <2>2, <2>3, CopyLeaves DEF E
  <2>5. E \cup {<<i, j, l>> : l \in 0 .. FAN - 1} = D \cup TableBelow(i, j)
    BY DEF E, TableBelow
  <2>6. TableTurn(x, t, i, j) = CopyLevel0(n, t, i, j)
    BY <1>2 DEF TableTurn, n
  <2> QED BY <2>4, <2>5, <2>6
<1>3. CASE p \notin DOMAIN t
  <2>1. TableTurn(x, t, i, j) = x
    BY <1>3 DEF TableTurn
  <2>2. ASSUME NEW q \in TableBelow(i, j) PROVE q \notin DOMAIN t
    <3>1. CASE q = p
      BY <1>3, <3>1
    <3>2. CASE \E l \in 0 .. FAN - 1 : q = <<i, j, l>>
      <4>1. PICK l \in 0 .. FAN - 1 : q = <<i, j, l>>
        BY <3>2
      <4>2. Up(q) = p /\ q # <<>>
        BY <4>1, PathForms, PathsDiffer
      <4> HIDE DEF p
      <4> QED BY <1>3, <4>2 DEF Source, Tree
    <3> QED BY <3>1, <3>2 DEF TableBelow
  <2> DEFINE E == D \cup TableBelow(i, j)
  <2>3. D \subseteq E /\ (E \ D) \cap DOMAIN t = {}
    BY <2>2
  <2> HIDE DEF E
  <2>4. Copied(x, t, E, U, H)
    BY <2>3, CopySkip
  <2> QED BY <2>1, <2>4 DEF E
<1> QED BY <1>2, <1>3

\* The middle level.
LEMMA CopyTables ==
    ASSUME NEW x, NEW t, NEW D, NEW U, NEW H, Copied(x, t, D, U, H), Source(t),
           NEW i \in 0 .. ROOT - 1,
           <<i>> \in D, \A j, l : <<i, j>> \notin D /\ <<i, j, l>> \notin D
    PROVE  Copied(CopyLevel1(x, t, i), t,
                  D \cup UNION {TableBelow(i, j) : j \in 0 .. WIDTH - 1}, U, H)
<1>1. PICK f : /\ f[0] = x
               /\ \A k \in 1 .. WIDTH : f[k] = TableTurn(f[k - 1], t, i, k - 1)
               /\ f[WIDTH] = CopyLevel1(x, t, i)
  BY Level1Loop
<1> DEFINE E(k) == D \cup UNION {TableBelow(i, j) : j \in 0 .. k - 1}
           P(k) == Copied(f[k], t, E(k), U, H)
           S == {k \in 0 .. WIDTH : ~P(k)}
<1>2. P(0)
  <2>1. E(0) = D
    OBVIOUS
  <2> QED BY <1>1, <2>1
<1>3. ASSUME NEW k \in 1 .. WIDTH, P(k - 1) PROVE P(k)
  <2>1. k - 1 \in 0 .. WIDTH - 1
    BY Sizes
  <2>2. ASSUME NEW j \in 0 .. (k - 1) - 1, NEW l
        PROVE  <<i, k - 1>> \notin TableBelow(i, j) /\ <<i, k - 1, l>> \notin TableBelow(i, j)
    <3>1. j # k - 1
      BY Sizes
    <3> QED BY <3>1, PathsDiffer DEF TableBelow
  <2>3. <<i, k - 1>> \notin E(k - 1) /\ \A l : <<i, k - 1, l>> \notin E(k - 1)
    BY <2>2
  <2>4. E(k) = E(k - 1) \cup TableBelow(i, k - 1)
    <3>1. 0 .. k - 1 = (0 .. (k - 1) - 1) \cup {k - 1}
      BY Sizes
    <3> QED BY <3>1
  <2>5. f[k] = TableTurn(f[k - 1], t, i, k - 1)
    BY <1>1
  <2>6. <<i>> \in E(k - 1)
    OBVIOUS
  <2> HIDE DEF E
  <2> QED BY <1>3, <2>1, <2>3, <2>4, <2>5, <2>6, CopyTable
<1>4. ASSUME NEW k \in S PROVE \E z \in S : z < k
  <2>1. k # 0 /\ k \in 1 .. WIDTH /\ k - 1 \in 0 .. WIDTH /\ k - 1 < k
    <3> HIDE DEF P
    <3> QED BY <1>2, Sizes
  <2> HIDE DEF P
  <2> QED BY <1>3, <2>1
<1>5. S = {}
  <2>1. S \subseteq Nat
    BY Sizes
  <2> HIDE DEF S
  <2> QED BY <1>4, <2>1, NoLeast
<1>6. P(WIDTH)
  <2>1. WIDTH \in 0 .. WIDTH
    BY Sizes
  <2> HIDE DEF P
  <2> QED BY <1>5, <2>1
<1> QED BY <1>1, <1>6

\* A table of tables and all below it.
RootBelow(i) == {<<i>>} \cup UNION {TableBelow(i, j) : j \in 0 .. WIDTH - 1}

\* One turn of the loop over the root.
LEMMA CopyRoot ==
    ASSUME NEW x, NEW t, NEW D, NEW U, NEW H, Copied(x, t, D, U, H), Source(t),
           NEW i \in 0 .. ROOT - 1,
           <<i>> \notin D, \A j, l : <<i, j>> \notin D /\ <<i, j, l>> \notin D
    PROVE  Copied(RootTurn(x, t, i), t, D \cup RootBelow(i), U, H)
<1> DEFINE p == <<i>>
           n == CopyEntry(x, t, p)
<1>1. p \in Paths /\ p # <<>> /\ Up(p) = <<>>
  <2>1. p \in Paths
    BY DEF Paths
  <2>2. p # <<>>
    BY PathsDiffer
  <2>3. Up(p) = <<>>
    BY PathForms
  <2> QED BY <2>1, <2>2, <2>3
<1>2. CASE p \in DOMAIN t
  <2>1. Copied(n, t, D \cup {p}, U, H)
    <3> HIDE DEF p, n
    <3> QED BY <1>1, CopyEntryStep DEF n, p
  <2>2. \A j, l : <<i, j>> \notin D \cup {p} /\ <<i, j, l>> \notin D \cup {p}
    BY PathsDiffer
  <2>3. p \in D \cup {p}
    OBVIOUS
  <2> DEFINE E == D \cup {p}
             B == UNION {TableBelow(i, j) : j \in 0 .. WIDTH - 1}
  <2> HIDE DEF n, E
  <2>4. Copied(CopyLevel1(n, t, i), t, E \cup B, U, H)
    BY <2>1, <2>2, <2>3, CopyTables DEF E
  <2>5. E \cup B = D \cup RootBelow(i)
    BY DEF E, RootBelow
  <2>6. RootTurn(x, t, i) = CopyLevel1(n, t, i)
    BY <1>2 DEF RootTurn, n
  <2> QED BY <2>4, <2>5, <2>6
<1>3. CASE p \notin DOMAIN t
  <2>1. RootTurn(x, t, i) = x
    BY <1>3 DEF RootTurn
  <2>2. ASSUME NEW j \in 0 .. WIDTH - 1 PROVE <<i, j>> \notin DOMAIN t
    <3>1. Up(<<i, j>>) = p /\ <<i, j>> # <<>>
      BY PathForms, PathsDiffer
    <3> HIDE DEF p
    <3> QED BY <1>3, <3>1 DEF Source, Tree
  <2>3. ASSUME NEW j \in 0 .. WIDTH - 1, NEW l PROVE <<i, j, l>> \notin DOMAIN t
    <3>1. Up(<<i, j, l>>) = <<i, j>>
      BY PathForms
    <3>2. <<i, j, l>> # <<>>
      BY PathsDiffer
    <3> QED BY <2>2, <3>1, <3>2 DEF Source, Tree
  <2>4. ASSUME NEW q \in RootBelow(i) PROVE q \notin DOMAIN t
    BY <1>3, <2>2, <2>3, <2>4 DEF RootBelow, TableBelow
  <2> DEFINE E == D \cup RootBelow(i)
  <2>5. D \subseteq E /\ (E \ D) \cap DOMAIN t = {}
    BY <2>4
  <2> HIDE DEF E
  <2>6. Copied(x, t, E, U, H)
    BY <2>5, CopySkip
  <2> QED BY <2>1, <2>6 DEF E
<1> QED BY <1>2, <1>3

\* The whole loop: every entry below 2 GB.
LEMMA CopyRoots ==
    ASSUME NEW x, NEW t, NEW U, NEW H, Copied(x, t, {}, U, H), Source(t)
    PROVE  Copied(CopyLevel2(x, t), t, UNION {RootBelow(i) : i \in 0 .. USER - 1}, U, H)
<1>1. PICK f : /\ f[0] = x
               /\ \A k \in 1 .. USER : f[k] = RootTurn(f[k - 1], t, k - 1)
               /\ f[USER] = CopyLevel2(x, t)
  BY Level2Loop
<1> DEFINE E(k) == UNION {RootBelow(i) : i \in 0 .. k - 1}
           P(k) == Copied(f[k], t, E(k), U, H)
           S == {k \in 0 .. USER : ~P(k)}
<1>2. P(0)
  <2>1. E(0) = {}
    OBVIOUS
  <2> QED BY <1>1, <2>1
<1>3. ASSUME NEW k \in 1 .. USER, P(k - 1) PROVE P(k)
  <2>1. k - 1 \in 0 .. ROOT - 1
    BY Sizes
  <2>2. ASSUME NEW i \in 0 .. (k - 1) - 1, NEW q \in RootBelow(i), NEW j, NEW l
        PROVE  q # <<k - 1>> /\ q # <<k - 1, j>> /\ q # <<k - 1, j, l>>
    <3>1. i # k - 1
      BY Sizes
    <3>2. CASE q = <<i>>
      BY <3>1, <3>2, PathsDiffer
    <3>3. CASE \E a \in 0 .. WIDTH - 1 : q \in TableBelow(i, a)
      <4>1. PICK a \in 0 .. WIDTH - 1 : q \in TableBelow(i, a)
        BY <3>3
      <4>2. CASE q = <<i, a>>
        BY <3>1, <4>2, PathsDiffer
      <4>3. CASE \E b \in 0 .. FAN - 1 : q = <<i, a, b>>
        BY <3>1, <4>3, PathsDiffer
      <4> QED BY <4>1, <4>2, <4>3 DEF TableBelow
    <3> QED BY <3>2, <3>3 DEF RootBelow
  <2>3. /\ <<k - 1>> \notin E(k - 1)
        /\ \A j, l : <<k - 1, j>> \notin E(k - 1) /\ <<k - 1, j, l>> \notin E(k - 1)
    BY <2>2
  <2>4. E(k) = E(k - 1) \cup RootBelow(k - 1)
    <3>1. 0 .. k - 1 = (0 .. (k - 1) - 1) \cup {k - 1}
      BY Sizes
    <3> QED BY <3>1
  <2>5. f[k] = RootTurn(f[k - 1], t, k - 1)
    BY <1>1
  <2> HIDE DEF E
  <2> QED BY <1>3, <2>1, <2>3, <2>4, <2>5, CopyRoot
<1>4. ASSUME NEW k \in S PROVE \E z \in S : z < k
  <2>1. k # 0 /\ k \in 1 .. USER /\ k - 1 \in 0 .. USER /\ k - 1 < k
    <3> HIDE DEF P
    <3> QED BY <1>2, Sizes
  <2> HIDE DEF P
  <2> QED BY <1>3, <2>1
<1>5. S = {}
  <2>1. S \subseteq Nat
    BY Sizes
  <2> HIDE DEF S
  <2> QED BY <1>4, <2>1, NoLeast
<1>6. P(USER)
  <2>1. USER \in 0 .. USER
    BY Sizes
  <2> HIDE DEF P
  <2> QED BY <1>5, <2>1
<1> QED BY <1>1, <1>6

\* vmm_copy_uvm() into a fresh address space: the parent's, or a panic.
CopyResult(c, n, U, H) ==
    \/ c.status = "panic"
    \/ c.status = "ok" /\ Good(c, U, H) /\ Space(c.pt, n)

\* vmm_copy_uvm() of a sound address space.
LEMMA CopyUvmEffect ==
    ASSUME NEW m, NEW U, NEW H, Good(m, U, H), m.status = "ok",
           Space(m.pt, 0), Leaf(StackPage) \notin DOMAIN m.pt,
           NEW t, Tree(t), NEW n \in Nat, Space(t, n),
           NEW c, c = vmm_copy_uvm(m, t)
    PROVE  CopyResult(c, n, U, H)
<1> DEFINE D == UNION {RootBelow(i) : i \in 0 .. USER - 1}
           d == CopyLevel2(m, t)
<1>1. Source(t)
  BY DEF Source, Space
<1>2. Copied(m, t, {}, U, H)
  <2>1. ASSUME NEW q \in DOMAIN m.pt, Len(q) = 3 PROVE q \in {KernelLeaf, Leaf(MmioPage)}
    <3>1. q \in {KernelLeaf, Leaf(MmioPage), Leaf(StackPage)} \cup {Leaf(w) : w \in 0 .. 0 - 1}
      BY <2>1 DEF Space
    <3>2. 0 .. 0 - 1 = {}
      OBVIOUS
    <3> QED BY <3>1, <3>2
  <2> QED BY <2>1 DEF Copied, Space
<1>3. Copied(d, t, D, U, H)
  BY <1>1, <1>2, CopyRoots
<1>4. c = IF d.status = "fail" THEN [d EXCEPT !.status = "panic"] ELSE d
  BY DEF vmm_copy_uvm
<1>5. ASSUME NEW v \in 0 .. StackPage PROVE Leaf(v) \in D
  <2>1. v \div FAN \in 0 .. WIDTH - 1 /\ v % FAN \in 0 .. FAN - 1 /\ 0 \in 0 .. USER - 1
    BY LeafIndices, Sizes
  <2>2. Leaf(v) \in TableBelow(0, v \div FAN)
    BY <2>1 DEF Leaf, TableBelow
  <2>3. Leaf(v) \in RootBelow(0)
    BY <2>1, <2>2 DEF RootBelow
  <2> QED BY <2>1, <2>3
<1> HIDE DEF d, D
<1>6. CASE d.status = "fail"
  <2>1. Good(d, U, H)
    BY <1>3 DEF Copied
  <2>2. [d EXCEPT !.status = "panic"].status = "panic"
    BY <2>1, SetStatus
  <2> QED BY <1>4, <1>6, <2>2 DEF CopyResult
<1>7. CASE d.status # "fail"
  <2>1. c = d /\ d.status = "ok" /\ Good(d, U, H)
    BY <1>3, <1>4, <1>7 DEF Copied
  <2> DEFINE u == d.pt
  <2>2. /\ <<>> \in DOMAIN u
        /\ \A p \in {KernelLeaf, Leaf(MmioPage)} : p \in DOMAIN u /\ u[p] = KERNEL
        /\ \A p \in D : p \in DOMAIN t /\ t[p] # KERNEL => p \in DOMAIN u
        /\ \A q \in DOMAIN u : Len(q) = 3 =>
             \/ q \in {KernelLeaf, Leaf(MmioPage)}
             \/ q \in D /\ q \in DOMAIN t /\ t[q] # KERNEL /\ u[q] # KERNEL
    BY <1>3, <1>7 DEF Copied
  <2> HIDE DEF u
  <2>3. ASSUME NEW v \in 0 .. StackPage, v # MmioPage, Leaf(v) \in DOMAIN u
        PROVE  u[Leaf(v)] # KERNEL
    <3>1. MmioPage \in 0 .. StackPage
      BY Sizes
    <3>2. Len(Leaf(v)) = 3 /\ Leaf(v) # KernelLeaf /\ Leaf(v) # Leaf(MmioPage)
      BY <2>3, <3>1, LeafFacts
    <3> QED BY <2>2, <2>3, <3>2
  <2>4. ASSUME NEW w \in 0 .. n - 1 PROVE Leaf(w) \in DOMAIN u /\ u[Leaf(w)] # KERNEL
    <3>1. Leaf(w) \in DOMAIN t /\ t[Leaf(w)] # KERNEL /\ n <= MmioPage
      BY DEF Space
    <3>2. w \in 0 .. StackPage /\ w # MmioPage
      BY <3>1, Sizes
    <3>3. Leaf(w) \in DOMAIN u
      BY <1>5, <2>2, <3>1, <3>2
    <3> QED BY <2>3, <3>2, <3>3
  <2>5. ASSUME NEW q \in DOMAIN u, Len(q) = 3
        PROVE  q \in {KernelLeaf, Leaf(MmioPage), Leaf(StackPage)}
                      \cup {Leaf(w) : w \in 0 .. n - 1}
    BY <2>2, <2>5 DEF Space
  <2>6. Leaf(StackPage) \in DOMAIN u => u[Leaf(StackPage)] # KERNEL
    <3>1. StackPage \in 0 .. StackPage /\ StackPage # MmioPage
      BY Sizes
    <3> QED BY <2>3, <3>1
  <2>7. n <= MmioPage
    BY DEF Space
  <2>8. Space(u, n)
    BY <2>2, <2>4, <2>5, <2>6, <2>7 DEF Space
  <2> QED BY <2>1, <2>8 DEF CopyResult, u
<1> QED BY <1>6, <1>7

-----------------------------------------------------------------------------
(* The inductive invariant.                                                 *)

\* The frames R of the machine: the free ones F, the boot table's B, those lost
\* on the way L, and those O[i] of every process i in I.
Partition(F, B, L, O, I, R) ==
    /\ F \cup B \cup L \cup UNION {O[i] : i \in I} = R
    /\ F \cap B = {}
    /\ \A i \in I : O[i] \cap (F \cup B) = {}
    /\ \A i, j \in I : i # j => O[i] \cap O[j] = {}

\* A process: a tree of frames used once, the kernel stack apart from it, and
\* the pages its break calls for.
Sound(t, k, b) ==
    /\ Tree(t) /\ Unshared(t)
    /\ k \notin TableFrames(t)
    /\ Space(t, PageEnd(b))

\* The frames of every process.
Frames == [i \in Slots |-> Owned(i)]

\* The kinds of the variables.
Typed ==
    /\ ram \in 0 .. MmioPage
    /\ pt = [i \in Slots |-> pt[i]]
    /\ kstack = [i \in Slots |-> kstack[i]]
    /\ state \in [Slots -> {"UNUSED", "LIVE", "ZOMBIE"}]
    /\ heap_break \in [Slots -> Nat]
    /\ mode \in {"user", "halted", "fork_panic", "exec_panic"}
    /\ lost = [fork |-> lost.fork, exec |-> lost.exec]

\* The hart runs on the page table of a process that is there.
CurrentSound ==
    /\ current \in InUse
    /\ mode = "user" => state[current] = "LIVE"
    /\ satp = pt[current][<<>>]

\* The inductive invariant: every frame of the machine has exactly one place, and
\* every process in the table has a sound address space.
MInv ==
    /\ Typed
    /\ Partition(free, boot, lost.fork \cup lost.exec, Frames, InUse, 0 .. ram - 1)
    /\ \A i \in InUse : Sound(pt[i], kstack[i], heap_break[i])
    /\ \A i \in Slots : state[i] = "UNUSED" => pt[i] = EmptyTable
    /\ CurrentSound

\* Frames move between the free ones, those of one process c and the lost ones:
\* the others keep theirs.
Share(O, I, c) == IF c \in I THEN O[c] ELSE {}

\* Such a move keeps the partition.
LEMMA SlotStep ==
    ASSUME NEW F, NEW B, NEW L, NEW O, NEW I, NEW R, Partition(F, B, L, O, I, R),
           NEW F2, NEW L2, NEW O2, NEW I2, NEW c,
           I \ {c} = I2 \ {c}, \A i \in I \ {c} : O2[i] = O[i],
           F2 \cup Share(O2, I2, c) \cup L2 = F \cup Share(O, I, c) \cup L,
           F2 \cup Share(O2, I2, c) \subseteq F \cup Share(O, I, c),
           F2 \cap Share(O2, I2, c) = {}
    PROVE  Partition(F2, B, L2, O2, I2, R)
<1> DEFINE A  == Share(O, I, c)
           A2 == Share(O2, I2, c)
           X  == UNION {O[i] : i \in I \ {c}}
<1>1. UNION {O[i] : i \in I} = X \cup A
  BY DEF Share
<1>2. UNION {O2[i] : i \in I2} = X \cup A2
  <2>1. UNION {O2[i] : i \in I2} = (UNION {O2[i] : i \in I2 \ {c}}) \cup A2
    BY DEF Share
  <2>2. UNION {O2[i] : i \in I2 \ {c}} = X
    OBVIOUS
  <2> QED BY <2>1, <2>2
<1>3. F \cup B \cup L \cup (X \cup A) = R /\ F \cap B = {}
  BY <1>1 DEF Partition
<1>4. A \cap (F \cup B) = {}
  BY DEF Partition, Share
<1>5. \A i \in I \ {c} : O[i] \cap (F \cup B) = {} /\ O[i] \cap A = {}
  BY DEF Partition, Share
<1>6. F2 \cup A2 \cup L2 = F \cup A \cup L /\ F2 \cup A2 \subseteq F \cup A /\ F2 \cap A2 = {}
  OBVIOUS
<1>7. c \in I2 => O2[c] = A2
  BY DEF Share
<1> HIDE DEF A, A2, X
<1>8. F2 \cup B \cup L2 \cup (X \cup A2) = R
  BY <1>3, <1>6
<1>9. F2 \cap B = {} /\ A2 \cap (F2 \cup B) = {}
  BY <1>3, <1>4, <1>6
<1>10. ASSUME NEW i \in I2, i # c
       PROVE  O2[i] \cap (F2 \cup B) = {} /\ O2[i] \cap A2 = {}
  <2>1. i \in I \ {c} /\ O2[i] = O[i]
    BY <1>10
  <2>2. O[i] \cap (F \cup B) = {} /\ O[i] \cap A = {}
    BY <1>5, <2>1
  <2> QED BY <1>6, <2>1, <2>2
<1>11. ASSUME NEW i \in I2, NEW j \in I2, i # j PROVE O2[i] \cap O2[j] = {}
  <2>1. CASE i = c
    BY <1>7, <1>10, <1>11, <2>1
  <2>2. CASE j = c
    BY <1>7, <1>10, <1>11, <2>2
  <2>3. CASE i # c /\ j # c
    <3>1. i \in I /\ j \in I /\ O2[i] = O[i] /\ O2[j] = O[j]
      BY <2>3
    <3> QED BY <1>11, <3>1 DEF Partition
  <2> QED BY <2>1, <2>2, <2>3
<1>12. \A i \in I2 : O2[i] \cap (F2 \cup B) = {}
  BY <1>7, <1>9, <1>10
<1> QED BY <1>2, <1>8, <1>9, <1>11, <1>12 DEF Partition

\* What the invariant says of the process that traps.
LEMMA Current ==
    ASSUME MInv, InUser
    PROVE  /\ current \in Slots /\ current \in InUse
           /\ Tree(pt[current]) /\ Unshared(pt[current])
           /\ Space(pt[current], PageEnd(heap_break[current]))
           /\ kstack[current] \notin TableFrames(pt[current])
           /\ heap_break[current] \in Nat /\ PageEnd(heap_break[current]) \in Nat
           /\ Share(Frames, InUse, current) = TableFrames(pt[current]) \cup {kstack[current]}
           /\ Share(Frames, InUse, current) \cap free = {}
           /\ Share(Frames, InUse, current) \cup free \subseteq 0 .. ram - 1
           /\ 0 .. ram - 1 \subseteq 0 .. MmioPage - 1
<1>1. current \in InUse /\ current \in Slots
  BY DEF MInv, CurrentSound, InUse
<1>2. Sound(pt[current], kstack[current], heap_break[current])
  BY <1>1 DEF MInv
<1>3. heap_break[current] \in Nat
  BY <1>1 DEF MInv, Typed
<1>4. PageEnd(heap_break[current]) \in Nat
  BY <1>3, PageEndFacts
<1>5. Frames[current] = TableFrames(pt[current]) \cup {kstack[current]}
  BY <1>1 DEF Frames, Owned
<1>6. Share(Frames, InUse, current) = Frames[current]
  BY <1>1 DEF Share
<1>7. Frames[current] \cap free = {} /\ Frames[current] \cup free \subseteq 0 .. ram - 1
  BY <1>1 DEF MInv, Partition
<1>8. 0 .. ram - 1 \subseteq 0 .. MmioPage - 1
  <2>1. ram \in 0 .. MmioPage
    BY DEF MInv, Typed
  <2> QED BY <2>1, Sizes
<1> QED BY <1>1, <1>2, <1>3, <1>4, <1>5, <1>6, <1>7, <1>8 DEF Sound

\* A handler begins with the free frames and a table.
BeginResult(F, t, m) ==
    /\ Good(m, F \cup TableFrames(t), {})
    /\ m.status = "ok" /\ m.mapped = 0 /\ m.pt = t /\ m.free = F

\* All of them are accounted for.
LEMMA BeginGood ==
    ASSUME NEW F, F \subseteq Nat, NEW t, Tree(t), Unshared(t), F \cap TableFrames(t) = {},
           NEW m, m = Begin(F, t)
    PROVE  BeginResult(F, t, m)
<1>1. m = [free |-> F, pt |-> t, page |-> NONE, mapped |-> 0, status |-> "ok"]
  BY DEF Begin
<1>2. Mem(m) /\ m.status = "ok" /\ m.mapped = 0 /\ m.pt = t /\ m.free = F
  BY <1>1 DEF Mem
<1>3. TableFrames(t) \subseteq Nat
  BY DEF TableFrames, Tree
<1> QED BY <1>2, <1>3 DEF Good, BeginResult

\* The empty table has no frames.
LEMMA EmptyGood ==
    /\ Tree(EmptyTable) /\ Unshared(EmptyTable) /\ TableFrames(EmptyTable) = {}
    /\ DOMAIN EmptyTable = {}
BY DEF Tree, Unshared, TableFrames, EmptyTable

\* A handler that builds an address space from nothing.
LEMMA BeginEmpty ==
    ASSUME NEW F, F \subseteq Nat, NEW m, m = Begin(F, EmptyTable)
    PROVE  /\ Good(m, F, {})
           /\ m.status = "ok" /\ m.mapped = 0 /\ m.pt = EmptyTable /\ m.free = F
<1>1. F \cap TableFrames(EmptyTable) = {} /\ F \cup TableFrames(EmptyTable) = F
  BY EmptyGood
<1>2. Tree(EmptyTable) /\ Unshared(EmptyTable)
  BY EmptyGood
<1>3. BeginResult(F, EmptyTable, m)
  BY <1>1, <1>2, BeginGood
<1> QED BY <1>1, <1>3 DEF BeginResult

\* A step that changes one slot keeps the invariant if it leaves a sound process
\* or an empty slot, and if no frame of that slot, of the free ones or of the
\* lost ones goes missing or gets a second role.
LEMMA SlotUpdate ==
    ASSUME MInv, NEW c \in Slots, NEW t, NEW k, NEW s \in {"UNUSED", "LIVE", "ZOMBIE"},
           NEW b \in Nat, NEW A,
           pt' = [pt EXCEPT ![c] = t], kstack' = [kstack EXCEPT ![c] = k],
           state' = [state EXCEPT ![c] = s], heap_break' = [heap_break EXCEPT ![c] = b],
           ram' = ram, boot' = boot,
           mode' \in {"user", "halted", "fork_panic", "exec_panic"},
           lost' = [fork |-> lost'.fork, exec |-> lost'.exec],
           s # "UNUSED" => Sound(t, k, b), s = "UNUSED" => t = EmptyTable,
           A = IF s = "UNUSED" THEN {} ELSE TableFrames(t) \cup {k},
           free' \cup A \cup (lost'.fork \cup lost'.exec)
             = free \cup Share(Frames, InUse, c) \cup (lost.fork \cup lost.exec),
           free' \cup A \subseteq free \cup Share(Frames, InUse, c),
           free' \cap A = {},
           CurrentSound'
    PROVE  MInv'
<1>1. /\ pt = [i \in Slots |-> pt[i]] /\ kstack = [i \in Slots |-> kstack[i]]
      /\ state \in [Slots -> {"UNUSED", "LIVE", "ZOMBIE"}] /\ heap_break \in [Slots -> Nat]
      /\ ram \in 0 .. MmioPage
  BY DEF MInv, Typed
<1>2. /\ pt'[c] = t /\ kstack'[c] = k /\ state'[c] = s /\ heap_break'[c] = b
      /\ \A i \in Slots \ {c} : /\ pt'[i] = pt[i] /\ kstack'[i] = kstack[i]
                                /\ state'[i] = state[i] /\ heap_break'[i] = heap_break[i]
  BY <1>1
<1>3. Typed'
  <2>1. pt' = [i \in Slots |-> pt'[i]]
    BY <1>1
  <2>2. kstack' = [i \in Slots |-> kstack'[i]]
    BY <1>1
  <2>3. state' \in [Slots -> {"UNUSED", "LIVE", "ZOMBIE"}] /\ heap_break' \in [Slots -> Nat]
    BY <1>1
  <2> QED BY <1>1, <2>1, <2>2, <2>3 DEF Typed
<1>4. InUse \ {c} = InUse' \ {c} /\ (c \in InUse' <=> s # "UNUSED") /\ InUse' \subseteq Slots
  BY <1>2 DEF InUse
<1>5. \A i \in InUse' : Sound(pt[i], kstack[i], heap_break[i])'
  <2> SUFFICES ASSUME NEW i \in InUse'
               PROVE  Sound(pt'[i], kstack'[i], heap_break'[i])
    OBVIOUS
  <2>1. CASE i = c
    BY <1>2, <1>4, <2>1
  <2>2. CASE i # c
    <3>1. i \in InUse /\ i \in Slots \ {c}
      BY <1>4, <2>2 DEF InUse
    <3>2. Sound(pt[i], kstack[i], heap_break[i])
      BY <3>1 DEF MInv
    <3> QED BY <1>2, <3>1, <3>2
  <2> QED BY <2>1, <2>2
<1>6. \A i \in Slots : state'[i] = "UNUSED" => pt'[i] = EmptyTable
  BY <1>2 DEF MInv
<1>7. \A i \in InUse \ {c} : Frames'[i] = Frames[i]
  <2> SUFFICES ASSUME NEW i \in InUse \ {c} PROVE Frames'[i] = Frames[i]
    OBVIOUS
  <2>1. i \in Slots \ {c}
    BY DEF InUse
  <2>2. Frames'[i] = TableFrames(pt'[i]) \cup {kstack'[i]}
    BY <2>1 DEF Frames, Owned
  <2>3. Frames[i] = TableFrames(pt[i]) \cup {kstack[i]}
    BY <2>1 DEF Frames, Owned
  <2> QED BY <1>2, <2>1, <2>2, <2>3
<1>8. Share(Frames', InUse', c) = A
  <2>1. Frames'[c] = TableFrames(pt'[c]) \cup {kstack'[c]}
    BY DEF Frames, Owned
  <2> QED BY <1>2, <1>4, <2>1 DEF Share
<1>9. Partition(free, boot, lost.fork \cup lost.exec, Frames, InUse, 0 .. ram - 1)
  BY DEF MInv
<1> DEFINE L == lost.fork \cup lost.exec
           L2 == lost'.fork \cup lost'.exec
           F2 == free'
           O2 == Frames'
           I2 == InUse'
<1>10. /\ I2 \ {c} = InUse \ {c} /\ \A i \in InUse \ {c} : O2[i] = Frames[i]
       /\ F2 \cup Share(O2, I2, c) \cup L2 = free \cup Share(Frames, InUse, c) \cup L
       /\ F2 \cup Share(O2, I2, c) \subseteq free \cup Share(Frames, InUse, c)
       /\ F2 \cap Share(O2, I2, c) = {}
       /\ Partition(free, boot, L, Frames, InUse, 0 .. ram - 1)
  BY <1>4, <1>7, <1>8, <1>9
<1> HIDE DEF L, L2, F2, O2, I2
<1>11. Partition(F2, boot, L2, O2, I2, 0 .. ram - 1)
  BY <1>10, SlotStep
<1>12. Partition(free', boot', lost'.fork \cup lost'.exec, Frames', InUse', 0 .. ram' - 1)
  BY <1>11 DEF F2, L2, O2, I2
<1> QED BY <1>3, <1>5, <1>6, <1>12 DEF MInv

\* Nothing changes for any process.
LEMMA SameSlot ==
    ASSUME MInv, NEW c \in Slots
    PROVE  /\ pt = [pt EXCEPT ![c] = pt[c]] /\ kstack = [kstack EXCEPT ![c] = kstack[c]]
           /\ state = [state EXCEPT ![c] = state[c]]
           /\ heap_break = [heap_break EXCEPT ![c] = heap_break[c]]
<1>1. /\ pt = [i \in Slots |-> pt[i]] /\ kstack = [i \in Slots |-> kstack[i]]
      /\ state \in [Slots -> {"UNUSED", "LIVE", "ZOMBIE"}] /\ heap_break \in [Slots -> Nat]
  BY DEF MInv, Typed
<1>2. pt = [pt EXCEPT ![c] = pt[c]]
  BY <1>1
<1>3. kstack = [kstack EXCEPT ![c] = kstack[c]]
  BY <1>1
<1> QED BY <1>1, <1>2, <1>3

\* A timer tick or a blocking call.
LEMMA SwitchMInv == MInv /\ Switch => MInv'
<1> SUFFICES ASSUME MInv, Switch PROVE MInv'
  OBVIOUS
<1> DEFINE c == current
           A == TableFrames(pt[c]) \cup {kstack[c]}
<1>1. InUser /\ UNCHANGED <<ram, free, pt, kstack, state, heap_break, mode, boot, lost>>
  BY DEF Switch
<1>2. PICK i \in Slots : state[i] = "LIVE" /\ current' = i /\ satp' = pt[i][<<>>]
  BY DEF Switch, SwitchTo
<1>3. /\ c \in Slots /\ c \in InUse /\ heap_break[c] \in Nat
      /\ Share(Frames, InUse, c) = A /\ A \cap free = {}
  BY <1>1, Current
<1>4. Sound(pt[c], kstack[c], heap_break[c])
  BY <1>3 DEF MInv
<1>5. state[c] = "LIVE"
  BY <1>1 DEF InUser
<1>6. CurrentSound'
  BY <1>1, <1>2 DEF CurrentSound, InUse
<1>7. /\ mode \in {"user", "halted", "fork_panic", "exec_panic"}
      /\ lost = [fork |-> lost.fork, exec |-> lost.exec]
  BY DEF MInv, Typed
<1>8. A = IF state[c] = "UNUSED" THEN {} ELSE TableFrames(pt[c]) \cup {kstack[c]}
  BY <1>5
<1>9. /\ pt' = [pt EXCEPT ![c] = pt[c]] /\ kstack' = [kstack EXCEPT ![c] = kstack[c]]
      /\ state' = [state EXCEPT ![c] = state[c]]
      /\ heap_break' = [heap_break EXCEPT ![c] = heap_break[c]]
  BY <1>1, <1>3, SameSlot
<1>10. /\ free' \cup A \cup (lost'.fork \cup lost'.exec)
            = free \cup Share(Frames, InUse, c) \cup (lost.fork \cup lost.exec)
       /\ free' \cup A \subseteq free \cup Share(Frames, InUse, c)
       /\ free' \cap A = {}
       /\ mode' \in {"user", "halted", "fork_panic", "exec_panic"}
       /\ lost' = [fork |-> lost'.fork, exec |-> lost'.exec]
       /\ ram' = ram /\ boot' = boot
  BY <1>1, <1>3, <1>7
<1> HIDE DEF A, c
<1> QED BY <1>3, <1>4, <1>5, <1>6, <1>8, <1>9, <1>10, SlotUpdate

\* exit_current().
LEMMA ExitMInv == MInv /\ Exit => MInv'
<1> SUFFICES ASSUME MInv, Exit PROVE MInv'
  OBVIOUS
<1> DEFINE c == current
           s == "ZOMBIE"
           A == TableFrames(pt[c]) \cup {kstack[c]}
<1>1. /\ InUser /\ UNCHANGED <<ram, free, pt, kstack, heap_break, boot, lost>>
      /\ state' = [state EXCEPT ![c] = s]
  BY DEF Exit
<1>3. /\ c \in Slots /\ c \in InUse /\ heap_break[c] \in Nat
      /\ Share(Frames, InUse, c) = A /\ A \cap free = {}
  BY <1>1, Current
<1>4. Sound(pt[c], kstack[c], heap_break[c])
  BY <1>3 DEF MInv
<1>5. /\ mode \in {"user", "halted", "fork_panic", "exec_panic"}
      /\ lost = [fork |-> lost.fork, exec |-> lost.exec]
      /\ state \in [Slots -> {"UNUSED", "LIVE", "ZOMBIE"}]
  BY DEF MInv, Typed
<1>6. CurrentSound' /\ mode' \in {"user", "halted", "fork_panic", "exec_panic"}
  <2>1. CASE \E i \in Slots \ {current} : /\ state[i] = "LIVE" /\ SwitchTo(i)
                                          /\ UNCHANGED mode
    <3>1. PICK i \in Slots \ {current} : /\ state[i] = "LIVE" /\ SwitchTo(i)
                                         /\ UNCHANGED mode
      BY <2>1
    <3>2. state'[i] = "LIVE"
      BY <1>1, <1>3, <1>5, <3>1
    <3>3. current' = i /\ satp' = pt'[i][<<>>]
      BY <1>1, <3>1 DEF SwitchTo
    <3> QED BY <1>5, <3>1, <3>2, <3>3 DEF CurrentSound, InUse
  <2>2. CASE mode' = "halted" /\ UNCHANGED <<current, satp>>
    <3>1. state'[c] = "ZOMBIE"
      BY <1>1, <1>3, <1>5
    <3>2. satp = pt[c][<<>>]
      BY DEF MInv, CurrentSound
    <3> QED BY <1>1, <1>3, <2>2, <3>1, <3>2 DEF CurrentSound, InUse
  <2> QED BY <2>1, <2>2 DEF Exit
<1>8. A = IF s = "UNUSED" THEN {} ELSE TableFrames(pt[c]) \cup {kstack[c]}
  OBVIOUS
<1>9. /\ pt' = [pt EXCEPT ![c] = pt[c]] /\ kstack' = [kstack EXCEPT ![c] = kstack[c]]
      /\ state' = [state EXCEPT ![c] = s]
      /\ heap_break' = [heap_break EXCEPT ![c] = heap_break[c]]
  BY <1>1, <1>3, SameSlot
<1>10. /\ free' \cup A \cup (lost'.fork \cup lost'.exec)
            = free \cup Share(Frames, InUse, c) \cup (lost.fork \cup lost.exec)
       /\ free' \cup A \subseteq free \cup Share(Frames, InUse, c)
       /\ free' \cap A = {}
       /\ lost' = [fork |-> lost'.fork, exec |-> lost'.exec]
       /\ ram' = ram /\ boot' = boot
  BY <1>1, <1>3, <1>5
<1>11. s \in {"UNUSED", "LIVE", "ZOMBIE"} /\ s # "UNUSED"
  OBVIOUS
<1> HIDE DEF A, c, s
<1> QED BY <1>3, <1>4, <1>6, <1>8, <1>9, <1>10, <1>11, SlotUpdate

\* wait() that finds a zombie: free_proc().
LEMMA ReapMInv == MInv /\ Reap => MInv'
<1> SUFFICES ASSUME MInv, Reap PROVE MInv'
  OBVIOUS
<1> DEFINE Z == {i \in Slots : parent[i] = current /\ state[i] = "ZOMBIE"}
           c == Min(Z)
           s == "UNUSED"
           A == {}
<1>1. /\ InUser /\ UNCHANGED <<ram, current, satp, mode, boot, lost>>
      /\ Z # {}
      /\ free' = free \cup {kstack[c]} \cup TableFrames(pt[c])
      /\ pt' = [pt EXCEPT ![c] = EmptyTable]
      /\ kstack' = [kstack EXCEPT ![c] = NONE]
      /\ state' = [state EXCEPT ![c] = s]
      /\ heap_break' = [heap_break EXCEPT ![c] = 0]
  BY DEF Reap
<1>2. c \in Slots /\ state[c] = "ZOMBIE"
  <2>1. Z \subseteq Nat
    BY MemoryAssumption DEF Slots
  <2>2. c \in Z
    <3> HIDE DEF Z
    <3> QED BY <1>1, <2>1, LeastInSet
  <2> HIDE DEF c
  <2> QED BY <2>2
<1> HIDE DEF c
<1>3. Share(Frames, InUse, c) = TableFrames(pt[c]) \cup {kstack[c]}
  BY <1>2 DEF Share, Frames, Owned, InUse
<1>4. CurrentSound'
  <2>1. state[current] = "LIVE" /\ current \in Slots /\ c # current /\ satp = pt[current][<<>>]
    BY <1>1, <1>2 DEF MInv, CurrentSound, InUser, InUse
  <2>2. state'[current] = "LIVE" /\ pt'[current] = pt[current]
    <3>1. pt = [i \in Slots |-> pt[i]] /\ state \in [Slots -> {"UNUSED", "LIVE", "ZOMBIE"}]
      BY DEF MInv, Typed
    <3> QED BY <1>1, <2>1, <3>1
  <2> QED BY <1>1, <2>1, <2>2 DEF CurrentSound, InUse
<1>5. /\ mode' \in {"user", "halted", "fork_panic", "exec_panic"}
      /\ lost' = [fork |-> lost'.fork, exec |-> lost'.exec]
      /\ ram' = ram /\ boot' = boot
  BY <1>1 DEF MInv, Typed
<1>6. /\ free' \cup A \cup (lost'.fork \cup lost'.exec)
            = free \cup Share(Frames, InUse, c) \cup (lost.fork \cup lost.exec)
      /\ free' \cup A \subseteq free \cup Share(Frames, InUse, c)
      /\ free' \cap A = {}
  BY <1>1, <1>3
<1> DEFINE t == EmptyTable
           b == 0
           k == NONE
<1>7. /\ s \in {"UNUSED", "LIVE", "ZOMBIE"} /\ s = "UNUSED" /\ t = EmptyTable /\ b \in Nat
      /\ A = IF s = "UNUSED" THEN {} ELSE TableFrames(t) \cup {k}
  OBVIOUS
<1>8. /\ pt' = [pt EXCEPT ![c] = t] /\ kstack' = [kstack EXCEPT ![c] = k]
      /\ state' = [state EXCEPT ![c] = s] /\ heap_break' = [heap_break EXCEPT ![c] = b]
  BY <1>1
<1> HIDE DEF A, s, t, b, k
<1> QED BY <1>2, <1>4, <1>5, <1>6, <1>7, <1>8, SlotUpdate

\* vmm_unmap_range() leaves the root alone.
LEMMA UnmapRoot ==
    ASSUME NEW m, Mem(m), NEW pages, <<>> \in DOMAIN m.pt, NEW n, n = vmm_unmap_range(m, pages)
    PROVE  n.pt[<<>>] = m.pt[<<>>]
<1> DEFINE gone == {Leaf(v) : v \in pages} \cap DOMAIN m.pt
           u == [p \in DOMAIN m.pt \ gone |-> m.pt[p]]
           F == m.free \cup {m.pt[p] : p \in gone}
<1>1. n = [[m EXCEPT !.free = F] EXCEPT !.pt = u]
  BY DEF vmm_unmap_range, Mem
<1>2. <<>> \notin gone
  <2>1. \A v \in pages : <<>> # Leaf(v)
    BY PathsDiffer DEF Leaf
  <2> QED BY <2>1
<1>3. u[<<>>] = m.pt[<<>>]
  BY <1>2
<1> HIDE DEF u, F, gone
<1>4. n.pt = u
  BY <1>1 DEF Mem
<1> QED BY <1>3, <1>4

\* sbrk(): all the pages or none.
LEMMA SbrkMInv == \A inc \in Increments : MInv /\ Sbrk(inc) => MInv'
<1> SUFFICES ASSUME NEW inc \in Increments, MInv, Sbrk(inc) PROVE MInv'
  OBVIOUS
<1> DEFINE c   == current
           old == heap_break[c]
           P   == PageEnd(old)
           n   == PageEnd(old + inc) - P
           g   == Begin(free, pt[c])
           m   == MapNewPages(g, P, n)
           end == P + m.mapped
           u   == vmm_unmap_range(m, P .. end - 1)
           K   == kstack[c]
           T   == TableFrames(pt[c])
           U   == free \cup T
<1>1. /\ InUser
      /\ UNCHANGED <<ram, kstack, state, current, satp, mode, boot, lost>>
      /\ \/ UNCHANGED <<free, pt, heap_break>>
         \/ /\ inc > 0 /\ m.status = "ok" /\ free' = m.free
            /\ pt' = [pt EXCEPT ![c] = m.pt]
            /\ heap_break' = [heap_break EXCEPT ![c] = old + inc]
         \/ /\ inc > 0 /\ m.status # "ok" /\ free' = u.free
            /\ pt' = [pt EXCEPT ![c] = u.pt]
            /\ UNCHANGED heap_break
  <2>1. inc \in Int
    BY MemoryAssumption
  <2>2. inc <= 0 \/ inc > 0
    BY <2>1
  <2>3. InUser /\ UNCHANGED <<ram, kstack, state, current, satp, mode, boot, lost>>
    BY DEF Sbrk
  <2>4. IF inc <= 0 \/ old + inc > HeapMax THEN UNCHANGED <<free, pt, heap_break>>
        ELSE IF m.status = "ok"
        THEN /\ free' = m.free
             /\ pt' = [pt EXCEPT ![c] = m.pt]
             /\ heap_break' = [heap_break EXCEPT ![c] = old + inc]
        ELSE /\ free' = u.free
             /\ pt' = [pt EXCEPT ![c] = u.pt]
             /\ UNCHANGED heap_break
    BY DEF Sbrk
  <2> HIDE DEF m, u
  <2> QED BY <2>2, <2>3, <2>4
<1>2. /\ c \in Slots /\ c \in InUse
      /\ Tree(pt[c]) /\ Unshared(pt[c]) /\ Space(pt[c], P) /\ K \notin T
      /\ old \in Nat /\ P \in Nat
      /\ Share(Frames, InUse, c) = T \cup {K}
      /\ (T \cup {K}) \cap free = {} /\ (T \cup {K}) \cup free \subseteq 0 .. ram - 1
      /\ 0 .. ram - 1 \subseteq 0 .. MmioPage - 1
  BY <1>1, Current
<1>3. inc > 0 => n \in Nat /\ PageEnd(old + inc) = P + n /\ old + inc \in Nat
  <2> SUFFICES ASSUME inc > 0 PROVE n \in Nat /\ PageEnd(old + inc) = P + n /\ old + inc \in Nat
    OBVIOUS
  <2>1. old \in Nat /\ old + inc \in Nat /\ old <= old + inc
    BY <1>2, MemoryAssumption
  <2>2. PageEnd(old) \in Nat /\ PageEnd(old + inc) \in Nat /\ PageEnd(old) <= PageEnd(old + inc)
    <3> HIDE DEF old
    <3> QED BY <2>1, PageEndFacts
  <2> QED BY <2>1, <2>2
<1>4. BeginResult(free, pt[c], g)
  <2>1. free \subseteq Nat
    BY <1>2
  <2> HIDE DEF g, T
  <2> QED BY <1>2, <2>1, BeginGood DEF g, T
<1>5. Good(g, U, {}) /\ g.status = "ok" /\ g.mapped = 0 /\ g.pt = pt[c]
  BY <1>4 DEF BeginResult
<1>6. U \subseteq 0 .. MmioPage - 1
  BY <1>2
<1> HIDE DEF c, P, n, g, T, U, K, m
<1>7. ASSUME inc > 0
      PROVE  PagesResult(g, m, P, n, U, {})
  <2>1. ReadyAt(g.pt, P)
    BY <1>2, <1>5, SpaceReady
  <2> QED BY <1>2, <1>3, <1>5, <1>6, <1>7, <2>1, PagesEffect DEF m
<1>8. ASSUME inc > 0
      PROVE  /\ Good(m, U, {})
             /\ m.status = "ok" => Space(m.pt, PageEnd(old + inc))
             /\ m.status # "ok" => Good(u, U, {}) /\ Space(u.pt, P)
             /\ m.pt[<<>>] = pt[c][<<>>] /\ u.pt[<<>>] = pt[c][<<>>]
  <2>1. PICK k \in 0 .. n :
        /\ m.mapped = k
        /\ Good(m, U, {})
        /\ k > 0 => P + k <= MmioPage
        /\ Adds(g.pt, m.pt, {Leaf(w) : w \in P .. P + k - 1})
        /\ \A w \in P .. P + k - 1 : m.pt[Leaf(w)] # KERNEL
        /\ (m.status = "ok" /\ k = n) \/ m.status = "fail"
    BY <1>7, <1>8 DEF PagesResult
  <2>2. k \in Nat /\ Space(g.pt, P)
    BY <1>2, <1>3, <1>5, <1>8
  <2>3. Space(m.pt, P + k)
    BY <1>2, <2>1, <2>2, PagesSpace
  <2>4. P + k <= MmioPage
    BY <2>3 DEF Space
  <2>5. u = vmm_unmap_range(m, P .. P + k - 1)
    <3>1. m.mapped = k
      BY <2>1
    <3>2. end = P + k
      BY <3>1, Zenon
    <3> HIDE DEF end
    <3>3. P .. end - 1 = P .. P + k - 1
      BY <1>2, <2>2, <3>2
    <3> QED BY <3>3
  <2> HIDE DEF u
  <2>6. Good(u, U, {}) /\ Space(u.pt, P)
    BY <1>2, <2>1, <2>2, <2>3, <2>4, <2>5, UnmapEffect
  <2>7. m.status = "ok" => Space(m.pt, PageEnd(old + inc))
    <3>1. m.status = "ok" => k = n
      BY <2>1
    <3> QED BY <1>3, <1>8, <2>3, <3>1
  <2>8. m.pt[<<>>] = pt[c][<<>>]
    BY <1>5, <2>1, <2>2 DEF Adds, Space
  <2>9. Mem(m) /\ <<>> \in DOMAIN m.pt
    BY <2>1, <2>3 DEF Good, Space
  <2>10. u.pt[<<>>] = m.pt[<<>>]
    BY <2>5, <2>9, UnmapRoot
  <2> QED BY <2>1, <2>6, <2>7, <2>8, <2>10
<1> HIDE DEF u, old
<1>9. ASSUME NEW x, NEW b \in Nat, Good(x, U, {}), Space(x.pt, PageEnd(b)),
             x.pt[<<>>] = pt[c][<<>>],
             free' = x.free, pt' = [pt EXCEPT ![c] = x.pt],
             heap_break' = [heap_break EXCEPT ![c] = b]
      PROVE  MInv'
  <2> DEFINE t == x.pt
             s == state[c]
             A == TableFrames(t) \cup {K}
  <2>1. /\ x.free \cup TableFrames(t) = U /\ x.free \cap TableFrames(t) = {}
        /\ Tree(t) /\ Unshared(t)
    BY <1>9 DEF Good
  <2>2. K \notin U
    BY <1>2 DEF U
  <2>3. Sound(t, K, b)
    BY <1>9, <2>1, <2>2 DEF Sound
  <2>4. s \in {"UNUSED", "LIVE", "ZOMBIE"} /\ s # "UNUSED"
    BY <1>2 DEF MInv, Typed, InUse
  <2>5. /\ pt' = [pt EXCEPT ![c] = t] /\ kstack' = [kstack EXCEPT ![c] = K]
        /\ state' = [state EXCEPT ![c] = s] /\ heap_break' = [heap_break EXCEPT ![c] = b]
    BY <1>1, <1>2, <1>9, SameSlot DEF K
  <2>6. /\ mode' \in {"user", "halted", "fork_panic", "exec_panic"}
        /\ lost' = [fork |-> lost'.fork, exec |-> lost'.exec]
        /\ ram' = ram /\ boot' = boot
    BY <1>1 DEF MInv, Typed
  <2>7. /\ free' \cup A \cup (lost'.fork \cup lost'.exec)
             = free \cup Share(Frames, InUse, c) \cup (lost.fork \cup lost.exec)
        /\ free' \cup A \subseteq free \cup Share(Frames, InUse, c)
        /\ free' \cap A = {}
    <3>1. lost' = lost
      BY <1>1
    <3>2. free' \cup TableFrames(t) = free \cup T /\ free' \cap TableFrames(t) = {}
      BY <1>9, <2>1 DEF U
    <3>3. Share(Frames, InUse, c) = T \cup {K}
      BY <1>2
    <3>4. K \notin free'
      BY <1>9, <2>1, <2>2
    <3> HIDE DEF t
    <3> QED BY <3>1, <3>2, <3>3, <3>4
  <2>8. CurrentSound'
    <3>1. satp = pt[c][<<>>] /\ (mode = "user" => state[c] = "LIVE")
      BY DEF MInv, CurrentSound, c
    <3>2. pt'[c] = t /\ state'[c] = s
      <4>1. pt = [i \in Slots |-> pt[i]]
        BY DEF MInv, Typed
      <4> QED BY <1>1, <1>2, <1>9, <4>1
    <3>3. current' = c /\ c' = c
      BY <1>1 DEF c
    <3>4. current' \in InUse'
      BY <1>2, <2>4, <3>2, <3>3 DEF InUse
    <3>5. satp' = pt'[current'][<<>>]
      BY <1>1, <1>9, <3>1, <3>2, <3>3
    <3>6. mode' = "user" => state'[current'] = "LIVE"
      BY <1>1, <3>1, <3>2, <3>3
    <3> QED BY <3>4, <3>5, <3>6 DEF CurrentSound
  <2>9. A = IF s = "UNUSED" THEN {} ELSE TableFrames(t) \cup {K}
    BY <2>4
  <2> HIDE DEF t, A, s
  <2> QED BY <1>2, <1>9, <2>3, <2>4, <2>5, <2>6, <2>7, <2>8, <2>9, SlotUpdate
<1>10. CASE UNCHANGED <<free, pt, heap_break>>
  <2> DEFINE x == g
  <2>1. Good(x, U, {}) /\ Space(x.pt, PageEnd(old)) /\ x.pt[<<>>] = pt[c][<<>>]
    BY <1>2, <1>5 DEF P
  <2>2. free' = x.free
    BY <1>4, <1>10 DEF BeginResult
  <2>3. /\ pt' = [pt EXCEPT ![c] = x.pt] /\ heap_break' = [heap_break EXCEPT ![c] = old]
    BY <1>2, <1>5, <1>10, SameSlot DEF old
  <2> HIDE DEF x
  <2> QED BY <1>2, <1>9, <2>1, <2>2, <2>3
<1>11. CASE /\ inc > 0 /\ m.status = "ok" /\ free' = m.free
            /\ pt' = [pt EXCEPT ![c] = m.pt]
            /\ heap_break' = [heap_break EXCEPT ![c] = old + inc]
  BY <1>3, <1>8, <1>9, <1>11
<1>12. CASE /\ inc > 0 /\ m.status # "ok" /\ free' = u.free
            /\ pt' = [pt EXCEPT ![c] = u.pt]
            /\ UNCHANGED heap_break
  <2>1. heap_break' = [heap_break EXCEPT ![c] = old]
    BY <1>2, <1>12, SameSlot DEF old
  <2>2. Good(u, U, {}) /\ Space(u.pt, PageEnd(old)) /\ u.pt[<<>>] = pt[c][<<>>]
    BY <1>8, <1>12 DEF P
  <2> QED BY <1>2, <1>9, <1>12, <2>1, <2>2
<1> QED BY <1>1, <1>10, <1>11, <1>12

\* fork(): a copy of the address space and a kernel stack for the child, or the
\* frames of an address space given up.
LEMMA ForkMInv == MInv /\ Fork => MInv'
<1> SUFFICES ASSUME MInv, Fork PROVE MInv'
  OBVIOUS
<1> DEFINE child == Min(FreeSlots)
           c     == current
           g     == Begin(free, EmptyTable)
           p     == alloc_proc(g)
           d     == vmm_copy_uvm(p, pt[current])
           b     == heap_break[current]
           n     == PageEnd(b)
           K     == kstack[c]
           T     == TableFrames(pt[c])
           L     == lost.fork \cup lost.exec
<1>1. /\ InUser /\ FreeSlots # {} /\ UNCHANGED <<ram, current, satp, boot>>
  BY DEF Fork
<1>2. \/ /\ p.status = "fail"
         /\ free' = p.free
         /\ lost' = [lost EXCEPT !.fork = @ \cup TableFrames(p.pt)]
         /\ UNCHANGED <<pt, kstack, state, heap_break, mode>>
      \/ /\ mode' = "fork_panic"
         /\ UNCHANGED <<free, pt, kstack, state, heap_break, lost>>
      \/ /\ p.status # "fail" /\ p.status # "panic"
         /\ p.status = "ok" => d.status # "panic"
         /\ free' = d.free
         /\ pt' = [pt EXCEPT ![child] = d.pt]
         /\ kstack' = [kstack EXCEPT ![child] = p.page]
         /\ state' = [state EXCEPT ![child] = "LIVE"]
         /\ heap_break' = [heap_break EXCEPT ![child] = b]
         /\ UNCHANGED <<mode, lost>>
  <2>1. CASE p.status = "fail"
    <3>1. /\ free' = p.free
          /\ lost' = [lost EXCEPT !.fork = @ \cup TableFrames(p.pt)]
          /\ UNCHANGED <<pt, kstack, state, heap_break, mode>>
      BY <2>1 DEF Fork
    <3> QED BY <2>1, <3>1
  <2>2. CASE p.status = "panic" \/ (p.status = "ok" /\ d.status = "panic")
    <3>1. /\ mode' = "fork_panic"
          /\ UNCHANGED <<free, pt, kstack, state, heap_break, lost>>
      BY <2>2 DEF Fork
    <3> QED BY <3>1
  <2>3. CASE ~(p.status = "fail") /\ ~(p.status = "panic" \/ (p.status = "ok" /\ d.status = "panic"))
    <3>1. /\ free' = d.free
          /\ pt' = [pt EXCEPT ![child] = d.pt]
          /\ kstack' = [kstack EXCEPT ![child] = p.page]
          /\ state' = [state EXCEPT ![child] = "LIVE"]
          /\ heap_break' = [heap_break EXCEPT ![child] = b]
          /\ UNCHANGED <<mode, lost>>
      BY <2>3 DEF Fork
    <3> QED BY <2>3, <3>1
  <2> QED BY <2>1, <2>2, <2>3
<1>3. /\ c \in Slots /\ c \in InUse
      /\ Tree(pt[c]) /\ Unshared(pt[c]) /\ Space(pt[c], n) /\ K \notin T
      /\ b \in Nat /\ n \in Nat
      /\ Share(Frames, InUse, c) = T \cup {K}
      /\ (T \cup {K}) \cap free = {} /\ (T \cup {K}) \cup free \subseteq 0 .. ram - 1
  BY <1>1, Current
<1>4. /\ Good(g, free, {}) /\ g.status = "ok" /\ g.mapped = 0 /\ g.pt = EmptyTable
  <2>1. free \subseteq Nat
    BY <1>3
  <2> HIDE DEF g
  <2> QED BY <2>1, BeginEmpty DEF g
<1> HIDE DEF g, p, child
<1>5. ProcResult(p, free)
  BY <1>4, AllocProcEffect DEF p
<1>6. satp = pt[c][<<>>] /\ state[c] = "LIVE"
  BY <1>1 DEF MInv, CurrentSound, InUser
<1>7. /\ mode \in {"user", "halted", "fork_panic", "exec_panic"}
      /\ lost = [fork |-> lost.fork, exec |-> lost.exec]
      /\ pt = [i \in Slots |-> pt[i]] /\ state \in [Slots -> {"UNUSED", "LIVE", "ZOMBIE"}]
      /\ mode = "user"
  BY <1>1 DEF MInv, Typed, InUser
<1>8. Sound(pt[c], K, b)
  BY <1>3 DEF MInv
<1> HIDE DEF d, c, n, K, T
<1>9. ASSUME UNCHANGED <<pt, kstack, state, heap_break>>,
             mode' \in {"user", "halted", "fork_panic", "exec_panic"},
             lost' = [fork |-> lost'.fork, exec |-> lost'.exec],
             free' \subseteq free, free' \cup (lost'.fork \cup lost'.exec) = free \cup L
      PROVE  MInv'
  <2> DEFINE A == T \cup {K}
             s == state[c]
             t == pt[c]
  <2>1. /\ free' \cup A \cup (lost'.fork \cup lost'.exec)
             = free \cup Share(Frames, InUse, c) \cup (lost.fork \cup lost.exec)
        /\ free' \cup A \subseteq free \cup Share(Frames, InUse, c)
        /\ free' \cap A = {}
    BY <1>3, <1>9
  <2>2. s = "LIVE" /\ A = IF s = "UNUSED" THEN {} ELSE TableFrames(t) \cup {K}
    BY <1>6 DEF T
  <2>3. /\ pt' = [pt EXCEPT ![c] = t] /\ kstack' = [kstack EXCEPT ![c] = K]
        /\ state' = [state EXCEPT ![c] = s] /\ heap_break' = [heap_break EXCEPT ![c] = b]
    BY <1>3, <1>9, SameSlot DEF K, c
  <2>4. CurrentSound'
    BY <1>1, <1>3, <1>6, <1>9 DEF CurrentSound, InUse, c
  <2>5. ram' = ram /\ boot' = boot
    BY <1>1
  <2>6. Sound(t, K, b) /\ s \in {"UNUSED", "LIVE", "ZOMBIE"} /\ s # "UNUSED"
    BY <1>8, <2>2
  <2> HIDE DEF A, s, t, b
  <2> QED BY <1>3, <1>9, <2>1, <2>2, <2>3, <2>4, <2>5, <2>6, SlotUpdate
<1>10. CASE /\ p.status = "fail"
            /\ free' = p.free
            /\ lost' = [lost EXCEPT !.fork = @ \cup TableFrames(p.pt)]
            /\ UNCHANGED <<pt, kstack, state, heap_break, mode>>
  <2>1. Good(p, free, {})
    BY <1>5, <1>10 DEF ProcResult
  <2>2. p.free \cup TableFrames(p.pt) = free
    BY <2>1 DEF Good
  <2>3. /\ lost' = [fork |-> lost'.fork, exec |-> lost'.exec]
        /\ lost'.fork = lost.fork \cup TableFrames(p.pt) /\ lost'.exec = lost.exec
    BY <1>7, <1>10
  <2>4. free' \subseteq free /\ free' \cup (lost'.fork \cup lost'.exec) = free \cup L
    BY <1>10, <2>2, <2>3
  <2> QED BY <1>7, <1>9, <1>10, <2>3, <2>4
<1>11. CASE /\ mode' = "fork_panic"
            /\ UNCHANGED <<free, pt, kstack, state, heap_break, lost>>
  <2>1. /\ free' \subseteq free /\ free' \cup (lost'.fork \cup lost'.exec) = free \cup L
        /\ lost' = [fork |-> lost'.fork, exec |-> lost'.exec]
        /\ mode' \in {"user", "halted", "fork_panic", "exec_panic"}
    BY <1>7, <1>11
  <2> QED BY <1>9, <1>11, <2>1
<1>12. CASE /\ p.status # "fail" /\ p.status # "panic"
            /\ p.status = "ok" => d.status # "panic"
            /\ free' = d.free
            /\ pt' = [pt EXCEPT ![child] = d.pt]
            /\ kstack' = [kstack EXCEPT ![child] = p.page]
            /\ state' = [state EXCEPT ![child] = "LIVE"]
            /\ heap_break' = [heap_break EXCEPT ![child] = b]
            /\ UNCHANGED <<mode, lost>>
  <2>1. /\ p.status = "ok" /\ p.page \in Nat /\ Good(p, free, {p.page})
        /\ Space(p.pt, 0) /\ Leaf(StackPage) \notin DOMAIN p.pt /\ d.status # "panic"
    BY <1>5, <1>12 DEF ProcResult
  <2>2. CopyResult(d, n, free, {p.page})
    BY <1>3, <2>1, CopyUvmEffect DEF d, c
  <2>3. Good(d, free, {p.page}) /\ Space(d.pt, n)
    BY <2>1, <2>2 DEF CopyResult
  <2>4. child \in Slots /\ state[child] = "UNUSED"
    <3>1. FreeSlots \subseteq Nat
      BY MemoryAssumption DEF FreeSlots, Slots
    <3>2. child \in FreeSlots
      BY <1>1, <3>1, LeastInSet DEF child
    <3> QED BY <3>2 DEF FreeSlots
  <2>5. Share(Frames, InUse, child) = {}
    BY <2>4 DEF Share, InUse
  <2> DEFINE s == "LIVE"
             t == d.pt
             k == p.page
             A == TableFrames(t) \cup {k}
  <2>6. /\ d.free \cup TableFrames(t) \cup {k} = free
        /\ d.free \cap TableFrames(t) = {} /\ d.free \cap {k} = {}
        /\ TableFrames(t) \cap {k} = {} /\ Tree(t) /\ Unshared(t)
    BY <2>3 DEF Good
  <2>7. Sound(t, k, b)
    BY <2>3, <2>6 DEF Sound, n
  <2>8. /\ free' \cup A \cup (lost'.fork \cup lost'.exec)
             = free \cup Share(Frames, InUse, child) \cup (lost.fork \cup lost.exec)
        /\ free' \cup A \subseteq free \cup Share(Frames, InUse, child)
        /\ free' \cap A = {}
    <3>1. lost' = lost /\ free' = d.free
      BY <1>12
    <3> HIDE DEF t, k
    <3> QED BY <2>5, <2>6, <3>1
  <2>9. CurrentSound'
    <3>1. child # c
      BY <1>6, <2>4
    <3>2. pt'[c] = pt[c] /\ state'[c] = state[c] /\ current' = c
      BY <1>1, <1>3, <1>7, <1>12, <3>1 DEF c
    <3> QED BY <1>1, <1>3, <1>6, <3>2 DEF CurrentSound, InUse
  <2>10. /\ mode' \in {"user", "halted", "fork_panic", "exec_panic"}
         /\ lost' = [fork |-> lost'.fork, exec |-> lost'.exec]
         /\ ram' = ram /\ boot' = boot
    BY <1>1, <1>7, <1>12
  <2>11. /\ s \in {"UNUSED", "LIVE", "ZOMBIE"} /\ s # "UNUSED"
         /\ A = IF s = "UNUSED" THEN {} ELSE TableFrames(t) \cup {k}
    OBVIOUS
  <2>12. /\ pt' = [pt EXCEPT ![child] = t] /\ kstack' = [kstack EXCEPT ![child] = k]
         /\ state' = [state EXCEPT ![child] = s]
         /\ heap_break' = [heap_break EXCEPT ![child] = b]
    BY <1>12
  <2> HIDE DEF A, s, t, k, b
  <2> QED BY <1>3, <2>4, <2>7, <2>8, <2>9, <2>10, <2>11, <2>12, SlotUpdate
<1> QED BY <1>2, <1>10, <1>11, <1>12

\* exec(): a new address space for the process, the frames of the old one free.
LEMMA ExecMInv == MInv /\ Exec => MInv'
<1> SUFFICES ASSUME MInv, Exec PROVE MInv'
  OBVIOUS
<1>0. PICK pages \in Images :
         LET r == NewRoot(Begin(free, EmptyTable))
             k == IF r.status = "ok" THEN vmm_map_kernel(r) ELSE r
             e == IF k.status = "ok" THEN load_elf(k, pages) ELSE k
         IN IF e.status \in {"fail", "panic"}
            THEN /\ mode' = "exec_panic"
                 /\ UNCHANGED <<free, pt, image, heap_break, satp, lost>>
            ELSE /\ free' = e.free \cup TableFrames(pt[current])
                 /\ pt' = [pt EXCEPT ![current] = e.pt]
                 /\ satp' = e.pt[<<>>]
                 /\ image' = [image EXCEPT ![current] = pages]
                 /\ heap_break' = [heap_break EXCEPT ![current] = pages * PAGE]
                 /\ lost' = [lost EXCEPT !.exec =
                               @ \cup IF e.status = "nostack" THEN {e.page} ELSE {}]
                 /\ UNCHANGED mode
  BY DEF Exec
<1> DEFINE c == current
           g == Begin(free, EmptyTable)
           r == NewRoot(g)
           k == IF r.status = "ok" THEN vmm_map_kernel(r) ELSE r
           e == IF k.status = "ok" THEN load_elf(k, pages) ELSE k
           K == kstack[c]
           T == TableFrames(pt[c])
           s == state[c]
           H == IF e.status = "nostack" THEN {e.page} ELSE {}
<1>1. InUser /\ UNCHANGED <<ram, kstack, state, current, boot>>
  BY DEF Exec
<1>2. /\ c \in Slots /\ c \in InUse
      /\ Tree(pt[c]) /\ Unshared(pt[c]) /\ K \notin T /\ heap_break[c] \in Nat
      /\ Share(Frames, InUse, c) = T \cup {K}
      /\ (T \cup {K}) \cap free = {} /\ (T \cup {K}) \cup free \subseteq 0 .. ram - 1
      /\ 0 .. ram - 1 \subseteq 0 .. MmioPage - 1
  BY <1>1, Current
<1>3. /\ Good(g, free, {}) /\ g.status = "ok" /\ g.mapped = 0 /\ g.pt = EmptyTable
  <2>1. free \subseteq Nat
    BY <1>2
  <2> HIDE DEF g
  <2> QED BY <2>1, BeginEmpty DEF g
<1>4. /\ mode \in {"user", "halted", "fork_panic", "exec_panic"}
      /\ lost = [fork |-> lost.fork, exec |-> lost.exec]
      /\ pt = [i \in Slots |-> pt[i]] /\ state \in [Slots -> {"UNUSED", "LIVE", "ZOMBIE"}]
      /\ satp = pt[c][<<>>] /\ s = "LIVE"
  BY <1>1 DEF MInv, Typed, CurrentSound, InUser
<1>5. Sound(pt[c], K, heap_break[c])
  BY <1>2 DEF MInv
<1>6. pages \in Nat /\ PageEnd(pages * PAGE) = pages /\ pages * PAGE \in Nat
  <2>1. pages \in Nat
    BY MemoryAssumption
  <2> QED BY <2>1, PageEndFacts
<1>7. kstack' = [kstack EXCEPT ![c] = K] /\ state' = [state EXCEPT ![c] = s]
  BY <1>1, <1>2, SameSlot
<1>8. CASE e.status \in {"fail", "panic"}
  <2>1. mode' = "exec_panic" /\ UNCHANGED <<free, pt, heap_break, satp, lost>>
    BY <1>0, <1>8
  <2> DEFINE t == pt[c]
             b == heap_break[c]
             A == T \cup {K}
  <2>2. /\ free' \cup A \cup (lost'.fork \cup lost'.exec)
             = free \cup Share(Frames, InUse, c) \cup (lost.fork \cup lost.exec)
        /\ free' \cup A \subseteq free \cup Share(Frames, InUse, c)
        /\ free' \cap A = {}
        /\ mode' \in {"user", "halted", "fork_panic", "exec_panic"}
        /\ lost' = [fork |-> lost'.fork, exec |-> lost'.exec]
        /\ ram' = ram /\ boot' = boot
    <3> HIDE DEF K, T
    <3> QED BY <1>1, <1>2, <1>4, <2>1
  <2>3. /\ pt' = [pt EXCEPT ![c] = t] /\ kstack' = [kstack EXCEPT ![c] = K]
        /\ state' = [state EXCEPT ![c] = s] /\ heap_break' = [heap_break EXCEPT ![c] = b]
    BY <1>2, <1>7, <2>1, SameSlot
  <2>4. CurrentSound'
    BY <1>1, <1>2, <1>4, <2>1 DEF CurrentSound, InUse
  <2>5. /\ s \in {"UNUSED", "LIVE", "ZOMBIE"} /\ s # "UNUSED" /\ b \in Nat
        /\ Sound(t, K, b)
        /\ A = IF s = "UNUSED" THEN {} ELSE TableFrames(t) \cup {K}
    BY <1>2, <1>4, <1>5
  <2> HIDE DEF A, s, t, b, c, K
  <2> QED BY <1>2, <2>2, <2>3, <2>4, <2>5, SlotUpdate
<1>9. CASE e.status \notin {"fail", "panic"}
  <2>1. /\ free' = e.free \cup T
        /\ pt' = [pt EXCEPT ![c] = e.pt]
        /\ satp' = e.pt[<<>>]
        /\ heap_break' = [heap_break EXCEPT ![c] = pages * PAGE]
        /\ lost' = [lost EXCEPT !.exec = @ \cup H]
        /\ UNCHANGED mode
    BY <1>0, <1>9
  <2> HIDE DEF g, r, k, e
  <2>2. RootResult(g, r, free, {})
    BY <1>3, NewRootEffect DEF r
  <2>3. r.status = "ok"
    BY <1>9, <2>2 DEF RootResult, k, e
  <2>4. KernelResult(r, k, free, {})
    <3>1. Good(r, free, {}) /\ DOMAIN r.pt = {<<>>} /\ k = vmm_map_kernel(r)
      BY <2>2, <2>3 DEF RootResult, k
    <3> QED BY <2>3, <3>1, MapKernel
  <2>5. k.status = "ok"
    BY <1>9, <2>4 DEF KernelResult, e
  <2>6. /\ Good(k, free, {}) /\ Space(k.pt, 0) /\ Leaf(StackPage) \notin DOMAIN k.pt
        /\ k.mapped = 0 /\ e = load_elf(k, pages) /\ free \subseteq 0 .. MmioPage - 1
    BY <1>2, <1>3, <2>2, <2>4, <2>5 DEF KernelResult, RootResult, e
  <2>7. LoadResult(e, pages, free, {})
    BY <1>6, <2>5, <2>6, LoadElfEffect
  <2>8. Good(e, free, H) /\ Space(e.pt, pages)
    <3>1. {} \cup {e.page} = {e.page}
      OBVIOUS
    <3> QED BY <1>9, <2>7, <3>1 DEF LoadResult
  <2> DEFINE t == e.pt
             b == pages * PAGE
             A == TableFrames(t) \cup {K}
  <2>9. /\ e.free \cup TableFrames(t) \cup H = free
        /\ e.free \cap TableFrames(t) = {} /\ e.free \cap H = {}
        /\ TableFrames(t) \cap H = {} /\ Tree(t) /\ Unshared(t)
    BY <2>8 DEF Good
  <2>10. K \notin free /\ T \cap free = {}
    BY <1>2
  <2>11. Sound(t, K, b)
    BY <1>6, <2>8, <2>9, <2>10 DEF Sound
  <2>12. /\ lost' = [fork |-> lost'.fork, exec |-> lost'.exec]
         /\ lost'.fork = lost.fork /\ lost'.exec = lost.exec \cup H
    <3> HIDE DEF H
    <3> QED BY <1>4, <2>1
  <2>13. /\ free' \cup A \cup (lost'.fork \cup lost'.exec)
              = free \cup Share(Frames, InUse, c) \cup (lost.fork \cup lost.exec)
         /\ free' \cup A \subseteq free \cup Share(Frames, InUse, c)
         /\ free' \cap A = {}
    <3>1. Share(Frames, InUse, c) = T \cup {K} /\ K \notin T
      BY <1>2
    <3>2. free' = e.free \cup T
      BY <2>1
    <3> HIDE DEF H, t, T, K
    <3> QED BY <2>9, <2>10, <2>12, <3>1, <3>2
  <2>14. CurrentSound'
    <3>1. pt'[c] = e.pt
      BY <1>2, <1>4, <2>1
    <3> QED BY <1>1, <1>2, <1>4, <2>1, <3>1 DEF CurrentSound, InUse
  <2>15. /\ mode' \in {"user", "halted", "fork_panic", "exec_panic"}
         /\ ram' = ram /\ boot' = boot
    BY <1>1, <1>4, <2>1
  <2>16. /\ s \in {"UNUSED", "LIVE", "ZOMBIE"} /\ s # "UNUSED" /\ b \in Nat
         /\ A = IF s = "UNUSED" THEN {} ELSE TableFrames(t) \cup {K}
    BY <1>4, <1>6
  <2>17. /\ pt' = [pt EXCEPT ![c] = t] /\ kstack' = [kstack EXCEPT ![c] = K]
         /\ state' = [state EXCEPT ![c] = s] /\ heap_break' = [heap_break EXCEPT ![c] = b]
    BY <1>7, <2>1
  <2> HIDE DEF A, s, t, b, c, K
  <2> QED BY <1>2, <2>11, <2>12, <2>13, <2>14, <2>15, <2>16, <2>17, SlotUpdate
<1> QED BY <1>8, <1>9

\* kmain() up to the first process.
LEMMA InitMInv == Init => MInv
<1> SUFFICES ASSUME Init PROVE MInv
  OBVIOUS
<1>1. PICK n \in RamSizes, pages \in Images :
      LET b == Boot(n)  p == Boot1(n)  e == Boot2(n, pages) IN
      /\ b.status = "ok" /\ p.status = "ok" /\ e.status = "ok"
      /\ ram = n
      /\ free = e.free
      /\ pt = [i \in Slots |-> IF i = 0 THEN e.pt ELSE EmptyTable]
      /\ kstack = [i \in Slots |-> IF i = 0 THEN p.page ELSE NONE]
      /\ state = [i \in Slots |-> IF i = 0 THEN "LIVE" ELSE "UNUSED"]
      /\ parent = [i \in Slots |-> NONE]
      /\ image = [i \in Slots |-> IF i = 0 THEN pages ELSE 0]
      /\ heap_break = [i \in Slots |-> IF i = 0 THEN pages * PAGE ELSE 0]
      /\ current = 0
      /\ satp = e.pt[<<>>]
      /\ mode = "user"
      /\ boot = TableFrames(b.pt)
      /\ lost = [fork |-> {}, exec |-> {}]
  BY DEF Init
<1> DEFINE R == 0 .. n - 1
           g == Begin(R, EmptyTable)
           r == NewRoot(g)
           b == Boot(n)
           a == [b EXCEPT !.pt = EmptyTable]
           p == Boot1(n)
           e == Boot2(n, pages)
<1>2. /\ b.status = "ok" /\ p.status = "ok" /\ e.status = "ok"
      /\ ram = n /\ free = e.free
      /\ pt = [i \in Slots |-> IF i = 0 THEN e.pt ELSE EmptyTable]
      /\ kstack = [i \in Slots |-> IF i = 0 THEN p.page ELSE NONE]
      /\ state = [i \in Slots |-> IF i = 0 THEN "LIVE" ELSE "UNUSED"]
      /\ heap_break = [i \in Slots |-> IF i = 0 THEN pages * PAGE ELSE 0]
      /\ current = 0 /\ satp = e.pt[<<>>] /\ mode = "user"
      /\ boot = TableFrames(b.pt) /\ lost = [fork |-> {}, exec |-> {}]
  BY <1>1
<1>3. b = vmm_map_kernel(r) /\ p = alloc_proc(a) /\ e = load_elf(p, pages)
  BY DEF Boot, Boot1, Boot2
<1>4. /\ n \in 0 .. MmioPage /\ R \subseteq Nat /\ R \subseteq 0 .. MmioPage - 1
      /\ pages \in Nat /\ PageEnd(pages * PAGE) = pages /\ pages * PAGE \in Nat
      /\ 0 \in Slots
  <2>1. n \in 0 .. MmioPage /\ pages \in Nat /\ 0 \in Slots
    BY MemoryAssumption DEF Slots
  <2>2. R \subseteq Nat /\ R \subseteq 0 .. MmioPage - 1
    BY <2>1, Sizes
  <2> QED BY <2>1, <2>2, PageEndFacts
<1>5. Good(g, R, {}) /\ g.status = "ok" /\ g.mapped = 0 /\ g.pt = EmptyTable
  <2> HIDE DEF g, R
  <2> QED BY <1>4, BeginEmpty DEF g
<1> HIDE DEF g, r, b, p, e, R
<1>6. RootResult(g, r, R, {})
  BY <1>5, NewRootEffect DEF r
<1>7. r.status = "ok"
  <2> SUFFICES ASSUME r.status = "fail" PROVE FALSE
    BY <1>6 DEF RootResult
  <2>1. map_page(map_page(r, KernelLeaf, KERNEL), Leaf(MmioPage), KERNEL) = r
    BY MapFailed
  <2>2. b = [r EXCEPT !.status = "panic"]
    BY <1>3, <2>1 DEF vmm_map_kernel
  <2>3. b.status = "panic"
    BY <1>6, <2>2, SetStatus DEF RootResult
  <2> QED BY <1>2, <2>3
<1>8. KernelResult(r, b, R, {})
  <2>1. Good(r, R, {}) /\ DOMAIN r.pt = {<<>>}
    BY <1>6, <1>7 DEF RootResult
  <2> QED BY <1>3, <1>7, <2>1, MapKernel
<1>9. Good(b, R, {}) /\ b.mapped = 0
  BY <1>2, <1>5, <1>6, <1>8 DEF KernelResult, RootResult
<1> DEFINE F == b.free
           B == TableFrames(b.pt)
<1>10. F \cup B = R /\ F \cap B = {} /\ F \subseteq Nat /\ F \subseteq 0 .. MmioPage - 1
  BY <1>4, <1>9 DEF Good
<1>11. Good(a, F, {}) /\ a.status = "ok" /\ a.pt = EmptyTable /\ a.mapped = 0
  <2>1. a = [free |-> b.free, pt |-> EmptyTable, page |-> b.page, mapped |-> b.mapped,
             status |-> b.status]
    BY <1>9, SetField DEF Good
  <2>2. /\ Mem(a) /\ a.status = "ok" /\ a.pt = EmptyTable /\ a.mapped = 0 /\ a.free = F
    BY <1>2, <1>9, <2>1 DEF Mem
  <2>3. TableFrames(a.pt) = {} /\ Tree(a.pt) /\ Unshared(a.pt)
    BY <2>2, EmptyGood
  <2> HIDE DEF a, F
  <2> QED BY <1>10, <2>2, <2>3 DEF Good
<1> HIDE DEF a, F, B
<1>12. ProcResult(p, F)
  BY <1>3, <1>11, AllocProcEffect
<1>13. /\ p.page \in Nat /\ Good(p, F, {p.page}) /\ p.mapped = 0
       /\ Space(p.pt, 0) /\ Leaf(StackPage) \notin DOMAIN p.pt
  BY <1>2, <1>12 DEF ProcResult
<1>14. LoadResult(e, pages, F, {p.page})
  BY <1>2, <1>3, <1>4, <1>10, <1>13, LoadElfEffect
<1>15. Good(e, F, {p.page}) /\ Space(e.pt, pages)
  BY <1>2, <1>14 DEF LoadResult
<1> DEFINE t == e.pt
           k == p.page
           T == TableFrames(t)
<1>16. /\ e.free \cup T \cup {k} = F /\ e.free \cap T = {} /\ e.free \cap {k} = {}
       /\ T \cap {k} = {} /\ Tree(t) /\ Unshared(t)
  BY <1>15 DEF Good
<1>17. InUse = {0} /\ Frames[0] = T \cup {k} /\ pt[0] = t /\ kstack[0] = k
       /\ heap_break[0] = pages * PAGE /\ state[0] = "LIVE"
  BY <1>2, <1>4 DEF InUse, Frames, Owned
<1> HIDE DEF t, k, T
<1>18. Typed
  <2>1. pt = [i \in Slots |-> pt[i]]
    BY <1>2
  <2>2. kstack = [i \in Slots |-> kstack[i]]
    BY <1>2
  <2>3. state \in [Slots -> {"UNUSED", "LIVE", "ZOMBIE"}] /\ heap_break \in [Slots -> Nat]
    BY <1>2, <1>4
  <2>4. ram \in 0 .. MmioPage /\ mode = "user" /\ lost = [fork |-> lost.fork, exec |-> lost.exec]
    BY <1>2, <1>4
  <2> QED BY <2>1, <2>2, <2>3, <2>4 DEF Typed
<1>19. Partition(free, boot, lost.fork \cup lost.exec, Frames, InUse, 0 .. ram - 1)
  <2>1. lost.fork \cup lost.exec = {} /\ free = e.free /\ boot = B /\ 0 .. ram - 1 = R
    BY <1>2 DEF B, R
  <2>2. UNION {Frames[i] : i \in InUse} = T \cup {k}
    BY <1>17
  <2>3. free \cup boot \cup (lost.fork \cup lost.exec) \cup (T \cup {k}) = 0 .. ram - 1
    BY <1>10, <1>16, <2>1
  <2>4. free \cap boot = {} /\ (T \cup {k}) \cap (free \cup boot) = {}
    BY <1>10, <1>16, <2>1
  <2> QED BY <1>17, <2>2, <2>3, <2>4 DEF Partition
<1>20. \A i \in InUse : Sound(pt[i], kstack[i], heap_break[i])
  <2>1. Sound(t, k, pages * PAGE)
    BY <1>4, <1>15, <1>16 DEF Sound, t, T
  <2> QED BY <1>17, <2>1
<1>21. \A i \in Slots : state[i] = "UNUSED" => pt[i] = EmptyTable
  BY <1>2
<1>22. CurrentSound
  BY <1>2, <1>17 DEF CurrentSound, t
<1> QED BY <1>18, <1>19, <1>20, <1>21, <1>22 DEF MInv

\* Every step keeps the invariant.
LEMMA NextMInv == MInv /\ [Next]_vars => MInv'
<1> SUFFICES ASSUME MInv, [Next]_vars PROVE MInv'
  OBVIOUS
<1>1. CASE UNCHANGED vars
  BY <1>1 DEF vars, MInv, Typed, CurrentSound, InUse, Frames, Owned
<1> QED BY <1>1, ForkMInv, ExecMInv, ExitMInv, ReapMInv, SwitchMInv, SbrkMInv DEF Next, Spin

\* The invariant holds of every reachable state, for every number of processes,
\* memory size, program size and sbrk() argument.
THEOREM MemoryInvariant == Spec => []MInv
<1>1. Init => MInv
  BY InitMInv
<1>2. MInv /\ [Next]_vars => MInv'
  BY NextMInv
<1> QED BY <1>1, <1>2, PTL DEF Spec

-----------------------------------------------------------------------------
(* What follows from it.                                                    *)

\* Isolation: no frame has two roles, whatever failed half way before.
THEOREM Isolation == Spec => []FramesExclusive
<1>1. MInv => FramesExclusive
  <2> SUFFICES ASSUME MInv PROVE FramesExclusive
    OBVIOUS
  <2>1. \A i \in InUse : i \in Slots /\ Frames[i] = Owned(i)
    BY DEF InUse, Frames
  <2>2. ASSUME NEW i \in InUse
        PROVE  /\ \A p, q \in DOMAIN pt[i] : pt[i][p] = pt[i][q] /\ pt[i][p] # KERNEL => p = q
               /\ kstack[i] \notin TableFrames(pt[i])
    BY DEF MInv, Sound, Unshared
  <2>3. ASSUME NEW i \in InUse PROVE Owned(i) \cap (free \cup boot) = {}
    BY <2>1 DEF MInv, Partition
  <2>4. ASSUME NEW i \in InUse, NEW j \in InUse, i # j PROVE Owned(i) \cap Owned(j) = {}
    BY <2>1, <2>4 DEF MInv, Partition
  <2> QED BY <2>2, <2>3, <2>4 DEF FramesExclusive
<1> QED BY <1>1, MemoryInvariant, PTL

\* Every frame is free, in use by someone, or lost on one of the two paths.
THEOREM NothingElseLeaks == Spec => []FramesAccounted
<1>1. MInv => FramesAccounted
  <2> SUFFICES ASSUME MInv PROVE FramesAccounted
    OBVIOUS
  <2>1. \A i \in InUse : Frames[i] = Owned(i)
    BY DEF InUse, Frames
  <2>2. UNION {Frames[i] : i \in InUse} = UNION {Owned(i) : i \in InUse}
    BY <2>1
  <2>3. free \cup boot \cup (lost.fork \cup lost.exec)
          \cup UNION {Frames[i] : i \in InUse} = 0 .. ram - 1
    BY DEF MInv, Partition
  <2>4. free \cup boot \cup lost.fork \cup lost.exec
          \cup UNION {Owned(i) : i \in InUse} = 0 .. ram - 1
    BY <2>2, <2>3
  <2> QED BY <2>4 DEF FramesAccounted
<1> QED BY <1>1, MemoryInvariant, PTL

\* Every page table is a tree of three levels with the kernel in it.
THEOREM WellFormedTables == Spec => []TablesWellFormed
<1>1. MInv => TablesWellFormed
  <2> SUFFICES ASSUME MInv PROVE TablesWellFormed
    OBVIOUS
  <2>1. KernelMapped
    BY DEF MInv, Sound, Space, KernelMapped
  <2>2. ASSUME NEW i \in InUse, NEW p \in DOMAIN pt[i] \ {<<>>} PROVE Up(p) \in DOMAIN pt[i]
    BY DEF MInv, Sound, Tree
  <2>3. free \subseteq 0 .. ram - 1
    BY DEF MInv, Partition
  <2>4. ASSUME NEW i \in Slots, NEW p \in DOMAIN pt[i]
        PROVE  /\ p \in Paths
               /\ pt[i][p] \in 0 .. ram - 1 \/ (pt[i][p] = KERNEL /\ Len(p) = 3)
    <3>1. state[i] # "UNUSED"
      <4> SUFFICES ASSUME state[i] = "UNUSED" PROVE FALSE
        OBVIOUS
      <4>1. pt[i] = EmptyTable
        BY DEF MInv
      <4> QED BY <2>4, <4>1, EmptyGood
    <3>2. i \in InUse
      BY <3>1 DEF InUse
    <3>3. /\ p \in Paths
          /\ pt[i][p] \in Nat \/ (pt[i][p] = KERNEL /\ Len(p) = 3)
      BY <2>4, <3>2 DEF MInv, Sound, Tree
    <3>4. pt[i][p] # KERNEL => pt[i][p] \in 0 .. ram - 1
      <4> SUFFICES ASSUME pt[i][p] # KERNEL PROVE pt[i][p] \in 0 .. ram - 1
        OBVIOUS
      <4>1. pt[i][p] \in TableFrames(pt[i])
        BY <2>4 DEF TableFrames
      <4>2. pt[i][p] \in Frames[i]
        BY <4>1 DEF Frames, Owned
      <4> QED BY <3>2, <4>2 DEF MInv, Partition
    <3> QED BY <3>3, <3>4 DEF KERNEL
  <2>5. /\ state \in [Slots -> {"UNUSED", "LIVE", "ZOMBIE"}]
        /\ current \in Slots
        /\ mode \in {"user", "halted", "fork_panic", "exec_panic"}
    BY DEF MInv, Typed, CurrentSound, InUse
  <2>6. TypeOK
    BY <2>3, <2>4, <2>5 DEF TypeOK
  <2> QED BY <2>1, <2>2, <2>6 DEF TablesWellFormed
<1> QED BY <1>1, MemoryInvariant, PTL

\* The mapped user pages are those below the break, and the stack.
THEOREM PagesMatchBreak == Spec => []HeapMatchesBreak
<1>1. MInv => HeapMatchesBreak
  <2> SUFFICES ASSUME MInv, NEW i \in InUse
               PROVE  {p \in DOMAIN pt[i] : Len(p) = 3 /\ pt[i][p] # KERNEL} \ {Leaf(StackPage)}
                        = {Leaf(v) : v \in {w \in 0 .. StackPage - 1 : w * PAGE < heap_break[i]}}
    BY DEF HeapMatchesBreak
  <2> DEFINE t == pt[i]
             b == heap_break[i]
             n == PageEnd(b)
             V == {w \in 0 .. StackPage - 1 : w * PAGE < b}
  <2>1. b \in Nat /\ Space(t, n)
    BY DEF MInv, Typed, Sound, InUse
  <2>2. n \in Nat /\ n <= MmioPage
    <3>1. n \in Nat
      BY <2>1, PageEndFacts
    <3> QED BY <2>1, <3>1 DEF Space
  <2>3. V = 0 .. n - 1
    <3>1. \A w \in Nat : w < n <=> w * PAGE < b
      BY <2>1, PageEndFacts
    <3>2. \A w \in 0 .. StackPage - 1 : w \in Nat
      BY Sizes
    <3>3. \A w \in 0 .. n - 1 : w \in Nat /\ w < n /\ w \in 0 .. StackPage - 1
      BY <2>2, Sizes
    <3> HIDE DEF n, b
    <3>4. V \subseteq 0 .. n - 1
      BY <2>2, <3>1, <3>2
    <3>5. 0 .. n - 1 \subseteq V
      BY <3>1, <3>3
    <3> QED BY <3>4, <3>5
  <2>4. StackPage \in 0 .. StackPage /\ \A w \in 0 .. n - 1 : w \in 0 .. StackPage /\ w # StackPage
    BY <2>2, Sizes
  <2> HIDE DEF t, b, n, V
  <2>5. ASSUME NEW w \in 0 .. n - 1
        PROVE  Leaf(w) \in DOMAIN t /\ Len(Leaf(w)) = 3 /\ t[Leaf(w)] # KERNEL
               /\ Leaf(w) # Leaf(StackPage)
    <3>1. w \in 0 .. StackPage /\ w # StackPage
      BY <2>4
    <3>2. Len(Leaf(w)) = 3
      BY <3>1, LeafFacts
    <3>3. Leaf(w) # Leaf(StackPage)
      BY <2>4, <3>1, LeafFacts
    <3> QED BY <2>1, <3>2, <3>3 DEF Space
  <2>6. ASSUME NEW p \in DOMAIN t, Len(p) = 3, t[p] # KERNEL, p # Leaf(StackPage)
        PROVE  \E w \in 0 .. n - 1 : p = Leaf(w)
    BY <2>1, <2>6 DEF Space
  <2>7. {p \in DOMAIN t : Len(p) = 3 /\ t[p] # KERNEL} \ {Leaf(StackPage)}
          = {Leaf(w) : w \in 0 .. n - 1}
    BY <2>5, <2>6
  <2> QED BY <2>3, <2>7 DEF t, b, V
<1> QED BY <1>1, MemoryInvariant, PTL

\* The hart runs on the page table and the kernel stack of the current process,
\* and neither is free.
THEOREM SatpStaysValid == Spec => []SatpValid
<1>1. MInv => SatpValid
  <2> SUFFICES ASSUME MInv PROVE SatpValid
    OBVIOUS
  <2>1. /\ current \in InUse /\ current \in Slots /\ satp = pt[current][<<>>]
        /\ Sound(pt[current], kstack[current], heap_break[current])
    BY DEF MInv, CurrentSound, InUse
  <2>2. Tree(pt[current]) /\ <<>> \in DOMAIN pt[current]
    BY <2>1 DEF Sound, Space
  <2>3. pt[current][<<>>] \in TableFrames(pt[current])
    BY <2>2, RootIsFrame
  <2>4. pt[current] # EmptyTable
    BY <2>2, EmptyGood
  <2>5. {satp, kstack[current]} \subseteq Frames[current]
    BY <2>1, <2>3 DEF Frames, Owned
  <2>6. Frames[current] \cap free = {}
    BY <2>1 DEF MInv, Partition
  <2> QED BY <2>1, <2>4, <2>5, <2>6 DEF SatpValid
<1> QED BY <1>1, MemoryInvariant, PTL
=============================================================================
