--------------------------- MODULE Library_proofs ---------------------------
(***************************************************************************)
(* Proofs about the library of user programs, for buffers of every size    *)
(* and content, formats of every length and every sequence of calls: the    *)
(* string functions and the shell's use of them (Strings), printf() and     *)
(* putint() (Printf), and the heap (Heap).                                  *)
(*                                                                         *)
(* A loop is a function of its turns.  That there is such a function, and  *)
(* what it is after k turns, is shown by induction on k, as the statement   *)
(* that the set of turns for which it fails has no least element.           *)
(***************************************************************************)
EXTENDS Strings, Printf, Heap, SetInduction, TLAPS, FiniteSetTheorems, SequenceTheorems

-----------------------------------------------------------------------------
(* Strings: the buffers.                                                   *)

\* The buffers hold bytes; behind src and behind ".elf" there is a NUL.
BuffersInv ==
    /\ mem \in [Addresses -> Bytes]
    /\ mem[elf - 1] = 0 /\ mem[END] = 0
    /\ \A a \in elf .. END - 1 : mem[a] = ELF

\* Sizes and addresses are numbers.
LEMMA Layout ==
    /\ DST \in Nat /\ DST > 0 /\ SRC \in Nat /\ SRC > 0 /\ SUFFIX \in Nat
    /\ dst = 0 /\ src = DST /\ elf = DST + SRC /\ END = DST + SRC + SUFFIX
    /\ elf \in Nat /\ END \in Nat /\ Addresses = 0 .. END
    /\ Bytes \subseteq Nat /\ 0 \in Bytes /\ SPACE \in Bytes /\ SPACE # 0
    /\ ELF \in Bytes /\ ELF # 0
BY BufferAssumption DEF dst, src, elf, END, Addresses

\* A program's stores keep them.
THEOREM BuffersInvariant == StringsSpec => []BuffersInv
<1>1. StringsInit => BuffersInv
  BY Layout DEF StringsInit, BuffersInv
<1>2. BuffersInv /\ [StringsNext]_mem => BuffersInv'
  <2> SUFFICES ASSUME BuffersInv, [StringsNext]_mem PROVE BuffersInv'
    OBVIOUS
  <2>1. CASE UNCHANGED mem
    BY <2>1 DEF BuffersInv
  <2>2. CASE StringsNext
    <3>1. PICK a \in 0 .. elf - 2, c \in Bytes : mem' = [mem EXCEPT ![a] = c]
      BY <2>2 DEF StringsNext
    <3> QED BY <3>1, Layout DEF BuffersInv
  <2> QED BY <2>1, <2>2
<1> QED BY <1>1, <1>2, PTL DEF StringsSpec

-----------------------------------------------------------------------------
(* Scans and strings.                                                      *)

\* A scan ends at the first hit.
LEMMA FirstHit ==
    ASSUME NEW S, S \subseteq Nat, NEW x \in S, \A y \in S : x <= y
    PROVE  Min(S) = x
<1>1. Min(S) \in S /\ Min(S) <= x
  BY LeastInSet
<1>2. x <= Min(S) /\ Min(S) \in Nat /\ x \in Nat
  BY <1>1
<1> QED BY <1>1, <1>2

\* m holds a string of n bytes at s.
StringAt(m, s, n) ==
    /\ n \in 0 .. END - s /\ m[s + n] = 0
    /\ \A j \in 0 .. n - 1 : m[s + j] # 0

\* The k bytes from s on.
Part(m, s, k) == [i \in 1 .. k |-> m[s + i - 1]]

\* Its length and its bytes.
LEMMA StringIs ==
    ASSUME NEW m, NEW s \in Addresses, NEW n, StringAt(m, s, n)
    PROVE  /\ Str(m, s) = Part(m, s, n)
           /\ Len(Str(m, s)) = n /\ n \in Nat
           /\ lz_length(m, s) = n
<1> DEFINE P(k) == m[s + k] = 0 /\ \A j \in 0 .. k - 1 : m[s + j] # 0
           c == CHOOSE k \in 0 .. END - s : P(k)
           L == {k \in 0 .. END - s : m[s + k] = 0}
<1>1. n \in 0 .. END - s /\ P(n) /\ n \in Nat /\ s \in Nat /\ END \in Nat
  BY Layout DEF StringAt
<1>2. c \in 0 .. END - s /\ P(c)
  <2> HIDE DEF P
  <2> QED BY <1>1
<1>3. c = n
  <2> HIDE DEF c
  <2> QED BY <1>1, <1>2
<1>4. Str(m, s) = [i \in 1 .. n |-> m[s + i - 1]]
  <2>1. Str(m, s) = [i \in 1 .. c |-> m[s + i - 1]]
    BY DEF Str
  <2> HIDE DEF c
  <2> QED BY <1>3, <2>1
<1>5. Len(Str(m, s)) = n
  <2> HIDE DEF P
  <2> QED BY <1>1, <1>4
<1>6. lz_length(m, s) = n
  <2>1. L \subseteq Nat /\ n \in L
    BY <1>1
  <2>2. \A y \in L : n <= y
    BY <1>1
  <2>3. Min(L) = n
    <3> HIDE DEF L
    <3> QED BY <2>1, <2>2, FirstHit
  <2> QED BY <2>3 DEF lz_length
<1> QED BY <1>1, <1>4, <1>5, <1>6 DEF Part

\* Where there is a NUL there is a string that ends there or before.
LEMMA StringUpTo ==
    ASSUME NEW m, NEW s \in Addresses, NEW e \in s .. END, m[e] = 0
    PROVE  \E n \in 0 .. e - s : StringAt(m, s, n)
<1> DEFINE L == {k \in 0 .. END - s : m[s + k] = 0}
           n == Min(L)
<1>1. s \in Nat /\ END \in Nat /\ e \in Nat /\ e - s \in 0 .. END - s /\ s + (e - s) = e
  BY Layout
<1>2. L \subseteq Nat /\ e - s \in L
  BY <1>1
<1>3. n \in L /\ \A y \in L : n <= y
  <2> HIDE DEF L
  <2> QED BY <1>2, LeastInSet
<1> HIDE DEF n
<1>4. n <= e - s /\ n \in Nat
  BY <1>2, <1>3
<1>5. StringAt(m, s, n)
  BY <1>1, <1>3, <1>4 DEF StringAt
<1> QED BY <1>1, <1>4, <1>5

-----------------------------------------------------------------------------
(* The loop that copies.                                                   *)

CopyTurn(x, d, s, k) == [x EXCEPT ![d + k - 1] = x[s + k - 1]]

\* The loop as the sequence of its turns.
LEMMA CopyLoop ==
    ASSUME NEW m, NEW d, NEW s \in Addresses
    PROVE  /\ CopyTurns(m, d, s)[0] = m
           /\ \A k \in 1 .. END - s :
                 CopyTurns(m, d, s)[k] = CopyTurn(CopyTurns(m, d, s)[k - 1], d, s, k)
<1> DEFINE Is(f, N) == f = [k \in 0 .. N |-> IF k = 0 THEN m ELSE CopyTurn(f[k - 1], d, s, k)]
           S == {N \in Nat : ~ \E f : Is(f, N)}
           R == END - s
<1>1. ASSUME NEW N \in S PROVE \E k \in S : k < N
  <2>1. N # 0
    <3> DEFINE f == [k \in 0 .. 0 |-> m]
    <3>1. Is(f, 0)
      BY Z3
    <3> HIDE DEF f, Is
    <3> QED BY <3>1
  <2>2. CASE \E f : Is(f, N - 1)
    <3>1. PICK f : Is(f, N - 1)
      BY <2>2
    <3> DEFINE final == CopyTurn(f[N - 1], d, s, N)
    <3> HIDE DEF final
    <3> DEFINE g == [k \in 0 .. N |-> IF k < N THEN f[k] ELSE final]
    <3>2. ASSUME NEW k \in 0 .. N
          PROVE  g[k] = IF k = 0 THEN m ELSE CopyTurn(g[k - 1], d, s, k)
      <4>1. CASE k < N
        <5>1. k \in 0 .. N - 1 /\ g[k] = f[k] /\ (k # 0 => g[k - 1] = f[k - 1])
          BY <4>1, <2>1
        <5>2. f[k] = IF k = 0 THEN m ELSE CopyTurn(f[k - 1], d, s, k)
          BY <3>1, <5>1
        <5> HIDE DEF g, Is
        <5> QED BY <5>1, <5>2
      <4>2. CASE k = N
        <5>1. g[k] = final /\ g[k - 1] = f[k - 1]
          BY <4>2, <2>1
        <5> HIDE DEF g, Is
        <5> QED BY <5>1, <4>2, <2>1 DEF final
      <4> QED BY <4>1, <4>2
    <3>3. Is(g, N)
      <4>1. g = [k \in 0 .. N |-> g[k]]
        OBVIOUS
      <4> HIDE DEF g
      <4> QED BY <3>2, <4>1
    <3> HIDE DEF g, Is
    <3> QED BY <3>3
  <2>3. CASE ~ \E f : Is(f, N - 1)
    <3>1. N - 1 \in Nat /\ N - 1 < N
      BY <2>1
    <3> HIDE DEF Is
    <3> QED BY <3>1, <2>3
  <2> QED BY <2>2, <2>3
<1>2. S = {}
  <2>1. S \subseteq Nat
    OBVIOUS
  <2> HIDE DEF S
  <2> QED BY <1>1, <2>1, NoLeast
<1>3. R \in Nat
  BY Layout
<1>4. \E f : Is(f, R)
  <2> HIDE DEF Is, R
  <2> QED BY <1>2, <1>3
<1> DEFINE F == CHOOSE f : Is(f, R)
<1>5. Is(F, R)
  <2> HIDE DEF Is, R
  <2> QED BY <1>4, Zenon
<1>6. CopyTurns(m, d, s) = F
  BY DEF CopyTurns, CopyTurn
<1> HIDE DEF F
<1>7. F[0] = m
  BY <1>5, <1>3
<1>8. \A k \in 1 .. R : F[k] = CopyTurn(F[k - 1], d, s, k)
  BY <1>5, <1>3
<1> HIDE DEF Is
<1> QED BY <1>6, <1>7, <1>8

\* Memory m with the first k bytes at s copied to d.
CopyOf(m, d, s, k) ==
    [a \in Addresses |-> IF a \in d .. d + k - 1 THEN m[s + (a - d)] ELSE m[a]]

\* As long as the copy does not reach the source, k turns copy k bytes.
LEMMA CopyTurnsCopy ==
    ASSUME NEW m \in [Addresses -> Bytes],
           NEW d \in Nat, NEW s \in Addresses,
           NEW K \in Nat, K <= END - s, d + K <= s
    PROVE  \A k \in 0 .. K : CopyTurns(m, d, s)[k] = CopyOf(m, d, s, k)
<1> DEFINE c == CopyTurns(m, d, s)
           S == {k \in 0 .. K : c[k] # CopyOf(m, d, s, k)}
<1>a. s \in Nat /\ END \in Nat /\ Addresses = 0 .. END /\ s <= END
  BY Layout
<1>b. c[0] = m /\ \A k \in 1 .. END - s : c[k] = CopyTurn(c[k - 1], d, s, k)
  BY CopyLoop
<1> HIDE DEF c
<1>0. /\ s \in Nat /\ END \in Nat /\ Addresses = 0 .. END /\ s <= END
      /\ c[0] = m /\ \A k \in 1 .. END - s : c[k] = CopyTurn(c[k - 1], d, s, k)
  BY <1>a, <1>b
<1>1. ASSUME NEW k \in S PROVE \E j \in S : j < k
  <2> SUFFICES ASSUME ~ \E j \in S : j < k PROVE FALSE
    OBVIOUS
  <2>1. k # 0
    <3>1. CopyOf(m, d, s, 0) = m
      <4>1. ASSUME NEW a \in Addresses
            PROVE (IF a \in d .. d + 0 - 1 THEN m[s + (a - d)] ELSE m[a]) = m[a]
        BY <1>0
      <4> QED BY <4>1 DEF CopyOf
    <3> QED BY <1>0, <3>1
  <2>2. k \in 1 .. END - s /\ k - 1 \in 0 .. K /\ k - 1 < k
    BY <1>0, <2>1
  <2>3. c[k - 1] = CopyOf(m, d, s, k - 1)
    BY <2>2
  <2> DEFINE x == CopyOf(m, d, s, k - 1)
  <2>4. c[k] = [x EXCEPT ![d + k - 1] = x[s + k - 1]]
    BY <1>0, <2>2, <2>3 DEF CopyTurn
  <2>5. x[s + k - 1] = m[s + k - 1]
    BY <1>0, <2>2 DEF CopyOf
  <2>6. [x EXCEPT ![d + k - 1] = m[s + k - 1]] = CopyOf(m, d, s, k)
    <3>1. DOMAIN x = Addresses
      BY DEF CopyOf
    <3>2. ASSUME NEW a \in Addresses
          PROVE  (IF a = d + k - 1 THEN m[s + k - 1] ELSE x[a])
                   = IF a \in d .. d + k - 1 THEN m[s + (a - d)] ELSE m[a]
      <4>1. a \in Nat
        BY <1>0
      <4>2. CASE a = d + k - 1
        <5>1. a \in d .. d + k - 1 /\ s + (a - d) = s + k - 1
          BY <2>2, <4>2, <4>1, <1>0
        <5> QED BY <4>2, <5>1
      <4>3. CASE a # d + k - 1
        <5>1. a \in d .. d + k - 1 <=> a \in d .. d + (k - 1) - 1
          BY <2>2, <4>3, <4>1
        <5> QED BY <4>3, <5>1 DEF CopyOf
      <4> QED BY <4>2, <4>3
    <3> QED BY <3>1, <3>2 DEF CopyOf
  <2> QED BY <2>4, <2>5, <2>6
<1>2. S = {}
  <2>1. S \subseteq Nat
    OBVIOUS
  <2> HIDE DEF S
  <2> QED BY <1>1, <2>1, NoLeast
<1> QED BY <1>2 DEF c

\* How many bytes a copy of at most L bytes of a string of n takes.
Upto(n, L) == IF L < 0 THEN 0 ELSE IF L < n THEN L ELSE n

\* and there it ends.
LEMMA CopyEnds ==
    ASSUME NEW m \in [Addresses -> Bytes],
           NEW d \in Nat, NEW s \in Addresses, NEW n, StringAt(m, s, n),
           NEW L \in Int, d + Upto(n, L) <= s
    PROVE  /\ CopyEnd(m, d, s, L) = Upto(n, L)
           /\ CopyTurns(m, d, s)[Upto(n, L)] = CopyOf(m, d, s, Upto(n, L))
<1> DEFINE K == Upto(n, L)
           c == CopyTurns(m, d, s)
           E == {k \in 0 .. END - s : L <= k \/ c[k][s + k] = 0}
<1>c. s \in Nat /\ END \in Nat /\ Addresses = 0 .. END
  BY Layout
<1>a. /\ n \in Nat /\ n <= END - s /\ s \in Nat /\ END \in Nat
      /\ m[s + n] = 0 /\ \A j \in 0 .. n - 1 : m[s + j] # 0
      /\ Addresses = 0 .. END
  BY <1>c DEF StringAt
<1>b.
 K \in Nat /\ K <= n /\ (L <= K \/ K = n) /\ \A k \in 0 .. K - 1 : ~(L <= k)
  BY <1>a DEF Upto
<1>1. /\ n \in Nat /\ n <= END - s /\ s \in Nat /\ END \in Nat /\ K \in Nat /\ K <= n
      /\ m[s + n] = 0 /\ \A j \in 0 .. n - 1 : m[s + j] # 0
      /\ (L <= K \/ K = n) /\ \A k \in 0 .. K - 1 : ~(L <= k)
      /\ Addresses = 0 .. END
  BY <1>a, <1>b
<1>2. d + K <= s
  OBVIOUS
<1> HIDE DEF K
<1>3. \A k \in 0 .. K : c[k] = CopyOf(m, d, s, k)
  <2>1. K \in Nat /\ K <= END - s
    BY <1>a, <1>b
  <2> QED BY <2>1, <1>2, CopyTurnsCopy

<1>4. ASSUME NEW k \in 0 .. K PROVE c[k][s + k] = m[s + k]
  <2>1. s + k \in Addresses /\ s + k \notin d .. d + k - 1
    BY <1>1, <1>2
  <2>2. c[k] = CopyOf(m, d, s, k)
    BY <1>3
  <2> QED BY <2>1, <2>2 DEF CopyOf
<1> HIDE DEF c
<1>5. K \in E
  BY <1>1, <1>4
<1>6. ASSUME NEW y \in E PROVE K <= y
  <2> SUFFICES ASSUME ~(K <= y) PROVE FALSE
    OBVIOUS
  <2>1. y \in 0 .. K - 1 /\ y \in 0 .. K /\ y \in 0 .. n - 1
    BY <1>1
  <2>2. c[y][s + y] # 0 /\ ~(L <= y)
    BY <1>1, <1>4, <2>1
  <2> QED BY <2>2
<1>7. E \subseteq Nat
  BY <1>1
<1>8. Min(E) = K
  <2> HIDE DEF E
  <2> QED BY <1>5, <1>6, <1>7, FirstHit
<1> QED BY <1>1, <1>3, <1>8 DEF CopyEnd, K, c

\* Memory m with a string of k bytes at d, the first k at s.
StringCopy(m, d, s, k) ==
    [a \in Addresses |-> IF a \in d .. d + k - 1 THEN m[s + (a - d)]
                         ELSE IF a = d + k THEN 0 ELSE m[a]]

\* A copy of a string below the source is what it should be.
LEMMA CopyUpToEffect ==
    ASSUME NEW m \in [Addresses -> Bytes],
           NEW d \in Nat, NEW s \in Addresses, NEW n, StringAt(m, s, n),
           NEW L \in Int, d + Upto(n, L) <= s
    PROVE  CopyUpTo(m, d, s, L) = StringCopy(m, d, s, Upto(n, L))
<1> DEFINE K == Upto(n, L)
           x == CopyOf(m, d, s, K)
<1>1. CopyUpTo(m, d, s, L) = [x EXCEPT ![d + K] = 0]
  <2>1. CopyEnd(m, d, s, L) = K /\ CopyTurns(m, d, s)[K] = x
    BY CopyEnds
  <2> HIDE DEF K, x
  <2> QED BY <2>1 DEF CopyUpTo
<1>2. K \in Nat

  BY DEF Upto, StringAt
<1>3. ASSUME NEW a \in Addresses
      PROVE (IF a = d + K THEN 0 ELSE x[a]) = StringCopy(m, d, s, K)[a]
  <2>1. a \in Nat
    BY Layout
  <2> HIDE DEF K
  <2> QED BY <1>2, <2>1 DEF CopyOf, StringCopy
<1>4. DOMAIN x = Addresses
  BY DEF CopyOf
<1> QED BY <1>1, <1>3, <1>4 DEF StringCopy

\* A sequence that has the elements of s and then those of t is s \o t.
LEMMA Joined ==
    ASSUME NEW T, NEW s \in Seq(T), NEW t \in Seq(T), NEW u \in Seq(T),
           Len(u) = Len(s) + Len(t),
           \A i \in 1 .. Len(s) : u[i] = s[i],
           \A i \in 1 .. Len(t) : u[Len(s) + i] = t[i]
    PROVE  u = s \o t
<1>1. s \o t \in Seq(T) /\ Len(s \o t) = Len(u)
  BY ConcatProperties
<1>2. ASSUME NEW i \in 1 .. Len(u) PROVE u[i] = (s \o t)[i]
  <2>1. (s \o t)[i] = IF i <= Len(s) THEN s[i] ELSE t[i - Len(s)]
    BY ConcatProperties
  <2>2. Len(s) \in Nat /\ Len(t) \in Nat /\ Len(u) \in Nat
    OBVIOUS
  <2>3. CASE i <= Len(s)
    <3>1. i \in 1 .. Len(s)
      BY <2>2, <2>3
    <3> QED BY <2>1, <3>1
  <2>4. CASE ~(i <= Len(s))
    <3>1. i - Len(s) \in 1 .. Len(t) /\ Len(s) + (i - Len(s)) = i
      BY <2>2, <2>4
    <3> QED BY <2>1, <2>4, <3>1
  <2> QED BY <2>3, <2>4
<1> QED BY <1>1, <1>2, SeqEqual

\* What was at p and ran up to d now goes on with the bytes copied.

LEMMA JoinedString ==
    ASSUME NEW m \in [Addresses -> Bytes], NEW d \in Nat, NEW s \in Addresses,
           NEW n, StringAt(m, s, n), NEW k \in 0 .. n, d + k <= s,
           NEW p \in 0 .. d, \A a \in p .. d - 1 : m[a] # 0
    PROVE  LET x == StringCopy(m, d, s, k) IN
           /\ x \in [Addresses -> Bytes]
           /\ StringAt(x, p, (d - p) + k)
           /\ Str(x, p) = Part(m, p, d - p) \o Part(m, s, k)
<1> DEFINE x == StringCopy(m, d, s, k)
           A == [i \in 1 .. d - p |-> m[p + i - 1]]
           B == [i \in 1 .. k |-> m[s + i - 1]]
           l == (d - p) + k
<1>1. /\ s \in Nat /\ END \in Nat /\ Addresses = 0 .. END /\ s <= END /\ p \in Nat /\ p <= d
      /\ Bytes \subseteq Nat /\ 0 \in Bytes
  BY Layout
<1>2. n \in Nat /\ n <= END - s /\ k \in Nat /\ k <= n /\ \A j \in 0 .. n - 1 : m[s + j] # 0
  BY <1>1 DEF StringAt
<1>3. \A a \in Addresses : a \in d .. d + k - 1 => s + (a - d) \in Addresses
  BY <1>1, <1>2
<1>4. x \in [Addresses -> Bytes]
  BY <1>1, <1>3 DEF StringCopy
<1>5. ASSUME NEW j \in 0 .. l - 1
      PROVE  /\ j < d - p => x[p + j] = m[p + j]
             /\ j >= d - p => x[p + j] = m[s + (j - (d - p))]
             /\ x[p + j] # 0
  <2>1. p + j \in Addresses /\ j \in Nat
    BY <1>1, <1>2
  <2>2. CASE j < d - p
    <3>1. p + j \notin d .. d + k - 1 /\ p + j # d + k /\ p + j \in p .. d - 1
      BY <1>1, <1>2, <2>1, <2>2
    <3> QED BY <2>1, <2>2, <3>1 DEF StringCopy
  <2>3. CASE j >= d - p
    <3>1. p + j \in d .. d + k - 1 /\ s + ((p + j) - d) = s + (j - (d - p))
          /\ j - (d - p) \in 0 .. n - 1 /\ ~(j < d - p)
      BY <1>1, <1>2, <2>1, <2>3
    <3> QED BY <1>2, <2>1, <2>3, <3>1 DEF StringCopy
  <2> QED BY <1>1, <2>1, <2>2, <2>3
<1>6. StringAt(x, p, l)
  <2>1. l \in 0 .. END - p /\ p + l = d + k /\ d + k \in Addresses
    BY <1>1, <1>2
  <2>2. x[p + l] = 0
    BY <1>1, <1>2, <2>1 DEF StringCopy
  <2> HIDE DEF x
  <2> QED BY <1>5, <2>1, <2>2 DEF StringAt
<1>7. p \in Addresses
  BY <1>1, <1>2
<1>8. Str(x, p) = [i \in 1 .. l |-> x[p + i - 1]]
  <2>1. Str(x, p) = Part(x, p, l)
    <3> HIDE DEF x, l
    <3> QED BY <1>6, <1>7, StringIs
  <2> QED BY <2>1 DEF Part
<1>9. A \in Seq(Bytes) /\ B \in Seq(Bytes) /\ Len(A) = d - p /\ Len(B) = k
  <2>1. \A i \in 1 .. d - p : p + i - 1 \in Addresses
    BY <1>1, <1>2
  <2>2. \A i \in 1 .. k : s + i - 1 \in Addresses
    BY <1>1, <1>2
  <2>3. d - p \in Nat
    BY <1>1
  <2> QED BY <1>2, <2>1, <2>2, <2>3
<1> DEFINE u == [i \in 1 .. l |-> x[p + i - 1]]
<1>10. u = A \o B
  <2>1. u \in Seq(Bytes) /\ Len(u) = l /\ l \in Nat
    <3>1. \A i \in 1 .. l : p + i - 1 \in Addresses
      BY <1>1, <1>2
    <3>2. l \in Nat
      BY <1>1, <1>2
    <3> HIDE DEF x, l
    <3> QED BY <1>4, <3>1, <3>2
  <2>2. ASSUME NEW i \in 1 .. d - p PROVE u[i] = A[i]
    <3>1. i \in 1 .. l /\ i - 1 \in 0 .. l - 1 /\ p + (i - 1) = p + i - 1 /\ i - 1 < d - p
      BY <1>1, <1>2
    <3>2. x[p + (i - 1)] = m[p + (i - 1)]
      BY <1>5, <3>1
    <3> HIDE DEF x, l
    <3> QED BY <3>1, <3>2
  <2>3. ASSUME NEW i \in 1 .. k PROVE u[(d - p) + i] = B[i]
    <3> DEFINE j == (d - p) + i
    <3>1. /\ j \in 1 .. l /\ j - 1 \in 0 .. l - 1 /\ j - 1 >= d - p
          /\ p + (j - 1) = p + j - 1 /\ s + ((j - 1) - (d - p)) = s + i - 1
      BY <1>1, <1>2
    <3>2. x[p + (j - 1)] = m[s + ((j - 1) - (d - p))]
      BY <1>5, <3>1
    <3>3. u[j] = x[p + j - 1] /\ B[i] = m[s + i - 1]
      BY <3>1
    <3> HIDE DEF x, l, j, u, B
    <3> QED BY <3>1, <3>2, <3>3 DEF j
  <2>4. l = Len(A) + Len(B)
    BY <1>9
  <2> HIDE DEF A, B, l, u
  <2>5. /\ Len(u) = Len(A) + Len(B)
        /\ \A i \in 1 .. Len(A) : u[i] = A[i]
        /\ \A i \in 1 .. Len(B) : u[Len(A) + i] = B[i]
    BY <1>9, <2>1, <2>2, <2>3, <2>4
  <2> QED BY <1>9, <2>1, <2>5, Joined

<1> QED BY <1>4, <1>6, <1>8, <1>10 DEF Part

\* src holds a string.
LEMMA SourceString ==
    ASSUME BuffersInv
    PROVE  \E n \in 0 .. SRC - 1 : StringAt(mem, src, n)
<1>1. src \in Addresses /\ elf - 1 \in src .. END /\ (elf - 1) - src = SRC - 1
  BY Layout
<1>2. mem[elf - 1] = 0
  BY DEF BuffersInv
<1> QED BY <1>1, <1>2, StringUpTo

\* dst holds one if it is terminated.
LEMMA DestString ==
    ASSUME BuffersInv, Terminated(dst, DST)
    PROVE  \E n \in 0 .. DST - 1 : StringAt(mem, dst, n)
<1>1. PICK e \in dst .. dst + DST - 1 : mem[e] = 0
  BY DEF Terminated
<1>2. dst \in Addresses /\ e \in dst .. END /\ 0 .. e - dst \subseteq 0 .. DST - 1
  BY Layout
<1> QED BY <1>1, <1>2, StringUpTo

\* m is o with the k bytes at s copied to d, where they end the string at dst.
CopiedTo(m, o, d, s, k) ==
    /\ m \in [Addresses -> Bytes] /\ StringAt(m, dst, d + k)
    /\ Str(m, dst) = Part(o, dst, d) \o Part(o, s, k)
    /\ \A a \in Addresses : a \notin d .. d + k => m[a] = o[a]

\* Copying to d a string that fits there, for whatever reason the copy ends.
LEMMA CopyInPlace ==
    ASSUME NEW o \in [Addresses -> Bytes], NEW s \in Addresses, DST <= s,
           NEW n, StringAt(o, s, n),
           NEW d \in 0 .. DST - 1, NEW L \in Int, d + Upto(n, L) < DST,
           \A a \in 0 .. d - 1 : o[a] # 0
    PROVE  Upto(n, L) \in 0 .. n /\ CopiedTo(CopyUpTo(o, d, s, L), o, d, s, Upto(n, L))
<1> DEFINE m == CopyUpTo(o, d, s, L)
           k == Upto(n, L)
<1>1. dst = 0 /\ DST \in Nat /\ d \in Nat /\ n \in Nat /\ s \in Nat /\ Addresses \subseteq Nat
  BY Layout DEF StringAt
<1>2. k \in 0 .. n /\ d + k <= s
  BY <1>1 DEF Upto
<1>3. m = StringCopy(o, d, s, k)
  BY <1>1, <1>2, CopyUpToEffect
<1> HIDE DEF k
<1>4. /\ m \in [Addresses -> Bytes] /\ StringAt(m, dst, (d - dst) + k)
      /\ Str(m, dst) = Part(o, dst, d - dst) \o Part(o, s, k)
  <2> DEFINE x == StringCopy(o, d, s, k)
  <2>1. dst \in 0 .. d /\ \A a \in dst .. d - 1 : o[a] # 0
    BY <1>1
  <2>2. /\ x \in [Addresses -> Bytes] /\ StringAt(x, dst, (d - dst) + k)
        /\ Str(x, dst) = Part(o, dst, d - dst) \o Part(o, s, k)
    <3>1. /\ o \in [Addresses -> Bytes] /\ d \in Nat /\ s \in Addresses
          /\ StringAt(o, s, n) /\ k \in 0 .. n /\ d + k <= s
      BY <1>1, <1>2
    <3> HIDE DEF m
    <3> QED BY ONLY <2>1, <3>1, JoinedString, ZenonT(30)
  <2> HIDE DEF x, m
  <2> QED BY <1>3, <2>2 DEF x
<1>5. d - dst = d /\ (d - dst) + k = d + k
  BY <1>1, <1>2
<1>6. ASSUME NEW a \in Addresses, a \notin d .. d + k PROVE m[a] = o[a]
  <2>1. a \notin d .. d + k - 1 /\ a # d + k
    BY <1>1, <1>2, <1>6
  <2> HIDE DEF m
  <2> QED BY <1>3, <2>1 DEF StringCopy
<1> HIDE DEF m
<1>7. StringAt(m, dst, d + k) /\ Str(m, dst) = Part(o, dst, d) \o Part(o, s, k)
  BY <1>4, <1>5
<1> QED BY <1>2, <1>4, <1>6, <1>7 DEF m, k, CopiedTo

\* The same without a limit: lz_copy().
LEMMA CopyWhole ==
    ASSUME NEW o \in [Addresses -> Bytes], NEW s \in Addresses, DST <= s,
           NEW n, StringAt(o, s, n), NEW d \in 0 .. DST - 1, d + n < DST,
           \A a \in 0 .. d - 1 : o[a] # 0
    PROVE  CopiedTo(lz_copy(o, d, s), o, d, s, n)
<1>1. Upto(n, END + 1) = n /\ END + 1 \in Int
  BY Layout DEF Upto, StringAt
<1>2. d + Upto(n, END + 1) < DST
  BY <1>1
<1>3. CopiedTo(CopyUpTo(o, d, s, END + 1), o, d, s, Upto(n, END + 1))
  <2> HIDE DEF END
  <2> DEFINE L == END + 1
  <2>1. L \in Int /\ d + Upto(n, L) < DST
    BY <1>1, <1>2
  <2> HIDE DEF L
  <2>2. CopiedTo(CopyUpTo(o, d, s, L), o, d, s, Upto(n, L))
    BY <2>1, CopyInPlace
  <2> QED BY <2>2 DEF L
<1> QED BY <1>1, <1>3 DEF lz_copy

\* The bytes of a part.
LEMMA PartFacts ==
    ASSUME NEW o \in [Addresses -> Bytes], NEW s \in Nat, NEW n \in Nat, s + n <= END + 1
    PROVE  /\ Part(o, s, n) \in Seq(Bytes) /\ Len(Part(o, s, n)) = n
           /\ \A i \in 1 .. n : Part(o, s, n)[i] = o[s + i - 1] /\ s + i - 1 \in Addresses
           /\ \A k \in 0 .. n : SubSeq(Part(o, s, n), 1, k) = Part(o, s, k)
<1>1. \A i \in 1 .. n : s + i - 1 \in Addresses
  BY Layout
<1>2. Part(o, s, n) \in Seq(Bytes) /\ Len(Part(o, s, n)) = n
  BY <1>1 DEF Part
<1>3. \A i \in 1 .. n : Part(o, s, n)[i] = o[s + i - 1]
  BY DEF Part
<1>4. ASSUME NEW k \in 0 .. n PROVE SubSeq(Part(o, s, n), 1, k) = Part(o, s, k)
  <2>1. \A i \in 1 .. k : i \in 1 .. n
    OBVIOUS
  <2> DEFINE q == Part(o, s, n)
  <2>2. SubSeq(q, 1, k) = [i \in 1 .. k |-> q[i]]
    <3> HIDE DEF q
    <3> QED BY <1>2 DEF q
  <2>3. \A i \in 1 .. k : q[i] = o[s + i - 1]
    BY <1>3, <2>1
  <2> HIDE DEF q
  <2> QED BY <2>2, <2>3 DEF Part
<1> QED BY <1>1, <1>2, <1>3, <1>4

\* lz_copy() and lz_ncopy() are exact.
LEMMA CopyIsExact == BuffersInv => CopyExact
<1> SUFFICES ASSUME BuffersInv PROVE CopyExact
  OBVIOUS
<1>1. PICK n \in 0 .. SRC - 1 : StringAt(mem, src, n)
  BY SourceString
<1>2. /\ src \in Addresses /\ src = DST /\ dst = 0 /\ DST \in Nat /\ DST > 0 /\ SRC \in Nat
      /\ END \in Nat /\ END > DST /\ END + 1 > n /\ n \in Nat
      /\ mem \in [Addresses -> Bytes] /\ Addresses = 0 .. END
  BY Layout DEF BuffersInv
<1>3. Len(SrcStr) = n /\ SrcStr = Part(mem, src, n)
  BY <1>1, <1>2, StringIs DEF SrcStr
<1>4. ASSUME n < DST
      PROVE  LET m == lz_copy(mem, dst, src)
             IN Str(m, dst) = SrcStr /\ OnlyWrites(m, dst, n + 1)
  <2> DEFINE m == lz_copy(mem, dst, src)
  <2>1. dst \in 0 .. DST - 1 /\ dst + n < DST /\ DST <= src /\ \A a \in 0 .. dst - 1 : mem[a] # 0
    BY <1>2, <1>4
  <2>2. /\ Str(m, dst) = Part(mem, dst, dst) \o Part(mem, src, n)
        /\ \A a \in Addresses : a \notin dst .. dst + n => m[a] = mem[a]
    <3>1. CopiedTo(m, mem, dst, src, n)
      BY <1>1, <1>2, <2>1, CopyWhole
    <3> HIDE DEF m
    <3> QED BY <3>1 DEF CopiedTo
  <2> HIDE DEF m
  <2>3. Part(mem, dst, dst) = << >>
    BY <1>2 DEF Part
  <2>4. src \in Nat /\ src + n <= END + 1
    BY <1>1, <1>2 DEF StringAt
  <2>5. SrcStr \in Seq(Bytes)
    BY <1>2, <1>3, <2>4, PartFacts
  <2>6. << >> \o SrcStr = SrcStr
    BY <2>5, ConcatEmptySeq
  <2>7. OnlyWrites(m, dst, n + 1)
    <3>1. dst + (n + 1) - 1 = dst + n
      BY <1>2
    <3> QED BY <2>2, <3>1 DEF OnlyWrites
  <2> QED BY <1>3, <2>2, <2>3, <2>6, <2>7 DEF m
<1>5. ASSUME NEW l \in 0 .. DST
      PROVE  LET m == lz_ncopy(mem, dst, src, l)
             IN /\ \A i \in 1 .. l : m[dst + i - 1] = IF i <= n THEN SrcStr[i] ELSE 0
                /\ OnlyWrites(m, dst, l)
  <2> DEFINE m == lz_ncopy(mem, dst, src, l)
             k == Upto(n, l)
  <2>1. dst \in Nat /\ l \in Int /\ dst + Upto(n, l) <= src
    BY <1>2 DEF Upto
  <2>2. CopyEnd(mem, dst, src, l) = k /\ CopyTurns(mem, dst, src)[k] = CopyOf(mem, dst, src, k)
    BY <1>1, <1>2, <2>1, CopyEnds
  <2>3. k \in 0 .. l /\ k <= n /\ (k = n \/ k = l)
    BY <1>2 DEF Upto
  <2> HIDE DEF k
  <2>4. m = [a \in Addresses |-> IF a \in dst + k .. dst + l - 1 THEN 0
                                 ELSE CopyOf(mem, dst, src, k)[a]]
    BY <1>2, <2>2 DEF lz_ncopy
  <2> HIDE DEF m
  <2>5. ASSUME NEW i \in 1 .. l PROVE m[dst + i - 1] = IF i <= n THEN SrcStr[i] ELSE 0
    <3>1. dst + i - 1 \in Addresses /\ dst + i - 1 = i - 1 /\ i - 1 \in Addresses
      BY <1>2
    <3>2. CASE i <= k
      <4>1. i - 1 \in dst .. dst + k - 1 /\ i - 1 \notin dst + k .. dst + l - 1
            /\ src + (i - 1 - dst) = src + i - 1 /\ i \in 1 .. n /\ i <= n
        BY <1>2, <2>3, <3>2
      <4>2. CopyOf(mem, dst, src, k)[i - 1] = mem[src + i - 1]
        BY <3>1, <4>1 DEF CopyOf
      <4> QED BY <1>3, <2>4, <3>1, <4>1, <4>2 DEF Part
    <3>3. CASE ~(i <= k)
      <4>1. i - 1 \in dst + k .. dst + l - 1 /\ ~(i <= n)
        BY <1>2, <2>3, <3>3
      <4> QED BY <2>4, <3>1, <4>1
    <3> QED BY <3>2, <3>3
  <2>6. OnlyWrites(m, dst, l)
    <3> SUFFICES ASSUME NEW a \in Addresses \ (dst .. dst + l - 1) PROVE m[a] = mem[a]
      BY DEF OnlyWrites
    <3>1. a \notin dst + k .. dst + l - 1 /\ a \notin dst .. dst + k - 1
      BY <1>2, <2>3
    <3> QED BY <2>4, <3>1 DEF CopyOf
  <2> QED BY <2>5, <2>6 DEF m
<1> QED BY <1>3, <1>4, <1>5 DEF CopyExact

\* lz_concat() and lz_nconcat() are exact.
LEMMA ConcatIsExact == BuffersInv => ConcatExact
<1> SUFFICES ASSUME BuffersInv, Terminated(dst, DST)
             PROVE  /\ Len(DstStr) + Len(SrcStr) < DST =>
                         LET m == lz_concat(mem, dst, src)
                         IN /\ Str(m, dst) = DstStr \o SrcStr
                            /\ OnlyWrites(m, dst, Len(DstStr) + Len(SrcStr) + 1)
                    /\ \A l \in 0 .. DST - 1 :
                         LET m == lz_nconcat(mem, dst, src, l)
                         IN /\ Str(m, dst) = DstStr \o Prefix(SrcStr, IF l > Len(DstStr) THEN l - Len(DstStr) ELSE 0)
                            /\ OnlyWrites(m, dst, DST)
  BY DEF ConcatExact
<1>1. PICK n \in 0 .. SRC - 1 : StringAt(mem, src, n)
  BY SourceString
<1>2. PICK d \in 0 .. DST - 1 : StringAt(mem, dst, d)
  BY DestString
<1>3. /\ src \in Addresses /\ dst \in Addresses /\ src = DST /\ dst = 0 /\ DST \in Nat /\ DST > 0
      /\ SRC \in Nat /\ END \in Nat /\ n \in Nat /\ d \in Nat /\ DST <= src
      /\ mem \in [Addresses -> Bytes] /\ Addresses = 0 .. END
  BY Layout DEF BuffersInv
<1>4. /\ Len(SrcStr) = n /\ SrcStr = Part(mem, src, n)
      /\ Len(DstStr) = d /\ DstStr = Part(mem, dst, d) /\ lz_length(mem, dst) = d
  BY <1>1, <1>2, <1>3, StringIs DEF SrcStr, DstStr
<1>5. \A a \in 0 .. d - 1 : mem[a] # 0
  BY <1>2, <1>3 DEF StringAt
<1>6. ASSUME d + n < DST
      PROVE  LET m == lz_concat(mem, dst, src)
             IN Str(m, dst) = DstStr \o SrcStr /\ OnlyWrites(m, dst, d + n + 1)
  <2> DEFINE m == lz_concat(mem, dst, src)
  <2>1. m = lz_copy(mem, d, src)
    <3>1. dst + d = d
      BY <1>3
    <3> QED BY <1>4, <3>1 DEF lz_concat
  <2> HIDE DEF m
  <2>2. /\ Str(m, dst) = Part(mem, dst, d) \o Part(mem, src, n)
        /\ \A a \in Addresses : a \notin d .. d + n => m[a] = mem[a]
    <3>1. CopiedTo(lz_copy(mem, d, src), mem, d, src, n)
      BY <1>1, <1>3, <1>5, <1>6, CopyWhole
    <3> QED BY <2>1, <3>1 DEF CopiedTo
  <2>3. OnlyWrites(m, dst, d + n + 1)
    <3>1. \A a \in Addresses : a \notin dst .. dst + (d + n + 1) - 1 => a \notin d .. d + n
      BY <1>3
    <3> QED BY <2>2, <3>1 DEF OnlyWrites
  <2> QED BY <1>4, <2>2, <2>3 DEF m
<1>7. ASSUME NEW l \in 0 .. DST - 1
      PROVE  LET m == lz_nconcat(mem, dst, src, l)
             IN /\ Str(m, dst) = DstStr \o Prefix(SrcStr, IF l > d THEN l - d ELSE 0)
                /\ OnlyWrites(m, dst, DST)
  <2> DEFINE m == lz_nconcat(mem, dst, src, l)
             L == l - d
             k == Upto(n, L)
  <2>1. m = CopyUpTo(mem, d, src, L)
    <3>1. dst + d = d
      BY <1>3
    <3> QED BY <1>4, <3>1 DEF lz_nconcat
  <2>2. L \in Int /\ d + Upto(n, L) < DST
    BY <1>3 DEF Upto
  <2>3. k = IF (IF l > d THEN l - d ELSE 0) < n THEN (IF l > d THEN l - d ELSE 0) ELSE n
    BY <1>3 DEF Upto
  <2> HIDE DEF m, L
  <2>4. /\ k \in 0 .. n
        /\ Str(m, dst) = Part(mem, dst, d) \o Part(mem, src, k)
        /\ \A a \in Addresses : a \notin d .. d + k => m[a] = mem[a]
    <3>1. k \in 0 .. n /\ CopiedTo(CopyUpTo(mem, d, src, L), mem, d, src, k)
      BY <1>1, <1>3, <1>5, <2>2, CopyInPlace
    <3> HIDE DEF k
    <3> QED BY <2>1, <3>1 DEF CopiedTo
  <2>5. d + k < DST
    BY <2>2
  <2> HIDE DEF k
  <2>6. Prefix(SrcStr, IF l > d THEN l - d ELSE 0) = Part(mem, src, k)
    <3>1. src \in Nat /\ src + n <= END + 1
      BY <1>1, <1>3 DEF StringAt
    <3>2. SubSeq(Part(mem, src, n), 1, k) = Part(mem, src, k)
      BY <1>3, <2>4, <3>1, PartFacts
    <3> QED BY <1>4, <2>3, <3>2 DEF Prefix
  <2>7. OnlyWrites(m, dst, DST)
    <3>1. \A a \in Addresses : a \notin dst .. dst + DST - 1 => a \notin d .. d + k
      BY <1>3, <2>4, <2>5
    <3> QED BY <2>4, <3>1 DEF OnlyWrites
  <2> QED BY <1>4, <2>4, <2>6, <2>7 DEF m
<1> QED BY <1>4, <1>6, <1>7

\* The name of a program never overflows its buffer.
LEMMA NameIsExact == BuffersInv => NameNeverOverflows
<1> SUFFICES ASSUME BuffersInv PROVE NameNeverOverflows
  OBVIOUS
<1> DEFINE m == elf_name(mem, src)
           x == lz_copy(mem, dst, src)
<1>1. PICK n \in 0 .. SRC - 1 : StringAt(mem, src, n)
  BY SourceString
<1>2. /\ src \in Addresses /\ dst \in Addresses /\ elf \in Addresses /\ src = DST /\ dst = 0
      /\ DST \in Nat /\ DST > 0 /\ SRC \in Nat /\ SUFFIX \in Nat /\ elf \in Nat /\ END \in Nat
      /\ END = elf + SUFFIX /\ DST <= elf
      /\ n \in Nat /\ DST <= src /\ mem \in [Addresses -> Bytes] /\ Addresses = 0 .. END
      /\ ELF # 0
  BY Layout DEF BuffersInv
<1>3. Len(SrcStr) = n /\ SrcStr = Part(mem, src, n) /\ lz_length(mem, src) = n
  BY <1>1, <1>2, StringIs DEF SrcStr
<1>4. StringAt(mem, elf, SUFFIX)
  BY <1>2 DEF BuffersInv, StringAt
<1>5. Str(mem, elf) = Part(mem, elf, SUFFIX)
  BY <1>2, <1>4, StringIs
<1>6. CASE n > DST - (SUFFIX + 1)
  <2>1. m = mem
    BY <1>3, <1>6 DEF elf_name
  <2>2. ~(n + SUFFIX < DST)
    BY <1>2, <1>6
  <2> HIDE DEF m
  <2> QED BY <1>3, <2>1, <2>2 DEF NameNeverOverflows, OnlyWrites, m
<1>7. CASE ~(n > DST - (SUFFIX + 1))
  <2>1. n + SUFFIX < DST /\ dst \in 0 .. DST - 1 /\ dst + n < DST /\ \A a \in 0 .. dst - 1 : mem[a] # 0
    BY <1>2, <1>7
  <2>2. /\ x \in [Addresses -> Bytes] /\ StringAt(x, dst, dst + n)
        /\ Str(x, dst) = Part(mem, dst, dst) \o Part(mem, src, n)
        /\ \A a \in Addresses : a \notin dst .. dst + n => x[a] = mem[a]
    <3>1. CopiedTo(x, mem, dst, src, n)
      BY <1>1, <1>2, <2>1, CopyWhole
    <3> HIDE DEF x, m
    <3> QED BY <3>1 DEF CopiedTo
  <2>3. m = lz_concat(x, dst, elf)
    BY <1>3, <1>7 DEF elf_name
  <2> HIDE DEF x, m
  <2>4. dst + n = n /\ dst + lz_length(x, dst) = n /\ Str(x, dst) = Part(x, dst, n)
    <3>1. dst + n = n
      BY <1>2
    <3> QED BY <1>2, <2>2, <3>1, StringIs
  <2>5. \A a \in elf .. END : x[a] = mem[a]
    BY <1>2, <2>1, <2>2
  <2>6. StringAt(x, elf, SUFFIX)
    <3>1. \A j \in 0 .. SUFFIX : elf + j \in elf .. END
      BY <1>2
    <3>2. \A j \in 0 .. SUFFIX : x[elf + j] = mem[elf + j]
      BY <2>5, <3>1
    <3>3. SUFFIX \in 0 .. SUFFIX /\ \A j \in 0 .. SUFFIX - 1 : j \in 0 .. SUFFIX
      BY <1>2
    <3> QED BY <1>4, <3>2, <3>3 DEF StringAt
  <2>7. n \in 0 .. DST - 1 /\ n + SUFFIX < DST /\ \A a \in 0 .. n - 1 : x[a] # 0
    BY <1>2, <2>1, <2>2, <2>4 DEF StringAt
  <2>8. m = lz_copy(x, n, elf)
    BY <2>3, <2>4 DEF lz_concat
  <2>9. /\ Str(m, dst) = Part(x, dst, n) \o Part(x, elf, SUFFIX)
        /\ \A a \in Addresses : a \notin n .. n + SUFFIX => m[a] = x[a]
    <3>1. CopiedTo(lz_copy(x, n, elf), x, n, elf, SUFFIX)
      BY <1>2, <2>2, <2>6, <2>7, CopyWhole
    <3> QED BY <2>8, <3>1 DEF CopiedTo
  <2>10. Part(x, elf, SUFFIX) = Part(mem, elf, SUFFIX)
    <3>1. \A i \in 1 .. SUFFIX : elf + i - 1 \in elf .. END
      BY <1>2
    <3> QED BY <2>5, <3>1 DEF Part
  <2>11. Part(x, dst, n) = SrcStr
    <3>1. Part(mem, dst, dst) = << >>
      BY <1>2 DEF Part
    <3>2. src \in Nat /\ src + n <= END + 1
      BY <1>1, <1>2 DEF StringAt
    <3>3. SrcStr \in Seq(Bytes)
      BY <1>2, <1>3, <3>2, PartFacts
    <3>4. << >> \o SrcStr = SrcStr
      BY <3>3, ConcatEmptySeq
    <3> QED BY <1>3, <2>2, <2>4, <3>1, <3>4
  <2>12. OnlyWrites(m, dst, DST)
    <3>1. ASSUME NEW a \in Addresses \ (dst .. dst + DST - 1) PROVE m[a] = mem[a]
      <4>1. a \notin n .. n + SUFFIX /\ a \notin dst .. dst + n
        BY <1>2, <2>1
      <4> QED BY <2>2, <2>9, <4>1
    <3> QED BY <3>1 DEF OnlyWrites
  <2> QED BY <1>5, <2>9, <2>10, <2>11, <2>12 DEF NameNeverOverflows, m
<1> QED BY <1>6, <1>7

-----------------------------------------------------------------------------
(* Comparing.                                                              *)

\* t and u agree in their first k bytes and no further.
DiffAt(t, u, k) ==
    /\ k \in 0 .. Len(t) /\ k <= Len(u)
    /\ \A j \in 1 .. k : t[j] = u[j]
    /\ k = Len(t) \/ k = Len(u) \/ t[k + 1] # u[k + 1]

\* Byte i of t, its NUL included.
ByteOf(t, i) == IF i <= Len(t) THEN t[i] ELSE 0

\* A string: its bytes are not NUL.
Strs == Seq(Bytes \ {0})

\* Where they differ decides the order.
LEMMA OrderAtDiff ==
    ASSUME NEW t \in Strs, NEW u \in Strs, NEW k, DiffAt(t, u, k)
    PROVE  SortsBefore(t, u) <=> ByteOf(t, k + 1) < ByteOf(u, k + 1)
<1>1. /\ Len(t) \in Nat /\ Len(u) \in Nat /\ k \in Nat /\ k <= Len(t) /\ k <= Len(u)
      /\ \A i \in 1 .. Len(t) : t[i] \in Nat /\ t[i] > 0
      /\ \A i \in 1 .. Len(u) : u[i] \in Nat /\ u[i] > 0
  <2>1. Bytes \subseteq Nat
    BY Layout
  <2>2. t \in Seq(Bytes \ {0}) /\ u \in Seq(Bytes \ {0})
    BY DEF Strs
  <2>3. \A i \in 1 .. Len(t) : t[i] \in Bytes \ {0}
    BY <2>2
  <2>4. \A i \in 1 .. Len(u) : u[i] \in Bytes \ {0}
    BY <2>2
  <2>5. Len(t) \in Nat /\ Len(u) \in Nat
    BY <2>2
  <2>6. k \in Nat /\ k <= Len(t) /\ k <= Len(u)
    BY <2>5 DEF DiffAt
  <2>7. \A b \in Bytes \ {0} : b \in Nat /\ b > 0
    BY <2>1
  <2> QED BY <2>3, <2>4, <2>5, <2>6, <2>7
<1>2. ASSUME ByteOf(t, k + 1) < ByteOf(u, k + 1) PROVE SortsBefore(t, u)
  <2>1. k + 1 <= Len(u)
    <3> SUFFICES ASSUME ~(k + 1 <= Len(u)) PROVE FALSE
      OBVIOUS
    <3>1. ByteOf(u, k + 1) = 0
      BY DEF ByteOf
    <3>2. k + 1 <= Len(t) => k + 1 \in 1 .. Len(t)
      BY <1>1
    <3>3. ByteOf(t, k + 1) \in Nat
      BY <1>1, <3>2 DEF ByteOf
    <3> QED BY <1>2, <3>1, <3>3
  <2>2. k + 1 \in 1 .. Len(u) /\ k + 1 <= Len(t) + 1 /\ (k + 1) - 1 = k
    BY <1>1, <2>1
  <2>3. k + 1 <= Len(t) => t[k + 1] < u[k + 1]
    BY <1>2, <2>1 DEF ByteOf
  <2>4. \A j \in 1 .. (k + 1) - 1 : t[j] = u[j]
    BY <2>2 DEF DiffAt
  <2> QED BY <2>2, <2>3, <2>4 DEF SortsBefore
<1>3. ASSUME SortsBefore(t, u) PROVE ByteOf(t, k + 1) < ByteOf(u, k + 1)
  <2>1. PICK i \in 1 .. Len(u) :
          /\ i <= Len(t) + 1 /\ \A j \in 1 .. i - 1 : t[j] = u[j]
          /\ i <= Len(t) => t[i] < u[i]
    BY <1>3 DEF SortsBefore
  <2>2. k < i
    <3> SUFFICES ASSUME ~(k < i) PROVE FALSE
      OBVIOUS
    <3>1. i \in 1 .. k /\ i <= Len(t) /\ i \in 1 .. Len(t)
      BY <1>1
    <3>2. t[i] = u[i]
      BY <3>1 DEF DiffAt
    <3> QED BY <1>1, <2>1, <3>1, <3>2
  <2>3. ~(k + 1 < i)
    <3> SUFFICES ASSUME k + 1 < i PROVE FALSE
      OBVIOUS
    <3>1. k + 1 \in 1 .. i - 1 /\ k # Len(t) /\ k # Len(u)
      BY <1>1, <2>1
    <3> QED BY <2>1, <3>1 DEF DiffAt
  <2>4. i = k + 1
    BY <1>1, <2>2, <2>3
  <2>5. ByteOf(u, k + 1) = u[i] /\ u[i] > 0
    BY <1>1, <2>4 DEF ByteOf
  <2> QED BY <2>1, <2>4, <2>5 DEF ByteOf
<1> QED BY <1>2, <1>3

\* Prefixes are strings, and differ where the whole does if it is in them.
LEMMA PrefixOf ==
    ASSUME NEW t \in Strs, NEW n \in Nat
    PROVE  /\ Prefix(t, n) \in Strs
           /\ Len(Prefix(t, n)) = IF n < Len(t) THEN n ELSE Len(t)
           /\ \A i \in 1 .. Len(Prefix(t, n)) : Prefix(t, n)[i] = t[i]
<1> DEFINE l == IF n < Len(t) THEN n ELSE Len(t)
<1>1. l \in Nat /\ l <= Len(t) /\ Len(t) \in Nat
  BY DEF Strs
<1> HIDE DEF l
<1>2. t \in Seq(Bytes \ {0})
  BY DEF Strs
<1>3. /\ SubSeq(t, 1, l) \in Seq(Bytes \ {0}) /\ Len(SubSeq(t, 1, l)) = l
      /\ \A i \in 1 .. l : SubSeq(t, 1, l)[i] = t[i]
  <2>1. SubSeq(t, 1, l) = [i \in 1 .. l |-> t[i]]
    BY <1>1, <1>2
  <2>2. \A i \in 1 .. l : t[i] \in Bytes \ {0}
    BY <1>1, <1>2
  <2> QED BY <1>1, <2>1, <2>2
<1> QED BY <1>3 DEF Prefix, Strs, l

\* The order of the first n bytes.
LEMMA OrderOfPrefixes ==
    ASSUME NEW t \in Strs, NEW u \in Strs, NEW k, DiffAt(t, u, k), NEW n \in Nat
    PROVE  SortsBefore(Prefix(t, n), Prefix(u, n))
             <=> ~(n <= k) /\ ByteOf(t, k + 1) < ByteOf(u, k + 1)
<1> DEFINE p == Prefix(t, n)
           q == Prefix(u, n)
<1>1. /\ p \in Strs /\ Len(p) = IF n < Len(t) THEN n ELSE Len(t)
      /\ \A i \in 1 .. Len(p) : p[i] = t[i]
  BY PrefixOf
<1>2. /\ q \in Strs /\ Len(q) = IF n < Len(u) THEN n ELSE Len(u)
      /\ \A i \in 1 .. Len(q) : q[i] = u[i]
  BY PrefixOf
<1> HIDE DEF p, q
<1>3. /\ k \in Nat /\ k <= Len(t) /\ k <= Len(u) /\ Len(t) \in Nat /\ Len(u) \in Nat
      /\ \A j \in 1 .. k : t[j] = u[j]
  BY DEF DiffAt, Strs
<1>4. CASE n <= k
  <2>1. Len(p) = n /\ Len(q) = n
    BY <1>1, <1>2, <1>3, <1>4
  <2>2. \A j \in 1 .. n : p[j] = q[j]
    <3> SUFFICES ASSUME NEW j \in 1 .. n PROVE p[j] = q[j]
      OBVIOUS
    <3>1. j \in 1 .. k /\ j \in 1 .. Len(p) /\ j \in 1 .. Len(q)
      BY <1>3, <1>4, <2>1
    <3> QED BY <1>1, <1>2, <1>3, <3>1
  <2>3. DiffAt(p, q, n)
    BY <2>1, <2>2 DEF DiffAt
  <2>4. ByteOf(p, n + 1) = 0 /\ ByteOf(q, n + 1) = 0
    BY <2>1 DEF ByteOf
  <2>5. ~SortsBefore(p, q)
    BY <1>1, <1>2, <2>3, <2>4, OrderAtDiff
  <2> QED BY <1>4, <2>5 DEF p, q
<1>5. CASE ~(n <= k)
  <2>1. k <= Len(p) /\ k <= Len(q) /\ k + 1 <= n /\ Len(p) \in Nat /\ Len(q) \in Nat
    BY <1>1, <1>2, <1>3, <1>5
  <2>2. \A j \in 1 .. k : p[j] = q[j]
    <3> SUFFICES ASSUME NEW j \in 1 .. k PROVE p[j] = q[j]
      OBVIOUS
    <3>1. j \in 1 .. Len(p) /\ j \in 1 .. Len(q)
      BY <1>3, <2>1
    <3> QED BY <1>1, <1>2, <1>3, <3>1
  <2>3. /\ k + 1 <= Len(p) <=> k + 1 <= Len(t)
        /\ k + 1 <= Len(q) <=> k + 1 <= Len(u)
    BY <1>1, <1>2, <1>3, <2>1
  <2>4. /\ k + 1 <= Len(p) => p[k + 1] = t[k + 1]
        /\ k + 1 <= Len(q) => q[k + 1] = u[k + 1]
    <3>1. k + 1 <= Len(p) => k + 1 \in 1 .. Len(p)
      BY <1>3, <2>1
    <3>2. k + 1 <= Len(q) => k + 1 \in 1 .. Len(q)
      BY <1>3, <2>1
    <3> QED BY <1>1, <1>2, <3>1, <3>2
  <2>5. ByteOf(p, k + 1) = ByteOf(t, k + 1) /\ ByteOf(q, k + 1) = ByteOf(u, k + 1)
    BY <2>3, <2>4 DEF ByteOf
  <2>6. k = Len(p) \/ k = Len(q) \/ p[k + 1] # q[k + 1]
    <3> SUFFICES ASSUME k # Len(p), k # Len(q) PROVE p[k + 1] # q[k + 1]
      OBVIOUS
    <3>1. k + 1 <= Len(p) /\ k + 1 <= Len(q)
      BY <1>3, <2>1
    <3>2. k # Len(t) /\ k # Len(u)
      BY <1>3, <2>3, <3>1
    <3> QED BY <2>4, <3>1, <3>2 DEF DiffAt
  <2>7. DiffAt(p, q, k)
    BY <1>3, <2>1, <2>2, <2>6 DEF DiffAt
  <2>8. SortsBefore(p, q) <=> ByteOf(p, k + 1) < ByteOf(q, k + 1)
    BY <1>1, <1>2, <2>7, OrderAtDiff
  <2> QED BY <1>5, <2>5, <2>8 DEF p, q
<1> QED BY <1>4, <1>5

\* The strings in the two buffers.
TwoStrings(d, n) ==
    /\ d \in 0 .. DST - 1 /\ n \in 0 .. SRC - 1
    /\ StringAt(mem, dst, d) /\ StringAt(mem, src, n)
    /\ Len(DstStr) = d /\ Len(SrcStr) = n /\ DstStr \in Strs /\ SrcStr \in Strs
    /\ \A i \in 1 .. d : DstStr[i] = mem[i - 1]
    /\ \A i \in 1 .. n : SrcStr[i] = mem[DST + i - 1]

LEMMA BothStrings ==
    ASSUME BuffersInv, Terminated(dst, DST)
    PROVE  \E d, n : TwoStrings(d, n)
<1>1. PICK n \in 0 .. SRC - 1 : StringAt(mem, src, n)
  BY SourceString
<1>2. PICK d \in 0 .. DST - 1 : StringAt(mem, dst, d)
  BY DestString
<1>3. /\ src \in Addresses /\ dst \in Addresses /\ src = DST /\ dst = 0 /\ DST \in Nat /\ src \in Nat
      /\ dst \in Nat /\ SRC \in Nat /\ END \in Nat /\ n \in Nat /\ d \in Nat
      /\ mem \in [Addresses -> Bytes] /\ Addresses = 0 .. END
  BY Layout DEF BuffersInv
<1>4. /\ Len(SrcStr) = n /\ SrcStr = Part(mem, src, n)
      /\ Len(DstStr) = d /\ DstStr = Part(mem, dst, d)
  BY <1>1, <1>2, <1>3, StringIs DEF SrcStr, DstStr
<1>5. src + n <= END + 1 /\ dst + d <= END + 1
  BY <1>1, <1>2, <1>3 DEF StringAt
<1>a. SrcStr \in Seq(Bytes) /\ DstStr \in Seq(Bytes)
  <2>1. Part(mem, src, n) \in Seq(Bytes)
    BY <1>3, <1>5, PartFacts
  <2>2. Part(mem, dst, d) \in Seq(Bytes)
    BY <1>3, <1>5, PartFacts
  <2> QED BY <1>4, <2>1, <2>2
<1>b. /\ \A i \in 1 .. n : SrcStr[i] = mem[src + i - 1]
      /\ \A i \in 1 .. d : DstStr[i] = mem[dst + i - 1]
  BY <1>4 DEF Part
<1>6. /\ SrcStr \in Seq(Bytes) /\ \A i \in 1 .. n : SrcStr[i] = mem[src + i - 1]
      /\ DstStr \in Seq(Bytes) /\ \A i \in 1 .. d : DstStr[i] = mem[dst + i - 1]
  BY <1>a, <1>b
<1>7. \A i \in 1 .. n : SrcStr[i] # 0
  <2> SUFFICES ASSUME NEW i \in 1 .. n PROVE SrcStr[i] # 0
    OBVIOUS
  <2>1. i - 1 \in 0 .. n - 1 /\ src + (i - 1) = src + i - 1
    BY <1>3
  <2> QED BY <1>1, <1>6, <2>1 DEF StringAt
<1>8. \A i \in 1 .. d : DstStr[i] # 0
  <2> SUFFICES ASSUME NEW i \in 1 .. d PROVE DstStr[i] # 0
    OBVIOUS
  <2>1. i - 1 \in 0 .. d - 1 /\ dst + (i - 1) = dst + i - 1
    BY <1>3
  <2> QED BY <1>2, <1>6, <2>1 DEF StringAt
<1>9. SrcStr \in Strs /\ DstStr \in Strs
  BY <1>4, <1>6, <1>7, <1>8 DEF Strs
<1>10. \A i \in 1 .. d : DstStr[i] = mem[i - 1]
  BY <1>3, <1>6
<1>11. \A i \in 1 .. n : SrcStr[i] = mem[DST + i - 1]
  BY <1>3, <1>6
<1> QED BY <1>1, <1>2, <1>4, <1>9, <1>10, <1>11 DEF TwoStrings

\* The comparing loop stops where the strings differ.
LEMMA DifferIs ==
    ASSUME BuffersInv, NEW d, NEW n, TwoStrings(d, n)
    PROVE  LET k == Differ(mem, dst, src) IN
           /\ DiffAt(DstStr, SrcStr, k) /\ DiffAt(SrcStr, DstStr, k)
           /\ mem[dst + k] = ByteOf(DstStr, k + 1) /\ mem[src + k] = ByteOf(SrcStr, k + 1)
           /\ mem[dst + k] \in Nat /\ mem[src + k] \in Nat
<1> DEFINE E == {k \in Room(dst, src) : mem[dst + k] = 0 \/ mem[src + k] = 0
                                        \/ mem[dst + k] # mem[src + k]}
           k == Min(E)
<1>1. /\ src = DST /\ dst = 0 /\ DST \in Nat /\ DST > 0 /\ SRC \in Nat /\ END \in Nat
      /\ END >= DST + SRC /\ n \in Nat /\ d \in Nat /\ d < DST /\ n < SRC
      /\ mem \in [Addresses -> Bytes] /\ Addresses = 0 .. END /\ Bytes \subseteq Nat
  BY Layout DEF BuffersInv, TwoStrings
<1>2. /\ mem[d] = 0 /\ mem[DST + n] = 0
      /\ \A j \in 0 .. d - 1 : mem[j] # 0
      /\ \A j \in 0 .. n - 1 : mem[DST + j] # 0
  BY <1>1 DEF TwoStrings, StringAt
<1>3. Room(dst, src) = 0 .. END - DST
  BY <1>1 DEF Room
<1>4. E \subseteq Nat /\ n \in E /\ (d <= END - DST => d \in E)
  BY <1>1, <1>2, <1>3
<1>5. k \in E /\ \A y \in E : k <= y
  <2> HIDE DEF E
  <2> QED BY <1>4, LeastInSet
<1> HIDE DEF k
<1>6. k \in Nat /\ k <= n /\ k <= d /\ k <= END - DST
  BY <1>1, <1>3, <1>4, <1>5
<1>7. \A j \in 0 .. k - 1 : mem[j] = mem[DST + j]
  <2> SUFFICES ASSUME NEW j \in 0 .. k - 1, mem[j] # mem[DST + j] PROVE FALSE
    OBVIOUS
  <2>1. j \in E
    BY <1>1, <1>3, <1>6
  <2>2. k <= j
    BY <1>5, <2>1
  <2> QED BY <1>6, <2>2
<1>8. mem[k] = 0 \/ mem[DST + k] = 0 \/ mem[k] # mem[DST + k]
  <2>1. mem[dst + k] = 0 \/ mem[src + k] = 0 \/ mem[dst + k] # mem[src + k]
    BY <1>5
  <2>2. dst + k = k /\ src + k = DST + k
    BY <1>1, <1>6
  <2> HIDE DEF E
  <2> QED BY <2>1, <2>2
<1> HIDE DEF E
<1>9. mem[k] = ByteOf(DstStr, k + 1) /\ mem[DST + k] = ByteOf(SrcStr, k + 1)
  <2>1. mem[k] = ByteOf(DstStr, k + 1)
    <3>1. CASE k = d
      <4>1. ~(k + 1 <= d)
        BY <1>1, <3>1
      <4> QED BY <1>2, <3>1, <4>1 DEF ByteOf, TwoStrings
    <3>2. CASE k # d
      <4>1. k + 1 \in 1 .. d /\ k + 1 <= d /\ (k + 1) - 1 = k
        BY <1>1, <1>6, <3>2
      <4> QED BY <4>1 DEF ByteOf, TwoStrings
    <3> QED BY <3>1, <3>2
  <2>2. mem[DST + k] = ByteOf(SrcStr, k + 1)
    <3>1. CASE k = n
      <4>1. ~(k + 1 <= n)
        BY <1>1, <3>1
      <4> QED BY <1>2, <3>1, <4>1 DEF ByteOf, TwoStrings
    <3>2. CASE k # n
      <4>1. k + 1 \in 1 .. n /\ k + 1 <= n /\ DST + (k + 1) - 1 = DST + k
        BY <1>1, <1>6, <3>2
      <4>2. SrcStr[k + 1] = mem[DST + (k + 1) - 1]
        BY <4>1 DEF TwoStrings
      <4> QED BY <4>1, <4>2 DEF ByteOf, TwoStrings
    <3> QED BY <3>1, <3>2
  <2> QED BY <2>1, <2>2
<1>10. \A j \in 1 .. k : DstStr[j] = SrcStr[j]
  <2> SUFFICES ASSUME NEW j \in 1 .. k PROVE DstStr[j] = SrcStr[j]
    OBVIOUS
  <2>1. j \in 1 .. d /\ j \in 1 .. n /\ j - 1 \in 0 .. k - 1 /\ DST + (j - 1) = DST + j - 1
    BY <1>1, <1>6
  <2>2. mem[j - 1] = mem[DST + (j - 1)]
    BY <1>7, <2>1
  <2> QED BY <2>1, <2>2 DEF TwoStrings
<1>11. k = d \/ k = n \/ DstStr[k + 1] # SrcStr[k + 1]
  <2> SUFFICES ASSUME k # d, k # n PROVE DstStr[k + 1] # SrcStr[k + 1]
    OBVIOUS
  <2>1. k \in 0 .. d - 1 /\ k \in 0 .. n - 1 /\ k + 1 <= d /\ k + 1 <= n
    BY <1>1, <1>6
  <2>2. mem[k] # mem[DST + k]
    BY <1>2, <1>8, <2>1
  <2> QED BY <1>9, <2>1, <2>2 DEF ByteOf, TwoStrings
<1>12. Len(DstStr) = d /\ Len(SrcStr) = n
  BY DEF TwoStrings
<1>13. DiffAt(DstStr, SrcStr, k) /\ DiffAt(SrcStr, DstStr, k)
  BY <1>1, <1>6, <1>10, <1>11, <1>12 DEF DiffAt
<1>14. dst + k = k /\ src + k = DST + k /\ k \in Addresses /\ DST + k \in Addresses
  BY <1>1, <1>6
<1>15. mem[k] \in Nat /\ mem[DST + k] \in Nat
  BY <1>1, <1>14
<1>16. Differ(mem, dst, src) = k
  BY DEF Differ, k, E
<1> QED BY <1>9, <1>13, <1>14, <1>15, <1>16

\* lz_compare() and lz_ncompare() are the lexicographic order.
LEMMA CompareIsTheOrder == BuffersInv => CompareIsOrder
<1> SUFFICES ASSUME BuffersInv, Terminated(dst, DST)
             PROVE  /\ (lz_compare(mem, dst, src) < 0) <=> SortsBefore(DstStr, SrcStr)
                    /\ (lz_compare(mem, dst, src) > 0) <=> SortsBefore(SrcStr, DstStr)
                    /\ \A l \in 0 .. DST :
                         /\ (lz_ncompare(mem, dst, src, l) < 0)
                              <=> SortsBefore(Prefix(DstStr, l), Prefix(SrcStr, l))
                         /\ (lz_ncompare(mem, dst, src, l) > 0)
                              <=> SortsBefore(Prefix(SrcStr, l), Prefix(DstStr, l))
  BY DEF CompareIsOrder
<1>1. PICK d, n : TwoStrings(d, n)
  BY BothStrings
<1> DEFINE k == Differ(mem, dst, src)
           x == mem[dst + k]
           y == mem[src + k]
<1>2. /\ DiffAt(DstStr, SrcStr, k) /\ DiffAt(SrcStr, DstStr, k)
      /\ x = ByteOf(DstStr, k + 1) /\ y = ByteOf(SrcStr, k + 1) /\ x \in Nat /\ y \in Nat
  BY <1>1, DifferIs
<1>3. DstStr \in Strs /\ SrcStr \in Strs
  BY <1>1 DEF TwoStrings
<1>4. lz_compare(mem, dst, src) = x - y
  BY DEF lz_compare
<1>5. \A l : lz_ncompare(mem, dst, src, l) = IF l <= k THEN 0 ELSE x - y
  BY DEF lz_ncompare
<1> HIDE DEF k, x, y
<1>6. /\ SortsBefore(DstStr, SrcStr) <=> x < y
      /\ SortsBefore(SrcStr, DstStr) <=> y < x
  <2>1. SortsBefore(DstStr, SrcStr) <=> ByteOf(DstStr, k + 1) < ByteOf(SrcStr, k + 1)
    BY <1>2, <1>3, OrderAtDiff
  <2>2. SortsBefore(SrcStr, DstStr) <=> ByteOf(SrcStr, k + 1) < ByteOf(DstStr, k + 1)
    BY <1>2, <1>3, OrderAtDiff
  <2> QED BY <1>2, <2>1, <2>2
<1>7. ASSUME NEW l \in 0 .. DST
      PROVE  /\ (lz_ncompare(mem, dst, src, l) < 0)
                  <=> SortsBefore(Prefix(DstStr, l), Prefix(SrcStr, l))
             /\ (lz_ncompare(mem, dst, src, l) > 0)
                  <=> SortsBefore(Prefix(SrcStr, l), Prefix(DstStr, l))
  <2>0. l \in Nat
    BY Layout
  <2>1. SortsBefore(Prefix(DstStr, l), Prefix(SrcStr, l)) <=> ~(l <= k) /\ x < y
    BY <1>2, <1>3, <2>0, OrderOfPrefixes
  <2>2. SortsBefore(Prefix(SrcStr, l), Prefix(DstStr, l)) <=> ~(l <= k) /\ y < x
    BY <1>2, <1>3, <2>0, OrderOfPrefixes
  <2>3. lz_ncompare(mem, dst, src, l) = IF l <= k THEN 0 ELSE x - y
    BY <1>5
  <2>4. /\ (lz_ncompare(mem, dst, src, l) < 0) <=> ~(l <= k) /\ x < y
        /\ (lz_ncompare(mem, dst, src, l) > 0) <=> ~(l <= k) /\ y < x
    BY <1>2, <2>3
  <2> QED BY <2>1, <2>2, <2>4
<1>8. /\ (lz_compare(mem, dst, src) < 0) <=> x < y
      /\ (lz_compare(mem, dst, src) > 0) <=> y < x
  BY <1>2, <1>4
<1> QED BY <1>6, <1>7, <1>8

-----------------------------------------------------------------------------
(* lz_search().                                                            *)

\* The needle's n bytes stand in the haystack's d at a.
HitAt(a, d, n) == a + n <= d /\ \A i \in 0 .. n - 1 : mem[a + i] = mem[DST + i]

\* The inner loop of lz_search() gets to the needle's NUL where it stands.
LEMMA MatchesIs ==
    ASSUME BuffersInv, NEW d, NEW n, TwoStrings(d, n), NEW a \in 0 .. d
    PROVE  Matches(mem, a, src) <=> HitAt(a, d, n)
<1> DEFINE E == {i \in Room(a, src) : mem[a + i] # mem[src + i] \/ mem[src + i] = 0}
           k == Min(E)
<1>1. /\ src = DST /\ dst = 0 /\ DST \in Nat /\ DST > 0 /\ SRC \in Nat /\ END \in Nat
      /\ END >= DST + SRC /\ n \in Nat /\ d \in Nat /\ d < DST /\ n < SRC
      /\ a \in Nat /\ a <= d
  BY Layout DEF TwoStrings
<1>2. /\ mem[d] = 0 /\ mem[DST + n] = 0
      /\ \A j \in 0 .. d - 1 : mem[j] # 0
      /\ \A j \in 0 .. n - 1 : mem[DST + j] # 0
  BY <1>1 DEF TwoStrings, StringAt
<1>3. Room(a, src) = 0 .. END - DST
  BY <1>1 DEF Room
<1>4. E \subseteq Nat /\ n \in E
  BY <1>1, <1>2, <1>3
<1>5. k \in E /\ \A y \in E : k <= y
  <2> HIDE DEF E
  <2> QED BY <1>4, LeastInSet
<1>6. Matches(mem, a, src) <=> mem[DST + k] = 0
  BY <1>1 DEF Matches
<1> HIDE DEF k
<1>7. k \in Nat /\ k <= n /\ k <= END - DST
  BY <1>1, <1>3, <1>4, <1>5
<1>8. \A i \in 0 .. k - 1 : mem[a + i] = mem[DST + i]
  <2> SUFFICES ASSUME NEW i \in 0 .. k - 1, mem[a + i] # mem[DST + i] PROVE FALSE
    OBVIOUS
  <2>1. i \in E
    BY <1>1, <1>3, <1>7
  <2>2. k <= i
    BY <1>5, <2>1
  <2> QED BY <1>7, <2>2
<1>9. mem[a + k] # mem[DST + k] \/ mem[DST + k] = 0
  <2>1. mem[a + k] # mem[src + k] \/ mem[src + k] = 0
    BY <1>5
  <2> HIDE DEF E
  <2> QED BY <2>1, <1>1
<1> HIDE DEF E
<1>10. CASE k = n
  <2>1. a + n <= d
    <3> SUFFICES ASSUME a + n > d PROVE FALSE
      BY <1>1
    <3>1. d - a \in 0 .. n - 1 /\ a + (d - a) = d
      BY <1>1
    <3>2. mem[d] = mem[DST + (d - a)]
      BY <1>8, <1>10, <3>1
    <3> QED BY <1>2, <3>1, <3>2
  <2> QED BY <2>1, <1>2, <1>6, <1>8, <1>10 DEF HitAt
<1>11. CASE k # n
  <2>1. k \in 0 .. n - 1
    BY <1>1, <1>7, <1>11
  <2> QED BY <2>1, <1>2, <1>6, <1>9 DEF HitAt
<1> QED BY <1>10, <1>11

\* The occurrences are where it stands.
LEMMA OccurrencesAre ==
    ASSUME BuffersInv, NEW d, NEW n, TwoStrings(d, n)
    PROVE  \A a : a \in Occurrences <=> a \in 0 .. d /\ HitAt(a, d, n)
<1>1. /\ DST \in Nat /\ n \in Nat /\ d \in Nat /\ Len(DstStr) = d /\ Len(SrcStr) = n
      /\ DstStr \in Seq(Bytes) /\ SrcStr \in Seq(Bytes)
      /\ \A i \in 1 .. d : DstStr[i] = mem[i - 1]
      /\ \A i \in 1 .. n : SrcStr[i] = mem[DST + i - 1]
  BY Layout DEF TwoStrings, Strs
<1>2. ASSUME NEW a \in 0 .. d - n
      PROVE  SubSeq(DstStr, a + 1, a + n) = SrcStr <=> HitAt(a, d, n)
  <2> DEFINE u == SubSeq(DstStr, a + 1, a + n)
  <2>1. a \in Nat /\ a + n <= d
    BY <1>1
  <2>2. /\ u \in Seq(Bytes) /\ Len(u) = n
        /\ \A i \in 1 .. n : u[i] = DstStr[a + i]
    <3>1. u = [i \in 1 .. n |-> DstStr[a + i]]
      BY <1>1, <2>1
    <3>2. \A i \in 1 .. n : DstStr[a + i] \in Bytes
      BY <1>1, <2>1
    <3> HIDE DEF u
    <3>3. u \in [1 .. n -> Bytes] /\ n \in Nat
      BY <1>1, <3>1, <3>2
    <3>4. u \in Seq(Bytes) /\ Len(u) = n
      BY <3>3
    <3> QED BY <3>1, <3>4
  <2> HIDE DEF u
  <2>3. u = SrcStr <=> \A i \in 1 .. n : u[i] = SrcStr[i]
    BY <1>1, <2>2, SeqEqual
  <2>4. \A i \in 1 .. n : u[i] = mem[a + (i - 1)] /\ SrcStr[i] = mem[DST + (i - 1)]
    <3> SUFFICES ASSUME NEW i \in 1 .. n
                 PROVE  u[i] = mem[a + (i - 1)] /\ SrcStr[i] = mem[DST + (i - 1)]
      OBVIOUS
    <3>1. a + i \in 1 .. d /\ (a + i) - 1 = a + (i - 1) /\ DST + i - 1 = DST + (i - 1)
      BY <1>1, <2>1
    <3>2. DstStr[a + i] = mem[(a + i) - 1]
      BY <1>1, <3>1
    <3> QED BY <1>1, <2>2, <3>1, <3>2
  <2>5. (\A i \in 1 .. n : u[i] = SrcStr[i]) <=> (\A i \in 0 .. n - 1 : mem[a + i] = mem[DST + i])
    <3>1. ASSUME \A i \in 1 .. n : u[i] = SrcStr[i], NEW i \in 0 .. n - 1
          PROVE  mem[a + i] = mem[DST + i]
      <4>1. i + 1 \in 1 .. n /\ (i + 1) - 1 = i
        BY <1>1
      <4> QED BY <2>4, <3>1, <4>1
    <3>2. ASSUME \A i \in 0 .. n - 1 : mem[a + i] = mem[DST + i], NEW i \in 1 .. n
          PROVE  u[i] = SrcStr[i]
      <4>1. i - 1 \in 0 .. n - 1
        BY <1>1
      <4> QED BY <2>4, <3>2, <4>1
    <3> QED BY <3>1, <3>2
  <2> QED BY <2>1, <2>3, <2>5 DEF HitAt, u
<1>3. \A a : a \in Occurrences <=> a \in 0 .. d - n /\ SubSeq(DstStr, a + 1, a + n) = SrcStr
  BY <1>1 DEF Occurrences
<1>4. \A a : a \in 0 .. d - n <=> a \in 0 .. d /\ a + n <= d
  BY <1>1
<1> QED BY <1>2, <1>3, <1>4 DEF HitAt

\* lz_search() finds the first one.
LEMMA SearchIsFirst == BuffersInv => SearchFindsFirst
<1> DEFINE r == lz_search(mem, dst, src)
<1> SUFFICES ASSUME BuffersInv, Terminated(dst, DST)
             PROVE  IF Occurrences = {} \/ DstStr = << >> THEN r = NotFound
                    ELSE r - dst \in Occurrences /\ \A k \in Occurrences : r - dst <= k
  BY DEF SearchFindsFirst
<1>1. PICK d, n : TwoStrings(d, n)
  BY BothStrings
<1> DEFINE A == {a \in dst .. END : mem[a] = 0 \/ Matches(mem, a, src)}
           p == Min(A)
<1>2. /\ dst = 0 /\ DST \in Nat /\ END \in Nat /\ END >= DST /\ n \in Nat /\ d \in Nat /\ d < DST
      /\ mem[d] = 0 /\ \A j \in 0 .. d - 1 : mem[j] # 0
  BY <1>1, Layout DEF TwoStrings, StringAt
<1>3. A \subseteq Nat /\ d \in A
  BY <1>2
<1>4. p \in A /\ \A y \in A : p <= y
  <2> HIDE DEF A
  <2> QED BY <1>3, LeastInSet
<1>5. r = IF mem[p] = 0 THEN NotFound ELSE p
  BY DEF lz_search
<1> HIDE DEF p, r
<1>6. p \in 0 .. d
  BY <1>2, <1>3, <1>4
<1>7. mem[p] = 0 <=> p = d
  <2>1. p # d => p \in 0 .. d - 1
    BY <1>2, <1>6
  <2> HIDE DEF A
  <2> QED BY <1>2, <2>1
<1>8. \A a : a \in Occurrences <=> a \in 0 .. d /\ HitAt(a, d, n)
  BY <1>1, OccurrencesAre
<1>9. Occurrences \subseteq A
  <2> SUFFICES ASSUME NEW a \in Occurrences PROVE a \in A
    OBVIOUS
  <2>1. a \in 0 .. d /\ HitAt(a, d, n)
    BY <1>8
  <2>2. Matches(mem, a, src)
    BY <1>1, <2>1, MatchesIs
  <2>3. a \in dst .. END
    BY <1>2, <2>1
  <2> QED BY <2>2, <2>3
<1>10. p # d => p \in Occurrences
  <2> SUFFICES ASSUME p # d PROVE p \in Occurrences
    OBVIOUS
  <2>1. Matches(mem, p, src)
    BY <1>4, <1>7
  <2>2. HitAt(p, d, n)
    BY <1>1, <1>6, <2>1, MatchesIs
  <2> QED BY <1>6, <1>8, <2>2
<1> HIDE DEF A
<1>11. DstStr = << >> <=> d = 0
  <2>1. Len(DstStr) = d /\ DstStr \in Seq(Bytes)
    BY <1>1 DEF TwoStrings, Strs
  <2> QED BY <2>1
<1>12. CASE Occurrences = {} \/ DstStr = << >>
  <2>1. p = d
    BY <1>2, <1>6, <1>10, <1>11, <1>12
  <2> QED BY <1>5, <1>7, <1>12, <2>1
<1>13. CASE Occurrences # {} /\ DstStr # << >>
  <2>1. p # d
    <3> SUFFICES ASSUME p = d PROVE FALSE
      OBVIOUS
    <3>1. PICK a \in Occurrences : TRUE
      BY <1>13
    <3>2. a \in 0 .. d /\ HitAt(a, d, n) /\ p <= a
      BY <1>4, <1>8, <1>9
    <3>3. n = 0
      BY <1>2, <3>2 DEF HitAt
    <3>4. HitAt(0, d, n) /\ 0 \in 0 .. d
      BY <1>2, <3>3 DEF HitAt
    <3>5. p <= 0
      BY <1>4, <1>8, <1>9, <3>4
    <3> QED BY <1>2, <1>11, <1>13, <3>5
  <2>2. r = p /\ p - dst = p
    BY <1>2, <1>5, <1>6, <1>7, <2>1
  <2>3. p \in Occurrences /\ \A k \in Occurrences : p <= k
    BY <1>4, <1>9, <1>10, <2>1
  <2> QED BY <1>13, <2>2, <2>3
<1> QED BY <1>12, <1>13

-----------------------------------------------------------------------------
(* parseline().                                                            *)

\* parseline() before its first turn.
ParseStart(m, line) == [mem |-> m, i |-> line, args |-> << >>]

\* Its turns.
ParseTurns(f, m, line, R) ==
    /\ f[0] = ParseStart(m, line)
    /\ \A k \in 1 .. R : f[k] = WordTurn(f[k - 1])
    /\ parseline(m, line, R) = f[R]

\* parseline() is the sequence of its turns.
LEMMA ParseLoop ==
    ASSUME NEW m, NEW line, NEW R \in Nat
    PROVE  \E f : ParseTurns(f, m, line, R)
<1> DEFINE Start == ParseStart(m, line)
<1> HIDE DEF Start
<1> DEFINE Is(f, N) == f = [k \in 0 .. N |-> IF k = 0 THEN Start ELSE WordTurn(f[k - 1])]
           S == {N \in Nat : ~ \E f : Is(f, N)}
<1>1. ASSUME NEW N \in S PROVE \E k \in S : k < N
  <2>1. N # 0
    <3> DEFINE f == [k \in 0 .. 0 |-> Start]
    <3>1. Is(f, 0)
      BY Z3
    <3> HIDE DEF f, Is
    <3> QED BY <3>1
  <2>2. CASE \E f : Is(f, N - 1)
    <3>1. PICK f : Is(f, N - 1)
      BY <2>2
    <3> DEFINE final == WordTurn(f[N - 1])
    <3> HIDE DEF final
    <3> DEFINE g == [k \in 0 .. N |-> IF k < N THEN f[k] ELSE final]
    <3>2. ASSUME NEW k \in 0 .. N
          PROVE  g[k] = IF k = 0 THEN Start ELSE WordTurn(g[k - 1])
      <4>1. CASE k < N
        <5>1. k \in 0 .. N - 1 /\ g[k] = f[k] /\ (k # 0 => g[k - 1] = f[k - 1])
          BY <4>1, <2>1
        <5>2. f[k] = IF k = 0 THEN Start ELSE WordTurn(f[k - 1])
          BY <3>1, <5>1
        <5> HIDE DEF g, Is
        <5> QED BY <5>1, <5>2
      <4>2. CASE k = N
        <5>1. g[k] = final /\ g[k - 1] = f[k - 1]
          BY <4>2, <2>1
        <5> HIDE DEF g, Is
        <5> QED BY <5>1, <4>2, <2>1 DEF final
      <4> QED BY <4>1, <4>2
    <3>3. Is(g, N)
      <4>1. g = [k \in 0 .. N |-> g[k]]
        OBVIOUS
      <4> HIDE DEF g
      <4> QED BY <3>2, <4>1
    <3> HIDE DEF g, Is
    <3> QED BY <3>3
  <2>3. CASE ~ \E f : Is(f, N - 1)
    <3>1. N - 1 \in Nat /\ N - 1 < N
      BY <2>1
    <3> HIDE DEF Is
    <3> QED BY <3>1, <2>3
  <2> QED BY <2>2, <2>3
<1>2. S = {}
  <2>1. S \subseteq Nat
    OBVIOUS
  <2> HIDE DEF S
  <2> QED BY <1>1, <2>1, NoLeast
<1>3. \E f : Is(f, R)
  <2> HIDE DEF Is
  <2> QED BY <1>2
<1> DEFINE F == CHOOSE f : Is(f, R)
<1>4. Is(F, R)
  <2> HIDE DEF Is
  <2> QED BY <1>3, Zenon
<1>5. parseline(m, line, R) = F[R]
  BY DEF parseline, Start, ParseStart
<1> HIDE DEF F
<1>6. F[0] = Start
  BY <1>4
<1>7. \A k \in 1 .. R : F[k] = WordTurn(F[k - 1])
  BY <1>4
<1> HIDE DEF Is
<1> QED BY <1>5, <1>6, <1>7 DEF Start, ParseTurns

\* A word of the line of d bytes begins at a.
StartsAt(a, d) == a \in 0 .. d - 1 /\ mem[a] # SPACE /\ (a = 0 \/ mem[a - 1] = SPACE)

\* The word at a ends at e, with a NUL in m.
WordAt(m, a, e, d) ==
    /\ e \in a + 1 .. d /\ m[e] = 0 /\ (e = d \/ mem[e] = SPACE)
    /\ \A b \in a .. e - 1 : mem[b] # SPACE /\ m[b] = mem[b]

\* What parseline() has written of the line before i: NULs over blanks.
LineMem(m, i) ==
    /\ m \in [Addresses -> Bytes]
    /\ \A a \in Addresses : a >= i => m[a] = mem[a]
    /\ \A a \in Addresses : m[a] = mem[a] \/ (mem[a] = SPACE /\ m[a] = 0)

\* It has all words before i, in order, each a string of its own.
WordsBefore(args, m, i, d) ==
    /\ args \in Seq(Nat)
    /\ \A k \in 1 .. Len(args) : StartsAt(args[k], d) /\ args[k] < i
    /\ \A k \in 1 .. Len(args) : \A j \in 1 .. k - 1 : args[j] < args[k]
    /\ \A a : StartsAt(a, d) /\ a < i => \E k \in 1 .. Len(args) : args[k] = a
    /\ \A k \in 1 .. Len(args) : \E e \in 0 .. i : WordAt(m, args[k], e, d)

\* parseline() between two turns.
Parsed(x, d) ==
    /\ x = [mem |-> x.mem, i |-> x.i, args |-> x.args]
    /\ x.i \in 0 .. d /\ (x.i = 0 \/ x.i = d \/ mem[x.i - 1] = SPACE)
    /\ LineMem(x.mem, x.i) /\ WordsBefore(x.args, x.mem, x.i, d)

\* There is no word left.
NoMore(x, d) == \A a : StartsAt(a, d) => a < x.i

\* The line is a string of d bytes.
Line(d) ==
    /\ d \in Nat /\ d <= END /\ mem[d] = 0 /\ \A j \in 0 .. d - 1 : mem[j] # 0
    /\ mem \in [Addresses -> Bytes] /\ Addresses = 0 .. END /\ END \in Nat
    /\ SPACE # 0 /\ 0 \in Bytes

\* The scan over blanks ends at the next word, or at the end of the line.
LEMMA BlanksSkipped ==
    ASSUME NEW d, Line(d), NEW m, NEW i \in 0 .. d, LineMem(m, i)
    PROVE  LET w == SkipBlanks(m, i) IN
           /\ w \in i .. d /\ mem[w] # SPACE /\ m[w] = mem[w]
           /\ \A a \in i .. w - 1 : mem[a] = SPACE
<1> DEFINE W == {p \in i .. END : m[p] # SPACE}
           w == Min(W)
<1>1. d \in Nat /\ i \in Nat /\ i <= d /\ d <= END /\ END \in Nat /\ mem[d] = 0 /\ Addresses = 0 .. END
      /\ SPACE # 0
  BY DEF Line
<1>2. \A a \in i .. END : m[a] = mem[a]
  BY <1>1 DEF LineMem
<1>3. W \subseteq Nat /\ d \in W
  BY <1>1, <1>2
<1>4. w \in W /\ \A y \in W : w <= y
  <2> HIDE DEF W
  <2> QED BY <1>3, LeastInSet
<1>5. SkipBlanks(m, i) = w
  BY DEF SkipBlanks
<1> HIDE DEF w
<1>6. w \in i .. d /\ w \in i .. END
  BY <1>1, <1>3, <1>4
<1>7. m[w] # SPACE /\ m[w] = mem[w]
  BY <1>2, <1>4, <1>6
<1>8. \A a \in i .. w - 1 : mem[a] = SPACE
  <2> SUFFICES ASSUME NEW a \in i .. w - 1, mem[a] # SPACE PROVE FALSE
    OBVIOUS
  <2>1. a \in i .. END /\ a < w /\ a \in Nat /\ w \in Nat
    BY <1>1, <1>6
  <2>2. a \in W
    BY <1>2, <2>1
  <2>3. w <= a
    BY <1>4, <2>2
  <2> QED BY <2>1, <2>3
<1> HIDE DEF W
<1> QED BY <1>5, <1>6, <1>7, <1>8

\* The scan over a word ends behind it.
LEMMA WordScanned ==
    ASSUME NEW d, Line(d), NEW m, NEW i \in 0 .. d, LineMem(m, i),
           NEW w \in i .. d - 1, mem[w] # SPACE
    PROVE  LET e == WordEnd(m, w) IN
           /\ e \in w + 1 .. d /\ m[e] = mem[e] /\ (mem[e] = SPACE \/ e = d)
           /\ mem[e] = SPACE => e < d
           /\ \A b \in w .. e - 1 : mem[b] # SPACE
<1> DEFINE W == {p \in w .. END : m[p] \in {0, SPACE}}
           e == Min(W)
<1>1. /\ d \in Nat /\ i \in Nat /\ i <= d /\ d <= END /\ END \in Nat /\ mem[d] = 0
      /\ Addresses = 0 .. END /\ w \in Nat /\ i <= w /\ w < d /\ SPACE # 0
      /\ \A j \in 0 .. d - 1 : mem[j] # 0
  BY DEF Line
<1>2. \A a \in i .. END : m[a] = mem[a]
  BY <1>1 DEF LineMem
<1>3. W \subseteq Nat /\ d \in W
  BY <1>1, <1>2
<1>4. e \in W /\ \A y \in W : e <= y
  <2> HIDE DEF W
  <2> QED BY <1>3, LeastInSet
<1>5. WordEnd(m, w) = e
  BY DEF WordEnd
<1> HIDE DEF e
<1>6. e \in w .. d /\ e \in i .. END
  BY <1>1, <1>3, <1>4
<1>7. m[e] \in {0, SPACE} /\ m[e] = mem[e]
  BY <1>2, <1>4, <1>6
<1>8. \A b \in w .. e - 1 : mem[b] # SPACE
  <2> SUFFICES ASSUME NEW b \in w .. e - 1, mem[b] = SPACE PROVE FALSE
    OBVIOUS
  <2>1. b \in i .. END /\ b \in w .. END /\ b < e /\ b \in Nat /\ e \in Nat
    BY <1>1, <1>6
  <2>2. b \in W
    BY <1>2, <2>1
  <2>3. e <= b
    BY <1>4, <2>2
  <2> QED BY <2>1, <2>3
<1> HIDE DEF W
<1>9. e # w
  <2>1. w \in 0 .. d - 1
    BY <1>1
  <2> QED BY <1>1, <1>7, <2>1
<1>10. e = d \/ e \in 0 .. d - 1
  BY <1>1, <1>6
<1>11. mem[e] = SPACE \/ e = d
  BY <1>1, <1>7, <1>10
<1>12. mem[e] = SPACE => e # d
  BY <1>1
<1>13. e \in w + 1 .. d /\ (e # d => e < d)
  BY <1>1, <1>6, <1>9
<1> QED BY <1>5, <1>7, <1>8, <1>11, <1>12, <1>13

\* The end of a word that follows the blanks from i on.
WordFound(m, i, w, e, d) ==
    /\ i \in 0 .. d /\ w \in i .. d - 1 /\ e \in w + 1 .. d
    /\ i = 0 \/ i = d \/ mem[i - 1] = SPACE
    /\ \A a \in i .. w - 1 : mem[a] = SPACE
    /\ \A b \in w .. e - 1 : mem[b] # SPACE
    /\ m[e] = mem[e] /\ (mem[e] = SPACE \/ e = d) /\ (mem[e] = SPACE => e < d)

\* Where the next turn begins.
NextWord(m, e) == IF m[e] = SPACE THEN e + 1 ELSE e

\* The blank behind the word becomes a NUL, and the rest of the line stays.
LEMMA WordEnded ==
    ASSUME NEW d, Line(d), NEW m, NEW i, NEW w, NEW e, LineMem(m, i), WordFound(m, i, w, e, d)
    PROVE  LET n == EndWord(m, e)
               j == NextWord(m, e) IN
           /\ j \in 0 .. d /\ j >= e /\ (j = d \/ mem[j - 1] = SPACE)
           /\ j = e \/ (j = e + 1 /\ mem[e] = SPACE)
           /\ LineMem(n, j) /\ n[e] = 0
           /\ \A a \in Addresses : a # e => n[a] = m[a]
<1>1. /\ d \in Nat /\ d <= END /\ END \in Nat /\ mem[d] = 0 /\ Addresses = 0 .. END /\ SPACE # 0
      /\ 0 \in Bytes
  BY DEF Line
<1>2. /\ i \in 0 .. d /\ w \in i .. d - 1 /\ e \in w + 1 .. d /\ m[e] = mem[e]
      /\ (mem[e] = SPACE \/ e = d) /\ (mem[e] = SPACE => e < d)
  BY DEF WordFound
<1>3. i \in Nat /\ w \in Nat /\ e \in Nat /\ e \in Addresses /\ i <= w /\ w < e /\ e <= d
  BY <1>1, <1>2
<1>4. /\ m \in [Addresses -> Bytes]
      /\ \A a \in Addresses : a >= i => m[a] = mem[a]
      /\ \A a \in Addresses : m[a] = mem[a] \/ (mem[a] = SPACE /\ m[a] = 0)
  BY DEF LineMem
<1>5. CASE mem[e] = SPACE
  <2> DEFINE n == [m EXCEPT ![e] = 0]
  <2>1. EndWord(m, e) = n /\ NextWord(m, e) = e + 1
    BY <1>2, <1>5 DEF EndWord, NextWord
  <2>2. n \in [Addresses -> Bytes] /\ n[e] = 0 /\ \A a \in Addresses : a # e => n[a] = m[a]
    BY <1>1, <1>3, <1>4
  <2> HIDE DEF n
  <2>3. LineMem(n, e + 1)
    BY <1>1, <1>3, <1>4, <1>5, <2>2 DEF LineMem
  <2>4. e + 1 \in 0 .. d /\ e + 1 >= e /\ (e + 1) - 1 = e
    BY <1>1, <1>2, <1>3, <1>5
  <2> QED BY <1>5, <2>1, <2>2, <2>3, <2>4
<1>6. CASE mem[e] # SPACE
  <2>1. e = d /\ EndWord(m, e) = m /\ NextWord(m, e) = e
    BY <1>2, <1>6 DEF EndWord, NextWord
  <2>2. LineMem(m, d)
    BY <1>1, <1>3, <1>4, <2>1 DEF LineMem
  <2> QED BY <1>1, <1>2, <1>3, <1>4, <2>1, <2>2
<1> QED BY <1>5, <1>6

\* The word is the next one of the line.
LEMMA WordTaken ==
    ASSUME NEW d, Line(d), NEW m, NEW i, NEW w, NEW e, NEW args,
           LineMem(m, i), WordsBefore(args, m, i, d), WordFound(m, i, w, e, d)
    PROVE  /\ WordsBefore(Append(args, w), EndWord(m, e), NextWord(m, e), d)
           /\ StartsAt(w, d) /\ i <= w
<1> DEFINE n == EndWord(m, e)
           j == NextWord(m, e)
           all == Append(args, w)
           l == Len(args)
<1>1. /\ d \in Nat /\ d <= END /\ END \in Nat /\ mem[d] = 0 /\ Addresses = 0 .. END /\ SPACE # 0
  BY DEF Line
<1>2. /\ i \in 0 .. d /\ w \in i .. d - 1 /\ e \in w + 1 .. d
      /\ (i = 0 \/ i = d \/ mem[i - 1] = SPACE)
      /\ \A a \in i .. w - 1 : mem[a] = SPACE
      /\ \A b \in w .. e - 1 : mem[b] # SPACE
      /\ mem[e] = SPACE \/ e = d
  BY DEF WordFound
<1>3. i \in Nat /\ w \in Nat /\ e \in Nat /\ e \in Addresses /\ i <= w /\ w < e /\ e <= d
  BY <1>1, <1>2
<1>4. /\ j \in 0 .. d /\ j >= e /\ (j = e \/ (j = e + 1 /\ mem[e] = SPACE))
      /\ n[e] = 0 /\ \A a \in Addresses : a # e => n[a] = m[a]
  BY WordEnded
<1> HIDE DEF n, j
<1>5. /\ args \in Seq(Nat) /\ l \in Nat
      /\ \A k \in 1 .. l : StartsAt(args[k], d) /\ args[k] < i /\ args[k] \in Nat
      /\ \A k \in 1 .. l : \A q \in 1 .. k - 1 : args[q] < args[k]
      /\ \A a : StartsAt(a, d) /\ a < i => \E k \in 1 .. l : args[k] = a
      /\ \A k \in 1 .. l : \E z \in 0 .. i : WordAt(m, args[k], z, d)
  BY DEF WordsBefore
<1>6. /\ all \in Seq(Nat) /\ Len(all) = l + 1 /\ all[l + 1] = w
      /\ \A k \in 1 .. l : all[k] = args[k]
      /\ \A k \in 1 .. l + 1 : k \in 1 .. l \/ k = l + 1
  <2>1. /\ all \in Seq(Nat) /\ Len(all) = l + 1 /\ all[l + 1] = w
        /\ \A k \in 1 .. l : all[k] = args[k]
    BY <1>3, <1>5, AppendProperties
  <2>2. \A k \in 1 .. l + 1 : k \in 1 .. l \/ k = l + 1
    <3> HIDE DEF l
    <3> QED BY <1>5
  <2> QED BY <2>1, <2>2
<1> HIDE DEF all, l
<1>7. StartsAt(w, d)
  <2>1. w \in 0 .. d - 1 /\ mem[w] # SPACE
    BY <1>1, <1>2, <1>3
  <2>2. CASE w = i
    BY <1>2, <1>1, <1>3, <2>1, <2>2 DEF StartsAt
  <2>3. CASE w # i
    <3>1. w - 1 \in i .. w - 1
      BY <1>3, <2>3
    <3> QED BY <1>2, <2>1, <3>1 DEF StartsAt
  <2> QED BY <2>2, <2>3
<1>8. \A k \in 1 .. l + 1 : StartsAt(all[k], d) /\ all[k] < j
  <2> SUFFICES ASSUME NEW k \in 1 .. l + 1 PROVE StartsAt(all[k], d) /\ all[k] < j
    OBVIOUS
  <2>1. CASE k \in 1 .. l
    <3>1. all[k] = args[k] /\ StartsAt(args[k], d) /\ args[k] < i /\ args[k] \in Nat
      BY <1>5, <1>6, <2>1
    <3>2. args[k] < j
      BY <1>1, <1>3, <1>4, <3>1
    <3> QED BY <3>1, <3>2
  <2>2. CASE k = l + 1
    BY <1>1, <1>3, <1>4, <1>6, <1>7, <2>2
  <2> QED BY <1>6, <2>1, <2>2
<1>9. \A k \in 1 .. l + 1 : \A q \in 1 .. k - 1 : all[q] < all[k]
  <2> SUFFICES ASSUME NEW k \in 1 .. l + 1, NEW q \in 1 .. k - 1 PROVE all[q] < all[k]
    OBVIOUS
  <2>1. q \in 1 .. l
    BY <1>5
  <2>2. CASE k \in 1 .. l
    <3>1. args[q] < args[k]
      BY <1>5, <2>2
    <3> QED BY <1>6, <2>1, <2>2, <3>1
  <2>3. CASE k = l + 1
    <3>1. args[q] < i /\ args[q] \in Nat
      BY <1>5, <2>1
    <3>2. args[q] < w
      BY <1>3, <3>1
    <3> QED BY <1>6, <2>1, <2>3, <3>2
  <2> QED BY <1>6, <2>2, <2>3
<1>10. ASSUME NEW a, StartsAt(a, d), a < j PROVE \E k \in 1 .. l + 1 : all[k] = a
  <2>1. a \in Nat /\ a < d /\ mem[a] # SPACE /\ (a = 0 \/ mem[a - 1] = SPACE)
    BY <1>1, <1>10 DEF StartsAt
  <2>2. CASE a < i
    <3>1. PICK k \in 1 .. l : args[k] = a
      BY <1>5, <1>10, <2>2
    <3>2. k \in 1 .. l + 1 /\ all[k] = a
      BY <1>5, <1>6, <3>1
    <3> QED BY <3>2
  <2>3. CASE a = w
    BY <1>5, <1>6, <2>3
  <2>4. CASE a \in i .. w - 1
    BY <1>2, <2>1, <2>4
  <2>5. CASE a \in w + 1 .. e - 1
    <3>1. a # 0 /\ a - 1 \in w .. e - 1
      BY <1>3, <2>5
    <3> QED BY <1>2, <2>1, <3>1
  <2>6. CASE a = e
    BY <1>2, <1>3, <2>1, <2>6
  <2>7. a < i \/ a = w \/ a \in i .. w - 1 \/ a \in w + 1 .. e - 1 \/ a = e
    <3>1. a <= e
      BY <1>3, <1>4, <1>10, <2>1
    <3> QED BY <1>3, <2>1, <3>1
  <2> QED BY <2>2, <2>3, <2>4, <2>5, <2>6, <2>7
<1>11. \A k \in 1 .. l + 1 : \E z \in 0 .. j : WordAt(n, all[k], z, d)
  <2> SUFFICES ASSUME NEW k \in 1 .. l + 1 PROVE \E z \in 0 .. j : WordAt(n, all[k], z, d)
    OBVIOUS
  <2>1. CASE k \in 1 .. l
    <3>1. PICK z \in 0 .. i : WordAt(m, args[k], z, d)
      BY <1>5, <2>1
    <3>2. z \in 0 .. j /\ z < e /\ z \in Nat /\ z \in Addresses
      BY <1>1, <1>3, <1>4
    <3>3. \A b \in args[k] .. z - 1 : b \in Addresses /\ b # e
      <4>1. args[k] \in Nat
        BY <1>5, <2>1
      <4> QED BY <1>1, <1>3, <3>2, <4>1
    <3>4. WordAt(n, args[k], z, d)
      BY <1>3, <1>4, <3>1, <3>2, <3>3 DEF WordAt
    <3> QED BY <1>6, <2>1, <3>2, <3>4
  <2>2. CASE k = l + 1
    <3>1. \A b \in w .. e - 1 : n[b] = mem[b]
      <4> SUFFICES ASSUME NEW b \in w .. e - 1 PROVE n[b] = mem[b]
        OBVIOUS
      <4>1. b \in Addresses /\ b # e /\ b >= i
        BY <1>1, <1>3
      <4> QED BY <1>4, <4>1 DEF LineMem
    <3>2. WordAt(n, w, e, d)
      BY <1>2, <1>4, <3>1 DEF WordAt
    <3>3. e \in 0 .. j
      BY <1>1, <1>3, <1>4
    <3> QED BY <1>6, <2>2, <3>2, <3>3
  <2> QED BY <1>6, <2>1, <2>2
<1>12. WordsBefore(all, n, j, d)
  BY <1>6, <1>8, <1>9, <1>10, <1>11 DEF WordsBefore
<1> QED BY <1>3, <1>7, <1>12 DEF all, n, j

\* A turn takes the next word, or finds that there is none and changes nothing.
LEMMA TurnTakes ==
    ASSUME NEW d, Line(d), NEW x, Parsed(x, d)
    PROVE  /\ Parsed(WordTurn(x), d)
           /\ \/ WordTurn(x) = x /\ NoMore(x, d)
              \/ Len(WordTurn(x).args) = Len(x.args) + 1 /\ ~NoMore(x, d)
<1> DEFINE m == x.mem
           i == x.i
           w == SkipBlanks(m, i)
           e == WordEnd(m, w)
           y == [mem |-> EndWord(m, e), i |-> NextWord(m, e), args |-> Append(x.args, w)]
<1>1. /\ d \in Nat /\ d <= END /\ END \in Nat /\ mem[d] = 0 /\ Addresses = 0 .. END /\ SPACE # 0
      /\ \A q \in 0 .. d - 1 : mem[q] # 0
  BY DEF Line
<1>2. /\ i \in 0 .. d /\ (i = 0 \/ i = d \/ mem[i - 1] = SPACE)
      /\ LineMem(m, i) /\ WordsBefore(x.args, m, i, d) /\ x.args \in Seq(Nat)
  BY DEF Parsed, WordsBefore
<1>3. WordTurn(x) = IF m[i] = 0 \/ m[w] = 0 THEN x ELSE y
  BY DEF WordTurn, NextWord
<1>4. /\ w \in i .. d /\ mem[w] # SPACE /\ m[w] = mem[w]
      /\ \A a \in i .. w - 1 : mem[a] = SPACE
  <2> HIDE DEF m, i
  <2> QED BY <1>2, BlanksSkipped
<1>5. m[i] = mem[i]
  BY <1>1, <1>2 DEF LineMem
<1> HIDE DEF m, i, w
<1>6. CASE m[i] = 0 \/ m[w] = 0
  <2>1. i = d \/ w = d
    <3>1. i \in 0 .. d - 1 \/ i = d
      BY <1>1, <1>2
    <3>2. w \in 0 .. d - 1 \/ w = d
      BY <1>1, <1>2, <1>4
    <3> QED BY <1>1, <1>4, <1>5, <1>6, <3>1, <3>2
  <2>2. w = d
    BY <1>1, <1>2, <1>4, <2>1
  <2>3. NoMore(x, d)
    <3> SUFFICES ASSUME NEW a, StartsAt(a, d) PROVE a < i
      BY DEF NoMore, i
    <3>1. a \in 0 .. d - 1 /\ mem[a] # SPACE
      BY DEF StartsAt
    <3>2. a < i \/ a \in i .. w - 1
      BY <1>1, <1>2, <2>2, <3>1
    <3> QED BY <1>4, <3>1, <3>2
  <2> QED BY <1>3, <1>6, <2>3
<1>7. CASE ~(m[i] = 0 \/ m[w] = 0)
  <2>1. w \in i .. d - 1 /\ mem[w] # SPACE
    <3>1. w # d
      BY <1>1, <1>4, <1>7
    <3> QED BY <1>1, <1>2, <1>4, <3>1
  <2>2. /\ e \in w + 1 .. d /\ m[e] = mem[e] /\ (mem[e] = SPACE \/ e = d)
        /\ mem[e] = SPACE => e < d
        /\ \A b \in w .. e - 1 : mem[b] # SPACE
    BY <1>2, <2>1, WordScanned
  <2> HIDE DEF e
  <2>3. WordFound(m, i, w, e, d)
    BY <1>2, <1>4, <2>1, <2>2 DEF WordFound
  <2>4. /\ NextWord(m, e) \in 0 .. d
        /\ NextWord(m, e) = d \/ mem[NextWord(m, e) - 1] = SPACE
        /\ LineMem(EndWord(m, e), NextWord(m, e))
    BY <1>2, <2>3, WordEnded
  <2>5. /\ WordsBefore(Append(x.args, w), EndWord(m, e), NextWord(m, e), d)
        /\ StartsAt(w, d) /\ i <= w
    BY <1>2, <2>3, WordTaken
  <2>6. Parsed(y, d)
    BY <2>4, <2>5 DEF Parsed
  <2>7. ~NoMore(x, d)
    <3>1. ~(w < i)
      BY <1>1, <1>2, <2>1
    <3> QED BY <2>5, <3>1 DEF NoMore, i
  <2>8. Len(y.args) = Len(x.args) + 1
    <3>1. w \in Nat
      BY <1>1, <1>2, <2>1
    <3> QED BY <1>2, <3>1
  <2> QED BY <1>3, <1>7, <2>6, <2>7, <2>8
<1> QED BY <1>6, <1>7

\* After all its turns parseline() has MAX_ARGS words, or all of them.
LEMMA ParseEnds ==
    ASSUME NEW d, Line(d)
    PROVE  LET r == parseline(mem, dst, MAX_ARGS) IN
           /\ Parsed(r, d) /\ Len(r.args) <= MAX_ARGS
           /\ Len(r.args) = MAX_ARGS \/ NoMore(r, d)
<1>1. MAX_ARGS \in Nat /\ dst = 0 /\ d \in Nat
  BY BufferAssumption DEF dst, Line
<1>a. PICK f : ParseTurns(f, mem, dst, MAX_ARGS)
  BY <1>1, ParseLoop, Zenon
<1>2. /\ f[0] = ParseStart(mem, dst)
      /\ \A k \in 1 .. MAX_ARGS : f[k] = WordTurn(f[k - 1])
      /\ parseline(mem, dst, MAX_ARGS) = f[MAX_ARGS]
  BY <1>a DEF ParseTurns
<1> DEFINE Good(k) == /\ Parsed(f[k], d) /\ Len(f[k].args) <= k /\ Len(f[k].args) \in Nat
                      /\ Len(f[k].args) = k \/ NoMore(f[k], d)
           S == {k \in 0 .. MAX_ARGS : ~Good(k)}
<1>3. Good(0)
  <2> DEFINE x == ParseStart(mem, dst)
  <2>1. x.i = 0 /\ x.mem = mem /\ x.args = << >> /\ x = [mem |-> x.mem, i |-> x.i, args |-> x.args]
    BY <1>1 DEF ParseStart
  <2>2. LineMem(mem, 0)
    BY DEF LineMem, Line
  <2>3. WordsBefore(<< >>, mem, 0, d)
    <3>1. << >> \in Seq(Nat) /\ Len(<< >>) = 0 /\ 1 .. 0 = {}
      OBVIOUS
    <3>2. \A a : ~(StartsAt(a, d) /\ a < 0)
      BY <1>1 DEF StartsAt
    <3> QED BY <3>1, <3>2 DEF WordsBefore
  <2>4. Parsed(x, d) /\ Len(x.args) = 0
    <3> HIDE DEF x
    <3>1. 0 \in 0 .. d /\ Len(<< >>) = 0
      BY <1>1
    <3> QED BY <2>1, <2>2, <2>3, <3>1 DEF Parsed
  <2> HIDE DEF x
  <2>5. f[0] = x
    BY <1>2 DEF x
  <2> QED BY <2>4, <2>5
<1>4. ASSUME NEW k \in S PROVE \E j \in S : j < k
  <2>1. k # 0
    <3> HIDE DEF Good
    <3> QED BY <1>3
  <2>2. k - 1 \in 0 .. MAX_ARGS /\ k \in 1 .. MAX_ARGS /\ k - 1 < k
    BY <1>1, <2>1
  <2>3. Good(k - 1) => Good(k)
    <3> SUFFICES ASSUME Good(k - 1) PROVE Good(k)
      OBVIOUS
    <3> DEFINE x == f[k - 1]
               y == f[k]
    <3>1. y = WordTurn(x)
      BY <1>2, <2>2
    <3>2. /\ Parsed(x, d) /\ Len(x.args) <= k - 1 /\ Len(x.args) \in Nat
          /\ Len(x.args) = k - 1 \/ NoMore(x, d)
      OBVIOUS
    <3> HIDE DEF x, y
    <3>3. /\ Parsed(y, d)
          /\ \/ y = x /\ NoMore(x, d)
             \/ Len(y.args) = Len(x.args) + 1 /\ ~NoMore(x, d)
      BY <3>1, <3>2, TurnTakes
    <3>4. /\ Len(y.args) <= k /\ Len(y.args) \in Nat
          /\ Len(y.args) = k \/ NoMore(y, d)
      BY <2>2, <3>2, <3>3
    <3> QED BY <3>3, <3>4 DEF y
  <2>4. ~Good(k)
    OBVIOUS
  <2> HIDE DEF Good
  <2>5. k - 1 \in S
    BY <2>2, <2>3, <2>4
  <2> QED BY <2>2, <2>5
<1>5. S = {}
  <2>1. S \subseteq Nat
    BY <1>1
  <2> HIDE DEF S
  <2> QED BY <1>4, <2>1, NoLeast
<1>6. Good(MAX_ARGS)
  <2> HIDE DEF Good
  <2> QED BY <1>1, <1>5
<1> QED BY <1>2, <1>6

\* A word that parseline() has taken is the string of bytes it had in the line.
LEMMA WordString ==
    ASSUME BuffersInv, NEW d, NEW n, TwoStrings(d, n), Line(d), NEW m, NEW a, NEW e,
           LineMem(m, d), WordAt(m, a, e, d), StartsAt(a, d)
    PROVE  LET p == a - dst + 1
               w == Str(m, a) IN
           /\ w = SubSeq(DstStr, p, p + Len(w) - 1)
           /\ \A i \in DOMAIN w : w[i] # SPACE
           /\ p + Len(w) > Len(DstStr) \/ DstStr[p + Len(w)] = SPACE
<1> DEFINE l == e - a
           w == Str(m, a)
           p == a - dst + 1
<1>1. /\ d \in Nat /\ d <= END /\ END \in Nat /\ Addresses = 0 .. END /\ dst = 0
      /\ \A q \in 0 .. d - 1 : mem[q] # 0
  BY DEF Line, dst
<1>2. /\ a \in Nat /\ a \in Addresses /\ e \in Nat /\ a < e /\ e <= d /\ m[e] = 0
      /\ (e = d \/ mem[e] = SPACE)
      /\ \A b \in a .. e - 1 : mem[b] # SPACE /\ m[b] = mem[b]
  BY <1>1 DEF WordAt, StartsAt
<1>3. l \in Nat /\ l > 0 /\ a + l = e /\ p = a + 1
  BY <1>1, <1>2
<1>4. StringAt(m, a, l)
  <2>1. l \in 0 .. END - a /\ m[a + l] = 0
    BY <1>1, <1>2, <1>3
  <2>2. \A j \in 0 .. l - 1 : m[a + j] # 0
    <3> SUFFICES ASSUME NEW j \in 0 .. l - 1 PROVE m[a + j] # 0
      OBVIOUS
    <3>1. a + j \in a .. e - 1 /\ a + j \in 0 .. d - 1
      BY <1>1, <1>2, <1>3
    <3> QED BY <1>1, <1>2, <3>1
  <2> HIDE DEF l
  <2> QED BY <2>1, <2>2 DEF StringAt
<1> HIDE DEF l, p
<1>5. w = Part(m, a, l) /\ Len(w) = l
  BY <1>2, <1>4, StringIs
<1>6. DOMAIN w = 1 .. l /\ \A i \in 1 .. l : w[i] = m[a + i - 1]
  BY <1>5 DEF Part
<1>7. \A i \in 1 .. l : m[a + i - 1] # SPACE /\ m[a + i - 1] = DstStr[a + i]
  <2> SUFFICES ASSUME NEW i \in 1 .. l PROVE m[a + i - 1] # SPACE /\ m[a + i - 1] = DstStr[a + i]
    OBVIOUS
  <2>1. a + i - 1 \in a .. e - 1 /\ a + i \in 1 .. d /\ (a + i) - 1 = a + i - 1
    BY <1>1, <1>2, <1>3
  <2>2. DstStr[a + i] = mem[(a + i) - 1]
    BY <2>1 DEF TwoStrings
  <2> QED BY <1>2, <2>1, <2>2
<1>8. DstStr \in Seq(Bytes) /\ Len(DstStr) = d
  BY DEF TwoStrings, Strs
<1>9. SubSeq(DstStr, a + 1, a + l) = [i \in 1 .. l |-> DstStr[a + i]]
  <2>1. a + l <= d
    BY <1>2, <1>3
  <2> QED BY <1>1, <1>2, <1>3, <1>8, <2>1
<1>10. w = [i \in 1 .. l |-> DstStr[a + i]]
  <2>1. w = [i \in 1 .. l |-> m[a + i - 1]]
    BY <1>5 DEF Part
  <2> HIDE DEF w
  <2> QED BY <1>7, <2>1
<1>11. p + Len(w) - 1 = a + l /\ p + Len(w) = e + 1
  BY <1>2, <1>3, <1>5
<1>12. w = SubSeq(DstStr, p, p + Len(w) - 1)
  <2> HIDE DEF w
  <2> QED BY <1>3, <1>9, <1>10, <1>11
<1>13. p + Len(w) > Len(DstStr) \/ DstStr[p + Len(w)] = SPACE
  <2>1. CASE e = d
    <3>1. e + 1 > d
      BY <1>1, <2>1
    <3> HIDE DEF w
    <3> QED BY <1>8, <1>11, <3>1
  <2>2. CASE e # d
    <3>1. e + 1 \in 1 .. d /\ (e + 1) - 1 = e
      BY <1>1, <1>2, <2>2
    <3>2. DstStr[e + 1] = mem[(e + 1) - 1]
      BY <3>1 DEF TwoStrings
    <3> HIDE DEF w
    <3> QED BY <1>2, <1>11, <2>2, <3>1, <3>2
  <2> QED BY <2>1, <2>2
<1> HIDE DEF w
<1>14. \A i \in DOMAIN w : w[i] # SPACE
  BY <1>6, <1>7
<1> QED BY <1>12, <1>13, <1>14 DEF w, p

\* The words of a line begin where its bytes say so.
LEMMA StartsAre ==
    ASSUME BuffersInv, NEW d, NEW n, TwoStrings(d, n)
    PROVE  \A a : StartsAt(a, d) <=> a \in 0 .. d - 1 /\ a + 1 \in WordStarts(DstStr)
<1>1. d \in Nat /\ Len(DstStr) = d /\ \A i \in 1 .. d : DstStr[i] = mem[i - 1]
  BY Layout DEF TwoStrings
<1> SUFFICES ASSUME NEW a \in 0 .. d - 1
             PROVE  StartsAt(a, d) <=> a + 1 \in WordStarts(DstStr)
  BY DEF StartsAt
<1>2. a + 1 \in 1 .. d /\ (a + 1) - 1 = a /\ (a + 1 = 1 <=> a = 0) /\ (a # 0 => a \in 1 .. d)
  BY <1>1
<1>3. DstStr[a + 1] = mem[(a + 1) - 1] /\ (a # 0 => DstStr[a] = mem[a - 1])
  BY <1>1, <1>2
<1>4. a + 1 \in WordStarts(DstStr)
        <=> DstStr[a + 1] # SPACE /\ (a + 1 = 1 \/ DstStr[(a + 1) - 1] = SPACE)
  BY <1>1, <1>2 DEF WordStarts
<1> QED BY <1>2, <1>3, <1>4 DEF StartsAt

\* parseline() splits the line into its words.
LEMMA ParseSplits == BuffersInv => ParseIsSplit
<1> DEFINE r == parseline(mem, dst, MAX_ARGS)
           starts == WordStarts(DstStr)
<1> SUFFICES ASSUME BuffersInv, Terminated(dst, DST)
             PROVE  /\ Len(r.args) <= MAX_ARGS
                    /\ \A k \in DOMAIN r.args :
                         LET p == r.args[k] - dst + 1
                             w == Str(r.mem, r.args[k])
                         IN /\ p \in starts /\ \A j \in 1 .. k - 1 : r.args[j] < r.args[k]
                            /\ w = SubSeq(DstStr, p, p + Len(w) - 1)
                            /\ \A i \in DOMAIN w : w[i] # SPACE
                            /\ p + Len(w) > Len(DstStr) \/ DstStr[p + Len(w)] = SPACE
                    /\ \A p \in starts :
                         \/ \E k \in DOMAIN r.args : r.args[k] = dst + p - 1
                         \/ Len(r.args) = MAX_ARGS /\ \A k \in DOMAIN r.args : r.args[k] < dst + p - 1
                    /\ OnlyWrites(r.mem, dst, Len(DstStr))
  BY DEF ParseIsSplit
<1>1. PICK d, n : TwoStrings(d, n)
  BY BothStrings
<1>2. Line(d)
  <2>1. /\ d \in Nat /\ d < DST /\ DST \in Nat /\ END \in Nat /\ DST <= END /\ dst = 0
        /\ Addresses = 0 .. END /\ mem \in [Addresses -> Bytes] /\ SPACE # 0 /\ 0 \in Bytes
    BY <1>1, Layout DEF TwoStrings, BuffersInv
  <2>2. mem[d] = 0 /\ \A j \in 0 .. d - 1 : mem[j] # 0
    BY <1>1, <2>1 DEF TwoStrings, StringAt
  <2> QED BY <2>1, <2>2 DEF Line
<1>3. /\ Parsed(r, d) /\ Len(r.args) <= MAX_ARGS
      /\ Len(r.args) = MAX_ARGS \/ NoMore(r, d)
  BY <1>2, ParseEnds
<1> HIDE DEF r
<1>4. \A a : StartsAt(a, d) <=> a \in 0 .. d - 1 /\ a + 1 \in starts
  BY <1>1, StartsAre
<1>5. /\ r.i \in 0 .. d /\ LineMem(r.mem, r.i) /\ r.args \in Seq(Nat)
      /\ \A k \in 1 .. Len(r.args) : StartsAt(r.args[k], d) /\ r.args[k] < r.i
      /\ \A k \in 1 .. Len(r.args) : \A j \in 1 .. k - 1 : r.args[j] < r.args[k]
      /\ \A a : StartsAt(a, d) /\ a < r.i => \E k \in 1 .. Len(r.args) : r.args[k] = a
      /\ \A k \in 1 .. Len(r.args) : \E e \in 0 .. r.i : WordAt(r.mem, r.args[k], e, d)
  BY <1>3 DEF Parsed, WordsBefore
<1>6. dst = 0 /\ d \in Nat /\ Len(DstStr) = d /\ Addresses = 0 .. END /\ END \in Nat
  BY <1>1, <1>2 DEF TwoStrings, Line, dst
<1>7. DOMAIN r.args = 1 .. Len(r.args)
  BY <1>5
<1>8. LineMem(r.mem, d)
  BY <1>5, <1>6 DEF LineMem
<1>9. starts \subseteq 1 .. d
  BY <1>6 DEF WordStarts
<1> HIDE DEF starts
<1>10. ASSUME NEW k \in DOMAIN r.args
       PROVE  LET p == r.args[k] - dst + 1
                  w == Str(r.mem, r.args[k])
              IN /\ p \in starts /\ \A j \in 1 .. k - 1 : r.args[j] < r.args[k]
                 /\ w = SubSeq(DstStr, p, p + Len(w) - 1)
                 /\ \A i \in DOMAIN w : w[i] # SPACE
                 /\ p + Len(w) > Len(DstStr) \/ DstStr[p + Len(w)] = SPACE
  <2> DEFINE a == r.args[k]
             p == a - dst + 1
             w == Str(r.mem, a)
  <2>1. StartsAt(a, d) /\ \A j \in 1 .. k - 1 : r.args[j] < a
    BY <1>5, <1>7
  <2>2. PICK e : WordAt(r.mem, a, e, d)
    BY <1>5, <1>7
  <2> HIDE DEF a
  <2>3. /\ w = SubSeq(DstStr, p, p + Len(w) - 1)
        /\ \A i \in DOMAIN w : w[i] # SPACE
        /\ p + Len(w) > Len(DstStr) \/ DstStr[p + Len(w)] = SPACE
    BY <1>1, <1>2, <1>8, <2>1, <2>2, WordString
  <2>4. a \in 0 .. d - 1 /\ a + 1 \in starts
    BY <1>4, <2>1
  <2>5. p = a + 1
    BY <1>6, <2>4
  <2>6. p \in starts
    BY <2>4, <2>5
  <2> HIDE DEF p, w
  <2> QED BY <2>1, <2>3, <2>6 DEF a, p, w
<1>11. ASSUME NEW p \in starts
       PROVE  \/ \E k \in DOMAIN r.args : r.args[k] = dst + p - 1
              \/ Len(r.args) = MAX_ARGS /\ \A k \in DOMAIN r.args : r.args[k] < dst + p - 1
  <2> DEFINE a == p - 1
  <2>1. a \in 0 .. d - 1 /\ a + 1 = p /\ dst + p - 1 = a
    BY <1>6, <1>9
  <2> HIDE DEF a
  <2>2. StartsAt(a, d)
    BY <1>4, <2>1
  <2>3. CASE a < r.i
    <3>1. \E k \in 1 .. Len(r.args) : r.args[k] = a
      BY <1>5, <2>2, <2>3
    <3> QED BY <1>7, <2>1, <3>1
  <2>4. CASE ~(a < r.i)
    <3>1. Len(r.args) = MAX_ARGS
      BY <1>3, <2>2, <2>4 DEF NoMore
    <3>2. \A k \in 1 .. Len(r.args) : r.args[k] < a
      <4> SUFFICES ASSUME NEW k \in 1 .. Len(r.args) PROVE r.args[k] < a
        OBVIOUS
      <4>1. r.args[k] < r.i
        BY <1>5
      <4>a. StartsAt(r.args[k], d)
        BY <1>5
      <4>2. r.args[k] \in Nat
        BY <1>6, <4>a DEF StartsAt
      <4>3. r.i \in Nat /\ a \in Nat
        BY <1>5, <1>6, <2>1
      <4> QED BY <2>4, <4>1, <4>2, <4>3
    <3> QED BY <1>7, <2>1, <3>1, <3>2
  <2> QED BY <2>3, <2>4
<1>12. OnlyWrites(r.mem, dst, Len(DstStr))
  <2> SUFFICES ASSUME NEW a \in Addresses, a \notin dst .. dst + d - 1 PROVE r.mem[a] = mem[a]
    BY <1>6 DEF OnlyWrites
  <2>1. a >= d
    BY <1>6
  <2> QED BY <1>8, <2>1 DEF LineMem
<1> QED BY <1>3, <1>10, <1>11, <1>12

\* Every string function, and the shell's use of them, is exact in every state
\* of the buffers.
THEOREM StringsAreExact == StringsSpec => []StringsExact
<1>1. BuffersInv => StringsExact
  BY CopyIsExact, ConcatIsExact, CompareIsTheOrder, SearchIsFirst, ParseSplits, NameIsExact
  DEF StringsExact
<1> QED BY <1>1, BuffersInvariant, PTL

-----------------------------------------------------------------------------
(* Digits.                                                                 *)

\* The powers of a base.
LEMMA PowerLoop ==
    ASSUME NEW base, NEW R \in Nat
    PROVE  /\ Power(base, R)[0] = 1
           /\ \A k \in 1 .. R : Power(base, R)[k] = base * Power(base, R)[k - 1]
<1> DEFINE Start == 1
<1> HIDE DEF Start
<1> DEFINE Is(f, N) == f = [k \in 0 .. N |-> IF k = 0 THEN Start ELSE (base * f[k - 1])]
           S == {N \in Nat : ~ \E f : Is(f, N)}
<1>1. ASSUME NEW N \in S PROVE \E k \in S : k < N
  <2>1. N # 0
    <3> DEFINE f == [k \in 0 .. 0 |-> Start]
    <3>1. Is(f, 0)
      BY Z3
    <3> HIDE DEF f, Is
    <3> QED BY <3>1
  <2>2. CASE \E f : Is(f, N - 1)
    <3>1. PICK f : Is(f, N - 1)
      BY <2>2
    <3> DEFINE final == (base * f[N - 1])
    <3> HIDE DEF final
    <3> DEFINE g == [k \in 0 .. N |-> IF k < N THEN f[k] ELSE final]
    <3>2. ASSUME NEW k \in 0 .. N
          PROVE  g[k] = IF k = 0 THEN Start ELSE (base * g[k - 1])
      <4>1. CASE k < N
        <5>1. k \in 0 .. N - 1 /\ g[k] = f[k] /\ (k # 0 => g[k - 1] = f[k - 1])
          BY <4>1, <2>1
        <5>2. f[k] = IF k = 0 THEN Start ELSE (base * f[k - 1])
          BY <3>1, <5>1
        <5> HIDE DEF g, Is
        <5> QED BY <5>1, <5>2
      <4>2. CASE k = N
        <5>1. g[k] = final /\ g[k - 1] = f[k - 1]
          BY <4>2, <2>1
        <5> HIDE DEF g, Is
        <5> QED BY <5>1, <4>2, <2>1 DEF final
      <4> QED BY <4>1, <4>2
    <3>3. Is(g, N)
      <4>1. g = [k \in 0 .. N |-> g[k]]
        OBVIOUS
      <4> HIDE DEF g
      <4> QED BY <3>2, <4>1
    <3> HIDE DEF g, Is
    <3> QED BY <3>3
  <2>3. CASE ~ \E f : Is(f, N - 1)
    <3>1. N - 1 \in Nat /\ N - 1 < N
      BY <2>1
    <3> HIDE DEF Is
    <3> QED BY <3>1, <2>3
  <2> QED BY <2>2, <2>3
<1>2. S = {}
  <2>1. S \subseteq Nat
    OBVIOUS
  <2> HIDE DEF S
  <2> QED BY <1>1, <2>1, NoLeast
<1>3. \E f : Is(f, R)
  <2> HIDE DEF Is
  <2> QED BY <1>2
<1> DEFINE F == CHOOSE f : Is(f, R)
<1>4. Is(F, R)
  <2> HIDE DEF Is
  <2> QED BY <1>3, Zenon
<1>5. Power(base, R) = F
  BY DEF Power, Start
<1> HIDE DEF F
<1>6. F[0] = Start
  BY <1>4
<1>7. \A k \in 1 .. R : F[k] = (base * F[k - 1])
  BY <1>4
<1> HIDE DEF Is
<1> QED BY <1>5, <1>6, <1>7 DEF Start

\* The loop that divides, as the sequence of its turns.
LEMMA DividedLoop ==
    ASSUME NEW value, NEW base, NEW R \in Nat
    PROVE  /\ Divided(value, base, R)[0] = value
           /\ \A k \in 1 .. R :
                 Divided(value, base, R)[k] = Divided(value, base, R)[k - 1] \div base
<1> DEFINE Start == value
<1> HIDE DEF Start
<1> DEFINE Is(f, N) == f = [k \in 0 .. N |-> IF k = 0 THEN Start ELSE (f[k - 1] \div base)]
           S == {N \in Nat : ~ \E f : Is(f, N)}
<1>1. ASSUME NEW N \in S PROVE \E k \in S : k < N
  <2>1. N # 0
    <3> DEFINE f == [k \in 0 .. 0 |-> Start]
    <3>1. Is(f, 0)
      BY Z3
    <3> HIDE DEF f, Is
    <3> QED BY <3>1
  <2>2. CASE \E f : Is(f, N - 1)
    <3>1. PICK f : Is(f, N - 1)
      BY <2>2
    <3> DEFINE final == (f[N - 1] \div base)
    <3> HIDE DEF final
    <3> DEFINE g == [k \in 0 .. N |-> IF k < N THEN f[k] ELSE final]
    <3>2. ASSUME NEW k \in 0 .. N
          PROVE  g[k] = IF k = 0 THEN Start ELSE (g[k - 1] \div base)
      <4>1. CASE k < N
        <5>1. k \in 0 .. N - 1 /\ g[k] = f[k] /\ (k # 0 => g[k - 1] = f[k - 1])
          BY <4>1, <2>1
        <5>2. f[k] = IF k = 0 THEN Start ELSE (f[k - 1] \div base)
          BY <3>1, <5>1
        <5> HIDE DEF g, Is
        <5> QED BY <5>1, <5>2
      <4>2. CASE k = N
        <5>1. g[k] = final /\ g[k - 1] = f[k - 1]
          BY <4>2, <2>1
        <5> HIDE DEF g, Is
        <5> QED BY <5>1, <4>2, <2>1 DEF final
      <4> QED BY <4>1, <4>2
    <3>3. Is(g, N)
      <4>1. g = [k \in 0 .. N |-> g[k]]
        OBVIOUS
      <4> HIDE DEF g
      <4> QED BY <3>2, <4>1
    <3> HIDE DEF g, Is
    <3> QED BY <3>3
  <2>3. CASE ~ \E f : Is(f, N - 1)
    <3>1. N - 1 \in Nat /\ N - 1 < N
      BY <2>1
    <3> HIDE DEF Is
    <3> QED BY <3>1, <2>3
  <2> QED BY <2>2, <2>3
<1>2. S = {}
  <2>1. S \subseteq Nat
    OBVIOUS
  <2> HIDE DEF S
  <2> QED BY <1>1, <2>1, NoLeast
<1>3. \E f : Is(f, R)
  <2> HIDE DEF Is
  <2> QED BY <1>2
<1> DEFINE F == CHOOSE f : Is(f, R)
<1>4. Is(F, R)
  <2> HIDE DEF Is
  <2> QED BY <1>3, Zenon
<1>5. Divided(value, base, R) = F
  BY DEF Divided, Start
<1> HIDE DEF F
<1>6. F[0] = Start
  BY <1>4
<1>7. \A k \in 1 .. R : F[k] = (F[k - 1] \div base)
  BY <1>4
<1> HIDE DEF Is
<1> QED BY <1>5, <1>6, <1>7 DEF Start

Bases == {10, 16}

\* They grow.
LEMMA PowersGrow ==
    ASSUME NEW base \in Bases, NEW R \in Nat
    PROVE  /\ \A k \in 0 .. R : Power(base, R)[k] \in Nat /\ Power(base, R)[k] > 0
           /\ \A k \in 0 .. R : \A j \in 0 .. k : Power(base, R)[j] <= Power(base, R)[k]
<1> DEFINE p == Power(base, R)
           S == {k \in 0 .. R : ~(p[k] \in Nat /\ p[k] > 0)}
<1>0. base \in Nat /\ base > 1
  BY DEF Bases
<1>1. p[0] = 1 /\ \A k \in 1 .. R : p[k] = base * p[k - 1]
  BY PowerLoop
<1> HIDE DEF p
<1>2. ASSUME NEW k \in S PROVE \E j \in S : j < k
  <2>1. k # 0
    BY <1>1
  <2>2. k \in 1 .. R /\ k - 1 \in 0 .. R /\ k - 1 < k
    BY <2>1
  <2>3. p[k] = base * p[k - 1]
    BY <1>1, <2>2
  <2>4. p[k - 1] \in Nat /\ p[k - 1] > 0 => p[k] \in Nat /\ p[k] > 0
    BY <1>0, <2>3 DEF Bases
  <2>5. k - 1 \in S
    BY <2>2, <2>4
  <2> QED BY <2>2, <2>5
<1>3. S = {}
  <2>1. S \subseteq Nat
    OBVIOUS
  <2> HIDE DEF S
  <2> QED BY <1>2, <2>1, NoLeast
<1>4. \A k \in 0 .. R : p[k] \in Nat /\ p[k] > 0
  BY <1>3
<1>5. \A k \in 1 .. R : p[k - 1] <= p[k]
  <2> SUFFICES ASSUME NEW k \in 1 .. R PROVE p[k - 1] <= p[k]
    OBVIOUS
  <2>1. p[k] = base * p[k - 1] /\ p[k - 1] \in Nat
    BY <1>1, <1>4
  <2> QED BY <2>1 DEF Bases
<1> HIDE DEF S
<1> DEFINE T == {k \in 0 .. R : \E j \in 0 .. k : ~(p[j] <= p[k])}
<1>6. ASSUME NEW k \in T PROVE \E i \in T : i < k
  <2>1. PICK j \in 0 .. k : ~(p[j] <= p[k])
    OBVIOUS
  <2>2. j # k
    BY <1>4, <2>1
  <2>3. k \in 1 .. R /\ j \in 0 .. k - 1 /\ k - 1 \in 0 .. R /\ j \in 0 .. R /\ k - 1 < k
    BY <2>1, <2>2
  <2>4. p[k - 1] <= p[k] /\ p[k - 1] \in Nat /\ p[k] \in Nat /\ p[j] \in Nat
    BY <1>4, <1>5, <2>3
  <2>5. ~(p[j] <= p[k - 1])
    BY <2>1, <2>4
  <2>6. k - 1 \in T
    BY <2>3, <2>5
  <2> QED BY <2>3, <2>6
<1>7. T = {}
  <2>1. T \subseteq Nat
    OBVIOUS
  <2> HIDE DEF T
  <2> QED BY <1>6, <2>1, NoLeast
<1>8. \A k \in 0 .. R : \A j \in 0 .. k : p[j] <= p[k]
  BY <1>7
<1> QED BY <1>4, <1>8 DEF p

\* Dividing twice is dividing once.
LEMMA DivDiv ==
    ASSUME NEW base \in Bases, NEW v \in Nat, NEW p \in Nat, p > 0
    PROVE  (v \div p) \div base = v \div (base * p)
<1> DEFINE q == v \div p
           r == v % p
           s == q \div base
           t == q % base
<1>1. q \in Nat /\ r \in Nat /\ r < p /\ v = p * q + r
  OBVIOUS
<1> HIDE DEF q, r
<1>2. s \in Nat /\ t \in Nat /\ t < base /\ q = base * s + t
  BY <1>1 DEF Bases
<1> HIDE DEF s, t
<1>3. p * t \in Nat /\ p * t + p <= base * p
  BY <1>2 DEF Bases
<1>4. p * q = (base * p) * s + p * t
  BY <1>2 DEF Bases
<1>5. v = (base * p) * s + (p * t + r) /\ p * t + r \in Nat /\ p * t + r < base * p
  BY <1>1, <1>2, <1>3, <1>4 DEF Bases
<1>6. base * p \in Nat /\ base * p > 0
  BY DEF Bases
<1>7. v \div (base * p) = s
  BY <1>2, <1>5, <1>6
<1> QED BY <1>7 DEF s, q

\* k turns divide by the k-th power.
LEMMA DividedIs ==
    ASSUME NEW base \in Bases, NEW v \in Nat, NEW R \in Nat
    PROVE  \A k \in 0 .. R : Divided(v, base, R)[k] = v \div Power(base, R)[k]
<1> DEFINE p == Power(base, R)
           a == Divided(v, base, R)
           S == {k \in 0 .. R : ~(a[k] = v \div p[k])}
<1>1. /\ p[0] = 1 /\ \A k \in 1 .. R : p[k] = base * p[k - 1]
      /\ \A k \in 0 .. R : p[k] \in Nat /\ p[k] > 0
  BY PowerLoop, PowersGrow
<1>2. a[0] = v /\ \A k \in 1 .. R : a[k] = a[k - 1] \div base
  BY DividedLoop
<1> HIDE DEF p, a
<1>3. ASSUME NEW k \in S PROVE \E j \in S : j < k
  <2>1. k # 0
    BY <1>1, <1>2
  <2>2. k \in 1 .. R /\ k - 1 \in 0 .. R /\ k - 1 < k
    BY <2>1
  <2>3. p[k] = base * p[k - 1] /\ p[k - 1] \in Nat /\ p[k - 1] > 0 /\ a[k] = a[k - 1] \div base
    BY <1>1, <1>2, <2>2
  <2>4. (v \div p[k - 1]) \div base = v \div (base * p[k - 1])
    BY <2>3, DivDiv
  <2>5. k - 1 \in S
    BY <2>2, <2>3, <2>4
  <2> QED BY <2>2, <2>5
<1>4. S = {}
  <2>1. S \subseteq Nat
    OBVIOUS
  <2> HIDE DEF S
  <2> QED BY <1>3, <2>1, NoLeast
<1>5. \A k \in 0 .. R : a[k] = v \div p[k]
  BY <1>4
<1> QED BY <1>5 DEF a, p

\* v has n digits.
DigitCount(v, base, max, n) ==
    LET p == Power(base, max)
    IN n \in 1 .. max /\ v < p[n] /\ (n > 1 => v >= p[n - 1])

\* A number has one number of digits.
LEMMA CountIsUnique ==
    ASSUME NEW base \in Bases, NEW v \in Nat, NEW max \in Nat, NEW n, NEW k,
           DigitCount(v, base, max, n), DigitCount(v, base, max, k)
    PROVE  n = k
<1> DEFINE p == Power(base, max)
<1>1. /\ n \in 1 .. max /\ v < p[n] /\ (n > 1 => v >= p[n - 1])
      /\ k \in 1 .. max /\ v < p[k] /\ (k > 1 => v >= p[k - 1])
  BY DEF DigitCount
<1>2. /\ \A i \in 0 .. max : p[i] \in Nat
      /\ \A i \in 0 .. max : \A j \in 0 .. i : p[j] <= p[i]
  BY PowersGrow
<1> HIDE DEF p
<1>3. ~(n < k)
  <2> SUFFICES ASSUME n < k PROVE FALSE
    OBVIOUS
  <2>1. n \in 0 .. k - 1 /\ k - 1 \in 0 .. max /\ k > 1 /\ n \in 0 .. max
    BY <1>1
  <2>2. p[n] <= p[k - 1] /\ p[n] \in Nat /\ p[k - 1] \in Nat
    BY <1>2, <2>1
  <2> QED BY <1>1, <2>1, <2>2
<1>4. ~(k < n)
  <2> SUFFICES ASSUME k < n PROVE FALSE
    OBVIOUS
  <2>1. k \in 0 .. n - 1 /\ n - 1 \in 0 .. max /\ n > 1 /\ k \in 0 .. max
    BY <1>1
  <2>2. p[k] <= p[n - 1] /\ p[k] \in Nat /\ p[n - 1] \in Nat
    BY <1>2, <2>1
  <2> QED BY <1>1, <2>1, <2>2
<1> QED BY <1>1, <1>3, <1>4

\* So its numeral has that many.
LEMMA NumeralIs ==
    ASSUME NEW base \in Bases, NEW v \in Nat, NEW max \in Nat, NEW n,
           DigitCount(v, base, max, n)
    PROVE  Numeral(v, base, max) =
             [i \in 1 .. n |-> Digit((v \div Power(base, max)[n - i]) % base)]
<1> DEFINE p == Power(base, max)
           P(k) == v < p[k] /\ (k > 1 => v >= p[k - 1])
           c == CHOOSE k \in 1 .. max : P(k)
<1>1. n \in 1 .. max /\ P(n)
  BY DEF DigitCount
<1>2. c \in 1 .. max /\ P(c)
  <2> HIDE DEF P
  <2> QED BY <1>1
<1>3. DigitCount(v, base, max, c)
  BY <1>2 DEF DigitCount
<1>4. Numeral(v, base, max) = [i \in 1 .. c |-> Digit((v \div p[c - i]) % base)]
  BY DEF Numeral
<1> HIDE DEF c
<1>5. c = n
  BY <1>3, CountIsUnique
<1> QED BY <1>4, <1>5

\* A number below the largest power has a number of digits.
LEMMA CountExists ==
    ASSUME NEW base \in Bases, NEW v \in Nat, NEW max \in Nat, v < Power(base, max)[max], max > 0
    PROVE  \E n : DigitCount(v, base, max, n)
<1> DEFINE p == Power(base, max)
           K == {k \in 1 .. max : v < p[k]}
           n == Min(K)
<1>1. K \subseteq Nat /\ max \in K
  OBVIOUS
<1>2. n \in K /\ \A y \in K : n <= y
  <2> HIDE DEF K
  <2> QED BY <1>1, LeastInSet
<1> HIDE DEF n
<1>3. \A k \in 0 .. max : p[k] \in Nat
  BY PowersGrow
<1> HIDE DEF p
<1>4. n > 1 => v >= p[n - 1]
  <2> SUFFICES ASSUME n > 1, ~(v >= p[n - 1]) PROVE FALSE
    OBVIOUS
  <2>1. n - 1 \in 1 .. max /\ n - 1 \in 0 .. max /\ n \in Nat /\ ~(n <= n - 1)
    BY <1>2
  <2>2. v < p[n - 1]
    BY <1>3, <2>1
  <2>3. n - 1 \in K
    BY <2>1, <2>2
  <2> QED BY <1>2, <2>1, <2>3
<1>5. DigitCount(v, base, max, n)
  BY <1>2, <1>4 DEF DigitCount, p
<1> QED BY <1>5

\* The buffer has room for the digits of every int in both bases.
LEMMA RoomForDigits ==
    /\ BUFFER \in Nat /\ BUFFER > 0 /\ INT \in Nat /\ INT >= 2
    /\ \A base \in Bases : INT <= Power(base, BUFFER)[BUFFER]
<1> DEFINE p == Power(10, BUFFER)
           q == Power(16, BUFFER)
           S == {k \in 0 .. BUFFER : ~(p[k] <= q[k])}
<1>1. BUFFER \in Nat /\ INT \in Nat /\ INT >= 2 /\ INT <= p[BUFFER]
  BY WidthAssumption
<1>2. /\ p[0] = 1 /\ \A k \in 1 .. BUFFER : p[k] = 10 * p[k - 1]
      /\ q[0] = 1 /\ \A k \in 1 .. BUFFER : q[k] = 16 * q[k - 1]
  BY <1>1, PowerLoop
<1>3. \A k \in 0 .. BUFFER : p[k] \in Nat /\ q[k] \in Nat
  BY <1>1, PowersGrow DEF Bases
<1> HIDE DEF p, q
<1>4. ASSUME NEW k \in S PROVE \E j \in S : j < k
  <2>1. k # 0
    BY <1>2
  <2>2. k \in 1 .. BUFFER /\ k - 1 \in 0 .. BUFFER /\ k - 1 < k
    BY <1>1, <2>1
  <2>3. /\ p[k] = 10 * p[k - 1] /\ q[k] = 16 * q[k - 1]
        /\ p[k - 1] \in Nat /\ q[k - 1] \in Nat
    BY <1>2, <1>3, <2>2
  <2>4. p[k - 1] <= q[k - 1] => p[k] <= q[k]
    BY <2>3
  <2>5. k - 1 \in S
    BY <2>2, <2>4
  <2> QED BY <2>2, <2>5
<1>5. S = {}
  <2>1. S \subseteq Nat
    BY <1>1
  <2> HIDE DEF S
  <2> QED BY <1>4, <2>1, NoLeast
<1>6. p[BUFFER] <= q[BUFFER] /\ p[BUFFER] \in Nat /\ q[BUFFER] \in Nat
  BY <1>1, <1>3, <1>5
<1>7. BUFFER # 0
  BY <1>1, <1>2
<1>8. INT <= q[BUFFER]
  BY <1>1, <1>6
<1> QED BY <1>1, <1>7, <1>8 DEF Bases, p, q

\* The conversion loop collects the digits of the numeral, the last one first.
LEMMA LowDigitsAre ==
    ASSUME NEW base \in Bases, NEW v \in Nat, v > 0, v < INT, NEW n, DigitCount(v, base, BUFFER, n)
    PROVE  LowDigits(v, base) =
             [j \in 1 .. n |-> Digit((v \div Power(base, BUFFER)[j - 1]) % base)]
<1> DEFINE p == Power(base, BUFFER)
           a == Divided(v, base, BUFFER)
           K == {k \in 0 .. BUFFER : a[k] <= 0}
           c == Min(K)
<1>0. BUFFER \in Nat
  BY RoomForDigits
<1>1. /\ \A k \in 0 .. BUFFER : p[k] \in Nat /\ p[k] > 0
      /\ \A k \in 0 .. BUFFER : \A j \in 0 .. k : p[j] <= p[k]
      /\ p[0] = 1
  BY <1>0, PowersGrow, PowerLoop
<1>2. \A k \in 0 .. BUFFER : a[k] = v \div p[k]
  BY <1>0, DividedIs
<1>3. n \in 1 .. BUFFER /\ v < p[n] /\ (n > 1 => v >= p[n - 1])
  BY DEF DigitCount
<1>4. LowDigits(v, base) = [j \in 1 .. c |-> Digit(a[j - 1] % base)]
  BY DEF LowDigits
<1> HIDE DEF p, a
<1>5. \A k \in 0 .. BUFFER : a[k] <= 0 <=> v < p[k]
  <2> SUFFICES ASSUME NEW k \in 0 .. BUFFER PROVE a[k] <= 0 <=> v < p[k]
    OBVIOUS
  <2> DEFINE x == p[k]
  <2>1. x \in Nat /\ x > 0 /\ a[k] = v \div x
    BY <1>1, <1>2
  <2> HIDE DEF x
  <2>2. v \div x <= 0 <=> v < x
    <3> DEFINE y == v \div x
               r == v % x
    <3>1. y \in Nat /\ r \in Nat /\ r < x /\ v = x * y + r
      BY <2>1
    <3> HIDE DEF y, r
    <3>2. CASE y = 0
      BY <2>1, <3>1, <3>2 DEF y
    <3>3. CASE y > 0
      <4>1. x * y >= x
        BY <2>1, <3>1, <3>3
      <4> QED BY <2>1, <3>1, <3>3, <4>1 DEF y
    <3> QED BY <3>1, <3>2, <3>3
  <2> QED BY <2>1, <2>2 DEF x
<1>6. K \subseteq Nat /\ n \in K
  BY <1>0, <1>3, <1>5
<1>7. c \in K /\ \A y \in K : c <= y
  <2> HIDE DEF K
  <2> QED BY <1>6, LeastInSet
<1> HIDE DEF c
<1>8. c = n
  <2>1. c \in 0 .. BUFFER /\ c <= n /\ v < p[c]
    BY <1>5, <1>6, <1>7
  <2>2. c # 0
    BY <1>1, <2>1
  <2>3. ~(c < n)
    <3> SUFFICES ASSUME c < n PROVE FALSE
      OBVIOUS
    <3>1. c \in 0 .. n - 1 /\ n - 1 \in 0 .. BUFFER /\ n > 1
      BY <1>0, <1>3, <2>1, <2>2
    <3>2. p[c] <= p[n - 1] /\ v >= p[n - 1] /\ p[c] \in Nat /\ p[n - 1] \in Nat
      BY <1>1, <1>3, <2>1, <3>1
    <3> QED BY <2>1, <3>2
  <2> QED BY <1>0, <1>3, <2>1, <2>3
<1>9. \A j \in 1 .. n : a[j - 1] = v \div p[j - 1]
  <2> SUFFICES ASSUME NEW j \in 1 .. n PROVE a[j - 1] = v \div p[j - 1]
    OBVIOUS
  <2>1. j - 1 \in 0 .. BUFFER
    BY <1>0, <1>3
  <2> QED BY <1>2, <2>1
<1>10. LowDigits(v, base) = [j \in 1 .. n |-> Digit((v \div p[j - 1]) % base)]
  BY <1>4, <1>8, <1>9
<1> QED BY <1>10 DEF p

\* The second loop turns them round.
LEMMA Reversed ==
    ASSUME NEW base \in Bases, NEW v \in Nat, v > 0, v < INT
    PROVE  Reverse(LowDigits(v, base)) = Numeral(v, base, BUFFER)
<1> DEFINE p == Power(base, BUFFER)
           ds == LowDigits(v, base)
<1>0. /\ BUFFER \in Nat /\ BUFFER > 0 /\ INT \in Nat /\ INT <= p[BUFFER]
      /\ p[BUFFER] \in Nat
  <2>1. BUFFER \in Nat /\ BUFFER > 0 /\ INT \in Nat /\ INT <= p[BUFFER]
    BY RoomForDigits
  <2>2. BUFFER \in 0 .. BUFFER
    BY <2>1
  <2>3. p[BUFFER] \in Nat
    BY <2>1, <2>2, PowersGrow
  <2> QED BY <2>1, <2>3
<1>1. v < p[BUFFER]
  BY <1>0
<1>2. PICK n : DigitCount(v, base, BUFFER, n)
  BY <1>0, <1>1, CountExists
<1>3. n \in 1 .. BUFFER
  BY <1>2 DEF DigitCount
<1>4. ds = [j \in 1 .. n |-> Digit((v \div p[j - 1]) % base)]
  BY <1>2, LowDigitsAre
<1>5. Numeral(v, base, BUFFER) = [i \in 1 .. n |-> Digit((v \div p[n - i]) % base)]
  BY <1>0, <1>2, NumeralIs
<1> HIDE DEF ds, p
<1>6. Len(ds) = n
  BY <1>3, <1>4
<1>7. \A i \in 1 .. n : ds[(n - i) + 1] = Digit((v \div p[n - i]) % base)
  <2> SUFFICES ASSUME NEW i \in 1 .. n
               PROVE  ds[(n - i) + 1] = Digit((v \div p[n - i]) % base)
    OBVIOUS
  <2>1. (n - i) + 1 \in 1 .. n /\ ((n - i) + 1) - 1 = n - i
    BY <1>3
  <2> QED BY <1>4, <2>1
<1>8. Reverse(ds) = [i \in 1 .. n |-> ds[(n - i) + 1]]
  BY <1>6 DEF Reverse
<1> QED BY <1>5, <1>7, <1>8 DEF ds

\* The numeral of 0 is 0.
LEMMA NumeralOfZero ==
    ASSUME NEW base \in Bases, NEW max \in Nat, max > 0, NEW v \in Nat, v = 0
    PROVE  Numeral(v, base, max) = <<"0">> /\ DigitCount(v, base, max, 1)
<1> DEFINE p == Power(base, max)
<1>1. \A k \in 0 .. max : p[k] \in Nat /\ p[k] > 0
  BY PowersGrow
<1>2. p[0] = 1
  BY PowerLoop
<1>3. DigitCount(v, base, max, 1)
  BY <1>1 DEF DigitCount
<1>4. Numeral(v, base, max) = [i \in 1 .. 1 |-> Digit((v \div p[1 - i]) % base)]
  <2> DEFINE one == 1
  <2>1. one = 1 /\ DigitCount(v, base, max, one)
    BY <1>3
  <2> HIDE DEF one
  <2>2. ASSUME NEW x \in Nat, DigitCount(x, base, max, one)
        PROVE  Numeral(x, base, max) = [i \in 1 .. one |-> Digit((x \div p[one - i]) % base)]
    BY ONLY <2>2, base \in Bases, max \in Nat, NumeralIs DEF p
  <2> QED BY <2>1, <2>2
<1> HIDE DEF p
<1>5. (v \div p[0]) % base = 0
  BY <1>2 DEF Bases
<1>6. Digit(0) = "0"
  BY DEF Digit, hex
<1>7. \A i \in 1 .. 1 : Digit((v \div p[1 - i]) % base) = "0"
  <2> SUFFICES ASSUME NEW i \in 1 .. 1 PROVE Digit((v \div p[1 - i]) % base) = "0"
    OBVIOUS
  <2>1. 1 - i = 0
    OBVIOUS
  <2> QED BY <1>5, <1>6, <2>1
<1>8. Numeral(v, base, max) = [i \in 1 .. 1 |-> "0"]
  BY <1>4, <1>7
<1>9. [i \in 1 .. 1 |-> "0"] = <<"0">>
  OBVIOUS
<1> QED BY <1>3, <1>8, <1>9

\* print_uint() and print_hex() print numerals.
LEMMA PrintNumberIs ==
    ASSUME NEW base \in Bases, NEW v \in Nat, v < INT
    PROVE  print_number(v, base) = Numeral(v, base, BUFFER)
<1>1. CASE v = 0
  BY <1>1, NumeralOfZero, RoomForDigits DEF print_number
<1>2. CASE v # 0
  BY <1>2, Reversed DEF print_number
<1> QED BY <1>1, <1>2

\* ints and their negatives.
LEMMA IntFacts ==
    /\ INT \in Nat /\ INT_MIN \in Int /\ INT_MIN < 0 /\ INT_MIN % INT = -INT_MIN
    /\ \A v \in Ints : v \in Int /\ INT_MIN <= v /\ v < INT /\ -v < INT
    /\ \A v \in Unsigneds : v \in Nat /\ v < INT
<1> DEFINE h == INT \div 2
<1>1. h \in Nat /\ INT = 2 * h /\ h > 0 /\ INT_MIN = -h
  BY WidthAssumption DEF INT_MIN
<1>2. Ints \subseteq -h .. h - 1 /\ Unsigneds \subseteq 0 .. INT - 1
  BY <1>1, WidthAssumption
<1> HIDE DEF h
<1>3. (-h) % (2 * h) = h
  <2>1. -h = (2 * h) * (-1) + h
    BY <1>1
  <2> QED BY <1>1, <2>1
<1> QED BY <1>1, <1>2, <1>3

\* putint() prints every int but the smallest.
LEMMA PutintIs ==
    ASSUME NEW v \in Ints
    PROVE  putint(v) = IF v = INT_MIN THEN <<"-">> ELSE Decimal(v)
<1>1. /\ INT \in Nat /\ INT_MIN \in Int /\ INT_MIN < 0
      /\ v \in Int /\ INT_MIN <= v /\ v < INT /\ -v < INT
  BY IntFacts
<1>2. CASE v = 0
  <2>1. putint(v) = <<"0">> /\ Decimal(v) = Numeral(v, 10, BUFFER)
    BY <1>2 DEF putint, Decimal
  <2>2. Numeral(v, 10, BUFFER) = <<"0">>
    BY <1>2, NumeralOfZero, RoomForDigits DEF Bases
  <2> QED BY <1>1, <1>2, <2>1, <2>2
<1>3. CASE v > 0
  <2>1. putint(v) = Reverse(LowDigits(v, 10)) /\ Decimal(v) = Numeral(v, 10, BUFFER)
    BY <1>1, <1>3 DEF putint, Decimal
  <2>2. Reverse(LowDigits(v, 10)) = Numeral(v, 10, BUFFER)
    BY <1>1, <1>3, Reversed DEF Bases
  <2> QED BY <1>1, <1>3, <2>1, <2>2
<1>4. CASE v < 0 /\ v # INT_MIN
  <2>1. /\ putint(v) = <<"-">> \o Reverse(LowDigits(-v, 10))
        /\ Decimal(v) = <<"-">> \o Numeral(-v, 10, BUFFER)
    BY <1>1, <1>4 DEF putint, Decimal, Negate
  <2>2. -v \in Nat /\ -v > 0
    BY <1>1, <1>4
  <2>3. Reverse(LowDigits(-v, 10)) = Numeral(-v, 10, BUFFER)
    BY <1>1, <2>2, Reversed DEF Bases
  <2> QED BY <1>4, <2>1, <2>3
<1>5. CASE v = INT_MIN
  <2> DEFINE ds == LowDigits(INT_MIN, 10)
             a == Divided(INT_MIN, 10, BUFFER)
             K == {k \in 0 .. BUFFER : a[k] <= 0}
             c == Min(K)
  <2>0. BUFFER \in Nat
    BY RoomForDigits
  <2>1. putint(v) = <<"-">> \o Reverse(ds)
    BY <1>1, <1>5 DEF putint, Negate
  <2>2. a[0] = INT_MIN
    BY <2>0, DividedLoop
  <2>3. ds = [j \in 1 .. c |-> Digit(a[j - 1] % 10)]
    BY DEF LowDigits
  <2> HIDE DEF a, ds
  <2>4. K \subseteq Nat /\ 0 \in K
    BY <1>1, <2>0, <2>2
  <2>5. c \in K /\ c <= 0
    <3> HIDE DEF K
    <3> QED BY <2>4, LeastInSet
  <2> HIDE DEF c
  <2>6. c = 0
    BY <2>4, <2>5
  <2>7. ds = << >>
    BY <2>3, <2>6
  <2>8. Reverse(<< >>) = << >>
    BY DEF Reverse
  <2>9. <<"-">> \o << >> = <<"-">>
    OBVIOUS
  <2> QED BY <1>5, <2>1, <2>7, <2>8, <2>9
<1> QED BY <1>1, <1>2, <1>3, <1>4, <1>5

-----------------------------------------------------------------------------
(* What the tokens stand for.                                              *)

\* The characters that occur in formats and in what is printed.
Chars == {"0", "1", "2", "3", "4", "5", "6", "7", "8", "9", "a", "b", "c", "d", "e", "f",
          "-", "x", "%", "(", "n", "u", "l", ")", "q", "s", "p"}

\* Digits are characters.
LEMMA DigitsAreChars ==
    ASSUME NEW base \in Bases, NEW x \in Int
    PROVE  Digit(x % base) \in Chars
<1>1. x % base \in 0 .. 15
  BY DEF Bases
<1>2. \A d \in 0 .. 15 : hex[d + 1] \in Chars
  BY DEF hex, Chars
<1> QED BY <1>1, <1>2 DEF Digit

\* A numeral is a text of as many digits as its number has.
LEMMA NumeralIsText ==
    ASSUME NEW base \in Bases, NEW v \in Nat, NEW max \in Nat, NEW n,
           DigitCount(v, base, max, n)
    PROVE  Numeral(v, base, max) \in Seq(Chars) /\ Len(Numeral(v, base, max)) = n /\ n \in Nat
<1> DEFINE p == Power(base, max)
           t == Numeral(v, base, max)
<1>1. t = [i \in 1 .. n |-> Digit((v \div p[n - i]) % base)]
  BY NumeralIs
<1>2. n \in 1 .. max
  BY DEF DigitCount
<1>3. \A i \in 1 .. n : Digit((v \div p[n - i]) % base) \in Chars
  <2> SUFFICES ASSUME NEW i \in 1 .. n PROVE Digit((v \div p[n - i]) % base) \in Chars
    OBVIOUS
  <2>1. n - i \in 0 .. max
    BY <1>2
  <2>2. p[n - i] \in Nat /\ p[n - i] > 0
    BY <2>1, PowersGrow
  <2> HIDE DEF p
  <2>3. v \div p[n - i] \in Int
    BY <2>2
  <2> QED BY <2>3, DigitsAreChars
<1> HIDE DEF p, t
<1>4. t \in [1 .. n -> Chars]
  BY <1>1, <1>3
<1>5. t \in Seq(Chars) /\ Len(t) = n
  BY <1>2, <1>4
<1> QED BY <1>2, <1>5 DEF t

\* A numeral of an int is a text.
LEMMA IntNumeral ==
    ASSUME NEW base \in Bases, NEW v \in Nat, v < INT
    PROVE  Numeral(v, base, BUFFER) \in Seq(Chars)
<1> DEFINE p == Power(base, BUFFER)
<1>1. BUFFER \in Nat /\ BUFFER > 0 /\ INT \in Nat /\ INT <= p[BUFFER]
  BY RoomForDigits
<1>2. p[BUFFER] \in Nat
  <2>1. BUFFER \in 0 .. BUFFER
    BY <1>1
  <2> QED BY <1>1, <2>1, PowersGrow
<1>3. v < p[BUFFER]
  BY <1>1, <1>2
<1>4. PICK n : DigitCount(v, base, BUFFER, n)
  BY <1>1, <1>3, CountExists
<1> QED BY <1>1, <1>4, NumeralIsText

\* Leading zeros.
Zeros(n) == [i \in 1 .. n |-> "0"]

\* putptr() prints the numeral with leading zeros, to its full width.
LEMMA PutptrIs ==
    ASSUME NEW v \in Pointers
    PROVE  LET digits == Numeral(v, 16, PTR_DIGITS)
           IN /\ putptr(v) = <<"0", "x">> \o Zeros(PTR_DIGITS - Len(digits)) \o digits
              /\ putptr(v) \in Seq(Chars)
<1> DEFINE P == PTR_DIGITS
           p == Power(16, P)
           a == Divided(v, 16, P)
           t == Numeral(v, 16, P)
           w == [i \in 1 .. P |-> Digit(a[P - i] % 16)]
<1>1. P \in Nat /\ P > 0 /\ 16 \in Bases
  BY WidthAssumption DEF Bases
<1>2. \A k \in 0 .. P : p[k] \in Nat /\ p[k] > 0
  BY <1>1, PowersGrow
<1>3. \A k \in 0 .. P : \A j \in 0 .. k : p[j] <= p[k]
  BY <1>1, PowersGrow
<1>4. v \in Nat /\ v < p[P]
  <2>1. v \in 0 .. p[P] - 1
    BY WidthAssumption
  <2>2. p[P] \in Nat
    BY <1>1, <1>2
  <2> HIDE DEF p
  <2> QED BY <2>1, <2>2
<1>5. PICK n : DigitCount(v, 16, P, n)
  BY <1>1, <1>4, CountExists
<1>6. n \in 1 .. P /\ v < p[n] /\ n \in Nat /\ P - n \in Nat
  BY <1>1, <1>5 DEF DigitCount
<1>7. t \in Seq(Chars) /\ Len(t) = n
  BY <1>1, <1>4, <1>5, NumeralIsText
<1>8. \A i \in 1 .. n : t[i] = Digit((v \div p[n - i]) % 16)
  <2>1. t = [i \in 1 .. n |-> Digit((v \div p[n - i]) % 16)]
    BY <1>1, <1>4, <1>5, NumeralIs
  <2> HIDE DEF t, p
  <2> QED BY <2>1
<1>9. \A k \in 0 .. P : a[k] = v \div p[k]
  BY <1>1, <1>4, DividedIs
<1>10. putptr(v) = <<"0", "x">> \o w
  BY DEF putptr
<1> HIDE DEF p, a, t
<1>11. ASSUME NEW i \in 1 .. P
       PROVE  Digit(a[P - i] % 16) = IF i <= P - n THEN "0" ELSE t[i - (P - n)]
  <2>1. P - i \in 0 .. P /\ a[P - i] = v \div p[P - i]
    BY <1>1, <1>9
  <2>2. CASE i <= P - n
    <3>1. P - i \in 0 .. P /\ n \in 0 .. P - i
      BY <1>1, <1>6, <2>2
    <3>2. p[n] <= p[P - i] /\ p[P - i] \in Nat /\ p[n] \in Nat /\ p[P - i] > 0
      BY <1>2, <1>3, <1>6, <3>1
    <3>3. v < p[P - i]
      BY <1>4, <1>6, <3>2
    <3>4. v \div p[P - i] = 0
      BY <1>4, <3>2, <3>3
    <3>5. a[P - i] % 16 = 0
      BY <2>1, <3>4
    <3>6. Digit(0) = "0"
      BY DEF Digit, hex
    <3> QED BY <2>2, <3>5, <3>6
  <2>3. CASE ~(i <= P - n)
    <3> DEFINE j == i - (P - n)
    <3>1. j \in 1 .. n /\ n - j = P - i
      BY <1>1, <1>6, <2>3
    <3> HIDE DEF j
    <3>2. t[j] = Digit((v \div p[n - j]) % 16)
      BY <1>8, <3>1
    <3> QED BY <2>1, <2>3, <3>1, <3>2 DEF j
  <2> QED BY <2>2, <2>3
<1> DEFINE z == Zeros(P - n)
<1>12. z \in Seq(Chars) /\ Len(z) = P - n /\ \A i \in 1 .. P - n : z[i] = "0"
  <2>1. z = [i \in 1 .. P - n |-> "0"]
    BY DEF Zeros
  <2> HIDE DEF z
  <2>2. z \in [1 .. P - n -> Chars]
    BY <2>1 DEF Chars
  <2>3. z \in Seq(Chars) /\ Len(z) = P - n
    BY <1>6, <2>2
  <2> QED BY <2>1, <2>3
<1> HIDE DEF z
<1>13. /\ z \o t \in Seq(Chars) /\ Len(z \o t) = P
       /\ \A i \in 1 .. P : (z \o t)[i] = IF i <= P - n THEN "0" ELSE t[i - (P - n)]
  <2>1. /\ z \o t \in Seq(Chars) /\ Len(z \o t) = Len(z) + Len(t)
        /\ \A i \in 1 .. Len(z) + Len(t) :
              (z \o t)[i] = IF i <= Len(z) THEN z[i] ELSE t[i - Len(z)]
    BY <1>7, <1>12, ConcatProperties
  <2>2. Len(z) + Len(t) = P
    BY <1>1, <1>6, <1>7, <1>12
  <2>3. ASSUME NEW i \in 1 .. P
        PROVE  (z \o t)[i] = IF i <= P - n THEN "0" ELSE t[i - (P - n)]
    <3>1. (z \o t)[i] = IF i <= P - n THEN z[i] ELSE t[i - (P - n)]
      BY <1>12, <2>1, <2>2
    <3>2. i <= P - n => z[i] = "0"
      BY <1>6, <1>12
    <3> QED BY <3>1, <3>2
  <2> QED BY <2>1, <2>2, <2>3
<1> DEFINE u == z \o t
<1>14. DOMAIN u = 1 .. P /\ u = [i \in 1 .. P |-> u[i]]
  <2> HIDE DEF u
  <2>1. u \in Seq(Chars) /\ Len(u) = P
    BY <1>13 DEF u
  <2> QED BY <2>1
<1>15. w = u
  <2>1. \A i \in 1 .. P : u[i] = Digit(a[P - i] % 16)
    BY <1>11, <1>13
  <2> HIDE DEF u
  <2> QED BY <1>14, <2>1
<1>16. <<"0", "x">> \in Seq(Chars)
  BY DEF Chars
<1> HIDE DEF w
<1>17. (<<"0", "x">> \o z) \o t = <<"0", "x">> \o (z \o t)
  BY <1>7, <1>12, <1>16, ConcatAssociative
<1>18. putptr(v) = (<<"0", "x">> \o z) \o t
  BY <1>10, <1>15, <1>17
<1>19. putptr(v) \in Seq(Chars)
  BY <1>10, <1>13, <1>15, <1>16, ConcatProperties
<1> QED BY <1>7, <1>18, <1>19 DEF t, z

\* What an argument may be.
Values == Int \cup Chars

\* The tokens of a format.
Tokens ==
    {Literal("d"), LonePercent, Conversion("%", << >>), Conversion("q", << >>),
     Conversion("c", <<"%">>)}
    \cup {Conversion("s", <<x>>) : x \in 0 .. Len(Texts)}
    \cup {Conversion("d", <<x>>) : x \in Ints}
    \cup {Conversion("u", <<x>>) : x \in Unsigneds}
    \cup {Conversion("x", <<x>>) : x \in Unsigneds}
    \cup {Conversion("p", <<x>>) : x \in Pointers}

\* A token as printf() sees it, and what it stands for.
PlainToken(t) == t.fmt = <<"d">> /\ t.args = << >> /\ Meaning(t) = <<"d">> /\ t.kind # "lone"
LoneToken(t) == t.fmt = <<"%">> /\ t.args = << >> /\ Meaning(t) = << >>
ConvToken(t, c) ==
    /\ t.fmt = <<"%", c>> /\ c \in Chars /\ t.kind # "lone"
    /\ t.args \in Seq(Values) /\ Len(t.args) = Takes(c)
    /\ \A a : (Takes(c) = 1 => a = t.args[1]) => Expansion(c, a) = Meaning(t)
    /\ Meaning(t) \in Seq(Chars)

\* printf() prints a number as the token means it.
LEMMA NumberTokens ==
    /\ \A x \in Ints : Convert("d", x) = Decimal(x) /\ Decimal(x) \in Seq(Chars)
    /\ \A x \in Unsigneds : /\ Convert("u", x) = Numeral(x, 10, BUFFER)
                            /\ Convert("x", x) = Numeral(x, 16, BUFFER)
                            /\ Numeral(x, 10, BUFFER) \in Seq(Chars)
                            /\ Numeral(x, 16, BUFFER) \in Seq(Chars)
<1>0. 10 \in Bases /\ 16 \in Bases
  BY DEF Bases
<1>1. ASSUME NEW x \in Unsigneds
      PROVE  /\ Convert("u", x) = Numeral(x, 10, BUFFER)
             /\ Convert("x", x) = Numeral(x, 16, BUFFER)
             /\ Numeral(x, 10, BUFFER) \in Seq(Chars)
             /\ Numeral(x, 16, BUFFER) \in Seq(Chars)
  <2>1. x \in Nat /\ x < INT
    BY IntFacts
  <2>2. Convert("u", x) = print_number(x, 10) /\ Convert("x", x) = print_number(x, 16)
    BY DEF Convert
  <2> QED BY <1>0, <2>1, <2>2, PrintNumberIs, IntNumeral
<1>2. ASSUME NEW x \in Ints
      PROVE  Convert("d", x) = Decimal(x) /\ Decimal(x) \in Seq(Chars)
  <2>1. /\ INT \in Nat /\ INT_MIN \in Int /\ INT_MIN < 0 /\ INT_MIN % INT = -INT_MIN
        /\ x \in Int /\ INT_MIN <= x /\ x < INT /\ -x < INT
    BY IntFacts
  <2>2. Convert("d", x) = IF x < 0 THEN <<"-">> \o print_number(Negate(x) % INT, 10)
                          ELSE print_number(x, 10)
    BY DEF Convert
  <2>3. CASE x < 0
    <3>1. -x \in Nat /\ -x < INT
      BY <2>1, <2>3
    <3>2. Negate(x) % INT = -x
      <4>1. CASE x = INT_MIN
        BY <2>1, <4>1 DEF Negate
      <4>2. CASE x # INT_MIN
        <5>1. (-x) % INT = -x
          BY <2>1, <3>1
        <5> QED BY <4>2, <5>1 DEF Negate
      <4> QED BY <4>1, <4>2
    <3>3. print_number(-x, 10) = Numeral(-x, 10, BUFFER) /\ Numeral(-x, 10, BUFFER) \in Seq(Chars)
      BY <1>0, <3>1, PrintNumberIs, IntNumeral
    <3>4. Decimal(x) = <<"-">> \o Numeral(-x, 10, BUFFER)
      BY <2>3 DEF Decimal
    <3>5. <<"-">> \in Seq(Chars)
      BY DEF Chars
    <3>6. <<"-">> \o Numeral(-x, 10, BUFFER) \in Seq(Chars)
      BY <3>3, <3>5, ConcatProperties
    <3> QED BY <2>2, <2>3, <3>2, <3>3, <3>4, <3>6
  <2>4. CASE ~(x < 0)
    <3>1. x \in Nat
      BY <2>1, <2>4
    <3>2. print_number(x, 10) = Numeral(x, 10, BUFFER) /\ Numeral(x, 10, BUFFER) \in Seq(Chars)
      BY <1>0, <2>1, <3>1, PrintNumberIs, IntNumeral
    <3>3. Decimal(x) = Numeral(x, 10, BUFFER)
      BY <2>4 DEF Decimal
    <3> QED BY <2>2, <2>4, <3>2, <3>3
  <2> QED BY <2>3, <2>4
<1> QED BY <1>1, <1>2

\* Every token is one of the three.
LEMMA TokenIs ==
    ASSUME NEW t \in Tokens
    PROVE  PlainToken(t) \/ (LoneToken(t) /\ t.kind = "lone") \/ \E c : ConvToken(t, c)
<1>0. << >> \in Seq(Values) /\ Len(<< >>) = 0
  OBVIOUS
<1>1. CASE t = Literal("d")
  <2>1. t.fmt = <<"d">> /\ t.args = << >> /\ t.kind = "literal"
    BY <1>1 DEF Literal
  <2>2. Meaning(t) = t.fmt
    BY <2>1 DEF Meaning
  <2> QED BY <2>1, <2>2 DEF PlainToken
<1>2. CASE t = LonePercent
  <2>1. t.fmt = <<"%">> /\ t.args = << >> /\ t.kind = "lone"
    BY <1>2 DEF LonePercent
  <2>2. Meaning(t) = << >>
    BY <2>1 DEF Meaning
  <2> QED BY <2>1, <2>2 DEF LoneToken
<1>3. CASE t = Conversion("%", << >>)
  <2>1. t.fmt = <<"%", "%">> /\ t.args = << >> /\ t.kind = "%"
    BY <1>3 DEF Conversion
  <2>2. Meaning(t) = <<"%">> /\ <<"%">> \in Seq(Chars)
    BY <2>1 DEF Meaning, Chars
  <2>3. Takes("%") = 0 /\ \A a : Expansion("%", a) = <<"%">>
    BY DEF Takes, Expansion, Conversions
  <2>4. ConvToken(t, "%")
    BY <1>0, <2>1, <2>2, <2>3 DEF ConvToken, Chars
  <2> QED BY <2>4
<1>4. CASE t = Conversion("q", << >>)
  <2>1. t.fmt = <<"%", "q">> /\ t.args = << >> /\ t.kind = "q"
    BY <1>4 DEF Conversion
  <2>2. Meaning(t) = <<"%", "q">> /\ <<"%", "q">> \in Seq(Chars)
    BY <2>1 DEF Meaning, Chars
  <2>3. Takes("q") = 0 /\ \A a : Expansion("q", a) = <<"%", "q">>
    BY DEF Takes, Expansion, Conversions
  <2>4. ConvToken(t, "q")
    BY <1>0, <2>1, <2>2, <2>3 DEF ConvToken, Chars
  <2> QED BY <2>4
<1>5. ASSUME NEW c \in Conversions, NEW x \in Values, t = Conversion(c, <<x>>),
             Convert(c, x) = Meaning(t), Meaning(t) \in Seq(Chars)
      PROVE  ConvToken(t, c)
  <2>1. t.fmt = <<"%", c>> /\ t.args = <<x>> /\ t.kind = c
    BY <1>5 DEF Conversion
  <2>2. Takes(c) = 1 /\ \A a : Expansion(c, a) = Convert(c, a)
    BY <1>5 DEF Takes, Expansion
  <2>3. t.args \in Seq(Values) /\ Len(t.args) = 1 /\ t.args[1] = x
    <3>1. <<x>> \in Seq(Values) /\ Len(<<x>>) = 1 /\ <<x>>[1] = x
      OBVIOUS
    <3> QED BY <2>1, <3>1
  <2>4. c \in Chars /\ c # "lone"
    BY <1>5 DEF Conversions, Chars
  <2>5. \A a : (Takes(c) = 1 => a = t.args[1]) => Expansion(c, a) = Meaning(t)
    BY <1>5, <2>2, <2>3
  <2> QED BY <1>5, <2>1, <2>2, <2>3, <2>4, <2>5 DEF ConvToken
<1>6. CASE t = Conversion("c", <<"%">>)
  <2>1. t.args = <<"%">> /\ t.kind = "c"
    BY <1>6 DEF Conversion
  <2>2. Meaning(t) = <<"%">> /\ <<"%">> \in Seq(Chars)
    BY <2>1 DEF Meaning, Chars
  <2>3. Convert("c", "%") = <<"%">>
    BY DEF Convert
  <2>4. "c" \in Conversions /\ "%" \in Values
    BY DEF Conversions, Values, Chars
  <2> QED BY <1>5, <1>6, <2>2, <2>3, <2>4
<1>7. ASSUME NEW x \in 0 .. Len(Texts), t = Conversion("s", <<x>>) PROVE ConvToken(t, "s")
  <2>1. t.args = <<x>> /\ t.kind = "s" /\ t.args[1] = x
    BY <1>7 DEF Conversion
  <2>2. "s" \in Conversions /\ x \in Values
    BY DEF Conversions, Values, Texts
  <2>3. CASE x = 0
    <3>1. Meaning(t) = <<"(", "n", "u", "l", "l", ")">>
      BY <2>1, <2>3 DEF Meaning
    <3>2. Convert("s", x) = <<"(", "n", "u", "l", "l", ")">>
      BY <2>3 DEF Convert
    <3>3. <<"(", "n", "u", "l", "l", ")">> \in Seq(Chars)
      BY DEF Chars
    <3> QED BY <1>5, <1>7, <2>2, <3>1, <3>2, <3>3
  <2>4. CASE x # 0
    <3>1. <<x>> # <<0>>
      BY <2>4
    <3>2. Meaning(t) = Texts[x]
      BY <2>1, <3>1 DEF Meaning
    <3>3. Convert("s", x) = Texts[x]
      BY <2>4 DEF Convert
    <3>4. Texts[x] \in Seq(Chars)
      <4>1. x \in 1 .. 2
        BY <2>4 DEF Texts
      <4>2. << >> \in Seq(Chars) /\ <<"%", "d">> \in Seq(Chars)
        BY DEF Chars
      <4>3. Texts[1] = << >> /\ Texts[2] = <<"%", "d">>
        BY DEF Texts
      <4>4. x = 1 \/ x = 2
        BY <4>1
      <4> QED BY <4>2, <4>3, <4>4
    <3> QED BY <1>5, <1>7, <2>2, <3>2, <3>3, <3>4
  <2> QED BY <2>3, <2>4
<1>8. ASSUME NEW x \in Ints, t = Conversion("d", <<x>>) PROVE ConvToken(t, "d")
  <2>1. t.args = <<x>> /\ t.kind = "d" /\ t.args[1] = x
    BY <1>8 DEF Conversion
  <2>2. "d" \in Conversions /\ x \in Values
    BY IntFacts DEF Conversions, Values
  <2>3. Meaning(t) = Decimal(x)
    BY <2>1 DEF Meaning
  <2> QED BY <1>5, <1>8, <2>2, <2>3, NumberTokens
<1>9. ASSUME NEW x \in Unsigneds, t = Conversion("u", <<x>>) PROVE ConvToken(t, "u")
  <2>1. t.args = <<x>> /\ t.kind = "u" /\ t.args[1] = x
    BY <1>9 DEF Conversion
  <2>2. "u" \in Conversions /\ x \in Values
    BY IntFacts DEF Conversions, Values
  <2>3. Meaning(t) = Numeral(x, 10, BUFFER)
    BY <2>1 DEF Meaning
  <2> QED BY <1>5, <1>9, <2>2, <2>3, NumberTokens
<1>10. ASSUME NEW x \in Unsigneds, t = Conversion("x", <<x>>) PROVE ConvToken(t, "x")
  <2>1. t.args = <<x>> /\ t.kind = "x" /\ t.args[1] = x
    BY <1>10 DEF Conversion
  <2>2. "x" \in Conversions /\ x \in Values
    BY IntFacts DEF Conversions, Values
  <2>3. Meaning(t) = Numeral(x, 16, BUFFER)
    BY <2>1 DEF Meaning
  <2> QED BY <1>5, <1>10, <2>2, <2>3, NumberTokens
<1>11. ASSUME NEW x \in Pointers, t = Conversion("p", <<x>>) PROVE ConvToken(t, "p")
  <2> DEFINE ds == Numeral(x, 16, PTR_DIGITS)
             out == <<"0", "x">> \o Zeros(PTR_DIGITS - Len(ds)) \o ds
  <2>1. t.args = <<x>> /\ t.kind = "p" /\ t.args[1] = x
    BY <1>11 DEF Conversion
  <2>2. "p" \in Conversions /\ x \in Values
    <3>1. x \in 0 .. Power(16, PTR_DIGITS)[PTR_DIGITS] - 1
      BY WidthAssumption
    <3>2. x \in Int
      BY <3>1
    <3> QED BY <3>2 DEF Conversions, Values
  <2>3. Meaning(t) = out
    BY <2>1 DEF Meaning, Zeros
  <2>4. putptr(x) = out /\ putptr(x) \in Seq(Chars)
    BY PutptrIs
  <2>5. Convert("p", x) = putptr(x)
    BY DEF Convert
  <2> HIDE DEF out
  <2> QED BY <1>5, <1>11, <2>2, <2>3, <2>4, <2>5
<1>12. \/ t \in {Literal("d"), LonePercent, Conversion("%", << >>), Conversion("q", << >>),
                 Conversion("c", <<"%">>)}
       \/ \E x \in 0 .. Len(Texts) : t = Conversion("s", <<x>>)
       \/ \E x \in Ints : t = Conversion("d", <<x>>)
       \/ \E x \in Unsigneds : t = Conversion("u", <<x>>)
       \/ \E x \in Unsigneds : t = Conversion("x", <<x>>)
       \/ \E x \in Pointers : t = Conversion("p", <<x>>)
  BY Zenon DEF Tokens
<1> QED BY <1>1, <1>2, <1>3, <1>4, <1>6, <1>7, <1>8, <1>9, <1>10, <1>11, <1>12

-----------------------------------------------------------------------------
(* Sequences of texts.                                                     *)

\* F[k] is the first k of the texts, one after the other.
FlatOf(F, seqs, D) ==
    /\ F \in [0 .. Len(seqs) -> Seq(D)] /\ F[0] = << >>
    /\ \A i \in 1 .. Len(seqs) : F[i] = F[i - 1] \o seqs[i]
    /\ FlattenSeq(seqs) = F[Len(seqs)]

\* FlattenSeq() puts them together one by one.
LEMMA FlattenRuns ==
    ASSUME NEW D, NEW seqs, NEW N \in Nat, seqs \in [1 .. N -> Seq(D)], Len(seqs) = N,
           N = 0 => seqs = << >>
    PROVE  \E F : FlatOf(F, seqs, D)
<1> DEFINE V == Seq(D)
           G == [vi \in V \X (1 .. N) |-> vi[1] \o seqs[vi[2]]]
<1>1. CASE N = 0
  <2> DEFINE F == [k \in 0 .. 0 |-> << >>]
  <2>1. << >> \in V
    OBVIOUS
  <2> HIDE DEF V
  <2>2. F \in [0 .. 0 -> V] /\ F[0] = << >>
    BY <2>1
  <2>3. FlattenSeq(seqs) = << >>
    BY <1>1 DEF FlattenSeq
  <2> HIDE DEF F
  <2>4. FlatOf(F, seqs, D)
    BY <1>1, <2>2, <2>3 DEF FlatOf, V
  <2> QED BY <2>4
<1>2. CASE N # 0
  <2>1. \A i \in 1 .. N : seqs[i] \in V
    OBVIOUS
  <2> HIDE DEF V
  <2>2. G \in [V \X (1 .. N) -> V]
    BY <2>1, ConcatProperties DEF V
  <2>3. seqs[1] \in V
    BY <1>2, <2>1
  <2>4. PICK f \in [1 .. N -> V] :
          \A i \in 1 .. N : f[i] = IF i = 1 THEN seqs[1] ELSE G[<<f[i - 1], i>>]
    <3> HIDE DEF G
    <3>1. Loop(V, N, seqs[1], G) # {}
      BY <2>2, <2>3, LoopExists
    <3> QED BY <3>1 DEF Loop
  <2>5. \A i \in 1 .. N : i # 1 => G[<<f[i - 1], i>>] = f[i - 1] \o seqs[i]
    <3> SUFFICES ASSUME NEW i \in 1 .. N, i # 1
                 PROVE  G[<<f[i - 1], i>>] = f[i - 1] \o seqs[i]
      OBVIOUS
    <3>1. i - 1 \in 1 .. N
      OBVIOUS
    <3>2. <<f[i - 1], i>> \in V \X (1 .. N)
      BY <3>1
    <3> QED BY <3>2
  <2> HIDE DEF G
  <2>6. \A i \in 1 .. N : f[i] = IF i = 1 THEN seqs[i] ELSE f[i - 1] \o seqs[i]
    BY <2>4, <2>5
  <2>7. f = [i \in 1 .. N |-> IF i = 1 THEN seqs[i] ELSE f[i - 1] \o seqs[i]]
    BY <2>6
  <2> DEFINE C == CHOOSE flatten : flatten = [i \in 1 .. N |->
                      IF i = 1 THEN seqs[i] ELSE flatten[i - 1] \o seqs[i]]
  <2>8. C = [i \in 1 .. N |-> IF i = 1 THEN seqs[i] ELSE C[i - 1] \o seqs[i]]
    BY <2>7
  <2>9. FlattenSeq(seqs) = C[N]
    BY <1>2 DEF FlattenSeq
  <2> HIDE DEF C
  <2>10. \A i \in 1 .. N : C[i] = IF i = 1 THEN seqs[i] ELSE C[i - 1] \o seqs[i]
    BY <2>8
  <2> DEFINE F == [k \in 0 .. N |-> IF k = 0 THEN << >> ELSE C[k]]
  <2>11. F[0] = << >> /\ \A k \in 1 .. N : F[k] = C[k]
    OBVIOUS
  <2>12. F = [k \in 0 .. N |-> F[k]]
    OBVIOUS
  <2> HIDE DEF F
  <2>13. ASSUME NEW i \in 1 .. N PROVE F[i] = F[i - 1] \o seqs[i]
    <3>1. CASE i = 1
      <4>1. F[i] = seqs[i] /\ F[i - 1] = << >>
        BY <2>10, <2>11, <3>1
      <4>2. << >> \o seqs[i] = seqs[i]
        BY <2>1, ConcatEmptySeq DEF V
      <4> QED BY <4>1, <4>2
    <3>2. CASE i # 1
      <4>1. i - 1 \in 1 .. N
        BY <3>2
      <4>2. F[i] = C[i] /\ F[i - 1] = C[i - 1]
        BY <2>11, <4>1
      <4> QED BY <2>10, <3>2, <4>2
    <3> QED BY <3>1, <3>2
  <2> DEFINE S == {k \in 0 .. N : F[k] \notin V}
  <2>14. ASSUME NEW m \in S PROVE \E k \in S : k < m
    <3>0. << >> \in V
      BY DEF V
    <3>1. m # 0
      BY <2>11, <3>0
    <3>2. m \in 1 .. N /\ m - 1 \in 0 .. N /\ m - 1 < m
      BY <3>1
    <3>3. F[m] = F[m - 1] \o seqs[m] /\ seqs[m] \in V /\ F[m] \notin V
      BY <2>1, <2>13, <3>2
    <3>4. F[m - 1] \notin V
      BY <3>3, ConcatProperties DEF V
    <3> QED BY <3>2, <3>4
  <2>15. S = {}
    <3>1. S \subseteq Nat
      OBVIOUS
    <3> HIDE DEF S
    <3> QED BY <2>14, <3>1, NoLeast
  <2>16. F \in [0 .. N -> V]
    BY <2>12, <2>15
  <2>17. FlattenSeq(seqs) = F[N]
    BY <1>2, <2>9, <2>11
  <2>18. FlatOf(F, seqs, D)
    BY <2>11, <2>13, <2>16, <2>17 DEF FlatOf, V
  <2> QED BY <2>18
<1> QED BY <1>1, <1>2

\* Two texts, one after the other.
LEMMA Halves ==
    ASSUME NEW D, NEW s \in Seq(D), NEW t \in Seq(D), NEW u, u = s \o t
    PROVE  /\ u \in Seq(D) /\ Len(u) = Len(s) + Len(t)
           /\ \A k \in 1 .. Len(s) : u[k] = s[k]
           /\ \A k \in 1 .. Len(t) : u[Len(s) + k] = t[k]
OBVIOUS

\* Each of N texts lies in the whole, behind the ones before it.
LiesFlat(F, seqs, N) ==
    /\ \A k \in 0 .. N : Len(F[k]) \in Nat /\ Len(F[k]) <= Len(F[N])
    /\ \A k \in 1 .. N : /\ Len(F[k]) = Len(F[k - 1]) + Len(seqs[k])
                         /\ \A j \in 1 .. Len(seqs[k]) : F[N][Len(F[k - 1]) + j] = seqs[k][j]

\* They do.
LEMMA FlatLies ==
    ASSUME NEW D, NEW seqs, NEW N \in Nat, seqs \in [1 .. N -> Seq(D)], Len(seqs) = N,
           NEW F, FlatOf(F, seqs, D)
    PROVE  LiesFlat(F, seqs, N)
<1>1. /\ F \in [0 .. N -> Seq(D)] /\ F[0] = << >>
      /\ \A i \in 1 .. N : F[i] = F[i - 1] \o seqs[i]
  BY DEF FlatOf
<1>2. ASSUME NEW k \in 1 .. N
      PROVE  /\ Len(F[k]) = Len(F[k - 1]) + Len(seqs[k])
             /\ Len(F[k]) \in Nat /\ Len(F[k - 1]) \in Nat /\ Len(seqs[k]) \in Nat
             /\ \A j \in 1 .. Len(F[k - 1]) : F[k][j] = F[k - 1][j]
             /\ \A j \in 1 .. Len(seqs[k]) : F[k][Len(F[k - 1]) + j] = seqs[k][j]
  <2>1. k - 1 \in 0 .. N /\ k \in 0 .. N
    OBVIOUS
  <2>2. F[k - 1] \in Seq(D) /\ seqs[k] \in Seq(D) /\ F[k] = F[k - 1] \o seqs[k]
    BY <1>1, <2>1
  <2>3. /\ F[k] \in Seq(D) /\ Len(F[k]) = Len(F[k - 1]) + Len(seqs[k])
        /\ \A j \in 1 .. Len(F[k - 1]) : F[k][j] = F[k - 1][j]
        /\ \A j \in 1 .. Len(seqs[k]) : F[k][Len(F[k - 1]) + j] = seqs[k][j]
    BY <2>2, Halves
  <2> QED BY <2>2, <2>3
<1> DEFINE Pre(k) == Len(F[k]) <= Len(F[N]) /\ \A j \in 1 .. Len(F[k]) : F[N][j] = F[k][j]
           S == {i \in 0 .. N : ~Pre(N - i)}
<1>3. \A k \in 0 .. N : Len(F[k]) \in Nat
  BY <1>1
<1>4. ASSUME NEW m \in S PROVE \E i \in S : i < m
  <2>1. m # 0
    <3>1. Pre(N)
      BY <1>3
    <3> HIDE DEF Pre
    <3>2. N - 0 = N
      OBVIOUS
    <3> QED BY <3>1, <3>2
  <2> DEFINE k == N - (m - 1)
  <2>2. k \in 1 .. N /\ k - 1 = N - m /\ k \in 0 .. N /\ k - 1 \in 0 .. N
    BY <2>1
  <2>3. ~Pre(k - 1)
    <3>1. ~Pre(N - m)
      OBVIOUS
    <3> HIDE DEF Pre, k
    <3> QED BY <2>2, <3>1
  <2> HIDE DEF k
  <2>4. ~Pre(k)
    <3> SUFFICES ASSUME Pre(k) PROVE FALSE
      OBVIOUS
    <3>1. /\ Len(F[k]) = Len(F[k - 1]) + Len(seqs[k])
          /\ Len(F[k]) \in Nat /\ Len(F[k - 1]) \in Nat /\ Len(seqs[k]) \in Nat
          /\ \A j \in 1 .. Len(F[k - 1]) : F[k][j] = F[k - 1][j]
      BY <1>2, <2>2
    <3>2. Len(F[N]) \in Nat
      BY <1>3
    <3>a. PICK a \in Nat, b \in Nat, c \in Nat, d \in Nat :
            a = Len(F[k]) /\ b = Len(F[k - 1]) /\ c = Len(seqs[k]) /\ d = Len(F[N])
      BY <3>1, <3>2
    <3>b. a = b + c /\ a <= d
      BY <3>1, <3>a
    <3>3. Len(F[k - 1]) <= Len(F[N])
      <4>1. b <= d
        BY <3>b
      <4> QED BY <3>a, <4>1, Zenon
    <3>4. ASSUME NEW j \in 1 .. Len(F[k - 1]) PROVE F[N][j] = F[k - 1][j]
      <4>1. j \in 1 .. b
        BY <3>a
      <4>2. j \in 1 .. a
        BY <3>b, <4>1
      <4>3. j \in 1 .. Len(F[k])
        BY <3>a, <4>2
      <4> QED BY <3>1, <4>3
    <3> QED BY <2>3, <3>3, <3>4
  <2>5. m - 1 \in 0 .. N /\ m - 1 < m
    BY <2>1
  <2> HIDE DEF Pre
  <2>6. m - 1 \in S
    BY <2>4, <2>5 DEF k
  <2> QED BY <2>5, <2>6
<1>5. S = {}
  <2>1. S \subseteq Nat
    OBVIOUS
  <2> HIDE DEF S
  <2> QED BY <1>4, <2>1, NoLeast
<1>6. \A k \in 0 .. N : Pre(k)
  <2> HIDE DEF Pre
  <2> SUFFICES ASSUME NEW k \in 0 .. N PROVE Pre(k)
    OBVIOUS
  <2>1. N - k \in 0 .. N /\ N - (N - k) = k
    OBVIOUS
  <2> QED BY <1>5, <2>1
<1>7. ASSUME NEW k \in 1 .. N, NEW j \in 1 .. Len(seqs[k])
      PROVE  F[N][Len(F[k - 1]) + j] = seqs[k][j]
  <2>1. /\ Len(F[k]) = Len(F[k - 1]) + Len(seqs[k])
        /\ Len(F[k]) \in Nat /\ Len(F[k - 1]) \in Nat /\ Len(seqs[k]) \in Nat
        /\ F[k][Len(F[k - 1]) + j] = seqs[k][j]
    BY <1>2
  <2>2. Len(F[k - 1]) + j \in 1 .. Len(F[k])
    BY <2>1
  <2>3. Pre(k)
    BY <1>6
  <2> QED BY <2>1, <2>2, <2>3
<1> QED BY <1>2, <1>3, <1>6, <1>7 DEF LiesFlat

-----------------------------------------------------------------------------
(* printf().                                                               *)

\* A format consists of tokens; a lone % is the last one.
TokensInv ==
    /\ tokens \in Seq(Tokens)
    /\ \A i \in 1 .. Len(tokens) - 1 : tokens[i].kind # "lone"

\* Writing keeps it so.
THEOREM TokensInvariant == PrintfSpec => []TokensInv
<1>1. PrintfInit => TokensInv
  BY DEF PrintfInit, TokensInv
<1>2. TokensInv /\ [PrintfNext]_tokens => TokensInv'
  <2> SUFFICES ASSUME TokensInv, [PrintfNext]_tokens PROVE TokensInv'
    OBVIOUS
  <2>1. CASE UNCHANGED tokens
    BY <2>1 DEF TokensInv
  <2>2. CASE PrintfNext
    <3>1. PICK t \in Tokens : Write(t)
      <4>1. \/ Write(Literal("d")) \/ Write(LonePercent)
            \/ Write(Conversion("%", << >>)) \/ Write(Conversion("q", << >>))
            \/ Write(Conversion("c", <<"%">>))
            \/ \E x \in 0 .. Len(Texts) : Write(Conversion("s", <<x>>))
            \/ \E x \in Ints : Write(Conversion("d", <<x>>))
            \/ \E x \in Unsigneds : Write(Conversion("u", <<x>>)) \/ Write(Conversion("x", <<x>>))
            \/ \E x \in Pointers : Write(Conversion("p", <<x>>))
        BY <2>2, Zenon DEF PrintfNext
      <4> QED BY <4>1, Zenon DEF Tokens
    <3>2. /\ tokens \in Seq(Tokens) /\ tokens' = Append(tokens, t)
          /\ \A i \in DOMAIN tokens : tokens[i].kind # "lone"
      BY <3>1 DEF Write, TokensInv
    <3>3. /\ tokens' \in Seq(Tokens) /\ Len(tokens') = Len(tokens) + 1
          /\ \A i \in 1 .. Len(tokens) : tokens'[i] = tokens[i]
      BY <3>2, AppendProperties
    <3>4. \A i \in 1 .. Len(tokens') - 1 : tokens'[i].kind # "lone"
      <4> SUFFICES ASSUME NEW i \in 1 .. Len(tokens') - 1 PROVE tokens'[i].kind # "lone"
        OBVIOUS
      <4>1. i \in 1 .. Len(tokens) /\ i \in DOMAIN tokens
        BY <3>2, <3>3
      <4> QED BY <3>2, <3>3, <4>1
    <3> QED BY <3>3, <3>4 DEF TokensInv
  <2> QED BY <2>1, <2>2
<1> QED BY <1>1, <1>2, PTL DEF PrintfSpec

\* printf() before its first turn.
PrintStart == [p |-> 1, arg |-> 1, out |-> << >>]

\* Its turns.
PrintTurns(f, fmt, args, R) ==
    /\ f[0] = PrintStart
    /\ \A k \in 1 .. R : f[k] = PrintTurn(fmt, args, f[k - 1])
    /\ printf(fmt, args) = f[R].out

\* printf() is the sequence of its turns.
LEMMA PrintLoop ==
    ASSUME NEW fmt, NEW args, NEW R \in Nat, R = Len(fmt)
    PROVE  \E f : PrintTurns(f, fmt, args, R)
<1> DEFINE Start == PrintStart
<1> HIDE DEF Start
<1> DEFINE Is(f, N) == f = [k \in 0 .. N |-> IF k = 0 THEN Start ELSE PrintTurn(fmt, args, f[k - 1])]
           S == {N \in Nat : ~ \E f : Is(f, N)}
<1>1. ASSUME NEW N \in S PROVE \E k \in S : k < N
  <2>1. N # 0
    <3> DEFINE f == [k \in 0 .. 0 |-> Start]
    <3>1. Is(f, 0)
      BY Z3
    <3> HIDE DEF f, Is
    <3> QED BY <3>1
  <2>2. CASE \E f : Is(f, N - 1)
    <3>1. PICK f : Is(f, N - 1)
      BY <2>2
    <3> DEFINE final == PrintTurn(fmt, args, f[N - 1])
    <3> HIDE DEF final
    <3> DEFINE g == [k \in 0 .. N |-> IF k < N THEN f[k] ELSE final]
    <3>2. ASSUME NEW k \in 0 .. N
          PROVE  g[k] = IF k = 0 THEN Start ELSE PrintTurn(fmt, args, g[k - 1])
      <4>1. CASE k < N
        <5>1. k \in 0 .. N - 1 /\ g[k] = f[k] /\ (k # 0 => g[k - 1] = f[k - 1])
          BY <4>1, <2>1
        <5>2. f[k] = IF k = 0 THEN Start ELSE PrintTurn(fmt, args, f[k - 1])
          BY <3>1, <5>1
        <5> HIDE DEF g, Is
        <5> QED BY <5>1, <5>2
      <4>2. CASE k = N
        <5>1. g[k] = final /\ g[k - 1] = f[k - 1]
          BY <4>2, <2>1
        <5> HIDE DEF g, Is
        <5> QED BY <5>1, <4>2, <2>1 DEF final
      <4> QED BY <4>1, <4>2
    <3>3. Is(g, N)
      <4>1. g = [k \in 0 .. N |-> g[k]]
        OBVIOUS
      <4> HIDE DEF g
      <4> QED BY <3>2, <4>1
    <3> HIDE DEF g, Is
    <3> QED BY <3>3
  <2>3. CASE ~ \E f : Is(f, N - 1)
    <3>1. N - 1 \in Nat /\ N - 1 < N
      BY <2>1
    <3> HIDE DEF Is
    <3> QED BY <3>1, <2>3
  <2> QED BY <2>2, <2>3
<1>2. S = {}
  <2>1. S \subseteq Nat
    OBVIOUS
  <2> HIDE DEF S
  <2> QED BY <1>1, <2>1, NoLeast
<1>3. \E f : Is(f, R)
  <2> HIDE DEF Is
  <2> QED BY <1>2
<1> DEFINE F == CHOOSE f : Is(f, R)
<1>4. Is(F, R)
  <2> HIDE DEF Is
  <2> QED BY <1>3, Zenon
<1>5. printf(fmt, args) = F[R].out
  BY DEF printf, PrintStart, Start
<1> HIDE DEF F
<1>6. F[0] = Start
  BY <1>4
<1>7. \A k \in 1 .. R : F[k] = PrintTurn(fmt, args, F[k - 1])
  BY <1>4
<1> HIDE DEF Is
<1> QED BY <1>5, <1>6, <1>7 DEF Start, PrintTurns

\* The token t is next in the format, behind i characters and g arguments.
TokenNext(t, fmt, args, i, g) ==
    /\ Len(fmt) \in Nat /\ i + Len(t.fmt) <= Len(fmt)
    /\ \A j \in 1 .. Len(t.fmt) : fmt[i + j] = t.fmt[j]
    /\ \A j \in 1 .. Len(t.args) : args[g + j] = t.args[j]
    /\ t.kind = "lone" => i + 1 = Len(fmt)

\* A turn passes it and its argument, and prints it.
TurnPrints(t, fmt, args, i, g, out) ==
    PrintTurn(fmt, args, [p |-> i + 1, arg |-> g + 1, out |-> out]) =
      [p |-> i + Len(t.fmt) + 1, arg |-> g + Len(t.args) + 1, out |-> out \o Meaning(t)]

\* It does so where the token is next.
LEMMA TokenTurn ==
    ASSUME NEW t \in Tokens, NEW fmt, NEW args, NEW i \in Nat, NEW g \in Nat, NEW out \in Seq(Chars),
           TokenNext(t, fmt, args, i, g)
    PROVE  TurnPrints(t, fmt, args, i, g, out)
<1> SUFFICES PrintTurn(fmt, args, [p |-> i + 1, arg |-> g + 1, out |-> out]) =
             [p |-> i + Len(t.fmt) + 1, arg |-> g + Len(t.args) + 1, out |-> out \o Meaning(t)]
  BY DEF TurnPrints
<1> DEFINE x == [p |-> i + 1, arg |-> g + 1, out |-> out]
<1>0. x.p = i + 1 /\ x.arg = g + 1 /\ x.out = out
  OBVIOUS
<1>a. /\ Len(fmt) \in Nat /\ i + Len(t.fmt) <= Len(fmt)
      /\ \A j \in 1 .. Len(t.fmt) : fmt[i + j] = t.fmt[j]
      /\ \A j \in 1 .. Len(t.args) : args[g + j] = t.args[j]
      /\ t.kind = "lone" => i + 1 = Len(fmt)
  BY DEF TokenNext
<1>1. CASE PlainToken(t)
  <2>1. t.fmt = <<"d">> /\ t.args = << >> /\ Meaning(t) = <<"d">>
    BY <1>1 DEF PlainToken
  <2>2. Len(t.fmt) = 1 /\ Len(t.args) = 0 /\ t.fmt[1] = "d"
    BY <2>1
  <2>3. fmt[i + 1] = "d" /\ ~(i + 1 > Len(fmt))
    BY <1>a, <2>2
  <2>4. PrintTurn(fmt, args, x) = [x EXCEPT !.p = x.p + 1, !.out = Append(x.out, fmt[x.p])]
    BY <1>0, <2>3 DEF PrintTurn
  <2>5. PrintTurn(fmt, args, x) = [p |-> (i + 1) + 1, arg |-> g + 1, out |-> Append(out, "d")]
    BY <2>3, <2>4
  <2>6. Append(out, "d") = out \o <<"d">>
    BY AppendIsConcat DEF Chars
  <2>7. i + Len(t.fmt) + 1 = (i + 1) + 1 /\ g + Len(t.args) + 1 = g + 1
    BY <2>2
  <2> QED BY <2>1, <2>5, <2>6, <2>7
<1>2. CASE LoneToken(t) /\ t.kind = "lone"
  <2>1. t.fmt = <<"%">> /\ t.args = << >> /\ Meaning(t) = << >> /\ i + 1 = Len(fmt)
    BY <1>a, <1>2 DEF LoneToken
  <2>2. Len(t.fmt) = 1 /\ Len(t.args) = 0 /\ t.fmt[1] = "%"
    BY <2>1
  <2>3. fmt[i + 1] = "%" /\ ~(i + 1 > Len(fmt))
    BY <1>a, <2>2
  <2>4. PrintTurn(fmt, args, x) = [x EXCEPT !.p = x.p + 1]
    BY <1>0, <2>1, <2>3 DEF PrintTurn
  <2>5. PrintTurn(fmt, args, x) = [p |-> (i + 1) + 1, arg |-> g + 1, out |-> out]
    BY <2>4
  <2>6. out \o << >> = out
    BY ConcatEmptySeq
  <2>7. i + Len(t.fmt) + 1 = (i + 1) + 1 /\ g + Len(t.args) + 1 = g + 1
    BY <2>2
  <2> QED BY <2>1, <2>5, <2>6, <2>7
<1>3. ASSUME NEW c, ConvToken(t, c)
      PROVE  PrintTurn(fmt, args, x) =
               [p |-> i + Len(t.fmt) + 1, arg |-> g + Len(t.args) + 1, out |-> out \o Meaning(t)]
  <2>1. /\ t.fmt = <<"%", c>> /\ Len(t.args) = Takes(c)
        /\ \A a : (Takes(c) = 1 => a = t.args[1]) => Expansion(c, a) = Meaning(t)
    BY <1>3 DEF ConvToken
  <2>2. Len(t.fmt) = 2 /\ t.fmt[1] = "%" /\ t.fmt[2] = c
    BY <2>1
  <2>3. fmt[i + 1] = "%" /\ fmt[i + 2] = c
    BY <1>a, <2>2
  <2>4. ~(i + 1 > Len(fmt)) /\ i + 1 # Len(fmt) /\ (i + 1) + 1 = i + 2
    BY <1>a, <2>2
  <2>5. PrintTurn(fmt, args, x) =
          [p |-> (i + 1) + 2, arg |-> (g + 1) + Takes(c), out |-> out \o Expansion(c, args[g + 1])]
    BY <1>0, <2>3, <2>4 DEF PrintTurn
  <2>6. Expansion(c, args[g + 1]) = Meaning(t)
    <3>1. Takes(c) = 1 => args[g + 1] = t.args[1]
      BY <1>a, <2>1
    <3> QED BY <2>1, <3>1
  <2>7. i + Len(t.fmt) + 1 = (i + 1) + 2 /\ g + Len(t.args) + 1 = (g + 1) + Takes(c)
    <3>1. Takes(c) \in Nat
      BY DEF Takes
    <3> QED BY <2>1, <2>2, <3>1
  <2> QED BY <2>5, <2>6, <2>7
<1> QED BY <1>1, <1>2, <1>3, TokenIs

\* A token has at least one character, and what it holds are characters.
LEMMA TokenTexts ==
    ASSUME NEW t \in Tokens
    PROVE  /\ t.fmt \in Seq(Chars) /\ Len(t.fmt) \in Nat /\ Len(t.fmt) >= 1
           /\ t.args \in Seq(Values) /\ Len(t.args) \in Nat /\ Meaning(t) \in Seq(Chars)
<1>0. /\ <<"d">> \in Seq(Chars) /\ <<"%">> \in Seq(Chars)
      /\ Len(<<"d">>) = 1 /\ Len(<<"%">>) = 1
  BY DEF Chars
<1>a. << >> \in Seq(Values) /\ << >> \in Seq(Chars) /\ Len(<< >>) = 0
  OBVIOUS
<1>1. CASE PlainToken(t)
  BY <1>0, <1>a, <1>1 DEF PlainToken
<1>2. CASE LoneToken(t)
  BY <1>0, <1>a, <1>2 DEF LoneToken
<1>3. ASSUME NEW c, ConvToken(t, c)
      PROVE  /\ t.fmt \in Seq(Chars) /\ Len(t.fmt) \in Nat /\ Len(t.fmt) >= 1
             /\ t.args \in Seq(Values) /\ Len(t.args) \in Nat /\ Meaning(t) \in Seq(Chars)
  <2>1. <<"%", c>> \in Seq(Chars) /\ Len(<<"%", c>>) = 2
    BY <1>3 DEF ConvToken, Chars
  <2>2. t.fmt = <<"%", c>> /\ t.args \in Seq(Values) /\ Meaning(t) \in Seq(Chars)
    BY <1>3 DEF ConvToken
  <2>3. Len(t.args) \in Nat
    BY <2>2
  <2> QED BY <2>1, <2>2, <2>3
<1> QED BY <1>1, <1>2, <1>3, TokenIs

\* printf() prints token by token.
LEMMA PrintfTokens == TokensInv => PrintfIsTokenwise
<1> SUFFICES ASSUME TokensInv PROVE PrintfIsTokenwise
  OBVIOUS
<1> DEFINE N == Len(tokens)
           fs == [i \in DOMAIN tokens |-> tokens[i].fmt]
           as == [i \in DOMAIN tokens |-> tokens[i].args]
           os == [i \in DOMAIN tokens |-> Meaning(tokens[i])]
<1>1. /\ N \in Nat /\ DOMAIN tokens = 1 .. N /\ \A i \in 1 .. N : tokens[i] \in Tokens
      /\ \A i \in 1 .. N : i # N => tokens[i].kind # "lone"
  <2>1. N \in Nat /\ DOMAIN tokens = 1 .. N /\ \A i \in 1 .. N : tokens[i] \in Tokens
    BY DEF TokensInv
  <2>2. \A i \in 1 .. N : i # N => i \in 1 .. N - 1
    <3> HIDE DEF N
    <3> QED BY <2>1
  <2> QED BY <2>1, <2>2 DEF TokensInv
<1>2. /\ fs \in [1 .. N -> Seq(Chars)] /\ as \in [1 .. N -> Seq(Values)]
      /\ os \in [1 .. N -> Seq(Chars)]
  BY <1>1, TokenTexts
<1>3. /\ Len(fs) = N /\ Len(as) = N /\ Len(os) = N
  BY <1>1
<1>4. N = 0 => fs = << >> /\ as = << >> /\ os = << >>
  BY <1>1
<1>5. \A i \in 1 .. N : fs[i] = tokens[i].fmt /\ as[i] = tokens[i].args /\ os[i] = Meaning(tokens[i])
  BY <1>1
<1>6. Fmt = FlattenSeq(fs) /\ Args = FlattenSeq(as)
  BY DEF Fmt, Args
<1>7. PrintfIsTokenwise <=> printf(Fmt, Args) = FlattenSeq(os)
  BY DEF PrintfIsTokenwise
<1> HIDE DEF fs, as, os, N
<1>8. PICK F : FlatOf(F, fs, Chars)
  BY <1>1, <1>2, <1>3, <1>4, FlattenRuns
<1>9. PICK A : FlatOf(A, as, Values)
  BY <1>1, <1>2, <1>3, <1>4, FlattenRuns
<1>10. PICK O : FlatOf(O, os, Chars)
  BY <1>1, <1>2, <1>3, <1>4, FlattenRuns
<1>11. /\ \A k \in 0 .. N : Len(F[k]) \in Nat /\ Len(F[k]) <= Len(F[N])
       /\ \A k \in 1 .. N : /\ Len(F[k]) = Len(F[k - 1]) + Len(fs[k])
                            /\ \A j \in 1 .. Len(fs[k]) : F[N][Len(F[k - 1]) + j] = fs[k][j]
  <2>1. LiesFlat(F, fs, N)
    BY <1>1, <1>2, <1>3, <1>8, FlatLies
  <2> QED BY <2>1 DEF LiesFlat
<1>12. /\ \A k \in 0 .. N : Len(A[k]) \in Nat
       /\ \A k \in 1 .. N : /\ Len(A[k]) = Len(A[k - 1]) + Len(as[k])
                            /\ \A j \in 1 .. Len(as[k]) : A[N][Len(A[k - 1]) + j] = as[k][j]
  <2>1. LiesFlat(A, as, N)
    BY <1>1, <1>2, <1>3, <1>9, FlatLies
  <2> QED BY <2>1 DEF LiesFlat
<1>13. /\ Fmt = F[N] /\ Args = A[N] /\ FlattenSeq(os) = O[N]
       /\ F[0] = << >> /\ A[0] = << >> /\ O[0] = << >>
       /\ \A k \in 0 .. N : O[k] \in Seq(Chars)
       /\ \A k \in 1 .. N : O[k] = O[k - 1] \o os[k]
  BY <1>3, <1>6, <1>8, <1>9, <1>10 DEF FlatOf
<1> DEFINE R == Len(Fmt)
<1>14. R \in Nat /\ R = Len(F[N])
  BY <1>1, <1>11, <1>13
<1>15. PICK f : PrintTurns(f, Fmt, Args, R)
  BY <1>14, PrintLoop, Zenon
<1>16. /\ f[0] = PrintStart /\ printf(Fmt, Args) = f[R].out
       /\ \A k \in 1 .. R : f[k] = PrintTurn(Fmt, Args, f[k - 1])
  BY <1>15 DEF PrintTurns
<1> HIDE DEF R
<1> DEFINE At(k) == [p |-> Len(F[k]) + 1, arg |-> Len(A[k]) + 1, out |-> O[k]]
           Good(k) == k <= R /\ k <= Len(F[k]) /\ f[k] = At(k)
           S == {k \in 0 .. N : ~Good(k)}
<1>17. Good(0)
  <2>1. Len(<< >>) = 0
    OBVIOUS
  <2> QED BY <1>13, <1>14, <1>16, <2>1 DEF PrintStart
<1>18. ASSUME NEW k \in 1 .. N, Good(k - 1) PROVE Good(k)
  <2> DEFINE t == tokens[k]
             i == Len(F[k - 1])
             g == Len(A[k - 1])
             o == O[k - 1]
  <2>1. k - 1 \in 0 .. N /\ k \in 0 .. N
    BY <1>1
  <2>2. t \in Tokens /\ fs[k] = t.fmt /\ as[k] = t.args /\ os[k] = Meaning(t)
    BY <1>1, <1>5
  <2>3. /\ Len(t.fmt) \in Nat /\ Len(t.fmt) >= 1 /\ Len(t.args) \in Nat
    BY <2>2, TokenTexts
  <2>4. i \in Nat /\ g \in Nat /\ o \in Seq(Chars)
    BY <1>11, <1>12, <1>13, <2>1
  <2>5. /\ Len(F[k]) = i + Len(t.fmt) /\ Len(A[k]) = g + Len(t.args) /\ O[k] = o \o Meaning(t)
    BY <1>11, <1>12, <1>13, <2>2
  <2>6. /\ \A j \in 1 .. Len(t.fmt) : Fmt[i + j] = t.fmt[j]
        /\ \A j \in 1 .. Len(t.args) : Args[g + j] = t.args[j]
    BY <1>11, <1>12, <1>13, <2>2
  <2>7. Len(F[k]) <= R /\ Len(F[k]) \in Nat
    BY <1>11, <1>14, <2>1
  <2>8. t.kind = "lone" => i + 1 = R
    <3> SUFFICES ASSUME t.kind = "lone" PROVE i + 1 = R
      OBVIOUS
    <3>1. k = N
      BY <1>1
    <3>2. Len(t.fmt) = 1
      <4>1. ~PlainToken(t) /\ \A c : ~ConvToken(t, c)
        BY DEF PlainToken, ConvToken
      <4>2. LoneToken(t)
        BY <2>2, <4>1, TokenIs
      <4> QED BY <4>2 DEF LoneToken
    <3> QED BY <1>14, <2>5, <3>1, <3>2
  <2>9. f[k - 1] = [p |-> i + 1, arg |-> g + 1, out |-> o]
    BY <1>18
  <2>10. k - 1 <= i
    BY <1>18
  <2> HIDE DEF t, i, g, o
  <2>11. i + Len(t.fmt) <= R /\ R = Len(Fmt) /\ Len(Fmt) \in Nat
    BY <1>14, <2>5, <2>7 DEF R
  <2>12. PrintTurn(Fmt, Args, [p |-> i + 1, arg |-> g + 1, out |-> o]) =
           [p |-> i + Len(t.fmt) + 1, arg |-> g + Len(t.args) + 1, out |-> o \o Meaning(t)]
    <3>1. TokenNext(t, Fmt, Args, i, g)
      BY <2>6, <2>8, <2>11 DEF TokenNext
    <3>2. TurnPrints(t, Fmt, Args, i, g, o)
      BY <2>2, <2>4, <3>1, TokenTurn
    <3> QED BY <3>2 DEF TurnPrints
  <2>13. k <= Len(F[k]) /\ k <= R /\ k \in 1 .. R
    BY <1>1, <1>14, <2>3, <2>4, <2>5, <2>7, <2>10
  <2>14. f[k] = At(k)
    <3>1. f[k] = PrintTurn(Fmt, Args, f[k - 1])
      BY <1>16, <2>13
    <3>2. f[k] = [p |-> Len(F[k]) + 1, arg |-> Len(A[k]) + 1, out |-> O[k]]
      BY <2>5, <2>9, <2>12, <3>1
    <3> QED BY <3>2
  <2> HIDE DEF At
  <2> QED BY <2>13, <2>14
<1>19. S = {}
  <2> HIDE DEF Good
  <2>1. ASSUME NEW k \in S PROVE \E j \in S : j < k
    <3>1. k # 0
      BY <1>17
    <3>2. k \in 1 .. N /\ k - 1 \in 0 .. N /\ k - 1 < k
      BY <1>1, <3>1
    <3>3. k - 1 \in S
      BY <1>18, <3>2
    <3> QED BY <3>2, <3>3
  <2>2. S \subseteq Nat
    BY <1>1
  <2> HIDE DEF S
  <2> QED BY <2>1, <2>2, NoLeast
<1>20. N <= R /\ f[N] = At(N)
  <2>1. N \in 0 .. N
    BY <1>1
  <2>2. Good(N)
    <3> HIDE DEF Good
    <3> QED BY <1>19, <2>1
  <2> HIDE DEF At
  <2> QED BY <2>2
<1> HIDE DEF S, Good
<1> DEFINE T == {k \in N .. R : f[k] # At(N)}
<1>21. ASSUME NEW k \in T PROVE \E j \in T : j < k
  <2>1. k # N
    BY <1>20
  <2>2. k \in 1 .. R /\ k - 1 \in N .. R /\ k - 1 < k
    BY <1>1, <1>14, <2>1
  <2>3. f[k - 1] # At(N)
    <3> SUFFICES ASSUME f[k - 1] = At(N) PROVE FALSE
      OBVIOUS
    <3>1. At(N).p = R + 1 /\ R + 1 > Len(Fmt)
      BY <1>14 DEF R
    <3>2. f[k] = PrintTurn(Fmt, Args, At(N))
      BY <1>16, <2>2
    <3> HIDE DEF At
    <3>3. PrintTurn(Fmt, Args, At(N)) = At(N)
      BY <3>1 DEF PrintTurn
    <3> QED BY <3>2, <3>3
  <2> HIDE DEF At
  <2>4. k - 1 \in T
    BY <2>2, <2>3
  <2> QED BY <2>2, <2>4
<1>22. T = {}
  <2>1. T \subseteq Nat
    BY <1>1, <1>14
  <2> HIDE DEF T
  <2> QED BY <1>21, <2>1, NoLeast
<1>23. f[R] = At(N)
  <2>1. R \in N .. R
    BY <1>1, <1>14, <1>20
  <2> HIDE DEF At
  <2> QED BY <1>22, <2>1
<1>24. f[R].out = O[N]
  BY <1>23
<1> QED BY <1>7, <1>13, <1>16, <1>24

\* printf() and putint() print what they mean, for every format.
THEOREM OutputIsExact == PrintfSpec => []OutputExact
<1>1. TokensInv => OutputExact
  <2> SUFFICES ASSUME TokensInv PROVE OutputExact
    OBVIOUS
  <2>1. PrintfIsTokenwise
    BY PrintfTokens
  <2>2. PutintIsDecimal
    <3> SUFFICES ASSUME NEW v \in PutintArgs
                 PROVE  putint(v) = IF v = INT_MIN THEN <<"-">> ELSE Decimal(v)
      BY DEF PutintIsDecimal
    <3>1. PICK i \in DOMAIN tokens : tokens[i].kind = "d" /\ v = tokens[i].args[1]
      BY DEF PutintArgs
    <3>2. tokens[i] \in Tokens
      BY <3>1 DEF TokensInv
    <3>3. v \in Ints
      BY <3>1, <3>2 DEF Tokens, Literal, LonePercent, Conversion
    <3> QED BY <3>3, PutintIs
  <2> QED BY <2>1, <2>2 DEF OutputExact
<1> QED BY <1>1, TokensInvariant, PTL

-----------------------------------------------------------------------------
(* The heap.                                                               *)

\* What a program asks for, with the header, is below 2^32.
RequestsFit == \A n \in Sizes : META_SIZE + n < INT_SPAN

\* The headers of the list, what one holds, and where a block ends.
Blocks == DOMAIN meta
Block == [size : Nat, next : Nat, is_free : BOOLEAN]
BlockEnd(b) == b + META_SIZE + meta[b].size

\* The kinds of the variables.
HeapTypes ==
    /\ heap_break \in Nat /\ HEAP_START <= heap_break
    /\ global_base \in Nat
    /\ Blocks \subseteq Nat /\ IsFiniteSet(Blocks)
    /\ meta \in [Blocks -> Block]
    /\ live \in [DOMAIN live -> Nat] /\ DOMAIN live \subseteq Nat
    /\ running \in BOOLEAN

\* The blocks lie in the heap one behind the other.
BlocksApart ==
    /\ \A b \in Blocks : HEAP_START <= b /\ BlockEnd(b) <= heap_break
    /\ \A b, c \in Blocks : b < c => BlockEnd(b) <= c

\* A pointer the program holds points behind the header of a block in use that
\* is large enough.
LiveInBlocks ==
    \A p \in DOMAIN live :
        /\ p - META_SIZE \in Blocks
        /\ ~meta[p - META_SIZE].is_free
        /\ live[p] <= meta[p - META_SIZE].size

\* The list: the lowest block first, then always the next higher one.
Links ==
    /\ IF Blocks = {} THEN global_base = 0
       ELSE global_base \in Blocks /\ \A b \in Blocks : global_base <= b
    /\ \A b \in Blocks :
         IF meta[b].next = 0 THEN \A c \in Blocks : c <= b
         ELSE /\ meta[b].next \in Blocks /\ b < meta[b].next
              /\ \A c \in Blocks : b < c => meta[b].next <= c

\* The inductive invariant.
HInv == HeapTypes /\ BlocksApart /\ LiveInBlocks /\ Links

-----------------------------------------------------------------------------
(* The walk along the list.                                                *)

\* nth lists the blocks in the order of their next pointers.
Walk(nth, N) ==
    /\ nth \in [1 .. N -> Blocks \cup {0}]
    /\ \A i \in 1 .. N :
         nth[i] = IF i = 1 THEN global_base
                  ELSE IF nth[i - 1] = 0 THEN 0 ELSE meta[nth[i - 1]].next

\* No header is at the null pointer.
LEMMA NotZero == HInv => 0 \notin Blocks
BY HeapAssumption DEF HInv, BlocksApart

\* The list follows the addresses.
LEMMA ChainIs ==
    ASSUME HInv
    PROVE  Cardinality(Blocks) \in Nat /\ Walk(Chain, Cardinality(Blocks))
<1> DEFINE N == Cardinality(Blocks)
           V == Blocks \cup {0}
           a == global_base
           G == [vi \in V \X (1 .. N) |-> IF vi[1] = 0 THEN 0 ELSE meta[vi[1]].next]
<1>0. 0 \notin Blocks
  BY NotZero
<1>1. N \in Nat
  BY FS_CardinalityType DEF HInv, HeapTypes
<1>2. a \in V
  BY DEF HInv, Links
<1>3. ASSUME NEW v \in V PROVE (IF v = 0 THEN 0 ELSE meta[v].next) \in V
  BY <1>0 DEF HInv, Links
<1>4. G \in [V \X (1 .. N) -> V]
  BY <1>3
<1>5. PICK f \in [1 .. N -> V] :
        \A i \in 1 .. N : f[i] = IF i = 1 THEN a ELSE G[<<f[i - 1], i>>]
  <2> HIDE DEF G, N, a, V
  <2>1. Loop(V, N, a, G) # {}
    BY <1>1, <1>2, <1>4, LoopExists
  <2> QED BY <2>1 DEF Loop
<1>6. \A i \in 1 .. N : i # 1 => G[<<f[i - 1], i>>] = IF f[i - 1] = 0 THEN 0 ELSE meta[f[i - 1]].next
  <2> SUFFICES ASSUME NEW i \in 1 .. N, i # 1
               PROVE  G[<<f[i - 1], i>>] = IF f[i - 1] = 0 THEN 0 ELSE meta[f[i - 1]].next
    OBVIOUS
  <2>1. i - 1 \in 1 .. N
    BY <1>1
  <2>2. <<f[i - 1], i>> \in V \X (1 .. N)
    BY <2>1
  <2> QED BY <2>2
<1> HIDE DEF G, N
<1>7. f = [i \in 1 .. N |-> IF i = 1 THEN global_base
                            ELSE IF f[i - 1] = 0 THEN 0 ELSE meta[f[i - 1]].next]
  BY <1>5, <1>6
<1> DEFINE c == Chain
<1>8. c = [i \in 1 .. N |-> IF i = 1 THEN global_base
                            ELSE IF c[i - 1] = 0 THEN 0 ELSE meta[c[i - 1]].next]
  BY <1>7 DEF Chain, N, Blocks
<1> HIDE DEF c
<1>9. \A i \in 1 .. N : c[i] = IF i = 1 THEN global_base
                               ELSE IF c[i - 1] = 0 THEN 0 ELSE meta[c[i - 1]].next
  BY <1>8
<1> DEFINE S == {i \in 1 .. N : c[i] \notin V}
<1>10. ASSUME NEW m \in S PROVE \E k \in S : k < m
  <2>1. m # 1 /\ m \in 1 .. N
    BY <1>2, <1>9
  <2>2. m - 1 \in 1 .. N
    BY <1>1, <2>1
  <2>3. c[m] = IF c[m - 1] = 0 THEN 0 ELSE meta[c[m - 1]].next
    BY <1>9, <2>1
  <2>4. c[m - 1] \notin V
    BY <1>3, <2>3
  <2> QED BY <1>1, <2>1, <2>2, <2>4
<1>11. S = {}
  <2>1. S \subseteq Nat
    BY <1>1
  <2> HIDE DEF S
  <2> QED BY <1>10, <2>1, NoLeast
<1>12. c \in [1 .. N -> V]
  BY <1>8, <1>11
<1> QED BY <1>1, <1>9, <1>12 DEF Walk, c, N

\* The walk goes up, and past the end it stays there.
LEMMA WalkGoesUp ==
    ASSUME HInv, NEW N \in Nat, NEW nth, Walk(nth, N)
    PROVE  \A j \in 1 .. N : \A i \in 1 .. j - 1 :
              nth[j] # 0 => nth[i] # 0 /\ nth[i] < nth[j]
<1> DEFINE Up(j) == \A i \in 1 .. j - 1 : nth[j] # 0 => nth[i] # 0 /\ nth[i] < nth[j]
           S == {j \in 1 .. N : ~Up(j)}
<1>1. ASSUME NEW m \in S PROVE \E k \in S : k < m
  <2> SUFFICES ASSUME ~(\E k \in S : k < m) PROVE FALSE
    OBVIOUS
  <2>1. PICK i \in 1 .. m - 1 : ~(nth[m] # 0 => nth[i] # 0 /\ nth[i] < nth[m])
    OBVIOUS
  <2>2. m \in 1 .. N /\ m # 1 /\ m - 1 \in 1 .. N /\ m - 1 < m
    BY <2>1
  <2>3. Up(m - 1)
    BY <2>2
  <2>4. nth[m] = IF nth[m - 1] = 0 THEN 0 ELSE meta[nth[m - 1]].next
    BY <2>2 DEF Walk
  <2>5. nth[m - 1] # 0 /\ nth[m - 1] \in Blocks /\ nth[m] = meta[nth[m - 1]].next
    BY <2>1, <2>2, <2>4 DEF Walk
  <2>6. nth[m - 1] < nth[m] /\ nth[m] \in Blocks
    BY <2>1, <2>5 DEF HInv, Links
  <2>7. i # m - 1
    BY <2>1, <2>5, <2>6
  <2>8. i \in 1 .. (m - 1) - 1
    BY <2>2, <2>7
  <2>9. nth[i] # 0 /\ nth[i] < nth[m - 1]
    BY <2>3, <2>5, <2>8
  <2>10. nth[i] \in Nat /\ nth[m - 1] \in Nat /\ nth[m] \in Nat
    <3>1. Blocks \subseteq Nat
      BY DEF HInv, HeapTypes
    <3>2. i \in 1 .. N
      BY <2>2
    <3> QED BY <2>5, <2>6, <2>9, <3>1, <3>2 DEF Walk
  <2> QED BY <2>1, <2>6, <2>9, <2>10
<1>2. S = {}
  <2>1. S \subseteq Nat
    OBVIOUS
  <2> HIDE DEF S
  <2> QED BY <1>1, <2>1, NoLeast
<1> QED BY <1>2

\* The walk of as many steps as there are blocks meets every block.
LEMMA WalkMeetsAll ==
    ASSUME HInv, NEW N \in Nat, N = Cardinality(Blocks), NEW nth, Walk(nth, N),
           NEW b \in Blocks
    PROVE  \E i \in 1 .. N : nth[i] = b
<1> SUFFICES ASSUME \A i \in 1 .. N : nth[i] # b PROVE FALSE
  OBVIOUS
<1>0. Blocks \subseteq Nat /\ 0 \notin Blocks /\ IsFiniteSet(Blocks)
  BY NotZero DEF HInv, HeapTypes
<1> DEFINE S == {i \in 1 .. N : ~(nth[i] \in Blocks /\ nth[i] < b)}
<1>1. ASSUME NEW m \in S PROVE \E k \in S : k < m
  <2> SUFFICES ASSUME ~(\E k \in S : k < m) PROVE FALSE
    OBVIOUS
  <2>0. m \in 1 .. N /\ ~(nth[m] \in Blocks /\ nth[m] < b) /\ nth[m] # b
    OBVIOUS
  <2>1. CASE m = 1
    <3>1. nth[m] = global_base
      BY <2>0, <2>1 DEF Walk
    <3>2. nth[m] \in Blocks /\ nth[m] <= b
      BY <3>1 DEF HInv, Links
    <3>3. PICK x \in Nat : x = nth[m]
      BY <1>0, <3>2
    <3>4. PICK y \in Nat : y = b
      BY <1>0
    <3> QED BY <2>0, <3>2, <3>3, <3>4
  <2>2. CASE m # 1
    <3>1. m - 1 \in 1 .. N /\ m - 1 < m
      BY <2>0, <2>2
    <3>2. nth[m - 1] \in Blocks /\ nth[m - 1] < b
      BY <3>1
    <3>3. nth[m] = meta[nth[m - 1]].next
      BY <1>0, <2>0, <2>2, <3>2 DEF Walk
    <3> DEFINE q == nth[m - 1]
    <3>4. ~(\A c \in Blocks : c <= q)
      <4>1. PICK x \in Nat : x = q
        BY <1>0, <3>2
      <4>2. PICK y \in Nat : y = b
        BY <1>0
      <4> QED BY <3>2, <4>1, <4>2
    <3>5. meta[q].next \in Blocks /\ meta[q].next <= b
      BY <3>2, <3>4 DEF HInv, Links
    <3>6. PICK x \in Nat : x = nth[m]
      BY <1>0, <3>3, <3>5
    <3>7. PICK y \in Nat : y = b
      BY <1>0
    <3> QED BY <2>0, <3>3, <3>5, <3>6, <3>7
  <2> QED BY <2>1, <2>2
<1>2. S = {}
  <2>1. S \subseteq Nat
    OBVIOUS
  <2> HIDE DEF S
  <2> QED BY <1>1, <2>1, NoLeast
<1>3. \A i \in 1 .. N : nth[i] \in Blocks \ {b}
  BY <1>2
<1>4. IsFiniteSet(Blocks \ {b}) /\ Cardinality(Blocks \ {b}) = N - 1
  BY <1>0, FS_RemoveElement
<1>5. IsFiniteSet(1 .. N) /\ Cardinality(1 .. N) = N
  BY FS_Interval
<1>6. nth \in [1 .. N -> Blocks \ {b}]
  BY <1>3 DEF Walk
<1>7. \E i, j \in 1 .. N : i # j /\ nth[i] = nth[j]
  <2> DEFINE A == 1 .. N
             B == Blocks \ {b}
  <2>1. Cardinality(B) < Cardinality(A)
    BY <1>4, <1>5
  <2> HIDE DEF A, B
  <2>2. \E x, y \in A : x # y /\ nth[x] = nth[y]
    BY <1>4, <1>5, <1>6, <2>1, FS_PigeonHole DEF A, B
  <2> QED BY <2>2 DEF A
<1>8. PICK i, j \in 1 .. N : i < j /\ nth[i] = nth[j]
  BY <1>7
<1>9. nth[j] # 0 /\ nth[i] < nth[j] /\ nth[i] \in Nat
  <2>1. nth[j] # 0 /\ nth[j] \in Nat
    BY <1>0, <1>3
  <2>2. i \in 1 .. j - 1
    BY <1>8
  <2> QED BY <1>8, <2>1, <2>2, WalkGoesUp
<1> QED BY <1>8, <1>9

\* find_free_block() finds a block that fits if there is one.
LEMMA FindFree ==
    ASSUME HInv, NEW size
    PROVE  LET b == find_free_block(size) IN
           /\ b # 0 => b \in Blocks /\ Fits(b, size)
           /\ b = 0 => \A c \in Blocks : ~Fits(c, size)
<1> DEFINE N == Cardinality(Blocks)
           found == {i \in DOMAIN Chain : Chain[i] # 0 /\ Fits(Chain[i], size)}
           b == find_free_block(size)
<1>1. N \in Nat /\ Walk(Chain, N)
  BY ChainIs
<1>2. DOMAIN Chain = 1 .. N /\ found \subseteq Nat
  BY <1>1 DEF Walk
<1>3. b = IF found = {} THEN 0 ELSE Chain[Min(found)]
  BY DEF find_free_block
<1>4. ASSUME b # 0 PROVE b \in Blocks /\ Fits(b, size)
  <2>1. found # {} /\ b = Chain[Min(found)]
    BY <1>3, <1>4
  <2>2. Min(found) \in found
    <3> HIDE DEF found
    <3> QED BY <1>2, <2>1, LeastInSet
  <2> HIDE DEF b
  <2> QED BY <1>1, <1>2, <2>1, <2>2 DEF Walk
<1>5. ASSUME b = 0, NEW c \in Blocks PROVE ~Fits(c, size)
  <2>1. PICK i \in 1 .. N : Chain[i] = c
    BY <1>1, WalkMeetsAll
  <2>2. c # 0
    BY NotZero
  <2>3. found = {}
    <3> SUFFICES ASSUME found # {} PROVE FALSE
      OBVIOUS
    <3>1. Min(found) \in found
      <4> HIDE DEF found
      <4> QED BY <1>2, LeastInSet
    <3> QED BY <1>3, <1>5, <3>1
  <2> QED BY <1>2, <2>1, <2>2, <2>3
<1> QED BY <1>4, <1>5

\* and otherwise leaves last at the highest block.
LEMMA LastIs ==
    ASSUME HInv
    PROVE  IF Blocks = {} THEN LastBlock = 0
           ELSE LastBlock \in Blocks /\ \A c \in Blocks : c <= LastBlock
<1> DEFINE N == Cardinality(Blocks)
           ix == {i \in DOMAIN Chain : Chain[i] # 0}
           L == LastBlock
<1>1. N \in Nat /\ Walk(Chain, N)
  BY ChainIs
<1>2. DOMAIN Chain = 1 .. N /\ ix \subseteq 0 .. N
  BY <1>1 DEF Walk
<1>3. L = IF ix = {} THEN 0 ELSE Chain[Max(ix)]
  BY DEF LastBlock
<1>4. ASSUME NEW c \in Blocks
      PROVE  ix # {} /\ L \in Blocks /\ c <= L
  <2>1. PICK i \in 1 .. N : Chain[i] = c
    BY <1>1, WalkMeetsAll
  <2>2. i \in ix
    BY <1>2, <2>1, NotZero
  <2>3. Max(ix) \in ix /\ Max(ix) >= i
    <3> HIDE DEF ix
    <3> QED BY <1>1, <1>2, <2>2, GreatestInSet
  <2> DEFINE j == Max(ix)
  <2>4. j \in 1 .. N /\ Chain[j] # 0 /\ j >= i /\ L = Chain[j]
    BY <1>2, <1>3, <2>2, <2>3
  <2> HIDE DEF j, L, ix
  <2>5. L \in Blocks /\ L \in Nat /\ c \in Nat
    BY <1>1, <2>4 DEF Walk, HInv, HeapTypes
  <2>6. CASE i = j
    BY <2>1, <2>2, <2>4, <2>5, <2>6
  <2>7. CASE i # j
    <3>1. i \in 1 .. j - 1
      BY <2>4, <2>7
    <3>2. c < L
      BY <1>1, <2>1, <2>4, <3>1, WalkGoesUp
    <3> QED BY <2>2, <2>5, <3>2
  <2> QED BY <2>2, <2>5, <2>6, <2>7
<1>5. CASE Blocks = {}
  <2>1. N = 0
    BY <1>5, FS_EmptySet
  <2>2. ix = {}
    BY <1>2, <2>1
  <2> QED BY <1>3, <1>5, <2>2
<1>6. CASE Blocks # {}
  BY <1>4, <1>6
<1> QED BY <1>5, <1>6

-----------------------------------------------------------------------------
(* The steps.                                                              *)

\* What SYS_SBRK answers: an error, or the old break, and then by a growth.
LEMMA Answers ==
    ASSUME NEW inc \in Int, heap_break \in Nat, NEW ret \in SysSbrk(inc)
    PROVE  ret \in {-4, -5} \/ (ret = heap_break /\ inc >= 0)
BY DEF SysSbrk, E_NOMEM, E_PERM

\* The conversion to int keeps a number that fits, or makes it negative.
LEMMA Converted ==
    ASSUME NEW n \in Nat
    PROVE  ToInt(n) \in Int /\ (n < INT_SPAN /\ ToInt(n) >= 0 => ToInt(n) = n)
<1> DEFINE low == n % INT_SPAN
<1>1. low \in Nat /\ INT_SPAN \in Nat /\ INT_SPAN \div 2 \in Nat /\ low < INT_SPAN
  BY HeapAssumption
<1>2. n < INT_SPAN => low = n
  BY HeapAssumption
<1>3. ToInt(n) = IF low < INT_SPAN \div 2 THEN low ELSE low - INT_SPAN
  BY DEF ToInt
<1> HIDE DEF low
<1> QED BY <1>1, <1>2, <1>3

\* The empty heap.
LEMMA InitH == HeapInit => HInv
<1> SUFFICES ASSUME HeapInit PROVE HInv
  OBVIOUS
<1>1. DOMAIN meta = {} /\ DOMAIN live = {}
  BY DEF HeapInit
<1>2. meta \in [{} -> Block] /\ live \in [{} -> Nat]
  BY DEF HeapInit
<1>3. IsFiniteSet({})
  BY FS_EmptySet
<1> QED BY <1>1, <1>2, <1>3, HeapAssumption
        DEF HeapInit, HInv, HeapTypes, BlocksApart, LiveInBlocks, Links, Blocks

\* A freed block is handed out again.
LEMMA ReuseKeeps ==
    ASSUME HInv, NEW size \in Nat, NEW b \in Blocks, Fits(b, size), Reuse(b, size)
    PROVE  HInv'
<1>1. meta \in [Blocks -> Block] /\ Blocks \subseteq Nat /\ META_SIZE \in Nat
  BY HeapAssumption DEF HInv, HeapTypes
<1>2. /\ Blocks' = Blocks /\ meta' \in [Blocks -> Block]
      /\ \A c \in Blocks : /\ meta'[c].size = meta[c].size
                           /\ meta'[c].next = meta[c].next
                           /\ meta'[c].is_free = IF c = b THEN FALSE ELSE meta[c].is_free
  BY <1>1 DEF Reuse, Blocks, Block
<1>3. heap_break' = heap_break /\ global_base' = global_base /\ running' = running
  BY DEF Reuse
<1> DEFINE p == b + META_SIZE
<1>4. p \in Nat /\ p - META_SIZE = b
  BY <1>1
<1>5. /\ DOMAIN live' = DOMAIN live \cup {p}
      /\ \A q \in DOMAIN live' : live'[q] = IF q = p THEN size ELSE live[q]
      /\ live' \in [DOMAIN live' -> Nat] /\ DOMAIN live' \subseteq Nat
  BY <1>4 DEF Reuse, HInv, HeapTypes
<1> HIDE DEF p
<1>6. HeapTypes'
  BY <1>2, <1>3, <1>5 DEF HInv, HeapTypes
<1>7. BlocksApart'
  BY <1>2, <1>3 DEF HInv, BlocksApart, BlockEnd
<1>8. Links'
  BY <1>2, <1>3 DEF HInv, Links
<1>9. LiveInBlocks'
  <2> SUFFICES ASSUME NEW q \in DOMAIN live'
               PROVE  /\ q - META_SIZE \in Blocks
                      /\ ~meta'[q - META_SIZE].is_free
                      /\ live'[q] <= meta'[q - META_SIZE].size
    BY <1>2 DEF LiveInBlocks
  <2>1. CASE q = p
    BY <1>2, <1>4, <1>5, <2>1 DEF Fits
  <2>2. CASE q # p
    BY <1>2, <1>5, <2>2 DEF HInv, LiveInBlocks
  <2> QED BY <2>1, <2>2
<1> QED BY <1>6, <1>7, <1>8, <1>9 DEF HInv

\* A new block is hung behind the highest one.
LEMMA ExtendKeeps ==
    ASSUME HInv, NEW size \in Nat, NEW b, b = heap_break, Extend(b, size),
           heap_break' = heap_break + (META_SIZE + size)
    PROVE  HInv'
<1>1. /\ meta \in [Blocks -> Block] /\ Blocks \subseteq Nat /\ IsFiniteSet(Blocks)
      /\ META_SIZE \in Nat /\ META_SIZE > 0 /\ b \in Nat /\ HEAP_START \in Nat
      /\ HEAP_START <= b /\ b # 0
  BY HeapAssumption DEF HInv, HeapTypes
<1> DEFINE L == LastBlock
           p == b + META_SIZE
<1>2. IF Blocks = {} THEN L = 0 ELSE L \in Blocks /\ \A c \in Blocks : c <= L
  BY LastIs
<1>3. ASSUME NEW c \in Blocks PROVE c < b /\ c # 0 /\ BlockEnd(c) <= b /\ BlockEnd(c) \in Nat
  <2>1. meta[c].size \in Nat /\ c \in Nat
    BY <1>1 DEF Block
  <2>2. BlockEnd(c) <= b
    BY DEF HInv, BlocksApart
  <2>3. c # 0
    BY NotZero
  <2> QED BY <1>1, <2>1, <2>2, <2>3 DEF BlockEnd
<1>4. b \notin Blocks
  BY <1>1, <1>3
<1>5. 0 \notin Blocks
  BY <1>3
<1>6. /\ Blocks' = Blocks \cup {b}
      /\ meta'[b] = [size |-> size, next |-> 0, is_free |-> FALSE]
      /\ \A c \in Blocks : meta'[c] = IF c = L THEN [meta[c] EXCEPT !.next = Linked(b, L).next]
                                      ELSE meta[c]
      /\ meta' = [a \in Blocks' |-> meta'[a]]
  BY <1>4 DEF Extend, Blocks
<1>7. ASSUME NEW c \in Blocks
      PROVE  /\ meta'[c] \in Block
             /\ meta'[c].size = meta[c].size
             /\ meta'[c].is_free = meta[c].is_free
             /\ meta'[c].next = IF c = L THEN b ELSE meta[c].next
  <2>1. L # 0
    BY <1>2, <1>5
  <2>2. Linked(b, L).next = b
    BY <2>1 DEF Linked
  <2>3. meta[c] \in Block
    BY <1>1
  <2> HIDE DEF L
  <2> QED BY <1>1, <1>6, <2>2, <2>3 DEF Block
<1>8. global_base' = IF Blocks = {} THEN b ELSE global_base
  <2>1. global_base' = Linked(b, L).base
    BY DEF Extend
  <2> HIDE DEF L
  <2> QED BY <1>2, <1>5, <2>1 DEF Linked
<1>9. meta'[b] \in Block /\ meta'[b].size = size /\ meta'[b].next = 0 /\ ~meta'[b].is_free
  BY <1>6 DEF Block
<1>10. p \in Nat /\ p - META_SIZE = b
  BY <1>1
<1>11. /\ DOMAIN live' = DOMAIN live \cup {p}
       /\ \A q \in DOMAIN live' : live'[q] = IF q = p THEN size ELSE live[q]
       /\ live' \in [DOMAIN live' -> Nat] /\ DOMAIN live' \subseteq Nat
  BY <1>10 DEF Extend, HInv, HeapTypes
<1>12. running' = running
  BY DEF Extend
<1> HIDE DEF L, p
<1>13. HeapTypes'
  <2>1. meta' \in [Blocks' -> Block]
    BY <1>6, <1>7, <1>9
  <2>2. IsFiniteSet(Blocks') /\ Blocks' \subseteq Nat
    BY <1>1, <1>6, FS_AddElement
  <2>3. heap_break' \in Nat /\ HEAP_START <= heap_break'
    BY <1>1
  <2>4. global_base' \in Nat
    BY <1>1, <1>8 DEF HInv, HeapTypes
  <2> QED BY <1>11, <1>12, <2>1, <2>2, <2>3, <2>4 DEF HInv, HeapTypes
<1>14. BlocksApart'
  <2>1. BlockEnd(b)' = heap_break'
    BY <1>1, <1>9 DEF BlockEnd
  <2>2. \A c \in Blocks : BlockEnd(c)' = BlockEnd(c)
    BY <1>7 DEF BlockEnd
  <2>3. ASSUME NEW c \in Blocks' PROVE HEAP_START <= c /\ BlockEnd(c)' <= heap_break'
    <3>1. CASE c = b
      BY <1>1, <2>1, <3>1
    <3>2. CASE c \in Blocks
      <4>1. HEAP_START <= c /\ BlockEnd(c)' <= b /\ BlockEnd(c)' \in Nat
        BY <1>3, <2>2, <3>2 DEF HInv, BlocksApart
      <4> QED BY <1>1, <4>1
    <3> QED BY <1>6, <3>1, <3>2
  <2>4. ASSUME NEW c \in Blocks', NEW e \in Blocks', c < e PROVE BlockEnd(c)' <= e
    <3>1. CASE e = b
      <4>1. c \in Blocks
        BY <1>1, <1>6, <2>4, <3>1
      <4> QED BY <1>3, <2>2, <3>1, <4>1
    <3>2. CASE e \in Blocks
      <4>1. c \in Blocks
        <5>1. e < b /\ e \in Nat
          BY <1>1, <1>3, <3>2
        <5> QED BY <1>1, <1>6, <2>4, <5>1
      <4> QED BY <2>2, <2>4, <3>2, <4>1 DEF HInv, BlocksApart
    <3> QED BY <1>6, <3>1, <3>2
  <2> QED BY <2>3, <2>4 DEF BlocksApart
<1>15. LiveInBlocks'
  <2> SUFFICES ASSUME NEW q \in DOMAIN live'
               PROVE  /\ q - META_SIZE \in Blocks'
                      /\ ~meta'[q - META_SIZE].is_free
                      /\ live'[q] <= meta'[q - META_SIZE].size
    BY DEF LiveInBlocks
  <2>1. CASE q = p
    BY <1>6, <1>9, <1>10, <1>11, <2>1
  <2>2. CASE q # p
    <3>1. q \in DOMAIN live /\ live'[q] = live[q] /\ q - META_SIZE \in Blocks
      BY <1>11, <2>2 DEF HInv, LiveInBlocks
    <3> QED BY <1>6, <1>7, <3>1 DEF HInv, LiveInBlocks
  <2> QED BY <2>1, <2>2
<1>16. Links'
  <2>1. global_base' \in Blocks' /\ \A c \in Blocks' : global_base' <= c
    <3>1. CASE Blocks = {}
      BY <1>1, <1>6, <1>8, <3>1
    <3>2. CASE Blocks # {}
      <4>1. global_base' = global_base /\ global_base \in Blocks
            /\ \A c \in Blocks : global_base <= c
        BY <1>8, <3>2 DEF HInv, Links
      <4>2. global_base <= b
        BY <1>1, <1>3, <4>1
      <4> QED BY <1>6, <4>1, <4>2
    <3> QED BY <3>1, <3>2
  <2>2. ASSUME NEW c \in Blocks'
        PROVE  IF meta'[c].next = 0 THEN \A e \in Blocks' : e <= c
               ELSE /\ meta'[c].next \in Blocks' /\ c < meta'[c].next
                    /\ \A e \in Blocks' : c < e => meta'[c].next <= e
    <3>1. CASE c = b
      <4>1. \A e \in Blocks' : e <= b
        BY <1>1, <1>3, <1>6
      <4> QED BY <1>9, <3>1, <4>1
    <3>2. CASE c \in Blocks /\ c = L
      <4>1. meta'[c].next = b /\ c < b
        BY <1>3, <1>7, <3>2
      <4>2. ASSUME NEW e \in Blocks', c < e PROVE b <= e
        <5>1. CASE e = b
          BY <1>1, <5>1
        <5>2. CASE e \in Blocks
          <6>1. e <= c /\ e \in Nat /\ c \in Nat
            BY <1>1, <1>2, <3>2, <5>2
          <6> QED BY <4>2, <6>1
        <5> QED BY <1>6, <5>1, <5>2
      <4> QED BY <1>1, <1>6, <4>1, <4>2
    <3>3. CASE c \in Blocks /\ c # L
      <4>1. L \in Blocks /\ c <= L /\ c \in Nat /\ L \in Nat
        BY <1>1, <1>2, <3>3
      <4>2. meta'[c].next = meta[c].next /\ ~(\A e \in Blocks : e <= c)
        BY <1>7, <3>3, <4>1
      <4>3. /\ meta[c].next # 0 /\ meta[c].next \in Blocks /\ c < meta[c].next
            /\ \A e \in Blocks : c < e => meta[c].next <= e
        BY <3>3, <4>2 DEF HInv, Links
      <4>4. meta[c].next <= b
        <5>1. PICK x \in Blocks : x = meta[c].next
          BY <4>3
        <5>2. x < b /\ x \in Nat
          BY <1>1, <1>3
        <5> QED BY <1>1, <5>1, <5>2
      <4> QED BY <1>6, <4>2, <4>3, <4>4
    <3> QED BY <1>6, <3>1, <3>2, <3>3
  <2> QED BY <1>6, <2>1, <2>2 DEF Links
<1> QED BY <1>13, <1>14, <1>15, <1>16 DEF HInv

\* A growth of the heap with no new block.
LEMMA GrowKeeps ==
    ASSUME HInv, heap_break' \in Nat, heap_break <= heap_break', running' \in BOOLEAN,
           UNCHANGED <<global_base, meta, live>>
    PROVE  HInv'
<1>1. Blocks' = Blocks /\ \A b \in Blocks : BlockEnd(b)' = BlockEnd(b) /\ BlockEnd(b) \in Nat
  <2>1. \A b \in Blocks : b \in Nat /\ meta[b].size \in Nat
    BY DEF HInv, HeapTypes, Block
  <2> QED BY <2>1, HeapAssumption DEF Blocks, BlockEnd
<1>2. heap_break \in Nat /\ HEAP_START \in Nat /\ HEAP_START <= heap_break
  BY HeapAssumption DEF HInv, HeapTypes
<1>3. HeapTypes'
  BY <1>1, <1>2 DEF HInv, HeapTypes
<1>4. BlocksApart'
  BY <1>1, <1>2 DEF HInv, BlocksApart
<1>5. LiveInBlocks' /\ Links'
  BY <1>1 DEF HInv, LiveInBlocks, Links
<1> QED BY <1>3, <1>4, <1>5 DEF HInv

\* free() keeps the invariant.
LEMMA FreeKeeps ==
    ASSUME HInv, NEW p \in DOMAIN live, free(p)
    PROVE  HInv'
<1> DEFINE b == p - META_SIZE
<1>1. /\ meta \in [Blocks -> Block] /\ Blocks \subseteq Nat /\ META_SIZE \in Nat
      /\ b \in Blocks /\ p \in Nat
  BY HeapAssumption DEF HInv, HeapTypes, LiveInBlocks
<1>2. /\ Blocks' = Blocks /\ meta' \in [Blocks -> Block]
      /\ \A c \in Blocks : /\ meta'[c].size = meta[c].size
                           /\ meta'[c].next = meta[c].next
                           /\ meta'[c].is_free = IF c = b THEN TRUE ELSE meta[c].is_free
  BY <1>1 DEF free, Blocks, Block
<1>3. heap_break' = heap_break /\ global_base' = global_base /\ running' = running
  BY DEF free
<1>4. /\ DOMAIN live' = DOMAIN live \ {p}
      /\ \A q \in DOMAIN live' : live'[q] = live[q]
      /\ live' \in [DOMAIN live' -> Nat] /\ DOMAIN live' \subseteq Nat
  BY DEF free, HInv, HeapTypes
<1>6. HeapTypes'
  BY <1>2, <1>3, <1>4 DEF HInv, HeapTypes
<1>7. BlocksApart'
  BY <1>2, <1>3 DEF HInv, BlocksApart, BlockEnd
<1>8. Links'
  BY <1>2, <1>3 DEF HInv, Links
<1>9. LiveInBlocks'
  <2> SUFFICES ASSUME NEW q \in DOMAIN live'
               PROVE  /\ q - META_SIZE \in Blocks
                      /\ ~meta'[q - META_SIZE].is_free
                      /\ live'[q] <= meta'[q - META_SIZE].size
    BY <1>2 DEF LiveInBlocks
  <2>1. q \in DOMAIN live /\ q # p /\ q \in Nat
    BY <1>4 DEF HInv, HeapTypes
  <2>2. q - META_SIZE # b
    BY <1>1, <2>1
  <2>3. /\ q - META_SIZE \in Blocks /\ ~meta[q - META_SIZE].is_free
        /\ live[q] <= meta[q - META_SIZE].size
    BY <2>1 DEF HInv, LiveInBlocks
  <2> HIDE DEF b
  <2> QED BY <1>2, <1>4, <2>2, <2>3
<1> QED BY <1>6, <1>7, <1>8, <1>9 DEF HInv

\* A call of malloc() that has to grow the heap.
LEMMA NewBlockKeeps ==
    ASSUME RequestsFit, HInv, running, NEW size \in Sizes, NewBlock(size)
    PROVE  HInv'
<1> DEFINE inc == ToInt(META_SIZE + size)
<1>1. size \in Nat /\ META_SIZE \in Nat /\ heap_break \in Nat
  BY HeapAssumption DEF HInv, HeapTypes
<1>2. inc \in Int /\ (inc >= 0 => inc = META_SIZE + size)
  <2>1. META_SIZE + size \in Nat /\ META_SIZE + size < INT_SPAN
    BY <1>1 DEF RequestsFit
  <2> QED BY <2>1, Converted
<1>3. PICK ret \in SysSbrk(inc) :
          /\ Grown(ret, inc)
          /\ CASE ret = -1 -> UNCHANGED <<global_base, meta, live, running>>
               [] ret < -1 -> Fault
               [] OTHER -> Extend(ret, size)
  BY DEF NewBlock
<1> HIDE DEF inc
<1>4. ret \in {-4, -5} \/ (ret = heap_break /\ inc >= 0)
  BY <1>1, <1>2, Answers
<1>5. CASE ret \in {-4, -5}
  <2>1. ret # -1 /\ ret < -1 /\ ret < 0
    BY <1>5
  <2>2. heap_break' = heap_break
    BY <1>3, <2>1 DEF Grown
  <2>3. Fault
    BY <1>3, <2>1, Zenon
  <2>4. running' \in BOOLEAN /\ UNCHANGED <<global_base, meta, live>>
    BY <2>3 DEF Fault
  <2>5. heap_break' \in Nat /\ heap_break <= heap_break'
    BY <1>1, <2>2
  <2> QED BY <2>4, <2>5, GrowKeeps
<1>6. CASE ret = heap_break /\ inc >= 0
  <2>0. ret # -1 /\ ~(ret < -1) /\ ~(ret < 0)
    BY <1>1, <1>6
  <2>e. Extend(ret, size)
    BY <1>3, <2>0, Zenon
  <2>1. Extend(ret, size) /\ heap_break' = heap_break + inc
    BY <1>3, <2>0, <2>e DEF Grown
  <2>2. heap_break' = heap_break + (META_SIZE + size)
    BY <1>2, <1>6, <2>1
  <2> QED BY <1>1, <1>6, <2>1, <2>2, ExtendKeeps
<1> QED BY <1>4, <1>5, <1>6

\* Every step keeps it.
LEMMA StepH ==
    ASSUME RequestsFit, HInv, [HeapNext]_heapVars
    PROVE  HInv'
<1>1. CASE UNCHANGED heapVars
  BY <1>1, GrowKeeps DEF heapVars, HInv, HeapTypes
<1>2. ASSUME NEW n \in Sizes, malloc(n) PROVE HInv'
  <2> DEFINE b == find_free_block(n)
  <2>1. n \in Nat
    BY HeapAssumption
  <2>2. CASE b # 0
    <3>1. b \in Blocks /\ Fits(b, n) /\ Reuse(b, n)
      BY <1>2, <2>2, FindFree DEF malloc
    <3> HIDE DEF b
    <3> QED BY <2>1, <3>1, ReuseKeeps
  <2>3. CASE b = 0
    <3>1. NewBlock(n) /\ running
      BY <1>2, <2>3 DEF malloc
    <3> QED BY <3>1, NewBlockKeeps
  <2> QED BY <2>2, <2>3
<1>3. ASSUME NEW n \in Sizes, sbrk(n) PROVE HInv'
  <2> DEFINE inc == ToInt(n)
  <2>1. n \in Nat /\ heap_break \in Nat
    BY HeapAssumption DEF HInv, HeapTypes
  <2>2. inc \in Int
    BY <2>1, Converted
  <2>3. PICK ret \in SysSbrk(inc) : Grown(ret, inc)
    BY <1>3 DEF sbrk
  <2> HIDE DEF inc
  <2>4. ret \in {-4, -5} \/ (ret = heap_break /\ inc >= 0)
    BY <2>1, <2>2, Answers
  <2>5. heap_break' \in Nat /\ heap_break <= heap_break'
    BY <2>1, <2>2, <2>3, <2>4 DEF Grown
  <2> QED BY <1>3, <2>5, GrowKeeps DEF sbrk
<1>4. ASSUME NEW p \in DOMAIN live, free(p) PROVE HInv'
  BY <1>4, FreeKeeps
<1> QED BY <1>1, <1>2, <1>3, <1>4 DEF HeapNext

\* The blocks and the list are in order in every state.
THEOREM HeapInvariant == ASSUME RequestsFit PROVE HeapSpec => []HInv
<1>1. HInv /\ [HeapNext]_heapVars => HInv'
  BY StepH
<1> QED BY <1>1, InitH, PTL DEF HeapSpec

\* malloc() of user/syscalls.c never hands out memory that overlaps another
\* allocation or a block header, or that lies outside the heap, whatever calls
\* of malloc(), free() and sbrk() came before.
THEOREM AllocationsAreDisjoint ==
    ASSUME RequestsFit PROVE HeapSpec => []AllocationsDisjoint
<1>1. ASSUME HInv, NEW p \in DOMAIN live
      PROVE  /\ Extent(p) \subseteq HEAP_START .. heap_break - 1
             /\ \A q \in DOMAIN live \ {p} : Extent(p) \cap Extent(q) = {}
             /\ \A b \in DOMAIN meta : Extent(p) \cap Header(b) = {}
  <2> DEFINE Facts(q, c) == /\ q \in Nat /\ c \in Blocks /\ c \in Nat /\ c = q - META_SIZE
                            /\ META_SIZE \in Nat /\ HEAP_START \in Nat /\ heap_break \in Nat
                            /\ live[q] \in Nat /\ meta[c].size \in Nat
                            /\ live[q] <= meta[c].size /\ HEAP_START <= c
                            /\ c + META_SIZE + meta[c].size <= heap_break
  <2>1. ASSUME NEW q \in DOMAIN live PROVE Facts(q, q - META_SIZE)
    <3>1. q - META_SIZE \in Blocks /\ live[q] <= meta[q - META_SIZE].size
      BY <1>1 DEF HInv, LiveInBlocks
    <3>2. meta[q - META_SIZE] \in Block /\ Blocks \subseteq Nat /\ q \in Nat /\ live[q] \in Nat
      BY <1>1, <3>1 DEF HInv, HeapTypes
    <3>3. HEAP_START <= q - META_SIZE /\ BlockEnd(q - META_SIZE) <= heap_break
      BY <1>1, <3>1 DEF HInv, BlocksApart
    <3> QED BY <1>1, <3>1, <3>2, <3>3, HeapAssumption DEF HInv, HeapTypes, Block, BlockEnd
  <2> DEFINE c == p - META_SIZE
  <2>2. Facts(p, c)
    BY <2>1
  <2>3. Extent(p) \subseteq HEAP_START .. heap_break - 1
    BY <2>2 DEF Extent
  <2>4. ASSUME NEW q \in DOMAIN live \ {p} PROVE Extent(p) \cap Extent(q) = {}
    <3> DEFINE e == q - META_SIZE
    <3>1. Facts(q, e)
      BY <2>1
    <3>2. c # e
      BY <2>2, <3>1
    <3>3. \/ c + META_SIZE + meta[c].size <= e
          \/ e + META_SIZE + meta[e].size <= c
      BY <1>1, <2>2, <3>1, <3>2 DEF HInv, BlocksApart, BlockEnd
    <3> HIDE DEF c, e
    <3> QED BY <2>2, <3>1, <3>3 DEF Extent
  <2>5. ASSUME NEW b \in DOMAIN meta PROVE Extent(p) \cap Header(b) = {}
    <3>1. b \in Blocks /\ b \in Nat /\ meta[b].size \in Nat
      <4>1. b \in Blocks
        BY DEF Blocks
      <4> QED BY <1>1, <4>1 DEF HInv, HeapTypes, Block
    <3>2. \/ b = c
          \/ c + META_SIZE + meta[c].size <= b
          \/ b + META_SIZE + meta[b].size <= c
      BY <1>1, <2>2, <3>1 DEF HInv, BlocksApart, BlockEnd
    <3> HIDE DEF c
    <3> QED BY <2>2, <3>1, <3>2 DEF Extent, Header
  <2> QED BY <2>3, <2>4, <2>5
<1>2. HInv => AllocationsDisjoint
  BY <1>1 DEF AllocationsDisjoint
<1> QED BY <1>2, HeapInvariant, PTL

\* A freed block is never lost: whenever malloc() grows the heap, the walk of
\* find_free_block() has been past every block, and none that is free is large
\* enough.
THEOREM HeapGrowsOnlyWhenNeeded ==
    ASSUME RequestsFit PROVE HeapSpec => GrowsOnlyWhenNeeded
<1>1. ASSUME HInv, [HeapNext]_heapVars
      PROVE  [\A n \in Sizes \ {0} :
                malloc(n) /\ heap_break' # heap_break =>
                   \A b \in DOMAIN meta : meta[b].is_free => meta[b].size < n]_heapVars
  <2> SUFFICES ASSUME NEW n \in Sizes \ {0}, malloc(n), heap_break' # heap_break,
                      NEW b \in DOMAIN meta, meta[b].is_free
               PROVE  meta[b].size < n
    OBVIOUS
  <2>1. find_free_block(n) = 0
    BY DEF malloc, Reuse
  <2>2. b \in Blocks /\ ~Fits(b, n)
    BY <1>1, <2>1, FindFree DEF Blocks
  <2>3. meta[b].size \in Nat /\ n \in Nat
    BY <1>1, <2>2, HeapAssumption DEF HInv, HeapTypes, Block
  <2> QED BY <2>2, <2>3 DEF Fits
<1> QED BY <1>1, HeapInvariant, PTL DEF HeapSpec, GrowsOnlyWhenNeeded
=============================================================================
