---------------------------- MODULE Uart_proofs ----------------------------
(***************************************************************************)
(* Proofs about module Uart, for every ring size and counter width, and     *)
(* about the driver in its machine, module Console, for every FIFO.         *)
(***************************************************************************)
EXTENDS Console, TLAPS, SequenceTheorems

\* The counters are 32 bits wide.
CountersOK == rx_head \in Counter /\ rx_tail \in Counter /\ rx_commit \in Counter

\* The inductive invariant: the driver's stated order of the counters, and the
\* slot kept for Enter.
RingInv == CountersOK /\ RingOrder /\ RoomForEnter

\* The sizes, as the provers want them.
LEMMA WrapFacts == SIZE \in Nat /\ WRAP \in Nat /\ 0 < SIZE /\ SIZE < WRAP
BY RingAssumption

\* The zeroed counters satisfy the ring invariant.
LEMMA RingInit == Init => RingInv
BY WrapFacts DEF Init, RingInv, CountersOK, Counter, RingOrder, RoomForEnter, Diff

\* Every byte received and every read preserves it.
LEMMA RingNext == RingInv /\ [Next]_uartVars => RingInv'
<1> SUFFICES ASSUME RingInv, [Next]_uartVars PROVE RingInv'
  OBVIOUS
<1> USE WrapFacts DEF RingInv, CountersOK, Counter, RingOrder, RoomForEnter, Diff
<1>1. ASSUME NEW c \in Keys, Escape(c) \/ Control(c) PROVE RingInv'
  BY <1>1 DEF Escape, Control, uartVars
<1>2. ASSUME NEW c \in Keys, Enter(c) PROVE RingInv'
  BY <1>2 DEF Enter, Store, Inc
<1>3. ASSUME NEW c \in Keys, Backspace(c) PROVE RingInv'
  BY <1>3 DEF Backspace, Dec
<1>4. ASSUME NEW c \in Keys, Normal(c) PROVE RingInv'
  BY <1>4 DEF Normal, Store, Inc
<1>5. ASSUME NEW size \in 1 .. SIZE, Read(size) PROVE RingInv'
  <2>1. PICK n \in 1 .. size : /\ ~ReadsOn(n, size)
                               /\ \A m \in 1 .. n - 1 : ReadsOn(m, size)
                               /\ rx_tail' = Add(rx_tail, n)
    BY <1>5 DEF Read
  <2>2. n <= Diff(rx_commit, rx_tail)
    <3>1. CASE n = 1
      BY <1>5, <3>1 DEF Read, Readable
    <3>2. CASE n # 1
      <4>1. n - 1 \in 1 .. n - 1
        BY <3>2
      <4> QED BY <2>1, <4>1 DEF ReadsOn, Readable
    <3> QED BY <3>1, <3>2
  <2>3. UNCHANGED <<rx_head, rx_commit>>
    BY <1>5 DEF Read
  <2> QED BY <2>1, <2>2, <2>3 DEF Add
<1>6. CASE UNCHANGED uartVars
  BY <1>6 DEF uartVars
<1> QED
  BY <1>1, <1>2, <1>3, <1>4, <1>5, <1>6 DEF Next, uart_intr

\* The driver's stated order of the counters holds whatever is typed and read
\* and however often they wrap, and there is always a slot for the Enter that
\* ends the line being typed.
THEOREM RingIsSound == Spec => []RingSound
<1>1. RingInv => RingSound
  BY DEF RingInv, RingSound
<1> QED BY <1>1, RingInit, RingNext, PTL DEF Spec

-----------------------------------------------------------------------------
(* Slots.  The counters wrap at a multiple of SIZE, so a run of at most SIZE *)
(* consecutive counters has a slot for each, also across the wrap.           *)

\* Two numbers less than P apart with the same remainder are equal.
LEMMA ModInjective ==
    ASSUME NEW P \in Nat \ {0}, NEW a \in Nat, NEW b \in Nat,
           a <= b, b - a < P, a % P = b % P
    PROVE  a = b
<1> DEFINE qa == a \div P
           qb == b \div P
<1>1. qa \in Int /\ qb \in Int /\ a = P * qa + (a % P) /\ b = P * qb + (b % P)
      /\ a % P \in Int
  BY SMT
<1>2. P * (qb - qa) = b - a
  <2>1. P * (qb - qa) = P * qb - P * qa
    BY <1>1, SMT
  <2>2. P * qb \in Int /\ P * qa \in Int
    BY <1>1, SMT
  <2> HIDE DEF qa, qb
  <2> QED BY <1>1, <2>1, <2>2
<1>3. ~(qb - qa >= 1)
  <2> SUFFICES ASSUME qb - qa >= 1 PROVE FALSE
    OBVIOUS
  <2>1. P * (qb - qa) >= P
    BY <1>1, SMT
  <2> QED BY <1>1, <1>2, <2>1
<1>4. ~(qb - qa <= -1)
  <2> SUFFICES ASSUME qb - qa <= -1 PROVE FALSE
    OBVIOUS
  <2>1. P * (qb - qa) <= -P
    BY <1>1, SMT
  <2> QED BY <1>1, <1>2, <2>1
<1>5. qb = qa
  BY <1>1, <1>3, <1>4
<1> QED BY <1>1, <1>5

\* Taking off a multiple of P does not change the remainder.
LEMMA ModShift ==
    ASSUME NEW P \in Nat \ {0}, NEW k \in Nat, NEW n \in Nat, P * k <= n
    PROVE  (n - P * k) % P = n % P
<1> DEFINE m == n - P * k
           qn == n \div P
           qm == m \div P
<1>1. P * k \in Int /\ m \in Nat
  BY SMT
<1>2. /\ qn \in Int /\ n = P * qn + (n % P) /\ n % P \in 0 .. P - 1
      /\ qm \in Int /\ m = P * qm + (m % P) /\ m % P \in 0 .. P - 1
  <2> HIDE DEF m
  <2> QED BY <1>1, SMT
<1> DEFINE d == qn - k - qm
           rm == m % P
           rn == n % P
<1>3. P * d = rm - rn
  <2>1. P * d = P * qn - P * k - P * qm
    BY <1>1, <1>2, SMT
  <2>2. P * qn \in Int /\ P * qm \in Int
    BY <1>2, SMT
  <2>3. m = n - P * k
    OBVIOUS
  <2> HIDE DEF m, qn, qm, d
  <2> QED BY <1>1, <1>2, <2>1, <2>2, <2>3
<1>4. d \in Int /\ rm \in 0 .. P - 1 /\ rn \in 0 .. P - 1
  BY <1>2
<1> HIDE DEF d, rm, rn
<1>5. d = 0
  <2>1. ~(d >= 1)
    <3> SUFFICES ASSUME d >= 1 PROVE FALSE
      OBVIOUS
    <3>1. P * d >= P
      BY <1>4, SMT
    <3> QED BY <1>3, <1>4, <3>1
  <2>2. ~(d <= -1)
    <3> SUFFICES ASSUME d <= -1 PROVE FALSE
      OBVIOUS
    <3>1. P * d <= -P
      BY <1>4, SMT
    <3> QED BY <1>3, <1>4, <3>1
  <2> QED BY <1>4, <2>1, <2>2
<1>6. P * d = 0
  BY <1>5
<1>7. rm = rn
  BY <1>3, <1>4, <1>6
<1> QED BY <1>7 DEF rm, rn

\* The slot of a counter n steps further on, across the wrap of the counter.
LEMMA SlotOfAdd ==
    ASSUME NEW a \in Counter, NEW n \in 0 .. WRAP - 1
    PROVE  Add(a, n) \in Counter /\ Slot(Add(a, n)) = (a + n) % SIZE
<1>1. Add(a, n) \in Counter
  BY WrapFacts DEF Add, Counter
<1>2. CASE a + n < WRAP
  BY <1>2, WrapFacts DEF Add, Slot, Counter
<1>3. CASE a + n >= WRAP
  <2> DEFINE k == WRAP \div SIZE
  <2>1. k \in Nat /\ WRAP = SIZE * k
    <3>1. k \in Int /\ WRAP = SIZE * k + (WRAP % SIZE)
      BY WrapFacts, SMT
    <3>2. k >= 0
      BY WrapFacts, SMT
    <3>3. SIZE * k \in Int
      BY WrapFacts, <3>1, SMT
    <3> HIDE DEF k
    <3> QED BY <3>1, <3>2, <3>3, RingAssumption
  <2> HIDE DEF k
  <2>2. a + n \in Nat /\ SIZE \in Nat \ {0}
    BY WrapFacts DEF Counter
  <2>3. PICK s \in Nat : s = a + n
    BY <2>2
  <2>4. (s - SIZE * k) % SIZE = s % SIZE
    BY <1>3, <2>1, <2>2, <2>3, ModShift
  <2>5. Add(a, n) = s - SIZE * k
    BY <1>3, <2>1, <2>3, WrapFacts DEF Add, Counter
  <2> QED BY <1>1, <2>3, <2>4, <2>5 DEF Slot
<1> QED BY <1>1, <1>2, <1>3, WrapFacts DEF Counter

\* Every counter has a slot in the ring.
LEMMA SlotInRing == ASSUME NEW a \in Counter PROVE Slot(a) \in 0 .. SIZE - 1
<1>1. a \in Int /\ SIZE \in Nat \ {0}
  BY WrapFacts DEF Counter
<1>2. a % SIZE \in 0 .. SIZE - 1
  BY <1>1, SMT
<1> QED BY <1>2 DEF Slot

\* SIZE consecutive counters have SIZE slots.
LEMMA SlotsDistinct ==
    ASSUME NEW a \in Counter, NEW i \in 0 .. SIZE - 1, NEW j \in 0 .. SIZE - 1, i # j
    PROVE  Slot(Add(a, i)) # Slot(Add(a, j))
<1>1. a \in Nat /\ SIZE \in Nat \ {0} /\ i \in 0 .. WRAP - 1 /\ j \in 0 .. WRAP - 1
  BY WrapFacts DEF Counter
<1>2. Slot(Add(a, i)) = (a + i) % SIZE /\ Slot(Add(a, j)) = (a + j) % SIZE
  BY <1>1, SlotOfAdd
<1> DEFINE x == a + i
           y == a + j
<1>3. x \in Nat /\ y \in Nat /\ x # y /\ x - y < SIZE /\ y - x < SIZE
  BY <1>1
<1> HIDE DEF x, y
<1>4. x % SIZE # y % SIZE
  <2>1. CASE x <= y
    BY <1>1, <1>3, <2>1, ModInjective
  <2>2. CASE y <= x
    BY <1>1, <1>3, <2>2, ModInjective
  <2> QED BY <1>3, <2>1, <2>2
<1> QED BY <1>2, <1>4 DEF x, y

-----------------------------------------------------------------------------
(* Spans: what the ring holds between two counters.                        *)

\* The bytes of the ring between two counters.
Span(buf, from, to) == [k \in 1 .. Diff(to, from) |-> buf[Slot(Add(from, k - 1))]]

\* What a byte of the ring can be.
Contents == Text \cup {"LF", "NUL"}

\* Bytes(), in terms of the ring's contents, in this state and in the next.
LEMMA BytesAreSpans ==
    ASSUME NEW from, NEW to PROVE Bytes(from, to) = Span(rx_buf, from, to)
BY DEF Bytes, Span

\* A span is the sequence of the bytes in the slots of its counters.
LEMMA SpanSeq ==
    ASSUME NEW buf \in [0 .. SIZE - 1 -> Contents], NEW a \in Counter, NEW b \in Counter
    PROVE  /\ Span(buf, a, b) \in Seq(Contents)
           /\ Diff(b, a) \in Counter
           /\ Len(Span(buf, a, b)) = Diff(b, a)
           /\ \A k \in 1 .. Diff(b, a) : /\ Slot(Add(a, k - 1)) \in 0 .. SIZE - 1
                                         /\ Span(buf, a, b)[k] = buf[Slot(Add(a, k - 1))]
<1>1. Diff(b, a) \in Counter /\ Diff(b, a) \in Nat
  BY WrapFacts DEF Diff, Counter
<1>2. ASSUME NEW k \in 1 .. Diff(b, a)
      PROVE  Slot(Add(a, k - 1)) \in 0 .. SIZE - 1
  <2>1. k - 1 \in 0 .. WRAP - 1
    BY <1>1, WrapFacts DEF Counter
  <2> QED BY <2>1, SlotOfAdd, SlotInRing
<1>3. Span(buf, a, b) \in [1 .. Diff(b, a) -> Contents]
  BY <1>2 DEF Span
<1>4. Span(buf, a, b) \in Seq(Contents) /\ Len(Span(buf, a, b)) = Diff(b, a)
  BY <1>1, <1>3
<1> QED BY <1>1, <1>2, <1>4 DEF Span

\* Counters n steps apart.
LEMMA AddDiff ==
    ASSUME NEW a \in Counter, NEW n \in 0 .. WRAP - 1
    PROVE  Diff(Add(a, n), a) = n
BY WrapFacts DEF Add, Diff, Counter

\* Equal counters: an empty span.
LEMMA DiffSelf == ASSUME NEW a \in Int PROVE Diff(a, a) = 0
BY DEF Diff

\* Adding twice, modulo the width.
LEMMA AddAdd ==
    ASSUME NEW a \in Counter, NEW m \in Nat, NEW n \in Nat, m + n < WRAP
    PROVE  Add(Add(a, m), n) = Add(a, m + n)
BY WrapFacts DEF Add, Counter

\* Incrementing is adding one.
LEMMA IncAdd ==
    ASSUME NEW a \in Counter, NEW n \in Nat, n + 1 < WRAP
    PROVE  Inc(Add(a, n)) = Add(a, n + 1) /\ Dec(Add(a, n + 1)) = Add(a, n)
BY WrapFacts DEF Add, Inc, Dec, Counter

\* A byte stored n < SIZE slots behind a leaves the first n bytes alone: the
\* ring has not come round to them.
LEMMA StoreKeeps ==
    ASSUME NEW buf \in [0 .. SIZE - 1 -> Contents], NEW v, NEW a \in Counter,
           NEW n \in 0 .. SIZE - 1, NEW m \in 0 .. n
    PROVE  Span([buf EXCEPT ![Slot(Add(a, n))] = v], a, Add(a, m)) = Span(buf, a, Add(a, m))
<1> DEFINE new == [buf EXCEPT ![Slot(Add(a, n))] = v]
<1>1. Diff(Add(a, m), a) = m
  BY AddDiff, WrapFacts
<1>2. ASSUME NEW k \in 1 .. m
      PROVE  new[Slot(Add(a, k - 1))] = buf[Slot(Add(a, k - 1))]
  <2>1. k - 1 \in 0 .. SIZE - 1 /\ k - 1 # n /\ k - 1 \in 0 .. WRAP - 1
    BY WrapFacts
  <2>2. Slot(Add(a, k - 1)) # Slot(Add(a, n))
    BY <2>1, SlotsDistinct
  <2>3. Slot(Add(a, k - 1)) \in 0 .. SIZE - 1
    BY <2>1, SlotOfAdd, SlotInRing
  <2> QED BY <2>2, <2>3
<1> HIDE DEF new
<1>3. Span(new, a, Add(a, m)) = Span(buf, a, Add(a, m))
  BY <1>1, <1>2 DEF Span
<1> QED BY <1>3 DEF new

\* A byte stored right behind a span, with room in the ring, is appended to it.
LEMMA StoreAppends ==
    ASSUME NEW buf \in [0 .. SIZE - 1 -> Contents], NEW v \in Contents, NEW a \in Counter,
           NEW n \in 0 .. SIZE - 1
    PROVE  Span([buf EXCEPT ![Slot(Add(a, n))] = v], a, Add(a, n + 1))
              = Append(Span(buf, a, Add(a, n)), v)
<1> DEFINE new == [buf EXCEPT ![Slot(Add(a, n))] = v]
           s == Span(new, a, Add(a, n + 1))
           t == Span(buf, a, Add(a, n))
<1>0. n \in 0 .. WRAP - 1 /\ n + 1 \in 0 .. WRAP - 1 /\ n \in Nat
  BY WrapFacts
<1>1. Add(a, n) \in Counter /\ Add(a, n + 1) \in Counter
  BY <1>0, SlotOfAdd
<1>2. Slot(Add(a, n)) \in 0 .. SIZE - 1
  BY <1>1, SlotInRing
<1>3. new \in [0 .. SIZE - 1 -> Contents] /\ new[Slot(Add(a, n))] = v
  BY <1>2
<1>4. Diff(Add(a, n + 1), a) = n + 1 /\ Diff(Add(a, n), a) = n
  BY <1>0, AddDiff
<1>5. Span(new, a, Add(a, n)) = t
  BY <1>0, StoreKeeps, n \in 0 .. n
<1> HIDE DEF new
<1>6. s \in Seq(Contents) /\ Len(s) = n + 1 /\ t \in Seq(Contents) /\ Len(t) = n
  BY <1>1, <1>3, <1>4, SpanSeq
<1>7. ASSUME NEW k \in 1 .. n PROVE s[k] = t[k]
  <2>1. s[k] = new[Slot(Add(a, k - 1))]
    BY <1>0, <1>4 DEF Span
  <2>2. Span(new, a, Add(a, n))[k] = new[Slot(Add(a, k - 1))]
    BY <1>0, <1>4 DEF Span
  <2> QED BY <2>1, <2>2, <1>5
<1>8. s[n + 1] = v
  <2>1. n + 1 \in 1 .. n + 1 /\ (n + 1) - 1 = n
    BY <1>0
  <2>2. s[n + 1] = new[Slot(Add(a, (n + 1) - 1))]
    BY <1>4, <2>1 DEF Span
  <2> QED BY <1>3, <2>1, <2>2
<1> HIDE DEF s, t
<1>9. /\ Append(t, v) \in Seq(Contents) /\ Len(Append(t, v)) = n + 1
      /\ \A k \in 1 .. n : Append(t, v)[k] = t[k]
      /\ Append(t, v)[n + 1] = v
  BY <1>6, AppendProperties
<1>10. \A k \in 1 .. n + 1 : s[k] = Append(t, v)[k]
  BY <1>0, <1>7, <1>8, <1>9
<1>11. s = Append(t, v)
  BY <1>6, <1>9, <1>10, SeqEqual
<1> QED BY <1>11 DEF s, t, new

\* A part of a span is a span.
LEMMA SpanPart ==
    ASSUME NEW buf \in [0 .. SIZE - 1 -> Contents], NEW a \in Counter,
           NEW n \in 0 .. WRAP - 1, NEW i \in 0 .. n, NEW j \in i .. n
    PROVE  Span(buf, Add(a, i), Add(a, j)) = SubSeq(Span(buf, a, Add(a, n)), i + 1, j)
<1> DEFINE s == Span(buf, Add(a, i), Add(a, j))
           t == Span(buf, a, Add(a, n))
           u == SubSeq(t, i + 1, j)
<1>0. i \in 0 .. WRAP - 1 /\ j \in 0 .. WRAP - 1 /\ i \in Nat /\ j \in Nat /\ j - i \in Nat
  BY WrapFacts
<1>1. Add(a, i) \in Counter /\ Add(a, j) \in Counter /\ Add(a, n) \in Counter
  BY <1>0, SlotOfAdd
<1>2. Diff(Add(a, n), a) = n
  BY AddDiff
<1>3. Diff(Add(a, j), Add(a, i)) = j - i
  <2>1. PICK d \in 0 .. WRAP - 1 : d = j - i /\ j = i + d
    BY <1>0, WrapFacts
  <2>2. Add(a, j) = Add(Add(a, i), d)
    BY <1>0, <2>1, AddAdd, WrapFacts
  <2> QED BY <1>1, <2>1, <2>2, AddDiff
<1>4. s \in Seq(Contents) /\ Len(s) = j - i /\ t \in Seq(Contents) /\ Len(t) = n
  BY <1>1, <1>2, <1>3, SpanSeq
<1>5. /\ u \in Seq(Contents) /\ Len(u) = j - i
      /\ \A k \in 1 .. j - i : u[k] = t[i + k]
  <2>1. \A k \in i + 1 .. j : t[k] \in Contents
    BY <1>0, <1>4, ElementOfSeq
  <2>2. i + 1 \in Int /\ j \in Int
    BY <1>0
  <2> HIDE DEF t
  <2>3. /\ u \in Seq(Contents)
        /\ Len(u) = IF i + 1 <= j THEN j - (i + 1) + 1 ELSE 0
        /\ \A k \in 1 .. j - (i + 1) + 1 : u[k] = t[i + 1 + k - 1]
    BY <2>1, <2>2, SubSeqProperties
  <2> HIDE DEF u
  <2> QED BY <1>0, <2>3
<1>6. ASSUME NEW k \in 1 .. j - i PROVE s[k] = u[k]
  <2>1. s[k] = buf[Slot(Add(Add(a, i), k - 1))]
    BY <1>3 DEF Span
  <2>2. Add(Add(a, i), k - 1) = Add(a, i + k - 1)
    <3>1. PICK d \in Nat : d = k - 1 /\ i + d < WRAP /\ i + d = i + k - 1
      BY <1>0, WrapFacts
    <3> QED BY <1>0, <3>1, AddAdd
  <2>3. i + k \in 1 .. n
    BY <1>0
  <2>4. t[i + k] = buf[Slot(Add(a, (i + k) - 1))]
    BY <1>2, <2>3 DEF Span
  <2>5. (i + k) - 1 = i + k - 1
    BY <1>0
  <2> QED BY <1>5, <2>1, <2>2, <2>4, <2>5
<1> HIDE DEF s, t, u
<1>7. s = u
  BY <1>4, <1>5, <1>6, SeqEqual
<1> QED BY <1>7 DEF s, t, u

-----------------------------------------------------------------------------
(* The contents of the ring.                                               *)

\* The inductive invariant: the ring's, with the types and the lines.
LinesInv == RingInv /\ TypeOK /\ WholeLines /\ EchoIsTheLine

\* The distances between the three counters, and their slots.
LEMMA Distances ==
    ASSUME RingInv
    PROVE  \E r \in 0 .. SIZE, l \in 0 .. SIZE :
              /\ r + l <= SIZE /\ (l > 0 => r + l < SIZE)
              /\ r = Diff(rx_commit, rx_tail) /\ l = Diff(rx_head, rx_commit)
              /\ r + l = Diff(rx_head, rx_tail)
              /\ rx_commit = Add(rx_tail, r)
              /\ rx_head = Add(rx_tail, r + l) /\ rx_head = Add(rx_commit, l)
<1> DEFINE r == Diff(rx_commit, rx_tail)
           l == Diff(rx_head, rx_commit)
<1> USE WrapFacts DEF RingInv, CountersOK, Counter, RingOrder, RoomForEnter
<1>1. r \in 0 .. SIZE /\ l \in 0 .. SIZE /\ r + l = Diff(rx_head, rx_tail)
  BY DEF Diff
<1>2. r + l <= SIZE /\ (l > 0 => r + l < SIZE)
  BY <1>1 DEF Diff
<1>3. /\ rx_commit = Add(rx_tail, r)
      /\ rx_head = Add(rx_tail, r + l) /\ rx_head = Add(rx_commit, l)
  BY DEF Add, Diff
<1> HIDE DEF r, l
<1> QED BY <1>1, <1>2, <1>3 DEF r, l

\* At the start everything is empty.
LEMMA LinesInit == Init => LinesInv
<1> SUFFICES ASSUME Init PROVE LinesInv
  OBVIOUS
<1>1. RingInv
  BY RingInit
<1>2. TypeOK
  BY WrapFacts DEF Init, TypeOK, Counter
<1>3. Diff(0, 0) = 0
  BY DEF Diff
<1>4. WholeLines /\ EchoIsTheLine
  BY <1>3 DEF Init, WholeLines, EchoIsTheLine, Bytes
<1> QED BY <1>1, <1>2, <1>4 DEF LinesInv

\* Every byte and every read preserves the invariant and is a step, or no step,
\* of the line discipline.
LEMMA EscapeStep ==
    ASSUME LinesInv, NEW c \in Keys, Escape(c) \/ Control(c) \/ UNCHANGED uartVars
    PROVE  /\ TypeOK' /\ WholeLines' /\ EchoIsTheLine'
           /\ UNCHANGED <<Bytes(rx_tail, rx_commit), Bytes(rx_commit, rx_head)>>
<1>1. UNCHANGED <<rx_buf, rx_head, rx_tail, rx_commit, screen>>
  BY DEF Escape, Control, uartVars
<1>2. esc_state' \in {"NORMAL", "GOT_ESC", "IN_SEQ"}
  BY DEF Escape, Control, uartVars, LinesInv, TypeOK, EscNext
<1> QED BY <1>1, <1>2 DEF LinesInv, TypeOK, WholeLines, EchoIsTheLine, Bytes

\* A byte stored while the ring has room is behind the line being typed, and
\* behind everything the ring holds; what was there stays.
LEMMA StoreFacts ==
    ASSUME LinesInv, NEW v \in Contents, Store(v), Diff(rx_head, rx_tail) < SIZE
    PROVE  /\ rx_buf' \in [0 .. SIZE - 1 -> Contents] /\ rx_head' \in Counter
           /\ rx_buf'[Slot(rx_head)] = v /\ Dec(rx_head') = rx_head
           /\ Span(rx_buf', rx_tail, rx_commit) = Bytes(rx_tail, rx_commit)
           /\ Span(rx_buf', rx_commit, rx_head') = Append(Bytes(rx_commit, rx_head), v)
           /\ Span(rx_buf', rx_tail, rx_head') = Append(Bytes(rx_tail, rx_head), v)
           /\ rx_commit # rx_tail =>
                rx_buf'[Slot(Dec(rx_commit))] = rx_buf[Slot(Dec(rx_commit))]
<1>1. PICK r \in 0 .. SIZE, l \in 0 .. SIZE :
              /\ r + l <= SIZE /\ (l > 0 => r + l < SIZE)
              /\ r = Diff(rx_commit, rx_tail) /\ l = Diff(rx_head, rx_commit)
              /\ r + l = Diff(rx_head, rx_tail)
              /\ rx_commit = Add(rx_tail, r)
              /\ rx_head = Add(rx_tail, r + l) /\ rx_head = Add(rx_commit, l)
  BY Distances DEF LinesInv
<1>2. /\ rx_buf \in [0 .. SIZE - 1 -> Contents]
      /\ rx_head \in Counter /\ rx_tail \in Counter /\ rx_commit \in Counter
  BY DEF LinesInv, TypeOK, Contents
<1>3. rx_buf' = [rx_buf EXCEPT ![Slot(rx_head)] = v] /\ rx_head' = Inc(rx_head)
  BY DEF Store
<1>4. /\ r \in Nat /\ l \in Nat /\ r \in 0 .. r + l
      /\ l \in 0 .. SIZE - 1 /\ r + l \in 0 .. SIZE - 1
      /\ r + l \in Nat /\ l + 1 < WRAP /\ (r + l) + 1 < WRAP
  BY <1>1, WrapFacts
<1>5. /\ rx_head' = Add(rx_commit, l + 1) /\ rx_head' = Add(rx_tail, (r + l) + 1)
      /\ rx_head' \in Counter /\ Dec(rx_head') = rx_head
  <2>1. rx_head' \in Counter /\ Dec(rx_head') = rx_head
    BY <1>2, <1>3, WrapFacts DEF Inc, Dec, Counter
  <2>2. rx_head' = Add(rx_commit, l + 1)
    BY <1>1, <1>2, <1>3, <1>4, IncAdd
  <2>3. rx_head' = Add(rx_tail, (r + l) + 1)
    BY <1>1, <1>2, <1>3, <1>4, IncAdd
  <2> QED BY <2>1, <2>2, <2>3
<1>6. Slot(rx_head) \in 0 .. SIZE - 1
  BY <1>2, SlotInRing
<1>7. rx_buf' \in [0 .. SIZE - 1 -> Contents] /\ rx_buf'[Slot(rx_head)] = v
  BY <1>2, <1>3, <1>6
<1>8. Span(rx_buf', rx_tail, rx_commit) = Bytes(rx_tail, rx_commit)
  <2>1. rx_buf' = [rx_buf EXCEPT ![Slot(Add(rx_tail, r + l))] = v]
    BY <1>1, <1>3
  <2>2. Span(rx_buf', rx_tail, Add(rx_tail, r)) = Span(rx_buf, rx_tail, Add(rx_tail, r))
    BY <1>2, <1>4, <2>1, StoreKeeps
  <2> QED BY <1>1, <2>2, BytesAreSpans
<1>9. Span(rx_buf', rx_commit, rx_head') = Append(Bytes(rx_commit, rx_head), v)
  <2>1. rx_buf' = [rx_buf EXCEPT ![Slot(Add(rx_commit, l))] = v]
    BY <1>1, <1>3
  <2>2. Span(rx_buf', rx_commit, Add(rx_commit, l + 1))
            = Append(Span(rx_buf, rx_commit, Add(rx_commit, l)), v)
    BY <1>2, <1>4, <2>1, StoreAppends
  <2> QED BY <1>1, <1>5, <2>2, BytesAreSpans
<1>10. Span(rx_buf', rx_tail, rx_head') = Append(Bytes(rx_tail, rx_head), v)
  <2>1. rx_buf' = [rx_buf EXCEPT ![Slot(Add(rx_tail, r + l))] = v]
    BY <1>1, <1>3
  <2>2. Span(rx_buf', rx_tail, Add(rx_tail, (r + l) + 1))
            = Append(Span(rx_buf, rx_tail, Add(rx_tail, r + l)), v)
    BY <1>2, <1>4, <2>1, StoreAppends
  <2> QED BY <1>1, <1>5, <2>2, BytesAreSpans
<1>11. ASSUME rx_commit # rx_tail
       PROVE  rx_buf'[Slot(Dec(rx_commit))] = rx_buf[Slot(Dec(rx_commit))]
  <2>0. r # 0
    BY <1>1, <1>2, <1>11, WrapFacts DEF Diff, Counter
  <2>1. PICK d \in Nat : r = d + 1
    BY <1>4, <2>0
  <2>2. Dec(rx_commit) = Add(rx_tail, d)
    BY <1>1, <1>2, <1>4, <2>1, IncAdd, WrapFacts
  <2>3. d \in 0 .. SIZE - 1 /\ d # r + l
    BY <1>4, <2>1, WrapFacts
  <2>4. Slot(Add(rx_tail, d)) # Slot(Add(rx_tail, r + l))
    BY <1>2, <1>4, <2>3, SlotsDistinct
  <2>5. Dec(rx_commit) \in Counter
    BY <1>2, WrapFacts DEF Dec, Counter
  <2>6. Slot(Dec(rx_commit)) \in 0 .. SIZE - 1
    BY <2>5, SlotInRing
  <2> QED BY <1>1, <1>2, <1>3, <2>2, <2>4, <2>6
<1> QED BY <1>5, <1>7, <1>8, <1>9, <1>10, <1>11

\* The lengths of the two spans, and the whole contents as their concatenation.
LEMMA Lengths ==
    ASSUME LinesInv
    PROVE  /\ Bytes(rx_tail, rx_commit) \in Seq(Contents)
           /\ Bytes(rx_commit, rx_head) \in Seq(Contents)
           /\ Len(Bytes(rx_tail, rx_commit)) = Diff(rx_commit, rx_tail)
           /\ Len(Bytes(rx_commit, rx_head)) = Diff(rx_head, rx_commit)
           /\ Len(Bytes(rx_tail, rx_commit)) + Len(Bytes(rx_commit, rx_head))
                = Diff(rx_head, rx_tail)
           /\ Bytes(rx_tail, rx_head) = Bytes(rx_tail, rx_commit) \o Bytes(rx_commit, rx_head)
<1>1. PICK r \in 0 .. SIZE, l \in 0 .. SIZE :
              /\ r + l <= SIZE /\ (l > 0 => r + l < SIZE)
              /\ r = Diff(rx_commit, rx_tail) /\ l = Diff(rx_head, rx_commit)
              /\ r + l = Diff(rx_head, rx_tail)
              /\ rx_commit = Add(rx_tail, r)
              /\ rx_head = Add(rx_tail, r + l) /\ rx_head = Add(rx_commit, l)
  BY Distances DEF LinesInv
<1>2. /\ rx_buf \in [0 .. SIZE - 1 -> Contents]
      /\ rx_head \in Counter /\ rx_tail \in Counter /\ rx_commit \in Counter
  BY DEF LinesInv, TypeOK, Contents
<1> DEFINE all == Bytes(rx_tail, rx_head)
           fin == Bytes(rx_tail, rx_commit)
           edt == Bytes(rx_commit, rx_head)
<1>3. /\ fin \in Seq(Contents) /\ Len(fin) = r
      /\ edt \in Seq(Contents) /\ Len(edt) = l
      /\ all \in Seq(Contents) /\ Len(all) = r + l
  BY <1>1, <1>2, SpanSeq, BytesAreSpans
<1>4. r \in Nat /\ l \in Nat /\ r + l \in 0 .. WRAP - 1 /\ r \in 0 .. r + l
      /\ r + l \in r .. r + l /\ 0 \in 0 .. r + l /\ r \in 0 .. r + l
  BY <1>1, WrapFacts
<1>5. rx_tail = Add(rx_tail, 0)
  BY <1>2, WrapFacts DEF Add, Counter
<1>6. fin = SubSeq(all, 1, r)
  <2>1. Span(rx_buf, Add(rx_tail, 0), Add(rx_tail, r))
          = SubSeq(Span(rx_buf, rx_tail, Add(rx_tail, r + l)), 0 + 1, r)
    BY <1>2, <1>4, SpanPart
  <2>2. 0 + 1 = 1
    OBVIOUS
  <2> QED BY <1>1, <1>5, <2>1, <2>2, BytesAreSpans
<1>7. edt = SubSeq(all, r + 1, r + l)
  <2>1. Span(rx_buf, Add(rx_tail, r), Add(rx_tail, r + l))
          = SubSeq(Span(rx_buf, rx_tail, Add(rx_tail, r + l)), r + 1, r + l)
    BY <1>2, <1>4, SpanPart
  <2> QED BY <1>1, <2>1, BytesAreSpans
<1> HIDE DEF all, fin, edt
<1>8. SubSeq(all, 1, r) \o SubSeq(all, r + 1, r + l) = SubSeq(all, 1, r + l)
  <2>1. 1 \in 1 .. Len(all) + 1 /\ r \in 1 - 1 .. Len(all) /\ r + l \in r .. Len(all)
    BY <1>3, <1>4
  <2> QED BY <1>3, <2>1, ConcatAdjacentSubSeq
<1>9. SubSeq(all, 1, r + l) = all
  BY <1>3, SubSeqFull
<1>10. all = fin \o edt
  BY <1>6, <1>7, <1>8, <1>9
<1> QED BY <1>1, <1>3, <1>10 DEF all, fin, edt

\* A byte that is accepted is appended to the line being typed and to nothing
\* else; one that is not leaves no trace.
LEMMA NormalStep ==
    ASSUME LinesInv, NEW c \in Keys, Normal(c)
    PROVE  /\ TypeOK' /\ WholeLines' /\ EchoIsTheLine'
           /\ [Lines!LineNext]_<<Bytes(rx_tail, rx_commit), Bytes(rx_commit, rx_head)>>
<1>1. /\ rx_head \in Counter /\ rx_tail \in Counter /\ rx_commit \in Counter
      /\ screen \in Seq(Text) /\ screen = Bytes(rx_commit, rx_head)
  BY DEF LinesInv, TypeOK, EchoIsTheLine
<1>2. /\ c \in Text /\ c \in Contents /\ esc_state = "NORMAL"
      /\ UNCHANGED <<rx_tail, rx_commit, esc_state>>
  BY DEF Normal, Contents
<1>3. CASE UNCHANGED <<rx_buf, rx_head, screen>>
  BY <1>3, <1>2 DEF LinesInv, TypeOK, WholeLines, EchoIsTheLine, Bytes
<1>4. CASE /\ Diff(rx_head, rx_tail) < SIZE - 1
           /\ Store(c)
           /\ screen' = Append(screen, c)
  <2>1. Diff(rx_head, rx_tail) < SIZE
    BY <1>1, <1>4, WrapFacts DEF Diff, Counter
  <2>2. /\ rx_buf' \in [0 .. SIZE - 1 -> Contents] /\ rx_head' \in Counter
        /\ Span(rx_buf', rx_tail, rx_commit) = Bytes(rx_tail, rx_commit)
        /\ Span(rx_buf', rx_commit, rx_head') = Append(Bytes(rx_commit, rx_head), c)
        /\ rx_commit # rx_tail =>
             rx_buf'[Slot(Dec(rx_commit))] = rx_buf[Slot(Dec(rx_commit))]
    BY <1>2, <1>4, <2>1, StoreFacts
  <2>3. /\ Bytes(rx_tail, rx_commit)' = Bytes(rx_tail, rx_commit)
        /\ Bytes(rx_commit, rx_head)' = Append(Bytes(rx_commit, rx_head), c)
    BY <1>2, <2>2 DEF Bytes, Span
  <2>4. screen' \in Seq(Text) /\ screen' = Bytes(rx_commit, rx_head)'
    BY <1>1, <1>2, <1>4, <2>3, AppendProperties
  <2>5. TypeOK' /\ EchoIsTheLine'
    BY <1>1, <1>2, <2>2, <2>4 DEF TypeOK, Contents, EchoIsTheLine
  <2>6. WholeLines'
    <3>1. Len(Bytes(rx_commit, rx_head)') = Diff(rx_head', rx_commit')
      <4>1. Len(Span(rx_buf', rx_commit, rx_head')) = Diff(rx_head', rx_commit)
        BY <1>1, <2>2, SpanSeq
      <4> QED BY <1>2, <4>1 DEF Bytes, Span
    <3>2. \A k \in 1 .. Diff(rx_head', rx_commit') : screen'[k] \in Text
      BY <2>4, <3>1, ElementOfSeq
    <3> QED BY <1>2, <2>2, <2>4, <3>2 DEF LinesInv, WholeLines
  <2>7. Lines!Type(c)
    BY <1>4, <2>3, Lengths DEF Lines!Type
  <2> QED BY <1>2, <2>5, <2>6, <2>7 DEF Lines!LineNext
<1> QED BY <1>3, <1>4 DEF Normal

\* Enter ends the line being typed; without room it leaves no trace.
LEMMA EnterStep ==
    ASSUME LinesInv, NEW c \in Keys, Enter(c)
    PROVE  /\ TypeOK' /\ WholeLines' /\ EchoIsTheLine'
           /\ [Lines!LineNext]_<<Bytes(rx_tail, rx_commit), Bytes(rx_commit, rx_head)>>
<1>1. rx_head \in Counter /\ rx_tail \in Counter /\ rx_commit \in Counter
  BY DEF LinesInv, TypeOK
<1>2. "LF" \in Contents /\ UNCHANGED <<rx_tail, esc_state>>
  BY DEF Enter, Contents
<1>3. CASE UNCHANGED <<rx_buf, rx_head, rx_commit, screen>>
  BY <1>3, <1>2 DEF LinesInv, TypeOK, WholeLines, EchoIsTheLine, Bytes
<1>4. CASE /\ Diff(rx_head, rx_tail) < SIZE
           /\ Store("LF")
           /\ rx_commit' = rx_head'
           /\ screen' = <<>>
  <2>1. /\ rx_buf' \in [0 .. SIZE - 1 -> Contents] /\ rx_head' \in Counter
        /\ rx_buf'[Slot(rx_head)] = "LF" /\ Dec(rx_head') = rx_head
        /\ Span(rx_buf', rx_tail, rx_head') = Append(Bytes(rx_tail, rx_head), "LF")
    BY <1>2, <1>4, StoreFacts
  <2>2. Diff(rx_head', rx_commit') = 0
    <3>1. rx_commit' = rx_head' /\ rx_head' \in Int
      BY <1>4, <2>1, WrapFacts DEF Counter
    <3> QED BY <3>1, DiffSelf
  <2>3. Bytes(rx_commit, rx_head)' = <<>>
    BY <2>2 DEF Bytes
  <2>4. TypeOK' /\ EchoIsTheLine' /\ WholeLines'
    <3>1. <<>> \in Seq(Text)
      OBVIOUS
    <3>2. TypeOK'
      BY <1>1, <1>2, <1>4, <2>1, <3>1 DEF LinesInv, TypeOK, Contents
    <3>3. EchoIsTheLine'
      BY <1>4, <2>3 DEF EchoIsTheLine
    <3>4. WholeLines'
      BY <1>4, <2>1, <2>2 DEF WholeLines
    <3> QED BY <3>2, <3>3, <3>4
  <2>5. Bytes(rx_tail, rx_commit)'
          = Bytes(rx_tail, rx_commit) \o Append(Bytes(rx_commit, rx_head), "LF")
    <3> DEFINE fin == Bytes(rx_tail, rx_commit)
               edt == Bytes(rx_commit, rx_head)
    <3>1. Bytes(rx_tail, rx_commit)' = Append(fin \o edt, "LF")
      BY <1>2, <1>4, <2>1, Lengths DEF Bytes, Span
    <3>2. fin \in Seq(Contents) /\ edt \in Seq(Contents)
      BY Lengths
    <3> HIDE DEF fin, edt
    <3>3. Append(fin \o edt, "LF") = (fin \o edt) \o <<"LF">>
      BY <1>2, <3>2, AppendIsConcat, ConcatProperties
    <3>4. Append(edt, "LF") = edt \o <<"LF">>
      BY <1>2, <3>2, AppendIsConcat
    <3>5. <<"LF">> \in Seq(Contents)
      BY <1>2
    <3>6. (fin \o edt) \o <<"LF">> = fin \o (edt \o <<"LF">>)
      BY <3>2, <3>5, ConcatAssociative
    <3>7. Append(fin \o edt, "LF") = fin \o Append(edt, "LF")
      BY <3>3, <3>4, <3>6
    <3> QED BY <3>1, <3>7 DEF fin, edt
  <2>6. Lines!Commit
    BY <1>4, <2>3, <2>5, Lengths DEF Lines!Commit
  <2> QED BY <2>4, <2>6 DEF Lines!LineNext
<1> QED BY <1>3, <1>4 DEF Enter

\* Backspace takes the last byte off the line being typed, never one of a
\* line that is finished.
LEMMA BackspaceStep ==
    ASSUME LinesInv, NEW c \in Keys, Backspace(c)
    PROVE  /\ TypeOK' /\ WholeLines' /\ EchoIsTheLine'
           /\ [Lines!LineNext]_<<Bytes(rx_tail, rx_commit), Bytes(rx_commit, rx_head)>>
<1>1. /\ rx_buf \in [0 .. SIZE - 1 -> Contents]
      /\ rx_head \in Counter /\ rx_tail \in Counter /\ rx_commit \in Counter
      /\ screen \in Seq(Text) /\ screen = Bytes(rx_commit, rx_head)
  BY DEF LinesInv, TypeOK, EchoIsTheLine, Contents
<1>2. UNCHANGED <<rx_buf, rx_tail, rx_commit, esc_state>>
  BY DEF Backspace
<1>3. CASE UNCHANGED <<rx_head, screen>>
  BY <1>2, <1>3 DEF LinesInv, TypeOK, WholeLines, EchoIsTheLine, Bytes
<1>4. CASE /\ rx_head # rx_commit
           /\ rx_head' = Dec(rx_head)
           /\ screen' = SubSeq(screen, 1, Len(screen) - 1)
  <2> DEFINE l == Diff(rx_head, rx_commit)
  <2>1. PICK d \in Nat : l = d + 1 /\ d + 1 < WRAP /\ rx_head = Add(rx_commit, d + 1)
    BY <1>1, <1>4, WrapFacts DEF Diff, Add, Counter
  <2>2. rx_head' = Add(rx_commit, d) /\ rx_head' \in Counter /\ Diff(rx_head', rx_commit) = d
    <3>1. d \in 0 .. WRAP - 1
      BY <2>1, WrapFacts
    <3> QED BY <1>1, <1>4, <2>1, <3>1, IncAdd, SlotOfAdd, AddDiff
  <2>3. Len(screen) = d + 1
    BY <1>1, <2>1, Lengths
  <2>4. Span(rx_buf, rx_commit, rx_head') = SubSeq(screen, 1, d)
    <3>1. rx_commit = Add(rx_commit, 0)
      BY <1>1, WrapFacts DEF Add, Counter
    <3>2. /\ 0 \in 0 .. d + 1 /\ d \in 0 .. d + 1 /\ d + 1 \in 0 .. WRAP - 1
          /\ 0 + 1 = 1 /\ d \in 0 .. (d + 1) /\ d >= 0
      BY <2>1, WrapFacts
    <3>3. Span(rx_buf, Add(rx_commit, 0), Add(rx_commit, d))
            = SubSeq(Span(rx_buf, rx_commit, Add(rx_commit, d + 1)), 0 + 1, d)
      BY <1>1, <3>2, SpanPart
    <3> QED BY <1>1, <2>1, <2>2, <3>1, <3>2, <3>3, BytesAreSpans
  <2>5. screen' = Bytes(rx_commit, rx_head)' /\ screen' = SubSeq(screen, 1, d)
    <3>1. screen' = SubSeq(screen, 1, d)
      BY <1>4, <2>3
    <3> QED BY <1>2, <2>4, <3>1 DEF Bytes, Span
  <2>6. screen' \in Seq(Text) /\ Len(screen') = d
    <3>1. \A k \in 1 .. d : screen[k] \in Text
      BY <1>1, <2>3, ElementOfSeq
    <3> QED BY <2>5, <3>1, SubSeqProperties
  <2>7. TypeOK' /\ EchoIsTheLine'
    BY <1>1, <1>2, <2>2, <2>5, <2>6 DEF LinesInv, TypeOK, Contents, EchoIsTheLine
  <2>8. WholeLines'
    <3>1. \A k \in 1 .. d : screen'[k] \in Text
      BY <2>6, ElementOfSeq
    <3> QED BY <1>2, <2>2, <2>5, <3>1 DEF LinesInv, WholeLines
  <2>9. Lines!Erase
    <3>1. Bytes(rx_commit, rx_head) # <<>>
      BY <1>1, <2>3
    <3>2. Len(Bytes(rx_commit, rx_head)) - 1 = d
      BY <1>1, <2>3
    <3>3. UNCHANGED Bytes(rx_tail, rx_commit)
      BY <1>2 DEF Bytes
    <3> QED BY <1>1, <2>5, <3>1, <3>2, <3>3 DEF Lines!Erase
  <2> QED BY <2>7, <2>8, <2>9 DEF Lines!LineNext
<1> QED BY <1>3, <1>4 DEF Backspace

\* A read takes a prefix of the finished lines, up to the first newline.
LEMMA ReadStep ==
    ASSUME LinesInv, NEW size \in 1 .. SIZE, Read(size)
    PROVE  /\ TypeOK' /\ WholeLines' /\ EchoIsTheLine'
           /\ [Lines!LineNext]_<<Bytes(rx_tail, rx_commit), Bytes(rx_commit, rx_head)>>
<1>1. /\ rx_buf \in [0 .. SIZE - 1 -> Contents]
      /\ rx_head \in Counter /\ rx_tail \in Counter /\ rx_commit \in Counter
  BY DEF LinesInv, TypeOK, Contents
<1>2. UNCHANGED <<rx_buf, rx_head, rx_commit, esc_state, screen>> /\ Readable > 0
  BY DEF Read
<1>3. PICK n \in 1 .. size : /\ ~ReadsOn(n, size)
                             /\ \A m \in 1 .. n - 1 : ReadsOn(m, size)
                             /\ rx_tail' = Add(rx_tail, n)
  BY DEF Read
<1> DEFINE r == Diff(rx_commit, rx_tail)
<1>4. r \in Nat /\ r < WRAP /\ r <= SIZE /\ rx_commit = Add(rx_tail, r) /\ r > 0
  BY <1>1, <1>2, WrapFacts DEF LinesInv, RingInv, RingOrder, Diff, Add, Counter, Readable
<1>5. n <= r
  <2>1. CASE n = 1
    BY <1>4, <2>1
  <2>2. CASE n # 1
    <3>1. n - 1 \in 1 .. n - 1
      BY <2>2
    <3> QED BY <1>3, <1>4, <3>1 DEF ReadsOn, Readable
  <2> QED BY <2>1, <2>2
<1>6. n \in 0 .. r /\ r \in n .. r /\ r \in 0 .. WRAP - 1 /\ n \in 0 .. WRAP - 1
  BY <1>4, <1>5, WrapFacts
<1>7. rx_tail' \in Counter
  BY <1>1, <1>3, <1>6, SlotOfAdd
<1>8. Bytes(rx_tail, rx_commit)' = SubSeq(Bytes(rx_tail, rx_commit), n + 1, r)
  <2> HIDE DEF r
  <2>1. Span(rx_buf, Add(rx_tail, n), Add(rx_tail, r))
          = SubSeq(Span(rx_buf, rx_tail, Add(rx_tail, r)), n + 1, r)
    BY <1>1, <1>6, SpanPart
  <2> QED BY <1>2, <1>3, <1>4, <2>1 DEF Bytes, Span
<1>9. TypeOK' /\ EchoIsTheLine'
  BY <1>2, <1>7 DEF LinesInv, TypeOK, EchoIsTheLine, Bytes
<1>10. WholeLines'
  <2>1. rx_commit # rx_tail
    BY <1>4, <1>1 DEF Diff, Counter
  <2> QED BY <1>2, <2>1 DEF LinesInv, WholeLines, Bytes
<1>11. Lines!Take(n)
  <2>1. n \in 1 .. Len(Bytes(rx_tail, rx_commit))
    BY <1>4, <1>5, Lengths
  <2>2. \A k \in 1 .. n - 1 : Bytes(rx_tail, rx_commit)[k] # "LF"
    BY <1>3 DEF ReadsOn
  <2>3. UNCHANGED Bytes(rx_commit, rx_head)
    BY <1>2 DEF Bytes
  <2> QED BY <1>8, <2>1, <2>2, <2>3, Lengths DEF Lines!Take
<1>12. n \in 1 .. SIZE
  BY <1>4, <1>5, WrapFacts
<1> QED BY <1>9, <1>10, <1>11, <1>12 DEF Lines!LineNext

\* All steps together.
LEMMA LinesNext ==
    LinesInv /\ [Next]_uartVars =>
        /\ LinesInv'
        /\ [Lines!LineNext]_<<Bytes(rx_tail, rx_commit), Bytes(rx_commit, rx_head)>>
<1> SUFFICES ASSUME LinesInv, [Next]_uartVars
             PROVE  /\ TypeOK' /\ WholeLines' /\ EchoIsTheLine'
                    /\ [Lines!LineNext]_<<Bytes(rx_tail, rx_commit), Bytes(rx_commit, rx_head)>>
  BY RingNext DEF LinesInv
<1>1. CASE \E c \in Keys : uart_intr(c)
  BY <1>1, EscapeStep, EnterStep, BackspaceStep, NormalStep DEF uart_intr
<1>2. CASE \E size \in 1 .. SIZE : Read(size)
  BY <1>2, ReadStep
<1>3. CASE UNCHANGED uartVars
  BY <1>3, EscapeStep, "LF" \in Keys DEF Keys
<1> QED BY <1>1, <1>2, <1>3 DEF Next

\* Readers get whole lines and the screen shows exactly the line being typed,
\* for every ring size and counter width and whichever slots were recycled.
THEOREM LinesAreIntact == Spec => []LinesIntact
<1>1. LinesInv => LinesIntact
  BY DEF LinesInv, LinesIntact
<1> QED BY <1>1, LinesInit, LinesNext, PTL DEF Spec

\* uart_intr() and SYS_READ on the ring implement the line discipline: a byte is
\* accepted, erased, committed or taken, and otherwise nothing changes.
THEOREM RingImplementsLines == Spec => ImplementsLineDiscipline
<1>1. Init => Lines!LineInit
  <2> SUFFICES ASSUME Init PROVE Lines!LineInit
    OBVIOUS
  <2>1. Diff(0, 0) = 0
    BY DEF Diff
  <2> QED BY <2>1 DEF Init, Bytes, Lines!LineInit
<1> QED
  BY <1>1, LinesInit, LinesNext, PTL DEF Spec, ImplementsLineDiscipline, Lines!LineSpec

-----------------------------------------------------------------------------
(* The driver in its machine: devices, interrupts and a reader around it.     *)

\* The devices hold keys only, and once boot is over the way of an interrupt
\* is open: its registers are as plic_init() and uart_init() left them, and a
\* request is in service just while plic_dispatch() serves it.
WayInv ==
    /\ rbr \in Seq(Typed)
    /\ ret \in {"user", "idle"} /\ reader \in {"awake", "blocked"}
    /\ pc \in {"plic_init", "uart_init", "enable", "user", "idle", "claim", "drain", "complete"}
    /\ pc # "plic_init" => priority = 1 /\ threshold = 0 /\ enable = TRUE
    /\ pc \notin {"plic_init", "uart_init"} => ier = TRUE
    /\ pc \notin {"plic_init", "uart_init", "enable"} => seie = TRUE
    /\ pc \in {"drain", "complete"} => claimed = TRUE
    /\ pc \notin {"drain", "complete"} => claimed = FALSE

LEMMA WayInit == ConsoleInit => WayInv
<1> SUFFICES ASSUME ConsoleInit PROVE WayInv
  OBVIOUS
<1>1. rbr \in Seq(Typed)
  BY DEF ConsoleInit
<1> QED BY <1>1 DEF ConsoleInit, WayInv

\* One turn of the drain hands the driver a key.
LEMMA DrainsKeys ==
    ASSUME WayInv, rbr # <<>>
    PROVE  Head(rbr) \in Keys /\ Tail(rbr) \in Seq(Typed)
<1>1. Head(rbr) \in Typed /\ Tail(rbr) \in Seq(Typed)
  BY HeadTailProperties DEF WayInv
<1> QED BY <1>1, ConsoleAssumption

LEMMA WayNext == WayInv /\ [ConsoleNext]_consoleVars => WayInv'
<1> SUFFICES ASSUME WayInv, [ConsoleNext]_consoleVars PROVE WayInv'
  OBVIOUS
<1>1. CASE \E c \in Typed : Receive(c)
  <2>1. PICK c \in Typed : Receive(c)
    BY <1>1
  <2>2. rbr' \in Seq(Typed)
    BY <2>1, AppendProperties DEF Receive, WayInv
  <2> QED BY <2>1, <2>2 DEF Receive, WayInv, config
<1>2. CASE Latch
  BY <1>2 DEF Latch, WayInv, config
<1>3. CASE Boot
  BY <1>3 DEF Boot, plic_init, uart_init, EnableExternal, WayInv, config
<1>4. CASE Interrupt
  BY <1>4 DEF Interrupt, ExternalInterrupt, idle_service, WayInv, config
<1>5. CASE Claim
  <2>1. claimed = FALSE
    BY <1>5 DEF Claim, WayInv
  <2>2. CASE Claimable = UART0_IRQ
    <3>1. Claimable # 0
      BY <2>2 DEF UART0_IRQ
    <3>2. claimed' = TRUE
      BY <1>5, <3>1 DEF Claim
    <3>3. pc' = "drain"
      BY <1>5, <2>2 DEF Claim
    <3> QED BY <1>5, <3>2, <3>3 DEF Claim, WayInv, config
  <2>3. CASE Claimable # UART0_IRQ
    <3>1. Claimable = 0
      BY <2>3 DEF Claimable
    <3> QED BY <1>5, <2>1, <2>3, <3>1 DEF Claim, WayInv, config
  <2> QED BY <2>2, <2>3
<1>6. CASE Drain
  <2>1. rbr' \in Seq(Typed)
    BY <1>6, DrainsKeys DEF Drain
  <2> QED BY <1>6, <2>1 DEF Drain, WayInv, config
<1>7. CASE Drained \/ Complete
  BY <1>7 DEF Drained, Complete, WayInv, config
<1>8. CASE ReadTake \/ ReadBlock \/ OthersSleep
  BY <1>8 DEF ReadTake, ReadBlock, OthersSleep, WayInv, config
<1>9. CASE UNCHANGED consoleVars
  BY <1>9 DEF consoleVars, WayInv, config
<1> QED BY <1>1, <1>2, <1>3, <1>4, <1>5, <1>6, <1>7, <1>8, <1>9
        DEF ConsoleNext, plic_dispatch

\* What a step of the machine is to the driver.
LEMMA DriverStep ==
    WayInv /\ [ConsoleNext]_consoleVars => [Next]_uartVars
<1> SUFFICES ASSUME WayInv, [ConsoleNext]_consoleVars PROVE [Next]_uartVars
  OBVIOUS
<1>1. CASE Drain
  <2>1. Head(rbr) \in Keys /\ uart_intr(Head(rbr))
    BY <1>1, DrainsKeys DEF Drain
  <2> QED BY <2>1 DEF Next
<1>2. CASE ReadTake
  BY <1>2 DEF ReadTake, Next
<1>3. CASE ~Drain /\ ~ReadTake
  BY <1>3 DEF ConsoleNext, Boot, Interrupt, plic_dispatch, Receive, Latch, plic_init, uart_init,
      EnableExternal, ExternalInterrupt, idle_service, Claim, Drained, Complete, ReadBlock,
      OthersSleep, consoleVars
<1> QED BY <1>1, <1>2, <1>3

\* The driver keeps its promises in the whole machine: whenever bytes arrive
\* and whoever is interrupted, what the interrupt handler and read() do to the
\* ring are steps of the driver alone.
THEOREM ConsoleImplementsDriver == ConsoleSpec => Spec
<1>1. ConsoleInit => Init
  BY DEF ConsoleInit
<1> QED BY <1>1, WayInit, WayNext, DriverStep, PTL DEF ConsoleSpec, Spec

\* From the key to read(): what readers of the console get, with the devices,
\* the interrupts and the sleeping reader around it, is a line discipline.
THEOREM ConsoleImplementsLines == ConsoleSpec => ImplementsLineDiscipline
BY ConsoleImplementsDriver, RingImplementsLines, PTL

\* A process never sleeps in read() on input that is there: between its look
\* at the ring and its sleep nothing is committed, and a commit wakes it.
NoLostWakeup == reader = "blocked" => Readable = 0

\* The interrupt path after plic_init() and uart_init() is open whenever a
\* process runs or the machine idles: nothing in it is left claimed or masked.
THEOREM InterruptsGetThrough == ConsoleSpec => []PendingIsTaken
<1>1. WayInv => PendingIsTaken
  BY DEF WayInv, PendingIsTaken, seip, Claimable, UART0_IRQ
<1> QED BY <1>1, WayInit, WayNext, PTL DEF ConsoleSpec

\* SYS_READ's check and its sleep are one step of a kernel that runs with
\* interrupts off, and uart_intr() wakes the reader with every commit: no
\* line that is finished finds its reader asleep.
THEOREM SleepersHaveNothingToRead == ConsoleSpec => []NoLostWakeup
<1>1. ConsoleInit => NoLostWakeup
  BY DEF ConsoleInit, NoLostWakeup
<1>2. NoLostWakeup /\ [ConsoleNext]_consoleVars => NoLostWakeup'
  <2> SUFFICES ASSUME NoLostWakeup, [ConsoleNext]_consoleVars, reader' = "blocked"
               PROVE  Readable' = 0
    BY DEF NoLostWakeup
  <2>1. CASE Drain
    <3>1. rx_commit' = rx_commit /\ reader = "blocked"
      BY <2>1 DEF Drain
    <3>2. rx_tail' = rx_tail
      BY <2>1 DEF Drain, uart_intr, Escape, Enter, Backspace, Control, Normal, uartVars
    <3> QED BY <3>1, <3>2 DEF NoLostWakeup, Readable, Diff
  <2>2. CASE ReadTake
    BY <2>2 DEF ReadTake
  <2>3. CASE ReadBlock
    BY <2>3 DEF ReadBlock, uartVars, Readable, Diff
  <2>4. CASE ~Drain /\ ~ReadTake /\ ~ReadBlock
    <3>1. reader = "blocked" /\ UNCHANGED uartVars
      BY <2>4 DEF ConsoleNext, Boot, Interrupt, plic_dispatch, Receive, Latch, plic_init,
          uart_init, EnableExternal, ExternalInterrupt, idle_service, Claim, Drained, Complete,
          OthersSleep, consoleVars
    <3> QED BY <3>1 DEF uartVars, NoLostWakeup, Readable, Diff
  <2> QED BY <2>1, <2>2, <2>3, <2>4
<1> QED BY <1>1, <1>2, PTL DEF ConsoleSpec
=============================================================================
