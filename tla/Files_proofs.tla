---------------------------- MODULE Files_proofs ----------------------------
(***************************************************************************)
(* Proofs about modules Ramdisk and Files: every list of files is packed so *)
(* that a name finds its bytes, and the descriptor tables implement         *)
(* FileTable, for every number of processes, descriptors, files and bytes.  *)
(***************************************************************************)
EXTENDS Files, SetInduction, TLAPS, SequenceTheorems

\* The files mkramdisk is given, and the lists of them.
File == [path : Seq(Char), bytes : Seq(Char)]
\* What mkramdisk is given.
FileLists == Seq(File)

\* Where each file starts: after the one before it.
LEMMA OffsetsAre ==
    ASSUME NEW files \in FileLists
    PROVE  LET off == Offsets(files) IN
           /\ off \in [1 .. Len(files) -> Nat]
           /\ \A i \in 1 .. Len(files) :
                 off[i] = IF i = 1 THEN FirstOffset(files)
                          ELSE off[i - 1] + Len(files[i - 1].bytes)
<1> DEFINE N == Len(files)
           a == FirstOffset(files)
           G == [vi \in Nat \X (1 .. N) |->
                    IF vi[2] = 1 THEN vi[1] ELSE vi[1] + Len(files[vi[2] - 1].bytes)]
<1>1. N \in Nat /\ \A i \in 1 .. N : Len(files[i].bytes) \in Nat
  BY DEF FileLists, File
<1>2. FirstOffset(files) \in Nat
  BY <1>1, RamdiskAssumption DEF FirstOffset
<1>3. G \in [Nat \X (1 .. N) -> Nat]
  BY <1>1
<1>4. PICK f \in [1 .. N -> Nat] :
        \A i \in 1 .. N : f[i] = IF i = 1 THEN a ELSE G[<<f[i - 1], i>>]
  <2> DEFINE V == Nat
  <2>1. N \in Nat /\ a \in V /\ G \in [V \X (1 .. N) -> V]
    BY <1>1, <1>2, <1>3
  <2> HIDE DEF G, N, a, V
  <2>2. Loop(V, N, a, G) # {}
    BY <2>1, LoopExists
  <2> QED BY <2>2 DEF V, Loop
<1>5. \A i \in 1 .. N : i # 1 => G[<<f[i - 1], i>>] = f[i - 1] + Len(files[i - 1].bytes)
  OBVIOUS
<1> HIDE DEF G, a
<1>6. f = [i \in 1 .. N |-> IF i = 1 THEN a ELSE f[i - 1] + Len(files[i - 1].bytes)]
  BY <1>4, <1>5
<1> DEFINE off == Offsets(files)
<1>7. off = [i \in 1 .. N |-> IF i = 1 THEN a ELSE off[i - 1] + Len(files[i - 1].bytes)]
  BY <1>6 DEF Offsets, a
<1> HIDE DEF off
<1>8. \A i \in 1 .. N : off[i] = IF i = 1 THEN a ELSE off[i - 1] + Len(files[i - 1].bytes)
  BY <1>7
<1> DEFINE S == {i \in 1 .. N : off[i] \notin Nat}
<1>9. ASSUME NEW m \in S PROVE \E k \in S : k < m
  <2>1. m # 1
    BY <1>2, <1>8 DEF a
  <2>2. m - 1 \in 1 .. N /\ m \in 1 .. N
    BY <2>1
  <2>3. off[m] = off[m - 1] + Len(files[m - 1].bytes)
    BY <1>8, <2>1, <2>2
  <2>4. off[m - 1] \notin Nat
    BY <1>1, <2>2, <2>3
  <2> QED BY <2>2, <2>4
<1>10. S = {}
  <2>1. S \subseteq Nat
    OBVIOUS
  <2> HIDE DEF S
  <2> QED BY <1>9, <2>1, NoLeast
<1>11. off \in [1 .. N -> Nat]
  BY <1>7, <1>10
<1> QED BY <1>8, <1>11 DEF off, a

\* The bytes of the files one after the other, as the second loop writes them:
\* F[i] is what is on the disk, after the directory, when file i is written.
LEMMA FlattenIs ==
    ASSUME NEW files \in FileLists, Len(files) # 0
    PROVE  \E F \in [1 .. Len(files) -> Seq(Char)] :
             /\ \A i \in 1 .. Len(files) :
                   F[i] = IF i = 1 THEN files[i].bytes ELSE F[i - 1] \o files[i].bytes
             /\ FlattenSeq([i \in 1 .. Len(files) |-> files[i].bytes]) = F[Len(files)]
<1> DEFINE N == Len(files)
           seqs == [i \in 1 .. N |-> files[i].bytes]
           a == files[1].bytes
           V == Seq(Char)
           G == [vi \in V \X (1 .. N) |-> vi[1] \o files[vi[2]].bytes]
<1>0. N \in Nat /\ N >= 1
  BY DEF FileLists
<1>1. \A i \in 1 .. N : files[i].bytes \in V
  <2>1. \A i \in 1 .. N : files[i] \in File
    BY DEF FileLists
  <2> QED BY <2>1 DEF File
<1> HIDE DEF V
<1>2. G \in [V \X (1 .. N) -> V]
  BY <1>1, ConcatProperties DEF V
<1>3. a \in V
  BY <1>0, <1>1
<1>4. PICK f \in [1 .. N -> V] :
        \A i \in 1 .. N : f[i] = IF i = 1 THEN a ELSE G[<<f[i - 1], i>>]
  <2> HIDE DEF G, N, a, V
  <2>1. Loop(V, N, a, G) # {}
    BY <1>0, <1>2, <1>3, LoopExists
  <2> QED BY <2>1 DEF Loop
<1>5. \A i \in 1 .. N : i # 1 => G[<<f[i - 1], i>>] = f[i - 1] \o files[i].bytes
  <2> SUFFICES ASSUME NEW i \in 1 .. N, i # 1
               PROVE  G[<<f[i - 1], i>>] = f[i - 1] \o files[i].bytes
    OBVIOUS
  <2>1. i - 1 \in 1 .. N
    BY <1>0
  <2>2. <<f[i - 1], i>> \in V \X (1 .. N)
    BY <2>1
  <2> QED BY <2>2
<1>6. \A i \in 1 .. N : seqs[i] = files[i].bytes
  OBVIOUS
<1>l. Len(seqs) = N /\ N # 0
  BY <1>0
<1> HIDE DEF G, seqs, N
<1>7. \A i \in 1 .. N : f[i] = IF i = 1 THEN seqs[i] ELSE f[i - 1] \o seqs[i]
  BY <1>4, <1>5, <1>6
<1> HIDE DEF a
<1>8. f = [i \in 1 .. N |-> IF i = 1 THEN seqs[i] ELSE f[i - 1] \o seqs[i]]
  BY <1>7
<1> DEFINE F == CHOOSE flatten : flatten = [i \in 1 .. N |->
                    IF i = 1 THEN seqs[i] ELSE flatten[i - 1] \o seqs[i]]
<1>9. F = [i \in 1 .. N |-> IF i = 1 THEN seqs[i] ELSE F[i - 1] \o seqs[i]]
  BY <1>8
<1>10. FlattenSeq(seqs) = F[N]
  BY <1>l DEF FlattenSeq
<1> HIDE DEF F
<1>11. \A i \in 1 .. N : F[i] = IF i = 1 THEN files[i].bytes ELSE F[i - 1] \o files[i].bytes
  BY <1>6, <1>9
<1> DEFINE S == {i \in 1 .. N : F[i] \notin V}
<1>12. ASSUME NEW m \in S PROVE \E k \in S : k < m
  <2>1. m \in 1 .. N /\ m # 1
    BY <1>1, <1>11
  <2>2. m - 1 \in 1 .. N
    BY <1>0, <2>1
  <2>3. F[m] = F[m - 1] \o files[m].bytes
    BY <1>11, <2>1
  <2>4. F[m] \notin V /\ files[m].bytes \in V
    BY <1>1, <2>1
  <2>5. F[m - 1] \notin V
    BY <2>3, <2>4, ConcatProperties DEF V
  <2> QED BY <1>0, <2>1, <2>2, <2>5
<1>13. S = {}
  <2>1. S \subseteq Nat
    BY <1>0
  <2> HIDE DEF S
  <2> QED BY <1>12, <2>1, NoLeast
<1>14. F \in [1 .. N -> V]
  BY <1>9, <1>13
<1> QED BY <1>10, <1>11, <1>14 DEF N, V, seqs

\* off and F are what the two loops of mkramdisk compute.
Packs(files, N, first, off, F) ==
    \A i \in 1 .. N :
        /\ off[i] = IF i = 1 THEN first ELSE off[i - 1] + Len(files[i - 1].bytes)
        /\ F[i] = IF i = 1 THEN files[i].bytes ELSE F[i - 1] \o files[i].bytes

\* The two halves of a concatenation.
LEMMA ConcatHalves ==
    ASSUME NEW s \in Seq(Char), NEW t \in Seq(Char), NEW u, u = s \o t
    PROVE  /\ Len(u) = Len(s) + Len(t)
           /\ \A k \in 1 .. Len(s) : u[k] = s[k]
           /\ \A k \in 1 .. Len(t) : u[Len(s) + k] = t[k]
OBVIOUS

\* The two loops agree: file i ends where the bytes written up to it end, its
\* bytes are where its offset says, and later files do not touch them.
LEMMA LoopsAgree ==
    ASSUME NEW files \in FileLists, NEW N \in Nat, N = Len(files),
           NEW first \in Nat,
           NEW off \in [1 .. N -> Nat], NEW F \in [1 .. N -> Seq(Char)],
           Packs(files, N, first, off, F)
    PROVE  \A i \in 1 .. N :
              /\ Len(F[i]) = off[i] + Len(files[i].bytes) - first
              /\ off[i] >= first
              /\ Len(F[i]) <= Len(F[N])
              /\ \A k \in 1 .. Len(F[i]) : F[N][k] = F[i][k]
              /\ \A k \in 1 .. Len(files[i].bytes) :
                    F[i][off[i] - first + k] = files[i].bytes[k]
<1>b. \A i \in 1 .. N : files[i].bytes \in Seq(Char) /\ Len(files[i].bytes) \in Nat
  <2>1. \A i \in 1 .. N : files[i] \in File
    BY DEF FileLists
  <2> QED BY <2>1 DEF File
\* The lengths as functions to the naturals.
<1> DEFINE LF == [i \in 1 .. N |-> Len(F[i])]
           LB == [i \in 1 .. N |-> Len(files[i].bytes)]
<1>l. /\ LF \in [1 .. N -> Nat] /\ \A i \in 1 .. N : Len(F[i]) = LF[i]
      /\ LB \in [1 .. N -> Nat] /\ \A i \in 1 .. N : Len(files[i].bytes) = LB[i]
  BY <1>b
<1> HIDE DEF LF, LB
<1>s. ASSUME NEW i \in 1 .. N, NEW q \in 1 .. N, q + 1 = i
      PROVE  /\ off[i] = off[q] + LB[q]
             /\ LF[i] = LF[q] + LB[i]
             /\ \A k \in 1 .. LF[q] : F[i][k] = F[q][k]
             /\ \A k \in 1 .. LB[i] : F[i][LF[q] + k] = files[i].bytes[k]
  <2>1. i # 1 /\ i - 1 = q
    BY <1>s
  <2>2. off[i] = off[q] + Len(files[q].bytes) /\ F[i] = F[q] \o files[i].bytes
    BY <2>1 DEF Packs
  <2>3. F[q] \in Seq(Char) /\ files[i].bytes \in Seq(Char)
    BY <1>b
  <2>4. /\ off[i] = off[q] + Len(files[q].bytes)
        /\ Len(F[i]) = Len(F[q]) + Len(files[i].bytes)
        /\ \A k \in 1 .. Len(F[q]) : F[i][k] = F[q][k]
        /\ \A k \in 1 .. Len(files[i].bytes) :
              F[i][Len(F[q]) + k] = files[i].bytes[k]
    <3>1. /\ Len(F[i]) = Len(F[q]) + Len(files[i].bytes)
          /\ \A k \in 1 .. Len(F[q]) : F[i][k] = F[q][k]
          /\ \A k \in 1 .. Len(files[i].bytes) :
                F[i][Len(F[q]) + k] = files[i].bytes[k]
      <4> DEFINE x == F[q]
                 y == files[i].bytes
                 z == F[i]
      <4>1. x \in Seq(Char) /\ y \in Seq(Char) /\ z = x \o y
        BY <2>2, <2>3
      <4> HIDE DEF x, y, z
      <4>2. /\ Len(z) = Len(x) + Len(y)
            /\ \A k \in 1 .. Len(x) : z[k] = x[k]
            /\ \A k \in 1 .. Len(y) : z[Len(x) + k] = y[k]
        BY <4>1, ConcatHalves
      <4> QED BY <4>2, Zenon DEF x, y, z
    <3> QED BY <2>2, <3>1, Zenon
  <2> QED BY <1>l, <2>4
<1>p. ASSUME NEW i \in 1 .. N, i # 1 PROVE \E q \in 1 .. N : q + 1 = i
  <2>1. i - 1 \in 1 .. N /\ (i - 1) + 1 = i
    BY <1>p
  <2> QED BY <2>1
<1>f. ASSUME NEW i \in 1 .. N, i = 1
      PROVE  off[i] = first /\ F[i] = files[i].bytes /\ LF[i] = LB[i]
  <2>1. off[i] = first /\ F[i] = files[i].bytes
    BY <1>f DEF Packs
  <2> QED BY <1>l, <2>1
<1>1. \A i \in 1 .. N : LF[i] = off[i] + LB[i] - first
  <2> DEFINE S == {i \in 1 .. N : LF[i] # off[i] + LB[i] - first}
  <2>1. ASSUME NEW m \in 1 .. N, m \in S PROVE \E k \in S : k < m
    <3>0. LF[m] # off[m] + LB[m] - first
      BY <2>1
    <3>1. m # 1
      <4> SUFFICES ASSUME m = 1 PROVE FALSE
        OBVIOUS
      <4>1. off[m] = first /\ LF[m] = LB[m]
        BY <1>f
      <4> QED BY <1>l, <3>0, <4>1
    <3>2. PICK q \in 1 .. N : q + 1 = m
      BY <1>p, <3>1
    <3>3. off[m] = off[q] + LB[q] /\ LF[m] = LF[q] + LB[m]
      BY <1>s, <3>2
    <3>4. /\ LF[q] \in Nat /\ LB[q] \in Nat /\ LB[m] \in Nat /\ off[q] \in Nat
          /\ LF[q] + LB[m] # (off[q] + LB[q]) + LB[m] - first
      BY <1>l, <3>0, <3>3
    <3>5. LF[q] # off[q] + LB[q] - first
      BY <3>4
    <3>6. q \in S /\ q < m
      BY <3>2, <3>5
    <3> QED BY <3>6
  <2>2. S = {}
    <3>1. S \subseteq Nat /\ S \subseteq 1 .. N
      OBVIOUS
    <3> HIDE DEF S
    <3> QED BY <2>1, <3>1, NoLeast
  <2> QED BY <2>2
<1>2. ASSUME NEW i \in 1 .. N
      PROVE  /\ off[i] >= first
             /\ \A k \in 1 .. LB[i] : F[i][off[i] - first + k] = files[i].bytes[k]
  <2>1. CASE i = 1
    <3>1. off[i] = first /\ F[i] = files[i].bytes
      BY <1>f, <2>1
    <3>2. \A k \in 1 .. LB[i] : off[i] - first + k = k
      BY <1>l, <3>1
    <3> QED BY <3>1, <3>2
  <2>2. CASE i # 1
    <3>0. PICK q \in 1 .. N : q + 1 = i
      BY <1>p, <2>2
    <3>1. /\ off[i] = off[q] + LB[q]
          /\ \A k \in 1 .. LB[i] : F[i][LF[q] + k] = files[i].bytes[k]
      BY <1>s, <3>0
    <3>2. LF[q] = off[q] + LB[q] - first
      BY <1>1
    <3>3. LF[q] \in Nat /\ LB[q] \in Nat /\ off[q] \in Nat /\ off[i] \in Nat
      BY <1>l
    <3>4. LF[q] = off[i] - first
      <4> DEFINE s == off[q] + LB[q]
      <4>1. LF[q] = s - first /\ off[i] = s
        BY <3>1, <3>2, <3>3
      <4> HIDE DEF s
      <4> QED BY <4>1
    <3>5. off[i] >= first
      BY <3>3, <3>4
    <3> QED BY <3>1, <3>4, <3>5
  <2> QED BY <2>1, <2>2
<1>3. ASSUME NEW i \in 1 .. N
      PROVE  LF[i] <= LF[N] /\ \A k \in 1 .. LF[i] : F[N][k] = F[i][k]
  <2> DEFINE Kept(j) == LF[i] <= LF[j] /\ \A k \in 1 .. LF[i] : F[j][k] = F[i][k]
             S == {j \in i .. N : ~Kept(j)}
  <2>1. ASSUME NEW m \in 1 .. N, m \in S PROVE \E k \in S : k < m
    <3>0. m \in i .. N /\ ~Kept(m) /\ i \in Nat
      BY <2>1
    <3>1. m # i
      BY <1>l, <3>0
    <3>2. PICK q \in 1 .. N : q + 1 = m
      BY <1>p, <3>0, <3>1
    <3>3. q \in i .. N /\ q < m
      BY <3>0, <3>1, <3>2
    <3>4. LF[m] = LF[q] + LB[m] /\ \A k \in 1 .. LF[q] : F[m][k] = F[q][k]
      BY <1>s, <3>2
    <3>6. Kept(q) => Kept(m)
      <4> SUFFICES ASSUME Kept(q) PROVE Kept(m)
        OBVIOUS
      <4>0. LF[i] \in Nat /\ LF[q] \in Nat /\ LB[m] \in Nat
        BY <1>l
      <4>a. LF[i] <= LF[q] /\ LF[m] = LF[q] + LB[m]
        BY <3>4, Zenon
      <4>1. LF[i] <= LF[q] /\ LF[i] <= LF[m]
        BY <4>0, <4>a
      <4>2. ASSUME NEW k \in 1 .. LF[i] PROVE F[m][k] = F[i][k]
        <5>1. k \in 1 .. LF[q]
          BY <1>l, <4>1
        <5>2. F[m][k] = F[q][k]
          BY <3>4, <5>1, Zenon
        <5>3. F[q][k] = F[i][k]
          BY Zenon
        <5> QED BY <5>2, <5>3, Zenon
      <4> QED BY <4>1, <4>2
    <3> HIDE DEF Kept
    <3>7. q \in S
      BY <3>0, <3>3, <3>6
    <3> QED BY <3>3, <3>7
  <2>2. S = {}
    <3>1. S \subseteq Nat /\ S \subseteq 1 .. N
      OBVIOUS
    <3> HIDE DEF S
    <3> QED BY <2>1, <3>1, NoLeast
  <2>3. Kept(N)
    <3>1. N \in i .. N
      OBVIOUS
    <3> HIDE DEF Kept
    <3> QED BY <2>2, <3>1
  <2> QED BY <2>3
<1>4. ASSUME NEW i \in 1 .. N
      PROVE  /\ Len(F[i]) = off[i] + Len(files[i].bytes) - first
             /\ off[i] >= first
             /\ Len(F[i]) <= Len(F[N])
             /\ \A k \in 1 .. Len(F[i]) : F[N][k] = F[i][k]
             /\ \A k \in 1 .. Len(files[i].bytes) :
                   F[i][off[i] - first + k] = files[i].bytes[k]
  <2>1. Len(F[i]) = LF[i] /\ Len(F[N]) = LF[N] /\ Len(files[i].bytes) = LB[i]
    <3>1. N \in 1 .. N
      OBVIOUS
    <3> QED BY <1>l, <3>1
  <2>2. LF[i] = off[i] + LB[i] - first
    BY <1>1
  <2>3. Len(F[i]) = off[i] + Len(files[i].bytes) - first
    BY <2>1, <2>2
  <2>4. off[i] >= first /\ Len(F[i]) <= Len(F[N])
    BY <2>1, <1>2, <1>3
  <2>5. \A k \in 1 .. Len(F[i]) : F[N][k] = F[i][k]
    BY <2>1, <1>3
  <2>6. \A k \in 1 .. Len(files[i].bytes) :
                   F[i][off[i] - first + k] = files[i].bytes[k]
    BY <2>1, <1>2
  <2> QED BY <2>3, <2>4, <2>5, <2>6
<1> QED BY <1>4

\* What the kernel may rely on when it finds d in memory.
HoldsFiles(d, files) ==
    /\ d.magic = RAMDISK_MAGIC
    /\ d.bytes \in Seq(Char \cup {"meta"})
    /\ DOMAIN d.entries = 1 .. Len(files)
    /\ Len(d.entries) = Len(files)
    /\ \A i \in 1 .. Len(files) :
         /\ d.entries[i].name = StoredName(files[i].path)
         /\ d.entries[i].offset \in Nat
         /\ d.entries[i].size = Len(files[i].bytes)
         /\ d.entries[i].offset + d.entries[i].size <= Len(d.bytes)
         /\ SubSeq(d.bytes, d.entries[i].offset + 1, d.entries[i].offset + d.entries[i].size)
              = files[i].bytes

\* b lies in the bytes X that follow the header H, at offset o of the whole.
LiesAt(D, B, H, X, b, first, o) ==
    /\ B \in Seq(D) /\ H \in Seq(D) /\ X \in Seq(D) /\ b \in Seq(D)
    /\ first \in Nat /\ o \in Nat
    /\ B = H \o X /\ Len(H) = first /\ o >= first
    /\ (o - first) + Len(b) <= Len(X)
    /\ \A k \in 1 .. Len(b) : X[(o - first) + k] = b[k]

\* The bytes b are in B from offset o on.
IsSlice(B, o, b) == o + Len(b) <= Len(B) /\ SubSeq(B, o + 1, o + Len(b)) = b

\* It is the slice of the whole that starts there.
LEMMA Slice ==
    ASSUME NEW D, NEW B, NEW H, NEW X, NEW b, NEW first, NEW o,
           LiesAt(D, B, H, X, b, first, o)
    PROVE  IsSlice(B, o, b)
<1> USE DEF LiesAt
<1>0. Len(H \o X) = Len(H) + Len(X)
  BY ConcatProperties
<1>1. Len(B) = first + Len(X) /\ Len(b) \in Nat /\ Len(X) \in Nat
  BY <1>0, LenProperties
<1>2. o + Len(b) <= Len(B)
  BY <1>1
<1>3. \A k \in 1 .. Len(b) : B[o + k] = b[k]
  <2> SUFFICES ASSUME NEW k \in 1 .. Len(b) PROVE B[o + k] = b[k]
    OBVIOUS
  <2>1. (o - first) + k \in 1 .. Len(X) /\ first + ((o - first) + k) = o + k
    BY <1>1
  <2>2. B[first + ((o - first) + k)] = X[(o - first) + k]
    BY <2>1
  <2> QED BY <2>1, <2>2
<1>4. Len(SubSeq(B, o + 1, o + Len(b))) = Len(b)
  BY <1>1, <1>2
<1>5. \A k \in 1 .. Len(b) : SubSeq(B, o + 1, o + Len(b))[k] = B[o + k]
  BY <1>1, <1>2
<1>6. SubSeq(B, o + 1, o + Len(b)) \in Seq(D)
  BY <1>1, <1>2
<1> QED BY <1>2, <1>3, <1>4, <1>5, <1>6, SeqEqual DEF IsSlice

\* Whatever files mkramdisk is given, each one's bytes lie where its entry says.
LEMMA Packed ==
    ASSUME NEW files \in FileLists
    PROVE  HoldsFiles(mkramdisk(files), files)
<1> DEFINE N == Len(files)
           first == FirstOffset(files)
           off == Offsets(files)
           D == Char \cup {"meta"}
           H == [k \in 1 .. first |-> "meta"]
           seqs == [i \in 1 .. N |-> files[i].bytes]
           d == mkramdisk(files)
           B == d.bytes
<1>0. N \in Nat /\ \A i \in 1 .. N : files[i].bytes \in Seq(Char)
  <2>1. N \in Nat /\ \A i \in 1 .. N : files[i] \in File
    BY DEF FileLists
  <2> QED BY <2>1 DEF File
<1>1. first \in Nat
  BY <1>0, RamdiskAssumption DEF FirstOffset
<1>2. /\ off \in [1 .. N -> Nat]
      /\ \A i \in 1 .. N :
            off[i] = IF i = 1 THEN first ELSE off[i - 1] + Len(files[i - 1].bytes)
  BY OffsetsAre
<1>3. H \in Seq(D) /\ Len(H) = first
  BY <1>1
<1>4. /\ d.magic = RAMDISK_MAGIC
      /\ B = H \o FlattenSeq(seqs)
      /\ d.entries = [i \in 1 .. N |-> [name   |-> StoredName(files[i].path),
                                        offset |-> off[i],
                                        size   |-> Len(files[i].bytes)]]
  BY DEF mkramdisk, FirstOffset
<1> HIDE DEF first, off, D, H, d
<1>5. Len(d.entries) = N /\ DOMAIN d.entries = 1 .. N
  BY <1>0, <1>4
<1>6. ASSUME NEW i \in 1 .. N
      PROVE  /\ d.entries[i].name = StoredName(files[i].path)
             /\ d.entries[i].offset = off[i]
             /\ d.entries[i].size = Len(files[i].bytes)
  BY <1>4
<1>7. CASE N = 0
  <2>1. Len(seqs) = 0 /\ seqs \in Seq(D)
    BY <1>7
  <2>2. FlattenSeq(seqs) = seqs
    <3> HIDE DEF seqs
    <3> QED BY <2>1 DEF FlattenSeq
  <2>3. B \in Seq(D)
    BY <1>3, <1>4, <2>1, <2>2, ConcatProperties
  <2>4. 1 .. Len(files) = {}
    BY <1>7
  <2> QED BY <1>4, <1>5, <2>3, <2>4 DEF HoldsFiles, D, d
<1>8. CASE N # 0
  <2>1. PICK F \in [1 .. N -> Seq(Char)] :
          /\ \A i \in 1 .. N :
                F[i] = IF i = 1 THEN files[i].bytes ELSE F[i - 1] \o files[i].bytes
          /\ FlattenSeq(seqs) = F[N]
    BY <1>8, FlattenIs
  <2> HIDE DEF seqs
  <2>2. Packs(files, N, first, off, F)
    BY <1>2, <2>1 DEF Packs
  <2>3. N \in 1 .. N /\ F[N] \in Seq(Char)
    BY <1>0, <1>8
  <2>4. F[N] \in Seq(D)
    <3>1. Char \subseteq D
      BY DEF D
    <3> QED BY <2>3, <3>1
  <2>5. B = H \o F[N]
    BY <1>4, <2>1
  <2>6. B \in Seq(D)
    BY <1>3, <2>4, <2>5, ConcatProperties
  <2>7. ASSUME NEW i \in 1 .. N
        PROVE  /\ off[i] \in Nat
               /\ off[i] + Len(files[i].bytes) <= Len(B)
               /\ SubSeq(B, off[i] + 1, off[i] + Len(files[i].bytes)) = files[i].bytes
    <3> DEFINE b == files[i].bytes
    <3> HIDE DEF B
    <3>1. /\ Len(F[i]) = off[i] + Len(b) - first
          /\ off[i] >= first
          /\ Len(F[i]) <= Len(F[N])
          /\ \A k \in 1 .. Len(F[i]) : F[N][k] = F[i][k]
          /\ \A k \in 1 .. Len(b) : F[i][off[i] - first + k] = b[k]
      BY <1>0, <1>1, <1>2, <2>2, LoopsAgree
    <3>2. b \in Seq(Char) /\ b \in Seq(D)
      <4>1. Char \subseteq D
        BY DEF D
      <4> QED BY <1>0, <4>1
    <3> HIDE DEF b
    <3>3. PICK o \in Nat : o = off[i]
      BY <1>2
    <3>4. PICK lb \in Nat : lb = Len(b)
      BY <3>2
    <3>5. PICK lf \in Nat : lf = Len(F[i])
      BY <2>1
    <3>9. o >= first
      BY <3>1, <3>3
    <3>6. lf = (o - first) + lb
      BY <1>1, <3>1, <3>3, <3>4, <3>5
    <3>7. (o - first) + Len(b) <= Len(F[N])
      BY <3>1, <3>4, <3>5, <3>6
    <3>8. \A k \in 1 .. Len(b) : F[N][(o - first) + k] = b[k]
      <4> SUFFICES ASSUME NEW k \in 1 .. lb PROVE F[N][(o - first) + k] = b[k]
        BY <3>4
      <4>1. (o - first) + k \in 1 .. lf
        BY <1>1, <3>6, <3>9
      <4>2. F[N][(o - first) + k] = F[i][(o - first) + k]
        BY <3>1, <3>5, <4>1
      <4> QED BY <3>1, <3>3, <3>4, <4>2
    <3>10. o + Len(b) <= Len(B) /\ SubSeq(B, o + 1, o + Len(b)) = b
      <4> DEFINE X == F[N]
      <4>1. /\ X \in Seq(D) /\ B = H \o X
            /\ (o - first) + Len(b) <= Len(X)
            /\ \A k \in 1 .. Len(b) : X[(o - first) + k] = b[k]
        BY <2>4, <2>5, <3>7, <3>8
      <4> HIDE DEF X
      <4>2. B \in Seq(D) /\ H \in Seq(D) /\ Len(H) = first /\ first \in Nat /\ b \in Seq(D)
        BY <1>1, <1>3, <2>6, <3>2
      <4>3. LiesAt(D, B, H, X, b, first, o)
        BY <3>9, <4>1, <4>2 DEF LiesAt
      <4>4. IsSlice(B, o, b)
        BY <4>3, Slice
      <4> QED BY <4>4 DEF IsSlice
    <3> QED BY <3>3, <3>10 DEF b
  <2>8. ASSUME NEW i \in 1 .. N
        PROVE  /\ d.entries[i].name = StoredName(files[i].path)
               /\ d.entries[i].offset \in Nat
               /\ d.entries[i].size = Len(files[i].bytes)
               /\ d.entries[i].offset + d.entries[i].size <= Len(d.bytes)
               /\ SubSeq(d.bytes, d.entries[i].offset + 1,
                         d.entries[i].offset + d.entries[i].size) = files[i].bytes
    BY <1>6, <2>7
  <2>9. HoldsFiles(d, files)
    BY <1>4, <1>5, <2>6, <2>8 DEF HoldsFiles, D
  <2> QED BY <2>9 DEF d
<1> QED BY <1>7, <1>8

-----------------------------------------------------------------------------
(* The lookup.                                                             *)

\* The image in memory is the one mkramdisk packed; nothing writes to it.
DiskInv == argv \in FileLists /\ HoldsFiles(disk, argv)

\* The scan for a name finds the first file of that name, or there is none.
LEMMA EntryOf ==
    ASSUME DiskInv, NEW name
    PROVE  LET I == {i \in 1 .. Len(argv) : StoredName(argv[i].path) = name} IN
           /\ SelectInSeq(argv, LAMBDA f : StoredName(f.path) = name)
                = ramdisk_get_entry(name)
           /\ ramdisk_get_entry(name) = IF I # {} THEN Min(I) ELSE 0
           /\ I # {} => Min(I) \in I
<1> DEFINE I == {i \in 1 .. Len(argv) : StoredName(argv[i].path) = name}
           J == {i \in 1 .. Len(disk.entries) : disk.entries[i].name = name}
<1>1. I = J /\ disk.magic = RAMDISK_MAGIC
  BY DEF DiskInv, HoldsFiles
<1>3. ramdisk_get_entry(name) = IF J # {} THEN Min(J) ELSE 0
  BY <1>1 DEF SelectInSeq, ramdisk_get_entry
<1>4. I \subseteq Nat
  OBVIOUS
<1> HIDE DEF I, J
<1>5. I # {} => Min(I) \in I
  BY <1>4, LeastInSet
<1> QED BY <1>1, <1>3, <1>5 DEF I, SelectInSeq

\* The image at boot.
LEMMA InitDisk == Init => DiskInv
<1> SUFFICES ASSUME Init PROVE DiskInv
  OBVIOUS
<1>1. argv \in FileLists
  BY RamdiskAssumption DEF Init, FileLists, File
<1>2. HoldsFiles(mkramdisk(argv), argv)
  BY <1>1, Packed
<1> QED BY <1>1, <1>2 DEF Init, DiskInv

\* Every call leaves the image alone.
LEMMA NextDisk == [Next]_vars => UNCHANGED <<argv, disk>>
BY DEF Next, vars, BadPointer, Fails, Return, Open, Read, BadFd, ReadFile,
       ReadConsole, Write, Close, Fork, free_proc

\* The disk never changes once it is built.
LEMMA DiskInvariant == Spec => []DiskInv
<1>1. DiskInv /\ [Next]_vars => DiskInv'
  <2> SUFFICES ASSUME DiskInv, [Next]_vars PROVE DiskInv'
    OBVIOUS
  <2>1. argv' = argv /\ disk' = disk
    BY NextDisk
  <2> QED BY <2>1 DEF DiskInv
<1> QED BY <1>1, InitDisk, PTL DEF Spec

\* Packing and lookup fit together (mkramdisk.c with ramdisk_get_entry()) for
\* every list of files, whatever their number, names and sizes: a name finds
\* the bytes of the first file stored under it, and no other name finds any.
THEOREM LookupIsExact == Spec => []LookupFindsTheFile
<1>1. DiskInv => LookupFindsTheFile
  <2> SUFFICES ASSUME DiskInv, NEW name \in Names
               PROVE  LET i == SelectInSeq(argv, LAMBDA f : StoredName(f.path) = name)
                          e == ramdisk_get_entry(name)
                      IN IF i = 0 THEN e = 0
                         ELSE /\ e # 0
                              /\ DiskBytes(disk.entries[e].offset, disk.entries[e].size)
                                   = argv[i].bytes
    BY DEF LookupFindsTheFile
  <2> DEFINE I == {i \in 1 .. Len(argv) : StoredName(argv[i].path) = name}
             e == ramdisk_get_entry(name)
  <2>1. /\ SelectInSeq(argv, LAMBDA f : StoredName(f.path) = name) = e
        /\ e = IF I # {} THEN Min(I) ELSE 0
        /\ I # {} => Min(I) \in I
    BY EntryOf
  <2>2. ASSUME e # 0 PROVE e \in 1 .. Len(argv)
    BY <2>1, <2>2
  <2> HIDE DEF e, I
  <2>3. ASSUME e # 0
        PROVE  DiskBytes(disk.entries[e].offset, disk.entries[e].size) = argv[e].bytes
    BY <2>2, <2>3 DEF DiskInv, HoldsFiles, DiskBytes
  <2> QED BY <2>1, <2>3 DEF e
<1> QED BY <1>1, DiskInvariant, PTL

-----------------------------------------------------------------------------
(* The descriptors.                                                        *)

\* f is sound on its own: within its file, within the image, a file only over
\* the bytes of an entry, and blank when it is closed.
GoodFile(f) ==
    /\ f \in FileT
    /\ f.offset <= f.size
    /\ f.data + f.size <= Len(disk.bytes)
    /\ f.type = "NONE" => f = None
    /\ f.type = "RAMDISK" => \E i \in 1 .. Len(argv) :
            f.data = disk.entries[i].offset /\ f.size = disk.entries[i].size

\* The console sits on 0, 1 and 2 only, files never do.
Placed(f, fd) ==
    /\ f.type = "CONSOLE" => fd <= 2
    /\ f.type = "RAMDISK" => fd > 2

\* A process's row of descriptors.
GoodRow(row) ==
    /\ row \in [Fds -> FileT]
    /\ \A fd \in Fds : GoodFile(row[fd]) /\ Placed(row[fd], fd)

\* The inductive invariant.
FInv ==
    /\ DiskInv
    /\ open_files \in [Slots -> [Fds -> FileT]]
    /\ used \subseteq Slots
    /\ a0 \in Int
    /\ buffer \in Seq(Char)
    /\ \A p \in Slots : GoodRow(open_files[p])
    /\ \A p \in Slots \ used : open_files[p] \in {Scrubbed, init_process_fds}

\* The lengths the image has.
LEMMA ImageSize ==
    ASSUME DiskInv
    PROVE  /\ Len(disk.bytes) \in Nat
           /\ \A i \in 1 .. Len(argv) : /\ disk.entries[i].offset \in 0 .. Len(disk.bytes)
                                        /\ disk.entries[i].size \in 0 .. Len(disk.bytes)
                                        /\ argv[i].bytes \in Seq(Char)
                                        /\ disk.entries[i].size = Len(argv[i].bytes)
<1>1. Len(disk.bytes) \in Nat
  BY DEF DiskInv, HoldsFiles
<1>2. ASSUME NEW i \in 1 .. Len(argv)
      PROVE  /\ disk.entries[i].offset \in 0 .. Len(disk.bytes)
             /\ disk.entries[i].size \in 0 .. Len(disk.bytes)
             /\ argv[i].bytes \in Seq(Char)
             /\ disk.entries[i].size = Len(argv[i].bytes)
  <2>1. argv[i] \in File
    BY DEF DiskInv, FileLists
  <2>2. argv[i].bytes \in Seq(Char)
    BY <2>1 DEF File
  <2>3. Len(argv[i].bytes) \in Nat
    BY <2>2
  <2>4. /\ disk.entries[i].offset \in Nat
        /\ disk.entries[i].size = Len(argv[i].bytes)
        /\ disk.entries[i].offset + disk.entries[i].size <= Len(disk.bytes)
    BY DEF DiskInv, HoldsFiles
  <2> QED BY <1>1, <2>2, <2>3, <2>4
<1> QED BY <1>1, <1>2

\* The files the calls store are sound.
LEMMA BlankIsGood ==
    ASSUME DiskInv PROVE GoodFile(None) /\ \A fd \in Fds : Placed(None, fd)
<1>1. Len(disk.bytes) \in Nat
  BY ImageSize
<1>2. /\ None.type = "NONE" /\ None.offset = 0 /\ None.size = 0 /\ None.data = 0
      /\ None \in FileT
  BY <1>1 DEF None, FileT
<1> QED BY <1>1, <1>2 DEF GoodFile, Placed

\* The three console descriptors are good.
LEMMA ConsoleIsGood ==
    ASSUME DiskInv
    PROVE  GoodFile(ConsoleFile) /\ \A fd \in Fds : fd <= 2 => Placed(ConsoleFile, fd)
<1>1. Len(disk.bytes) \in Nat
  BY ImageSize
<1>2. /\ ConsoleFile.type = "CONSOLE" /\ ConsoleFile.offset = 0
      /\ ConsoleFile.size = 0 /\ ConsoleFile.data = 0
      /\ ConsoleFile \in FileT
  BY <1>1 DEF ConsoleFile, None, FileT
<1> QED BY <1>1, <1>2 DEF GoodFile, Placed

\* A descriptor that open() has just filled in is good.
LEMMA OpenedIsGood ==
    ASSUME DiskInv, NEW e \in 1 .. Len(argv)
    PROVE  GoodFile(OpenedFile(e)) /\ \A fd \in Fds : fd > 2 => Placed(OpenedFile(e), fd)
<1> DEFINE f == OpenedFile(e)
<1>1. /\ Len(disk.bytes) \in Nat
      /\ disk.entries[e].offset \in 0 .. Len(disk.bytes)
      /\ disk.entries[e].size \in 0 .. Len(disk.bytes)
      /\ disk.entries[e].offset + disk.entries[e].size <= Len(disk.bytes)
  <2>1. disk.entries[e].offset + disk.entries[e].size <= Len(disk.bytes)
    BY DEF DiskInv, HoldsFiles
  <2> QED BY <2>1, ImageSize
<1>2. /\ f.type = "RAMDISK" /\ f.offset = 0 /\ f.size = disk.entries[e].size
      /\ f.data = disk.entries[e].offset
      /\ f \in FileT
  BY <1>1 DEF OpenedFile, FileT
<1> HIDE DEF f
<1>3. GoodFile(f) /\ \A fd \in Fds : fd > 2 => Placed(f, fd)
  BY <1>1, <1>2 DEF GoodFile, Placed
<1> QED BY <1>3 DEF f

\* A read moves the offset by what it delivers and no further than the end.
LEMMA AdvanceIsGood ==
    ASSUME DiskInv, NEW f, GoodFile(f), f.type = "RAMDISK", NEW size \in Nat
    PROVE  LET g == Advance(f, size) IN
           /\ ReadSize(f, size) \in 0 .. f.size - f.offset
           /\ g = [f EXCEPT !.offset = f.offset + ReadSize(f, size)]
           /\ GoodFile(g)
           /\ \A fd \in Fds : Placed(f, fd) => Placed(g, fd)
<1> DEFINE g == Advance(f, size)
           n == ReadSize(f, size)
<1>1. /\ f \in FileT /\ Len(disk.bytes) \in Nat
      /\ f.offset \in 0 .. Len(disk.bytes) /\ f.size \in 0 .. Len(disk.bytes)
      /\ f.data \in 0 .. Len(disk.bytes)
      /\ f.offset <= f.size /\ f.data + f.size <= Len(disk.bytes)
  BY ImageSize DEF GoodFile, FileT
<1>2. n \in 0 .. f.size - f.offset
  BY <1>1 DEF ReadSize, Min2
<1>3. g = [f EXCEPT !.offset = f.offset + n]
  BY DEF Advance
<1>4. f.offset + n \in 0 .. Len(disk.bytes) /\ f.offset + n <= f.size
  <2> HIDE DEF n
  <2> QED BY <1>1, <1>2
<1> HIDE DEF n, g
<1>5. /\ g.type = f.type /\ g.offset = f.offset + n /\ g.size = f.size
      /\ g.data = f.data /\ g \in FileT
  BY <1>1, <1>3, <1>4 DEF FileT
<1>6. GoodFile(g) /\ \A fd \in Fds : Placed(f, fd) => Placed(g, fd)
  BY <1>1, <1>4, <1>5 DEF GoodFile, Placed
<1> QED BY <1>2, <1>3, <1>6 DEF g, n

\* The n bytes of B from offset o on.
Bytes(B, o, n) == SubSeq(B, o + 1, o + n)

\* The n bytes from offset o on lie inside the file of s bytes at offset a of B.
Within(D, B, a, s, o, n) ==
    /\ B \in Seq(D) /\ a \in Nat /\ s \in Nat /\ o \in Nat /\ n \in Nat
    /\ a + s <= Len(B) /\ o + n <= s

\* A slice of a slice is a slice.
LEMMA SliceOfSlice ==
    ASSUME NEW D, NEW B, NEW a, NEW s, NEW o, NEW n, Within(D, B, a, s, o, n)
    PROVE  Bytes(Bytes(B, a, s), o, n) = Bytes(B, a + o, n)
<1> USE DEF Bytes, Within
<1> DEFINE X == SubSeq(B, a + 1, a + s)
           Y == SubSeq(X, o + 1, o + n)
           Z == SubSeq(B, (a + o) + 1, (a + o) + n)
<1>0. Len(B) \in Nat
  OBVIOUS
<1>1. X \in Seq(D) /\ Len(X) = s /\ \A k \in 1 .. s : X[k] = B[a + k]
  BY <1>0
<1>2. Z \in Seq(D) /\ Len(Z) = n /\ \A k \in 1 .. n : Z[k] = B[(a + o) + k]
  BY <1>0
<1> HIDE DEF X, Z
<1>3. Y \in Seq(D) /\ Len(Y) = n /\ \A k \in 1 .. n : Y[k] = X[o + k]
  BY <1>1
<1> HIDE DEF Y
<1>4. \A k \in 1 .. n : Y[k] = Z[k]
  <2> SUFFICES ASSUME NEW k \in 1 .. n PROVE Y[k] = Z[k]
    OBVIOUS
  <2>1. o + k \in 1 .. s /\ a + (o + k) = (a + o) + k
    OBVIOUS
  <2>2. X[o + k] = B[a + (o + k)]
    BY <1>1, <2>1
  <2> QED BY <1>2, <1>3, <2>1, <2>2
<1>5. Y = Z
  BY <1>2, <1>3, <1>4, SeqEqual
<1> QED BY <1>5 DEF X, Y, Z

\* The bytes behind a descriptor are those of a file that was packed, and a
\* read of n bytes delivers the n that follow its offset.
LEMMA ReadBytes ==
    ASSUME DiskInv, NEW f, GoodFile(f), f.type = "RAMDISK",
           NEW n \in 0 .. f.size - f.offset
    PROVE  \E i \in 1 .. Len(argv) :
             /\ DiskBytes(f.data, f.size) = argv[i].bytes
             /\ Len(argv[i].bytes) = f.size
             /\ DiskBytes(f.data + f.offset, n) = SubSeq(argv[i].bytes, f.offset + 1, f.offset + n)
             /\ DiskBytes(f.data + f.offset, n) \in Seq(Char)
<1>1. PICK i \in 1 .. Len(argv) :
        f.data = disk.entries[i].offset /\ f.size = disk.entries[i].size
  BY DEF GoodFile
<1> DEFINE b == argv[i].bytes
<1>2. DiskBytes(f.data, f.size) = b /\ Len(b) = f.size /\ b \in Seq(Char)
  <2>1. Len(b) = f.size /\ b \in Seq(Char)
    BY <1>1, ImageSize
  <2> QED BY <1>1, <2>1 DEF DiskInv, HoldsFiles, DiskBytes
<1>3. /\ f.offset \in Nat /\ f.size \in Nat /\ f.data \in Nat
      /\ f.offset <= f.size /\ f.data + f.size <= Len(disk.bytes)
  BY DEF GoodFile, FileT
<1>4. n \in Nat /\ f.offset + n <= f.size
  BY <1>3
<1>5. disk.bytes \in Seq(Char \cup {"meta"})
  BY DEF DiskInv, HoldsFiles
<1> HIDE DEF b
<1>6. SubSeq(b, f.offset + 1, f.offset + n) = DiskBytes(f.data + f.offset, n)
  <2>1. Within(Char \cup {"meta"}, disk.bytes, f.data, f.size, f.offset, n)
    BY <1>3, <1>4, <1>5 DEF Within
  <2>2. Bytes(Bytes(disk.bytes, f.data, f.size), f.offset, n)
          = Bytes(disk.bytes, f.data + f.offset, n)
    BY <2>1, SliceOfSlice
  <2> QED BY <1>2, <2>2 DEF DiskBytes, Bytes
<1>7. SubSeq(b, f.offset + 1, f.offset + n) \in Seq(Char)
  BY <1>2, <1>3, <1>4
<1> QED BY <1>2, <1>6, <1>7 DEF b

\* A call that gives slot p another row.
LEMMA SetRowKeeps ==
    ASSUME FInv, NEW p \in Slots, NEW row, GoodRow(row),
           open_files' = [open_files EXCEPT ![p] = row],
           argv' = argv, disk' = disk,
           used' \subseteq Slots, \A q \in Slots \ used' : q # p => q \notin used,
           p \notin used' => row \in {Scrubbed, init_process_fds},
           a0' \in Int, buffer' \in Seq(Char)
    PROVE  FInv'
<1>1. FileT' = FileT /\ DiskInv'
  BY DEF FileT, FInv, DiskInv
<1>2. \A f : GoodFile(f)' <=> GoodFile(f)
  BY DEF GoodFile, FileT
<1>3. \A q \in Slots : open_files'[q] = IF q = p THEN row ELSE open_files[q]
  BY DEF FInv
<1>4. ASSUME NEW q \in Slots PROVE GoodRow(open_files'[q])
  BY <1>3 DEF FInv
<1>5. ASSUME NEW q \in Slots PROVE GoodRow(open_files[q])'
  BY <1>1, <1>2, <1>4 DEF GoodRow
<1>6. open_files' \in [Slots -> [Fds -> FileT]]
  BY DEF FInv, GoodRow
<1>7. \A q \in Slots \ used' : open_files'[q] \in {Scrubbed, init_process_fds}
  BY <1>3 DEF FInv
<1> QED BY <1>1, <1>5, <1>6, <1>7 DEF FInv, Scrubbed, init_process_fds, ConsoleFile, None, Fds

\* A call that sets one descriptor of a process.
LEMMA SetFileKeeps ==
    ASSUME FInv, NEW p \in used, NEW fd \in Fds, NEW f, GoodFile(f), Placed(f, fd),
           SetFile(p, fd, f), argv' = argv, disk' = disk, used' = used,
           a0' \in Int, buffer' \in Seq(Char)
    PROVE  FInv'
<1> DEFINE row == [open_files[p] EXCEPT ![fd] = f]
<1>1. p \in Slots
  BY DEF FInv
<1>2. GoodRow(row)
  <2>1. GoodRow(open_files[p])
    BY <1>1 DEF FInv
  <2>2. f \in FileT
    BY DEF GoodFile
  <2> QED BY <2>1, <2>2 DEF GoodRow
<1>3. open_files' = [open_files EXCEPT ![p] = row]
  BY DEF SetFile
<1>4. used' \subseteq Slots
  BY DEF FInv
<1> HIDE DEF row
<1> QED BY <1>1, <1>2, <1>3, <1>4, SetRowKeeps

\* A call that fails changes no descriptor.
LEMMA FailsKeeps ==
    ASSUME FInv, NEW code \in Int, Fails(code)
    PROVE  FInv'
<1>1. /\ argv' = argv /\ disk' = disk /\ open_files' = open_files /\ used' = used
      /\ a0' = code /\ buffer' = <<>>
  BY DEF Fails, Return
<1>2. buffer' \in Seq(Char)
  BY <1>1
<1> QED BY <1>1, <1>2 DEF FInv, DiskInv, GoodRow, GoodFile, FileT

\* The rows of a new process and of a slot that was given back.
LEMMA FreshIsGood ==
    ASSUME DiskInv
    PROVE  GoodRow(Scrubbed) /\ GoodRow(init_process_fds)
<1>1. /\ GoodFile(None) /\ GoodFile(ConsoleFile)
      /\ \A fd \in Fds : Placed(None, fd) /\ (fd <= 2 => Placed(ConsoleFile, fd))
  BY BlankIsGood, ConsoleIsGood
<1>2. None \in FileT /\ ConsoleFile \in FileT
  BY <1>1 DEF GoodFile
<1> QED BY <1>1, <1>2 DEF GoodRow, Scrubbed, init_process_fds

\* The descriptors at the start.
LEMMA InitF == Init => FInv
<1> SUFFICES ASSUME Init PROVE FInv
  OBVIOUS
<1>1. DiskInv
  BY InitDisk
<1>2. GoodRow(Scrubbed) /\ GoodRow(init_process_fds)
  BY <1>1, FreshIsGood
<1>3. Scrubbed \in [Fds -> FileT] /\ init_process_fds \in [Fds -> FileT]
  BY <1>2 DEF GoodRow
<1>4. 0 \in Slots
  BY FdAssumption DEF Slots
<1> QED BY <1>1, <1>2, <1>3, <1>4 DEF Init, FInv

\* open() keeps the invariant.
LEMMA OpenKeeps ==
    ASSUME FInv, NEW p \in used, NEW name, Open(p, name)
    PROVE  FInv'
<1> DEFINE e == ramdisk_get_entry(name)
           fd == Min(FreeFds(p))
<1>1. CASE Fails(E_NOMEM) \/ Fails(E_NOENT)
  <2>1. E_NOMEM \in Int /\ E_NOENT \in Int
    BY DEF E_NOMEM, E_NOENT
  <2> QED BY <1>1, <2>1, FailsKeeps
<1>2. CASE /\ FreeFds(p) # {} /\ e # 0
           /\ SetFile(p, fd, OpenedFile(e)) /\ Return(fd)
           /\ buffer' = <<>> /\ UNCHANGED used
  <2>1. fd \in FreeFds(p)
    <3>1. FreeFds(p) \subseteq Nat
      BY DEF FreeFds
    <3> QED BY <1>2, <3>1, LeastInSet
  <2>2. fd \in Fds /\ fd > 2 /\ fd \in Int
    BY <2>1, FdAssumption DEF FreeFds, Fds
  <2>3. e \in 1 .. Len(argv)
    <3>1. DiskInv
      BY DEF FInv
    <3> DEFINE I == {i \in 1 .. Len(argv) : StoredName(argv[i].path) = name}
    <3>2. e = (IF I # {} THEN Min(I) ELSE 0) /\ (I # {} => Min(I) \in I)
      BY <3>1, EntryOf
    <3> QED BY <1>2, <3>2
  <2> HIDE DEF e, fd
  <2>4. GoodFile(OpenedFile(e)) /\ Placed(OpenedFile(e), fd)
    BY <2>2, <2>3, OpenedIsGood DEF FInv
  <2>5. /\ argv' = argv /\ disk' = disk /\ used' = used /\ a0' \in Int
        /\ buffer' \in Seq(Char) /\ SetFile(p, fd, OpenedFile(e))
    BY <1>2, <2>2 DEF Return
  <2> QED BY <2>2, <2>4, <2>5, SetFileKeeps
<1> QED BY <1>1, <1>2 DEF Open

\* read() of a file keeps it.
LEMMA ReadKeeps ==
    ASSUME FInv, NEW p \in used, NEW fd, NEW size \in Nat, ReadFile(p, fd, size)
    PROVE  FInv'
<1> DEFINE f == open_files[p][fd]
           n == ReadSize(f, size)
<1>1. p \in Slots /\ fd \in Fds /\ f.type = "RAMDISK" /\ DiskInv
  BY DEF FInv, ReadFile, OfType
<1>2. GoodFile(f) /\ Placed(f, fd)
  BY <1>1 DEF FInv, GoodRow
<1>3. /\ argv' = argv /\ disk' = disk /\ used' = used /\ a0' = n
      /\ SetFile(p, fd, Advance(f, size))
      /\ buffer' = DiskBytes(f.data + f.offset, n)
  BY DEF ReadFile, Return
<1> HIDE DEF f
<1>4. /\ n \in 0 .. f.size - f.offset
      /\ GoodFile(Advance(f, size)) /\ Placed(Advance(f, size), fd)
  BY <1>1, <1>2, AdvanceIsGood
<1> HIDE DEF n
<1>5. buffer' \in Seq(Char)
  BY <1>1, <1>2, <1>3, <1>4, ReadBytes
<1>6. a0' \in Int
  BY <1>3, <1>4
<1> QED BY <1>1, <1>3, <1>4, <1>5, <1>6, SetFileKeeps

\* read() of the console keeps it.
LEMMA ReadConsoleKeeps ==
    ASSUME FInv, NEW p \in used, NEW fd, NEW size \in Nat, ReadConsole(p, fd, size)
    PROVE  FInv'
<1>1. PICK k \in 0 .. size : Return(k)
  BY DEF ReadConsole
<1>2. k \in Int /\ Fails(k)
  BY <1>1 DEF ReadConsole, Fails
<1> QED BY <1>2, FailsKeeps

\* close() keeps it.
LEMMA CloseKeeps ==
    ASSUME FInv, NEW p \in used, NEW fd, IsOpen(p, fd),
           SetFile(p, fd, CloseFile(open_files[p][fd])),
           Return(0), buffer' = <<>>, UNCHANGED used
    PROVE  FInv'
<1>1. fd \in Fds /\ GoodFile(None) /\ Placed(None, fd)
  BY BlankIsGood DEF FInv, IsOpen
<1>2. /\ argv' = argv /\ disk' = disk /\ used' = used /\ a0' \in Int
      /\ buffer' \in Seq(Char) /\ SetFile(p, fd, None)
  BY DEF Return, CloseFile
<1> QED BY <1>1, <1>2, SetFileKeeps

\* fork() keeps it.
LEMMA ForkKeeps ==
    ASSUME FInv, NEW p \in used, Fork(p)
    PROVE  FInv'
<1> DEFINE c == Min(Slots \ used)
<1>1. CASE Fails(E_AGAIN)
  <2>1. E_AGAIN \in Int
    BY DEF E_AGAIN
  <2> QED BY <1>1, <2>1, FailsKeeps
<1>2. CASE /\ Slots \ used # {}
           /\ open_files' = [open_files EXCEPT ![c] = ChildFds(p)]
           /\ used' = used \cup {c}
           /\ Return(1) /\ buffer' = <<>>
  <2>1. c \in Slots \ used
    <3>1. Slots \ used \subseteq Nat
      BY DEF Slots
    <3> QED BY <1>2, <3>1, LeastInSet
  <2> HIDE DEF c
  <2>2. p \in Slots /\ c \in Slots /\ used \subseteq Slots
    BY <2>1 DEF FInv
  <2>3. GoodRow(open_files[p])
    BY <2>2 DEF FInv
  <2>4. /\ argv' = argv /\ disk' = disk /\ a0' \in Int /\ buffer' \in Seq(Char)
        /\ open_files' = [open_files EXCEPT ![c] = open_files[p]]
        /\ used' \subseteq Slots /\ (\A q \in Slots \ used' : q # c => q \notin used)
        /\ c \in used'
    BY <1>2, <2>2 DEF Return, ChildFds
  <2> QED BY <2>2, <2>3, <2>4, SetRowKeeps
<1>3. CASE /\ Slots \ used # {}
           /\ open_files' = [open_files EXCEPT ![c] = init_process_fds]
           /\ Return(E_AGAIN) /\ buffer' = <<>>
           /\ UNCHANGED used
  <2>1. c \in Slots /\ used \subseteq Slots
    <3>1. Slots \ used \subseteq Nat
      BY DEF Slots
    <3> QED BY <1>3, <3>1, LeastInSet DEF FInv
  <2> HIDE DEF c
  <2>2. GoodRow(init_process_fds)
    BY FreshIsGood DEF FInv
  <2>3. /\ argv' = argv /\ disk' = disk /\ a0' \in Int /\ buffer' \in Seq(Char)
        /\ open_files' = [open_files EXCEPT ![c] = init_process_fds]
        /\ used' \subseteq Slots /\ (\A q \in Slots \ used' : q # c => q \notin used)
    BY <1>3, <2>1 DEF Return, E_AGAIN
  <2> QED BY <2>1, <2>2, <2>3, SetRowKeeps
<1> QED BY <1>1, <1>2, <1>3 DEF Fork

\* free_proc() keeps it.
LEMMA FreeKeeps ==
    ASSUME FInv, NEW p \in used, free_proc(p)
    PROVE  FInv'
<1>1. p \in Slots /\ used \subseteq Slots
  BY DEF FInv
<1>2. GoodRow(Scrubbed)
  BY FreshIsGood DEF FInv
<1>3. /\ argv' = argv /\ disk' = disk /\ a0' \in Int /\ buffer' \in Seq(Char)
      /\ open_files' = [open_files EXCEPT ![p] = Scrubbed]
      /\ used' \subseteq Slots /\ (\A q \in Slots \ used' : q # p => q \notin used)
  BY <1>1 DEF free_proc, Return
<1> QED BY <1>1, <1>2, <1>3, SetRowKeeps

\* Every step keeps it.
LEMMA StepF == FInv /\ [Next]_vars => FInv'
<1> SUFFICES ASSUME FInv, [Next]_vars PROVE FInv'
  OBVIOUS
<1>1. CASE UNCHANGED vars
  BY <1>1 DEF vars, FInv, DiskInv, GoodRow, GoodFile, FileT
<1>2. CASE Next
  <2>1. PICK p \in used :
           \/ BadPointer
           \/ \E name \in OpenNames : Open(p, name)
           \/ \E fd \in FdArgs, size \in 0 .. MAX_SIZE : Read(p, fd, size) \/ Write(p, fd, size)
           \/ \E fd \in FdArgs : Close(p, fd)
           \/ Fork(p) \/ free_proc(p)
    BY <1>2 DEF Next
  <2>2. CASE BadPointer
    <3>1. E_FAULT \in Int
      BY DEF E_FAULT
    <3> QED BY <2>2, <3>1, FailsKeeps DEF BadPointer
  <2>3. CASE \E name \in OpenNames : Open(p, name)
    BY <2>3, OpenKeeps
  <2>4. ASSUME NEW fd \in FdArgs, BadFd(p, fd) PROVE FInv'
    <3>1. E_BADF \in Int /\ Fails(E_BADF)
      BY <2>4 DEF E_BADF, BadFd
    <3> QED BY <3>1, FailsKeeps
  <2>5. ASSUME NEW fd \in FdArgs, NEW size \in 0 .. MAX_SIZE,
               Read(p, fd, size) \/ Write(p, fd, size)
        PROVE  FInv'
    <3>1. size \in Nat /\ size \in Int /\ E_PERM \in Int
      BY FdAssumption DEF E_PERM
    <3>2. CASE Fails(size) \/ Fails(E_PERM)
      BY <3>1, <3>2, FailsKeeps
    <3>3. CASE ReadFile(p, fd, size)
      BY <3>1, <3>3, ReadKeeps
    <3>4. CASE ReadConsole(p, fd, size)
      BY <3>1, <3>4, ReadConsoleKeeps
    <3> QED BY <2>4, <2>5, <3>2, <3>3, <3>4 DEF Read, Write
  <2>6. ASSUME NEW fd \in FdArgs, Close(p, fd) PROVE FInv'
    <3>1. CASE BadFd(p, fd)
      BY <2>4, <3>1
    <3>2. CASE /\ IsOpen(p, fd)
               /\ SetFile(p, fd, CloseFile(open_files[p][fd]))
               /\ Return(0) /\ buffer' = <<>>
               /\ UNCHANGED used
      BY <3>2, CloseKeeps
    <3> QED BY <2>6, <3>1, <3>2 DEF Close
  <2>7. CASE Fork(p)
    BY <2>7, ForkKeeps
  <2>8. CASE free_proc(p)
    BY <2>8, FreeKeeps
  <2> QED BY <2>1, <2>2, <2>3, <2>5, <2>6, <2>7, <2>8
<1> QED BY <1>1, <1>2

\* In every state the descriptors and the image fit together.
THEOREM FilesInvariant == Spec => []FInv
BY InitF, StepF, PTL DEF Spec

\* Whatever sequence of open, read, write, close, fork and exit the processes
\* go through, no read of sys_read can leave its file, size - offset never
\* wraps, and no descriptor or slot keeps anything of the file of its last use.
THEOREM DescriptorsAreSound == Spec => []DescriptorsSound
<1>1. FInv => DescriptorsSound
  <2> SUFFICES ASSUME FInv PROVE DescriptorsSound
    OBVIOUS
  <2>1. TypeOK
    BY DEF FInv, TypeOK
  <2>2. ASSUME NEW p \in Slots, NEW fd \in Fds
        PROVE  LET f == open_files[p][fd] IN GoodFile(f) /\ Placed(f, fd)
    BY DEF FInv, GoodRow
  <2>3. OffsetWithinFile
    BY <2>2 DEF OffsetWithinFile, GoodFile
  <2>4. ASSUME NEW p \in Slots, NEW fd \in Fds, p \notin used
        PROVE  open_files[p][fd] \in {None, ConsoleFile}
    BY <2>4 DEF FInv, Scrubbed, init_process_fds
  <2>5. NothingLeftBehind
    BY <2>2, <2>4 DEF NothingLeftBehind, GoodFile, Placed
  <2> QED BY <2>1, <2>3, <2>5 DEF DescriptorsSound
<1> QED BY <1>1, FilesInvariant, PTL

-----------------------------------------------------------------------------
(* The refinement of FileTable.                                            *)

\* What a program sees behind each kind of descriptor.
LEMMA Views ==
    /\ View(None) = <<"closed">>
    /\ View(ConsoleFile) = <<"console">>
    /\ \A f : f.type = "NONE" => View(f) = <<"closed">>
    /\ \A f : f.type = "CONSOLE" => View(f) = <<"console">>
    /\ \A f : f.type = "RAMDISK" =>
          View(f) = <<"file", DiskBytes(f.data, f.size), f.offset>>
BY DEF View, None, ConsoleFile

\* An open descriptor does not look closed.
LEMMA OpenIsNotClosed ==
    ASSUME NEW f, f.type \in {"CONSOLE", "RAMDISK"}
    PROVE  View(f) # <<"closed">>
<1>1. View(f)[1] # "closed"
  BY Views
<1> QED BY <1>1

\* A step that gives slot p another row, and leaves every other slot in use that
\* was, shows in that row only.
LEMMA RowStep ==
    ASSUME NEW p \in Slots, NEW row, open_files \in [Slots -> [Fds -> FileT]],
           open_files' = [open_files EXCEPT ![p] = row], disk' = disk,
           \A q \in Slots : q # p => (q \in used' <=> q \in used)
    PROVE  TableView' = [TableView EXCEPT ![p] =
                            IF p \in used' THEN RowView(row) ELSE ClosedRow]
<1>1. \A f : View(f)' = View(f)
  BY DEF View, DiskBytes
<1>2. \A q \in Slots : open_files'[q] = IF q = p THEN row ELSE open_files[q]
  OBVIOUS
<1>3. TableView' = [q \in Slots |-> IF q \in used' THEN RowView(open_files'[q]) ELSE ClosedRow]
  BY <1>1 DEF TableView, RowView, View, DiskBytes, ClosedRow
<1>4. TableView = [q \in Slots |-> IF q \in used THEN RowView(open_files[q]) ELSE ClosedRow]
  BY DEF TableView
<1> HIDE DEF TableView, RowView, ClosedRow
<1> QED BY <1>2, <1>3, <1>4

\* A step that sets one descriptor shows there only.
LEMMA FileStep ==
    ASSUME NEW p \in Slots, NEW fd \in Fds, NEW f, p \in used, used' = used,
           open_files \in [Slots -> [Fds -> FileT]],
           SetFile(p, fd, f), disk' = disk
    PROVE  TableView' = [TableView EXCEPT ![p][fd] = View(f)]
<1> DEFINE row == [open_files[p] EXCEPT ![fd] = f]
<1>1. open_files' = [open_files EXCEPT ![p] = row]
  BY DEF SetFile
<1>2. RowView(row) = [RowView(open_files[p]) EXCEPT ![fd] = View(f)]
  <2>1. \A k \in Fds : row[k] = IF k = fd THEN f ELSE open_files[p][k]
    OBVIOUS
  <2> HIDE DEF row
  <2> QED BY <2>1 DEF RowView
<1> HIDE DEF row
<1>3. TableView' = [TableView EXCEPT ![p] = RowView(row)]
  BY <1>1, RowStep
<1>4. TableView[p] = RowView(open_files[p])
  BY DEF TableView
<1> QED BY <1>2, <1>3, <1>4

\* Nothing that changes no descriptor and no image shows.
LEMMA SameView ==
    ASSUME open_files' = open_files, argv' = argv, disk' = disk, used' = used
    PROVE  TableView' = TableView /\ Contents' = Contents
BY DEF TableView, RowView, ClosedRow, View, DiskBytes, Contents

\* A call that fails is a step of the abstract table that changes nothing.
LEMMA FailsIsOther ==
    ASSUME NEW code, Fails(code)
    PROVE  Tables!FTNext
<1>1. TableView' = TableView /\ Contents' = Contents /\ used' = used /\ buffer' = <<>>
  BY SameView DEF Fails, Return
<1> QED BY <1>1 DEF Tables!FTNext, Tables!Call, Tables!Other

\* The initial states map to initial states.
LEMMA InitView == Init => Tables!FTInit
<1> SUFFICES ASSUME Init PROVE Tables!FTInit
  OBVIOUS
<1>1. RowView(init_process_fds) = Tables!Fresh
  BY Views DEF RowView, init_process_fds, Tables!Fresh, Tables!Console, Tables!Closed
<1>2. ClosedRow = Tables!None
  BY DEF ClosedRow, Tables!None, Tables!Closed
<1>3. TableView = [p \in Slots |-> IF p = 0 THEN Tables!Fresh ELSE Tables!None]
  BY <1>1, <1>2 DEF TableView, Init
<1> QED BY <1>3 DEF Init, Tables!FTInit

\* open() is the abstract table's.
LEMMA OpenImplements ==
    ASSUME FInv, NEW p \in used, NEW name, Open(p, name)
    PROVE  Tables!FTNext
<1> DEFINE e == ramdisk_get_entry(name)
           fd == Min(FreeFds(p))
<1>1. CASE Fails(E_NOMEM) \/ Fails(E_NOENT)
  BY <1>1, FailsIsOther
<1>2. CASE /\ FreeFds(p) # {} /\ e # 0
           /\ SetFile(p, fd, OpenedFile(e)) /\ Return(fd)
           /\ buffer' = <<>> /\ UNCHANGED used
  <2>1. fd \in FreeFds(p)
    <3>1. FreeFds(p) \subseteq Nat
      BY DEF FreeFds
    <3> QED BY <1>2, <3>1, LeastInSet
  <2>2. fd \in Fds /\ open_files[p][fd].type = "NONE"
    BY <2>1, FdAssumption DEF FreeFds, Fds
  <2>3. e \in 1 .. Len(argv)
    <3>1. DiskInv
      BY DEF FInv
    <3> DEFINE I == {i \in 1 .. Len(argv) : StoredName(argv[i].path) = name}
    <3>2. e = (IF I # {} THEN Min(I) ELSE 0) /\ (I # {} => Min(I) \in I)
      BY <3>1, EntryOf
    <3> QED BY <1>2, <3>2
  <2> HIDE DEF e, fd
  <2>4. p \in Slots /\ TableView[p][fd] = <<"closed">>
    <3>1. p \in Slots
      BY DEF FInv
    <3> QED BY <2>2, <3>1, Views DEF TableView, RowView
  <2>5. View(OpenedFile(e)) = <<"file", argv[e].bytes, 0>>
    <3> DEFINE f == OpenedFile(e)
    <3>1. /\ f.type = "RAMDISK" /\ f.offset = 0
          /\ f.data = disk.entries[e].offset /\ f.size = disk.entries[e].size
      BY DEF OpenedFile
    <3> HIDE DEF f
    <3>2. DiskBytes(f.data, f.size) = argv[e].bytes
      BY <2>3, <3>1 DEF FInv, DiskInv, HoldsFiles, DiskBytes
    <3>3. View(f) = <<"file", argv[e].bytes, 0>>
      BY <3>1, <3>2, Views
    <3> QED BY <3>3 DEF f
  <2>6. argv[e].bytes \in Contents
    <3>1. DOMAIN argv = 1 .. Len(argv)
      BY DEF FInv, DiskInv, FileLists
    <3> QED BY <2>3, <3>1 DEF Contents
  <2>7. TableView' = [TableView EXCEPT ![p][fd] = <<"file", argv[e].bytes, 0>>]
    BY <1>2, <2>2, <2>4, <2>5, FileStep DEF FInv, Return
  <2>8. Contents' = Contents
    BY <1>2 DEF Return, Contents
  <2>9. Tables!Open(p, fd)
    BY <1>2, <2>4, <2>6, <2>7 DEF Tables!Open, Tables!Closed, Tables!At
  <2> QED BY <2>2, <2>8, <2>9 DEF Tables!FTNext, Tables!Call
<1> QED BY <1>1, <1>2 DEF Open

\* read() is the abstract table's.
LEMMA ReadImplements ==
    ASSUME FInv, NEW p \in used, NEW fd, NEW size \in Nat, ReadFile(p, fd, size)
    PROVE  Tables!FTNext
<1> DEFINE f == open_files[p][fd]
           n == ReadSize(f, size)
           g == Advance(f, size)
<1>1. p \in Slots /\ fd \in Fds /\ f.type = "RAMDISK" /\ DiskInv
  BY DEF FInv, ReadFile, OfType
<1>2. GoodFile(f) /\ TableView[p][fd] = View(f)
  BY <1>1 DEF FInv, GoodRow, TableView, RowView
<1>3. /\ argv' = argv /\ disk' = disk /\ used' = used
      /\ SetFile(p, fd, g)
      /\ buffer' = DiskBytes(f.data + f.offset, n)
  BY DEF ReadFile, Return
<1> HIDE DEF f
<1>4. /\ n \in 0 .. f.size - f.offset
      /\ g = [f EXCEPT !.offset = f.offset + n]
  BY <1>1, <1>2, AdvanceIsGood
<1>5. /\ g.type = f.type /\ g.offset = f.offset + n /\ g.size = f.size /\ g.data = f.data
  BY <1>2, <1>4 DEF GoodFile, FileT
<1> HIDE DEF n, g
<1>6. PICK i \in 1 .. Len(argv) :
         /\ DiskBytes(f.data, f.size) = argv[i].bytes
         /\ Len(argv[i].bytes) = f.size
         /\ DiskBytes(f.data + f.offset, n) = SubSeq(argv[i].bytes, f.offset + 1, f.offset + n)
         /\ DiskBytes(f.data + f.offset, n) \in Seq(Char)
  BY <1>1, <1>2, <1>4, ReadBytes
<1> DEFINE b == argv[i].bytes
           pos == f.offset
<1>7. View(f) = <<"file", b, pos>> /\ View(g) = <<"file", b, pos + n>>
  BY <1>1, <1>5, <1>6, Views
<1>8. n \in 0 .. Len(b) - pos /\ buffer' = SubSeq(b, pos + 1, pos + n)
  BY <1>3, <1>4, <1>6
<1>9. TableView' = [TableView EXCEPT ![p][fd] = <<"file", b, pos + n>>]
  BY <1>1, <1>3, <1>7, FileStep DEF FInv
<1>10. Contents' = Contents
  BY <1>3 DEF Contents
<1> HIDE DEF b, pos
<1>11. /\ TableView[p][fd][1] = "file" /\ TableView[p][fd][2] = b
       /\ TableView[p][fd][3] = pos
  BY <1>2, <1>7
<1>12. Tables!Read(p, fd)
  BY <1>3, <1>8, <1>9, <1>11 DEF Tables!Read, Tables!At
<1> QED BY <1>1, <1>10, <1>12 DEF Tables!FTNext, Tables!Call

\* close() is the abstract table's.
LEMMA CloseImplements ==
    ASSUME FInv, NEW p \in used, NEW fd, IsOpen(p, fd),
           SetFile(p, fd, CloseFile(open_files[p][fd])),
           Return(0), buffer' = <<>>, UNCHANGED used
    PROVE  Tables!FTNext
<1>1. p \in Slots /\ fd \in Fds
  BY DEF FInv, IsOpen
<1>2. open_files[p][fd].type \in {"CONSOLE", "RAMDISK"}
  <2>1. open_files[p][fd] \in FileT
    BY <1>1 DEF FInv
  <2> QED BY <2>1 DEF FileT, IsOpen
<1>3. TableView[p][fd] # <<"closed">>
  BY <1>1, <1>2, OpenIsNotClosed DEF TableView, RowView
<1>4. TableView' = [TableView EXCEPT ![p][fd] = <<"closed">>]
  <2>1. SetFile(p, fd, None) /\ disk' = disk
    BY DEF CloseFile, Return
  <2> QED BY <1>1, <2>1, FileStep, Views DEF FInv
<1>5. Contents' = Contents
  BY DEF Contents, Return
<1>6. Tables!Close(p, fd)
  BY <1>3, <1>4 DEF Tables!Close, Tables!Closed
<1> QED BY <1>1, <1>5, <1>6 DEF Tables!FTNext, Tables!Call

\* fork() is the abstract table's.
LEMMA ForkImplements ==
    ASSUME FInv, NEW p \in used, Fork(p)
    PROVE  Tables!FTNext
<1> DEFINE c == Min(Slots \ used)
<1>1. CASE Fails(E_AGAIN)
  BY <1>1, FailsIsOther
<1>2. CASE /\ Slots \ used # {}
           /\ open_files' = [open_files EXCEPT ![c] = ChildFds(p)]
           /\ used' = used \cup {c}
           /\ Return(1) /\ buffer' = <<>>
  <2>1. c \in Slots \ used
    <3>1. Slots \ used \subseteq Nat
      BY DEF Slots
    <3> QED BY <1>2, <3>1, LeastInSet
  <2> HIDE DEF c
  <2>2. p \in Slots /\ TableView[p] = RowView(open_files[p])
    BY DEF FInv, TableView
  <2>3. TableView' = [TableView EXCEPT ![c] = RowView(open_files[p])]
    BY <1>2, <2>1, RowStep DEF FInv, Return, ChildFds
  <2>4. Contents' = Contents
    BY <1>2 DEF Contents, Return
  <2>5. Tables!Fork(p, c)
    BY <1>2, <2>1, <2>2, <2>3 DEF Tables!Fork
  <2> QED BY <2>1, <2>4, <2>5 DEF Tables!FTNext, Tables!Call
<1>3. CASE /\ Slots \ used # {}
           /\ open_files' = [open_files EXCEPT ![c] = init_process_fds]
           /\ Return(E_AGAIN) /\ buffer' = <<>>
           /\ UNCHANGED used
  <2>1. c \in Slots \ used
    <3>1. Slots \ used \subseteq Nat
      BY DEF Slots
    <3> QED BY <1>3, <3>1, LeastInSet
  <2> HIDE DEF c
  <2>2. TableView' = [TableView EXCEPT ![c] = ClosedRow]
    BY <1>3, <2>1, RowStep DEF FInv, Return
  <2>3. TableView' = TableView
    BY <2>1, <2>2 DEF TableView
  <2>4. Contents' = Contents
    BY <1>3 DEF Contents, Return
  <2> QED BY <1>3, <2>3, <2>4 DEF Tables!FTNext, Tables!Call, Tables!Other
<1> QED BY <1>1, <1>2, <1>3 DEF Fork

\* free_proc() is the abstract table's.
LEMMA FreeImplements ==
    ASSUME FInv, NEW p \in used, free_proc(p)
    PROVE  Tables!FTNext
<1>1. p \in Slots
  BY DEF FInv
<1>2. ClosedRow = Tables!None
  BY DEF ClosedRow, Tables!None, Tables!Closed
<1>3. TableView' = [TableView EXCEPT ![p] = Tables!None]
  BY <1>1, <1>2, RowStep DEF FInv, free_proc, Return
<1>4. Contents' = Contents
  BY DEF Contents, free_proc, Return
<1>5. Tables!End(p)
  BY <1>3 DEF Tables!End, free_proc
<1> QED BY <1>4, <1>5 DEF Tables!FTNext, Tables!Call

\* Every step maps to a step of the abstract table or to none.
LEMMA TableStep ==
    FInv /\ [Next]_vars => [Tables!FTNext]_<<Contents, TableView, used, buffer>>
<1> SUFFICES ASSUME FInv, [Next]_vars
             PROVE  Tables!FTNext \/ UNCHANGED <<Contents, TableView, used, buffer>>
  OBVIOUS
<1>1. CASE UNCHANGED vars
  BY <1>1, SameView DEF vars
<1>2. CASE Next
  <2>1. PICK p \in used :
           \/ BadPointer
           \/ \E name \in OpenNames : Open(p, name)
           \/ \E fd \in FdArgs, size \in 0 .. MAX_SIZE : Read(p, fd, size) \/ Write(p, fd, size)
           \/ \E fd \in FdArgs : Close(p, fd)
           \/ Fork(p) \/ free_proc(p)
    BY <1>2 DEF Next
  <2>2. CASE BadPointer
    BY <2>2, FailsIsOther DEF BadPointer
  <2>3. CASE \E name \in OpenNames : Open(p, name)
    BY <2>3, OpenImplements
  <2>4. ASSUME NEW fd \in FdArgs, BadFd(p, fd) PROVE Tables!FTNext
    BY <2>4, FailsIsOther DEF BadFd
  <2>5. ASSUME NEW fd \in FdArgs, NEW size \in 0 .. MAX_SIZE,
               Read(p, fd, size) \/ Write(p, fd, size)
        PROVE  Tables!FTNext
    <3>1. size \in Nat
      BY FdAssumption
    <3>2. CASE Fails(size) \/ Fails(E_PERM)
      BY <3>2, FailsIsOther
    <3>3. CASE ReadFile(p, fd, size)
      BY <3>1, <3>3, ReadImplements
    <3>4. CASE ReadConsole(p, fd, size)
      <4>1. PICK k : Fails(k)
        BY <3>4 DEF ReadConsole, Fails
      <4> QED BY <4>1, FailsIsOther
    <3> QED BY <2>4, <2>5, <3>2, <3>3, <3>4 DEF Read, Write
  <2>6. ASSUME NEW fd \in FdArgs, Close(p, fd) PROVE Tables!FTNext
    <3>1. CASE BadFd(p, fd)
      BY <2>4, <3>1
    <3>2. CASE /\ IsOpen(p, fd)
               /\ SetFile(p, fd, CloseFile(open_files[p][fd]))
               /\ Return(0) /\ buffer' = <<>>
               /\ UNCHANGED used
      BY <3>2, CloseImplements
    <3> QED BY <2>6, <3>1, <3>2 DEF Close
  <2>7. CASE Fork(p)
    BY <2>7, ForkImplements
  <2>8. CASE free_proc(p)
    BY <2>8, FreeImplements
  <2> QED BY <2>1, <2>2, <2>3, <2>5, <2>6, <2>7, <2>8
<1> QED BY <1>1, <1>2

\* The descriptor tables of trap_handler.c and process.c are private read
\* positions in whole files: every step of every process is a step, or a
\* stutter, of FileTable.
THEOREM DescriptorsImplementFileTable == Spec => ImplementsFileTable
BY InitView, FilesInvariant, TableStep, PTL DEF Spec, ImplementsFileTable, Tables!FTSpec
=============================================================================
