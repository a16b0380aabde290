------------------------------ MODULE Strings ------------------------------
(***************************************************************************)
(* The string functions of user programs (user/mystring.c) and the two     *)
(* places of the shell that take strings apart and put them together       *)
(* (parseline() and the program name, user/sh.c).                          *)
(*                                                                         *)
(* Memory is an array of bytes, a pointer an index, NUL the byte 0.  A loop *)
(* that only reads ends at the first place where its condition fails; of a *)
(* loop that writes there is the memory after each of its turns.  Two       *)
(* buffers lie side by side, dst and behind it src, so a write past the end *)
(* of dst shows in src; behind them lies the constant ".elf".              *)
(***************************************************************************)
EXTENDS Integers, Sequences, FiniteSetsExt

CONSTANTS
    DST,        \* bound: the size of the buffer at address 0
    SRC,        \* bound: the size of the buffer behind it
    Bytes,      \* the bytes that occur, 0 among them
    SPACE,      \* the blank, one of Bytes
    MAX_ARGS,   \* words parseline() takes (16)
    SUFFIX,     \* the length of ".elf"
    ELF         \* its bytes, all the same here

ASSUME BufferAssumption ==
    /\ DST \in Nat \ {0} /\ SRC \in Nat \ {0} /\ MAX_ARGS \in Nat \ {0} /\ SUFFIX \in Nat
    /\ Bytes \subseteq Nat /\ {0, SPACE} \subseteq Bytes /\ SPACE # 0
    /\ ELF \in Bytes \ {0, SPACE}

dst == 0
src == DST
elf == DST + SRC
END == elf + SUFFIX
Addresses == 0 .. END

VARIABLE mem

\* Programs store bytes; src keeps a NUL in its last one.
StringsInit == mem = [a \in Addresses |-> IF elf <= a /\ a < END THEN ELF ELSE 0]
StringsNext == \E a \in 0 .. elf - 2, c \in Bytes : mem' = [mem EXCEPT ![a] = c]
StringsSpec == StringsInit /\ [][StringsNext]_mem

-----------------------------------------------------------------------------
(* user/mystring.c                                                         *)

lz_length(m, s) == Min({k \in 0 .. END - s : m[s + k] = 0})

\* The memory after k turns of *pcDest++ = *pcSrc++.
CopyTurns(m, d, s) ==
    LET after[k \in 0 .. END - s] ==
            IF k = 0 THEN m
            ELSE LET x == after[k - 1] IN [x EXCEPT ![d + k - 1] = x[s + k - 1]]
    IN after

\* Where its loop over a string ends, if it may have n turns.
CopyEnd(m, d, s, n) ==
    Min({k \in 0 .. END - s : n <= k \/ CopyTurns(m, d, s)[k][s + k] = 0})

\* The loop, and a NUL behind what it has copied.
CopyUpTo(m, d, s, n) ==
    LET k == CopyEnd(m, d, s, n) IN [CopyTurns(m, d, s)[k] EXCEPT ![d + k] = 0]

lz_copy(m, d, s) == CopyUpTo(m, d, s, END + 1)

\* The second loop pads with NULs.
lz_ncopy(m, d, s, n) ==
    LET k == CopyEnd(m, d, s, n)
    IN [a \in DOMAIN m |-> IF a \in d + k .. d + n - 1 THEN 0 ELSE CopyTurns(m, d, s)[k][a]]

lz_concat(m, d, s) == lz_copy(m, d + lz_length(m, d), s)

\* Mutant: n limits what is appended, not the total.
Bug_lz_nconcat(m, d, s, n) == CopyUpTo(m, d + lz_length(m, d), s, n)

lz_nconcat(m, d, s, n) ==
    LET len == lz_length(m, d) IN CopyUpTo(m, d + len, s, n - len)

\* How far two pointers can go.
Room(a, b) == 0 .. END - (IF a < b THEN b ELSE a)

\* Where the loop of the comparisons ends.
Differ(m, a, b) == Min({k \in Room(a, b) : m[a + k] = 0 \/ m[b + k] = 0 \/ m[a + k] # m[b + k]})

lz_compare(m, a, b) == LET k == Differ(m, a, b) IN m[a + k] - m[b + k]

lz_ncompare(m, a, b, n) ==
    LET k == Differ(m, a, b) IN IF n <= k THEN 0 ELSE m[a + k] - m[b + k]

\* The inner loop of lz_search(): it has found the needle if it got to its NUL.
Matches(m, p, q) ==
    LET k == Min({i \in Room(p, q) : m[p + i] # m[q + i] \/ m[q + i] = 0}) IN m[q + k] = 0

NotFound == -1          \* the null pointer

lz_search(m, h, q) ==
    LET p == Min({a \in h .. END : m[a] = 0 \/ Matches(m, a, q)})
    IN IF m[p] = 0 THEN NotFound ELSE p

-----------------------------------------------------------------------------
(* user/sh.c                                                               *)

SkipBlanks(m, i) == Min({p \in i .. END : m[p] # SPACE})
WordEnd(m, i) == Min({p \in i .. END : m[p] \in {0, SPACE}})

\* The blank behind a word becomes its NUL.
EndWord(m, e) == IF m[e] = SPACE THEN [m EXCEPT ![e] = 0] ELSE m

\* One turn of parseline(): the next word, if there is one.
WordTurn(x) ==
    LET w == SkipBlanks(x.mem, x.i)
        e == WordEnd(x.mem, w)
    IN IF x.mem[x.i] = 0 \/ x.mem[w] = 0 THEN x
       ELSE [mem |-> EndWord(x.mem, e), i |-> IF x.mem[e] = SPACE THEN e + 1 ELSE e,
             args |-> Append(x.args, w)]

parseline(m, line, max_args) ==
    LET turn[k \in 0 .. max_args] ==
            IF k = 0 THEN [mem |-> m, i |-> line, args |-> << >>] ELSE WordTurn(turn[k - 1])
    IN turn[max_args]

\* The name to exec, in a buffer of DST (64) bytes: nothing if it is too long.
elf_name(m, word) ==
    IF lz_length(m, word) > DST - (SUFFIX + 1) THEN m
    ELSE lz_concat(lz_copy(m, dst, word), dst, elf)

-----------------------------------------------------------------------------
(* Properties.                                                             *)

Terminated(s, size) == \E k \in s .. s + size - 1 : mem[k] = 0

\* The string at s, as a sequence.
Str(m, s) == LET n == CHOOSE k \in 0 .. END - s : m[s + k] = 0 /\ \A j \in 0 .. k - 1 : m[s + j] # 0
             IN [i \in 1 .. n |-> m[s + i - 1]]

Prefix(t, n) == SubSeq(t, 1, IF n < Len(t) THEN n ELSE Len(t))

\* m differs from mem only in the n bytes from s on.
OnlyWrites(m, s, n) == \A a \in Addresses \ (s .. s + n - 1) : m[a] = mem[a]

SrcStr == Str(mem, src)
DstStr == Str(mem, dst)

\* lz_copy() and lz_ncopy() give dst the whole string, or its first n bytes
\* padded with NULs to exactly n, and write nothing else, whatever dst held.
CopyExact ==
    /\ Len(SrcStr) < DST =>
         LET m == lz_copy(mem, dst, src)
         IN Str(m, dst) = SrcStr /\ OnlyWrites(m, dst, Len(SrcStr) + 1)
    /\ \A n \in 0 .. DST :
         LET m == lz_ncopy(mem, dst, src, n)
         IN /\ \A i \in 1 .. n : m[dst + i - 1] = IF i <= Len(SrcStr) THEN SrcStr[i] ELSE 0
            /\ OnlyWrites(m, dst, n)

\* lz_concat() and lz_nconcat() keep what dst holds, append, end with a NUL and
\* touch nothing behind it; the total of lz_nconcat() reaches n and no more,
\* also when dst is longer than n at the start.
ConcatExact ==
    Terminated(dst, DST) =>
        /\ Len(DstStr) + Len(SrcStr) < DST =>
             LET m == lz_concat(mem, dst, src)
             IN Str(m, dst) = DstStr \o SrcStr /\ OnlyWrites(m, dst, Len(DstStr) + Len(SrcStr) + 1)
        /\ \A n \in 0 .. DST - 1 :
             LET m == lz_nconcat(mem, dst, src, n)
             IN /\ Str(m, dst) = DstStr \o Prefix(SrcStr, IF n > Len(DstStr) THEN n - Len(DstStr) ELSE 0)
                /\ OnlyWrites(m, dst, DST)

\* t sorts before u: they first differ where t ends or has the smaller byte.
SortsBefore(t, u) ==
    \E i \in 1 .. Len(u) :
        /\ i <= Len(t) + 1 /\ \A j \in 1 .. i - 1 : t[j] = u[j]
        /\ i <= Len(t) => t[i] < u[i]

\* lz_compare() is the lexicographic order, and lz_ncompare() is the same order
\* of the first n bytes.
CompareIsOrder ==
    Terminated(dst, DST) =>
        /\ (lz_compare(mem, dst, src) < 0) <=> SortsBefore(DstStr, SrcStr)
        /\ (lz_compare(mem, dst, src) > 0) <=> SortsBefore(SrcStr, DstStr)
        /\ \A n \in 0 .. DST :
             /\ (lz_ncompare(mem, dst, src, n) < 0) <=> SortsBefore(Prefix(DstStr, n), Prefix(SrcStr, n))
             /\ (lz_ncompare(mem, dst, src, n) > 0) <=> SortsBefore(Prefix(SrcStr, n), Prefix(DstStr, n))

Occurrences == {k \in 0 .. Len(DstStr) - Len(SrcStr) : SubSeq(DstStr, k + 1, k + Len(SrcStr)) = SrcStr}

\* lz_search() finds the first occurrence, overlapping partial matches
\* included, in every string that is not empty (in the empty one it finds not
\* even the empty string).
SearchFindsFirst ==
    Terminated(dst, DST) =>
        LET r == lz_search(mem, dst, src)
        IN IF Occurrences = {} \/ DstStr = << >> THEN r = NotFound
           ELSE r - dst \in Occurrences /\ \A k \in Occurrences : r - dst <= k

\* The words of line: its maximal runs of bytes that are not blanks.
WordStarts(t) == {i \in 1 .. Len(t) : t[i] # SPACE /\ (i = 1 \/ t[i - 1] = SPACE)}

\* parseline() returns the first max_args words of the line, in order, each a
\* string of its own, and writes only inside the line.
ParseIsSplit ==
    Terminated(dst, DST) =>
        LET r == parseline(mem, dst, MAX_ARGS)
            starts == WordStarts(DstStr)
        IN /\ Len(r.args) <= MAX_ARGS
           /\ \A k \in DOMAIN r.args :
                LET p == r.args[k] - dst + 1
                    w == Str(r.mem, r.args[k])
                IN /\ p \in starts /\ \A j \in 1 .. k - 1 : r.args[j] < r.args[k]
                   /\ w = SubSeq(DstStr, p, p + Len(w) - 1)
                   /\ \A i \in DOMAIN w : w[i] # SPACE
                   /\ p + Len(w) > Len(DstStr) \/ DstStr[p + Len(w)] = SPACE
           /\ \A p \in starts :
                \/ \E k \in DOMAIN r.args : r.args[k] = dst + p - 1
                \/ Len(r.args) = MAX_ARGS /\ \A k \in DOMAIN r.args : r.args[k] < dst + p - 1
           /\ OnlyWrites(r.mem, dst, Len(DstStr))

\* The program name stays in its buffer, ".elf" and the NUL included, and
\* every word for which there is room gets its name.
NameNeverOverflows ==
    LET m == elf_name(mem, src)
    IN /\ OnlyWrites(m, dst, DST)
       /\ Len(SrcStr) + SUFFIX < DST => Str(m, dst) = SrcStr \o Str(mem, elf)

\* The string functions, and the shell's use of them, do on every content of
\* the buffers what their definitions on sequences say.
StringsExact ==
    /\ CopyExact /\ ConcatExact /\ CompareIsOrder /\ SearchFindsFirst
    /\ ParseIsSplit /\ NameNeverOverflows
=============================================================================
