--------------------------- MODULE LineDiscipline ---------------------------
(***************************************************************************)
(* What the console input promises, without a ring: finished lines that    *)
(* wait for readers, and one line being edited.  A reader sees a line only *)
(* once Enter has ended it, and what is finished is never taken back.      *)
(***************************************************************************)
EXTENDS Integers, Sequences

CONSTANTS
    CAP,        \* bytes it can hold, finished and unfinished together
    Text        \* the bytes a line is made of

VARIABLES lines, edit

LineInit == lines = <<>> /\ edit = <<>>

\* One more byte is accepted, always leaving room for the newline.
Type(c) ==
    /\ Len(lines) + Len(edit) < CAP - 1
    /\ edit' = Append(edit, c)
    /\ UNCHANGED lines

Erase ==
    /\ edit # <<>>
    /\ edit' = SubSeq(edit, 1, Len(edit) - 1)
    /\ UNCHANGED lines

\* Enter is refused only when finished lines fill everything.
Commit ==
    /\ Len(lines) + Len(edit) < CAP
    /\ lines' = lines \o Append(edit, "LF")
    /\ edit' = <<>>

\* A read of up to n bytes returns a non-empty prefix of the finished lines
\* that does not go past the first newline.
Take(n) ==
    /\ n \in 1 .. Len(lines)
    /\ \A k \in 1 .. n - 1 : lines[k] # "LF"
    /\ lines' = SubSeq(lines, n + 1, Len(lines))
    /\ UNCHANGED edit

LineNext ==
    \/ \E c \in Text : Type(c)
    \/ Erase \/ Commit
    \/ \E n \in 1 .. CAP : Take(n)

LineSpec == LineInit /\ [][LineNext]_<<lines, edit>>
=============================================================================
