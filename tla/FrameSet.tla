----------------------------- MODULE FrameSet -----------------------------
(***************************************************************************)
(* What module Memory takes the physical memory manager for: a set of free *)
(* frames, of which the lowest is handed out.                              *)
(***************************************************************************)
EXTENDS Integers

CONSTANT Frames     \* the frames that may ever be handed out, by number

VARIABLE free

Init == free = Frames

Alloc == \E f \in free : (\A g \in free : f <= g) /\ free' = free \ {f}

Free == \E f \in Frames \ free : free' = free \cup {f}

Spec == Init /\ [][Alloc \/ Free]_free
=============================================================================
