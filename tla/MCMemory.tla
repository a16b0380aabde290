----------------------------- MODULE MCMemory -----------------------------
(***************************************************************************)
(* Memory on a few frames, for TLC.                                        *)
(*                                                                         *)
(* The allocator and its callers treat all frames alike, so two states     *)
(* that differ only in which frames play which role have the same futures. *)
(* While no frame has two roles, a state is known up to such a renaming by *)
(* the shape of the page tables and the numbers of frames; TLC compares    *)
(* states by that, and by whether the properties of frames hold, so that a *)
(* state that breaks one is never taken for a state that does not.         *)
(***************************************************************************)
EXTENDS Memory, FiniteSets

Shape(t) == <<DOMAIN t, {p \in DOMAIN t : t[p] = KERNEL}>>

UpToFrameNames ==
    <<ram, Cardinality(free), [i \in Slots |-> Shape(pt[i])], state, parent, image,
      heap_break, current, mode, Cardinality(lost.fork), Cardinality(lost.exec),
      TypeOK, FramesExclusive, FramesAccounted, SatpValid>>
=============================================================================
