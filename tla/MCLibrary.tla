----------------------------- MODULE MCLibrary -----------------------------
(***************************************************************************)
(* The library of user programs for TLC, one part at a time: the string     *)
(* functions on all short buffers, printf() on all short formats, and the   *)
(* heap under all sequences of calls.                                       *)
(***************************************************************************)
EXTENDS Strings, Printf, Heap

ByteInts == {-128, -127, -100, -10, -9, -1, 0, 1, 9, 10, 99, 100, 127}

VARIABLE part

MCInit ==
    /\ StringsInit /\ PrintfInit /\ HeapInit
    /\ part \in {"strings", "printf", "heap"}

MCNext ==
    \/ part = "strings" /\ StringsNext /\ UNCHANGED <<tokens, heapVars, part>>
    \/ part = "printf" /\ PrintfNext /\ UNCHANGED <<mem, heapVars, part>>
    \/ part = "heap" /\ HeapNext /\ UNCHANGED <<mem, tokens, part>>

MCSpec == MCInit /\ [][MCNext]_<<mem, tokens, heapVars, part>>
=============================================================================
