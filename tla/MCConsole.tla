----------------------------- MODULE MCConsole -----------------------------
(***************************************************************************)
(* Console for TLC, in two parts: the driver alone under every class of     *)
(* byte (module Uart), and the whole way of a few keys (module Console).    *)
(***************************************************************************)
EXTENDS Console

VARIABLE part

MCInit == ConsoleInit /\ part \in {"driver", "way"}

MCNext ==
    \/ /\ part = "driver" /\ Next
       /\ UNCHANGED <<rbr, config, pending, claimed, pc, ret, reader, part>>
    \/ part = "way" /\ ConsoleNext /\ UNCHANGED part

\* Without the rest of the machine there is nothing that must happen: the
\* behaviours Fairness leaves are those of the whole way.
MCSpec == MCInit /\ [][MCNext]_<<consoleVars, part>> /\ Fairness
=============================================================================
