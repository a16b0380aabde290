------------------------------ MODULE ProcTree ------------------------------
(***************************************************************************)
(* What fork(), exit() and wait() promise to programs, without slots,      *)
(* channels or scheduling.  A pid is unborn, then alive, then exited until *)
(* its parent has waited for it, then gone for ever; each of these changes *)
(* happens at most once, and pids are given out in ascending order.        *)
(***************************************************************************)
EXTENDS Integers

CONSTANT MAX_PID

Pids == 1 .. MAX_PID

VARIABLES phase, parent, up

Phases == {"unborn", "alive", "exited", "gone"}

treeVars == <<phase, parent, up>>

\* The kernel has started the first process; it has no parent.
TreeInit ==
    /\ phase = [p \in Pids |-> IF p = 1 THEN "alive" ELSE "unborn"]
    /\ parent = [p \in Pids |-> 0]
    /\ up = TRUE

\* c is the next pid: everything below it was given out before.
NextPid(c) == phase[c] = "unborn" /\ \A q \in Pids : q < c => phase[q] # "unborn"

\* p forks c.
TreeFork(p, c) ==
    /\ phase[p] = "alive" /\ NextPid(c)
    /\ phase' = [phase EXCEPT ![c] = "alive"]
    /\ parent' = [parent EXCEPT ![c] = p]
    /\ UNCHANGED up

\* A fork that fails may use up a pid.
TreeForkFails(c) ==
    /\ NextPid(c)
    /\ phase' = [phase EXCEPT ![c] = "gone"]
    /\ UNCHANGED <<parent, up>>

\* p exits or is killed.
TreeExit(p) ==
    /\ phase[p] = "alive"
    /\ phase' = [phase EXCEPT ![p] = "exited"]
    /\ UNCHANGED <<parent, up>>

\* wait() of p returns c: once, and only to c's parent.
TreeReap(p, c) ==
    /\ phase[p] = "alive" /\ phase[c] = "exited" /\ parent[c] = p
    /\ phase' = [phase EXCEPT ![c] = "gone"]
    /\ parent' = [parent EXCEPT ![c] = 0]
    /\ UNCHANGED up

\* The kernel panics; a child may have been half made.
TreePanic ==
    /\ up' = FALSE
    /\ \/ UNCHANGED <<phase, parent>>
       \/ \E c \in Pids, p \in Pids \cup {0} :
             /\ NextPid(c)
             /\ phase' = [phase EXCEPT ![c] = "alive"]
             /\ parent' = [parent EXCEPT ![c] = p]

TreeNext ==
    /\ up
    /\ \/ \E p, c \in Pids : TreeFork(p, c) \/ TreeReap(p, c)
       \/ \E p \in Pids : TreeForkFails(p) \/ TreeExit(p)
       \/ TreePanic

TreeSpec == TreeInit /\ [][TreeNext]_treeVars
=============================================================================
