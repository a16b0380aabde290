-------------------------- MODULE Process_proofs --------------------------
(***************************************************************************)
(* Proofs about module Process, and about the programs of module Shell that *)
(* run on it, for every size of the process table.                          *)
(***************************************************************************)
EXTENDS Shell, SetInduction, FiniteSetTheorems, TLAPS

\* Slots are numbered, so a set of them has a first one.
LEMMA SlotsNat == Slots \subseteq Nat
BY SizesAssumption DEF Slots

\* find_ready() returns a READY slot whenever there is one.
LEMMA FindReady ==
    ASSUME NEW st, NEW from \in Slots, Ready(st) # {}
    PROVE  find_ready(st, from) \in Ready(st)
<1> DEFINE D == {ScanDistance(from, j) : j \in Ready(st)}
<1>1. D \subseteq Nat /\ D # {}
  BY SizesAssumption DEF ScanDistance, Ready, Slots
<1>2. Min(D) \in D
  <2> HIDE DEF D
  <2> QED BY <1>1, LeastInSet
<1>3. \E i \in Ready(st) : ScanDistance(from, i) = Min(D)
  BY <1>2
<1> QED BY <1>3 DEF find_ready

\* The states the scheduler moves a process between.
Runnable == {"READY", "RUNNING"}

\* What schedule() and the idle loop guarantee of the table st they are given,
\* in which nobody but perhaps current_proc is RUNNING.
Switched(st) ==
    /\ state' \in [Slots -> States]
    /\ current_proc' \in Slots
    /\ mode' \in {"user", "idle", "halted"}
    /\ \A i \in Slots : st[i] \notin Runnable => state'[i] = st[i]
    /\ \A i \in Slots : st[i] \in Runnable => state'[i] \in Runnable
    /\ mode' = "user" => \A i \in Slots : state'[i] = "RUNNING" <=> i = current_proc'
    /\ mode' # "user" => /\ current_proc' = current_proc
                         /\ \A i \in Slots : st[i] \notin Runnable
    /\ mode' = "idle" => \E i \in Slots : st[i] = "BLOCKED"

\* The loop of schedule() gives these guarantees.
LEMMA DispatchSwitches ==
    ASSUME NEW st \in [Slots -> States], current_proc \in Slots,
           \A i \in Slots : st[i] # "RUNNING",
           Dispatch(st)
    PROVE  Switched(st)
<1>1. CASE Ready(st) # {}
  <2> DEFINE next == find_ready(st, current_proc)
  <2>1. next \in Slots /\ st[next] = "READY"
    BY <1>1, FindReady DEF Ready
  <2>2. /\ state' = [st EXCEPT ![next] = "RUNNING"]
        /\ current_proc' = next
        /\ mode' = "user"
    BY <1>1 DEF Dispatch
  <2> HIDE DEF next
  <2> QED BY <2>1, <2>2 DEF Switched, States, Runnable
<1>2. CASE Ready(st) = {}
  BY <1>2 DEF Dispatch, Switched, Ready, Runnable, any_blocked
<1> QED BY <1>1, <1>2

\* So does schedule(), which first puts a RUNNING process back to READY.
LEMMA ScheduleSwitches ==
    ASSUME NEW st \in [Slots -> States], current_proc \in Slots,
           \A i \in Slots : st[i] = "RUNNING" => i = current_proc,
           schedule(st)
    PROVE  Switched(st)
<1> DEFINE st1 == [i \in Slots |-> IF i = current_proc /\ st[i] = "RUNNING"
                                   THEN "READY" ELSE st[i]]
<1>1. st1 \in [Slots -> States] /\ \A i \in Slots : st1[i] # "RUNNING"
  BY DEF States
<1>2. \A i \in Slots : /\ st[i] \in Runnable <=> st1[i] \in Runnable
                       /\ st[i] \notin Runnable => st1[i] = st[i]
                       /\ st1[i] = "BLOCKED" => st[i] = "BLOCKED"
  BY DEF Runnable
<1>3. Dispatch(st1)
  BY DEF schedule
<1>4. Switched(st1)
  <2> HIDE DEF st1
  <2> QED BY <1>1, <1>3, DispatchSwitches
<1> HIDE DEF st1
<1> QED BY <1>2, <1>4 DEF Switched
-----------------------------------------------------------------------------
\* The kernel idles only if somebody is blocked.
IdleHasBlocked == mode = "idle" => any_blocked(state)

\* The inductive invariant.
IInv ==
    /\ TypeOK
    /\ RunningIsCurrent
    /\ BlockedOnOwnChannel
    /\ NoReaderSleepsOnInput
    /\ NoWaiterSleepsOnZombie
    /\ PidsUnique
    /\ IdleHasBlocked

\* Every action that reschedules changes the table to some st first, with the
\* new chan and ecall fields, and then switches.  If st satisfies the parts of
\* the invariant that are about sleeping, the whole invariant holds again.
LEMMA SwitchPreservesIInv ==
    ASSUME IInv, NEW st \in [Slots -> States], Switched(st),
           UNCHANGED <<pid, parent_pid, next_pid>>,
           chan' \in [Slots -> Slots \cup {NULL, rx_buf}],
           ecall' \in [Slots -> {"none", "wait", "read"}],
           stip' \in BOOLEAN, readable' \in 0 .. RX_SIZE,
           st[current_proc] # "UNUSED",
           \A i \in Slots : st[i] = "UNUSED" <=> state[i] = "UNUSED",
           \A i \in Slots :
              /\ (st[i] = "BLOCKED") <=> (chan'[i] # NULL)
              /\ st[i] = "BLOCKED" => \/ chan'[i] = i /\ ecall'[i] = "wait"
                                      \/ chan'[i] = rx_buf /\ ecall'[i] = "read"
              /\ st[i] = "ZOMBIE" => ecall'[i] = "none",
           \A i \in Slots : st[i] = "BLOCKED" /\ chan'[i] = rx_buf => readable' = 0,
           \A i \in Slots : st[i] = "BLOCKED" /\ chan'[i] = i =>
              /\ \E j \in Slots : parent_pid[j] = pid[i] /\ st[j] # "UNUSED"
              /\ \A j \in Slots : parent_pid[j] = pid[i] => st[j] # "ZOMBIE"
    PROVE  IInv'
<1> USE DEF Runnable
<1>1. \A i \in Slots : /\ state'[i] = "BLOCKED" <=> st[i] = "BLOCKED"
                       /\ state'[i] = "ZOMBIE" <=> st[i] = "ZOMBIE"
                       /\ state'[i] = "UNUSED" <=> st[i] = "UNUSED"
  BY DEF Switched
<1>2. TypeOK'
  BY DEF IInv, TypeOK, Switched, Modes
<1>3. RunningIsCurrent'
  <2>1. CASE mode' = "user"
    BY <2>1 DEF Switched, RunningIsCurrent
  <2>2. CASE mode' # "user"
    BY <2>2 DEF Switched, RunningIsCurrent, IInv, TypeOK
  <2> QED BY <2>1, <2>2
<1>4. BlockedOnOwnChannel'
  BY <1>1 DEF BlockedOnOwnChannel
<1>5. NoReaderSleepsOnInput'
  BY <1>1 DEF NoReaderSleepsOnInput, Sleepers
<1>6. NoWaiterSleepsOnZombie'
  BY <1>1 DEF NoWaiterSleepsOnZombie, Children, Zombies
<1>7. PidsUnique'
  BY <1>1 DEF PidsUnique, IInv
<1>8. IdleHasBlocked'
  BY <1>1 DEF IdleHasBlocked, any_blocked, Switched
<1> QED BY <1>2, <1>3, <1>4, <1>5, <1>6, <1>7, <1>8 DEF IInv
-----------------------------------------------------------------------------
\* kmain() establishes the invariant.
LEMMA InitIInv == Init => IInv
<1> SUFFICES ASSUME Init PROVE IInv
  OBVIOUS
<1> USE SizesAssumption, ChannelsAssumption DEF Init
<1>1. TypeOK
  <2>1. current_proc \in Slots /\ 0 \in 0 .. MAX_PID /\ 1 \in 0 .. MAX_PID
    BY DEF Slots
  <2>2. /\ state \in [Slots -> States]
        /\ pid \in [Slots -> 0 .. MAX_PID]
        /\ parent_pid \in [Slots -> 0 .. MAX_PID]
        /\ chan \in [Slots -> Slots \cup {NULL, rx_buf}]
        /\ ecall \in [Slots -> {"none", "wait", "read"}]
    BY <2>1 DEF States
  <2>3. /\ next_pid \in 2 .. MAX_PID + 1
        /\ mode \in Modes
        /\ readable \in 0 .. RX_SIZE
    BY DEF Modes
  <2>4. stip \in BOOLEAN
    OBVIOUS
  <2> QED BY <2>1, <2>2, <2>3, <2>4 DEF TypeOK
<1>2. RunningIsCurrent /\ IdleHasBlocked
  BY DEF RunningIsCurrent, IdleHasBlocked
<1>3. BlockedOnOwnChannel
  BY DEF BlockedOnOwnChannel
<1>4. NoReaderSleepsOnInput
  BY DEF NoReaderSleepsOnInput
<1>5. NoWaiterSleepsOnZombie
  BY DEF NoWaiterSleepsOnZombie
<1>6. PidsUnique
  BY DEF PidsUnique
<1> QED BY <1>1, <1>2, <1>3, <1>4, <1>5, <1>6 DEF IInv

\* In user mode the current process is the RUNNING one and has no channel.
LEMMA UserFacts ==
    ASSUME IInv, mode = "user"
    PROVE  /\ current_proc \in Slots /\ state[current_proc] = "RUNNING"
           /\ chan[current_proc] = NULL
           /\ \A i \in Slots : state[i] = "RUNNING" => i = current_proc
           /\ 0 < pid[current_proc]
BY DEF IInv, TypeOK, RunningIsCurrent, BlockedOnOwnChannel, PidsUnique

\* A timer tick preserves the invariant: nothing but the switch happens.
LEMMA TickIInv == IInv /\ Tick => IInv'
<1> SUFFICES ASSUME IInv, Tick PROVE IInv'
  OBVIOUS
<1>1. Switched(state)
  BY ScheduleSwitches, UserFacts DEF Tick, IInv, TypeOK
<1> QED
  BY <1>1, SwitchPreservesIInv, UserFacts
  DEF Tick, IInv, TypeOK, BlockedOnOwnChannel, NoReaderSleepsOnInput, Sleepers,
      NoWaiterSleepsOnZombie, Children, Zombies

\* A system call that blocks on a channel for which the sleeping conditions
\* hold preserves the invariant.
LEMMA BlockIInv ==
    ASSUME IInv, mode = "user", NEW ch, NEW e, Block(ch, e),
           UNCHANGED <<pid, parent_pid, next_pid, stip, readable>>,
           \/ ch = rx_buf /\ e = "read" /\ readable = 0
           \/ /\ ch = current_proc /\ e = "wait"
              /\ Children(current_proc) # {} /\ Zombies(current_proc) = {}
    PROVE  IInv'
<1> DEFINE st == [state EXCEPT ![current_proc] = "BLOCKED"]
<1> USE UserFacts, ChannelsAssumption
<1>1. st \in [Slots -> States]
  BY DEF IInv, TypeOK, States
<1>2. Switched(st)
  <2>1. \A i \in Slots : st[i] = "RUNNING" => i = current_proc
    BY DEF IInv, TypeOK
  <2>2. schedule(st)
    BY DEF Block
  <2> HIDE DEF st
  <2> QED BY <1>1, <2>1, <2>2, ScheduleSwitches
<1>3. /\ chan' = [chan EXCEPT ![current_proc] = ch]
      /\ ecall' = [ecall EXCEPT ![current_proc] = e]
  BY DEF Block
<1>4. /\ chan' \in [Slots -> Slots \cup {NULL, rx_buf}]
      /\ ecall' \in [Slots -> {"none", "wait", "read"}]
  BY <1>3 DEF IInv, TypeOK
<1>5. \A i \in Slots :
         /\ st[i] = "UNUSED" <=> state[i] = "UNUSED"
         /\ (st[i] = "BLOCKED") <=> (chan'[i] # NULL)
         /\ st[i] = "BLOCKED" => \/ chan'[i] = i /\ ecall'[i] = "wait"
                                 \/ chan'[i] = rx_buf /\ ecall'[i] = "read"
         /\ st[i] = "ZOMBIE" => ecall'[i] = "none"
  BY <1>3 DEF IInv, TypeOK, BlockedOnOwnChannel
<1>6. \A i \in Slots : st[i] = "BLOCKED" /\ chan'[i] = rx_buf => readable' = 0
  BY <1>3 DEF IInv, TypeOK, NoReaderSleepsOnInput, Sleepers
<1>7. \A i \in Slots : st[i] = "BLOCKED" /\ chan'[i] = i =>
         /\ \E j \in Slots : parent_pid[j] = pid[i] /\ st[j] # "UNUSED"
         /\ \A j \in Slots : parent_pid[j] = pid[i] => st[j] # "ZOMBIE"
  BY <1>3 DEF IInv, TypeOK, NoWaiterSleepsOnZombie, Children, Zombies
<1>8. st[current_proc] # "UNUSED" /\ stip' \in BOOLEAN /\ readable' \in 0 .. RX_SIZE
  BY DEF IInv, TypeOK
<1> HIDE DEF st
<1> QED BY <1>1, <1>2, <1>4, <1>5, <1>6, <1>7, <1>8, SwitchPreservesIInv

\* SYS_WAIT sleeps only with a live child and no zombie.
LEMMA WaitBlockIInv == IInv /\ WaitBlock => IInv'
BY BlockIInv DEF WaitBlock, InUser

\* SYS_READ sleeps only on an empty ring.
LEMMA ReadBlockIInv == IInv /\ ReadBlock => IInv'
BY BlockIInv DEF ReadBlock, InUser

\* exit_current() wakes exactly the parent that may be waiting: by PidsUnique
\* the first slot with the parent's pid is the parent's.
LEMMA ExitIInv == IInv /\ exit_current => IInv'
<1> SUFFICES ASSUME IInv, exit_current PROVE IInv'
  OBVIOUS
<1> DEFINE st0 == [state EXCEPT ![current_proc] = "ZOMBIE"]
           P   == ParentSlots(current_proc)
<1> USE ChannelsAssumption
<1>0. /\ mode = "user" /\ ecall[current_proc] = "none"
      /\ UNCHANGED <<pid, parent_pid, ecall, next_pid, stip, readable>>
  BY DEF exit_current, InUser, IInv, TypeOK
<1>u. /\ current_proc \in Slots /\ state[current_proc] = "RUNNING"
      /\ chan[current_proc] = NULL
      /\ \A i \in Slots : state[i] = "RUNNING" => i = current_proc
      /\ 0 < pid[current_proc]
  BY <1>0, UserFacts
<1>t. st0 \in [Slots -> States] /\ stip' \in BOOLEAN /\ readable' \in 0 .. RX_SIZE
  BY <1>0 DEF IInv, TypeOK, States
<1>e. ecall' \in [Slots -> {"none", "wait", "read"}]
  BY <1>0 DEF IInv, TypeOK
<1>1. CASE P = {}
  <2>1. schedule(st0) /\ chan' = chan
    BY <1>1 DEF exit_current
  <2>2. Switched(st0)
    <3>1. \A i \in Slots : st0[i] = "RUNNING" => i = current_proc
      BY <1>u DEF IInv, TypeOK
    <3> HIDE DEF st0
    <3> QED BY <1>t, <1>u, <2>1, <3>1, ScheduleSwitches
  <2>3. \A i \in Slots :
           /\ st0[i] = "UNUSED" <=> state[i] = "UNUSED"
           /\ (st0[i] = "BLOCKED") <=> (chan'[i] # NULL)
           /\ st0[i] = "BLOCKED" => \/ chan'[i] = i /\ ecall'[i] = "wait"
                                    \/ chan'[i] = rx_buf /\ ecall'[i] = "read"
           /\ st0[i] = "ZOMBIE" => ecall'[i] = "none"
    BY <1>0, <1>u, <2>1 DEF IInv, TypeOK, BlockedOnOwnChannel
  <2>4. \A i \in Slots : st0[i] = "BLOCKED" /\ chan'[i] = rx_buf => readable' = 0
    BY <1>0, <1>u, <2>1 DEF IInv, TypeOK, NoReaderSleepsOnInput, Sleepers
  <2>5. \A i \in Slots : st0[i] = "BLOCKED" /\ chan'[i] = i =>
           /\ \E j \in Slots : parent_pid[j] = pid[i] /\ st0[j] # "UNUSED"
           /\ \A j \in Slots : parent_pid[j] = pid[i] => st0[j] # "ZOMBIE"
    BY <1>1, <1>u, <2>1
    DEF IInv, TypeOK, NoWaiterSleepsOnZombie, Children, Zombies, ParentSlots
  <2>6. st0[current_proc] # "UNUSED" /\ chan' \in [Slots -> Slots \cup {NULL, rx_buf}]
    BY <1>u, <2>1 DEF IInv, TypeOK
  <2> HIDE DEF st0
  <2> QED
    BY <1>0, <1>t, <1>e, <2>2, <2>3, <2>4, <2>5, <2>6, SwitchPreservesIInv
<1>2. CASE P # {}
  <2> DEFINE p  == Min(P)
             st == wakeup(st0, p)
  <2>1. schedule(st) /\ chan' = wakeup_chan(st0, p)
    BY <1>2 DEF exit_current
  <2>2. p \in Slots /\ pid[p] = parent_pid[current_proc] /\ state[p] # "UNUSED"
    <3>1. P \subseteq Nat
      BY SlotsNat DEF ParentSlots
    <3>2. p \in P
      BY <1>2, <3>1, LeastInSet
    <3> QED BY <3>2 DEF ParentSlots
  <2>3. \A i \in Slots : state[i] # "UNUSED" /\ pid[i] = parent_pid[current_proc] => i = p
    BY <2>2 DEF IInv, PidsUnique
  <2> HIDE DEF P, p
  <2>4. st \in [Slots -> States]
    BY <1>t DEF wakeup, States
  <2>5. \A i \in Slots : chan'[i] = IF st0[i] = "BLOCKED" /\ chan[i] = p
                                   THEN NULL ELSE chan[i]
    BY <2>1 DEF wakeup_chan
  <2>6. \A i \in Slots : st[i] = IF st0[i] = "BLOCKED" /\ chan[i] = p
                                THEN "READY" ELSE st0[i]
    BY DEF wakeup
  <2>7. \A i \in Slots : st0[i] = IF i = current_proc THEN "ZOMBIE" ELSE state[i]
    BY <1>u DEF IInv, TypeOK
  <2>c. chan' \in [Slots -> Slots \cup {NULL, rx_buf}]
    BY <2>1 DEF wakeup_chan, IInv, TypeOK
  <2> HIDE DEF st0, st
  <2>8. Switched(st)
    <3>1. \A i \in Slots : st[i] = "RUNNING" => i = current_proc
      BY <1>u, <2>6, <2>7
    <3> QED BY <1>u, <2>1, <2>4, <3>1, ScheduleSwitches
  <2>9. \A i \in Slots :
           /\ st[i] = "UNUSED" <=> state[i] = "UNUSED"
           /\ (st[i] = "BLOCKED") <=> (chan'[i] # NULL)
           /\ st[i] = "BLOCKED" => \/ chan'[i] = i /\ ecall'[i] = "wait"
                                   \/ chan'[i] = rx_buf /\ ecall'[i] = "read"
           /\ st[i] = "ZOMBIE" => ecall'[i] = "none"
    BY <1>0, <1>u, <2>2, <2>5, <2>6, <2>7 DEF IInv, TypeOK, BlockedOnOwnChannel
  <2>10. \A i \in Slots : st[i] = "BLOCKED" /\ chan'[i] = rx_buf => readable' = 0
    BY <1>0, <1>u, <2>5, <2>6, <2>7 DEF IInv, TypeOK, NoReaderSleepsOnInput, Sleepers
  <2>11. \A i \in Slots : st[i] = "BLOCKED" /\ chan'[i] = i =>
           /\ \E j \in Slots : parent_pid[j] = pid[i] /\ st[j] # "UNUSED"
           /\ \A j \in Slots : parent_pid[j] = pid[i] => st[j] # "ZOMBIE"
    <3> SUFFICES ASSUME NEW i \in Slots, st[i] = "BLOCKED", chan'[i] = i
                 PROVE  /\ \E j \in Slots : parent_pid[j] = pid[i] /\ st[j] # "UNUSED"
                        /\ \A j \in Slots : parent_pid[j] = pid[i] => st[j] # "ZOMBIE"
      OBVIOUS
    <3>1. state[i] = "BLOCKED" /\ chan[i] = i /\ i # p
      BY <1>u, <2>2, <2>5, <2>6, <2>7
    <3>2. parent_pid[current_proc] # pid[i]
      BY <2>3, <3>1
    <3> QED
      BY <1>u, <2>6, <2>7, <3>1, <3>2
      DEF IInv, NoWaiterSleepsOnZombie, Children, Zombies
  <2>12. st[current_proc] # "UNUSED"
    BY <1>u, <2>6, <2>7
  <2> QED
    BY <1>0, <1>t, <1>e, <2>4, <2>c, <2>8, <2>9, <2>10, <2>11, <2>12,
       SwitchPreservesIInv
<1> QED BY <1>1, <1>2

\* wakeup(rx_buf) after a commit: nobody is left asleep on the ring, and what
\* is said of every other process does not change.
LEMMA CommitFacts ==
    ASSUME IInv, NEW k \in 1 .. RX_SIZE - readable, UartCommit(k),
           NEW st, st = wakeup(state, rx_buf)
    PROVE  /\ st \in [Slots -> States]
           /\ chan' \in [Slots -> Slots \cup {NULL, rx_buf}]
           /\ readable' \in 0 .. RX_SIZE
           /\ \A i \in Slots :
                 IF state[i] = "BLOCKED" /\ chan[i] = rx_buf
                 THEN st[i] = "READY" /\ chan'[i] = NULL
                 ELSE st[i] = state[i] /\ chan'[i] = chan[i]
<1>1. readable' \in 0 .. RX_SIZE
  BY SizesAssumption DEF UartCommit, IInv, TypeOK
<1> QED BY <1>1 DEF UartCommit, wakeup, wakeup_chan, IInv, TypeOK, States

\* The external interrupt in user mode wakes the readers it has bytes for.
LEMMA ExternalInterruptIInv == IInv /\ ExternalInterrupt => IInv'
<1> SUFFICES ASSUME IInv, ExternalInterrupt PROVE IInv'
  OBVIOUS
<1>1. PICK k \in 1 .. RX_SIZE - readable : UartCommit(k)
  BY DEF ExternalInterrupt
<1>2. /\ mode = "user" /\ state' = wakeup(state, rx_buf)
      /\ UNCHANGED <<pid, parent_pid, ecall, current_proc, next_pid, mode, stip>>
  BY DEF ExternalInterrupt
<1>3. /\ state' \in [Slots -> States]
      /\ chan' \in [Slots -> Slots \cup {NULL, rx_buf}]
      /\ readable' \in 0 .. RX_SIZE
      /\ \A i \in Slots :
            IF state[i] = "BLOCKED" /\ chan[i] = rx_buf
            THEN state'[i] = "READY" /\ chan'[i] = NULL
            ELSE state'[i] = state[i] /\ chan'[i] = chan[i]
  BY <1>1, <1>2, CommitFacts
<1>4. TypeOK'
  BY <1>2, <1>3 DEF IInv, TypeOK
<1>5. RunningIsCurrent' /\ IdleHasBlocked'
  BY <1>2, <1>3 DEF IInv, TypeOK, RunningIsCurrent, IdleHasBlocked
<1>6. BlockedOnOwnChannel'
  BY <1>2, <1>3, ChannelsAssumption DEF IInv, BlockedOnOwnChannel
<1>7. NoReaderSleepsOnInput'
  BY <1>3, ChannelsAssumption DEF IInv, NoReaderSleepsOnInput, Sleepers
<1>8. NoWaiterSleepsOnZombie'
  BY <1>2, <1>3, ChannelsAssumption DEF IInv, NoWaiterSleepsOnZombie, Children, Zombies
<1>9. PidsUnique'
  BY <1>2, <1>3 DEF IInv, PidsUnique
<1> QED BY <1>4, <1>5, <1>6, <1>7, <1>8, <1>9 DEF IInv

\* The idle loop services what woke it and goes on with a true table.
LEMMA IdleServiceIInv == IInv /\ IdleService => IInv'
<1> SUFFICES ASSUME IInv, IdleService PROVE IInv'
  OBVIOUS
<1>1. /\ mode = "idle" /\ stip' = FALSE
      /\ UNCHANGED <<pid, parent_pid, ecall, next_pid>>
  BY DEF IdleService
<1>2. /\ current_proc \in Slots /\ state[current_proc] # "UNUSED"
      /\ \A i \in Slots : state[i] # "RUNNING"
      /\ ecall' \in [Slots -> {"none", "wait", "read"}]
      /\ stip' \in BOOLEAN
  BY <1>1 DEF IInv, TypeOK, RunningIsCurrent
<1>3. CASE UNCHANGED <<readable, chan>> /\ Dispatch(state)
  <2>1. Switched(state)
    BY <1>2, <1>3, DispatchSwitches DEF IInv, TypeOK
  <2> QED
    BY <1>1, <1>2, <1>3, <2>1, SwitchPreservesIInv
    DEF IInv, TypeOK, BlockedOnOwnChannel, NoReaderSleepsOnInput, Sleepers,
        NoWaiterSleepsOnZombie, Children, Zombies
<1>4. ASSUME NEW k \in 1 .. RX_SIZE - readable, UartCommit(k),
             Dispatch(wakeup(state, rx_buf))
      PROVE  IInv'
  <2> DEFINE st == wakeup(state, rx_buf)
  <2>1. /\ st \in [Slots -> States]
        /\ chan' \in [Slots -> Slots \cup {NULL, rx_buf}]
        /\ readable' \in 0 .. RX_SIZE
        /\ \A i \in Slots :
              IF state[i] = "BLOCKED" /\ chan[i] = rx_buf
              THEN st[i] = "READY" /\ chan'[i] = NULL
              ELSE st[i] = state[i] /\ chan'[i] = chan[i]
    BY <1>4, CommitFacts
  <2>2. Dispatch(st)
    BY <1>4
  <2> HIDE DEF st
  <2>3. Switched(st)
    BY <1>2, <2>1, <2>2, DispatchSwitches
  <2>4. \A i \in Slots :
           /\ st[i] = "UNUSED" <=> state[i] = "UNUSED"
           /\ (st[i] = "BLOCKED") <=> (chan'[i] # NULL)
           /\ st[i] = "BLOCKED" => \/ chan'[i] = i /\ ecall'[i] = "wait"
                                   \/ chan'[i] = rx_buf /\ ecall'[i] = "read"
           /\ st[i] = "ZOMBIE" => ecall'[i] = "none"
           /\ ~(st[i] = "BLOCKED" /\ chan'[i] = rx_buf)
    BY <1>1, <2>1, ChannelsAssumption DEF IInv, BlockedOnOwnChannel
  <2>5. \A i \in Slots : st[i] = "BLOCKED" /\ chan'[i] = i =>
           /\ \E j \in Slots : parent_pid[j] = pid[i] /\ st[j] # "UNUSED"
           /\ \A j \in Slots : parent_pid[j] = pid[i] => st[j] # "ZOMBIE"
    BY <2>1, ChannelsAssumption
    DEF IInv, NoWaiterSleepsOnZombie, Children, Zombies
  <2> QED
    BY <1>1, <1>2, <2>1, <2>3, <2>4, <2>5, SwitchPreservesIInv
<1> QED BY <1>3, <1>4 DEF IdleService

\* The slot alloc_proc() takes is an UNUSED one.
LEMMA FreeSlotFacts ==
    ASSUME FreeSlots # {}
    PROVE  Min(FreeSlots) \in Slots /\ state[Min(FreeSlots)] = "UNUSED"
<1>1. FreeSlots \subseteq Nat
  BY SlotsNat DEF FreeSlots
<1>2. Min(FreeSlots) \in FreeSlots
  BY <1>1, LeastInSet
<1> QED BY <1>2 DEF FreeSlots

\* The child gets a pid above every pid in use and an UNUSED slot, so it is
\* nobody's sleeping or exited child.
LEMMA NewChildIInv ==
    ASSUME IInv, mode = "user", NEW child \in Slots, state[child] = "UNUSED",
           TakePid(child),
           state' = [state EXCEPT ![child] = "READY"],
           NEW p \in {0, pid[current_proc]},
           parent_pid' = [parent_pid EXCEPT ![child] = p],
           ecall' \in [Slots -> {"none", "wait", "read"}],
           \A i \in Slots : i # child => ecall'[i] = ecall[i],
           UNCHANGED <<chan, current_proc, stip, readable>>,
           mode' \in {"user", "oom_spin"}
    PROVE  IInv'
<1>u. /\ current_proc \in Slots /\ state[current_proc] = "RUNNING"
      /\ chan[current_proc] = NULL
      /\ \A i \in Slots : state[i] = "RUNNING" => i = current_proc
      /\ 0 < pid[current_proc]
  BY UserFacts
<1>n. /\ next_pid <= MAX_PID /\ next_pid' = next_pid + 1
      /\ pid' = [pid EXCEPT ![child] = next_pid]
      /\ next_pid \in 2 .. MAX_PID + 1
  BY DEF TakePid, IInv, TypeOK
<1>p. p \in 0 .. MAX_PID /\ p < next_pid
  BY <1>u, <1>n, SizesAssumption DEF IInv, TypeOK, PidsUnique
<1>1. TypeOK'
  <2>1. next_pid \in 0 .. MAX_PID /\ next_pid' \in 2 .. MAX_PID + 1
    BY <1>n, SizesAssumption
  <2>2. /\ pid' \in [Slots -> 0 .. MAX_PID] /\ parent_pid' \in [Slots -> 0 .. MAX_PID]
        /\ state' \in [Slots -> States]
    BY <1>n, <1>p, <2>1 DEF IInv, TypeOK, States
  <2>3. mode' \in Modes
    BY DEF Modes, Spins
  <2> QED BY <2>1, <2>2, <2>3 DEF IInv, TypeOK
<1>2. RunningIsCurrent' /\ IdleHasBlocked'
  BY <1>u DEF IInv, TypeOK, RunningIsCurrent, IdleHasBlocked
<1>3. BlockedOnOwnChannel'
  BY DEF IInv, TypeOK, BlockedOnOwnChannel
<1>4. NoReaderSleepsOnInput'
  BY DEF IInv, TypeOK, NoReaderSleepsOnInput, Sleepers
<1>5. NoWaiterSleepsOnZombie'
  <2> SUFFICES ASSUME NEW i \in Slots, state'[i] = "BLOCKED", chan'[i] = i
               PROVE  Children(i)' # {} /\ Zombies(i)' = {}
    BY DEF NoWaiterSleepsOnZombie
  <2>1. i # child /\ state[i] = "BLOCKED" /\ chan[i] = i /\ pid'[i] = pid[i]
    BY <1>n DEF IInv, TypeOK
  <2>2. Children(i) # {} /\ Zombies(i) = {}
    BY <2>1 DEF IInv, NoWaiterSleepsOnZombie
  <2>3. \A j \in Slots : j # child => /\ state'[j] = state[j]
                                      /\ parent_pid'[j] = parent_pid[j]
    BY DEF IInv, TypeOK
  <2>4. state'[child] = "READY"
    BY DEF IInv, TypeOK
  <2> QED BY <2>1, <2>2, <2>3, <2>4 DEF Children, Zombies
<1>6. PidsUnique'
  <2>1. \A i \in Slots : state[i] # "UNUSED" => pid[i] \in Nat /\ pid[i] < next_pid
    BY DEF IInv, TypeOK, PidsUnique
  <2>2. \A i \in Slots : i # child => /\ state'[i] = state[i] /\ pid'[i] = pid[i]
                                      /\ parent_pid'[i] = parent_pid[i]
    BY <1>n DEF IInv, TypeOK
  <2>3. pid'[child] = next_pid /\ parent_pid'[child] = p /\ next_pid \in Nat /\ 0 < next_pid
    BY <1>n DEF IInv, TypeOK
  <2> QED BY <1>n, <1>p, <2>1, <2>2, <2>3 DEF IInv, PidsUnique
<1> QED BY <1>1, <1>2, <1>3, <1>4, <1>5, <1>6 DEF IInv

\* A fork that succeeds adds a READY child.
LEMMA ForkIInv == IInv /\ Fork => IInv'
<1> SUFFICES ASSUME IInv, Fork PROVE IInv'
  OBVIOUS
<1> DEFINE child == Min(FreeSlots)
<1>1. child \in Slots /\ state[child] = "UNUSED"
  BY FreeSlotFacts DEF Fork
<1>2. /\ mode = "user" /\ TakePid(child)
      /\ state' = [state EXCEPT ![child] = "READY"]
      /\ parent_pid' = [parent_pid EXCEPT ![child] = pid[current_proc]]
      /\ ecall' = [ecall EXCEPT ![child] = "none"]
      /\ UNCHANGED <<chan, current_proc, mode, stip, readable>>
  BY DEF Fork, InUser
<1> HIDE DEF child
<1>3. /\ ecall' \in [Slots -> {"none", "wait", "read"}]
      /\ \A i \in Slots : i # child => ecall'[i] = ecall[i]
  BY <1>2 DEF IInv, TypeOK
<1> QED BY <1>1, <1>2, <1>3, NewChildIInv

\* A fork that panics has added one too, with or without its parent_pid.
LEMMA ForkPanicIInv == IInv /\ ForkPanic => IInv'
<1> SUFFICES ASSUME IInv, ForkPanic PROVE IInv'
  OBVIOUS
<1> DEFINE child == Min(FreeSlots)
<1>1. child \in Slots /\ state[child] = "UNUSED"
  BY FreeSlotFacts DEF ForkPanic
<1>2. PICK p \in {0, pid[current_proc]} :
         parent_pid' = [parent_pid EXCEPT ![child] = p]
  BY DEF ForkPanic
<1>3. /\ mode = "user" /\ TakePid(child) /\ mode' = "oom_spin"
      /\ state' = [state EXCEPT ![child] = "READY"]
      /\ UNCHANGED <<chan, ecall, current_proc, stip, readable>>
  BY DEF ForkPanic, InUser
<1> HIDE DEF child
<1>4. /\ ecall' \in [Slots -> {"none", "wait", "read"}]
      /\ \A i \in Slots : i # child => ecall'[i] = ecall[i]
  BY <1>3 DEF IInv, TypeOK
<1> QED BY <1>1, <1>2, <1>3, <1>4, NewChildIInv

\* A fork that fails may leave a pid in an UNUSED slot, which nobody looks at.
LEMMA ForkAgainIInv == IInv /\ ForkAgain => IInv'
<1> SUFFICES ASSUME IInv, ForkAgain PROVE IInv'
  OBVIOUS
<1>1. UNCHANGED <<state, parent_pid, chan, ecall, current_proc, mode, stip, readable>>
  BY DEF ForkAgain
<1>2. CASE UNCHANGED <<pid, next_pid>>
  BY <1>1, <1>2
  DEF IInv, TypeOK, RunningIsCurrent, BlockedOnOwnChannel, NoReaderSleepsOnInput,
      Sleepers, NoWaiterSleepsOnZombie, Children, Zombies, PidsUnique,
      IdleHasBlocked, any_blocked
<1>3. CASE FreeSlots # {} /\ TakePid(Min(FreeSlots))
  <2> DEFINE i == Min(FreeSlots)
  <2>1. i \in Slots /\ state[i] = "UNUSED"
    BY <1>3, FreeSlotFacts
  <2>2. /\ next_pid <= MAX_PID /\ next_pid' = next_pid + 1
        /\ pid' = [pid EXCEPT ![i] = next_pid]
        /\ next_pid \in 2 .. MAX_PID + 1
    BY <1>3 DEF TakePid, IInv, TypeOK
  <2> HIDE DEF i
  <2>3. next_pid \in 0 .. MAX_PID /\ next_pid' \in 2 .. MAX_PID + 1
    BY <2>2, SizesAssumption
  <2>4. TypeOK'
    BY <1>1, <2>2, <2>3 DEF IInv, TypeOK
  <2>5. \A j \in Slots : state[j] # "UNUSED" => pid'[j] = pid[j]
    BY <2>1, <2>2 DEF IInv, TypeOK
  <2>6. PidsUnique'
    BY <1>1, <2>2, <2>5 DEF IInv, TypeOK, PidsUnique
  <2>7. NoWaiterSleepsOnZombie'
    BY <1>1, <2>5 DEF IInv, NoWaiterSleepsOnZombie, Children, Zombies
  <2>8. /\ RunningIsCurrent' /\ BlockedOnOwnChannel' /\ NoReaderSleepsOnInput'
        /\ IdleHasBlocked'
    BY <1>1 DEF IInv, RunningIsCurrent, BlockedOnOwnChannel, NoReaderSleepsOnInput,
                Sleepers, IdleHasBlocked, any_blocked
  <2> QED BY <2>4, <2>6, <2>7, <2>8 DEF IInv
<1> QED BY <1>2, <1>3 DEF ForkAgain

\* The parent that reaps is RUNNING, so the zombie is no waiter's child.
LEMMA WaitReapIInv == IInv /\ WaitReap => IInv'
<1> SUFFICES ASSUME IInv, WaitReap PROVE IInv'
  OBVIOUS
<1> DEFINE z == Min(Zombies(current_proc))
<1>0. mode = "user" /\ UNCHANGED <<current_proc, next_pid, mode, stip, readable>>
  BY DEF WaitReap, InUser
<1>u. /\ current_proc \in Slots /\ state[current_proc] = "RUNNING"
      /\ chan[current_proc] = NULL
      /\ \A i \in Slots : state[i] = "RUNNING" => i = current_proc
      /\ 0 < pid[current_proc]
  BY <1>0, UserFacts
<1>1. z \in Slots /\ state[z] = "ZOMBIE" /\ parent_pid[z] = pid[current_proc]
  <2>1. Zombies(current_proc) \subseteq Nat /\ Zombies(current_proc) # {}
    BY SlotsNat DEF WaitReap, Zombies, Children
  <2>2. z \in Zombies(current_proc)
    BY <2>1, LeastInSet
  <2> QED BY <2>2 DEF Zombies, Children
<1>2. /\ state' = [state EXCEPT ![z] = "UNUSED"]
      /\ pid' = [pid EXCEPT ![z] = 0]
      /\ parent_pid' = [parent_pid EXCEPT ![z] = 0]
      /\ chan' = [chan EXCEPT ![z] = NULL]
      /\ ecall' = [ecall EXCEPT ![current_proc] = "none"]
  BY DEF WaitReap, free_proc, Return
<1> HIDE DEF z
<1>3. TypeOK'
  BY <1>0, <1>1, <1>2, SizesAssumption DEF IInv, TypeOK, States
<1>4. \A i \in Slots : /\ i # z => /\ state'[i] = state[i] /\ pid'[i] = pid[i]
                                   /\ parent_pid'[i] = parent_pid[i]
                                   /\ chan'[i] = chan[i]
                       /\ i # current_proc => ecall'[i] = ecall[i]
  BY <1>2 DEF IInv, TypeOK
<1>5. state'[z] = "UNUSED" /\ chan'[z] = NULL /\ ecall'[current_proc] = "none"
  BY <1>1, <1>u, <1>2 DEF IInv, TypeOK
<1>6. z # current_proc
  BY <1>1, <1>u
<1>7. RunningIsCurrent' /\ IdleHasBlocked'
  BY <1>0, <1>1, <1>u, <1>4, <1>5, <1>6 DEF RunningIsCurrent, IdleHasBlocked
<1>8. BlockedOnOwnChannel'
  BY <1>u, <1>4, <1>5 DEF IInv, BlockedOnOwnChannel
<1>9. NoReaderSleepsOnInput'
  BY <1>0, <1>4, <1>5 DEF IInv, NoReaderSleepsOnInput, Sleepers
<1>10. NoWaiterSleepsOnZombie'
  <2> SUFFICES ASSUME NEW i \in Slots, state'[i] = "BLOCKED", chan'[i] = i
               PROVE  Children(i)' # {} /\ Zombies(i)' = {}
    BY DEF NoWaiterSleepsOnZombie
  <2>1. i # z /\ state[i] = "BLOCKED" /\ chan[i] = i /\ pid'[i] = pid[i]
    BY <1>4, <1>5
  <2>2. Children(i) # {} /\ Zombies(i) = {}
    BY <2>1 DEF IInv, NoWaiterSleepsOnZombie
  <2>3. pid[i] # pid[current_proc]
    BY <1>u, <2>1 DEF IInv, PidsUnique
  <2>4. z \notin Children(i)
    BY <1>1, <2>3 DEF Children
  <2> QED BY <1>4, <1>5, <2>1, <2>2, <2>4 DEF Children, Zombies
<1>11. PidsUnique'
  BY <1>0, <1>4, <1>5 DEF IInv, PidsUnique
<1> QED BY <1>3, <1>7, <1>8, <1>9, <1>10, <1>11 DEF IInv

\* The steps that leave the table, the pids and the channels alone.
LEMMA QuietIInv ==
    ASSUME IInv, UNCHANGED <<state, pid, parent_pid, chan, current_proc, next_pid>>,
           stip' \in BOOLEAN, readable' \in 0 .. RX_SIZE,
           readable = 0 => readable' = 0,
           \/ ecall' = ecall
           \/ ecall' = [ecall EXCEPT ![current_proc] = "none"] /\ mode = "user",
           \/ mode' = mode
           \/ mode = "user" /\ mode' \in Spins
    PROVE  IInv'
<1>1. TypeOK'
  BY DEF IInv, TypeOK, Modes
<1>2. RunningIsCurrent' /\ IdleHasBlocked'
  BY DEF IInv, RunningIsCurrent, IdleHasBlocked, any_blocked, Spins
<1>3. BlockedOnOwnChannel'
  BY UserFacts DEF IInv, TypeOK, BlockedOnOwnChannel
<1>4. NoReaderSleepsOnInput' /\ NoWaiterSleepsOnZombie' /\ PidsUnique'
  BY DEF IInv, NoReaderSleepsOnInput, Sleepers, NoWaiterSleepsOnZombie, Children,
         Zombies, PidsUnique
<1> QED BY <1>1, <1>2, <1>3, <1>4 DEF IInv

\* Every step preserves the invariant.
LEMMA NextIInv == IInv /\ [Next]_vars => IInv'
<1> SUFFICES ASSUME IInv, [Next]_vars PROVE IInv'
  OBVIOUS
<1>t. stip \in BOOLEAN /\ readable \in 0 .. RX_SIZE
  BY DEF IInv, TypeOK
<1>1. CASE Tick
  BY <1>1, TickIInv
<1>2. CASE ExternalInterrupt
  BY <1>2, ExternalInterruptIInv
<1>3. CASE IdleService
  BY <1>3, IdleServiceIInv
<1>4. CASE TimerFires
  <2>1. stip' \in BOOLEAN
    BY <1>4 DEF TimerFires
  <2> QED BY <1>4, <1>t, <2>1, QuietIInv DEF TimerFires
<1>5. CASE Fork
  BY <1>5, ForkIInv
<1>6. CASE ForkAgain
  BY <1>6, ForkAgainIInv
<1>7. CASE ForkPanic
  BY <1>7, ForkPanicIInv
<1>8. CASE ExecPanic
  BY <1>8, <1>t, QuietIInv DEF ExecPanic, InUser, Spins
<1>9. CASE UnknownSyscall
  BY <1>9, <1>t, QuietIInv DEF UnknownSyscall, InUser, Spins
<1>10. CASE exit_current
  BY <1>10, ExitIInv
<1>11. CASE Wait
  <2>1. CASE WaitNoChild
    BY <2>1, <1>t, QuietIInv DEF WaitNoChild, InUser, Return
  <2> QED BY <1>11, <2>1, WaitReapIInv, WaitBlockIInv DEF Wait
<1>12. CASE Read
  <2>1. CASE ReadTake
    <3>1. readable' \in 0 .. RX_SIZE /\ readable # 0
      BY <2>1, <1>t, SizesAssumption DEF ReadTake
    <3> QED BY <2>1, <1>t, <3>1, QuietIInv DEF ReadTake, InUser, Return
  <2> QED BY <1>12, <2>1, ReadBlockIInv DEF Read
<1>13. CASE Spin \/ UNCHANGED vars
  BY <1>13, <1>t, QuietIInv DEF Spin, vars
<1> QED
  BY <1>1, <1>2, <1>3, <1>4, <1>5, <1>6, <1>7, <1>8, <1>9, <1>10, <1>11, <1>12,
     <1>13 DEF Next

-----------------------------------------------------------------------------
\* The table invariants hold in every reachable state, for every number of
\* slots, every pid bound, every ring size and every set of failures.
THEOREM ProcessInvariant == Spec => []IInv
BY InitIInv, NextIInv, PTL DEF Spec

\* The variables keep their types, for every value of the constants.
THEOREM ProcessTypeOK == Spec => []TypeOK
<1>1. IInv => TypeOK
  BY DEF IInv
<1> QED BY <1>1, ProcessInvariant, PTL

\* No wakeup is lost: nobody sleeps in read() while the ring has bytes, and
\* whoever sleeps in wait() has a child that is alive and none to reap, so that
\* the wakeup() of exit_current() is still to come.
THEOREM NoLostWakeup == Spec => []NoLostWakeups
<1>1. IInv => NoLostWakeups
  BY DEF IInv, NoLostWakeups
<1> QED BY <1>1, ProcessInvariant, PTL

\* Pids identify the processes in the table; state, channel and rewound system
\* call of a PCB agree, also in a slot that free_proc() and alloc_proc() have
\* recycled.
THEOREM TableIsConsistent == Spec => []TableConsistent
<1>1. IInv => TableConsistent
  BY DEF IInv, TableConsistent
<1> QED BY <1>1, ProcessInvariant, PTL

\* Whatever way schedule() was left, the current process is the one RUNNING.
THEOREM SchedulerInvariant == Spec => []RunningIsCurrent
<1>1. IInv => RunningIsCurrent
  BY DEF IInv
<1> QED BY <1>1, ProcessInvariant, PTL

\* The idle loop always has an end: take the youngest blocked process.  If it
\* were in wait() it would have a live child, which is blocked too (nothing is
\* runnable in the idle loop) and younger.  So it reads the console.
LEMMA IInvIdle == IInv => IdleWaitsForConsole
<1> SUFFICES ASSUME IInv, mode = "idle", Sleepers(rx_buf) = {} PROVE FALSE
  BY DEF IdleWaitsForConsole
<1> DEFINE B == {i \in Slots : state[i] = "BLOCKED"}
           A == {next_pid - pid[i] : i \in B}
<1>1. B # {} /\ B \subseteq Slots
  BY DEF IInv, IdleHasBlocked, any_blocked
<1>2. \A i \in B : next_pid - pid[i] \in Nat
  BY DEF IInv, TypeOK, PidsUnique
<1>3. A \subseteq Nat /\ A # {}
  BY <1>1, <1>2
<1>4. Min(A) \in A /\ \A y \in A : Min(A) <= y
  <2> HIDE DEF A
  <2> QED BY <1>3, LeastInSet
<1>5. PICK i \in B : Min(A) = next_pid - pid[i]
  BY <1>4
<1>6. chan[i] = i
  BY <1>5 DEF IInv, BlockedOnOwnChannel, Sleepers
<1>7. PICK j \in Slots : /\ parent_pid[j] = pid[i] /\ state[j] # "UNUSED"
                         /\ state[j] # "ZOMBIE"
  BY <1>5, <1>6 DEF IInv, NoWaiterSleepsOnZombie, Children, Zombies
<1>8. j \in B
  BY <1>7 DEF IInv, TypeOK, RunningIsCurrent, States
<1>9. pid[i] < pid[j]
  BY <1>7 DEF IInv, PidsUnique
<1>10. next_pid - pid[i] <= next_pid - pid[j]
  BY <1>4, <1>5, <1>8
<1> QED
  BY <1>5, <1>8, <1>9, <1>10 DEF IInv, TypeOK

\* Processes that wait for each other never leave the kernel idling for good.
THEOREM NoIdleDeadlock == Spec => []IdleWaitsForConsole
BY IInvIdle, ProcessInvariant, PTL

\* A step that reschedules a table st with the same zombies keeps them.
LEMMA SwitchKeepsZombies ==
    ASSUME NEW st, Switched(st), pid' = pid,
           \A i \in Slots : state[i] = "ZOMBIE" => st[i] = "ZOMBIE"
    PROVE  ZombieKept
BY DEF Switched, Runnable, ZombieKept

\* Every step keeps the zombies or is their parent's SYS_WAIT.
LEMMA NextKeepsZombies == IInv /\ [Next]_vars => [ZombieKept]_vars
<1> SUFFICES ASSUME IInv, Next PROVE ZombieKept
  OBVIOUS
<1>t. state \in [Slots -> States] /\ pid \in [Slots -> 0 .. MAX_PID] /\ current_proc \in Slots
  BY DEF IInv, TypeOK
<1>1. CASE Tick
  <2>1. Switched(state)
    BY <1>1, ScheduleSwitches, UserFacts DEF Tick, IInv, TypeOK
  <2> QED BY <1>1, <2>1, SwitchKeepsZombies DEF Tick
<1>2. CASE ExternalInterrupt
  BY <1>2, <1>t DEF ExternalInterrupt, wakeup, ZombieKept
<1>3. CASE IdleService
  <2>1. \A i \in Slots : state[i] # "RUNNING"
    BY <1>3 DEF IdleService, IInv, RunningIsCurrent
  <2>2. CASE Dispatch(state)
    <3>1. Switched(state)
      BY <1>t, <2>1, <2>2, DispatchSwitches
    <3> QED BY <1>3, <3>1, SwitchKeepsZombies DEF IdleService
  <2>3. CASE Dispatch(wakeup(state, rx_buf))
    <3> DEFINE st == wakeup(state, rx_buf)
    <3>1. /\ st \in [Slots -> States]
          /\ \A i \in Slots : st[i] # "RUNNING"
          /\ \A i \in Slots : state[i] = "ZOMBIE" => st[i] = "ZOMBIE"
      BY <1>t, <2>1 DEF wakeup, States
    <3> HIDE DEF st
    <3>2. Switched(st)
      BY <1>t, <2>3, <3>1, DispatchSwitches DEF st
    <3> QED BY <1>3, <3>1, <3>2, SwitchKeepsZombies DEF IdleService
  <2> QED BY <1>3, <2>2, <2>3 DEF IdleService
<1>4. CASE Fork \/ ForkAgain \/ ForkPanic
  <2>1. FreeSlots # {} => Min(FreeSlots) \in Slots /\ state[Min(FreeSlots)] = "UNUSED"
    BY FreeSlotFacts
  <2>2. CASE Fork
    BY <1>t, <2>1, <2>2 DEF Fork, TakePid, ZombieKept
  <2>3. CASE ForkAgain
    BY <1>t, <2>1, <2>3 DEF ForkAgain, TakePid, ZombieKept
  <2>4. CASE ForkPanic
    BY <1>t, <2>1, <2>4 DEF ForkPanic, TakePid, ZombieKept
  <2> QED BY <1>4, <2>2, <2>3, <2>4
<1>5. CASE exit_current
  <2> DEFINE P   == ParentSlots(current_proc)
             ex  == [state EXCEPT ![current_proc] = "ZOMBIE"]
  <2>1. mode = "user"
    BY <1>5 DEF exit_current, InUser
  <2>2. /\ ex \in [Slots -> States]
        /\ \A i \in Slots : ex[i] # "RUNNING"
        /\ \A i \in Slots : state[i] = "ZOMBIE" => ex[i] = "ZOMBIE"
    BY <1>t, <2>1, UserFacts DEF States
  <2>3. CASE schedule(ex)
    <3> HIDE DEF ex
    <3>1. Switched(ex)
      BY <1>t, <2>2, <2>3, ScheduleSwitches
    <3> QED BY <1>5, <2>2, <3>1, SwitchKeepsZombies DEF exit_current
  <2>4. CASE schedule(wakeup(ex, Min(P)))
    <3> DEFINE st == wakeup(ex, Min(P))
    <3>1. /\ st \in [Slots -> States]
          /\ \A i \in Slots : st[i] # "RUNNING"
          /\ \A i \in Slots : state[i] = "ZOMBIE" => st[i] = "ZOMBIE"
      <4> HIDE DEF ex, P
      <4> QED BY <2>2 DEF wakeup, States
    <3>2. Switched(st)
      <4> HIDE DEF st
      <4> QED BY <1>t, <3>1, <2>4, ScheduleSwitches DEF st
    <3> HIDE DEF st
    <3> QED BY <1>5, <3>1, <3>2, SwitchKeepsZombies DEF exit_current
  <2> QED BY <1>5, <2>3, <2>4 DEF exit_current
<1>6. CASE WaitReap
  <2>1. Min(Zombies(current_proc)) \in Zombies(current_proc)
    <3>1. Zombies(current_proc) \subseteq Nat
      BY SlotsNat DEF Zombies, Children
    <3> HIDE DEF Zombies
    <3> QED BY <1>6, <3>1, LeastInSet DEF WaitReap
  <2> QED
    BY <1>t, <1>6, <2>1, UserFacts
    DEF WaitReap, InUser, free_proc, Zombies, Children, ZombieKept
<1>7. CASE WaitBlock \/ ReadBlock
  <2>1. mode = "user" /\ pid' = pid
    BY <1>7 DEF WaitBlock, ReadBlock, InUser
  <2> DEFINE st == [state EXCEPT ![current_proc] = "BLOCKED"]
  <2>2. /\ st \in [Slots -> States]
        /\ \A i \in Slots : st[i] # "RUNNING"
        /\ \A i \in Slots : state[i] = "ZOMBIE" => st[i] = "ZOMBIE"
    BY <1>t, <2>1, UserFacts DEF States
  <2>3. schedule(st)
    BY <1>7 DEF WaitBlock, ReadBlock, Block
  <2> HIDE DEF st
  <2>4. Switched(st)
    BY <1>t, <2>2, <2>3, ScheduleSwitches
  <2> QED BY <2>1, <2>2, <2>4, SwitchKeepsZombies
<1>8. CASE UNCHANGED <<state, pid>>
  BY <1>8 DEF ZombieKept
<1> QED
  BY <1>1, <1>2, <1>3, <1>4, <1>5, <1>6, <1>7, <1>8
  DEF Next, TimerFires, ExecPanic, UnknownSyscall, Wait, WaitNoChild, Read, ReadTake,
      Spin, vars

\* A zombie stays until its own running parent reaps it.
THEOREM ZombiesAreKept == Spec => ZombieStaysForParent
BY NextKeepsZombies, ProcessInvariant, PTL DEF Spec, ZombieStaysForParent
-----------------------------------------------------------------------------
(* The process table implements the process tree.                          *)

\* What the refinement mapping makes of the table, without SlotsOf: a pid from
\* next_pid on is unborn, the pid of a slot in use is what that slot says, and
\* every other pid is gone.
Mapped ==
    /\ PhaseOf = [p \in 1 .. MAX_PID |-> PhaseOf[p]]
    /\ ParentOf = [p \in 1 .. MAX_PID |-> ParentOf[p]]
    /\ \A p \in 1 .. MAX_PID : p >= next_pid => PhaseOf[p] = "unborn" /\ ParentOf[p] = 0
    /\ \A i \in Slots : state[i] # "UNUSED" =>
          /\ pid[i] \in 1 .. MAX_PID
          /\ PhaseOf[pid[i]] = IF state[i] = "ZOMBIE" THEN "exited" ELSE "alive"
          /\ ParentOf[pid[i]] = parent_pid[i]
    /\ \A p \in 1 .. MAX_PID :
          p < next_pid /\ (\A i \in Slots : state[i] = "UNUSED" \/ pid[i] # p) =>
             PhaseOf[p] = "gone" /\ ParentOf[p] = 0

\* The table determines phase and parent of every pid, because pids identify
\* the slots in use.
LEMMA MapFacts == IInv => Mapped
<1> SUFFICES ASSUME IInv PROVE Mapped
  OBVIOUS
<1>t. /\ pid \in [Slots -> 0 .. MAX_PID] /\ next_pid \in 2 .. MAX_PID + 1
      /\ MAX_PID \in Nat
  BY SizesAssumption DEF IInv, TypeOK
<1>u. \A i \in Slots : state[i] # "UNUSED" =>
         /\ 0 < pid[i] /\ pid[i] < next_pid
         /\ \A j \in Slots : state[j] # "UNUSED" /\ pid[i] = pid[j] => i = j
  BY DEF IInv, PidsUnique
<1>1. /\ PhaseOf = [p \in 1 .. MAX_PID |-> PhaseOf[p]]
      /\ ParentOf = [p \in 1 .. MAX_PID |-> ParentOf[p]]
  BY DEF PhaseOf, ParentOf
<1>2. ASSUME NEW p \in 1 .. MAX_PID, p >= next_pid
      PROVE  PhaseOf[p] = "unborn" /\ ParentOf[p] = 0
  <2>1. SlotsOf(p) = {}
    BY <1>t, <1>u, <1>2 DEF SlotsOf
  <2> QED BY <1>2, <2>1 DEF PhaseOf, ParentOf
<1>3. ASSUME NEW i \in Slots, state[i] # "UNUSED"
      PROVE  /\ pid[i] \in 1 .. MAX_PID
             /\ PhaseOf[pid[i]] = IF state[i] = "ZOMBIE" THEN "exited" ELSE "alive"
             /\ ParentOf[pid[i]] = parent_pid[i]
  <2>1. SlotsOf(pid[i]) = {i}
    BY <1>u, <1>3 DEF SlotsOf
  <2>2. Min({i}) = i
    <3>1. {i} \subseteq Nat
      BY SlotsNat
    <3> QED BY <3>1, LeastInSet
  <2>3. pid[i] \in 1 .. MAX_PID /\ ~(pid[i] >= next_pid)
    BY <1>t, <1>u, <1>3
  <2> QED BY <2>1, <2>2, <2>3 DEF PhaseOf, ParentOf
<1>4. ASSUME NEW p \in 1 .. MAX_PID, p < next_pid,
             \A i \in Slots : state[i] = "UNUSED" \/ pid[i] # p
      PROVE  PhaseOf[p] = "gone" /\ ParentOf[p] = 0
  <2>1. SlotsOf(p) = {} /\ ~(p >= next_pid)
    BY <1>t, <1>4 DEF SlotsOf
  <2> QED BY <2>1 DEF PhaseOf, ParentOf
<1> QED BY <1>1, <1>2, <1>3, <1>4 DEF Mapped

\* A step that leaves alone which slots are in use, which of them are zombies,
\* and their pids and parents, leaves the tree alone.
LEMMA SameTree ==
    ASSUME Mapped, Mapped', IInv, UNCHANGED <<pid, parent_pid, next_pid>>,
           \A i \in Slots : /\ state'[i] = "UNUSED" <=> state[i] = "UNUSED"
                            /\ state'[i] = "ZOMBIE" <=> state[i] = "ZOMBIE"
    PROVE  UNCHANGED <<PhaseOf, ParentOf>>
<1>1. ASSUME NEW p \in 1 .. MAX_PID
      PROVE  PhaseOf'[p] = PhaseOf[p] /\ ParentOf'[p] = ParentOf[p]
  <2>n. next_pid \in Nat /\ p \in Nat
    BY SizesAssumption DEF IInv, TypeOK
  <2>1. CASE p >= next_pid
    BY <2>1 DEF Mapped
  <2>2. CASE \E i \in Slots : state[i] # "UNUSED" /\ pid[i] = p
    <3>1. PICK i \in Slots : state[i] # "UNUSED" /\ pid[i] = p
      BY <2>2
    <3>2. /\ PhaseOf[p] = IF state[i] = "ZOMBIE" THEN "exited" ELSE "alive"
          /\ ParentOf[p] = parent_pid[i]
      BY <3>1 DEF Mapped
    <3>3. /\ PhaseOf'[p] = IF state'[i] = "ZOMBIE" THEN "exited" ELSE "alive"
          /\ ParentOf'[p] = parent_pid[i]
      BY <3>1 DEF Mapped
    <3> QED BY <3>2, <3>3
  <2>3. CASE p < next_pid /\ \A i \in Slots : state[i] = "UNUSED" \/ pid[i] # p
    BY <2>3 DEF Mapped
  <2> QED BY <2>n, <2>1, <2>2, <2>3
<1> QED BY <1>1 DEF Mapped

\* schedule() and the idle loop, on a table with the same slots in use and the
\* same zombies, change nothing a program can see of the tree.
LEMMA SwitchSameTree ==
    ASSUME Mapped, Mapped', IInv, mode \notin Spins,
           UNCHANGED <<pid, parent_pid, next_pid>>, NEW st, Switched(st),
           \A i \in Slots : /\ st[i] = "UNUSED" <=> state[i] = "UNUSED"
                            /\ st[i] = "ZOMBIE" <=> state[i] = "ZOMBIE"
    PROVE  UNCHANGED Tree!treeVars
<1>1. \A i \in Slots : /\ state'[i] = "UNUSED" <=> state[i] = "UNUSED"
                       /\ state'[i] = "ZOMBIE" <=> state[i] = "ZOMBIE"
  BY DEF Switched, Runnable
<1>2. UNCHANGED <<PhaseOf, ParentOf>>
  BY <1>1, SameTree
<1>3. mode' \notin Spins
  BY DEF Switched, Spins
<1>4. (mode \notin Spins) = (mode \notin Spins)'
  BY <1>3
<1> QED BY <1>2, <1>4 DEF Tree!treeVars

\* Pids are given out in ascending order: next_pid is the first unborn one.
LEMMA NextPidIsNext ==
    ASSUME Mapped, IInv, next_pid <= MAX_PID
    PROVE  next_pid \in 1 .. MAX_PID /\ Tree!NextPid(next_pid)
<1>1. next_pid \in 1 .. MAX_PID
  BY SizesAssumption DEF IInv, TypeOK
<1>2. PhaseOf[next_pid] = "unborn"
  BY <1>1 DEF Mapped
<1>3. ASSUME NEW q \in 1 .. MAX_PID, q < next_pid PROVE PhaseOf[q] # "unborn"
  <2>1. CASE \E i \in Slots : state[i] # "UNUSED" /\ pid[i] = q
    <3>1. PICK i \in Slots : state[i] # "UNUSED" /\ pid[i] = q
      BY <2>1
    <3> QED BY <3>1 DEF Mapped
  <2>2. CASE \A i \in Slots : state[i] = "UNUSED" \/ pid[i] # q
    BY <1>3, <2>2 DEF Mapped
  <2> QED BY <2>1, <2>2
<1> QED BY <1>1, <1>2, <1>3 DEF Tree!NextPid, Tree!Pids

\* A slot in use whose pid, parent and zombie state a step keeps, keeps its
\* place in the tree; so do the pids that nobody holds before and after.
LEMMA SamePid ==
    ASSUME Mapped, Mapped', IInv, NEW p \in 1 .. MAX_PID,
           \/ p >= next_pid /\ p >= next_pid'
           \/ \E i \in Slots :
                 /\ state[i] # "UNUSED" /\ state'[i] # "UNUSED"
                 /\ state[i] = "ZOMBIE" <=> state'[i] = "ZOMBIE"
                 /\ pid[i] = p /\ pid'[i] = p /\ parent_pid'[i] = parent_pid[i]
           \/ /\ p < next_pid /\ p < next_pid'
              /\ \A i \in Slots : /\ state[i] = "UNUSED" \/ pid[i] # p
                                  /\ state'[i] = "UNUSED" \/ pid'[i] # p
    PROVE  PhaseOf'[p] = PhaseOf[p] /\ ParentOf'[p] = ParentOf[p]
<1>1. CASE p >= next_pid /\ p >= next_pid'
  BY <1>1 DEF Mapped
<1>2. CASE \E i \in Slots :
              /\ state[i] # "UNUSED" /\ state'[i] # "UNUSED"
              /\ state[i] = "ZOMBIE" <=> state'[i] = "ZOMBIE"
              /\ pid[i] = p /\ pid'[i] = p /\ parent_pid'[i] = parent_pid[i]
  <2>1. PICK i \in Slots :
              /\ state[i] # "UNUSED" /\ state'[i] # "UNUSED"
              /\ state[i] = "ZOMBIE" <=> state'[i] = "ZOMBIE"
              /\ pid[i] = p /\ pid'[i] = p /\ parent_pid'[i] = parent_pid[i]
    BY <1>2
  <2>2. /\ PhaseOf[p] = IF state[i] = "ZOMBIE" THEN "exited" ELSE "alive"
        /\ ParentOf[p] = parent_pid[i]
    <3>1. \A j \in Slots : state[j] # "UNUSED" =>
             /\ PhaseOf[pid[j]] = IF state[j] = "ZOMBIE" THEN "exited" ELSE "alive"
             /\ ParentOf[pid[j]] = parent_pid[j]
      BY DEF Mapped
    <3> QED BY <2>1, <3>1
  <2>3. /\ PhaseOf'[p] = IF state'[i] = "ZOMBIE" THEN "exited" ELSE "alive"
        /\ ParentOf'[p] = parent_pid'[i]
    BY <2>1 DEF Mapped
  <2> QED BY <2>1, <2>2, <2>3
<1>3. CASE /\ p < next_pid /\ p < next_pid'
           /\ \A i \in Slots : /\ state[i] = "UNUSED" \/ pid[i] # p
                               /\ state'[i] = "UNUSED" \/ pid'[i] # p
  BY <1>3 DEF Mapped
<1> QED BY <1>1, <1>2, <1>3

\* A new child adds one node to the tree.
LEMMA NewChildTree ==
    ASSUME Mapped, Mapped', IInv, IInv', NEW child \in Slots, state[child] = "UNUSED",
           TakePid(child), NEW q,
           state' = [state EXCEPT ![child] = "READY"],
           parent_pid' = [parent_pid EXCEPT ![child] = q]
    PROVE  /\ PhaseOf' = [PhaseOf EXCEPT ![next_pid] = "alive"]
           /\ ParentOf' = [ParentOf EXCEPT ![next_pid] = q]
<1>t. /\ state \in [Slots -> States] /\ pid \in [Slots -> 0 .. MAX_PID]
      /\ parent_pid \in [Slots -> 0 .. MAX_PID]
      /\ next_pid \in Nat /\ next_pid \in 1 .. MAX_PID /\ MAX_PID \in Nat
      /\ next_pid' = next_pid + 1 /\ pid' = [pid EXCEPT ![child] = next_pid]
  BY SizesAssumption DEF IInv, TypeOK, TakePid
<1>1. PhaseOf'[next_pid] = "alive" /\ ParentOf'[next_pid] = q
  <2>1. state'[child] = "READY" /\ pid'[child] = next_pid /\ parent_pid'[child] = q
    BY <1>t
  <2> QED BY <2>1 DEF Mapped
<1>2. ASSUME NEW p \in 1 .. MAX_PID, p # next_pid
      PROVE  PhaseOf'[p] = PhaseOf[p] /\ ParentOf'[p] = ParentOf[p]
  <2>1. CASE p > next_pid
    <3>1. p >= next_pid /\ p >= next_pid'
      BY <1>t, <2>1
    <3> QED BY <3>1, SamePid
  <2>2. CASE p < next_pid
    <3>0. p < next_pid'
      BY <1>t, <2>2
    <3>1. CASE \E i \in Slots : state[i] # "UNUSED" /\ pid[i] = p
      <4>1. PICK i \in Slots : state[i] # "UNUSED" /\ pid[i] = p
        BY <3>1
      <4>2. i # child
        BY <4>1
      <4>3. state'[i] = state[i] /\ pid'[i] = p /\ parent_pid'[i] = parent_pid[i]
        BY <1>t, <4>1, <4>2
      <4> QED BY <4>1, <4>3, SamePid
    <3>2. CASE \A i \in Slots : state[i] = "UNUSED" \/ pid[i] # p
      <4>1. \A i \in Slots : state'[i] = "UNUSED" \/ pid'[i] # p
        BY <1>t, <1>2, <3>2
      <4> QED BY <2>2, <3>0, <3>2, <4>1, SamePid
    <3> QED BY <3>1, <3>2
  <2> QED BY <1>t, <1>2, <2>1, <2>2
<1> QED BY <1>t, <1>1, <1>2 DEF Mapped

\* A failed fork that took a pid uses that pid up.
LEMMA LostPidTree ==
    ASSUME Mapped, Mapped', IInv, IInv', NEW slot \in Slots, state[slot] = "UNUSED",
           TakePid(slot), UNCHANGED <<state, parent_pid>>
    PROVE  PhaseOf' = [PhaseOf EXCEPT ![next_pid] = "gone"] /\ ParentOf' = ParentOf
<1>t. /\ pid \in [Slots -> 0 .. MAX_PID]
      /\ next_pid \in Nat /\ next_pid \in 1 .. MAX_PID /\ MAX_PID \in Nat
      /\ next_pid' = next_pid + 1 /\ pid' = [pid EXCEPT ![slot] = next_pid]
  BY SizesAssumption DEF IInv, TypeOK, TakePid
<1>u. \A i \in Slots : state[i] # "UNUSED" => i # slot /\ pid[i] # next_pid /\ pid'[i] = pid[i]
  BY <1>t DEF IInv, PidsUnique
<1>1. PhaseOf'[next_pid] = "gone" /\ ParentOf'[next_pid] = 0
  <2>1. \A i \in Slots : state'[i] = "UNUSED" \/ pid'[i] # next_pid
    BY <1>u
  <2> QED BY <1>t, <2>1 DEF Mapped
<1>2. ASSUME NEW p \in 1 .. MAX_PID, p # next_pid
      PROVE  PhaseOf'[p] = PhaseOf[p] /\ ParentOf'[p] = ParentOf[p]
  <2>1. CASE p > next_pid
    <3>1. p >= next_pid /\ p >= next_pid'
      BY <1>t, <2>1
    <3> QED BY <3>1, SamePid
  <2>2. CASE p < next_pid
    <3>0. p < next_pid'
      BY <1>t, <2>2
    <3>1. CASE \E i \in Slots : state[i] # "UNUSED" /\ pid[i] = p
      <4>1. PICK i \in Slots : state[i] # "UNUSED" /\ pid[i] = p
        BY <3>1
      <4>2. state'[i] = state[i] /\ pid'[i] = p /\ parent_pid'[i] = parent_pid[i]
        BY <1>u, <4>1
      <4> QED BY <4>1, <4>2, SamePid
    <3>2. CASE \A i \in Slots : state[i] = "UNUSED" \/ pid[i] # p
      <4>1. \A i \in Slots : state'[i] = "UNUSED" \/ pid'[i] # p
        BY <1>u, <3>2
      <4> QED BY <2>2, <3>0, <3>2, <4>1, SamePid
    <3> QED BY <3>1, <3>2
  <2> QED BY <1>t, <1>2, <2>1, <2>2
<1>3. ParentOf[next_pid] = 0
  BY <1>t DEF Mapped
<1> QED BY <1>t, <1>1, <1>2, <1>3 DEF Mapped

\* The exit of the process in slot c changes its phase and nothing else.
LEMMA ExitTree ==
    ASSUME Mapped, Mapped', IInv, NEW c \in Slots,
           state[c] # "UNUSED", state'[c] = "ZOMBIE",
           UNCHANGED <<pid, parent_pid, next_pid>>,
           \A i \in Slots \ {c} : /\ state'[i] = "UNUSED" <=> state[i] = "UNUSED"
                                  /\ state'[i] = "ZOMBIE" <=> state[i] = "ZOMBIE"
    PROVE  PhaseOf' = [PhaseOf EXCEPT ![pid[c]] = "exited"] /\ ParentOf' = ParentOf
<1>t. next_pid \in Nat /\ MAX_PID \in Nat
  BY SizesAssumption DEF IInv, TypeOK
<1>1. /\ pid[c] \in 1 .. MAX_PID
      /\ PhaseOf'[pid[c]] = "exited" /\ ParentOf'[pid[c]] = ParentOf[pid[c]]
  BY DEF Mapped
<1>2. ASSUME NEW p \in 1 .. MAX_PID, p # pid[c]
      PROVE  PhaseOf'[p] = PhaseOf[p] /\ ParentOf'[p] = ParentOf[p]
  <2>1. CASE p >= next_pid
    BY <2>1, SamePid
  <2>2. CASE \E i \in Slots : state[i] # "UNUSED" /\ pid[i] = p
    <3>1. PICK i \in Slots : state[i] # "UNUSED" /\ pid[i] = p
      BY <2>2
    <3>2. i \in Slots \ {c}
      BY <1>2, <3>1
    <3> QED BY <3>1, <3>2, SamePid
  <2>3. CASE p < next_pid /\ \A i \in Slots : state[i] = "UNUSED" \/ pid[i] # p
    <3>1. \A i \in Slots : state'[i] = "UNUSED" \/ pid'[i] # p
      BY <1>2, <2>3
    <3> QED BY <2>3, <3>1, SamePid
  <2> QED BY <1>t, <2>1, <2>2, <2>3
<1> QED BY <1>1, <1>2 DEF Mapped

\* Reaping the zombie in slot z takes its pid out of the tree.
LEMMA ReapTree ==
    ASSUME Mapped, Mapped', IInv, NEW z \in Slots,
           state[z] # "UNUSED", free_proc(z), UNCHANGED next_pid
    PROVE  /\ PhaseOf' = [PhaseOf EXCEPT ![pid[z]] = "gone"]
           /\ ParentOf' = [ParentOf EXCEPT ![pid[z]] = 0]
<1>t. /\ next_pid \in Nat /\ MAX_PID \in Nat
      /\ state \in [Slots -> States] /\ pid \in [Slots -> 0 .. MAX_PID]
      /\ parent_pid \in [Slots -> 0 .. MAX_PID]
  BY SizesAssumption DEF IInv, TypeOK
<1>u. \A i \in Slots : i # z => /\ state'[i] = state[i] /\ pid'[i] = pid[i]
                                /\ parent_pid'[i] = parent_pid[i]
                                /\ state[i] # "UNUSED" => pid[i] # pid[z]
  BY <1>t DEF free_proc, IInv, PidsUnique
<1>v. state'[z] = "UNUSED" /\ pid[z] \in 1 .. MAX_PID /\ pid[z] < next_pid
  BY <1>t DEF free_proc, Mapped, IInv, PidsUnique
<1>1. PhaseOf'[pid[z]] = "gone" /\ ParentOf'[pid[z]] = 0
  <2>1. \A i \in Slots : state'[i] = "UNUSED" \/ pid'[i] # pid[z]
    BY <1>u, <1>v
  <2> QED BY <1>v, <2>1 DEF Mapped
<1>2. ASSUME NEW p \in 1 .. MAX_PID, p # pid[z]
      PROVE  PhaseOf'[p] = PhaseOf[p] /\ ParentOf'[p] = ParentOf[p]
  <2>1. CASE p >= next_pid
    BY <2>1, SamePid
  <2>2. CASE \E i \in Slots : state[i] # "UNUSED" /\ pid[i] = p
    <3>1. PICK i \in Slots : state[i] # "UNUSED" /\ pid[i] = p
      BY <2>2
    <3>2. i # z
      BY <1>2, <3>1
    <3> QED BY <1>u, <3>1, <3>2, SamePid
  <2>3. CASE p < next_pid /\ \A i \in Slots : state[i] = "UNUSED" \/ pid[i] # p
    <3>1. \A i \in Slots : state'[i] = "UNUSED" \/ pid'[i] # p
      BY <1>u, <1>v, <2>3
    <3> QED BY <2>3, <3>1, SamePid
  <2> QED BY <1>t, <2>1, <2>2, <2>3
<1> QED BY <1>v, <1>1, <1>2 DEF Mapped

\* Every step of the kernel is a step of the tree, or changes nothing in it.
LEMMA TreeStep ==
    ASSUME IInv, IInv', Mapped, Mapped', Next
    PROVE  [Tree!TreeNext]_(Tree!treeVars)
<1> USE DEF Tree!Pids
<1>t. /\ state \in [Slots -> States] /\ current_proc \in Slots
      /\ pid \in [Slots -> 0 .. MAX_PID]
  BY DEF IInv, TypeOK
<1>u. ASSUME mode = "user"
      PROVE  /\ current_proc \in Slots /\ state[current_proc] = "RUNNING"
             /\ \A i \in Slots : state[i] = "RUNNING" => i = current_proc
             /\ pid[current_proc] \in 1 .. MAX_PID
             /\ PhaseOf[pid[current_proc]] = "alive"
             /\ mode \notin Spins
  BY <1>u, UserFacts DEF Mapped, Spins
<1>1. CASE Tick
  <2>1. Switched(state)
    BY <1>1, <1>t, <1>u, ScheduleSwitches DEF Tick
  <2> QED BY <1>1, <1>u, <2>1, SwitchSameTree DEF Tick
<1>2. CASE ExternalInterrupt
  <2>1. \A i \in Slots : /\ state'[i] = "UNUSED" <=> state[i] = "UNUSED"
                         /\ state'[i] = "ZOMBIE" <=> state[i] = "ZOMBIE"
    BY <1>2 DEF ExternalInterrupt, wakeup
  <2>2. UNCHANGED <<PhaseOf, ParentOf>>
    BY <1>2, <2>1, SameTree DEF ExternalInterrupt
  <2> QED BY <1>2, <2>2 DEF ExternalInterrupt, Tree!treeVars
<1>3. CASE IdleService
  <2>1. mode \notin Spins /\ \A i \in Slots : state[i] # "RUNNING"
    BY <1>3 DEF IdleService, IInv, RunningIsCurrent, Spins
  <2>2. CASE Dispatch(state)
    <3>1. Switched(state)
      BY <1>t, <2>1, <2>2, DispatchSwitches
    <3> QED BY <1>3, <2>1, <3>1, SwitchSameTree DEF IdleService
  <2>3. CASE Dispatch(wakeup(state, rx_buf))
    <3> DEFINE st == wakeup(state, rx_buf)
    <3>1. /\ st \in [Slots -> States]
          /\ \A i \in Slots : st[i] # "RUNNING"
          /\ \A i \in Slots : /\ st[i] = "UNUSED" <=> state[i] = "UNUSED"
                              /\ st[i] = "ZOMBIE" <=> state[i] = "ZOMBIE"
      BY <1>t, <2>1 DEF wakeup, States
    <3> HIDE DEF st
    <3>2. Switched(st)
      BY <1>t, <2>3, <3>1, DispatchSwitches DEF st
    <3> QED BY <1>3, <2>1, <3>1, <3>2, SwitchSameTree DEF IdleService
  <2> QED BY <1>3, <2>2, <2>3 DEF IdleService
<1>4. CASE Fork
  <2>1. PICK child \in Slots :
          /\ state[child] = "UNUSED" /\ TakePid(child)
          /\ state' = [state EXCEPT ![child] = "READY"]
          /\ parent_pid' = [parent_pid EXCEPT ![child] = pid[current_proc]]
    BY <1>4, FreeSlotFacts DEF Fork
  <2>2. mode = "user" /\ mode' = mode
    BY <1>4 DEF Fork, InUser
  <2>3. /\ PhaseOf' = [PhaseOf EXCEPT ![next_pid] = "alive"]
        /\ ParentOf' = [ParentOf EXCEPT ![next_pid] = pid[current_proc]]
    BY <2>1, NewChildTree
  <2>4. next_pid \in 1 .. MAX_PID /\ Tree!NextPid(next_pid)
    BY <2>1, NextPidIsNext DEF TakePid
  <2>5. Tree!TreeFork(pid[current_proc], next_pid)
    BY <1>u, <2>2, <2>3, <2>4 DEF Tree!TreeFork
  <2> QED BY <1>u, <2>2, <2>4, <2>5 DEF Tree!TreeNext
<1>5. CASE ForkAgain
  <2>1. mode = "user" /\ UNCHANGED <<state, parent_pid, mode>>
    BY <1>5 DEF ForkAgain, InUser
  <2>2. CASE UNCHANGED <<pid, next_pid>>
    <3>1. UNCHANGED <<PhaseOf, ParentOf>>
      BY <2>1, <2>2, SameTree
    <3> QED BY <2>1, <3>1 DEF Tree!treeVars
  <2>3. CASE FreeSlots # {} /\ TakePid(Min(FreeSlots))
    <3>1. PICK slot \in Slots : state[slot] = "UNUSED" /\ TakePid(slot)
      BY <2>3, FreeSlotFacts
    <3>2. PhaseOf' = [PhaseOf EXCEPT ![next_pid] = "gone"] /\ ParentOf' = ParentOf
      BY <2>1, <3>1, LostPidTree
    <3>3. next_pid \in 1 .. MAX_PID /\ Tree!NextPid(next_pid)
      BY <3>1, NextPidIsNext DEF TakePid
    <3>4. Tree!TreeForkFails(next_pid)
      BY <2>1, <3>2, <3>3 DEF Tree!TreeForkFails
    <3> QED BY <1>u, <2>1, <3>3, <3>4 DEF Tree!TreeNext
  <2> QED BY <1>5, <2>2, <2>3 DEF ForkAgain
<1>6. CASE ForkPanic
  <2>1. PICK child \in Slots, q \in {0, pid[current_proc]} :
          /\ state[child] = "UNUSED" /\ TakePid(child)
          /\ state' = [state EXCEPT ![child] = "READY"]
          /\ parent_pid' = [parent_pid EXCEPT ![child] = q]
    BY <1>6, FreeSlotFacts DEF ForkPanic
  <2>2. mode = "user" /\ mode' \in Spins
    BY <1>6 DEF ForkPanic, InUser, Spins
  <2>3. /\ PhaseOf' = [PhaseOf EXCEPT ![next_pid] = "alive"]
        /\ ParentOf' = [ParentOf EXCEPT ![next_pid] = q]
    BY <2>1, NewChildTree
  <2>4. next_pid \in 1 .. MAX_PID /\ Tree!NextPid(next_pid)
    BY <2>1, NextPidIsNext DEF TakePid
  <2>5. q \in 1 .. MAX_PID \cup {0}
    BY <1>u, <2>1, <2>2
  <2>6. Tree!TreePanic
    BY <2>2, <2>3, <2>4, <2>5 DEF Tree!TreePanic
  <2> QED BY <1>u, <2>2, <2>6 DEF Tree!TreeNext
<1>7. CASE ExecPanic \/ UnknownSyscall
  <2>1. /\ mode = "user" /\ mode' \in Spins
        /\ UNCHANGED <<state, pid, parent_pid, next_pid>>
    BY <1>7 DEF ExecPanic, UnknownSyscall, InUser, Spins
  <2>2. UNCHANGED <<PhaseOf, ParentOf>>
    BY <2>1, SameTree
  <2> QED BY <1>u, <2>1, <2>2 DEF Tree!TreePanic, Tree!TreeNext
<1>8. CASE exit_current
  <2>1. mode = "user" /\ UNCHANGED <<pid, parent_pid, next_pid>>
    BY <1>8 DEF exit_current, InUser
  <2> DEFINE ex == [state EXCEPT ![current_proc] = "ZOMBIE"]
             P  == ParentSlots(current_proc)
  <2>2. \E st \in [Slots -> States] :
           /\ schedule(st)
           /\ st[current_proc] = "ZOMBIE"
           /\ \A i \in Slots : /\ st[i] # "RUNNING"
                               /\ st[i] = "UNUSED" <=> state[i] = "UNUSED"
                               /\ i # current_proc =>
                                     (st[i] = "ZOMBIE" <=> state[i] = "ZOMBIE")
    <3>1. /\ ex \in [Slots -> States] /\ ex[current_proc] = "ZOMBIE"
          /\ \A i \in Slots : /\ ex[i] # "RUNNING"
                              /\ ex[i] = "UNUSED" <=> state[i] = "UNUSED"
                              /\ i # current_proc =>
                                     (ex[i] = "ZOMBIE" <=> state[i] = "ZOMBIE")
      BY <1>t, <1>u, <2>1 DEF States
    <3>2. schedule(ex) \/ schedule(wakeup(ex, Min(P)))
      BY <1>8 DEF exit_current
    <3> HIDE DEF ex, P
    <3>3. /\ wakeup(ex, Min(P)) \in [Slots -> States]
          /\ wakeup(ex, Min(P))[current_proc] = "ZOMBIE"
          /\ \A i \in Slots :
                /\ wakeup(ex, Min(P))[i] # "RUNNING"
                /\ wakeup(ex, Min(P))[i] = "UNUSED" <=> state[i] = "UNUSED"
                /\ i # current_proc =>
                      (wakeup(ex, Min(P))[i] = "ZOMBIE" <=> state[i] = "ZOMBIE")
      BY <1>t, <3>1 DEF wakeup, States
    <3> QED BY <3>1, <3>2, <3>3
  <2>3. PICK st \in [Slots -> States] :
           /\ schedule(st)
           /\ st[current_proc] = "ZOMBIE"
           /\ \A i \in Slots : /\ st[i] # "RUNNING"
                               /\ st[i] = "UNUSED" <=> state[i] = "UNUSED"
                               /\ i # current_proc =>
                                     (st[i] = "ZOMBIE" <=> state[i] = "ZOMBIE")
    BY <2>2
  <2>4. Switched(st)
    BY <1>t, <2>3, ScheduleSwitches
  <2>5. /\ state'[current_proc] = "ZOMBIE"
        /\ \A i \in Slots \ {current_proc} :
              /\ state'[i] = "UNUSED" <=> state[i] = "UNUSED"
              /\ state'[i] = "ZOMBIE" <=> state[i] = "ZOMBIE"
    BY <1>t, <2>3, <2>4 DEF Switched, Runnable
  <2>6. /\ PhaseOf' = [PhaseOf EXCEPT ![pid[current_proc]] = "exited"]
        /\ ParentOf' = ParentOf
    BY <1>u, <2>1, <2>5, ExitTree
  <2>7. mode' \notin Spins
    BY <2>4 DEF Switched, Spins
  <2>8. Tree!TreeExit(pid[current_proc])
    BY <1>u, <2>1, <2>6, <2>7 DEF Tree!TreeExit
  <2> QED BY <1>u, <2>1, <2>8 DEF Tree!TreeNext
<1>9. CASE WaitReap
  <2>1. mode = "user" /\ UNCHANGED <<next_pid, mode>>
    BY <1>9 DEF WaitReap, InUser
  <2>2. PICK z \in Zombies(current_proc) : free_proc(z)
    <3>1. Zombies(current_proc) \subseteq Nat
      BY SlotsNat DEF Zombies, Children
    <3> HIDE DEF Zombies
    <3> QED BY <1>9, <3>1, LeastInSet DEF WaitReap
  <2>3. z \in Slots /\ state[z] = "ZOMBIE" /\ parent_pid[z] = pid[current_proc]
    BY <2>2 DEF Zombies, Children
  <2>4. /\ PhaseOf' = [PhaseOf EXCEPT ![pid[z]] = "gone"]
        /\ ParentOf' = [ParentOf EXCEPT ![pid[z]] = 0]
    BY <2>1, <2>2, <2>3, ReapTree
  <2>5. /\ pid[z] \in 1 .. MAX_PID /\ PhaseOf[pid[z]] = "exited"
        /\ ParentOf[pid[z]] = pid[current_proc]
    BY <2>3 DEF Mapped
  <2>6. Tree!TreeReap(pid[current_proc], pid[z])
    BY <1>u, <2>1, <2>4, <2>5 DEF Tree!TreeReap
  <2> QED BY <1>u, <2>1, <2>5, <2>6 DEF Tree!TreeNext
<1>10. CASE WaitBlock \/ ReadBlock
  <2>1. mode = "user" /\ UNCHANGED <<pid, parent_pid, next_pid>>
    BY <1>10 DEF WaitBlock, ReadBlock, InUser
  <2> DEFINE st == [state EXCEPT ![current_proc] = "BLOCKED"]
  <2>2. /\ st \in [Slots -> States]
        /\ \A i \in Slots : /\ st[i] # "RUNNING"
                            /\ st[i] = "UNUSED" <=> state[i] = "UNUSED"
                            /\ st[i] = "ZOMBIE" <=> state[i] = "ZOMBIE"
    BY <1>t, <1>u, <2>1 DEF States
  <2>3. schedule(st)
    BY <1>10 DEF WaitBlock, ReadBlock, Block
  <2> HIDE DEF st
  <2>4. Switched(st)
    BY <1>t, <2>2, <2>3, ScheduleSwitches
  <2> QED BY <1>u, <2>1, <2>2, <2>4, SwitchSameTree
<1>11. CASE UNCHANGED <<state, pid, parent_pid, next_pid, mode>>
  <2>1. UNCHANGED <<PhaseOf, ParentOf>>
    BY <1>11, SameTree
  <2> QED BY <1>11, <2>1 DEF Tree!treeVars
<1> QED
  BY <1>1, <1>2, <1>3, <1>4, <1>5, <1>6, <1>7, <1>8, <1>9, <1>10, <1>11
  DEF Next, TimerFires, Wait, WaitNoChild, Read, ReadTake, Spin, vars

\* The process table, its scheduler and its system calls implement the process
\* tree: no pid is live twice, an exit is collected once and by the parent only,
\* for every table size and whichever slots are recycled.
THEOREM TableImplementsTree == Spec => ImplementsProcTree
<1>1. Init => Tree!TreeInit
  <2> SUFFICES ASSUME Init PROVE Tree!TreeInit
    OBVIOUS
  <2>1. Mapped
    BY InitIInv, MapFacts
  <2>2. 0 \in Slots /\ mode \notin Spins
    BY SizesAssumption DEF Init, Slots, Spins
  <2>3. /\ state[0] = "RUNNING" /\ pid[0] = 1 /\ parent_pid[0] = 0 /\ next_pid = 2
    BY <2>2 DEF Init
  <2>4. PhaseOf[1] = "alive" /\ ParentOf[1] = 0
    <3>1. state[0] # "UNUSED" =>
             /\ PhaseOf[pid[0]] = IF state[0] = "ZOMBIE" THEN "exited" ELSE "alive"
             /\ ParentOf[pid[0]] = parent_pid[0]
      BY <2>1, <2>2 DEF Mapped
    <3> QED BY <2>3, <3>1
  <2>5. \A p \in 1 .. MAX_PID : p # 1 => PhaseOf[p] = "unborn" /\ ParentOf[p] = 0
    BY <2>1, <2>3, SizesAssumption DEF Mapped
  <2> QED BY <2>1, <2>2, <2>4, <2>5 DEF Mapped, Tree!TreeInit, Tree!Pids
<1>2. IInv /\ IInv' /\ Mapped /\ Mapped' /\ [Next]_vars => [Tree!TreeNext]_(Tree!treeVars)
  <2> SUFFICES ASSUME IInv, IInv', Mapped, Mapped', UNCHANGED vars
               PROVE  UNCHANGED Tree!treeVars
    BY TreeStep
  <2>1. UNCHANGED <<PhaseOf, ParentOf>>
    BY SameTree DEF vars
  <2> QED BY <2>1 DEF vars, Tree!treeVars
<1> QED
  BY <1>1, <1>2, ProcessInvariant, MapFacts, PTL
  DEF Spec, ImplementsProcTree, Tree!TreeSpec
-----------------------------------------------------------------------------
(***************************************************************************)
(* The programs on this kernel (module Shell).  A step of a program is a   *)
(* step of the process table, so IInv holds there too; beside it, the       *)
(* processes in the table always form one chain, each the only child of     *)
(* the one before it.                                                       *)
(***************************************************************************)

\* A slot of the table that holds a process.
InUse(i) == state[i] # "UNUSED"

\* In the order of pids, the parent of a process is the one just before it.
Chain ==
    \A i, j \in Slots :
        InUse(i) /\ InUse(j) /\ pid[i] < pid[j] => pid[i] <= parent_pid[j]

\* A live process with a child is in its wait().
ParentsWait ==
    \A i \in Slots : Alive(i) /\ Children(i) # {} => pc[i] \in {"init_wait", "sh_wait"}

\* The invariant of the programs.
SInv ==
    /\ pc \in [Slots -> Locations]
    /\ image \in [Slots -> Nat]
    /\ NobodyOrphaned
    /\ Chain
    /\ ParentsWait
    /\ OnlyShellsPrompt

\* A process without a child is the last of the chain: otherwise the first
\* process after it would be its child.
LEMMA ChildlessIsLast ==
    ASSUME IInv, NobodyOrphaned, Chain,
           NEW i \in Slots, InUse(i), Children(i) = {}
    PROVE  \A j \in Slots : InUse(j) => pid[j] <= pid[i]
<1> DEFINE Later == {pid[j] : j \in {k \in Slots : InUse(k) /\ pid[i] < pid[k]}}
<1>t. \A j \in Slots : pid[j] \in Nat /\ parent_pid[j] \in Nat
  BY SizesAssumption DEF IInv, TypeOK
<1>1. Later \subseteq Nat
  BY <1>t
<1>2. ASSUME NEW m \in Later PROVE \E n \in Later : n < m
  <2>1. PICK j \in Slots : InUse(j) /\ pid[i] < pid[j] /\ m = pid[j]
    OBVIOUS
  <2>2. pid[j] # 1 /\ parent_pid[j] < pid[j] /\ pid[i] <= parent_pid[j]
    BY <1>t, <2>1 DEF IInv, PidsUnique, Chain, InUse
  <2>3. PICK p \in Slots : InUse(p) /\ pid[p] = parent_pid[j]
    BY <2>1, <2>2 DEF NobodyOrphaned, ParentSlots, InUse
  <2>4. pid[p] # pid[i]
    BY <2>1, <2>3 DEF Children, InUse
  <2>5. pid[i] < pid[p] /\ pid[p] < m
    BY <1>t, <2>1, <2>2, <2>3, <2>4
  <2> QED BY <2>3, <2>5
<1>3. Later = {}
  <2> HIDE DEF Later
  <2> QED BY <1>1, <1>2, NoLeast
<1> QED BY <1>3, <1>t

\* Nobody has two children: the older one would be between the parent and the
\* younger one.
LEMMA OnlyChild ==
    ASSUME IInv, Chain, NEW i \in Slots, NEW j \in Children(i), NEW k \in Children(i)
    PROVE  j = k
<1>1. /\ j \in Slots /\ InUse(j) /\ parent_pid[j] = pid[i] /\ parent_pid[j] < pid[j]
      /\ k \in Slots /\ InUse(k) /\ parent_pid[k] = pid[i] /\ parent_pid[k] < pid[k]
  BY DEF Children, InUse, IInv, PidsUnique
<1>2. pid[i] \in Nat /\ pid[j] \in Nat /\ pid[k] \in Nat
  BY <1>1, SizesAssumption DEF IInv, TypeOK
<1>3. ~(pid[j] < pid[k]) /\ ~(pid[k] < pid[j])
  BY <1>1, <1>2 DEF Chain
<1>4. pid[j] = pid[k]
  BY <1>2, <1>3
<1> QED BY <1>1, <1>4 DEF IInv, PidsUnique, InUse

\* A zombie has no child, since whoever is in the table has a live parent.
LEMMA ZombieIsChildless ==
    ASSUME IInv, NobodyOrphaned, NEW z \in Slots, state[z] = "ZOMBIE"
    PROVE  Children(z) = {}
<1> SUFFICES ASSUME NEW j \in Children(z) PROVE FALSE
  OBVIOUS
<1>1. /\ j \in Slots /\ state[j] # "UNUSED" /\ parent_pid[j] = pid[z]
      /\ 0 < pid[z] /\ parent_pid[j] < pid[j]
  BY DEF Children, IInv, PidsUnique
<1>2. pid[j] # 1
  BY <1>1, SizesAssumption DEF IInv, TypeOK
<1>3. PICK p \in Slots : pid[p] = pid[z] /\ state[p] # "UNUSED" /\ Alive(p)
  BY <1>1, <1>2 DEF NobodyOrphaned, ParentSlots
<1>4. p = z
  BY <1>3 DEF IInv, PidsUnique
<1> QED BY <1>3, <1>4 DEF Alive

\* A step that neither creates nor ends nor frees a process.
TableKept ==
    \A i \in Slots :
        /\ state'[i] = "UNUSED" <=> state[i] = "UNUSED"
        /\ state'[i] = "ZOMBIE" <=> state[i] = "ZOMBIE"
        /\ state[i] # "UNUSED" => pid'[i] = pid[i] /\ parent_pid'[i] = parent_pid[i]

\* schedule() changes none of this.
LEMMA SwitchKeepsTable ==
    ASSUME NEW st, Switched(st), UNCHANGED <<pid, parent_pid>>,
           \A i \in Slots : /\ st[i] = "UNUSED" <=> state[i] = "UNUSED"
                            /\ st[i] = "ZOMBIE" <=> state[i] = "ZOMBIE"
    PROVE  TableKept
BY DEF Switched, Runnable, TableKept

\* Every step but fork(), exit() and the wait() that reaps keeps the table.
LEMMA QuietKeepsTable ==
    ASSUME IInv,
           \/ Tick \/ ExternalInterrupt \/ IdleService \/ TimerFires \/ Spin
           \/ ForkAgain \/ WaitNoChild \/ WaitBlock \/ ReadTake \/ ReadBlock
           \/ UNCHANGED vars
    PROVE  TableKept
<1>t. state \in [Slots -> States] /\ current_proc \in Slots
  BY DEF IInv, TypeOK
<1>1. CASE Tick
  <2>1. Switched(state)
    BY <1>1, <1>t, ScheduleSwitches, UserFacts DEF Tick
  <2> QED BY <1>1, <2>1, SwitchKeepsTable DEF Tick
<1>2. CASE ExternalInterrupt
  BY <1>2 DEF ExternalInterrupt, wakeup, TableKept
<1>3. CASE IdleService
  <2>1. \A i \in Slots : state[i] # "RUNNING"
    BY <1>3 DEF IdleService, IInv, RunningIsCurrent
  <2>2. CASE Dispatch(state)
    <3>1. Switched(state)
      BY <1>t, <2>1, <2>2, DispatchSwitches
    <3> QED BY <1>3, <3>1, SwitchKeepsTable DEF IdleService
  <2>3. CASE Dispatch(wakeup(state, rx_buf))
    <3> DEFINE st == wakeup(state, rx_buf)
    <3>1. /\ st \in [Slots -> States]
          /\ \A i \in Slots : st[i] # "RUNNING"
          /\ \A i \in Slots : /\ st[i] = "UNUSED" <=> state[i] = "UNUSED"
                              /\ st[i] = "ZOMBIE" <=> state[i] = "ZOMBIE"
      BY <1>t, <2>1 DEF wakeup, States
    <3> HIDE DEF st
    <3>2. Switched(st)
      BY <1>t, <2>3, <3>1, DispatchSwitches DEF st
    <3> QED BY <1>3, <3>1, <3>2, SwitchKeepsTable DEF IdleService
  <2> QED BY <1>3, <2>2, <2>3 DEF IdleService
<1>4. CASE ForkAgain
  <2>1. CASE UNCHANGED <<pid, next_pid>>
    BY <1>4, <2>1 DEF ForkAgain, TableKept
  <2>2. CASE FreeSlots # {} /\ TakePid(Min(FreeSlots))
    <3>1. PICK slot \in Slots : state[slot] = "UNUSED" /\ TakePid(slot)
      BY <2>2, FreeSlotFacts
    <3> QED BY <1>4, <3>1 DEF ForkAgain, TakePid, TableKept, IInv, TypeOK
  <2> QED BY <1>4, <2>1, <2>2 DEF ForkAgain
<1>5. CASE WaitBlock \/ ReadBlock
  <2>1. mode = "user" /\ UNCHANGED <<pid, parent_pid>>
    BY <1>5 DEF WaitBlock, ReadBlock, InUser
  <2>2. /\ state[current_proc] = "RUNNING"
        /\ \A i \in Slots : state[i] = "RUNNING" => i = current_proc
    BY <2>1, UserFacts
  <2> DEFINE st == [state EXCEPT ![current_proc] = "BLOCKED"]
  <2>3. /\ st \in [Slots -> States]
        /\ \A i \in Slots : /\ st[i] # "RUNNING"
                            /\ st[i] = "UNUSED" <=> state[i] = "UNUSED"
                            /\ st[i] = "ZOMBIE" <=> state[i] = "ZOMBIE"
    BY <1>t, <2>2 DEF States
  <2>4. schedule(st)
    BY <1>5 DEF WaitBlock, ReadBlock, Block
  <2> HIDE DEF st
  <2>5. Switched(st)
    BY <1>t, <2>3, <2>4, ScheduleSwitches
  <2> QED BY <2>1, <2>3, <2>5, SwitchKeepsTable
<1>6. CASE UNCHANGED <<state, pid, parent_pid>>
  BY <1>6 DEF TableKept
<1> QED
  BY <1>1, <1>2, <1>3, <1>4, <1>5, <1>6
  DEF TimerFires, Spin, WaitNoChild, ReadTake, vars

\* The table part of the invariant does not notice such a step.
LEMMA FamilyKept ==
    ASSUME IInv, IInv', NobodyOrphaned, Chain, TableKept
    PROVE  /\ NobodyOrphaned' /\ Chain'
           /\ \A i \in Slots : Alive(i)' <=> Alive(i)
           /\ \A i \in Slots : InUse(i) => Children(i)' = Children(i)
<1>1. \A i \in Slots : Alive(i)' <=> Alive(i)
  BY DEF Alive, TableKept
<1>2. \A i \in Slots : InUse(i) => Children(i)' = Children(i)
  BY DEF InUse, Children, TableKept
<1>3. NobodyOrphaned'
  BY <1>1 DEF NobodyOrphaned, ParentSlots, TableKept
<1>4. Chain'
  BY DEF Chain, InUse, TableKept
<1> QED BY <1>1, <1>2, <1>3, <1>4

\* So the invariant is kept if the process that runs goes on to a place it is
\* allowed to be at.
LEMMA QuietSInv ==
    ASSUME IInv, IInv', SInv, TableKept,
           \/ UNCHANGED <<pc, image>>
           \/ /\ mode = "user"
              /\ \E l \in Locations :
                    /\ Goto(l)
                    /\ Children(current_proc) # {} => l \in {"init_wait", "sh_wait"}
                    /\ l \in {"sh_read", "sh_fork", "sh_wait"} =>
                          image[current_proc] = pid[current_proc]
    PROVE  SInv'
<1>1. /\ NobodyOrphaned' /\ Chain'
      /\ \A i \in Slots : Alive(i)' <=> Alive(i)
      /\ \A i \in Slots : InUse(i) => Children(i)' = Children(i)
  BY FamilyKept DEF SInv
<1>2. \A i \in Slots : Alive(i) => InUse(i) /\ pid'[i] = pid[i]
  BY DEF Alive, InUse, TableKept
<1>3. CASE UNCHANGED <<pc, image>>
  <2>1. ParentsWait'
    BY <1>1, <1>2, <1>3 DEF ParentsWait, SInv
  <2>2. OnlyShellsPrompt'
    BY <1>1, <1>2, <1>3 DEF OnlyShellsPrompt, AliveAt, SInv
  <2> QED BY <1>1, <1>3, <2>1, <2>2 DEF SInv
<1>4. ASSUME NEW l \in Locations, Goto(l),
             Children(current_proc) # {} => l \in {"init_wait", "sh_wait"},
             l \in {"sh_read", "sh_fork", "sh_wait"} =>
                 image[current_proc] = pid[current_proc]
      PROVE  SInv'
  <2>1. /\ pc' \in [Slots -> Locations] /\ image' = image /\ current_proc \in Slots
        /\ \A i \in Slots : pc'[i] = IF i = current_proc THEN l ELSE pc[i]
    BY <1>4 DEF SInv, Goto, IInv, TypeOK
  <2>2. ParentsWait'
    BY <1>1, <1>2, <1>4, <2>1 DEF ParentsWait, SInv
  <2>3. OnlyShellsPrompt'
    BY <1>1, <1>2, <1>4, <2>1 DEF OnlyShellsPrompt, AliveAt, SInv
  <2> QED BY <1>1, <2>1, <2>2, <2>3 DEF SInv
<1> QED BY <1>3, <1>4

\* exec() is a step of the program alone: it may go on at any entry, since it
\* has no child, and its memory is now its own.
LEMMA ExecSInv ==
    ASSUME IInv, IInv', SInv, NEW l \in Locations, ExecTo(l), Children(current_proc) = {}
    PROVE  SInv'
<1>1. /\ UNCHANGED vars /\ current_proc \in Slots
      /\ pc' = [pc EXCEPT ![current_proc] = l]
      /\ image' = [image EXCEPT ![current_proc] = pid[current_proc]]
  BY DEF ExecTo, IInv, TypeOK
<1>2. /\ NobodyOrphaned' /\ Chain'
      /\ \A i \in Slots : Alive(i)' <=> Alive(i)
      /\ \A i \in Slots : Children(i)' = Children(i)
  BY <1>1 DEF SInv, vars, NobodyOrphaned, ParentSlots, Chain, InUse, Alive, Children
<1>3. pc' \in [Slots -> Locations] /\ image' \in [Slots -> Nat]
  <2>1. pid[current_proc] \in Nat
    BY <1>1, SizesAssumption DEF IInv, TypeOK
  <2> QED BY <1>1, <2>1 DEF SInv
<1>4. ParentsWait'
  BY <1>1, <1>2 DEF ParentsWait, SInv
<1>5. OnlyShellsPrompt'
  BY <1>1, <1>2 DEF OnlyShellsPrompt, AliveAt, SInv, vars
<1> QED BY <1>2, <1>3, <1>4, <1>5 DEF SInv

\* fork() by a process that has no child yet and goes on to its wait(): it was
\* the last of the chain, and the child is now.
LEMMA ForkSInv ==
    ASSUME IInv, IInv', SInv, mode = "user", Children(current_proc) = {},
           NEW mine \in {"init_wait", "sh_wait"}, NEW childs \in {"init_exec", "sh_exec"},
           mine = "sh_wait" => image[current_proc] = pid[current_proc],
           ForkTo(mine, childs)
    PROVE  SInv'
<1> DEFINE c == Min(FreeSlots)
<1>1. c \in Slots /\ state[c] = "UNUSED"
  BY FreeSlotFacts DEF ForkTo, Fork
<1>u. /\ current_proc \in Slots /\ state[current_proc] = "RUNNING"
      /\ 0 < pid[current_proc]
  BY UserFacts
<1>2. /\ TakePid(c)
      /\ state' = [state EXCEPT ![c] = "READY"]
      /\ parent_pid' = [parent_pid EXCEPT ![c] = pid[current_proc]]
      /\ pc' = [pc EXCEPT ![current_proc] = mine, ![c] = childs]
      /\ image' = [image EXCEPT ![c] = image[current_proc]]
  BY DEF ForkTo, Fork
<1> HIDE DEF c
<1>3. c # current_proc
  BY <1>1, <1>u
<1>t. /\ state \in [Slots -> States] /\ pid \in [Slots -> 0 .. MAX_PID]
      /\ parent_pid \in [Slots -> 0 .. MAX_PID] /\ next_pid \in Nat /\ MAX_PID \in Nat
      /\ pc \in [Slots -> Locations] /\ image \in [Slots -> Nat]
  BY SizesAssumption DEF IInv, TypeOK, SInv
<1>4. \A i \in Slots :
         /\ state'[i] = IF i = c THEN "READY" ELSE state[i]
         /\ pid'[i] = IF i = c THEN next_pid ELSE pid[i]
         /\ parent_pid'[i] = IF i = c THEN pid[current_proc] ELSE parent_pid[i]
         /\ pc'[i] = IF i = c THEN childs ELSE IF i = current_proc THEN mine ELSE pc[i]
         /\ image'[i] = IF i = c THEN image[current_proc] ELSE image[i]
  BY <1>1, <1>2, <1>3, <1>t, <1>u DEF TakePid
<1>5. /\ pc' \in [Slots -> Locations] /\ image' \in [Slots -> Nat]
  BY <1>1, <1>2, <1>t, <1>u DEF Locations
<1>6. \A i \in Slots : InUse(i) =>
         /\ i # c /\ pid[i] <= pid[current_proc] /\ pid[i] < next_pid
         /\ parent_pid[i] < pid[i] /\ 0 < pid[i]
  <2>1. \A i \in Slots : InUse(i) => pid[i] <= pid[current_proc]
    BY <1>u, ChildlessIsLast DEF SInv, InUse
  <2> QED BY <1>1, <2>1 DEF IInv, PidsUnique, InUse
<1>7. NobodyOrphaned'
  <2> SUFFICES ASSUME NEW i \in Slots, state'[i] # "UNUSED", pid'[i] # 1
               PROVE  \E j \in Slots : /\ pid'[j] = parent_pid'[i] /\ state'[j] # "UNUSED"
                                       /\ Alive(j)'
    BY DEF NobodyOrphaned, ParentSlots
  <2>1. CASE i = c
    BY <1>3, <1>4, <1>u, <2>1 DEF Alive
  <2>2. CASE i # c
    <3>1. PICK j \in Slots : pid[j] = parent_pid[i] /\ Alive(j)
      BY <1>4, <2>2 DEF SInv, NobodyOrphaned, ParentSlots
    <3>2. j # c
      BY <1>1, <3>1 DEF Alive
    <3> QED BY <1>4, <2>2, <3>1, <3>2 DEF Alive
  <2> QED BY <2>1, <2>2
<1>8. Chain'
  <2> SUFFICES ASSUME NEW i \in Slots, NEW j \in Slots, InUse(i)', InUse(j)',
                      pid'[i] < pid'[j]
               PROVE  pid'[i] <= parent_pid'[j]
    BY DEF Chain
  <2>1. CASE i = c
    BY <1>4, <1>6, <1>t, <2>1 DEF InUse
  <2>2. CASE i # c /\ j = c
    BY <1>4, <1>6, <1>t, <2>2 DEF InUse
  <2>3. CASE i # c /\ j # c
    BY <1>4, <2>3 DEF InUse, SInv, Chain
  <2> QED BY <2>1, <2>2, <2>3
<1>9. ParentsWait'
  <2> SUFFICES ASSUME NEW i \in Slots, Alive(i)', NEW j \in Slots,
                      parent_pid'[j] = pid'[i], state'[j] # "UNUSED"
               PROVE  pc'[i] \in {"init_wait", "sh_wait"}
    BY DEF ParentsWait, Children
  <2>1. CASE i = current_proc
    BY <1>3, <1>4, <2>1
  <2>2. CASE i = c
    <3>1. pid'[i] = next_pid /\ parent_pid'[j] <= pid[current_proc]
      BY <1>4, <1>6, <1>t, <1>u, <2>2 DEF InUse
    <3>2. pid[current_proc] < next_pid
      BY <1>6, <1>u DEF InUse
    <3> QED BY <1>t, <1>u, <3>1, <3>2
  <2>3. CASE i # c /\ i # current_proc /\ j = c
    <3>1. state[i] # "UNUSED" /\ pid[i] = pid[current_proc]
      BY <1>4, <2>3 DEF Alive
    <3>2. i = current_proc
      BY <1>u, <3>1 DEF IInv, PidsUnique
    <3> QED BY <2>3, <3>2
  <2>4. CASE i # c /\ i # current_proc /\ j # c
    <3>1. Alive(i) /\ j \in Children(i) /\ pc'[i] = pc[i]
      BY <1>4, <2>4 DEF Alive, Children
    <3> QED BY <3>1 DEF SInv, ParentsWait
  <2> QED BY <2>1, <2>2, <2>3, <2>4
<1>10. OnlyShellsPrompt'
  <2> SUFFICES ASSUME NEW i \in Slots, Alive(i)', pc'[i] \in {"sh_read", "sh_fork", "sh_wait"}
               PROVE  image'[i] = pid'[i]
    BY DEF OnlyShellsPrompt, AliveAt
  <2>1. i # c
    BY <1>4
  <2>2. CASE i = current_proc
    BY <1>4, <2>1, <2>2
  <2>3. CASE i # current_proc
    BY <1>4, <2>1, <2>3 DEF SInv, OnlyShellsPrompt, AliveAt, Alive
  <2> QED BY <2>2, <2>3
<1> QED BY <1>5, <1>7, <1>8, <1>9, <1>10 DEF SInv

\* exit() by a process without a child orphans nobody.
LEMMA ExitSInv ==
    ASSUME IInv, IInv', SInv, exit_current, UNCHANGED <<pc, image>>,
           Children(current_proc) = {}
    PROVE  SInv'
<1>1. mode = "user" /\ UNCHANGED <<pid, parent_pid>>
  BY DEF exit_current, InUser
<1>u. /\ current_proc \in Slots /\ state[current_proc] = "RUNNING"
      /\ \A i \in Slots : state[i] = "RUNNING" => i = current_proc
      /\ state \in [Slots -> States]
  BY <1>1, UserFacts DEF IInv, TypeOK
<1>2. \A i \in Slots :
         /\ state'[i] = "UNUSED" <=> state[i] = "UNUSED"
         /\ state'[i] = "ZOMBIE" <=> state[i] = "ZOMBIE" \/ i = current_proc
  <2> DEFINE ex == [state EXCEPT ![current_proc] = "ZOMBIE"]
             P  == ParentSlots(current_proc)
             Ok(st) == /\ st \in [Slots -> States]
                       /\ \A i \in Slots :
                            /\ st[i] # "RUNNING"
                            /\ st[i] = "UNUSED" <=> state[i] = "UNUSED"
                            /\ st[i] = "ZOMBIE" <=> state[i] = "ZOMBIE" \/ i = current_proc
  <2>1. Ok(ex)
    BY <1>u DEF States
  <2>2. schedule(ex) \/ schedule(wakeup(ex, Min(P)))
    BY DEF exit_current
  <2> HIDE DEF ex, P
  <2>3. Ok(wakeup(ex, Min(P)))
    BY <2>1 DEF wakeup, States
  <2>4. PICK st : schedule(st) /\ Ok(st)
    BY <2>1, <2>2, <2>3
  <2>5. Switched(st)
    BY <1>u, <2>4, ScheduleSwitches
  <2> QED BY <2>4, <2>5 DEF Switched, Runnable
<1>3. \A i \in Slots : Alive(i)' <=> Alive(i) /\ i # current_proc
  BY <1>2 DEF Alive
<1>4. NobodyOrphaned'
  <2> SUFFICES ASSUME NEW i \in Slots, state'[i] # "UNUSED", pid[i] # 1
               PROVE  \E j \in Slots : /\ pid[j] = parent_pid[i] /\ state'[j] # "UNUSED"
                                       /\ Alive(j)'
    BY <1>1 DEF NobodyOrphaned, ParentSlots
  <2>1. PICK j \in Slots : pid[j] = parent_pid[i] /\ Alive(j) /\ state[j] # "UNUSED"
    BY <1>2 DEF SInv, NobodyOrphaned, ParentSlots
  <2>2. j # current_proc
    BY <1>2, <2>1 DEF Children
  <2> QED BY <1>2, <1>3, <2>1, <2>2
<1>5. Chain'
  BY <1>1, <1>2 DEF SInv, Chain, InUse
<1>6. ParentsWait'
  BY <1>1, <1>2, <1>3 DEF SInv, ParentsWait, Children
<1>7. OnlyShellsPrompt'
  BY <1>1, <1>3 DEF SInv, OnlyShellsPrompt, AliveAt
<1> QED BY <1>4, <1>5, <1>6, <1>7 DEF SInv

\* The wait() that reaps takes the only child there is, so the parent may go on
\* to its prompt or to its exit; the zombie it frees had no child.
LEMMA ReapSInv ==
    ASSUME IInv, IInv', SInv, WaitReap, NEW l \in {"exit", "sh_read"}, Goto(l),
           l = "sh_read" => image[current_proc] = pid[current_proc]
    PROVE  SInv'
<1>1. mode = "user" /\ image' = image /\ pc' = [pc EXCEPT ![current_proc] = l]
  BY DEF WaitReap, InUser, Goto
<1>u. /\ current_proc \in Slots /\ state[current_proc] = "RUNNING"
      /\ state \in [Slots -> States] /\ pid \in [Slots -> 0 .. MAX_PID]
      /\ parent_pid \in [Slots -> 0 .. MAX_PID] /\ 0 < pid[current_proc]
  BY <1>1, UserFacts DEF IInv, TypeOK
<1>2. PICK z \in Zombies(current_proc) : free_proc(z)
  <2>1. Zombies(current_proc) \subseteq Nat
    BY SlotsNat DEF Zombies, Children
  <2> HIDE DEF Zombies
  <2> QED BY <2>1, LeastInSet DEF WaitReap
<1>3. z \in Slots /\ state[z] = "ZOMBIE" /\ z \in Children(current_proc) /\ z # current_proc
  BY <1>2, <1>u DEF Zombies, Children
<1>4. \A i \in Slots :
         /\ state'[i] = IF i = z THEN "UNUSED" ELSE state[i]
         /\ i # z => pid'[i] = pid[i] /\ parent_pid'[i] = parent_pid[i]
         /\ pc'[i] = IF i = current_proc THEN l ELSE pc[i]
  BY <1>1, <1>2, <1>3, <1>u DEF free_proc, SInv
<1>5. pc' \in [Slots -> Locations]
  BY <1>1, <1>u DEF SInv, Locations
<1>6. \A i \in Slots : Alive(i)' <=> Alive(i)
  BY <1>3, <1>4 DEF Alive
<1>7. Children(z) = {}
  BY <1>3, ZombieIsChildless DEF SInv
<1>8. NobodyOrphaned'
  <2> SUFFICES ASSUME NEW i \in Slots, state'[i] # "UNUSED", pid'[i] # 1
               PROVE  \E j \in Slots : /\ pid'[j] = parent_pid'[i] /\ state'[j] # "UNUSED"
                                       /\ Alive(j)'
    BY DEF NobodyOrphaned, ParentSlots
  <2>0. i # z /\ state[i] # "UNUSED" /\ pid[i] # 1 /\ parent_pid'[i] = parent_pid[i]
    BY <1>4
  <2>1. PICK j \in Slots : pid[j] = parent_pid[i] /\ Alive(j) /\ state[j] # "UNUSED"
    BY <2>0 DEF SInv, NobodyOrphaned, ParentSlots
  <2>2. j # z
    BY <1>7, <2>0, <2>1 DEF Children
  <2> QED BY <1>4, <1>6, <2>0, <2>1, <2>2
<1>9. Chain'
  BY <1>4 DEF SInv, Chain, InUse
<1>10. ParentsWait'
  <2> SUFFICES ASSUME NEW i \in Slots, Alive(i)', NEW j \in Slots,
                      parent_pid'[j] = pid'[i], state'[j] # "UNUSED"
               PROVE  pc'[i] \in {"init_wait", "sh_wait"}
    BY DEF ParentsWait, Children
  <2>1. i # z /\ j # z /\ Alive(i) /\ j \in Children(i)
    BY <1>3, <1>4, <1>6 DEF Alive, Children
  <2>2. i # current_proc
    <3> SUFFICES ASSUME i = current_proc PROVE FALSE
      OBVIOUS
    <3>1. j = z
      BY <1>3, <2>1, OnlyChild DEF SInv
    <3> QED BY <2>1, <3>1
  <2> QED BY <1>4, <2>1, <2>2 DEF SInv, ParentsWait
<1>11. OnlyShellsPrompt'
  <2> SUFFICES ASSUME NEW i \in Slots, Alive(i)', pc'[i] \in {"sh_read", "sh_fork", "sh_wait"}
               PROVE  image'[i] = pid'[i]
    BY DEF OnlyShellsPrompt, AliveAt
  <2>1. i # z /\ Alive(i) /\ pid'[i] = pid[i]
    BY <1>3, <1>4, <1>6 DEF Alive
  <2> QED BY <1>1, <1>4, <2>1 DEF SInv, OnlyShellsPrompt, AliveAt
<1> QED BY <1>1, <1>5, <1>8, <1>9, <1>10, <1>11 DEF SInv

\* A step of a program on the kernel is a step of the kernel, or none.
LEMMA ShellStepIsStep == [ShellNext]_shell_vars => [Next]_vars
<1>1. UserStep => Next \/ UNCHANGED vars
  BY DEF UserStep, init_main, sh_main, read_line, sh_fork, sh_exec, sh_wait,
         readtest_main, Exits, ForkTo, WaitThen, ReadThen, ExecTo, ExecFails,
         Next, Wait, Read
<1>2. KernelStep => Next
  BY DEF KernelStep, Next
<1> QED BY <1>1, <1>2 DEF ShellNext, shell_vars

\* Every program starts outside wait(), and at a place of the model.
LEMMA EntryFacts ==
    \A p \in Programs : Entry(p) \in Locations
BY DEF Programs, Entry, Locations

\* kmain() starts init alone.
LEMMA InitSInv == ShellInit => SInv
<1> SUFFICES ASSUME ShellInit PROVE SInv
  OBVIOUS
<1> USE SizesAssumption
<1>1. /\ \A i \in Slots : /\ state[i] = IF i = 0 THEN "RUNNING" ELSE "UNUSED"
                          /\ pid[i] = IF i = 0 THEN 1 ELSE 0
                          /\ parent_pid[i] = 0
      /\ pc = [i \in Slots |-> IF i = 0 THEN Entry("init") ELSE "exit"]
      /\ image = [i \in Slots |-> IF i = 0 THEN 1 ELSE 0]
  BY DEF ShellInit, Init
<1>2. Entry("init") = "init_fork"
  BY DEF Entry
<1>3. pc \in [Slots -> Locations] /\ image \in [Slots -> Nat]
  BY <1>1, <1>2 DEF Locations
<1>4. NobodyOrphaned /\ Chain /\ OnlyShellsPrompt
  BY <1>1 DEF NobodyOrphaned, Chain, OnlyShellsPrompt, AliveAt, Alive, InUse
<1>5. ParentsWait
  BY <1>1 DEF ParentsWait, Alive, Children
<1> QED BY <1>3, <1>4, <1>5 DEF SInv

\* In user mode the process that runs is alive; it has no child unless it is
\* at a wait().
LEMMA RunnerFacts ==
    ASSUME IInv, SInv, mode = "user"
    PROVE  /\ Children(current_proc) # {} =>
                pc[current_proc] \in {"init_wait", "sh_wait"}
           /\ pc[current_proc] \in {"sh_read", "sh_fork", "sh_wait"} =>
                image[current_proc] = pid[current_proc]
<1>1. current_proc \in Slots /\ Alive(current_proc)
  BY UserFacts DEF Alive
<1> QED BY <1>1 DEF SInv, ParentsWait, OnlyShellsPrompt, AliveAt

\* wait() goes on to l without a child.
LEMMA WaitThenSInv ==
    ASSUME IInv, IInv', SInv, NEW l \in {"exit", "sh_read"}, WaitThen(l),
           l = "sh_read" => image[current_proc] = pid[current_proc]
    PROVE  SInv'
<1> USE DEF Locations
<1>1. CASE WaitReap /\ Goto(l)
  BY <1>1, ReapSInv
<1>2. CASE WaitNoChild /\ Goto(l)
  <2>1. TableKept
    BY <1>2, QuietKeepsTable
  <2>2. mode = "user" /\ Children(current_proc) = {}
    BY <1>2 DEF WaitNoChild, InUser
  <2> QED BY <1>2, <2>1, <2>2, QuietSInv
<1>3. CASE WaitBlock /\ UNCHANGED <<pc, image>>
  <2>1. TableKept
    BY <1>3, QuietKeepsTable
  <2> QED BY <1>3, <2>1, QuietSInv
<1> QED BY <1>1, <1>2, <1>3 DEF WaitThen

\* read() goes on to a place of the same program.
LEMMA ReadThenSInv ==
    ASSUME IInv, IInv', SInv, NEW next, next \subseteq Locations, ReadThen(next),
           Children(current_proc) = {},
           next \cap {"sh_read", "sh_fork", "sh_wait"} # {} =>
               image[current_proc] = pid[current_proc]
    PROVE  SInv'
<1>1. ASSUME NEW l \in next, ReadTake, Goto(l) PROVE SInv'
  <2>1. TableKept
    BY <1>1, QuietKeepsTable
  <2>2. mode = "user" /\ l \in Locations
    BY <1>1 DEF ReadTake, InUser
  <2> QED BY <1>1, <2>1, <2>2, QuietSInv
<1>2. CASE ReadBlock /\ UNCHANGED <<pc, image>>
  <2>1. TableKept
    BY <1>2, QuietKeepsTable
  <2> QED BY <1>2, <2>1, QuietSInv
<1> QED BY <1>1, <1>2 DEF ReadThen

\* A fork() that fails, or an exec() that does, leaves the program without a
\* child.
LEMMA GoOnSInv ==
    ASSUME IInv, IInv', SInv, mode = "user", Children(current_proc) = {},
           NEW l \in {"exit", "sh_read"}, Goto(l),
           l = "sh_read" => image[current_proc] = pid[current_proc],
           ForkAgain \/ UNCHANGED vars
    PROVE  SInv'
<1>1. TableKept
  BY QuietKeepsTable
<1>2. l \in Locations
  BY DEF Locations
<1> QED BY <1>1, <1>2, QuietSInv

\* Every step of the programs and of the kernel preserves the invariant.
LEMMA NextSInv ==
    ASSUME IInv, IInv', SInv, [ShellNext]_shell_vars
    PROVE  SInv'
<1> DEFINE here == pc[current_proc]
<1>u. ASSUME mode = "user", here \notin {"init_wait", "sh_wait"}
      PROVE  Children(current_proc) = {}
  BY <1>u, RunnerFacts
<1>i. ASSUME mode = "user", here \in {"sh_read", "sh_fork", "sh_wait"}
      PROVE  image[current_proc] = pid[current_proc]
  BY <1>i, RunnerFacts
<1>1. CASE init_main
  <2>1. CASE At("init_fork")
    <3>1. mode = "user" /\ Children(current_proc) = {}
      BY <1>u, <2>1 DEF At
    <3>2. CASE ForkTo("init_wait", "init_exec")
      BY <3>1, <3>2, ForkSInv
    <3>3. CASE ForkAgain /\ Goto("exit")
      BY <3>1, <3>3, GoOnSInv
    <3> QED BY <1>1, <2>1, <3>2, <3>3 DEF init_main, At
  <2>2. CASE At("init_exec")
    <3>1. mode = "user" /\ Children(current_proc) = {}
      BY <1>u, <2>2 DEF At
    <3>2. CASE ExecTo(Entry("sh"))
      <4>1. Entry("sh") \in Locations
        BY EntryFacts DEF Programs
      <4> QED BY <3>1, <3>2, <4>1, ExecSInv
    <3>3. CASE ExecFails("exit")
      <4>1. Goto("exit") /\ UNCHANGED vars
        BY <3>3 DEF ExecFails
      <4> QED BY <3>1, <4>1, GoOnSInv
    <3> QED BY <1>1, <2>2, <3>2, <3>3 DEF init_main, At
  <2>3. CASE At("init_wait")
    <3>1. WaitThen("exit")
      BY <1>1, <2>3 DEF init_main, At
    <3> QED BY <3>1, WaitThenSInv
  <2> QED BY <1>1, <2>1, <2>2, <2>3 DEF init_main
<1>2. CASE read_line
  <2>1. /\ mode = "user" /\ Children(current_proc) = {}
        /\ image[current_proc] = pid[current_proc]
    BY <1>2, <1>u, <1>i DEF read_line, At
  <2> DEFINE next == {"sh_read", "exit", "sh_fork"}
  <2>2. ReadThen(next) /\ next \subseteq Locations
    BY <1>2 DEF read_line, Locations
  <2> HIDE DEF next
  <2> QED BY <2>1, <2>2, ReadThenSInv
<1>3. CASE sh_fork
  <2>1. /\ mode = "user" /\ Children(current_proc) = {}
        /\ image[current_proc] = pid[current_proc]
    BY <1>3, <1>u, <1>i DEF sh_fork, At
  <2>2. CASE ForkTo("sh_wait", "sh_exec")
    BY <2>1, <2>2, ForkSInv
  <2>3. CASE ForkAgain /\ Goto("sh_read")
    BY <2>1, <2>3, GoOnSInv
  <2> QED BY <1>3, <2>2, <2>3 DEF sh_fork
<1>4. CASE sh_exec
  <2>1. mode = "user" /\ Children(current_proc) = {}
    BY <1>4, <1>u DEF sh_exec, At
  <2>2. ASSUME NEW p \in Commands, ExecTo(Entry(p)) PROVE SInv'
    <3>1. Entry(p) \in Locations
      BY EntryFacts, CommandsAssumption
    <3> QED BY <2>1, <2>2, <3>1, ExecSInv
  <2>3. CASE ExecFails("sh_read")
    <3>1. Goto("exit") /\ UNCHANGED vars
      BY <2>3 DEF ExecFails
    <3> QED BY <2>1, <3>1, GoOnSInv
  <2> QED BY <1>4, <2>2, <2>3 DEF sh_exec
<1>5. CASE sh_wait
  <2>1. /\ WaitThen("sh_read") /\ image[current_proc] = pid[current_proc]
    BY <1>5, <1>i DEF sh_wait, At
  <2> QED BY <2>1, WaitThenSInv
<1>6. CASE readtest_main
  <2>1. mode = "user" /\ Children(current_proc) = {}
    BY <1>6, <1>u DEF readtest_main, At
  <2> DEFINE next == {"rt_read", "exit"}
  <2>2. /\ ReadThen(next) /\ next \subseteq Locations
        /\ next \cap {"sh_read", "sh_fork", "sh_wait"} = {}
    BY <1>6 DEF readtest_main, Locations
  <2> HIDE DEF next
  <2> QED BY <2>1, <2>2, ReadThenSInv
<1>7. CASE Exits
  <2>1. /\ Children(current_proc) = {} /\ exit_current /\ UNCHANGED <<pc, image>>
    BY <1>7, <1>u DEF Exits, At
  <2> QED BY <2>1, ExitSInv
<1>8. CASE KernelStep
  <2>1. TableKept /\ UNCHANGED <<pc, image>>
    BY <1>8, QuietKeepsTable DEF KernelStep
  <2> QED BY <2>1, QuietSInv
<1>9. CASE UNCHANGED shell_vars
  <2>1. TableKept /\ UNCHANGED <<pc, image>>
    BY <1>9, QuietKeepsTable DEF shell_vars
  <2> QED BY <2>1, QuietSInv
<1> QED
  BY <1>1, <1>2, <1>3, <1>4, <1>5, <1>6, <1>7, <1>8, <1>9
  DEF ShellNext, UserStep, sh_main

\* The kernel's and the programs' invariants hold together.
THEOREM ShellInvariant == ShellSpec => [](IInv /\ SInv)
<1>1. ShellInit => IInv /\ SInv
  BY InitIInv, InitSInv DEF ShellInit
<1>2. IInv /\ SInv /\ [ShellNext]_shell_vars => IInv' /\ SInv'
  BY ShellStepIsStep, NextIInv, NextSInv
<1> QED BY <1>1, <1>2, PTL DEF ShellSpec

\* Two processes that read have no child, so both are the last of the chain.
LEMMA SInvOneReader == IInv /\ SInv => OneReader
<1> SUFFICES ASSUME IInv, SInv PROVE OneReader
  OBVIOUS
<1> DEFINE R == AliveAt({"sh_read", "rt_read"})
<1>1. ASSUME NEW i \in R PROVE
        /\ i \in Slots /\ InUse(i)
        /\ \A j \in Slots : InUse(j) => pid[j] <= pid[i]
  <2>1. i \in Slots /\ InUse(i) /\ Children(i) = {}
    BY <1>1 DEF AliveAt, Alive, InUse, SInv, ParentsWait
  <2> QED BY <2>1, ChildlessIsLast DEF SInv
<1>2. ASSUME NEW i \in R, NEW j \in R PROVE i = j
  <2>1. /\ i \in Slots /\ j \in Slots /\ InUse(i) /\ InUse(j)
        /\ pid[i] <= pid[j] /\ pid[j] <= pid[i]
    BY <1>1
  <2>2. pid[i] \in Nat /\ pid[j] \in Nat
    BY <2>1, SizesAssumption DEF IInv, TypeOK
  <2>3. pid[i] = pid[j]
    BY <2>1, <2>2
  <2> QED BY <2>1, <2>3 DEF IInv, PidsUnique, InUse
<1> HIDE DEF R
<1>3. CASE R = {}
  <2>1. Cardinality({}) = 0
    BY FS_EmptySet
  <2> QED BY <1>3, <2>1 DEF OneReader, R
<1>4. CASE R # {}
  <2>1. PICK i \in R : TRUE
    BY <1>4
  <2>2. R = {i}
    BY <1>2, <2>1
  <2>3. Cardinality({i}) = 1
    BY FS_Singleton
  <2>4. Cardinality(R) = 1
    BY <2>2, <2>3
  <2> QED BY <2>4 DEF OneReader, R
<1> QED BY <1>3, <1>4

\* Only one process at a time reads the console, for every process table and
\* every depth of nested shells.
THEOREM OneReaderAtATime == ShellSpec => []OneReader
BY ShellInvariant, SInvOneReader, PTL

\* No forked copy of init or of a shell ever prompts, runs a command or waits
\* for one in its place.
THEOREM PromptIsAShells == ShellSpec => []OnlyShellsPrompt
<1>1. SInv => OnlyShellsPrompt
  BY DEF SInv
<1> QED BY <1>1, ShellInvariant, PTL

\* Commands use up no process slot: a shell at its prompt has no child left in
\* the table, and nobody in the table has lost the parent that would reap it.
THEOREM NoProcessIsLeftBehind == ShellSpec => []NobodyLeftBehind
<1>1. IInv /\ SInv => NobodyLeftBehind
  BY DEF SInv, NobodyLeftBehind, PromptHasNoChildren, ParentsWait
<1> QED BY <1>1, ShellInvariant, PTL
=============================================================================
