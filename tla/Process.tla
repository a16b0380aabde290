------------------------------ MODULE Process ------------------------------
(***************************************************************************)
(* The process table and the scheduler: kernel/proc/process.c and the      *)
(* process system calls of kernel/arch/riscv/trap_handler.c.               *)
(*                                                                         *)
(* One hart, and the kernel never sets sstatus.SIE: a trap handler runs    *)
(* from its entry to sret (or to the wfi of the idle loop) without being   *)
(* interrupted, so one action is one trap, taken from the user mode of     *)
(* current_proc, or one turn of the idle loop in schedule().               *)
(*                                                                         *)
(* What a process does between two traps is arbitrary, with one exception: *)
(* a blocked system call rewinds sepc by 4, so the first trap a woken      *)
(* process raises itself is that same ecall again (variable ecall).        *)
(*                                                                         *)
(* The console is its number of readable bytes, rx_commit - rx_tail; the   *)
(* ring behind it is module Uart.  Memory is whether an allocation fails.  *)
(***************************************************************************)
EXTENDS Integers, FiniteSets, FiniteSetsExt

CONSTANTS
    MAX_PROCS,      \* slots of process_table
    MAX_PID,        \* bound: the last pid handed out (INT_MAX in the code)
    RX_SIZE,        \* UART_RX_SIZE: the readable bytes the ring can hold
    NULL,           \* the chan of a process that is not blocked
    rx_buf,         \* the channel uart_rx_chan() names
    Failures        \* which of "oom", "bad_elf", "bad_syscall" may happen

ASSUME SizesAssumption ==
    /\ MAX_PROCS \in Nat \ {0}
    /\ RX_SIZE \in Nat \ {0}
    /\ MAX_PID \in Nat \ {0}
    /\ Failures \subseteq {"oom", "bad_elf", "bad_syscall"}

Slots == 0 .. MAX_PROCS - 1

\* A PCB's address is a channel too (SYS_WAIT): it is modelled by the slot.
ASSUME ChannelsAssumption ==
    NULL \notin Slots /\ rx_buf \notin Slots /\ NULL # rx_buf

VARIABLES
    state,          \* process_table[i].state
    pid,            \* process_table[i].pid
    parent_pid,     \* process_table[i].parent_pid
    chan,           \* process_table[i].chan
    ecall,          \* the system call that trap_frame.sepc was rewound to
    current_proc,   \* the slot current_proc points at
    next_pid,
    mode,           \* where the hart is: user mode, the idle loop, a dead end
    stip,           \* sip.STIP: the timer has fired and is not yet re-armed
    readable        \* committed bytes in the UART ring

vars == <<state, pid, parent_pid, chan, ecall, current_proc, next_pid, mode,
          stip, readable>>

States == {"UNUSED", "READY", "RUNNING", "BLOCKED", "ZOMBIE"}
Spins == {"oom_spin", "elf_spin", "syscall_spin"}    \* the for(;;) panics
Modes == {"user", "idle", "halted"} \cup Spins

\* kmain() up to switch_to_user(): init.elf runs in slot 0, everything else
\* is as .bss and proc_init() left it.
Init ==
    /\ state = [i \in Slots |-> IF i = 0 THEN "RUNNING" ELSE "UNUSED"]
    /\ pid = [i \in Slots |-> IF i = 0 THEN 1 ELSE 0]
    /\ parent_pid = [i \in Slots |-> 0]
    /\ chan = [i \in Slots |-> NULL]
    /\ ecall = [i \in Slots |-> "none"]
    /\ current_proc = 0
    /\ next_pid = 2
    /\ mode = "user"
    /\ stip = FALSE
    /\ readable = 0

-----------------------------------------------------------------------------
(* Blocking and waking.                                                    *)

Sleepers(ch) == {i \in Slots : state[i] = "BLOCKED" /\ chan[i] = ch}

\* The state and the chan fields after wakeup(ch), applied to a table st.
wakeup(st, ch) ==
    [i \in Slots |-> IF st[i] = "BLOCKED" /\ chan[i] = ch THEN "READY" ELSE st[i]]

\* Mutant: chan is left behind.
Bug_wakeup_chan(st, ch) == chan

wakeup_chan(st, ch) ==
    [i \in Slots |-> IF st[i] = "BLOCKED" /\ chan[i] = ch THEN NULL ELSE chan[i]]

-----------------------------------------------------------------------------
(* The scheduler.                                                          *)

Ready(st) == {i \in Slots : st[i] = "READY"}

\* How many steps the circular scan that starts after slot from takes to i:
\* 1 .. MAX_PROCS, so the slot it starts from is the last one it looks at.
ScanDistance(from, i) == IF i > from THEN i - from ELSE i - from + MAX_PROCS

\* Mutant: the scan starts at slot 0.
Bug_find_ready(st, from) == Min(Ready(st))

\* The first READY slot of the scan (there is one).
find_ready(st, from) ==
    CHOOSE i \in Ready(st) :
        ScanDistance(from, i) = Min({ScanDistance(from, j) : j \in Ready(st)})

any_blocked(st) == \E i \in Slots : st[i] = "BLOCKED"

\* The loop of schedule(): run the next READY process, or idle while someone
\* is blocked, or shut the machine down.  (Its first branch, keeping a READY
\* current process, is never reached: find_ready() looks at that slot too.)
Dispatch(st) ==
    \/ /\ Ready(st) # {}
       /\ LET next == find_ready(st, current_proc) IN
            /\ state' = [st EXCEPT ![next] = "RUNNING"]
            /\ current_proc' = next
       /\ mode' = "user"
    \/ /\ Ready(st) = {}
       /\ state' = st
       /\ mode' = IF any_blocked(st) THEN "idle" ELSE "halted"
       /\ UNCHANGED current_proc

\* Mutant: the process switched away from stays RUNNING.
Bug_schedule(st) == Dispatch(st)

schedule(st) ==
    Dispatch([i \in Slots |-> IF i = current_proc /\ st[i] = "RUNNING"
                              THEN "READY" ELSE st[i]])

-----------------------------------------------------------------------------
(* Traps from user mode.                                                   *)

\* current_proc is in user mode and may raise the trap e: any trap, unless its
\* sepc was rewound to an ecall, which it then executes again.
InUser(e) == mode = "user" /\ ecall[current_proc] \in {"none", e}

\* sleep_on(ch), sepc -= 4 and schedule(): how a system call e blocks.
Block(ch, e) ==
    /\ chan' = [chan EXCEPT ![current_proc] = ch]
    /\ ecall' = [ecall EXCEPT ![current_proc] = e]
    /\ schedule([state EXCEPT ![current_proc] = "BLOCKED"])

\* A system call that was run again returns: sepc stays past the ecall.
Return == ecall' = [ecall EXCEPT ![current_proc] = "none"]

\* The timer interrupt in user mode: re-arming it clears STIP.
Tick ==
    /\ mode = "user" /\ stip
    /\ stip' = FALSE
    /\ schedule(state)
    /\ UNCHANGED <<pid, parent_pid, chan, ecall, next_pid, readable>>

\* uart_intr() commits lines of k bytes in total and wakes the readers.
UartCommit(k) ==
    /\ readable' = readable + k
    /\ chan' = wakeup_chan(state, rx_buf)

\* Mutants: a line committed without the wakeup; without the check for room.
Bug_CommitNoWakeup ==
    /\ mode = "user"
    /\ \E k \in 1 .. RX_SIZE - readable : readable' = readable + k
    /\ UNCHANGED <<state, pid, parent_pid, chan, ecall, current_proc, next_pid,
                   mode, stip>>

Bug_CommitNoRoom ==
    /\ mode = "user"
    /\ \E k \in 1 .. RX_SIZE : UartCommit(k)
    /\ state' = wakeup(state, rx_buf)
    /\ UNCHANGED <<pid, parent_pid, ecall, current_proc, next_pid, mode, stip>>

\* The external interrupt in user mode resumes the interrupted process.
ExternalInterrupt ==
    /\ mode = "user"
    /\ \E k \in 1 .. RX_SIZE - readable : UartCommit(k)
    /\ state' = wakeup(state, rx_buf)
    /\ UNCHANGED <<pid, parent_pid, ecall, current_proc, next_pid, mode, stip>>

\* alloc_proc(): the first UNUSED slot gets the next pid.
FreeSlots == {i \in Slots : state[i] = "UNUSED"}

TakePid(i) ==
    /\ next_pid <= MAX_PID
    /\ pid' = [pid EXCEPT ![i] = next_pid]
    /\ next_pid' = next_pid + 1

Fork ==
    /\ InUser("fork") /\ FreeSlots # {}
    /\ LET child == Min(FreeSlots) IN
         /\ TakePid(child)
         /\ state' = [state EXCEPT ![child] = "READY"]
         /\ parent_pid' = [parent_pid EXCEPT ![child] = pid[current_proc]]
         /\ ecall' = [ecall EXCEPT ![child] = "none"]
    /\ UNCHANGED <<chan, current_proc, mode, stip, readable>>

\* E_AGAIN: the table is full, or alloc_proc() found no page for the root
\* table or the kernel stack, after it had taken a pid.
ForkAgain ==
    /\ InUser("fork")
    /\ \/ FreeSlots = {} /\ UNCHANGED <<pid, next_pid>>
       \/ FreeSlots # {} /\ "oom" \in Failures /\ TakePid(Min(FreeSlots))
    /\ UNCHANGED <<state, parent_pid, chan, ecall, current_proc, mode, stip,
                   readable>>

\* No page for a table: vmm_map_kernel(), before parent_pid is set, or
\* vmm_copy_uvm(), after it, prints a panic and spins.
ForkPanic ==
    /\ InUser("fork") /\ FreeSlots # {} /\ "oom" \in Failures
    /\ LET child == Min(FreeSlots) IN
         /\ TakePid(child)
         /\ state' = [state EXCEPT ![child] = "READY"]
         /\ \E p \in {0, pid[current_proc]} :
                parent_pid' = [parent_pid EXCEPT ![child] = p]
    /\ mode' = "oom_spin"
    /\ UNCHANGED <<chan, ecall, current_proc, stip, readable>>

\* SYS_EXEC replaces the image and leaves the table alone; without memory, or
\* with an ELF that load_elf() rejects, it spins.
ExecPanic ==
    /\ InUser("exec")
    /\ \/ "oom" \in Failures /\ mode' = "oom_spin"
       \/ "bad_elf" \in Failures /\ mode' = "elf_spin"
    /\ UNCHANGED <<state, pid, parent_pid, chan, ecall, current_proc, next_pid,
                   stip, readable>>

\* A system call number that is not in the switch.
UnknownSyscall ==
    /\ InUser("unknown") /\ "bad_syscall" \in Failures
    /\ mode' = "syscall_spin"
    /\ UNCHANGED <<state, pid, parent_pid, chan, ecall, current_proc, next_pid,
                   stip, readable>>

\* SYS_EXIT and fatal user faults.  The parent, if it is still in the table,
\* sleeps on its own PCB when it sleeps in wait().
ParentSlots(i) ==
    {j \in Slots : pid[j] = parent_pid[i] /\ state[j] # "UNUSED"}

\* Mutants: the parent is not woken; the slot is given up at once.
Bug_ExitNoWakeup ==
    /\ InUser("exit")
    /\ schedule([state EXCEPT ![current_proc] = "ZOMBIE"])
    /\ UNCHANGED <<pid, parent_pid, chan, ecall, next_pid, stip, readable>>

Bug_ExitUnused ==
    /\ InUser("exit")
    /\ schedule([state EXCEPT ![current_proc] = "UNUSED"])
    /\ UNCHANGED <<pid, parent_pid, chan, ecall, next_pid, stip, readable>>

exit_current ==
    /\ InUser("exit")
    /\ LET st == [state EXCEPT ![current_proc] = "ZOMBIE"]
           P  == ParentSlots(current_proc)
       IN \/ P = {} /\ schedule(st) /\ UNCHANGED chan
          \/ /\ P # {}
             /\ chan' = wakeup_chan(st, Min(P))
             /\ schedule(wakeup(st, Min(P)))
    /\ UNCHANGED <<pid, parent_pid, ecall, next_pid, stip, readable>>

\* Mutant: any process in the table counts as a child.
Bug_Children(i) == {j \in Slots : j # i /\ state[j] # "UNUSED"}

Children(i) ==
    {j \in Slots : parent_pid[j] = pid[i] /\ state[j] # "UNUSED"}
Zombies(i) == {j \in Children(i) : state[j] = "ZOMBIE"}

free_proc(i) ==
    /\ state' = [state EXCEPT ![i] = "UNUSED"]
    /\ pid' = [pid EXCEPT ![i] = 0]
    /\ parent_pid' = [parent_pid EXCEPT ![i] = 0]
    /\ chan' = [chan EXCEPT ![i] = NULL]

\* SYS_WAIT: reap the first zombie child, fail without children, or sleep.
WaitReap ==
    /\ InUser("wait") /\ Zombies(current_proc) # {}
    /\ free_proc(Min(Zombies(current_proc)))
    /\ Return
    /\ UNCHANGED <<current_proc, next_pid, mode, stip, readable>>

WaitNoChild ==
    /\ InUser("wait") /\ Children(current_proc) = {}
    /\ Return
    /\ UNCHANGED <<state, pid, parent_pid, chan, current_proc, next_pid, mode,
                   stip, readable>>

\* Mutant: sleep without looking for a zombie first.
Bug_WaitBlock ==
    /\ InUser("wait") /\ Children(current_proc) # {}
    /\ Block(current_proc, "wait")
    /\ UNCHANGED <<pid, parent_pid, next_pid, stip, readable>>

WaitBlock ==
    /\ InUser("wait")
    /\ Children(current_proc) # {} /\ Zombies(current_proc) = {}
    /\ Block(current_proc, "wait")
    /\ UNCHANGED <<pid, parent_pid, next_pid, stip, readable>>

\* SYS_READ of the console with size > 0: take what is there, or sleep.
ReadTake ==
    /\ InUser("read") /\ readable > 0
    /\ \E n \in 1 .. readable : readable' = readable - n
    /\ Return
    /\ UNCHANGED <<state, pid, parent_pid, chan, current_proc, next_pid, mode,
                   stip>>

ReadBlock ==
    /\ InUser("read") /\ readable = 0
    /\ Block(rx_buf, "read")
    /\ UNCHANGED <<pid, parent_pid, next_pid, stip, readable>>

-----------------------------------------------------------------------------
(* The idle loop and the hardware.                                         *)

\* idle_service(): wfi returns for a pending timer or external interrupt, even
\* with SIE clear; both are serviced by hand and the loop scans again.
IdleService ==
    /\ mode = "idle"
    /\ \/ /\ stip
          /\ UNCHANGED <<readable, chan>>
          /\ Dispatch(state)
       \/ /\ \E k \in 1 .. RX_SIZE - readable : UartCommit(k)
          /\ Dispatch(wakeup(state, rx_buf))
    /\ stip' = FALSE
    /\ UNCHANGED <<pid, parent_pid, ecall, next_pid>>

\* The SBI timer armed by sbi_set_timer() expires.
TimerFires ==
    /\ mode \in {"user", "idle"} /\ ~stip
    /\ stip' = TRUE
    /\ UNCHANGED <<state, pid, parent_pid, chan, ecall, current_proc, next_pid,
                   mode, readable>>

\* The for(;;) after SYS_RESET and after every panic message.
Spin == mode \in {"halted"} \cup Spins /\ UNCHANGED vars

Wait == WaitReap \/ WaitNoChild \/ WaitBlock
Read == ReadTake \/ ReadBlock

Next ==
    \/ Tick \/ ExternalInterrupt \/ IdleService \/ TimerFires
    \/ Fork \/ ForkAgain \/ ForkPanic \/ ExecPanic \/ UnknownSyscall
    \/ exit_current \/ Wait \/ Read
    \/ Spin

Spec == Init /\ [][Next]_vars

(***************************************************************************)
(* Fairness.  An armed timer fires and a pending timer interrupt is taken  *)
(* (SIE is set in user mode; the idle loop leaves wfi for it).  A process  *)
(* at a rewound ecall gets to execute it: a tick arms the next one 10 ms   *)
(* ahead, so a process that is scheduled again and again executes its next *)
(* instruction, which strong fairness says.  Nobody is obliged to type, to *)
(* exit or to raise any other system call.                                 *)
(***************************************************************************)
Resume(i) == current_proc = i /\ ecall[i] # "none" /\ (Wait \/ Read)

FairSpec ==
    /\ Spec
    /\ WF_vars(TimerFires) /\ WF_vars(Tick)
    /\ WF_vars(stip /\ IdleService)
    /\ \A i \in Slots : SF_vars(Resume(i))

-----------------------------------------------------------------------------
(* Properties.                                                             *)

\* Every variable holds a value its C type and its uses allow.
TypeOK ==
    /\ state \in [Slots -> States]
    /\ pid \in [Slots -> 0 .. MAX_PID]
    /\ parent_pid \in [Slots -> 0 .. MAX_PID]
    /\ chan \in [Slots -> Slots \cup {NULL, rx_buf}]
    /\ ecall \in [Slots -> {"none", "wait", "read"}]
    /\ current_proc \in Slots
    /\ next_pid \in 2 .. MAX_PID + 1
    /\ mode \in Modes
    /\ stip \in BOOLEAN
    /\ readable \in 0 .. RX_SIZE

\* Whenever the hart may return to user mode exactly one process is RUNNING,
\* the current one, whatever path through schedule() led there; in the idle
\* loop and at shutdown no process is RUNNING or was left READY, and the PCB
\* whose kernel stack schedule() still runs on has not been freed.
RunningIsCurrent ==
    IF mode \in {"idle", "halted"}
    THEN /\ \A i \in Slots : state[i] \notin {"RUNNING", "READY"}
         /\ state[current_proc] # "UNUSED"
    ELSE \A i \in Slots : state[i] = "RUNNING" <=> i = current_proc

\* chan, state and the rewound sepc agree: a process has a channel exactly
\* while it is BLOCKED, the channel is its own PCB in wait() and the ring in
\* read(), and a recycled slot inherits none of the three.
BlockedOnOwnChannel ==
    \A i \in Slots :
        /\ (state[i] = "BLOCKED") <=> (chan[i] # NULL)
        /\ state[i] = "BLOCKED" => \/ chan[i] = i /\ ecall[i] = "wait"
                                   \/ chan[i] = rx_buf /\ ecall[i] = "read"
        /\ state[i] = "ZOMBIE" => ecall[i] = "none"

\* No lost wakeup at the console: nobody sleeps in read() while committed
\* bytes are there to take (the wakeup() in uart_intr() against the check in
\* uart_getc() and the sleep_on() in SYS_READ).
NoReaderSleepsOnInput == Sleepers(rx_buf) # {} => readable = 0

\* No lost wakeup in wait(): whoever sleeps there has a child that is still
\* alive, and none that has exited and was not reaped.
NoWaiterSleepsOnZombie ==
    \A i \in Slots : state[i] = "BLOCKED" /\ chan[i] = i =>
        Children(i) # {} /\ Zombies(i) = {}

\* Pids identify processes: no two slots in use share one, they are below
\* next_pid, and a parent is older than its child.
PidsUnique ==
    \A i \in Slots : state[i] # "UNUSED" =>
        /\ 0 < pid[i] /\ pid[i] < next_pid
        /\ parent_pid[i] < pid[i]
        /\ \A j \in Slots : state[j] # "UNUSED" /\ pid[i] = pid[j] => i = j

\* The PCBs are consistent however often their slots were recycled: pids
\* identify them, and state, channel and rewound system call agree.
TableConsistent == PidsUnique /\ BlockedOnOwnChannel

\* Nobody sleeps beside what it waits for, at the console or in wait().
NoLostWakeups == NoReaderSleepsOnInput /\ NoWaiterSleepsOnZombie

\* The idle loop is never a deadlock of processes waiting for each other: if
\* the kernel idles, somebody waits for the console, so a line typed ends it.
IdleWaitsForConsole == mode = "idle" => Sleepers(rx_buf) # {}

\* Every zombie stays one, under its pid, or is taken by its running parent.
ZombieKept ==
    \A i \in Slots : state[i] = "ZOMBIE" =>
        \/ state'[i] = "ZOMBIE" /\ pid'[i] = pid[i]
        \/ /\ state'[i] = "UNUSED"
           /\ state[current_proc] = "RUNNING"
           /\ parent_pid[i] = pid[current_proc]

\* A zombie keeps its slot and its pid until its own parent, running, reaps
\* it in wait(): no step resurrects it, recycles it early or lets another
\* process collect it.
ZombieStaysForParent == [][ZombieKept]_vars

\* Round robin starves nobody: a READY process runs, whatever the others do
\* short of a panic.
ReadyRuns ==
    \A i \in Slots : state[i] = "READY" ~> state[i] = "RUNNING" \/ mode \in Spins

\* A wait() that is blocked, or about to be run again, returns once a child
\* has exited, unless the kernel panics.
WaitReturns ==
    \A i \in Slots : ecall[i] = "wait" /\ Zombies(i) # {}
                         ~> ecall[i] = "none" \/ mode \in Spins

\* A read() that is blocked, or about to be run again, returns once a line is
\* committed, unless other readers empty the ring first or the kernel panics.
ReadReturns ==
    \A i \in Slots : ecall[i] = "read" /\ readable > 0
                         ~> ecall[i] = "none" \/ readable = 0 \/ mode \in Spins

\* Every blocked system call returns when what it waits for is there.
BlockedCallsReturn == WaitReturns /\ ReadReturns

\* The slots of the process with pid p (at most one, by PidsUnique).
SlotsOf(p) == {i \in Slots : state[i] # "UNUSED" /\ pid[i] = p}

\* What the table says of each pid: pids from next_pid on are unborn, the ones
\* below it that no slot holds were reaped, or lost by a fork that failed.
PhaseOf ==
    [p \in 1 .. MAX_PID |->
        IF p >= next_pid THEN "unborn"
        ELSE IF SlotsOf(p) = {} THEN "gone"
        ELSE IF \E i \in SlotsOf(p) : state[i] = "ZOMBIE" THEN "exited"
        ELSE "alive"]

ParentOf ==
    [p \in 1 .. MAX_PID |->
        IF SlotsOf(p) = {} THEN 0 ELSE parent_pid[Min(SlotsOf(p))]]

Tree == INSTANCE ProcTree WITH
    phase <- PhaseOf, parent <- ParentOf, up <- mode \notin Spins

\* Slot reuse, blocking, wakeups, rewound ecalls, out-of-memory paths and the
\* scheduler together implement the process tree of ProcTree: no pid is ever
\* live twice, every exit is waited for at most once and only by the parent.
ImplementsProcTree == Tree!TreeSpec
=============================================================================
