------------------------------ MODULE TrapPath ------------------------------
(***************************************************************************)
(* The way into the kernel and out again: trap_entry of                     *)
(* kernel/arch/riscv/trap.S, switch_to_user of switch.S, and what           *)
(* trap_handler(), schedule(), alloc_proc() and load_elf() do to the trap   *)
(* frames and the control registers in between.                             *)
(*                                                                         *)
(* The two routines are instruction sequences run on a register file, one   *)
(* instruction a step; "rest" stands for the registers that neither uses.   *)
(* Values are symbols.  The C code is one step: it may clobber every        *)
(* register but sp and its result, a0.                                      *)
(***************************************************************************)
EXTENDS Integers, Sequences

CONSTANT MAX_PROCS      \* bound: slots of process_table (64 in the code)

ASSUME SlotsAssumption == MAX_PROCS \in Nat \ {0}

Slots == 0 .. MAX_PROCS - 1

Regs == {"ra", "sp", "t0", "t1", "a0", "a1", "rest"}
Frame(p) == <<"trap_frame", p>>         \* &process_table[p].trap_frame
KernelStack(p) == <<"kernel_stack", p>> \* its kernel_stack + 4096
Root(p) == <<"page_table", p>>          \* MAKE_SATP(its page_table)
FramePtrs == {Frame(p) : p \in Slots}

VARIABLES
    x,              \* the hart's registers
    csr,            \* sscratch, sepc, sstatus and satp
    upc,            \* the program counter in user mode
    code, pc,       \* the routine the hart is in, and the next instruction
    cause,          \* scause
    frame,          \* process_table[p].trap_frame
    status,         \* process_table[p].state, as far as frames depend on it
    current_proc,
    want            \* history: what process p is to find when it runs again

vars == <<x, csr, upc, code, pc, cause, frame, status, current_proc, want>>

-----------------------------------------------------------------------------
(* The instructions: <<"sd", rs, base, field>>, <<"ld", rd, base, field>>,   *)
(* <<"mv", rd, rs>>, <<"csrr", rd, c>>, <<"csrw", c, rs>>, csrrw, sret, and *)
(* the save or restore of a set of registers in their own fields, whose     *)
(* order does not matter.                                                   *)

Others == {"ra", "a0", "a1", "rest"}

\* Mutant: t1 is used to read sscratch before it has been saved.
Bug_trap_entry ==
    << <<"csrrw", "t0", "sscratch">>,
       <<"csrr", "t1", "sscratch">>, <<"sd", "t1", "t0", "t0">>,
       <<"save", {"ra", "sp", "t1"}, "t0">>,
       <<"save", {"a0", "a1", "rest"}, "t0">>,
       <<"csrr", "t1", "sepc">>, <<"sd", "t1", "t0", "sepc">>,
       <<"csrr", "t1", "sstatus">>, <<"sd", "t1", "t0", "sstatus">>,
       <<"mv", "a0", "t0">>, <<"ld", "sp", "t0", "kernel_sp">> >>

\* trap_entry up to the call of trap_handler().
trap_entry ==
    << <<"csrrw", "t0", "sscratch">>,
       <<"save", {"ra", "sp", "t1"}, "t0">>,
       <<"csrr", "t1", "sscratch">>, <<"sd", "t1", "t0", "t0">>,
       <<"save", {"a0", "a1", "rest"}, "t0">>,
       <<"csrr", "t1", "sepc">>, <<"sd", "t1", "t0", "sepc">>,
       <<"csrr", "t1", "sstatus">>, <<"sd", "t1", "t0", "sstatus">>,
       <<"mv", "a0", "t0">>, <<"ld", "sp", "t0", "kernel_sp">> >>

\* Mutant: sstatus is not restored, so a system call leaves SUM set.
Bug_trap_exit ==
    << <<"mv", "t0", "a0">>,
       <<"ld", "t1", "t0", "sepc">>, <<"csrw", "sepc", "t1">>,
       <<"restore", Others \cup {"t1"}, "t0">>,
       <<"ld", "sp", "t0", "sp">>, <<"csrw", "sscratch", "t0">>,
       <<"ld", "t0", "t0", "t0">>, <<"sret">> >>

\* trap_entry after the call.
trap_exit ==
    << <<"mv", "t0", "a0">>,
       <<"ld", "t1", "t0", "sepc">>, <<"csrw", "sepc", "t1">>,
       <<"ld", "t1", "t0", "sstatus">>, <<"csrw", "sstatus", "t1">>,
       <<"restore", Others \cup {"t1"}, "t0">>,
       <<"ld", "sp", "t0", "sp">>, <<"csrw", "sscratch", "t0">>,
       <<"ld", "t0", "t0", "t0">>, <<"sret">> >>

\* switch_to_user(), called once, by kmain(): SPP and SUM off, SPIE on.
switch_to_user ==
    << <<"csrw", "sscratch", "a0">>,
       <<"ld", "t0", "a0", "sepc">>, <<"csrw", "sepc", "t0">>,
       <<"csrr", "t0", "sstatus">>, <<"to_user", "t0">>, <<"csrw", "sstatus", "t0">>,
       <<"csrw", "satp", "a1">>,
       <<"restore", Regs \ {"a0"}, "a0">>, <<"ld", "a0", "a0", "a0">>, <<"sret">> >>

Code == [entry |-> trap_entry, exit |-> trap_exit, switch |-> switch_to_user]

-----------------------------------------------------------------------------
ZeroFrame == [f \in Regs \cup {"sepc", "sstatus", "kernel_sp"} |-> 0]
UserBits == [SPP |-> FALSE, SPIE |-> TRUE, SIE |-> FALSE, SUM |-> FALSE]
Entry == <<"entry", 0>>         \* e_entry

\* alloc_proc(), then load_elf().
NewFrame(p) == [ZeroFrame EXCEPT !.kernel_sp = KernelStack(p)]
Loaded(f) == [f EXCEPT !.sepc = Entry, !.sp = "stack_top"]

\* What a process finds, as a frame has it.
Image(f) == [r \in Regs |-> f[r]]

\* kmain(): init.elf is loaded into slot 0.  entry.S cleared the other PCBs.
Init ==
    /\ frame = [p \in Slots |-> IF p = 0 THEN Loaded(NewFrame(0)) ELSE ZeroFrame]
    /\ status = [p \in Slots |-> IF p = 0 THEN "live" ELSE "free"]
    /\ current_proc = 0
    /\ x = [[r \in Regs |-> "kernel"] EXCEPT !.a0 = Frame(0), !.a1 = Root(0)]
    /\ \E spie, sum \in BOOLEAN :
         csr = [sscratch |-> "g_tf", sepc |-> 0, satp |-> "root_pt",
                sstatus |-> [SPP |-> TRUE, SPIE |-> spie, SIE |-> FALSE, SUM |-> sum]]
    /\ upc = 0 /\ cause = "none"
    /\ code = "switch" /\ pc = 1
    /\ want = [p \in Slots |-> [regs |-> Image(Loaded(ZeroFrame)), pc |-> Entry]]

-----------------------------------------------------------------------------
(* The hart.                                                               *)

\* A process computes: every register and the program counter may change.
UserRuns ==
    /\ code = "user"
    /\ \E v \in {1, 2} :
         /\ x' = [r \in Regs |-> <<r, current_proc, v>>]
         /\ upc' = <<current_proc, 8 * v>>
    /\ want' = [want EXCEPT ![current_proc] = [regs |-> x', pc |-> upc']]
    /\ UNCHANGED <<csr, code, pc, cause, frame, status, current_proc>>

\* A trap: the hardware saves pc and sstatus and jumps to stvec.  (Bound: no
\* program has two ecalls in a row; the library moves a0 after each.)
Trap(c) ==
    /\ code = "user" /\ (c = "ecall" => upc[2] % 8 = 0)
    /\ cause' = c /\ upc' = 0
    /\ csr' = [csr EXCEPT !.sepc = upc, !.sstatus.SPP = FALSE,
                          !.sstatus.SPIE = csr.sstatus.SIE, !.sstatus.SIE = FALSE]
    /\ code' = "entry" /\ pc' = 1
    /\ UNCHANGED <<x, frame, status, current_proc, want>>

Instr == Code[code][pc]

\* The frame the base register of a load or a store points to.
Base(r) == x[r][2]
IsFrame(r) == x[r] \in FramePtrs

Execute ==
    CASE Instr[1] = "csrrw" ->
           /\ x' = [x EXCEPT !["t0"] = csr.sscratch]
           /\ csr' = [csr EXCEPT !.sscratch = x["t0"]]
           /\ UNCHANGED frame
      [] Instr[1] = "mv" ->
           x' = [x EXCEPT ![Instr[2]] = x[Instr[3]]] /\ UNCHANGED <<csr, frame>>
      [] Instr[1] = "csrr" ->
           x' = [x EXCEPT ![Instr[2]] = csr[Instr[3]]] /\ UNCHANGED <<csr, frame>>
      [] Instr[1] = "csrw" ->
           csr' = [csr EXCEPT ![Instr[2]] = x[Instr[3]]] /\ UNCHANGED <<x, frame>>
      [] Instr[1] = "to_user" ->
           /\ x' = [x EXCEPT ![Instr[2]] =
                      [@ EXCEPT !.SPP = FALSE, !.SPIE = TRUE, !.SUM = FALSE]]
           /\ UNCHANGED <<csr, frame>>
      [] Instr[1] = "sd" ->
           /\ IsFrame(Instr[3])
           /\ frame' = [frame EXCEPT ![Base(Instr[3])][Instr[4]] = x[Instr[2]]]
           /\ UNCHANGED <<x, csr>>
      [] Instr[1] = "ld" ->
           /\ IsFrame(Instr[3])
           /\ x' = [x EXCEPT ![Instr[2]] = frame[Base(Instr[3])][Instr[4]]]
           /\ UNCHANGED <<csr, frame>>
      [] Instr[1] = "save" ->
           /\ IsFrame(Instr[3])
           /\ frame' = [frame EXCEPT ![Base(Instr[3])] =
                 [f \in DOMAIN @ |-> IF f \in Instr[2] THEN x[f] ELSE @[f]]]
           /\ UNCHANGED <<x, csr>>
      [] Instr[1] = "restore" ->
           /\ IsFrame(Instr[3])
           /\ x' = [r \in Regs |->
                      IF r \in Instr[2] THEN frame[Base(Instr[3])][r] ELSE x[r]]
           /\ UNCHANGED <<csr, frame>>

\* One instruction; after the last of trap_entry, trap_handler() is called.
Step ==
    /\ code \in DOMAIN Code /\ Instr[1] # "sret"
    /\ Execute
    /\ IF pc < Len(Code[code]) THEN pc' = pc + 1 /\ UNCHANGED code
                               ELSE pc' = 0 /\ code' = "handler"
    /\ UNCHANGED <<upc, cause, status, current_proc, want>>

\* sret: back to user mode at sepc, with the interrupt enable SPIE held.
Sret ==
    /\ code \in DOMAIN Code /\ Instr[1] = "sret"
    /\ ~csr.sstatus.SPP
    /\ upc' = csr.sepc
    /\ csr' = [csr EXCEPT !.sstatus.SIE = csr.sstatus.SPIE, !.sstatus.SPIE = TRUE]
    /\ code' = "user" /\ pc' = 0
    /\ UNCHANGED <<x, cause, frame, status, current_proc, want>>

-----------------------------------------------------------------------------
(* trap_handler().  tf is its argument, next the process whose frame it      *)
(* returns, fr the frames and satp the root it leaves; an ecall sets        *)
(* sstatus.SUM.                                                            *)

tf == Base("a0")

Handler(c) == code = "handler" /\ cause = c

Leave(fr, next, satp) ==
    /\ frame' = fr
    /\ current_proc' = next
    /\ x' = [[r \in Regs |-> "clobbered"] EXCEPT !.sp = x.sp, !.a0 = Frame(next)]
    /\ csr' = [csr EXCEPT !.satp = satp,
                          !.sstatus.SUM = @ \/ cause = "ecall"]
    /\ code' = "exit" /\ pc' = 1
    /\ cause' = "none"
    /\ UNCHANGED upc

\* schedule() saves tf in the PCB of current_proc before it switches, to any
\* process as far as this module is concerned.
Saved(fr) == [fr EXCEPT ![current_proc] = fr[tf]]
Live == {p \in Slots : status[p] = "live"}

\* satp is written only for the process find_ready() returned; when nothing
\* else is ready the current process is kept as it is.
schedule(next) ==
    \/ next = current_proc /\ Leave(Saved(frame), next, csr.satp)
    \/ Leave(Saved(frame), next, Root(next))

Skip(ecall) == <<ecall[1], ecall[2] + 4>>       \* sepc += 4

\* The external interrupt returns tf, the timer interrupt schedules.
External ==
    /\ Handler("external")
    /\ Leave(frame, current_proc, csr.satp)
    /\ UNCHANGED <<status, want>>

Tick ==
    /\ Handler("timer")
    /\ \E next \in Live : schedule(next)
    /\ UNCHANGED <<status, want>>

\* A system call that ends with a result in a0.
ReturnsTo(fr, res) == [fr EXCEPT ![tf].sepc = Skip(@), ![tf].a0 = res]
Finds(w, res) == [regs |-> [w.regs EXCEPT !.a0 = res], pc |-> Skip(w.pc)]

Syscall ==
    /\ Handler("ecall")
    /\ Leave(ReturnsTo(frame, "result"), current_proc, csr.satp)
    /\ want' = [want EXCEPT ![current_proc] = Finds(@, "result")]
    /\ UNCHANGED status

\* SYS_WAIT with a zombie: free_proc() recycles its slot.
Reap ==
    /\ Handler("ecall")
    /\ \E z \in Slots : status[z] = "zombie" /\ status' = [status EXCEPT ![z] = "free"]
    /\ Leave(ReturnsTo(frame, "pid"), current_proc, csr.satp)
    /\ want' = [want EXCEPT ![current_proc] = Finds(@, "pid")]

\* SYS_WAIT or SYS_READ that sleeps: sepc is moved on, and back again.
Block ==
    /\ Handler("ecall")
    /\ \E next \in Live : schedule(next)
    /\ UNCHANGED <<status, want>>

\* Mutant: the child gets the parent's kernel stack.
Bug_ChildFrame(c) == [frame[tf] EXCEPT !.sepc = Skip(@), !.a0 = 0]

\* The child's frame is the parent's, with its own kernel stack and a0 = 0.
ChildFrame(c) ==
    [frame[tf] EXCEPT !.sepc = Skip(@), !.a0 = 0,
                      !.kernel_sp = NewFrame(c).kernel_sp]

Fork ==
    /\ Handler("ecall")
    /\ \E c \in Slots :
         /\ status[c] = "free"
         /\ status' = [status EXCEPT ![c] = "live"]
         /\ Leave([ReturnsTo(Saved(frame), "pid") EXCEPT ![c] = ChildFrame(c)],
                  current_proc, csr.satp)
         /\ want' = [want EXCEPT ![current_proc] = Finds(@, "pid"),
                                 ![c] = Finds(want[current_proc], 0)]

\* SYS_EXEC: load_elf() sets sepc and sp, everything else stays; the new
\* root is written to satp.
Exec ==
    /\ Handler("ecall")
    /\ Leave([frame EXCEPT ![current_proc] = Loaded(@)], current_proc,
             Root(current_proc))
    /\ want' = [want EXCEPT ![current_proc] =
                  [regs |-> [@.regs EXCEPT !.sp = "stack_top"], pc |-> Entry]]
    /\ UNCHANGED status

\* SYS_EXIT or a fault, while another process can run.
Exit ==
    /\ code = "handler" /\ cause \in {"ecall", "fault"}
    /\ status' = [status EXCEPT ![current_proc] = "zombie"]
    /\ \E next \in Live \ {current_proc} : schedule(next)
    /\ UNCHANGED want

\* The last process is gone: the machine halts.
Halt ==
    /\ code = "handler" /\ cause \in {"ecall", "fault"}
    /\ Live = {current_proc}
    /\ code' = "halted"
    /\ UNCHANGED <<x, csr, upc, pc, cause, frame, status, current_proc, want>>

Halted == code = "halted" /\ UNCHANGED vars

trap_handler == External \/ Tick \/ Syscall \/ Reap \/ Block \/ Fork \/ Exec \/ Exit \/ Halt

Next ==
    \/ UserRuns \/ Step \/ Sret \/ trap_handler \/ Halted
    \/ \E c \in {"ecall", "timer", "external", "fault"} : Trap(c)

Spec == Init /\ [][Next]_vars

-----------------------------------------------------------------------------
(* Properties.                                                             *)

\* The machine's registers, frames and control state have the shape the code
\* gives them, and an address register of a running routine holds a frame.
TypeOK ==
    /\ DOMAIN x = Regs
    /\ DOMAIN csr = {"sscratch", "sepc", "sstatus", "satp"}
    /\ code \in {"user", "handler", "halted"} \cup DOMAIN Code
    /\ code \in DOMAIN Code => pc \in 1 .. Len(Code[code])
    /\ \A p \in Slots : DOMAIN frame[p] = DOMAIN ZeroFrame
    /\ status \in [Slots -> {"free", "live", "zombie"}]
    /\ current_proc \in Slots
    /\ code = "handler" => x.a0 \in FramePtrs

\* Whatever the kernel did in between, for this process and for others, a
\* process that runs again finds its own registers and program counter:
\* those it had, except for the result a system call leaves in a0, the ecall
\* it moves past, and what exec() sets.
ResumesWithOwnRegisters ==
    code = "user" => x = want[current_proc].regs /\ upc = want[current_proc].pc

\* User mode is entered ready for the next trap and confined: sscratch has the
\* frame of the process that runs, satp its address space, interrupts are on,
\* and SUM, which every system call sets, is off ("never let U-mode run with
\* SUM set").
UserModeConfined ==
    code = "user" =>
        /\ csr.sscratch = Frame(current_proc)
        /\ csr.satp = Root(current_proc)
        /\ csr.sstatus.SIE /\ ~csr.sstatus.SUM

\* trap_handler() runs on the kernel stack of the process that trapped, with
\* that process's frame, and no two processes share a kernel stack.
HandlerOnOwnStack ==
    /\ code = "handler" =>
         x.sp = KernelStack(current_proc) /\ x.a0 = Frame(current_proc)
    /\ \A p, q \in Slots : p # q /\ status[p] # "free" /\ status[q] # "free" =>
         frame[p].kernel_sp # frame[q].kernel_sp

\* The kernel's side of a trap is in order: registers and frames have their
\* shape, and the handler its own stack, whoever trapped before.
KernelWellFormed == TypeOK /\ HandlerOnOwnStack
=============================================================================
