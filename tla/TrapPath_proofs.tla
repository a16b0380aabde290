-------------------------- MODULE TrapPath_proofs --------------------------
(***************************************************************************)
(* Proofs about module TrapPath, for every number of process slots: the     *)
(* invariant says, for each instruction of trap_entry, of its way back and  *)
(* of switch_to_user, which registers and which fields of the frame already *)
(* (or still) hold what the process had.                                    *)
(***************************************************************************)
EXTENDS TrapPath, TLAPS

\* The control registers, the words of a trap frame and the fields of sstatus.
CSRs == {"sscratch", "sepc", "sstatus", "satp"}
Fields == Regs \cup {"sepc", "sstatus", "kernel_sp"}
Sstatus == [SPP : BOOLEAN, SPIE : BOOLEAN, SIE : BOOLEAN, SUM : BOOLEAN]

\* sstatus as the hardware leaves it at a trap from user mode, and as sret
\* needs it to go there with interrupts on and SUM off.
UserStatus(s) == s \in Sstatus /\ ~s.SPP /\ s.SPIE /\ ~s.SIE /\ ~s.SUM

\* The registers, the control registers and the tables have their shape.
Shape ==
    /\ x = [r \in Regs |-> x[r]]
    /\ csr = [c \in CSRs |-> csr[c]]
    /\ csr.sstatus \in Sstatus
    /\ frame = [p \in Slots |-> frame[p]]
    /\ \A p \in Slots : frame[p] = [f \in Fields |-> frame[p][f]]
    /\ want = [p \in Slots |-> want[p]]
    /\ \A p \in Slots : /\ want[p] = [i \in {"regs", "pc"} |-> want[p][i]]
                        /\ want[p].regs = [r \in Regs |-> want[p].regs[r]]
    /\ status \in [Slots -> {"free", "live", "zombie"}]
    /\ current_proc \in Slots /\ status[current_proc] = "live"

\* The frame f holds what process p is to find.
HoldsRegs(f, p) == (\A r \in Regs : f[r] = want[p].regs[r]) /\ f.sepc = want[p].pc
\* Process p's trap frame is complete.
Holds(p) == HoldsRegs(frame[p], p) /\ UserStatus(frame[p].sstatus)

\* What is true of the processes the hart is not in.
Parked ==
    /\ \A p \in Slots : status[p] # "free" => frame[p].kernel_sp = KernelStack(p)
    /\ \A p \in Slots : status[p] = "live" /\ p # current_proc => Holds(p)

\* Abbreviations for the process the hart is in.
MyFrame == frame[current_proc]
\* What the running process expects to find.
Mine == want[current_proc].regs

\* In user mode.
InUserMode ==
    /\ x = Mine /\ upc = want[current_proc].pc
    /\ csr.sscratch = Frame(current_proc) /\ csr.satp = Root(current_proc)
    /\ ~csr.sstatus.SPP /\ csr.sstatus.SPIE /\ csr.sstatus.SIE /\ ~csr.sstatus.SUM

\* Before instruction pc of trap_entry.
InEntry ==
    /\ pc \in 1 .. 11
    /\ csr.sepc = want[current_proc].pc /\ csr.satp = Root(current_proc)
    /\ UserStatus(csr.sstatus)
    /\ pc = 1 => csr.sscratch = Frame(current_proc) /\ x["t0"] = Mine["t0"]
    /\ pc > 1 => csr.sscratch = Mine["t0"] /\ x["t0"] = Frame(current_proc)
    /\ pc <= 2 => \A r \in {"ra", "sp", "t1"} : x[r] = Mine[r]
    /\ pc <= 5 => \A r \in {"a0", "a1", "rest"} : x[r] = Mine[r]
    /\ pc > 2 => \A r \in {"ra", "sp", "t1"} : MyFrame[r] = Mine[r]
    /\ pc = 4 => x["t1"] = Mine["t0"]
    /\ pc > 4 => MyFrame["t0"] = Mine["t0"]
    /\ pc > 5 => \A r \in {"a0", "a1", "rest"} : MyFrame[r] = Mine[r]
    /\ pc = 7 => x["t1"] = want[current_proc].pc
    /\ pc > 7 => MyFrame.sepc = want[current_proc].pc
    /\ pc = 9 => UserStatus(x["t1"])
    /\ pc > 9 => UserStatus(MyFrame.sstatus)
    /\ pc > 10 => x["a0"] = Frame(current_proc)

\* In trap_handler().
InHandler ==
    /\ x["sp"] = KernelStack(current_proc) /\ x["a0"] = Frame(current_proc)
    /\ csr.satp = Root(current_proc)
    /\ Holds(current_proc)

\* Before instruction pc of the way back.
InExit ==
    /\ pc \in 1 .. 10
    /\ csr.satp = Root(current_proc)
    /\ Holds(current_proc)
    /\ pc = 1 => x["a0"] = Frame(current_proc)
    /\ pc \in 2 .. 9 => x["t0"] = Frame(current_proc)
    /\ pc = 3 => x["t1"] = want[current_proc].pc
    /\ pc > 3 => csr.sepc = want[current_proc].pc
    /\ pc = 5 => UserStatus(x["t1"])
    /\ pc > 5 => UserStatus(csr.sstatus)
    /\ pc > 6 => \A r \in {"ra", "a0", "a1", "rest", "t1"} : x[r] = Mine[r]
    /\ pc > 7 => x["sp"] = Mine["sp"]
    /\ pc > 8 => csr.sscratch = Frame(current_proc)
    /\ pc > 9 => x["t0"] = Mine["t0"]

\* Before instruction pc of switch_to_user, on the way to the first process.
InSwitch ==
    /\ pc \in 1 .. 10
    /\ HoldsRegs(MyFrame, current_proc)
    /\ pc < 10 => x["a0"] = Frame(current_proc)
    /\ pc < 8 => x["a1"] = Root(current_proc)
    /\ pc > 1 => csr.sscratch = Frame(current_proc)
    /\ pc = 3 => x["t0"] = want[current_proc].pc
    /\ pc > 3 => csr.sepc = want[current_proc].pc
    /\ pc < 7 => ~csr.sstatus.SIE
    /\ pc = 5 => x["t0"] \in Sstatus /\ ~x["t0"].SIE
    /\ pc = 6 => UserStatus(x["t0"])
    /\ pc > 6 => UserStatus(csr.sstatus)
    /\ pc > 7 => csr.satp = Root(current_proc)
    /\ pc > 8 => \A r \in Regs \ {"a0"} : x[r] = Mine[r]
    /\ pc > 9 => x["a0"] = Mine["a0"]

\* The inductive invariant.
PathInv ==
    /\ Shape /\ Parked
    /\ code \in {"user", "handler", "halted", "entry", "exit", "switch"}
    /\ code = "user" => InUserMode
    /\ code = "entry" => InEntry
    /\ code = "handler" => InHandler
    /\ code = "exit" => InExit
    /\ code = "switch" => InSwitch
-----------------------------------------------------------------------------
(* What the instructions do.                                               *)

\* A frame's address determines its process.
LEMMA FrameOf ==
    ASSUME NEW p \in Slots, NEW r, x[r] = Frame(p)
    PROVE  IsFrame(r) /\ Base(r) = p
BY DEF IsFrame, Base, Frame, FramePtrs

\* The swap of t0 and sscratch that opens trap_entry.
LEMMA Csrrw ==
    ASSUME Execute, NEW rd, NEW c, Instr = <<"csrrw", rd, c>>
    PROVE  /\ x' = [x EXCEPT !["t0"] = csr.sscratch]
           /\ csr' = [csr EXCEPT !.sscratch = x["t0"]]
           /\ frame' = frame
BY DEF Execute

\* A move changes one register.
LEMMA Mv ==
    ASSUME Execute, NEW rd, NEW rs, Instr = <<"mv", rd, rs>>
    PROVE  x' = [x EXCEPT ![rd] = x[rs]] /\ csr' = csr /\ frame' = frame
BY DEF Execute

\* A control register read into a register.
LEMMA Csrr ==
    ASSUME Execute, NEW rd, NEW c, Instr = <<"csrr", rd, c>>
    PROVE  x' = [x EXCEPT ![rd] = csr[c]] /\ csr' = csr /\ frame' = frame
BY DEF Execute

\* A register written to a control register.
LEMMA Csrw ==
    ASSUME Execute, NEW c, NEW rs, Instr = <<"csrw", c, rs>>
    PROVE  x' = x /\ csr' = [csr EXCEPT ![c] = x[rs]] /\ frame' = frame
BY DEF Execute

\* The three csr bit operations of switch_to_user.
LEMMA ToUser ==
    ASSUME Execute, NEW rd, Instr = <<"to_user", rd>>
    PROVE  /\ x' = [x EXCEPT ![rd] =
                      [@ EXCEPT !.SPP = FALSE, !.SPIE = TRUE, !.SUM = FALSE]]
           /\ csr' = csr /\ frame' = frame
BY DEF Execute

\* A load from a field of process p's frame.
LEMMA Ld ==
    ASSUME Execute, NEW rd, NEW rs, NEW f, NEW p \in Slots,
           Instr = <<"ld", rd, rs, f>>, x[rs] = Frame(p)
    PROVE  x' = [x EXCEPT ![rd] = frame[p][f]] /\ csr' = csr /\ frame' = frame
<1>1. Base(rs) = p
  BY FrameOf
<1> QED BY <1>1 DEF Execute

\* The loads of a set of registers from p's frame.
LEMMA Restore ==
    ASSUME Execute, NEW S, NEW rs, NEW p \in Slots,
           Instr = <<"restore", S, rs>>, x[rs] = Frame(p)
    PROVE  /\ x' = [r \in Regs |-> IF r \in S THEN frame[p][r] ELSE x[r]]
           /\ csr' = csr /\ frame' = frame
<1>1. Base(rs) = p
  BY FrameOf
<1> QED BY <1>1 DEF Execute

\* A store into a field of p's frame.
LEMMA Sd ==
    ASSUME Execute, NEW rs, NEW rb, NEW f, NEW p \in Slots,
           Instr = <<"sd", rs, rb, f>>, x[rb] = Frame(p)
    PROVE  x' = x /\ csr' = csr /\ frame' = [frame EXCEPT ![p][f] = x[rs]]
<1>1. Base(rb) = p
  BY FrameOf
<1> QED BY <1>1 DEF Execute

\* The stores of a set of registers into p's frame.
LEMMA Save ==
    ASSUME Execute, NEW S, NEW rb, NEW p \in Slots,
           Instr = <<"save", S, rb>>, x[rb] = Frame(p)
    PROVE  /\ x' = x /\ csr' = csr
           /\ frame' = [frame EXCEPT ![p] =
                 [f \in DOMAIN @ |-> IF f \in S THEN x[f] ELSE @[f]]]
<1>1. Base(rb) = p
  BY FrameOf
<1> QED BY <1>1 DEF Execute
-----------------------------------------------------------------------------
\* An instruction that stores at most into the current process's frame, and
\* not over its kernel_sp, leaves the parked processes alone.
LEMMA StaysParked ==
    ASSUME Shape, Parked, UNCHANGED <<status, current_proc, want>>,
           x' = [r \in Regs |-> x'[r]],
           csr' = [c \in CSRs |-> csr'[c]], csr'.sstatus \in Sstatus,
           frame' = [p \in Slots |-> frame'[p]],
           MyFrame' = [f \in Fields |-> MyFrame'[f]],
           MyFrame'.kernel_sp = MyFrame.kernel_sp,
           \A p \in Slots : p # current_proc => frame'[p] = frame[p]
    PROVE  Shape' /\ Parked'
<1>1. Shape'
  BY DEF Shape, MyFrame
<1>2. \A p \in Slots : status[p] # "free" => frame'[p].kernel_sp = KernelStack(p)
  BY DEF Parked, MyFrame
<1>3. \A p \in Slots : status[p] = "live" /\ p # current_proc => Holds(p)'
  BY DEF Parked, Holds, HoldsRegs
<1> QED BY <1>1, <1>2, <1>3 DEF Parked

\* The same for an instruction that stores nothing.
LEMMA StaysParkedNoStore ==
    ASSUME Shape, Parked, UNCHANGED <<status, current_proc, want, frame>>,
           x' = [r \in Regs |-> x'[r]],
           csr' = [c \in CSRs |-> csr'[c]], csr'.sstatus \in Sstatus
    PROVE  Shape' /\ Parked' /\ MyFrame' = MyFrame
<1>1. MyFrame' = MyFrame
  BY DEF MyFrame
<1>2. MyFrame = [f \in Fields |-> MyFrame[f]] /\ frame = [p \in Slots |-> frame[p]]
  BY DEF Shape, MyFrame
<1> QED BY <1>1, <1>2, StaysParked

\* sd into a field of the current frame.
LEMMA SdParked ==
    ASSUME Shape, Parked, UNCHANGED <<status, current_proc, want, x, csr>>,
           NEW f \in Fields \ {"kernel_sp"}, NEW v,
           frame' = [frame EXCEPT ![current_proc][f] = v]
    PROVE  /\ Shape' /\ Parked'
           /\ \A g \in Fields : MyFrame'[g] = IF g = f THEN v ELSE MyFrame[g]
<1>1. /\ frame' = [p \in Slots |-> frame'[p]]
      /\ \A p \in Slots : p # current_proc => frame'[p] = frame[p]
      /\ MyFrame' = [MyFrame EXCEPT ![f] = v]
  BY DEF Shape, MyFrame
<1>2. MyFrame = [g \in Fields |-> MyFrame[g]]
  BY DEF Shape, MyFrame
<1>3. /\ MyFrame' = [g \in Fields |-> MyFrame'[g]]
      /\ \A g \in Fields : MyFrame'[g] = IF g = f THEN v ELSE MyFrame[g]
  BY <1>1, <1>2
<1>4. MyFrame'.kernel_sp = MyFrame.kernel_sp
  BY <1>3 DEF Fields
<1>5. /\ x' = [r \in Regs |-> x'[r]]
      /\ csr' = [c \in CSRs |-> csr'[c]] /\ csr'.sstatus \in Sstatus
  BY DEF Shape
<1> QED BY <1>1, <1>3, <1>4, <1>5, StaysParked

\* A set of registers saved in the current frame.
LEMMA SaveParked ==
    ASSUME Shape, Parked, UNCHANGED <<status, current_proc, want, x, csr>>,
           NEW S \in SUBSET Regs,
           frame' = [frame EXCEPT ![current_proc] =
                 [f \in DOMAIN @ |-> IF f \in S THEN x[f] ELSE @[f]]]
    PROVE  /\ Shape' /\ Parked'
           /\ \A g \in Fields : MyFrame'[g] = IF g \in S THEN x[g] ELSE MyFrame[g]
<1>1. /\ frame' = [p \in Slots |-> frame'[p]]
      /\ \A p \in Slots : p # current_proc => frame'[p] = frame[p]
      /\ MyFrame' = [f \in DOMAIN MyFrame |-> IF f \in S THEN x[f] ELSE MyFrame[f]]
  BY DEF Shape, MyFrame
<1>2. DOMAIN MyFrame = Fields
  BY DEF Shape, MyFrame
<1>3. /\ MyFrame' = [g \in Fields |-> MyFrame'[g]]
      /\ \A g \in Fields : MyFrame'[g] = IF g \in S THEN x[g] ELSE MyFrame[g]
  BY <1>1, <1>2
<1>4. MyFrame'.kernel_sp = MyFrame.kernel_sp
  BY <1>3 DEF Fields, Regs
<1>5. /\ x' = [r \in Regs |-> x'[r]]
      /\ csr' = [c \in CSRs |-> csr'[c]] /\ csr'.sstatus \in Sstatus
  BY DEF Shape
<1> QED BY <1>1, <1>3, <1>4, <1>5, StaysParked
-----------------------------------------------------------------------------
(* trap_entry, instruction by instruction.                                 *)

\* Each instruction establishes what InEntry says of the next one.
LEMMA EntryStep ==
    ASSUME PathInv, code = "entry", Step
    PROVE  PathInv'
<1>0. /\ Shape /\ Parked /\ InEntry /\ Execute
      /\ UNCHANGED <<upc, cause, status, current_proc, want>>
  BY DEF PathInv, Step
<1>s. /\ current_proc \in Slots /\ current_proc' = current_proc
      /\ x = [r \in Regs |-> x[r]]
      /\ csr = [c \in CSRs |-> csr[c]] /\ csr.sstatus \in Sstatus
  BY <1>0 DEF Shape
<1>m. Mine' = Mine /\ want' = want
  BY <1>0 DEF Mine
<1>l. Instr = trap_entry[pc] /\ Len(Code[code]) = 11
  BY DEF Instr, Code, trap_entry
<1>n. /\ pc \in 1 .. 11
      /\ pc # 11 => pc' = pc + 1 /\ code' = "entry"
      /\ pc = 11 => code' = "handler"
  BY <1>0, <1>l DEF Step, InEntry
<1> DEFINE Done == Shape' /\ Parked' /\ (pc # 11 => InEntry') /\ (pc = 11 => InHandler')
<1>d. SUFFICES Done
  BY <1>n DEF PathInv
<1>1. CASE pc = 1
  <2>1. Instr = <<"csrrw", "t0", "sscratch">>
    BY <1>l, <1>1 DEF trap_entry
  <2>2. /\ x' = [x EXCEPT !["t0"] = csr.sscratch]
        /\ csr' = [csr EXCEPT !.sscratch = x["t0"]] /\ frame' = frame
    BY <1>0, <2>1, Csrrw
  <2>3. /\ x' = [r \in Regs |-> IF r = "t0" THEN csr.sscratch ELSE x[r]]
        /\ csr' = [c \in CSRs |-> IF c = "sscratch" THEN x["t0"] ELSE csr[c]]
    BY <1>s, <2>2 DEF Regs, CSRs
  <2>4. Shape' /\ Parked' /\ MyFrame' = MyFrame
    BY <1>0, <1>s, <2>2, <2>3, StaysParkedNoStore DEF CSRs
  <2>5. InEntry'
    BY <1>0, <1>1, <1>m, <1>n, <1>s, <2>3 DEF InEntry, Regs, CSRs
  <2> QED BY <1>1, <2>4, <2>5
<1>2. CASE pc = 2
  <2> DEFINE S == {"ra", "sp", "t1"}
  <2>1. /\ Instr = <<"save", S, "t0">> /\ x["t0"] = Frame(current_proc)
        /\ S \in SUBSET Regs
    BY <1>0, <1>l, <1>2 DEF trap_entry, InEntry, Regs
  <2> HIDE DEF S
  <2>2. /\ x' = x /\ csr' = csr
        /\ frame' = [frame EXCEPT ![current_proc] =
              [f \in DOMAIN @ |-> IF f \in S THEN x[f] ELSE @[f]]]
    BY <1>0, <1>s, <2>1, Save
  <2>3. /\ Shape' /\ Parked'
        /\ \A g \in Fields : MyFrame'[g] = IF g \in S THEN x[g] ELSE MyFrame[g]
    BY <1>0, <2>1, <2>2, SaveParked
  <2>4. InEntry'
    BY <1>0, <1>2, <1>m, <1>n, <1>s, <2>2, <2>3 DEF InEntry, Regs, Fields, S
  <2> QED BY <1>2, <2>3, <2>4
<1>3. CASE pc = 3
  <2>1. Instr = <<"csrr", "t1", "sscratch">>
    BY <1>l, <1>3 DEF trap_entry
  <2>2. x' = [x EXCEPT !["t1"] = csr["sscratch"]] /\ csr' = csr /\ frame' = frame
    BY <1>0, <2>1, Csrr
  <2>3. x' = [r \in Regs |-> IF r = "t1" THEN csr["sscratch"] ELSE x[r]]
    BY <1>s, <2>2 DEF Regs
  <2>4. Shape' /\ Parked' /\ MyFrame' = MyFrame
    BY <1>0, <1>s, <2>2, <2>3, StaysParkedNoStore
  <2>5. InEntry'
    BY <1>0, <1>3, <1>m, <1>n, <1>s, <2>2, <2>3, <2>4 DEF InEntry, Regs
  <2> QED BY <1>3, <2>4, <2>5
<1>4. CASE pc = 4
  <2>1. Instr = <<"sd", "t1", "t0", "t0">> /\ x["t0"] = Frame(current_proc)
    BY <1>0, <1>l, <1>4 DEF trap_entry, InEntry
  <2>2. /\ x' = x /\ csr' = csr
        /\ frame' = [frame EXCEPT ![current_proc]["t0"] = x["t1"]]
    BY <1>0, <1>s, <2>1, Sd
  <2>3. /\ Shape' /\ Parked'
        /\ \A g \in Fields : MyFrame'[g] = IF g = "t0" THEN x["t1"] ELSE MyFrame[g]
    BY <1>0, <2>2, SdParked DEF Regs, Fields
  <2>4. InEntry'
    BY <1>0, <1>4, <1>m, <1>n, <1>s, <2>2, <2>3 DEF InEntry, Regs, Fields
  <2> QED BY <1>4, <2>3, <2>4
<1>5. CASE pc = 5
  <2> DEFINE S == {"a0", "a1", "rest"}
  <2>1. /\ Instr = <<"save", S, "t0">> /\ x["t0"] = Frame(current_proc)
        /\ S \in SUBSET Regs
    BY <1>0, <1>l, <1>5 DEF trap_entry, InEntry, Regs
  <2> HIDE DEF S
  <2>2. /\ x' = x /\ csr' = csr
        /\ frame' = [frame EXCEPT ![current_proc] =
              [f \in DOMAIN @ |-> IF f \in S THEN x[f] ELSE @[f]]]
    BY <1>0, <1>s, <2>1, Save
  <2>3. /\ Shape' /\ Parked'
        /\ \A g \in Fields : MyFrame'[g] = IF g \in S THEN x[g] ELSE MyFrame[g]
    BY <1>0, <2>1, <2>2, SaveParked
  <2>4. InEntry'
    BY <1>0, <1>5, <1>m, <1>n, <1>s, <2>2, <2>3 DEF InEntry, Regs, Fields, S
  <2> QED BY <1>5, <2>3, <2>4
<1>6. CASE pc = 6
  <2>1. Instr = <<"csrr", "t1", "sepc">>
    BY <1>l, <1>6 DEF trap_entry
  <2>2. x' = [x EXCEPT !["t1"] = csr["sepc"]] /\ csr' = csr /\ frame' = frame
    BY <1>0, <2>1, Csrr
  <2>3. x' = [r \in Regs |-> IF r = "t1" THEN csr["sepc"] ELSE x[r]]
    BY <1>s, <2>2 DEF Regs
  <2>4. Shape' /\ Parked' /\ MyFrame' = MyFrame
    BY <1>0, <1>s, <2>2, <2>3, StaysParkedNoStore
  <2>5. InEntry'
    BY <1>0, <1>6, <1>m, <1>n, <1>s, <2>2, <2>3, <2>4 DEF InEntry, Regs
  <2> QED BY <1>6, <2>4, <2>5
<1>7. CASE pc = 7
  <2>1. Instr = <<"sd", "t1", "t0", "sepc">> /\ x["t0"] = Frame(current_proc)
    BY <1>0, <1>l, <1>7 DEF trap_entry, InEntry
  <2>2. /\ x' = x /\ csr' = csr
        /\ frame' = [frame EXCEPT ![current_proc]["sepc"] = x["t1"]]
    BY <1>0, <1>s, <2>1, Sd
  <2>3. /\ Shape' /\ Parked'
        /\ \A g \in Fields : MyFrame'[g] = IF g = "sepc" THEN x["t1"] ELSE MyFrame[g]
    BY <1>0, <2>2, SdParked DEF Regs, Fields
  <2>4. InEntry'
    BY <1>0, <1>7, <1>m, <1>n, <1>s, <2>2, <2>3 DEF InEntry, Regs, Fields
  <2> QED BY <1>7, <2>3, <2>4
<1>8. CASE pc = 8
  <2>1. Instr = <<"csrr", "t1", "sstatus">>
    BY <1>l, <1>8 DEF trap_entry
  <2>2. x' = [x EXCEPT !["t1"] = csr["sstatus"]] /\ csr' = csr /\ frame' = frame
    BY <1>0, <2>1, Csrr
  <2>3. x' = [r \in Regs |-> IF r = "t1" THEN csr["sstatus"] ELSE x[r]]
    BY <1>s, <2>2 DEF Regs
  <2>4. Shape' /\ Parked' /\ MyFrame' = MyFrame
    BY <1>0, <1>s, <2>2, <2>3, StaysParkedNoStore
  <2>5. InEntry'
    BY <1>0, <1>8, <1>m, <1>n, <1>s, <2>2, <2>3, <2>4 DEF InEntry, Regs
  <2> QED BY <1>8, <2>4, <2>5
<1>9. CASE pc = 9
  <2>1. Instr = <<"sd", "t1", "t0", "sstatus">> /\ x["t0"] = Frame(current_proc)
    BY <1>0, <1>l, <1>9 DEF trap_entry, InEntry
  <2>2. /\ x' = x /\ csr' = csr
        /\ frame' = [frame EXCEPT ![current_proc]["sstatus"] = x["t1"]]
    BY <1>0, <1>s, <2>1, Sd
  <2>3. /\ Shape' /\ Parked'
        /\ \A g \in Fields : MyFrame'[g] = IF g = "sstatus" THEN x["t1"] ELSE MyFrame[g]
    BY <1>0, <2>2, SdParked DEF Regs, Fields
  <2>4. InEntry'
    BY <1>0, <1>9, <1>m, <1>n, <1>s, <2>2, <2>3 DEF InEntry, Regs, Fields
  <2> QED BY <1>9, <2>3, <2>4
<1>10. CASE pc = 10
  <2>1. Instr = <<"mv", "a0", "t0">>
    BY <1>l, <1>10 DEF trap_entry
  <2>2. x' = [x EXCEPT !["a0"] = x["t0"]] /\ csr' = csr /\ frame' = frame
    BY <1>0, <2>1, Mv
  <2>3. x' = [r \in Regs |-> IF r = "a0" THEN x["t0"] ELSE x[r]]
    BY <1>s, <2>2 DEF Regs
  <2>4. Shape' /\ Parked' /\ MyFrame' = MyFrame
    BY <1>0, <1>s, <2>2, <2>3, StaysParkedNoStore
  <2>5. InEntry'
    BY <1>0, <1>10, <1>m, <1>n, <1>s, <2>2, <2>3, <2>4 DEF InEntry, Regs
  <2> QED BY <1>10, <2>4, <2>5
<1>11. CASE pc = 11
  <2>1. Instr = <<"ld", "sp", "t0", "kernel_sp">> /\ x["t0"] = Frame(current_proc)
    BY <1>0, <1>l, <1>11 DEF trap_entry, InEntry
  <2>2. x' = [x EXCEPT !["sp"] = MyFrame["kernel_sp"]] /\ csr' = csr /\ frame' = frame
    BY <1>0, <1>s, <2>1, Ld DEF MyFrame
  <2>3. x' = [r \in Regs |-> IF r = "sp" THEN MyFrame["kernel_sp"] ELSE x[r]]
    BY <1>s, <2>2 DEF Regs
  <2>4. Shape' /\ Parked' /\ MyFrame' = MyFrame
    BY <1>0, <1>s, <2>2, <2>3, StaysParkedNoStore
  <2>5. MyFrame["kernel_sp"] = KernelStack(current_proc)
    BY <1>0, <1>s DEF Parked, Shape, MyFrame
  <2>6. Holds(current_proc)'
    BY <1>0, <1>11, <1>m, <2>2, <2>4 DEF InEntry, Holds, HoldsRegs, MyFrame, Mine, Regs
  <2>7. InHandler'
    BY <1>0, <1>11, <1>s, <2>2, <2>3, <2>5, <2>6 DEF InEntry, InHandler, Regs
  <2> QED BY <1>11, <2>4, <2>7
<1> QED
  BY <1>n, <1>1, <1>2, <1>3, <1>4, <1>5, <1>6, <1>7, <1>8, <1>9, <1>10, <1>11

\* The way back, up to its sret.
LEMMA ExitStep ==
    ASSUME PathInv, code = "exit", Step
    PROVE  PathInv'
<1>0. /\ Shape /\ Parked /\ InExit /\ Execute
      /\ UNCHANGED <<upc, cause, status, current_proc, want>>
  BY DEF PathInv, Step
<1>s. /\ current_proc \in Slots /\ current_proc' = current_proc
      /\ x = [r \in Regs |-> x[r]]
      /\ csr = [c \in CSRs |-> csr[c]] /\ csr.sstatus \in Sstatus
  BY <1>0 DEF Shape
<1>m. Mine' = Mine /\ want' = want
  BY <1>0 DEF Mine
<1>l. Instr = trap_exit[pc] /\ Len(Code[code]) = 10
  BY DEF Instr, Code, trap_exit
<1>n. pc \in 1 .. 9 /\ pc' = pc + 1 /\ code' = "exit"
  BY <1>0, <1>l DEF Step, InExit, trap_exit
<1> DEFINE Done == Shape' /\ Parked' /\ InExit'
<1>d. SUFFICES Done
  BY <1>n DEF PathInv
<1>1. CASE pc = 1
  <2>1. Instr = <<"mv", "t0", "a0">>
    BY <1>0, <1>l, <1>1 DEF trap_exit, InExit
  <2>2. x' = [x EXCEPT !["t0"] = x["a0"]] /\ csr' = csr /\ frame' = frame
    BY <1>0, <1>s, <2>1, Mv DEF MyFrame
  <2>3. x' = [r \in Regs |-> IF r = "t0" THEN x["a0"] ELSE x[r]]
    BY <1>s, <2>2 DEF Regs
  <2>4. Shape' /\ Parked' /\ MyFrame' = MyFrame
    BY <1>0, <1>s, <2>2, <2>3, StaysParkedNoStore DEF CSRs
  <2>h. UNCHANGED <<HoldsRegs(MyFrame, current_proc), Holds(current_proc)>>
    BY <1>s, <1>m, <2>2, <2>4 DEF Holds, HoldsRegs
  <2>5. InExit'
    BY <1>0, <1>1, <1>m, <1>n, <1>s, <2>2, <2>3, <2>4, <2>h
    DEF InExit, Holds, HoldsRegs, MyFrame, Mine, Regs, CSRs
  <2> QED BY <2>4, <2>5
<1>2. CASE pc = 2
  <2>1. Instr = <<"ld", "t1", "t0", "sepc">> /\ x["t0"] = Frame(current_proc)
    BY <1>0, <1>l, <1>2 DEF trap_exit, InExit
  <2>2. x' = [x EXCEPT !["t1"] = MyFrame["sepc"]] /\ csr' = csr /\ frame' = frame
    BY <1>0, <1>s, <2>1, Ld DEF MyFrame
  <2>3. x' = [r \in Regs |-> IF r = "t1" THEN MyFrame["sepc"] ELSE x[r]]
    BY <1>s, <2>2 DEF Regs
  <2>4. Shape' /\ Parked' /\ MyFrame' = MyFrame
    BY <1>0, <1>s, <2>2, <2>3, StaysParkedNoStore DEF CSRs
  <2>h. UNCHANGED <<HoldsRegs(MyFrame, current_proc), Holds(current_proc)>>
    BY <1>s, <1>m, <2>2, <2>4 DEF Holds, HoldsRegs
  <2>5. InExit'
    BY <1>0, <1>2, <1>m, <1>n, <1>s, <2>2, <2>3, <2>4, <2>h
    DEF InExit, Holds, HoldsRegs, MyFrame, Mine, Regs, CSRs
  <2> QED BY <2>4, <2>5
<1>3. CASE pc = 3
  <2>1. Instr = <<"csrw", "sepc", "t1">>
    BY <1>l, <1>3 DEF trap_exit
  <2>2. x' = x /\ csr' = [csr EXCEPT !["sepc"] = x["t1"]] /\ frame' = frame
    BY <1>0, <2>1, Csrw
  <2>3. csr' = [c \in CSRs |-> IF c = "sepc" THEN x["t1"] ELSE csr[c]]
    BY <1>s, <2>2 DEF CSRs
  <2>4. Shape' /\ Parked' /\ MyFrame' = MyFrame
    BY <1>0, <1>s, <2>2, <2>3, StaysParkedNoStore DEF CSRs
  <2>h. UNCHANGED <<HoldsRegs(MyFrame, current_proc), Holds(current_proc)>>
    BY <1>s, <1>m, <2>2, <2>4 DEF Holds, HoldsRegs
  <2>5. InExit'
    BY <1>0, <1>3, <1>m, <1>n, <1>s, <2>2, <2>3, <2>4, <2>h
    DEF InExit, Holds, HoldsRegs, MyFrame, Mine, Regs, CSRs
  <2> QED BY <2>4, <2>5
<1>4. CASE pc = 4
  <2>1. Instr = <<"ld", "t1", "t0", "sstatus">> /\ x["t0"] = Frame(current_proc)
    BY <1>0, <1>l, <1>4 DEF trap_exit, InExit
  <2>2. x' = [x EXCEPT !["t1"] = MyFrame["sstatus"]] /\ csr' = csr /\ frame' = frame
    BY <1>0, <1>s, <2>1, Ld DEF MyFrame
  <2>3. x' = [r \in Regs |-> IF r = "t1" THEN MyFrame["sstatus"] ELSE x[r]]
    BY <1>s, <2>2 DEF Regs
  <2>4. Shape' /\ Parked' /\ MyFrame' = MyFrame
    BY <1>0, <1>s, <2>2, <2>3, StaysParkedNoStore DEF CSRs
  <2>h. UNCHANGED <<HoldsRegs(MyFrame, current_proc), Holds(current_proc)>>
    BY <1>s, <1>m, <2>2, <2>4 DEF Holds, HoldsRegs
  <2>5. InExit'
    BY <1>0, <1>4, <1>m, <1>n, <1>s, <2>2, <2>3, <2>4, <2>h
    DEF InExit, Holds, HoldsRegs, MyFrame, Mine, Regs, CSRs
  <2> QED BY <2>4, <2>5
<1>5. CASE pc = 5
  <2>1. Instr = <<"csrw", "sstatus", "t1">>
    BY <1>l, <1>5 DEF trap_exit
  <2>2. x' = x /\ csr' = [csr EXCEPT !["sstatus"] = x["t1"]] /\ frame' = frame
    BY <1>0, <2>1, Csrw
  <2>3. csr' = [c \in CSRs |-> IF c = "sstatus" THEN x["t1"] ELSE csr[c]]
    BY <1>s, <2>2 DEF CSRs
  <2>u. csr'.sstatus \in Sstatus
    BY <1>0, <1>5, <2>3 DEF InExit, UserStatus, CSRs
  <2>4. Shape' /\ Parked' /\ MyFrame' = MyFrame
    BY <1>0, <1>s, <2>2, <2>3, <2>u, StaysParkedNoStore DEF CSRs
  <2>h. UNCHANGED <<HoldsRegs(MyFrame, current_proc), Holds(current_proc)>>
    BY <1>s, <1>m, <2>2, <2>4 DEF Holds, HoldsRegs
  <2>5. InExit'
    BY <1>0, <1>5, <1>m, <1>n, <1>s, <2>2, <2>3, <2>u, <2>4, <2>h
    DEF InExit, Holds, HoldsRegs, MyFrame, Mine, Regs, CSRs
  <2> QED BY <2>4, <2>5
<1>6. CASE pc = 6
  <2> DEFINE S == Others \cup {"t1"}
  <2>1. Instr = <<"restore", S, "t0">> /\ x["t0"] = Frame(current_proc)
    BY <1>0, <1>l, <1>6 DEF trap_exit, InExit
  <2> HIDE DEF S
  <2>2. /\ x' = [r \in Regs |-> IF r \in S THEN MyFrame[r] ELSE x[r]]
        /\ csr' = csr /\ frame' = frame
    BY <1>0, <1>s, <2>1, Restore DEF MyFrame
  <2>4. Shape' /\ Parked' /\ MyFrame' = MyFrame
    BY <1>0, <1>s, <2>2, StaysParkedNoStore DEF CSRs
  <2>h. UNCHANGED <<HoldsRegs(MyFrame, current_proc), Holds(current_proc)>>
    BY <1>s, <1>m, <2>2, <2>4 DEF Holds, HoldsRegs
  <2>5. InExit'
    BY <1>0, <1>6, <1>m, <1>n, <1>s, <2>2, <2>4, <2>h
    DEF InExit, Holds, HoldsRegs, MyFrame, Mine, Regs, CSRs, S, Others
  <2> QED BY <2>4, <2>5
<1>7. CASE pc = 7
  <2>1. Instr = <<"ld", "sp", "t0", "sp">> /\ x["t0"] = Frame(current_proc)
    BY <1>0, <1>l, <1>7 DEF trap_exit, InExit
  <2>2. x' = [x EXCEPT !["sp"] = MyFrame["sp"]] /\ csr' = csr /\ frame' = frame
    BY <1>0, <1>s, <2>1, Ld DEF MyFrame
  <2>3. x' = [r \in Regs |-> IF r = "sp" THEN MyFrame["sp"] ELSE x[r]]
    BY <1>s, <2>2 DEF Regs
  <2>4. Shape' /\ Parked' /\ MyFrame' = MyFrame
    BY <1>0, <1>s, <2>2, <2>3, StaysParkedNoStore DEF CSRs
  <2>h. UNCHANGED <<HoldsRegs(MyFrame, current_proc), Holds(current_proc)>>
    BY <1>s, <1>m, <2>2, <2>4 DEF Holds, HoldsRegs
  <2>5. InExit'
    BY <1>0, <1>7, <1>m, <1>n, <1>s, <2>2, <2>3, <2>4, <2>h
    DEF InExit, Holds, HoldsRegs, MyFrame, Mine, Regs, CSRs
  <2> QED BY <2>4, <2>5
<1>8. CASE pc = 8
  <2>1. Instr = <<"csrw", "sscratch", "t0">>
    BY <1>l, <1>8 DEF trap_exit
  <2>2. x' = x /\ csr' = [csr EXCEPT !["sscratch"] = x["t0"]] /\ frame' = frame
    BY <1>0, <2>1, Csrw
  <2>3. csr' = [c \in CSRs |-> IF c = "sscratch" THEN x["t0"] ELSE csr[c]]
    BY <1>s, <2>2 DEF CSRs
  <2>4. Shape' /\ Parked' /\ MyFrame' = MyFrame
    BY <1>0, <1>s, <2>2, <2>3, StaysParkedNoStore DEF CSRs
  <2>h. UNCHANGED <<HoldsRegs(MyFrame, current_proc), Holds(current_proc)>>
    BY <1>s, <1>m, <2>2, <2>4 DEF Holds, HoldsRegs
  <2>5. InExit'
    BY <1>0, <1>8, <1>m, <1>n, <1>s, <2>2, <2>3, <2>4, <2>h
    DEF InExit, Holds, HoldsRegs, MyFrame, Mine, Regs, CSRs
  <2> QED BY <2>4, <2>5
<1>9. CASE pc = 9
  <2>1. Instr = <<"ld", "t0", "t0", "t0">> /\ x["t0"] = Frame(current_proc)
    BY <1>0, <1>l, <1>9 DEF trap_exit, InExit
  <2>2. x' = [x EXCEPT !["t0"] = MyFrame["t0"]] /\ csr' = csr /\ frame' = frame
    BY <1>0, <1>s, <2>1, Ld DEF MyFrame
  <2>3. x' = [r \in Regs |-> IF r = "t0" THEN MyFrame["t0"] ELSE x[r]]
    BY <1>s, <2>2 DEF Regs
  <2>4. Shape' /\ Parked' /\ MyFrame' = MyFrame
    BY <1>0, <1>s, <2>2, <2>3, StaysParkedNoStore DEF CSRs
  <2>h. UNCHANGED <<HoldsRegs(MyFrame, current_proc), Holds(current_proc)>>
    BY <1>s, <1>m, <2>2, <2>4 DEF Holds, HoldsRegs
  <2>5. InExit'
    BY <1>0, <1>9, <1>m, <1>n, <1>s, <2>2, <2>3, <2>4, <2>h
    DEF InExit, Holds, HoldsRegs, MyFrame, Mine, Regs, CSRs
  <2> QED BY <2>4, <2>5
<1> QED
  BY <1>n, <1>1, <1>2, <1>3, <1>4, <1>5, <1>6, <1>7, <1>8, <1>9

\* switch_to_user, up to its sret.
LEMMA SwitchStep ==
    ASSUME PathInv, code = "switch", Step
    PROVE  PathInv'
<1>0. /\ Shape /\ Parked /\ InSwitch /\ Execute
      /\ UNCHANGED <<upc, cause, status, current_proc, want>>
  BY DEF PathInv, Step
<1>s. /\ current_proc \in Slots /\ current_proc' = current_proc
      /\ x = [r \in Regs |-> x[r]]
      /\ csr = [c \in CSRs |-> csr[c]] /\ csr.sstatus \in Sstatus
  BY <1>0 DEF Shape
<1>m. Mine' = Mine /\ want' = want
  BY <1>0 DEF Mine
<1>l. Instr = switch_to_user[pc] /\ Len(Code[code]) = 10
  BY DEF Instr, Code, switch_to_user
<1>n. pc \in 1 .. 9 /\ pc' = pc + 1 /\ code' = "switch"
  BY <1>0, <1>l DEF Step, InSwitch, switch_to_user
<1> DEFINE Done == Shape' /\ Parked' /\ InSwitch'
<1>d. SUFFICES Done
  BY <1>n DEF PathInv
<1>1. CASE pc = 1
  <2>1. Instr = <<"csrw", "sscratch", "a0">>
    BY <1>l, <1>1 DEF switch_to_user
  <2>2. x' = x /\ csr' = [csr EXCEPT !["sscratch"] = x["a0"]] /\ frame' = frame
    BY <1>0, <2>1, Csrw
  <2>3. csr' = [c \in CSRs |-> IF c = "sscratch" THEN x["a0"] ELSE csr[c]]
    BY <1>s, <2>2 DEF CSRs
  <2>4. Shape' /\ Parked' /\ MyFrame' = MyFrame
    BY <1>0, <1>s, <2>2, <2>3, StaysParkedNoStore DEF CSRs
  <2>h. UNCHANGED <<HoldsRegs(MyFrame, current_proc), Holds(current_proc)>>
    BY <1>s, <1>m, <2>2, <2>4 DEF Holds, HoldsRegs
  <2>5. InSwitch'
    BY <1>0, <1>1, <1>m, <1>n, <1>s, <2>2, <2>3, <2>4, <2>h
    DEF InSwitch, Holds, HoldsRegs, MyFrame, Mine, Regs, CSRs
  <2> QED BY <2>4, <2>5
<1>2. CASE pc = 2
  <2>1. Instr = <<"ld", "t0", "a0", "sepc">> /\ x["a0"] = Frame(current_proc)
    BY <1>0, <1>l, <1>2 DEF switch_to_user, InSwitch
  <2>2. x' = [x EXCEPT !["t0"] = MyFrame["sepc"]] /\ csr' = csr /\ frame' = frame
    BY <1>0, <1>s, <2>1, Ld DEF MyFrame
  <2>3. x' = [r \in Regs |-> IF r = "t0" THEN MyFrame["sepc"] ELSE x[r]]
    BY <1>s, <2>2 DEF Regs
  <2>4. Shape' /\ Parked' /\ MyFrame' = MyFrame
    BY <1>0, <1>s, <2>2, <2>3, StaysParkedNoStore DEF CSRs
  <2>h. UNCHANGED <<HoldsRegs(MyFrame, current_proc), Holds(current_proc)>>
    BY <1>s, <1>m, <2>2, <2>4 DEF Holds, HoldsRegs
  <2>5. InSwitch'
    BY <1>0, <1>2, <1>m, <1>n, <1>s, <2>2, <2>3, <2>4, <2>h
    DEF InSwitch, Holds, HoldsRegs, MyFrame, Mine, Regs, CSRs
  <2> QED BY <2>4, <2>5
<1>3. CASE pc = 3
  <2>1. Instr = <<"csrw", "sepc", "t0">>
    BY <1>l, <1>3 DEF switch_to_user
  <2>2. x' = x /\ csr' = [csr EXCEPT !["sepc"] = x["t0"]] /\ frame' = frame
    BY <1>0, <2>1, Csrw
  <2>3. csr' = [c \in CSRs |-> IF c = "sepc" THEN x["t0"] ELSE csr[c]]
    BY <1>s, <2>2 DEF CSRs
  <2>4. Shape' /\ Parked' /\ MyFrame' = MyFrame
    BY <1>0, <1>s, <2>2, <2>3, StaysParkedNoStore DEF CSRs
  <2>h. UNCHANGED <<HoldsRegs(MyFrame, current_proc), Holds(current_proc)>>
    BY <1>s, <1>m, <2>2, <2>4 DEF Holds, HoldsRegs
  <2>5. InSwitch'
    BY <1>0, <1>3, <1>m, <1>n, <1>s, <2>2, <2>3, <2>4, <2>h
    DEF InSwitch, Holds, HoldsRegs, MyFrame, Mine, Regs, CSRs
  <2> QED BY <2>4, <2>5
<1>4. CASE pc = 4
  <2>1. Instr = <<"csrr", "t0", "sstatus">>
    BY <1>0, <1>l, <1>4 DEF switch_to_user, InSwitch
  <2>2. x' = [x EXCEPT !["t0"] = csr["sstatus"]] /\ csr' = csr /\ frame' = frame
    BY <1>0, <1>s, <2>1, Csrr DEF MyFrame
  <2>3. x' = [r \in Regs |-> IF r = "t0" THEN csr["sstatus"] ELSE x[r]]
    BY <1>s, <2>2 DEF Regs
  <2>4. Shape' /\ Parked' /\ MyFrame' = MyFrame
    BY <1>0, <1>s, <2>2, <2>3, StaysParkedNoStore DEF CSRs
  <2>h. UNCHANGED <<HoldsRegs(MyFrame, current_proc), Holds(current_proc)>>
    BY <1>s, <1>m, <2>2, <2>4 DEF Holds, HoldsRegs
  <2>5. InSwitch'
    BY <1>0, <1>4, <1>m, <1>n, <1>s, <2>2, <2>3, <2>4, <2>h
    DEF InSwitch, Holds, HoldsRegs, MyFrame, Mine, Regs, CSRs
  <2> QED BY <2>4, <2>5
<1>5. CASE pc = 5
  <2>1. Instr = <<"to_user", "t0">>
    BY <1>l, <1>5 DEF switch_to_user
  <2>2. /\ x' = [x EXCEPT !["t0"] =
                   [@ EXCEPT !.SPP = FALSE, !.SPIE = TRUE, !.SUM = FALSE]]
        /\ csr' = csr /\ frame' = frame
    BY <1>0, <2>1, ToUser
  <2> DEFINE v == [x["t0"] EXCEPT !.SPP = FALSE, !.SPIE = TRUE, !.SUM = FALSE]
  <2>3. x' = [r \in Regs |-> IF r = "t0" THEN v ELSE x[r]]
    BY <1>s, <2>2 DEF Regs
  <2>v. UserStatus(v)
    BY <1>0, <1>5 DEF InSwitch, UserStatus, Sstatus
  <2> HIDE DEF v
  <2>4. Shape' /\ Parked' /\ MyFrame' = MyFrame
    BY <1>0, <1>s, <2>2, <2>3, <2>v, StaysParkedNoStore DEF CSRs
  <2>h. UNCHANGED <<HoldsRegs(MyFrame, current_proc), Holds(current_proc)>>
    BY <1>s, <1>m, <2>2, <2>4 DEF Holds, HoldsRegs
  <2>5. InSwitch'
    BY <1>0, <1>5, <1>m, <1>n, <1>s, <2>2, <2>3, <2>v, <2>4, <2>h
    DEF InSwitch, Holds, HoldsRegs, MyFrame, Mine, Regs, CSRs
  <2> QED BY <2>4, <2>5
<1>6. CASE pc = 6
  <2>1. Instr = <<"csrw", "sstatus", "t0">>
    BY <1>l, <1>6 DEF switch_to_user
  <2>2. x' = x /\ csr' = [csr EXCEPT !["sstatus"] = x["t0"]] /\ frame' = frame
    BY <1>0, <2>1, Csrw
  <2>3. csr' = [c \in CSRs |-> IF c = "sstatus" THEN x["t0"] ELSE csr[c]]
    BY <1>s, <2>2 DEF CSRs
  <2>u. csr'.sstatus \in Sstatus
    BY <1>0, <1>6, <2>3 DEF InSwitch, UserStatus, CSRs
  <2>4. Shape' /\ Parked' /\ MyFrame' = MyFrame
    BY <1>0, <1>s, <2>2, <2>3, <2>u, StaysParkedNoStore DEF CSRs
  <2>h. UNCHANGED <<HoldsRegs(MyFrame, current_proc), Holds(current_proc)>>
    BY <1>s, <1>m, <2>2, <2>4 DEF Holds, HoldsRegs
  <2>5. InSwitch'
    BY <1>0, <1>6, <1>m, <1>n, <1>s, <2>2, <2>3, <2>u, <2>4, <2>h
    DEF InSwitch, Holds, HoldsRegs, MyFrame, Mine, Regs, CSRs
  <2> QED BY <2>4, <2>5
<1>7. CASE pc = 7
  <2>1. Instr = <<"csrw", "satp", "a1">>
    BY <1>l, <1>7 DEF switch_to_user
  <2>2. x' = x /\ csr' = [csr EXCEPT !["satp"] = x["a1"]] /\ frame' = frame
    BY <1>0, <2>1, Csrw
  <2>3. csr' = [c \in CSRs |-> IF c = "satp" THEN x["a1"] ELSE csr[c]]
    BY <1>s, <2>2 DEF CSRs
  <2>4. Shape' /\ Parked' /\ MyFrame' = MyFrame
    BY <1>0, <1>s, <2>2, <2>3, StaysParkedNoStore DEF CSRs
  <2>h. UNCHANGED <<HoldsRegs(MyFrame, current_proc), Holds(current_proc)>>
    BY <1>s, <1>m, <2>2, <2>4 DEF Holds, HoldsRegs
  <2>5. InSwitch'
    BY <1>0, <1>7, <1>m, <1>n, <1>s, <2>2, <2>3, <2>4, <2>h
    DEF InSwitch, Holds, HoldsRegs, MyFrame, Mine, Regs, CSRs
  <2> QED BY <2>4, <2>5
<1>8. CASE pc = 8
  <2> DEFINE S == Regs \ {"a0"}
  <2>1. Instr = <<"restore", S, "a0">> /\ x["a0"] = Frame(current_proc)
    BY <1>0, <1>l, <1>8 DEF switch_to_user, InSwitch
  <2> HIDE DEF S
  <2>2. /\ x' = [r \in Regs |-> IF r \in S THEN MyFrame[r] ELSE x[r]]
        /\ csr' = csr /\ frame' = frame
    BY <1>0, <1>s, <2>1, Restore DEF MyFrame
  <2>4. Shape' /\ Parked' /\ MyFrame' = MyFrame
    BY <1>0, <1>s, <2>2, StaysParkedNoStore DEF CSRs
  <2>h. UNCHANGED <<HoldsRegs(MyFrame, current_proc), Holds(current_proc)>>
    BY <1>s, <1>m, <2>2, <2>4 DEF Holds, HoldsRegs
  <2>5. InSwitch'
    BY <1>0, <1>8, <1>m, <1>n, <1>s, <2>2, <2>4, <2>h
    DEF InSwitch, Holds, HoldsRegs, MyFrame, Mine, Regs, CSRs, S, Others
  <2> QED BY <2>4, <2>5
<1>9. CASE pc = 9
  <2>1. Instr = <<"ld", "a0", "a0", "a0">> /\ x["a0"] = Frame(current_proc)
    BY <1>0, <1>l, <1>9 DEF switch_to_user, InSwitch
  <2>2. x' = [x EXCEPT !["a0"] = MyFrame["a0"]] /\ csr' = csr /\ frame' = frame
    BY <1>0, <1>s, <2>1, Ld DEF MyFrame
  <2>3. x' = [r \in Regs |-> IF r = "a0" THEN MyFrame["a0"] ELSE x[r]]
    BY <1>s, <2>2 DEF Regs
  <2>4. Shape' /\ Parked' /\ MyFrame' = MyFrame
    BY <1>0, <1>s, <2>2, <2>3, StaysParkedNoStore DEF CSRs
  <2>h. UNCHANGED <<HoldsRegs(MyFrame, current_proc), Holds(current_proc)>>
    BY <1>s, <1>m, <2>2, <2>4 DEF Holds, HoldsRegs
  <2>5. InSwitch'
    BY <1>0, <1>9, <1>m, <1>n, <1>s, <2>2, <2>3, <2>4, <2>h
    DEF InSwitch, Holds, HoldsRegs, MyFrame, Mine, Regs, CSRs
  <2> QED BY <2>4, <2>5
<1> QED
  BY <1>n, <1>1, <1>2, <1>3, <1>4, <1>5, <1>6, <1>7, <1>8, <1>9
-----------------------------------------------------------------------------
(* User mode, traps and sret.                                              *)

\* kmain() establishes the invariant.
LEMMA PathInit == Init => PathInv
<1> SUFFICES ASSUME Init PROVE PathInv
  OBVIOUS
<1>0. 0 \in Slots /\ current_proc = 0
  BY SlotsAssumption DEF Init, Slots
<1>1. /\ frame = [p \in Slots |-> frame[p]]
      /\ \A p \in Slots : frame[p] = [f \in Fields |-> frame[p][f]]
      /\ \A p \in Slots : p # 0 => status[p] = "free"
      /\ frame[0].kernel_sp = KernelStack(0)
  BY <1>0 DEF Init, Loaded, NewFrame, ZeroFrame, Fields, Regs
<1>2. /\ want = [p \in Slots |-> want[p]]
      /\ \A p \in Slots : /\ want[p] = [i \in {"regs", "pc"} |-> want[p][i]]
                          /\ want[p].regs = [r \in Regs |-> want[p].regs[r]]
  BY DEF Init, Image
<1>3. HoldsRegs(frame[0], 0)
  BY <1>0 DEF Init, HoldsRegs, Image, Loaded, NewFrame, ZeroFrame, Regs
<1>4. /\ csr = [c \in CSRs |-> csr[c]] /\ csr.sstatus \in Sstatus /\ ~csr.sstatus.SIE
      /\ x = [r \in Regs |-> x[r]] /\ x["a0"] = Frame(0) /\ x["a1"] = Root(0)
  <2>1. PICK spie, sum \in BOOLEAN :
          csr = [sscratch |-> "g_tf", sepc |-> 0, satp |-> "root_pt",
                 sstatus |-> [SPP |-> TRUE, SPIE |-> spie, SIE |-> FALSE, SUM |-> sum]]
    BY DEF Init
  <2>2. csr.sstatus = [SPP |-> TRUE, SPIE |-> spie, SIE |-> FALSE, SUM |-> sum]
    BY <2>1
  <2>3. csr = [c \in CSRs |-> csr[c]]
    BY <2>1 DEF CSRs
  <2>4. csr.sstatus \in Sstatus /\ ~csr.sstatus.SIE
    BY <2>2 DEF Sstatus
  <2>5. x = [r \in Regs |-> x[r]] /\ x["a0"] = Frame(0) /\ x["a1"] = Root(0)
    BY DEF Init, Regs
  <2> QED BY <2>3, <2>4, <2>5
<1>5. status \in [Slots -> {"free", "live", "zombie"}] /\ status[0] = "live"
  BY <1>0 DEF Init
<1>6. Shape /\ Parked
  BY <1>0, <1>1, <1>2, <1>4, <1>5 DEF Shape, Parked
<1>7. InSwitch
  BY <1>0, <1>3, <1>4 DEF InSwitch, MyFrame, Init
<1> QED BY <1>6, <1>7 DEF PathInv, Init

\* The process computes.
LEMMA UserRunsInv == PathInv /\ UserRuns => PathInv'
<1> SUFFICES ASSUME PathInv, UserRuns PROVE PathInv'
  OBVIOUS
<1>0. /\ Shape /\ Parked /\ InUserMode /\ code' = "user"
      /\ UNCHANGED <<csr, frame, status, current_proc>>
  BY DEF PathInv, UserRuns
<1>s. current_proc \in Slots
  BY <1>0 DEF Shape
<1>1. x' = [r \in Regs |-> x'[r]]
  BY DEF UserRuns
<1>2. want' = [want EXCEPT ![current_proc] = [regs |-> x', pc |-> upc']]
  BY DEF UserRuns
<1>3. /\ want' = [p \in Slots |-> want'[p]]
      /\ \A p \in Slots : p # current_proc => want'[p] = want[p]
      /\ want'[current_proc] = [regs |-> x', pc |-> upc']
  BY <1>0, <1>2 DEF Shape
<1>4. /\ want'[current_proc].regs = x' /\ want'[current_proc].pc = upc'
      /\ want'[current_proc] = [i \in {"regs", "pc"} |-> want'[current_proc][i]]
  BY <1>3
<1>5. Shape'
  <2>1. \A p \in Slots : /\ want'[p] = [i \in {"regs", "pc"} |-> want'[p][i]]
                         /\ want'[p].regs = [r \in Regs |-> want'[p].regs[r]]
    <3> SUFFICES ASSUME NEW p \in Slots
                 PROVE  /\ want'[p] = [i \in {"regs", "pc"} |-> want'[p][i]]
                        /\ want'[p].regs = [r \in Regs |-> want'[p].regs[r]]
      OBVIOUS
    <3>1. CASE p = current_proc
      BY <1>1, <1>4, <3>1
    <3>2. CASE p # current_proc
      BY <1>0, <1>3, <3>2 DEF Shape
    <3> QED BY <3>1, <3>2
  <2> QED BY <1>0, <1>1, <1>3, <2>1 DEF Shape
<1>6. Parked'
  BY <1>0, <1>3 DEF Parked, Holds, HoldsRegs
<1>7. InUserMode'
  BY <1>0, <1>4 DEF InUserMode, Mine
<1> QED BY <1>0, <1>5, <1>6, <1>7 DEF PathInv

\* The hardware takes a trap: SIE, which was set, goes to SPIE.
LEMMA TrapInv == ASSUME PathInv, NEW c, Trap(c) PROVE PathInv'
<1>0. /\ Shape /\ Parked /\ InUserMode /\ code' = "entry" /\ pc' = 1
      /\ UNCHANGED <<x, frame, status, current_proc, want>>
  BY DEF PathInv, Trap
<1>1. csr' = [csr EXCEPT !.sepc = upc, !.sstatus.SPP = FALSE,
                         !.sstatus.SPIE = csr.sstatus.SIE, !.sstatus.SIE = FALSE]
  BY DEF Trap
<1>2. csr = [r \in CSRs |-> csr[r]] /\ csr.sstatus \in Sstatus
  BY <1>0 DEF Shape
<1>3. csr' = [r \in CSRs |-> csr'[r]] /\ csr'.sstatus \in Sstatus
  BY <1>1, <1>2 DEF CSRs, Sstatus
<1>4. /\ csr'.sepc = upc /\ csr'.satp = csr.satp /\ csr'.sscratch = csr.sscratch
      /\ csr'.sstatus.SPP = FALSE /\ csr'.sstatus.SPIE = csr.sstatus.SIE
      /\ csr'.sstatus.SIE = FALSE /\ csr'.sstatus.SUM = csr.sstatus.SUM
  BY <1>1, <1>2 DEF CSRs, Sstatus
<1>5. UserStatus(csr'.sstatus)
  BY <1>0, <1>3, <1>4 DEF UserStatus, InUserMode
<1>6. Shape' /\ Parked'
  BY <1>0, <1>3, StaysParkedNoStore DEF Shape
<1>7. InEntry'
  BY <1>0, <1>4, <1>5 DEF InEntry, InUserMode, Mine, Regs
<1> QED BY <1>0, <1>6, <1>7 DEF PathInv

\* sret is the last instruction of both ways to user mode and of nothing else.
LEMMA SretInv == PathInv /\ Sret => PathInv'
<1> SUFFICES ASSUME PathInv, Sret PROVE PathInv'
  OBVIOUS
<1>0. /\ Shape /\ Parked /\ code' = "user" /\ upc' = csr.sepc
      /\ UNCHANGED <<x, frame, status, current_proc, want>>
      /\ csr' = [csr EXCEPT !.sstatus.SIE = csr.sstatus.SPIE, !.sstatus.SPIE = TRUE]
  BY DEF PathInv, Sret
<1>1. /\ code \in {"exit", "switch"} /\ pc = 10
  <2>1. code \in {"entry", "exit", "switch"} /\ Instr[1] = "sret"
    BY DEF Sret, Code
  <2>2. CASE code = "entry"
    <3>1. Instr = trap_entry[pc] /\ pc \in 1 .. 11
      BY <2>2 DEF Instr, Code, PathInv, InEntry
    <3> QED BY <2>1, <3>1 DEF trap_entry
  <2>3. CASE code = "exit"
    <3>1. Instr = trap_exit[pc] /\ pc \in 1 .. 10
      BY <2>3 DEF Instr, Code, PathInv, InExit
    <3> QED BY <2>1, <2>3, <3>1 DEF trap_exit
  <2>4. CASE code = "switch"
    <3>1. Instr = switch_to_user[pc] /\ pc \in 1 .. 10
      BY <2>4 DEF Instr, Code, PathInv, InSwitch
    <3> QED BY <2>1, <2>4, <3>1 DEF switch_to_user
  <2> QED BY <2>1, <2>2, <2>3, <2>4
<1>2. /\ \A r \in Regs : x[r] = Mine[r]
      /\ csr.sepc = want[current_proc].pc /\ UserStatus(csr.sstatus)
      /\ csr.sscratch = Frame(current_proc) /\ csr.satp = Root(current_proc)
  <2>1. CASE code = "exit"
    BY <1>1, <2>1 DEF PathInv, InExit, Regs
  <2>2. CASE code = "switch"
    BY <1>1, <2>2 DEF PathInv, InSwitch, Regs
  <2> QED BY <1>1, <2>1, <2>2
<1>3. x = Mine
  <2>1. x = [r \in Regs |-> x[r]] /\ Mine = [r \in Regs |-> Mine[r]]
    BY <1>0 DEF Shape, Mine
  <2> QED BY <1>2, <2>1
<1>4. csr = [r \in CSRs |-> csr[r]] /\ csr.sstatus \in Sstatus
  BY <1>0 DEF Shape
<1>5. csr' = [r \in CSRs |-> csr'[r]] /\ csr'.sstatus \in Sstatus
  BY <1>0, <1>4 DEF CSRs, Sstatus
<1>6. /\ csr'.satp = csr.satp /\ csr'.sscratch = csr.sscratch
      /\ csr'.sstatus.SPP = csr.sstatus.SPP /\ csr'.sstatus.SPIE = TRUE
      /\ csr'.sstatus.SIE = csr.sstatus.SPIE /\ csr'.sstatus.SUM = csr.sstatus.SUM
  BY <1>0, <1>4 DEF CSRs, Sstatus
<1>7. Shape' /\ Parked'
  BY <1>0, <1>5, StaysParkedNoStore DEF Shape
<1>8. InUserMode'
  BY <1>0, <1>2, <1>3, <1>6 DEF InUserMode, UserStatus, Mine
<1> QED BY <1>0, <1>7, <1>8 DEF PathInv
-----------------------------------------------------------------------------
(* trap_handler().                                                         *)

\* Its argument is the frame of the process that trapped, so that schedule()
\* saves it over itself.
LEMMA HandlerFacts ==
    ASSUME PathInv, code = "handler"
    PROVE  /\ Shape /\ Parked /\ InHandler /\ current_proc \in Slots
           /\ tf = current_proc /\ Saved(frame) = frame
           /\ frame[current_proc] = [f \in Fields |-> frame[current_proc][f]]
<1>1. Shape /\ Parked /\ InHandler /\ current_proc \in Slots
  BY DEF PathInv, Shape
<1>2. tf = current_proc
  BY <1>1, FrameOf DEF tf, InHandler
<1>3. Saved(frame) = frame
  BY <1>1, <1>2 DEF Saved, Shape
<1> QED BY <1>1, <1>2, <1>3 DEF Shape

\* Returning to a process whose frame is right, with every other live process
\* parked, is right: it is all that an action of the handler has to show.
LEMMA LeaveInv ==
    ASSUME PathInv, code = "handler", NEW next \in Slots,
           Leave(frame', next, Root(next)),
           status' \in [Slots -> {"free", "live", "zombie"}], status'[next] = "live",
           frame' = [p \in Slots |-> frame'[p]],
           want' = [p \in Slots |-> want'[p]],
           \A p \in Slots : /\ frame'[p] = [f \in Fields |-> frame'[p][f]]
                            /\ want'[p] = [i \in {"regs", "pc"} |-> want'[p][i]]
                            /\ want'[p].regs = [r \in Regs |-> want'[p].regs[r]]
                            /\ status'[p] # "free" => frame'[p].kernel_sp = KernelStack(p)
                            /\ status'[p] = "live" => Holds(p)'
    PROVE  PathInv'
<1>1. /\ x' = [[r \in Regs |-> "clobbered"] EXCEPT !.sp = x.sp, !.a0 = Frame(next)]
      /\ csr' = [csr EXCEPT !.satp = Root(next),
                            !.sstatus.SUM = csr.sstatus.SUM \/ cause = "ecall"]
      /\ current_proc' = next /\ code' = "exit" /\ pc' = 1
  BY DEF Leave
<1>2. csr = [r \in CSRs |-> csr[r]] /\ csr.sstatus \in Sstatus
  BY DEF PathInv, Shape
<1>3. csr' = [r \in CSRs |-> csr'[r]] /\ csr'.satp = Root(next)
  BY <1>1, <1>2 DEF CSRs, Sstatus
<1>4. csr'.sstatus \in Sstatus
  BY <1>1, <1>2 DEF CSRs, Sstatus
<1>5. x' = [r \in Regs |-> x'[r]] /\ x'["a0"] = Frame(next)
  BY <1>1 DEF Regs
<1>6. Shape' /\ Parked'
  BY <1>1, <1>3, <1>4, <1>5 DEF Shape, Parked
<1>7. Holds(current_proc)'
  BY <1>1 DEF Holds, HoldsRegs
<1>8. InExit'
  BY <1>1, <1>3, <1>5, <1>7 DEF InExit
<1> QED BY <1>1, <1>6, <1>8 DEF PathInv

\* Nobody but next comes to life.
StatusStep(next) ==
    /\ status' \in [Slots -> {"free", "live", "zombie"}] /\ status'[next] = "live"
    /\ \A p \in Slots : status'[p] # status[p] => status'[p] # "live" /\ status[p] # "free"

\* Interrupts and calls that sleep change no frame and no expectation; an exit
\* makes the current process a zombie, reaping frees one.
LEMMA SwitchInv ==
    ASSUME PathInv, code = "handler", NEW next \in Slots,
           Leave(frame, next, Root(next)),
           want' = want, StatusStep(next)
    PROVE  PathInv'
<1> USE DEF StatusStep
<1>1. frame' = frame
  BY DEF Leave
<1>2. \A p \in Slots : Holds(p)' <=> Holds(p)
  BY <1>1 DEF Holds, HoldsRegs
<1>3. \A p \in Slots : status[p] = "live" => Holds(p)
  BY HandlerFacts DEF InHandler, Parked
<1>4. \A p \in Slots : /\ frame'[p] = [f \in Fields |-> frame'[p][f]]
                       /\ want'[p] = [i \in {"regs", "pc"} |-> want'[p][i]]
                       /\ want'[p].regs = [r \in Regs |-> want'[p].regs[r]]
                       /\ status'[p] # "free" => frame'[p].kernel_sp = KernelStack(p)
                       /\ status'[p] = "live" => Holds(p)'
  BY <1>1, <1>2, <1>3, HandlerFacts DEF Shape, Parked
<1>5. Leave(frame', next, Root(next))
  BY <1>1
<1>6. frame' = [p \in Slots |-> frame'[p]] /\ want' = [p \in Slots |-> want'[p]]
  BY <1>1, HandlerFacts DEF Shape
<1> QED BY <1>4, <1>5, <1>6, LeaveInv

\* schedule() leaves the root of the process it returns in satp, whether it
\* writes it or finds it there.
LEMMA ScheduleLeaves ==
    ASSUME PathInv, code = "handler", NEW next, schedule(next)
    PROVE  Leave(frame, next, Root(next))
<1>1. Saved(frame) = frame /\ csr.satp = Root(current_proc)
  BY HandlerFacts DEF InHandler
<1> QED BY <1>1 DEF schedule

\* The external interrupt resumes the interrupted process.
LEMMA ExternalInv == PathInv /\ External => PathInv'
<1> SUFFICES ASSUME PathInv, External PROVE PathInv'
  OBVIOUS
<1>1. /\ code = "handler" /\ want' = want /\ status' = status
      /\ Leave(frame, current_proc, csr.satp)
  BY DEF External, Handler
<1>2. current_proc \in Slots /\ status[current_proc] = "live"
      /\ status \in [Slots -> {"free", "live", "zombie"}]
      /\ csr.satp = Root(current_proc)
  BY <1>1, HandlerFacts DEF Shape, InHandler
<1> QED BY <1>1, <1>2, SwitchInv DEF StatusStep

\* The timer tick and a system call that sleeps go to any live process.
LEMMA TickInv == PathInv /\ (Tick \/ Block) => PathInv'
<1> SUFFICES ASSUME PathInv, Tick \/ Block PROVE PathInv'
  OBVIOUS
<1>1. code = "handler" /\ want' = want /\ status' = status
  BY DEF Tick, Block, Handler
<1>2. PICK next \in Live : Leave(frame, next, Root(next))
  BY <1>1, ScheduleLeaves DEF Tick, Block
<1>3. next \in Slots /\ status[next] = "live"
      /\ status \in [Slots -> {"free", "live", "zombie"}]
  BY <1>1, HandlerFacts DEF Shape, Live
<1> QED BY <1>1, <1>2, <1>3, SwitchInv DEF StatusStep

\* An exit goes to any other live process.
LEMMA ExitInv == PathInv /\ Exit => PathInv'
<1> SUFFICES ASSUME PathInv, Exit PROVE PathInv'
  OBVIOUS
<1>1. code = "handler" /\ want' = want
      /\ status' = [status EXCEPT ![current_proc] = "zombie"]
  BY DEF Exit
<1>2. PICK next \in Live \ {current_proc} : Leave(frame, next, Root(next))
  BY <1>1, ScheduleLeaves DEF Exit
<1>3. /\ next \in Slots /\ status[next] = "live" /\ next # current_proc
      /\ status \in [Slots -> {"free", "live", "zombie"}]
      /\ current_proc \in Slots /\ status[current_proc] = "live"
  BY <1>1, <1>2, HandlerFacts DEF Shape, Live
<1> QED BY <1>1, <1>2, <1>3, SwitchInv DEF StatusStep

\* f is a new frame for the current process that agrees with the new
\* expectation w, and has the kernel stack and the sstatus of the old one.
Agree(f, w) ==
    /\ f = [g \in Fields |-> f[g]]
    /\ w = [i \in {"regs", "pc"} |-> w[i]] /\ w.regs = [r \in Regs |-> w.regs[r]]
    /\ f.kernel_sp = frame[current_proc].kernel_sp
    /\ f.sstatus = frame[current_proc].sstatus
    /\ f.sepc = w.pc
    /\ \A r \in Regs : f[r] = w.regs[r]

\* The current process gets such a frame, the other frames stay.
LEMMA ResultInv ==
    ASSUME PathInv, code = "handler",
           Leave(frame', current_proc, Root(current_proc)),
           StatusStep(current_proc),
           NEW f, frame' = [frame EXCEPT ![current_proc] = f],
           NEW w, want' = [want EXCEPT ![current_proc] = w],
           Agree(f, w)
    PROVE  PathInv'
<1> USE DEF Agree, StatusStep
<1>0. /\ Shape /\ Parked /\ Holds(current_proc) /\ current_proc \in Slots
      /\ status[current_proc] = "live"
  BY HandlerFacts DEF InHandler, Shape
<1>1. /\ frame' = [p \in Slots |-> frame'[p]] /\ want' = [p \in Slots |-> want'[p]]
      /\ frame'[current_proc] = f /\ want'[current_proc] = w
      /\ \A p \in Slots : p # current_proc => frame'[p] = frame[p] /\ want'[p] = want[p]
  BY <1>0 DEF Shape
<1>2. ASSUME NEW p \in Slots
      PROVE  /\ frame'[p] = [g \in Fields |-> frame'[p][g]]
             /\ want'[p] = [i \in {"regs", "pc"} |-> want'[p][i]]
             /\ want'[p].regs = [r \in Regs |-> want'[p].regs[r]]
             /\ status'[p] # "free" => frame'[p].kernel_sp = KernelStack(p)
             /\ status'[p] = "live" => Holds(p)'
  <2>1. CASE p = current_proc
    <3>1. HoldsRegs(frame[p], p)' /\ UserStatus(frame'[p].sstatus)
      BY <1>0, <1>1, <2>1 DEF HoldsRegs, Holds
    <3>2. f.kernel_sp = KernelStack(p)
      BY <1>0, <2>1 DEF Parked
    <3> QED BY <1>1, <2>1, <3>1, <3>2 DEF Holds
  <2>2. CASE p # current_proc
    <3>1. Holds(p)' <=> Holds(p)
      BY <1>1, <2>2 DEF Holds, HoldsRegs
    <3> QED BY <1>0, <1>1, <2>2, <3>1 DEF Shape, Parked
  <2> QED BY <2>1, <2>2
<1> QED BY <1>0, <1>1, <1>2, LeaveInv

\* A system call returns: sepc and the program counter the process expects
\* move past the ecall together.
LEMMA SyscallInv ==
    ASSUME PathInv, code = "handler", NEW res,
           StatusStep(current_proc),
           Leave(ReturnsTo(frame, res), current_proc, csr.satp),
           want' = [want EXCEPT ![current_proc] = Finds(@, res)]
    PROVE  PathInv'
<1>0. /\ current_proc \in Slots /\ tf = current_proc /\ Shape /\ Holds(current_proc)
      /\ frame[current_proc] = [f \in Fields |-> frame[current_proc][f]]
  BY HandlerFacts DEF InHandler
<1>1. frame' = ReturnsTo(frame, res)
  BY DEF Leave
<1> DEFINE f == [frame[current_proc] EXCEPT !.sepc = Skip(@), !.a0 = res]
           w == Finds(want[current_proc], res)
<1>2. frame' = [frame EXCEPT ![current_proc] = f]
  BY <1>0, <1>1 DEF ReturnsTo, Shape, Fields, Regs
<1>3. /\ f = [g \in Fields |-> f[g]]
      /\ f.kernel_sp = frame[current_proc].kernel_sp
      /\ f.sstatus = frame[current_proc].sstatus
      /\ f.sepc = Skip(frame[current_proc].sepc)
      /\ \A r \in Regs : f[r] = IF r = "a0" THEN res ELSE frame[current_proc][r]
  BY <1>0 DEF Fields, Regs
<1>4. want[current_proc].regs = [r \in Regs |-> want[current_proc].regs[r]]
  BY <1>0 DEF Shape
<1>5. /\ w = [i \in {"regs", "pc"} |-> w[i]] /\ w.pc = Skip(want[current_proc].pc)
      /\ w.regs = [r \in Regs |-> IF r = "a0" THEN res ELSE want[current_proc].regs[r]]
  BY <1>4 DEF Finds, Regs
<1>6. want' = [want EXCEPT ![current_proc] = w]
  OBVIOUS
<1>7. Leave(frame', current_proc, Root(current_proc))
  BY <1>1, HandlerFacts DEF InHandler
<1> HIDE DEF f, w
<1>8. Agree(f, w)
  BY <1>0, <1>3, <1>5 DEF Agree, Holds, HoldsRegs
<1> QED BY <1>2, <1>6, <1>7, <1>8, ResultInv

\* The calls that return a result, among them wait() with a zombie to free.
LEMMA ReturnInv == PathInv /\ (Syscall \/ Reap) => PathInv'
<1> SUFFICES ASSUME PathInv, Syscall \/ Reap PROVE PathInv'
  OBVIOUS
<1>0. code = "handler"
  BY DEF Syscall, Reap, Handler
<1>1. /\ current_proc \in Slots /\ status[current_proc] = "live"
      /\ status \in [Slots -> {"free", "live", "zombie"}]
  BY <1>0, HandlerFacts DEF Shape
<1>2. CASE Syscall
  BY <1>0, <1>1, <1>2, SyscallInv DEF Syscall, StatusStep
<1>3. CASE Reap
  <2>1. PICK z \in Slots : status[z] = "zombie" /\ status' = [status EXCEPT ![z] = "free"]
    BY <1>3 DEF Reap
  <2>2. z # current_proc
    BY <1>1, <2>1
  <2>3. StatusStep(current_proc)
    BY <1>1, <2>1, <2>2 DEF StatusStep
  <2> QED BY <1>0, <1>3, <2>3, SyscallInv DEF Reap
<1> QED BY <1>2, <1>3

\* exec() starts the program at its entry with a fresh stack.
LEMMA ExecInv == PathInv /\ Exec => PathInv'
<1> SUFFICES ASSUME PathInv, Exec PROVE PathInv'
  OBVIOUS
<1>c. code = "handler" /\ status' = status
  BY DEF Exec, Handler
<1>0. /\ current_proc \in Slots /\ Shape /\ Holds(current_proc)
      /\ status[current_proc] = "live"
      /\ status \in [Slots -> {"free", "live", "zombie"}]
      /\ frame[current_proc] = [f \in Fields |-> frame[current_proc][f]]
  BY <1>c, HandlerFacts DEF InHandler, Shape
<1> DEFINE f == Loaded(frame[current_proc])
           w == [regs |-> [want[current_proc].regs EXCEPT !.sp = "stack_top"], pc |-> Entry]
<1>1. /\ frame' = [frame EXCEPT ![current_proc] = f]
      /\ want' = [want EXCEPT ![current_proc] = w]
      /\ Leave(frame', current_proc, Root(current_proc))
  BY DEF Exec, Leave
<1>2. /\ f = [g \in Fields |-> f[g]]
      /\ f.kernel_sp = frame[current_proc].kernel_sp
      /\ f.sstatus = frame[current_proc].sstatus
      /\ f.sepc = Entry
      /\ \A r \in Regs : f[r] = IF r = "sp" THEN "stack_top" ELSE frame[current_proc][r]
  BY <1>0 DEF Loaded, Fields, Regs
<1>3. want[current_proc].regs = [r \in Regs |-> want[current_proc].regs[r]]
  BY <1>0 DEF Shape
<1>4. /\ w = [i \in {"regs", "pc"} |-> w[i]] /\ w.pc = Entry
      /\ w.regs = [r \in Regs |-> IF r = "sp" THEN "stack_top" ELSE want[current_proc].regs[r]]
  BY <1>3 DEF Regs
<1> HIDE DEF f, w
<1>5. Agree(f, w)
  BY <1>0, <1>2, <1>4 DEF Agree, Holds, HoldsRegs
<1>6. StatusStep(current_proc)
  BY <1>c, <1>0 DEF StatusStep
<1> QED BY <1>c, <1>1, <1>5, <1>6, ResultInv

\* fork() gives the child the parent's frame, with its own kernel stack.
LEMMA ForkInv == PathInv /\ Fork => PathInv'
<1> SUFFICES ASSUME PathInv, Fork PROVE PathInv'
  OBVIOUS
<1>c. code = "handler"
  BY DEF Fork, Handler
<1>0. /\ current_proc \in Slots /\ Shape /\ Parked /\ Holds(current_proc)
      /\ tf = current_proc /\ Saved(frame) = frame
      /\ status[current_proc] = "live"
      /\ status \in [Slots -> {"free", "live", "zombie"}]
      /\ frame[current_proc] = [f \in Fields |-> frame[current_proc][f]]
      /\ want[current_proc].regs = [r \in Regs |-> want[current_proc].regs[r]]
  BY <1>c, HandlerFacts DEF InHandler, Shape
<1>1. PICK c \in Slots :
        /\ status[c] = "free" /\ status' = [status EXCEPT ![c] = "live"]
        /\ Leave([ReturnsTo(Saved(frame), "pid") EXCEPT ![c] = ChildFrame(c)],
                 current_proc, csr.satp)
        /\ want' = [want EXCEPT ![current_proc] = Finds(@, "pid"),
                                ![c] = Finds(want[current_proc], 0)]
  BY DEF Fork
<1> DEFINE f  == [frame[current_proc] EXCEPT !.sepc = Skip(@), !.a0 = "pid"]
           fc == ChildFrame(c)
           w  == Finds(want[current_proc], "pid")
           wc == Finds(want[current_proc], 0)
<1>2. c # current_proc
  BY <1>0, <1>1
<1>3. /\ frame' = [p \in Slots |-> frame'[p]]
      /\ frame'[current_proc] = f /\ frame'[c] = fc
      /\ \A p \in Slots \ {c, current_proc} : frame'[p] = frame[p]
  <2>1. frame' = [ReturnsTo(frame, "pid") EXCEPT ![c] = fc]
    BY <1>0, <1>1 DEF Leave
  <2>2. ReturnsTo(frame, "pid") = [frame EXCEPT ![current_proc] = f]
    BY <1>0 DEF ReturnsTo, Shape, Fields, Regs
  <2> HIDE DEF f, fc
  <2> QED BY <1>0, <1>2, <2>1, <2>2 DEF Shape
<1>4. /\ want' = [p \in Slots |-> want'[p]]
      /\ want'[current_proc] = w /\ want'[c] = wc
      /\ \A p \in Slots \ {c, current_proc} : want'[p] = want[p]
  <2>1. want' = [want EXCEPT ![current_proc] = w, ![c] = wc]
    BY <1>1
  <2> HIDE DEF w, wc
  <2> QED BY <1>0, <1>2, <2>1 DEF Shape
<1>5. /\ f = [g \in Fields |-> f[g]]
      /\ f.kernel_sp = frame[current_proc].kernel_sp
      /\ f.sstatus = frame[current_proc].sstatus
      /\ f.sepc = Skip(frame[current_proc].sepc)
      /\ \A r \in Regs : f[r] = IF r = "a0" THEN "pid" ELSE frame[current_proc][r]
  BY <1>0 DEF Fields, Regs
<1>6. /\ fc = [g \in Fields |-> fc[g]]
      /\ fc.kernel_sp = KernelStack(c)
      /\ fc.sstatus = frame[current_proc].sstatus
      /\ fc.sepc = Skip(frame[current_proc].sepc)
      /\ \A r \in Regs : fc[r] = IF r = "a0" THEN 0 ELSE frame[current_proc][r]
  <2>1. NewFrame(c).kernel_sp = KernelStack(c)
    BY DEF NewFrame, ZeroFrame
  <2> QED BY <1>0, <2>1 DEF ChildFrame, Fields, Regs
<1>7. /\ w = [i \in {"regs", "pc"} |-> w[i]] /\ w.pc = Skip(want[current_proc].pc)
      /\ w.regs = [r \in Regs |-> IF r = "a0" THEN "pid" ELSE want[current_proc].regs[r]]
      /\ wc = [i \in {"regs", "pc"} |-> wc[i]] /\ wc.pc = Skip(want[current_proc].pc)
      /\ wc.regs = [r \in Regs |-> IF r = "a0" THEN 0 ELSE want[current_proc].regs[r]]
  BY <1>0 DEF Finds, Regs
<1> HIDE DEF f, fc, w, wc
<1>8. /\ frame[current_proc].kernel_sp = KernelStack(current_proc)
      /\ UserStatus(frame[current_proc].sstatus)
      /\ frame[current_proc].sepc = want[current_proc].pc
      /\ \A r \in Regs : frame[current_proc][r] = want[current_proc].regs[r]
  BY <1>0 DEF Parked, Holds, HoldsRegs
<1>9. /\ status' \in [Slots -> {"free", "live", "zombie"}]
      /\ status'[current_proc] = "live"
      /\ \A p \in Slots \ {c, current_proc} : status'[p] = status[p]
  BY <1>0, <1>1, <1>2
<1>10. ASSUME NEW p \in Slots
       PROVE  /\ frame'[p] = [g \in Fields |-> frame'[p][g]]
              /\ want'[p] = [i \in {"regs", "pc"} |-> want'[p][i]]
              /\ want'[p].regs = [r \in Regs |-> want'[p].regs[r]]
              /\ status'[p] # "free" => frame'[p].kernel_sp = KernelStack(p)
              /\ status'[p] = "live" => Holds(p)'
  <2>1. CASE p = current_proc
    <3>1. Holds(p)'
      BY <1>3, <1>4, <1>5, <1>7, <1>8, <2>1 DEF Holds, HoldsRegs
    <3> QED BY <1>3, <1>4, <1>5, <1>7, <1>8, <2>1, <3>1
  <2>2. CASE p = c
    <3>1. Holds(p)'
      BY <1>3, <1>4, <1>6, <1>7, <1>8, <2>2 DEF Holds, HoldsRegs
    <3> QED BY <1>3, <1>4, <1>6, <1>7, <2>2, <3>1
  <2>3. CASE p \in Slots \ {c, current_proc}
    <3>1. frame'[p] = frame[p] /\ want'[p] = want[p] /\ status'[p] = status[p]
      BY <1>3, <1>4, <1>9, <2>3
    <3>2. Holds(p)' <=> Holds(p)
      BY <3>1 DEF Holds, HoldsRegs
    <3> QED BY <1>0, <2>3, <3>1, <3>2 DEF Shape, Parked
  <2> QED BY <2>1, <2>2, <2>3
<1>11. Leave(frame', current_proc, Root(current_proc))
  BY <1>c, <1>1, HandlerFacts DEF Leave, InHandler
<1> QED BY <1>c, <1>0, <1>3, <1>4, <1>9, <1>10, <1>11, LeaveInv

\* Nothing but the shape and the parked processes is claimed of a halted hart.
LEMMA HaltInv == PathInv /\ (Halt \/ UNCHANGED vars) => PathInv'
<1> SUFFICES ASSUME PathInv, Halt \/ UNCHANGED vars PROVE PathInv'
  OBVIOUS
<1>1. /\ UNCHANGED <<x, csr, upc, pc, frame, status, current_proc, want>>
      /\ code' \in {code, "halted"}
  BY DEF Halt, vars
<1>2. /\ Shape' /\ Parked'
  BY <1>1 DEF PathInv, Shape, Parked, Holds, HoldsRegs
<1>3. CASE code' = "halted"
  BY <1>2, <1>3 DEF PathInv
<1>4. CASE code' = code
  <2>1. /\ code = "user" => InUserMode'
        /\ code = "entry" => InEntry'
    BY <1>1 DEF PathInv, InUserMode, InEntry, Mine, MyFrame
  <2>2. /\ code = "handler" => InHandler'
        /\ code = "exit" => InExit'
        /\ code = "switch" => InSwitch'
    BY <1>1 DEF PathInv, InHandler, InExit, InSwitch, Holds, HoldsRegs, Mine, MyFrame
  <2> QED BY <1>2, <1>4, <2>1, <2>2 DEF PathInv
<1> QED BY <1>1, <1>3, <1>4

\* The invariant is inductive.
LEMMA PathNext == PathInv /\ [Next]_vars => PathInv'
<1> SUFFICES ASSUME PathInv, [Next]_vars PROVE PathInv'
  OBVIOUS
<1>1. CASE Step
  <2>1. code \in {"entry", "exit", "switch"}
    BY <1>1 DEF Step, Code
  <2> QED BY <1>1, <2>1, EntryStep, ExitStep, SwitchStep
<1>2. CASE trap_handler
  BY <1>2, ExternalInv, TickInv, ReturnInv, ForkInv, ExecInv, ExitInv, HaltInv
  DEF trap_handler
<1>3. CASE \E c \in {"ecall", "timer", "external", "fault"} : Trap(c)
  BY <1>3, TrapInv
<1> QED
  BY <1>1, <1>2, <1>3, UserRunsInv, SretInv, HaltInv DEF Next, Halted

\* The invariant holds in every reachable state.
THEOREM PathInvariant == Spec => []PathInv
BY PathInit, PathNext, PTL DEF Spec

\* A process that runs again after any trap, of its own or of others, finds its
\* registers and its program counter: trap_entry saves and restores all of them
\* in the frame of the process that runs, however many processes there are.
THEOREM RegistersSurvive == Spec => []ResumesWithOwnRegisters
<1>1. PathInv => ResumesWithOwnRegisters
  BY DEF PathInv, InUserMode, ResumesWithOwnRegisters, Mine
<1> QED BY <1>1, PathInvariant, PTL

\* User mode is entered with the frame and the address space of the process
\* that runs, interrupts on and SUM off, whatever the system call before left.
THEOREM UserModeIsConfined == Spec => []UserModeConfined
<1>1. PathInv => UserModeConfined
  BY DEF PathInv, InUserMode, UserModeConfined
<1> QED BY <1>1, PathInvariant, PTL

\* trap_handler() runs on the kernel stack of the process that trapped, with
\* its frame, and no two processes in the table share a kernel stack.
THEOREM KernelIsWellFormed == Spec => []KernelWellFormed
<1>1. PathInv => TypeOK
  <2> SUFFICES ASSUME PathInv PROVE TypeOK
    OBVIOUS
  <2>1. /\ DOMAIN Code = {"entry", "exit", "switch"}
        /\ Len(Code["entry"]) = 11 /\ Len(Code["exit"]) = 10 /\ Len(Code["switch"]) = 10
    BY DEF Code, trap_entry, trap_exit, switch_to_user
  <2>2. code \in DOMAIN Code => pc \in 1 .. Len(Code[code])
    BY <2>1 DEF PathInv, InEntry, InExit, InSwitch
  <2>3. \A p \in Slots : DOMAIN frame[p] = DOMAIN ZeroFrame
    BY DEF PathInv, Shape, ZeroFrame, Fields
  <2>4. DOMAIN csr = {"sscratch", "sepc", "sstatus", "satp"} /\ DOMAIN x = Regs
    BY DEF PathInv, Shape, CSRs
  <2>5. code = "handler" => x.a0 \in FramePtrs
    BY DEF PathInv, InHandler, FramePtrs, Shape
  <2> QED BY <2>1, <2>2, <2>3, <2>4, <2>5 DEF PathInv, Shape, TypeOK
<1>2. PathInv => HandlerOnOwnStack
  BY DEF PathInv, InHandler, Parked, HandlerOnOwnStack, KernelStack
<1> QED BY <1>1, <1>2, PathInvariant, PTL DEF KernelWellFormed
=============================================================================
