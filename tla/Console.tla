------------------------------ MODULE Console ------------------------------
(***************************************************************************)
(* The way of a typed byte: the UART's receive FIFO and interrupt line, the *)
(* PLIC (kernel/arch/riscv/plic.c), the external interrupt from user mode   *)
(* (trap_handler.c) or from the idle loop (idle_service() in process.c),    *)
(* the driver of module Uart and the reader that sleeps in SYS_READ; and    *)
(* the part of kmain() that opens this way step by step.                    *)
(*                                                                         *)
(* The kernel runs with interrupts off, but the typist does not wait: a     *)
(* byte may arrive between any two accesses to a device register, so each   *)
(* of those is a step of its own.                                           *)
(***************************************************************************)
EXTENDS Uart

CONSTANTS
    FIFO,           \* bound: bytes the UART holds before the sender must wait
    Typed           \* the keys that are typed

ASSUME ConsoleAssumption == FIFO \in Nat \ {0} /\ Typed \subseteq Keys

VARIABLES
    rbr,            \* the device's receive FIFO, read through UART_RBR
    ier,            \* UART_IER: received data raises the line
    priority, enable, threshold,    \* the PLIC registers plic_init() writes
    pending,        \* the PLIC has latched a request of the UART
    claimed,        \* the UART's request is in service: claimed, not completed
    seie,           \* sie.SEIE
    pc,             \* where the hart is
    ret,            \* who called plic_dispatch(): the trap or the idle loop
    reader          \* the process that reads the console

config == <<ier, priority, enable, threshold, seie>>
consoleVars == <<uartVars, rbr, config, pending, claimed, pc, ret, reader>>

UART0_IRQ == 10

\* kmain() after the MMU is on.  The PLIC resets priorities to 0, "never
\* fire"; its threshold is what the firmware left.
ConsoleInit ==
    /\ Init
    /\ rbr = <<>> /\ ier = FALSE
    /\ priority = 0 /\ enable = FALSE /\ threshold \in {0, 7}
    /\ pending = FALSE /\ claimed = FALSE
    /\ seie = FALSE
    /\ pc = "plic_init" /\ ret = "user"
    /\ reader = "awake"

-----------------------------------------------------------------------------
(* The devices.                                                            *)

\* A byte arrives.
Receive(c) ==
    /\ Len(rbr) < FIFO
    /\ rbr' = Append(rbr, c)
    /\ UNCHANGED <<uartVars, config, pending, claimed, pc, ret, reader>>

\* The UART's line is high as long as a byte waits.
Line == ier /\ rbr # <<>>

\* The PLIC latches a request of a line that is high.  It may do so while one
\* is in service (it then delivers it after the completion), and must after.
Latch ==
    /\ Line /\ ~pending
    /\ pending' = TRUE
    /\ UNCHANGED <<uartVars, rbr, config, claimed, pc, ret, reader>>

\* What a read of the claim register returns; sip.SEIP is up when it is not 0.
Claimable ==
    IF pending /\ ~claimed /\ enable /\ priority > threshold
    THEN UART0_IRQ ELSE 0

seip == Claimable # 0

-----------------------------------------------------------------------------
(* Boot.                                                                   *)

plic_init ==
    /\ pc = "plic_init"
    /\ priority' = 1 /\ enable' = TRUE /\ threshold' = 0
    /\ pc' = "uart_init"
    /\ UNCHANGED <<uartVars, rbr, ier, pending, claimed, seie, ret, reader>>

uart_init ==
    /\ pc = "uart_init"
    /\ ier' = TRUE
    /\ pc' = "enable"
    /\ UNCHANGED <<uartVars, rbr, priority, enable, threshold, pending, claimed,
                   seie, ret, reader>>

\* csrs sie, SEIE and switch_to_user().
EnableExternal ==
    /\ pc = "enable"
    /\ seie' = TRUE
    /\ pc' = "user"
    /\ UNCHANGED <<uartVars, rbr, ier, priority, enable, threshold, pending, claimed,
                   ret, reader>>

-----------------------------------------------------------------------------
(* plic_dispatch().                                                        *)

\* scause 9, from user mode only: the kernel runs with sstatus.SIE clear.
ExternalInterrupt ==
    /\ pc = "user" /\ seie /\ seip
    /\ pc' = "claim" /\ ret' = "user"
    /\ UNCHANGED <<uartVars, rbr, config, pending, claimed, reader>>

\* Mutant: the idle loop services the timer only.
Bug_idle_service ==
    /\ pc = "idle" /\ seie /\ seip
    /\ UNCHANGED consoleVars

\* wfi wakes for SEIP with SIE clear; sip is read and the interrupt is
\* dispatched by hand.  (A turn for the timer re-arms it and changes nothing
\* here; what arrives after sip was read ends the next wfi.)
idle_service ==
    /\ pc = "idle" /\ seie /\ seip
    /\ pc' = "claim" /\ ret' = "idle"
    /\ UNCHANGED <<uartVars, rbr, config, pending, claimed, reader>>

\* 0 means there was nothing to service, and nothing to complete.
Claim ==
    /\ pc = "claim"
    /\ pending' = (pending /\ Claimable = 0)
    /\ claimed' = (claimed \/ Claimable # 0)
    /\ pc' = IF Claimable = UART0_IRQ THEN "drain" ELSE ret
    /\ UNCHANGED <<uartVars, rbr, config, ret, reader>>

\* One turn of the loop of uart_intr(): LSR has its data-ready bit set, RBR is
\* read; a line that is committed wakes the reader.
Drain ==
    /\ pc = "drain" /\ rbr # <<>>
    /\ uart_intr(Head(rbr))
    /\ rbr' = Tail(rbr)
    /\ reader' = IF rx_commit' # rx_commit THEN "awake" ELSE reader
    /\ UNCHANGED <<config, pending, claimed, pc, ret>>

Drained ==
    /\ pc = "drain" /\ rbr = <<>>
    /\ pc' = "complete"
    /\ UNCHANGED <<uartVars, rbr, config, pending, claimed, ret, reader>>

\* Mutant: the number written back is not the one claimed; the PLIC ignores it.
Bug_Complete ==
    /\ pc = "complete"
    /\ pc' = IF ret = "idle" /\ reader = "awake" THEN "user" ELSE ret
    /\ UNCHANGED <<uartVars, rbr, config, pending, claimed, ret, reader>>

\* The write to the claim register.  The trap resumes the process it came
\* from; the idle loop scans again and runs a reader that was woken.
Complete ==
    /\ pc = "complete"
    /\ claimed' = FALSE
    /\ pc' = IF ret = "idle" /\ reader = "awake" THEN "user" ELSE ret
    /\ UNCHANGED <<uartVars, rbr, config, pending, ret, reader>>

-----------------------------------------------------------------------------
(* The processes.                                                          *)

\* SYS_READ with input there.
ReadTake ==
    /\ pc = "user" /\ reader = "awake"
    /\ \E size \in 1 .. SIZE : Read(size)
    /\ UNCHANGED <<rbr, config, pending, claimed, pc, ret, reader>>

\* SYS_READ without: the reader sleeps, and the hart idles unless another
\* process is ready.
ReadBlock ==
    /\ pc = "user" /\ reader = "awake" /\ Readable = 0
    /\ reader' = "blocked"
    /\ pc' \in {"user", "idle"}
    /\ UNCHANGED <<uartVars, rbr, config, pending, claimed, ret>>

\* The last other process blocks or exits.
OthersSleep ==
    /\ pc = "user" /\ reader = "blocked"
    /\ pc' = "idle"
    /\ UNCHANGED <<uartVars, rbr, config, pending, claimed, ret, reader>>

-----------------------------------------------------------------------------
Boot == plic_init \/ uart_init \/ EnableExternal
Interrupt == ExternalInterrupt \/ idle_service
plic_dispatch == Claim \/ Drain \/ Drained \/ Complete

ConsoleNext ==
    \/ \E c \in Typed : Receive(c)
    \/ Latch \/ Boot \/ Interrupt \/ plic_dispatch
    \/ ReadTake \/ ReadBlock \/ OthersSleep

ConsoleSpec == ConsoleInit /\ [][ConsoleNext]_consoleVars

\* The kernel's code runs on, the PLIC latches a line that stays high and is
\* not in service, and a hart in user mode (which has SIE set) or in wfi takes
\* a pending interrupt.  No key need be typed and nobody need read.
Fairness ==
    /\ WF_consoleVars(Boot) /\ WF_consoleVars(plic_dispatch)
    /\ WF_consoleVars(~claimed /\ Latch)
    /\ WF_consoleVars(Interrupt)

ConsoleFairSpec == ConsoleSpec /\ Fairness

-----------------------------------------------------------------------------
(* Properties.                                                             *)

\* No interrupt is lost: a byte that waits in the UART, even one typed during
\* boot or between the last look at LSR and the completion, is taken up by
\* the handler.
InputServiced == rbr # <<>> ~> pc = "drain"

\* No request waits in vain: in user mode and in the idle loop, where the hart
\* can take an interrupt, a request the PLIC has latched, during boot or while an
\* earlier one was in service, is one that it takes.
PendingIsTaken == pc \in {"user", "idle"} /\ pending => seie /\ seip

\* The state of the escape filter when it gets to byte k of the FIFO.
EscBefore[k \in 1 .. Len(rbr)] ==
    IF k = 1 THEN esc_state ELSE EscNext(EscBefore[k - 1], rbr[k - 1])

\* From the key to the process: a reader asleep in read() runs again once
\* Enter was typed, also when the whole machine idles in wfi.  An Enter inside
\* an escape sequence belongs to the sequence and wakes nobody.
EnterWakesReader ==
    reader = "blocked"
        /\ (\E k \in 1 .. Len(rbr) : rbr[k] \in {"LF", "CR"} /\ EscBefore[k] = "NORMAL")
        ~> reader = "awake"
=============================================================================
