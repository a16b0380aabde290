-------------------------------- MODULE Uart --------------------------------
(***************************************************************************)
(* The UART receive path: the ring, the line editing and the escape filter *)
(* of kernel/arch/riscv/uart.c, and the console half of SYS_READ that      *)
(* empties the ring.                                                       *)
(*                                                                         *)
(* A byte is one representative of each class the driver tells apart.  The *)
(* handler drains the device without a reader running in between; bytes    *)
(* that come one per interrupt reach the same states, so one action is one *)
(* turn of its loop.  The counters are free-running and wrap at WRAP, 2^32 *)
(* in the code.                                                            *)
(***************************************************************************)
EXTENDS Integers, Sequences

CONSTANTS
    SIZE,       \* UART_RX_SIZE
    WRAP        \* the modulus of the uint32_t counters

ASSUME RingAssumption ==
    /\ SIZE \in Nat \ {0} /\ WRAP \in Nat
    /\ SIZE < WRAP /\ WRAP % SIZE = 0

Text == {"[", "A", "1", "HI"}    \* '[', a letter, a digit, a byte >= 0x80
Keys == Text \cup {"LF", "CR", "BS", "DEL", "ESC", "TAB"}
Final == {"[", "A"}              \* 0x40 .. 0x7e: ends an escape sequence

VARIABLES
    rx_buf, rx_head, rx_tail, rx_commit,
    esc_state,
    screen      \* what the terminal shows of the line: the sbi_putchar() echo

uartVars == <<rx_buf, rx_head, rx_tail, rx_commit, esc_state, screen>>

Init ==
    /\ rx_buf = [s \in 0 .. SIZE - 1 |-> "NUL"]
    /\ rx_head = 0 /\ rx_tail = 0 /\ rx_commit = 0
    /\ esc_state = "NORMAL"
    /\ screen = <<>>

-----------------------------------------------------------------------------
(* Unsigned arithmetic modulo WRAP.                                        *)

Diff(a, b) == IF a >= b THEN a - b ELSE a - b + WRAP
Add(a, n) == IF a + n >= WRAP THEN a + n - WRAP ELSE a + n

Inc(a) == IF a = WRAP - 1 THEN 0 ELSE a + 1
Dec(a) == IF a = 0 THEN WRAP - 1 ELSE a - 1
Slot(a) == a % SIZE

\* The bytes between two counters.
Bytes(from, to) ==
    [k \in 1 .. Diff(to, from) |-> rx_buf[Slot(Add(from, k - 1))]]

Store(c) ==
    /\ rx_buf' = [rx_buf EXCEPT ![Slot(rx_head)] = c]
    /\ rx_head' = Inc(rx_head)

-----------------------------------------------------------------------------
(* uart_intr().                                                            *)

\* Inside an escape sequence a byte belongs to it, whatever its value.
EscNext(state, c) ==
    CASE state = "GOT_ESC" -> IF c = "[" THEN "IN_SEQ" ELSE "NORMAL"
      [] state = "IN_SEQ"  -> IF c \in Final THEN "NORMAL" ELSE "IN_SEQ"
      [] OTHER             -> IF c = "ESC" THEN "GOT_ESC" ELSE "NORMAL"

Escape(c) ==
    /\ esc_state # "NORMAL" \/ c = "ESC"
    /\ esc_state' = EscNext(esc_state, c)
    /\ UNCHANGED <<rx_buf, rx_head, rx_tail, rx_commit, screen>>

\* Enter may use the last free slot; the commit wakes the readers.
Enter(c) ==
    /\ c \in {"LF", "CR"} /\ esc_state = "NORMAL"
    /\ \/ /\ Diff(rx_head, rx_tail) < SIZE
          /\ Store("LF")
          /\ rx_commit' = rx_head'
          /\ screen' = <<>>
       \/ /\ Diff(rx_head, rx_tail) >= SIZE
          /\ UNCHANGED <<rx_buf, rx_head, rx_commit, screen>>
    /\ UNCHANGED <<rx_tail, esc_state>>

\* "\b \b" takes the last character off the terminal's line.
Backspace(c) ==
    /\ c \in {"BS", "DEL"} /\ esc_state = "NORMAL"
    /\ \/ /\ rx_head # rx_commit
          /\ rx_head' = Dec(rx_head)
          /\ screen' = SubSeq(screen, 1, Len(screen) - 1)
       \/ rx_head = rx_commit /\ UNCHANGED <<rx_head, screen>>
    /\ UNCHANGED <<rx_buf, rx_tail, rx_commit, esc_state>>

Control(c) == c = "TAB" /\ esc_state = "NORMAL" /\ UNCHANGED uartVars

\* Mutants: an ordinary byte takes the last slot; a dropped byte is echoed.
Bug_NormalLastSlot(c) ==
    /\ c \in Text /\ esc_state = "NORMAL"
    /\ Diff(rx_head, rx_tail) < SIZE
    /\ Store(c)
    /\ screen' = Append(screen, c)
    /\ UNCHANGED <<rx_tail, rx_commit, esc_state>>

Bug_NormalEcho(c) ==
    /\ c \in Text /\ esc_state = "NORMAL"
    /\ \/ Diff(rx_head, rx_tail) < SIZE - 1 /\ Store(c)
       \/ Diff(rx_head, rx_tail) >= SIZE - 1 /\ UNCHANGED <<rx_buf, rx_head>>
    /\ screen' = Append(screen, c)
    /\ UNCHANGED <<rx_tail, rx_commit, esc_state>>

\* An ordinary byte never takes the last free slot.
Normal(c) ==
    /\ c \in Text /\ esc_state = "NORMAL"
    /\ \/ /\ Diff(rx_head, rx_tail) < SIZE - 1
          /\ Store(c)
          /\ screen' = Append(screen, c)
       \/ /\ Diff(rx_head, rx_tail) >= SIZE - 1
          /\ UNCHANGED <<rx_buf, rx_head, screen>>
    /\ UNCHANGED <<rx_tail, rx_commit, esc_state>>

uart_intr(c) == Escape(c) \/ Enter(c) \/ Backspace(c) \/ Control(c) \/ Normal(c)

-----------------------------------------------------------------------------
(* SYS_READ on the console, by uart_getc().                                *)

Readable == Diff(rx_commit, rx_tail)

\* Mutant: a read goes on past the newline.
Bug_ReadsOn(n, size) == n < size /\ n < Readable

\* After n bytes the loop of SYS_READ goes on: the buffer has room, the last
\* byte was no newline and uart_getc() has another one.
ReadsOn(n, size) ==
    n < size /\ n < Readable /\ Bytes(rx_tail, rx_commit)[n] # "LF"

\* It takes bytes up to the first n at which the loop stops.
Read(size) ==
    /\ Readable > 0
    /\ \E n \in 1 .. size :
         /\ ~ReadsOn(n, size)
         /\ \A m \in 1 .. n - 1 : ReadsOn(m, size)
         /\ rx_tail' = Add(rx_tail, n)
    /\ UNCHANGED <<rx_buf, rx_head, rx_commit, esc_state, screen>>

Next ==
    \/ \E c \in Keys : uart_intr(c)
    \/ \E size \in 1 .. SIZE : Read(size)

Spec == Init /\ [][Next]_uartVars

-----------------------------------------------------------------------------
(* Properties.                                                             *)

Counter == 0 .. WRAP - 1

\* Every variable holds a value its C type and its uses allow.
TypeOK ==
    /\ rx_buf \in [0 .. SIZE - 1 -> Text \cup {"LF", "NUL"}]
    /\ rx_head \in Counter /\ rx_tail \in Counter /\ rx_commit \in Counter
    /\ esc_state \in {"NORMAL", "GOT_ESC", "IN_SEQ"}
    /\ screen \in Seq(Text)

\* tail <= commit <= head and head - tail <= UART_RX_SIZE, the invariants the
\* driver states, across the wrap of the counters and the decrements of
\* Backspace.
RingOrder ==
    /\ Diff(rx_head, rx_tail) <= SIZE
    /\ Diff(rx_commit, rx_tail) <= Diff(rx_head, rx_tail)

\* While a line is being typed there is a slot for the Enter that ends it: a
\* ring that is full has something for a reader to take, so the typist and
\* the reader never wait for each other.
RoomForEnter == rx_head # rx_commit => Diff(rx_head, rx_tail) < SIZE

\* The ring as the driver means it: counters in order, and room for Enter.
RingSound == RingOrder /\ RoomForEnter

\* Readers get whole lines: what is committed ends with a newline, and what is
\* being typed holds none, whichever slots the ring has recycled.
WholeLines ==
    /\ rx_commit # rx_tail => rx_buf[Slot(Dec(rx_commit))] = "LF"
    /\ \A k \in 1 .. Diff(rx_head, rx_commit) : Bytes(rx_commit, rx_head)[k] \in Text

\* The terminal shows exactly the line a reader will get: bytes dropped for
\* want of room, escape sequences and refused Backspaces leave no trace.
EchoIsTheLine == screen = Bytes(rx_commit, rx_head)

\* Typist and reader see the same text: whole lines in the ring, the unfinished
\* one on the screen, and nothing else in either.
LinesIntact == TypeOK /\ WholeLines /\ EchoIsTheLine

Lines == INSTANCE LineDiscipline WITH
    CAP   <- SIZE,
    lines <- Bytes(rx_tail, rx_commit),
    edit  <- Bytes(rx_commit, rx_head)

\* The ring with its three wrapping counters implements the line discipline.
ImplementsLineDiscipline == Lines!LineSpec
=============================================================================
