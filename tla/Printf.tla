------------------------------- MODULE Printf ------------------------------
(***************************************************************************)
(* The output functions of user programs: printf(), putint(), putptr() and  *)
(* their helpers, user/syscalls.c.                                         *)
(*                                                                         *)
(* A format string is put together from tokens, a literal character or a   *)
(* conversion with its argument; printf() sees only the characters and the *)
(* arguments.  A pointer to a string is an index into Texts, 0 is NULL.    *)
(***************************************************************************)
EXTENDS Integers, Sequences, SequencesExt

CONSTANTS
    INT,            \* 2^32, the width of int and unsigned int
    PTR_DIGITS,     \* sizeof(uintptr_t) * 2, 16
    BUFFER,         \* the size of buffer[], in which digits are collected (16)
    Ints,           \* bound: the int arguments
    Unsigneds,      \* bound: the unsigned arguments
    Pointers,       \* bound: the arguments of %p
    MAX_TOKENS      \* bound: the tokens of a format string

INT_MIN == -(INT \div 2)

\* base ^ k, for every k up to n.
Power(base, n) == LET p[k \in 0 .. n] == IF k = 0 THEN 1 ELSE base * p[k - 1] IN p

\* Every number has its digits: ten decimal ones for 2^32.
ASSUME WidthAssumption ==
    /\ INT \in Nat \ {0} /\ INT % 2 = 0 /\ MAX_TOKENS \in Nat
    /\ PTR_DIGITS \in Nat \ {0} /\ BUFFER \in Nat /\ INT <= Power(10, BUFFER)[BUFFER]
    /\ Ints \subseteq INT_MIN .. INT \div 2 - 1 /\ Unsigneds \subseteq 0 .. INT - 1
    /\ Pointers \subseteq 0 .. Power(16, PTR_DIGITS)[PTR_DIGITS] - 1

Texts == << << >>, <<"%", "d">> >>      \* the strings passed for %s
hex == <<"0", "1", "2", "3", "4", "5", "6", "7", "8", "9", "a", "b", "c", "d", "e", "f">>
Digit(d) == hex[d + 1]

-----------------------------------------------------------------------------
(* The functions.  Each returns what it prints.                            *)

\* The value after each of n turns of the loop that divides it.
Divided(value, base, n) ==
    LET after[k \in 0 .. n] == IF k = 0 THEN value ELSE after[k - 1] \div base IN after

\* The conversion loop: the digits of value, the last one first.
LowDigits(value, base) ==
    LET after == Divided(value, base, BUFFER)
        i == Min({k \in 0 .. BUFFER : after[k] <= 0})
    IN [j \in 1 .. i |-> Digit(after[j - 1] % base)]

\* Mutant: the buffer is printed in the order it was filled.
Bug_print_number(value, base) == IF value = 0 THEN <<"0">> ELSE LowDigits(value, base)

\* print_uint() and print_hex().
print_number(value, base) ==
    IF value = 0 THEN <<"0">> ELSE Reverse(LowDigits(value, base))

\* -num as an int: INT_MIN has no positive counterpart (built with -O0).
Negate(num) == IF num = INT_MIN THEN INT_MIN ELSE -num

putint(num) ==
    IF num = 0 THEN <<"0">>
    ELSE IF num < 0 THEN <<"-">> \o Reverse(LowDigits(Negate(num), 10))
    ELSE Reverse(LowDigits(num, 10))

putptr(value) ==
    LET shifted == Divided(value, 16, PTR_DIGITS)
    IN <<"0", "x">> \o [i \in 1 .. PTR_DIGITS |-> Digit(shifted[PTR_DIGITS - i] % 16)]

Convert(c, arg) ==
    CASE c = "c" -> <<arg>>
      [] c = "s" -> IF arg = 0 THEN <<"(", "n", "u", "l", "l", ")">> ELSE Texts[arg]
      [] c = "d" -> IF arg < 0 THEN <<"-">> \o print_number(Negate(arg) % INT, 10)
                    ELSE print_number(arg, 10)
      [] c = "u" -> print_number(arg, 10)
      [] c = "x" -> print_number(arg, 16)
      [] c = "p" -> putptr(arg)

Conversions == {"c", "s", "d", "u", "x", "p"}

\* What the switch prints for the character behind a %.
Expansion(c, arg) ==
    IF c \in Conversions THEN Convert(c, arg) ELSE IF c = "%" THEN <<"%">> ELSE <<"%", c>>

\* How many arguments a conversion takes with va_arg().
Takes(c) == IF c \in Conversions THEN 1 ELSE 0

\* One turn of printf(): p is the next character, arg the next argument.
PrintTurn(fmt, args, x) ==
    IF x.p > Len(fmt) THEN x
    ELSE IF fmt[x.p] # "%" THEN [x EXCEPT !.p = x.p + 1, !.out = Append(x.out, fmt[x.p])]
    ELSE IF x.p = Len(fmt) THEN [x EXCEPT !.p = x.p + 1]
    ELSE LET c == fmt[x.p + 1]
         IN [p |-> x.p + 2, arg |-> x.arg + Takes(c), out |-> x.out \o Expansion(c, args[x.arg])]

\* A turn takes at least one character.
printf(fmt, args) ==
    LET turn[k \in 0 .. Len(fmt)] ==
            IF k = 0 THEN [p |-> 1, arg |-> 1, out |-> << >>] ELSE PrintTurn(fmt, args, turn[k - 1])
    IN turn[Len(fmt)].out

-----------------------------------------------------------------------------
VARIABLE tokens

Literal(c) == [fmt |-> <<c>>, kind |-> "literal", args |-> << >>]
Conversion(c, args) == [fmt |-> <<"%", c>>, kind |-> c, args |-> args]
LonePercent == [fmt |-> <<"%">>, kind |-> "lone", args |-> << >>]

\* A programmer writes one more token; a lone % can only be the last one.
Write(t) ==
    /\ Len(tokens) < MAX_TOKENS
    /\ \A i \in DOMAIN tokens : tokens[i].kind # "lone"
    /\ tokens' = Append(tokens, t)

PrintfInit == tokens = << >>
PrintfNext ==
    \/ Write(Literal("d")) \/ Write(LonePercent)
    \/ \E c \in {"%", "q"} : Write(Conversion(c, << >>))
    \/ Write(Conversion("c", <<"%">>))
    \/ \E p \in 0 .. Len(Texts) : Write(Conversion("s", <<p>>))
    \/ \E v \in Ints : Write(Conversion("d", <<v>>))
    \/ \E c \in {"u", "x"}, v \in Unsigneds : Write(Conversion(c, <<v>>))
    \/ \E v \in Pointers : Write(Conversion("p", <<v>>))

PrintfSpec == PrintfInit /\ [][PrintfNext]_tokens

Fmt == FlattenSeq([i \in DOMAIN tokens |-> tokens[i].fmt])
Args == FlattenSeq([i \in DOMAIN tokens |-> tokens[i].args])

-----------------------------------------------------------------------------
(* Properties.                                                             *)

\* The numeral of v, of at most max digits: as many as it needs, the first one
\* not 0 unless v is.
Numeral(v, base, max) ==
    LET p == Power(base, max)
        n == CHOOSE k \in 1 .. max : v < p[k] /\ (k > 1 => v >= p[k - 1])
    IN [i \in 1 .. n |-> Digit((v \div p[n - i]) % base)]

Decimal(v) == IF v < 0 THEN <<"-">> \o Numeral(-v, 10, BUFFER) ELSE Numeral(v, 10, BUFFER)

\* What a token stands for, on its own.
Meaning(t) ==
    CASE t.kind = "literal" -> t.fmt
      [] t.kind = "%" -> <<"%">>
      [] t.kind = "lone" -> << >>
      [] t.kind = "c" -> t.args
      [] t.kind = "s" -> IF t.args = <<0>> THEN <<"(", "n", "u", "l", "l", ")">> ELSE Texts[t.args[1]]
      [] t.kind = "d" -> Decimal(t.args[1])
      [] t.kind = "u" -> Numeral(t.args[1], 10, BUFFER)
      [] t.kind = "x" -> Numeral(t.args[1], 16, BUFFER)
      [] t.kind = "p" -> LET digits == Numeral(t.args[1], 16, PTR_DIGITS)
                         IN <<"0", "x">> \o [i \in 1 .. PTR_DIGITS - Len(digits) |-> "0"] \o digits
      [] OTHER -> t.fmt

\* printf() prints every token as it stands for itself: %% and unknown
\* conversions take no argument and shift none, text that was printed is not
\* read as format again, and INT_MIN comes out right.
PrintfIsTokenwise ==
    printf(Fmt, Args) = FlattenSeq([i \in DOMAIN tokens |-> Meaning(tokens[i])])

PutintArgs == {tokens[i].args[1] : i \in {j \in DOMAIN tokens : tokens[j].kind = "d"}}

\* putint() prints the decimal numeral of every int but the smallest, of which
\* it prints the sign alone.
PutintIsDecimal ==
    \A v \in PutintArgs : putint(v) = IF v = INT_MIN THEN <<"-">> ELSE Decimal(v)

\* Programs print what they mean to.
OutputExact == PrintfIsTokenwise /\ PutintIsDecimal
=============================================================================
