---------------------------- MODULE UserMemory ----------------------------
(***************************************************************************)
(* The checks of the pointers a program passes to a system call:            *)
(* user_range_ok() and user_str_ok() of trap_handler.c on vmm_lookup() of   *)
(* vmm.c, against what the MMU will do with the same addresses.             *)
(*                                                                         *)
(* Addresses are unsigned integers modulo WORD (2^64); vmm_lookup() sees    *)
(* them modulo VSPACE (2^39, VPN() masks the rest), while the MMU faults on *)
(* an address that is not below it.  (Sv39 maps its upper half to the top   *)
(* of the word instead; user mappings are all below 2^31.)                  *)
(***************************************************************************)
EXTENDS Integers, FiniteSets, PageSize

CONSTANTS
    VSPACE,     \* 2^39
    WORD,       \* 2^64
    MAX_LEN,    \* bound: the lengths passed (uint32_t in the code)
    MAX_STR     \* bound: the limit of user_str_ok() (256)

ASSUME AddressAssumption ==
    /\ PAGE_SIZE \in Nat \ {0} /\ VSPACE \in Nat \ {0} /\ WORD \in Nat
    /\ VSPACE % PAGE_SIZE = 0 /\ WORD % VSPACE = 0 /\ VSPACE < WORD
    /\ MAX_LEN \in Nat /\ MAX_LEN + PAGE_SIZE <= WORD
    /\ MAX_STR \in 0 .. WORD - 1

Addresses == 0 .. WORD - 1
VirtualPages == 0 .. VSPACE \div PAGE_SIZE - 1

VARIABLES
    pte,        \* the leaf entry of every page: its flags, {} if not valid
    nul         \* the addresses that hold a NUL

Flags == {{}, {"V", "U", "R"}, {"V", "U", "R", "W"}, {"V", "R", "W"}}

UserInit == pte = [p \in VirtualPages |-> {}] /\ nul = {}

\* map_page() and vmm_unmap_range() change an entry, programs change bytes.
Map(p) == \E f \in Flags : pte' = [pte EXCEPT ![p] = f] /\ UNCHANGED nul
Store(a) == nul' \in {nul \cup {a}, nul \ {a}} /\ UNCHANGED pte

UserNext == (\E p \in VirtualPages : Map(p)) \/ (\E a \in 0 .. VSPACE - 1 : Store(a))

UserSpec == UserInit /\ [][UserNext]_<<pte, nul>>

-----------------------------------------------------------------------------
vmm_lookup(va) == pte[(va % VSPACE) \div PAGE_SIZE]

Down(va) == va - (va % PAGE_SIZE)                      \* va & ~0xFFF

\* Mutant: the end of the range is rounded down.
Bug_RangeEnd(va, len) == Down((va + len) % WORD)

RangeEnd(va, len) == Down((va + len + PAGE_SIZE - 1) % WORD)

\* The page of the address is valid, the user's, and has the permission.
Granted(a, need) == {"V", "U", need} \subseteq vmm_lookup(a)

user_range_ok(va, len, need) ==
    /\ va # 0
    /\ \A p \in {q \in Down(va) .. RangeEnd(va, len) - 1 : q % PAGE_SIZE = 0} : Granted(p, need)

\* One turn of user_str_ok(): the check of the byte, then the read of it, which
\* faults where the MMU knows no such address.
StrTurn(a) ==
    IF ~user_range_ok(a, 1, "R") THEN "no"
    ELSE IF a >= VSPACE THEN "fault"
    ELSE IF a \in nul THEN "yes" ELSE "more"

\* Some turn ends the loop with r.
Ends(s, max, r) ==
    \E n \in 0 .. max - 1 :
        /\ StrTurn((s + n) % WORD) = r
        /\ \A k \in 0 .. n - 1 : StrTurn((s + k) % WORD) = "more"

user_str_ok(s, max) ==
    IF Ends(s, max, "yes") THEN "yes" ELSE IF Ends(s, max, "fault") THEN "fault" ELSE "no"

-----------------------------------------------------------------------------
(* Properties.                                                             *)

\* The MMU lets a user access of this kind through.
Accessible(a, need) ==
    a < VSPACE /\ {"V", "U", need} \subseteq pte[a \div PAGE_SIZE]

\* The page-wise check is the byte-wise one, whatever the alignment of both ends
\* and whichever pages lie between: it accepts a range just when the page of
\* every byte grants the access.  NULL is always refused, and a range whose
\* rounded end wraps around the word is accepted without a look at any page.
RangeCheckByteWise ==
    \A va \in Addresses, len \in 1 .. MAX_LEN, need \in {"R", "W"} :
        user_range_ok(va, len, need) <=>
            /\ va # 0
            /\ \/ va + len + PAGE_SIZE - 1 >= WORD
               \/ \A a \in va .. va + len - 1 : Granted(a, need)

\* For a range inside the address space it is exactly what the MMU allows.  (Of
\* the ranges that leave it, it accepts those that wrap and those whose pages
\* modulo VSPACE are mapped; the access then faults in the kernel.)
RangeCheckExact ==
    \A va \in 0 .. VSPACE - 1, len \in 1 .. MAX_LEN, need \in {"R", "W"} :
        va + len <= VSPACE =>
            (user_range_ok(va, len, need) <=>
               va # 0 /\ \A a \in va .. va + len - 1 : Accessible(a, need))

\* Wherever a name starts, it is accepted just when it can be read to its first
\* NUL within max bytes, and user_str_ok() itself faults on no name that ends
\* inside the address space.
StringCheckExact ==
    \A s \in Addresses :
        /\ user_str_ok(s, MAX_STR) = "yes" <=>
              /\ s # 0
              /\ \E n \in 0 .. MAX_STR - 1 :
                    /\ s + n \in nul
                    /\ \A k \in 0 .. n - 1 : s + k \notin nul
                    /\ \A a \in s .. s + n : Accessible(a, "R")
        /\ s + MAX_STR <= VSPACE => user_str_ok(s, MAX_STR) # "fault"

\* The pointer checks refuse nothing a program may pass; what they accept inside
\* the address space the kernel can use, and what they accept outside it is
\* exactly the wrapping ranges and the aliases of mapped pages.
PointerChecksExact == RangeCheckByteWise /\ RangeCheckExact /\ StringCheckExact
=============================================================================
