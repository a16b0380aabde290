------------------------------ MODULE MCPages ------------------------------
(***************************************************************************)
(* Pages for TLC, one module at a time: the bitmap of the frames (Pmm), the *)
(* checks of user pointers (UserMemory) and the loading of an image (Elf).  *)
(***************************************************************************)
EXTENDS Pmm, UserMemory, Elf

CONSTANT Vaddrs

HeaderRecords ==
    [load : BOOLEAN, vaddr : Vaddrs, filesz : 0 .. 3, memsz : 0 .. 4,
     flags : {{"R", "X"}, {"R", "W"}, {"R", "W", "X"}}]

\* load_elf() looks at no other field of a header that is not PT_LOAD.
SmallHeaders ==
    {h \in HeaderRecords : /\ h.filesz <= h.memsz
                           /\ ~h.load => h.filesz = 3 /\ h.memsz = 4 /\ h.flags = {"R", "X"}}

VARIABLE part

MCInit ==
    /\ Init /\ UserInit /\ ElfInit
    /\ part \in {"pmm", "user", "elf"}
    /\ part # "elf" => ~magic /\ phdr = <<CHOOSE h \in Headers : ~h.load>>

MCNext ==
    \/ part = "pmm" /\ Next /\ UNCHANGED <<pte, nul, elfVars, part>>
    \/ part = "user" /\ UserNext /\ UNCHANGED <<vars, elfVars, part>>
    \/ part = "elf" /\ ElfNext /\ UNCHANGED <<vars, pte, nul, part>>

MCSpec == MCInit /\ [][MCNext]_<<vars, pte, nul, elfVars, part>>
=============================================================================
