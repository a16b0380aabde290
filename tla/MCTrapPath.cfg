SPECIFICATION Spec
CONSTANT
    MAX_PROCS = 2
INVARIANTS
    ResumesWithOwnRegisters
    UserModeConfined
    KernelWellFormed
