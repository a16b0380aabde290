SPECIFICATION MCSpec
CONSTANTS
    NAME_MAX = 2
    HEADER = 1
    ENTRY = 1
    Char <- MCChar
    Inputs <- MCInputs
    MAX_PROCS = 2
    FD_MAX = 5
    OpenNames <- MCNames
    FdArgs <- MCFds
    MAX_SIZE = 2
INVARIANTS
    DescriptorsSound
    LookupFindsTheFile
PROPERTY
    ImplementsFileTable
