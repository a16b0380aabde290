SPECIFICATION MCSpec
CONSTANTS
    DST = 6
    SRC = 5
    Bytes = {0, 1, 2}
    SPACE = 1
    MAX_ARGS = 2
    SUFFIX = 2
    ELF = 2
    INT = 256
    PTR_DIGITS = 4
    BUFFER = 3
    Ints <- ByteInts
    Unsigneds = {0, 9, 10, 15, 16, 100, 160, 255}
    Pointers = {0, 255, 4096, 65535}
    MAX_TOKENS = 3
    PAGE_SIZE = 8
    META_SIZE = 2
    INT_SPAN = 64
    HEAP_START = 3
    heap_max = 18
    Sizes = {0, 1, 3, 40}
INVARIANTS
    StringsExact
    OutputExact
    AllocationsDisjoint
PROPERTY
    GrowsOnlyWhenNeeded
\* A format may be complete, and a program that faults in malloc() has ended.
CHECK_DEADLOCK FALSE
