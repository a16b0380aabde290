SPECIFICATION Spec
VIEW UpToFrameNames
CONSTANTS
    MAX_PROCS = 3
    RamSizes = {22, 24, 25, 26, 27, 36}
    Images = {1, 2}
    Increments = {9, 1000}
    PAGE = 2
    ROOT = 3
    WIDTH = 12
    FAN = 4
    USER = 2
    MmioPage = 40
INVARIANTS
    FramesExclusive
    FramesAccounted
    TablesWellFormed
    HeapMatchesBreak
    SatpValid
