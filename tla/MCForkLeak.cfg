SPECIFICATION Spec
VIEW UpToFrameNames
CONSTANTS
    MAX_PROCS = 2
    RamSizes = {22, 24, 25, 26, 27}
    Images = {1, 2}
    Increments = {9}
    PAGE = 2
    ROOT = 3
    WIDTH = 12
    FAN = 4
    USER = 2
    MmioPage = 40
INVARIANT
    ForkFailureLosesNothing
