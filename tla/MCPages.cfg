SPECIFICATION MCSpec
CONSTANTS
    PAGE_SIZE = 2
    PHYSICAL_RAM_START = 6
    TOTAL_PAGES = 16
    end = 14
    VSPACE = 6
    WORD = 12
    MAX_LEN = 5
    MAX_STR = 3
    PAGES = 5
    Vaddrs = {0, 4, 6}
    Headers <- SmallHeaders
    MAX_HEADERS = 2
INVARIANTS
    BitmapSound
    PointerChecksExact
    AlignedImageInPlace
    HeapAboveImage
PROPERTY
    ImplementsFrameSet
\* load_elf() has returned.
CHECK_DEADLOCK FALSE
