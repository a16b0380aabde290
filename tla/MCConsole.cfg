SPECIFICATION MCSpec
CONSTANTS
    SIZE = 4
    WRAP = 8
    FIFO = 2
    Typed = {"[", "LF", "BS", "ESC"}
INVARIANTS
    RingSound
    LinesIntact
    PendingIsTaken
PROPERTIES
    ImplementsLineDiscipline
    InputServiced
    EnterWakesReader
