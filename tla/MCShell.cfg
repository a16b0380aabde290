SPECIFICATION ShellFairSpec
CONSTANTS
    MAX_PROCS = 4
    MAX_PID = 9
    RX_SIZE = 1
    NULL = NULL
    rx_buf = rx_buf
    Failures = {}
    Commands = {"init", "sh", "test2", "readtest"}
INVARIANTS
    OneReader
    OnlyShellsPrompt
    NobodyLeftBehind
PROPERTIES
    CommandReturns
    ExitHalts
