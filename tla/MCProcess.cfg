SPECIFICATION FairSpec
CONSTANTS
    MAX_PROCS = 3
    MAX_PID = 5
    RX_SIZE = 2
    NULL = NULL
    rx_buf = rx_buf
    Failures = {"oom", "bad_elf", "bad_syscall"}
INVARIANTS
    TypeOK
    RunningIsCurrent
    TableConsistent
    NoLostWakeups
    IdleWaitsForConsole
PROPERTIES
    ZombieStaysForParent
    ImplementsProcTree
    ReadyRuns
    BlockedCallsReturn
