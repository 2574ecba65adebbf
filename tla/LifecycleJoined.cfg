SPECIFICATION Spec
CONSTANTS
    Users = {u1, u2}
    Flushers = {f1, f2}
    MaxLoggers = 2
    MaxOps = 6
    UserOps = {"fork", "detach", "sub", "info", "error", "boring", "done"}
    AfterDoneOps = {}
    Joined = TRUE
    Buffered = TRUE
    MaxExpiries = 0
    SyncFlush = FALSE
INVARIANTS
    TypeOK
    DoneFlushes
    DoneCascades
    WaitingHasWaker
    FinalOnlyAfterDone
    NoFalseAlarm
    
    KnownIsListed
SYMMETRY Symmetry
CHECK_DEADLOCK FALSE
