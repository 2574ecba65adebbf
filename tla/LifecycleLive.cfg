SPECIFICATION FairSpec
CONSTANTS
    Users = {u1}
    Flushers = {f1}
    MaxLoggers = 1
    MaxOps = 3
    UserOps = {"fork", "detach", "info", "done", "flush"}
    AfterDoneOps = {"flush"}
    Joined = TRUE
    Buffered = TRUE
    MaxExpiries = 1
    SyncFlush = FALSE
INVARIANTS
    FlushExclusive
    TimerFlagBacked
PROPERTIES
    CallsReturn
    DoneReachesBase
CHECK_DEADLOCK FALSE
