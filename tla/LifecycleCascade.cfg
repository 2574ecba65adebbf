SPECIFICATION Spec
CONSTANTS
    Users = {u1}
    Flushers = {f1}
    MaxLoggers = 2
    MaxOps = 4
    UserOps = {"fork", "flush", "done"}
    AfterDoneOps = {}
    Joined = TRUE
    Buffered = TRUE
    MaxExpiries = 0
    SyncFlush = TRUE
INVARIANT DoneCascades
CHECK_DEADLOCK FALSE
