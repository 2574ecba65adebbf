SPECIFICATION Spec
CONSTANTS
    Bases = {"recorder", "json", "console", "pb"}
    Procs = {p1, p2}
    Nobody = Nobody
    Keys <- MCKeys
    Values <- MCValues
    Multiple <- MCMultiple
    Distinct <- MCDistinct
    Locked <- MCLocked
    KindOf <- MCKindOf
    Programs <- MCPrograms
    MaxCalls = 3
    MaxReports = 2
INVARIANTS
    ReplayAgrees
    EventsComplete
    Replayable
PROPERTIES
    RecorderKeeps
    JsonKeeps
    ConsoleKeeps
SYMMETRY Symmetry
CHECK_DEADLOCK FALSE
