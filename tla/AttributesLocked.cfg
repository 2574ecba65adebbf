SPECIFICATION Spec
CONSTANTS
    Bases = {"pb"}
    Procs = {p1, p2}
    Nobody = Nobody
    Keys <- MCKeys
    Values <- MCValues
    Multiple <- MCMultiple
    Distinct <- MCDistinct
    Locked <- MCLocked
    KindOf <- MCKindOf
    Programs <- MCPrograms
    MaxCalls = 3
    MaxReports = 2
INVARIANT LockedKeepsFirst
CHECK_DEADLOCK FALSE
