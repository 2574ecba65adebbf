SPECIFICATION Spec
CONSTANTS
    Bases = {"json"}
    Procs = {p1, p2}
    Nobody = Nobody
    Keys <- MCKeys
    Values <- MCValues
    Multiple <- MCMultiple
    Distinct <- MCDistinct
    Locked <- MCLocked
    KindOf <- MCKindOf
    Programs <- MCPrograms
    MaxCalls = 3
    MaxReports = 2
INVARIANT DefinedBeforeUse
CHECK_DEADLOCK FALSE
