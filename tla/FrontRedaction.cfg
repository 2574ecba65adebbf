SPECIFICATION Spec
CONSTANTS
    Goroutines = {g1, g2}
    Callers = {g1, g2}
    Times = {1, 2, 3}
    Bases = {"A", "B", "C"}
    BufferedBases = {"B"}
    Callbacks <- MCCallbacks
    Programs <- MCRedacting
SYMMETRY MCSymmetry
INVARIANT RedactedByOwnLogger
CHECK_DEADLOCK FALSE
