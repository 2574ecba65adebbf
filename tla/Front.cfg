SPECIFICATION Spec
CONSTANTS
    Goroutines = {g1, g2}
    Callers = {g1, g2}
    Times = {1, 2, 3}
    Bases = {"A", "B", "C"}
    BufferedBases = {"B"}
    Callbacks <- MCCallbacks
    Programs <- MCPrograms
SYMMETRY MCSymmetry
INVARIANTS
    CallbacksCalled
    WritersFlushed
    BasesAsAsked
    
    CodesDistinct
    IdentifiersDistinct
    
    LinesAsStarted
    EndCovers
PROPERTIES
    CallbacksNotShared
    EndTimesAreMaxima
CHECK_DEADLOCK FALSE
