SPECIFICATION Spec
CONSTANTS
    Users = {u1, u2}
    Flusher = flusher
    Bases = {"recorder", "json", "console", "pb"}
    Shapes <- MCShapes
    Overlapping = {"console", "pb"}
    MaxTime <- MCTime
    MaxFlushes = 2
SYMMETRY MCSymmetry
INVARIANTS
    ReadableAnytime
    ReplayComplete
    EndTimes
    LineText
    SpanVersionIncremented
CHECK_DEADLOCK FALSE
