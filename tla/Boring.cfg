SPECIFICATION Spec
CONSTANTS
    Procs = {p1, p2, p3}
    Spans = {req, sub}
    Request = req
    MaxCalls = 6
INVARIANTS
    ErrorsSeen
    ErrorsReachRequest
SYMMETRY Symmetry
CHECK_DEADLOCK FALSE
