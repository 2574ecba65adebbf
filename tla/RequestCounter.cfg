SPECIFICATION FairSpec
CONSTANTS
    Procs = {p1, p2}
    Traces = {t1, t2}
    Spans = {s1, s2}
    NoSpan = NoSpan
    All = All
    Nobody = Nobody
INVARIANTS
    CounterInv
    Distinct
PROPERTIES
    Numbered
    CallsReturn
