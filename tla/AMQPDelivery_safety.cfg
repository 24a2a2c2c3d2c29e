SPECIFICATION Spec
CONSTANTS
    Consumers = {c1}
    AutoAck = {}
    Callers = {p1, p2}
    MaxTag = 3
    MaxCalls = 2
    Get = Get
SYMMETRY Symmetry
INVARIANTS
    AckedIsSettled
    OpenSpanIsReachable
    EndedForAReason
CHECK_DEADLOCK FALSE
