SPECIFICATION FairSpec
CONSTANTS
    Consumers = {c1, c2}
    AutoAck = {c2}
    Callers = {p1}
    MaxTag = 2
    MaxCalls = 2
    Get = Get
PROPERTIES
    ShutdownEndsSpans
CHECK_DEADLOCK FALSE
