SPECIFICATION InboundSpec
CONSTANTS
    Goroutines = {g1, g2}
    Name = name
    Other = other
    MaxChanges = 2
    MaxOps = 4
    MaxRequests = 2
    MaxDepth = 5
    MaxErrors = 2
    MaxSpans = 2
SYMMETRY GoroutinesAlike
INVARIANTS
    AnswerIsCurrent
    WrapperIsFaithfulUnlessMisled
    SpanEndedBetweenRequests
    ErrorsReachServerSpan
PROPERTY
    RouteReachesRecordingSpan
CHECK_DEADLOCK FALSE
