SPECIFICATION OutboundSpec
CONSTANTS
    MaxLog = 4
    MaxRPCs = 3
    MaxMessages = 1
    Databases = {d1, d2}
    Queries = {q1}
    MaxHandles = 4
    MaxLines = 3
    ContentCaptureLimit = 6
    SuffixLen = 2
    MaxStreams = 1
    Indexes = {0, 1}
    MaxFed = 7
SYMMETRY DatabasesAlike
INVARIANTS
    TreeMirrorsCalls
    FailureIsMarked
    SpanLivesWithItsRPC
    SpanDescribesItsStatement
    DurationMirrorsSpan
    StreamSpanIsTrue
    CaptureIsBoundedAndExact
CHECK_DEADLOCK FALSE
