SPECIFICATION SkyWalkingSpec
CONSTANTS
    Makers = {c1}
    NBuckets = 3
    MaxCount = 1
    Goroutines = {g1, g2}
    MaxSpans = 2
    MaxRequests = 2
    MaxFrames = 3
    MaxStreams = 2
    MaxStreamSpans = 4
    MaxSocketSpans = 3
    Databases = {d1, d2}
    MaxHandles = 3
    MaxOpens = 2
    Opts = {o1, o2}
    MaxClients = 2
    MaxCommands = 2
INVARIANTS
    RegisteredIsCollected
    MetersShowTheRuntime
    SpansEndWithTheirCalls
    StatusIsSent
    StreamIsReportedWhenOver
    StatementNamesItsDatabase
    AsyncSpansMatchTheirOwners
CHECK_DEADLOCK FALSE
