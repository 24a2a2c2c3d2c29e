SPECIFICATION FairSpec
CONSTANT
    MaxSignals = 3
INVARIANTS
    ShutdownReachesEveryProvider
PROPERTIES
    SignalIsFollowedByShutdown
    ForceQuitWorks
CHECK_DEADLOCK FALSE
