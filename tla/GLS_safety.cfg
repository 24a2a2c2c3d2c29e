SPECIFICATION Spec
CONSTANTS
    Goroutines = {m, g1}
    Main = m
    Spans = {s1, s2, s3}
    MaxSpans = 2
    MaxSpanStates = 2
    NoSpan = NoSpan
    CtxSpan = CtxSpan
SYMMETRY Symmetry
INVARIANTS
    TypeOK
    EndReachesEveryGoroutine
    SpanStatesConsistent
    CountMatchesChain
    LocalRootIsBottom
    RefusedOnlyWhenCrowded
PROPERTIES
    ParentIsLive
    ImplementsImplicitParent
