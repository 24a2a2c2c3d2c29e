SPECIFICATION FairSpec
CONSTANTS
    Goroutines = {m, g1}
    Main = m
    Spans = {s1, s2}
    MaxSpans = 1
    MaxSpanStates = 1
    NoSpan = NoSpan
    CtxSpan = CtxSpan
PROPERTIES
    HookReturns
