SPECIFICATION Spec
CONSTANTS
    Goroutines = {g1}
    MaxStreams = 1
    MaxSpans = 4
INVARIANTS
    FinishIsOneShot
CHECK_DEADLOCK FALSE
