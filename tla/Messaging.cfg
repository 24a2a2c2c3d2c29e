SPECIFICATION MessagingSpec
CONSTANTS
    Publishers = {p1, p2, p3}
    MaxPublishes = 4
    None = None
    MaxSlices = 3
    MaxLog = 4
    MaxBatch = 2
    Callers = {c1}
    SDK = {k1, k2}
    MaxSends = 2
    MaxSpans = 4
    MaxDepth = 2
    Goroutines = {g1, g2}
    Channels = {ch1, ch2}
    Queues = {q1, q2}
    Tags = {t1}
    MaxConsumes = 3
INVARIANTS
    OwnContextUnlessOverlapped
    MessagesAreTraced
    ContextsAreOwn
    
    DeliveryNamesItsQueue
SYMMETRY NamesAlike
CHECK_DEADLOCK FALSE
