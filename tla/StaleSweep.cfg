\* Two sweeps over two streams in pages of one, three deliveries in all.
SPECIFICATION FairSpec
CONSTANTS
    Sweeper = {a, b}
    Streams = 2
    PageSize = 1
    Limit = 2
    MaxId = 2
    MaxDelivered = 3
    MaxSweeps = 1
    a = a
    b = b
INVARIANTS
    NothingLeftBehind
PROPERTIES
    SweepEnds
CHECK_DEADLOCK FALSE
