\* One run, started in every way and among everything others may do.
SPECIFICATION FairSpec
CONSTANTS
    t1 = t1
    t2 = t2
    t3 = t3
    Me = Me
    Peer = Peer
    NoTask = NoTask
    NoWorker = NoWorker
    Task = {t1, t2, t3}
    Worker = {Me, Peer}
    NumStreams = 2
    StreamOf <- MCStreamOf
    MaxMsg = 3
    DeliveryCap = 0
    Setups <- MCSetups
    MaxFaults = 1
INVARIANTS
    TypeOK
    EmptyMeansEmpty
    PriorityKept
    CountIsExact
    CodeTellsTheRun
PROPERTIES
    RunEnds
    EveryTaskServed
CHECK_DEADLOCK FALSE
