\* Workers alone: two tasks on two streams, two of three workers may die anywhere.
SPECIFICATION Spec
CONSTANTS
    t1 = t1
    t2 = t2
    w1 = w1
    w2 = w2
    w3 = w3
    w4 = w4
    x1 = x1
    NoTask = NoTask
    NoWorker = NoWorker
    Task = {t1, t2}
    Worker = {w1, w2, w3}
    Trigger = {}
    Slow = {}
    Sweeper = {w1, w2, w3}
    MayStop = {w1, w2}
    NumStreams = 2
    StreamOf <- MCTwoStreams
    Serves <- MCServesAll
    Swept <- MCAllStreams
    MaxMsg = 2
    DeliveryCap = 0
    MaxDeliveries = 0
    SweepLimit = 2
    ResetFrom = {}
    FaultSteps = {}
    MaxFaults = 0
    MaxResets = 0
    MaxVanish = 0
SYMMETRY MCSymmetry
INVARIANTS
    TypeOK
    Custody
    ExclusiveRun
    OneMessage
PROPERTIES
    PendingOnlyAcked
    ImplementsLifecycle
