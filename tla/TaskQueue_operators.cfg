\* Resets, deletions and expiry beside workers and a trigger.
SPECIFICATION Spec
CONSTANTS
    t1 = t1
    t2 = t2
    w1 = w1
    w2 = w2
    w3 = w3
    w4 = w4
    x1 = x1
    NoTask = NoTask
    NoWorker = NoWorker
    Task = {t1}
    Worker = {w1, w2}
    Trigger = {x1}
    Slow = {}
    Sweeper = {}
    MayStop = {w1}
    NumStreams = 1
    StreamOf <- MCOneStream
    Serves <- MCServesAll
    Swept <- MCAllStreams
    MaxMsg = 4
    DeliveryCap = 2
    MaxDeliveries = 2
    SweepLimit = 2
    ResetFrom = {"FAILED"}
    FaultSteps = {}
    MaxFaults = 0
    MaxResets = 2
    MaxVanish = 1
INVARIANTS
    ExclusiveUntilReset
    NothingStranded
