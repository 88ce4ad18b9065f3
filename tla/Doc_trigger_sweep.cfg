\* A trigger runs a task while a sweep releases it.
SPECIFICATION Spec
CONSTANTS
    t1 = t1
    t2 = t2
    w1 = w1
    w2 = w2
    w3 = w3
    w4 = w4
    x1 = x1
    NoTask = NoTask
    NoWorker = NoWorker
    Task = {t1}
    Worker = {w1, w2}
    Trigger = {x1}
    Slow = {}
    Sweeper = {w1, w2}
    MayStop = {w1}
    NumStreams = 1
    StreamOf <- MCOneStream
    Serves <- MCServesAll
    Swept <- MCAllStreams
    MaxMsg = 2
    DeliveryCap = 2
    MaxDeliveries = 2
    SweepLimit = 2
    ResetFrom = {}
    FaultSteps = {}
    MaxFaults = 0
    MaxResets = 0
    MaxVanish = 0
INVARIANTS
    ExclusiveRun
