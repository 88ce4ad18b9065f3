\* One task that may take down up to three workers, a cap of two starts, and two
\* Redis commands that fail, but none of StrandingSteps.
SPECIFICATION Spec
CONSTANTS
    t1 = t1
    t2 = t2
    w1 = w1
    w2 = w2
    w3 = w3
    w4 = w4
    x1 = x1
    NoTask = NoTask
    NoWorker = NoWorker
    Task = {t1}
    Worker = {w1, w2, w3, w4}
    Trigger = {}
    Slow = {}
    Sweeper = {w1, w2, w3, w4}
    MayStop = {w1, w2, w3}
    NumStreams = 1
    StreamOf <- MCOneStream
    Serves <- MCServesAll
    Swept <- MCAllStreams
    MaxMsg = 2
    DeliveryCap = 3
    MaxDeliveries = 2
    SweepLimit = 2
    ResetFrom = {}
    FaultSteps <- MCSafeFaults
    MaxFaults = 2
    MaxResets = 0
    MaxVanish = 0
SYMMETRY MCSymmetry
INVARIANTS
    NothingStranded
PROPERTIES
    AbandonedAfterStarts
    ResultIsFinal
