\* Each setup of MCSetups: the writers of the hash and of the index, a rebuild,
\* results that expire, deletes, a purge and a task that is given up.
SPECIFICATION Spec
CONSTANTS
    Tasks = {t1, t2}
    QueueOf <- MCQueueOf
    Backend = all
    Default = default
    Setups <- MCSetups
    MaxRuns = 2
    t1 = t1
    t2 = t2
    all = all
    default = default
    urgent = urgent
INVARIANTS
    TypeOK
    IndexAgrees
    BuiltMeansCovered
    FinishedCountIsExact
    WaitingIsStored
PROPERTIES
    PurgeSparesLive
CHECK_DEADLOCK FALSE
