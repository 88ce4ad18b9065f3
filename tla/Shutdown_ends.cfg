\* One signal and two threads, a worker that waits inside receive().
SPECIFICATION FairSpec
CONSTANTS
    Setups <- MCEnds
    Signals <- MCSignals
    Handlers <- MCOne
    Callers <- MCThreads
    None = None
    MaxTasks = 2
    h1 = h1
    h2 = h2
    h3 = h3
    t1 = t1
    t2 = t2
PROPERTIES
    ShutdownEnds
