\* Three signals and two threads ask at once; the handlers may block for ever.
SPECIFICATION Spec
CONSTANTS
    Setups <- MCRaces
    Signals <- MCSignals
    Handlers <- MCThree
    Callers <- MCThreads
    None = None
    MaxTasks = 2
    h1 = h1
    h2 = h2
    h3 = h3
    t1 = t1
    t2 = t2
INVARIANTS
    TypeOK
    OneMoreAtMost
    ForcedOnDemand
    OneTimer
    NoTimerLeft
SYMMETRY MCSymmetry
CHECK_DEADLOCK FALSE
