\* Replaced, scaled, stopped and run-once workers: six ways to call the command.
SPECIFICATION Spec
CONSTANTS
    Setups <- MCSetups
    Grace = 1
    StableAfter = 2
    BackoffStart = 1
    BackoffMax = 2
    FloatExponent = 3
    CrashCodes <- MCCrashes
    MaxSlots = 3
    MaxPids = 5
INVARIANTS
    TypeOK
    NoneLeftBehind
    CapacityKept
    InterruptsNothing
    CodeTellsTheRun
