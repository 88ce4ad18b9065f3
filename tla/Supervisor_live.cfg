\* Every setup but the scaled ones ends, refills its slots and notices a recovery.
SPECIFICATION FairSpec
CONSTANTS
    Setups <- MCLiveSetups
    Grace = 1
    StableAfter = 2
    BackoffStart = 1
    BackoffMax = 2
    FloatExponent = 3
    CrashCodes <- MCCrash
    MaxSlots = 2
    MaxPids = 4
PROPERTIES
    
    SlotsRefill
