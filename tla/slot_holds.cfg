SPECIFICATION FairSpec
CONSTANTS
    o1 = o1
    o2 = o2
    o3 = o3
    Owners <- MCOwners
    NoOwner = NoOwner
    MaxAttempts = 10
    LeaseFits = TRUE
    CrashPoints <- AnyStep
    MaxCrashes = 2
INVARIANTS
    OneExecutor
    CompletedRunIsQuiet
PROPERTIES
    LiveLeaseIsOwners
    LockSpec
    SlotServesUnlessTorn
