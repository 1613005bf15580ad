SPECIFICATION FairSpec
CONSTANTS
    c1 = c1
    c2 = c2
    k1 = k1
    k2 = k2
    k3 = k3
    orchestrator = orchestrator
    Calls <- MCTwoCalls
    Keys <- MCKeys
    Owners <- MCOwners
    NoOwner = NoOwner
    MaxAttempts = 3
    MaxIndex = 2
    MaxFaults = 1
    MaxEdits = 1
    NoSnapshot = NoSnapshot
    NoKey = NoKey
    Nobody = Nobody
CONSTRAINT
    MCBound
INVARIANT
    PhasesInOrder
PROPERTY
    RunsClose
