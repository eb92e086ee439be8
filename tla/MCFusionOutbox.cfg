SPECIFICATION FairSpec
CONSTANTS
    Events = {e1, e2}
    Workers = {w1, w2}
    NoLock = NoLock
    BatchSize = 2
    MaxAttempts = 2
    Refused = {e2}
    MaxOverruns = 2
    MaxCrashes = 1
    MaxOutages = 2
INVARIANTS
    TypeOK
    DeliveredIsAccepted
    AttemptsBounded
    DeadForAReason
PROPERTIES
    SettledForGood
    EveryEventSettles
