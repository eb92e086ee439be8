CONSTANTS
    r1 = r1
    r2 = r2
    b1 = b1
    b2 = b2
    none = none
    Records <- OneRecord
    Batches <- TwoBatches
    None <- none
    MaxAttempts = 2
    IntMax = 3
    MayExpire <- OneRecord
    Starts <- FaultOrLateApproval
    MaxFaults = 1
    MaxRestarts = 1
    MaxAudits = 1

SPECIFICATION Spec
SYMMETRY Symmetry
INVARIANTS
    TypeOK
    SyncedIsCommitted
    OneBatchUnlessRaced
PROPERTIES
    LeavesOnlyDelivered
