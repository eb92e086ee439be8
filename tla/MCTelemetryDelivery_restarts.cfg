CONSTANTS
    r1 = r1
    r2 = r2
    b1 = b1
    b2 = b2
    none = none
    Records <- TwoRecords
    Batches <- TwoBatches
    None <- none
    MaxAttempts = 1
    IntMax = 2
    MayExpire <- Nobody
    Starts <- Approved
    MaxFaults = 0
    MaxRestarts = 1
    MaxAudits = 0

SPECIFICATION Spec
SYMMETRY Symmetry
PROPERTIES
    ImplementsContract
