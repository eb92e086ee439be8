CONSTANTS
    r1 = r1
    r2 = r2
    b1 = b1
    b2 = b2
    none = none
    Records <- OneRecord
    Batches <- OneBatch
    None <- none
    MaxAttempts = 3
    IntMax = 4
    MayExpire <- Nobody
    Starts <- EitherApproval
    MaxFaults = 1
    MaxRestarts = 0
    MaxAudits = 0

SPECIFICATION Spec
PROPERTIES
    QuarantineNeedsOperator
