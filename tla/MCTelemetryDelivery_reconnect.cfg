CONSTANTS
    r1 = r1
    r2 = r2
    b1 = b1
    b2 = b2
    none = none
    Records <- OneRecord
    Batches <- OneBatch
    None <- none
    MaxAttempts = 2
    IntMax = 3
    MayExpire <- Nobody
    Starts <- Approved
    MaxFaults = 0
    MaxRestarts = 0
    MaxAudits = 0

SPECIFICATION FairSpec
PROPERTIES
    Reconnects
