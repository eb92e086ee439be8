SPECIFICATION FairSpec
CONSTANTS
    b1 = b1
    b2 = b2
    other = other
    r1 = r1
    r2 = r2
    Bundles = {b1, b2, other}
    Runs = {r1, r2}
    RunOf <- MCRunOf
    Invalid = {b1}
    Requests = {q1, q2}
    None = None
    MaxTroubles = 3
    Batches = {b1, b2}
    Earlier <- MCEarlier
INVARIANTS
    TypeOK
    CheckpointIsCovered
    SentIsIngested
    RunsHaveEvidence
    AcceptedIsIngested
    CompletedOnce
PROPERTIES
    ImplementsContract
    EveryBatchIsDelivered
