SPECIFICATION FairSpec
CONSTANTS
    hall = hall
    Events = {e1, e2}
    Aggregate <- MCAggregate
    Workers = {w1, w2}
    Nobody = Nobody
    Gone = Gone
    BatchSize = 2
    MaxAttempts = 2
    MaxTroubles = 3
INVARIANTS
    TypeOK
    NoOvertaking
    SavesInVersionOrder
    PublishedIsOnStream
    DeadForAReason
PROPERTIES
    OutcomesStand
    EveryEventIsPublished
