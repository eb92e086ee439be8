SPECIFICATION FairSpec
CONSTANTS
    Clients = {c1}
    ReadBatchSize = 2
    SeenEventLimit = 2
    MaxEvents = 3
    MaxRepeats = 1
    MaxTroubles = 1
INVARIANTS
    NothingAfterRevocation
    FramesFollowStream
PROPERTIES
    EveryEventIsHeard
