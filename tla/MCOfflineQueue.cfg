SPECIFICATION Spec
CONSTANTS
    m1 = m1
    m2 = m2
    m3 = m3
    telemetry = telemetry
    sync = sync
    Msgs = {m1, m2, m3}
    Topics = {telemetry, sync}
    TopicOf <- MCTopicOf
    Size <- MCSize
    MaxAttempts = 2
    MaxPayloadBytes = 3
    AuditMaxRows = 1
    IntMax = 2
    MaxId = 3
    MaxAudits = 1
SYMMETRY Symmetry
INVARIANTS
    TypeOK
    RowIdsAreUnique
    ReplayHasAttemptsLeft
    BlockingAuditHasBlocker
    WithinPayloadBudget
    AuditConserved
PROPERTIES
    BlockerResolvedOnlyByOperator
    DeadTopicReleasedOnlyByDecision
    EvictionIsOldestFirstAndMinimal
