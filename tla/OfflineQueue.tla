---------------------------- MODULE OfflineQueue ----------------------------
(***************************************************************************)
(* The durable MQTT offline queue of the PLC client                        *)
(* (ClientPLC.Infrastructure/Database/SqliteOfflineQueueRepository.cs).    *)
(*                                                                         *)
(* Every public operation of the repository is one SQLite transaction and  *)
(* one action here.  GetDueMessages is three transactions: RemoveExpired,  *)
(* MoveExpiredAcknowledgementsToDead and the read of DueBatch; the module  *)
(* TelemetryDelivery puts them in sequence.                                *)
(*                                                                         *)
(* Wall-clock time is reduced to the three comparisons the code makes with *)
(* it: `due` (next_attempt_at <= now), `old` (created_at < now - MaxAge)   *)
(* and the part of the audit log older than AuditMaxAge.  Elapse and Age   *)
(* let time pass; the length of a delay is not modelled.                   *)
(***************************************************************************)
EXTENDS Integers, Sequences, FiniteSets, FiniteSetsExt

CONSTANTS
    Msgs,             \* message ids
    Topics,           \* MQTT topics
    TopicOf,          \* the topic each message is published on
    Size,             \* payload_bytes of each message
    MaxAttempts,      \* OfflineQueueOptions.MaxAttempts
    MaxPayloadBytes,  \* OfflineQueueOptions.MaxPayloadBytes
    AuditMaxRows,     \* OfflineQueueOptions.AuditMaxRows
    IntMax,           \* int.MaxValue, where the retry counter saturates
    MaxId,            \* bound of the model: rows ever inserted
    MaxAudits         \* bound of the model: audited operator decisions

ASSUME QueueAssumption ==
    /\ IsFiniteSet(Msgs)
    /\ TopicOf \in [Msgs -> Topics]
    /\ Size \in [Msgs -> Nat]
    /\ MaxAttempts \in Nat \ {0}
    /\ MaxPayloadBytes \in Nat \ {0}
    /\ AuditMaxRows \in Nat \ {0}
    /\ IntMax \in Nat /\ MaxAttempts <= IntMax
    /\ MaxId \in Nat
    /\ MaxAudits \in Nat

VARIABLES
    row,      \* mqtt_offline_queue, keyed by message_id
    nextId,   \* the next AUTOINCREMENT id
    blocker,  \* mqtt_offline_queue_blocker
    audit,    \* mqtt_offline_queue_audit in id order
    summary,  \* event_count of mqtt_offline_queue_audit_summary
    audited   \* history: how many audit events were ever written

vars == <<row, nextId, blocker, audit, summary, audited>>

-----------------------------------------------------------------------------
(* Types *)

LiveStatuses == {"PENDING", "AWAITING_ACK", "RETRY"}
Statuses == LiveStatuses \cup {"DEAD"}
Reasons == {"EXPIRED", "PAYLOAD_BUDGET_EVICTION", "DEAD_RETRIED", "DEAD_RESOLVED"}
BlockerStates == {"none", "unresolved", "resolved"}

\* last_error is kept only as far as a later operation reads it: `deadline`
\* says that it is the text written by MoveExpiredAcknowledgementsToDead.
Row == [status : Statuses, retry : Nat, due : BOOLEAN, old : BOOLEAN,
        deadline : BOOLEAN, id : Nat \ {0}]

Absent == [status |-> "ABSENT", retry |-> 0, due |-> FALSE, old |-> FALSE,
           deadline |-> FALSE, id |-> 0]

AuditEvent == [msg : Msgs, status : Statuses, reason : Reasons, blocks : BOOLEAN]

-----------------------------------------------------------------------------
(* What the queries read *)

Queued == {m \in Msgs : row[m].status # "ABSENT"}
Live(m) == row[m].status \in LiveStatuses
Dead(m) == row[m].status = "DEAD"
Before(m, n) == row[m].id < row[n].id       \* ORDER BY created_at, id

Expired == {m \in Queued : row[m].old}

HasActiveMessageForTopic(t) == \E m \in Msgs : TopicOf[m] = t /\ Live(m)

HasDeadMessageForTopic(t) ==
    \E m \in Msgs : TopicOf[m] = t /\ (Dead(m) \/ blocker[m] = "unresolved")

DueUnlessAwaiting == {m \in Msgs : row[m].status \in {"PENDING", "RETRY"} /\ row[m].due}

DueMessages == {m \in Msgs : Live(m) /\ row[m].due}

\* The SELECT of GetDueMessages: the oldest `limit` due rows.
DueBatch(limit) ==
    {m \in DueMessages : Cardinality({n \in DueMessages : Before(n, m)}) < limit}

Bytes(S) == MapThenSumSet(LAMBDA m : Size[m], S)

EvictedIgnoringIncoming(kept, incoming) ==
    LET bytesToFree == Bytes(kept) - MaxPayloadBytes
    IN  {m \in kept : Bytes({n \in kept : Before(n, m)}) < bytesToFree}

EvictedOneTooMany(kept, incoming) ==
    LET bytesToFree == Bytes(kept) + incoming - MaxPayloadBytes
    IN  {m \in kept : bytesToFree > 0 /\ Bytes({n \in kept : Before(n, m)}) <= bytesToFree}

\* The rows EnforcePayloadBudget selects: oldest first, until enough is freed.
Evicted(kept, incoming) ==
    LET bytesToFree == Bytes(kept) + incoming - MaxPayloadBytes
    IN  {m \in kept : Bytes({n \in kept : Before(n, m)}) < bytesToFree}

-----------------------------------------------------------------------------
(* Parts that several operations share *)

Updated(m, status, retry, due, deadline) ==
    [row EXCEPT ![m] = [status |-> status, retry |-> retry, due |-> due,
                        old |-> row[m].old, deadline |-> deadline, id |-> row[m].id]]

Without(gone) == [m \in Msgs |-> IF m \in gone THEN Absent ELSE row[m]]

FreshNumberedByCount ==
    [status |-> "PENDING", retry |-> 0, due |-> TRUE, old |-> FALSE,
     deadline |-> FALSE, id |-> Cardinality(Queued) + 1]

\* The row an insert writes: due at once, no attempt used.
Fresh ==
    [status |-> "PENDING", retry |-> 0, due |-> TRUE, old |-> FALSE,
     deadline |-> FALSE, id |-> nextId]

BlockersKeptResolved(gone) ==
    [m \in Msgs |-> IF m \in gone /\ Dead(m) /\ blocker[m] = "none"
                    THEN "unresolved" ELSE blocker[m]]

BlockersForgotten(gone) == blocker

\* A row that is removed while DEAD leaves an unresolved blocker behind.
BlockersAfter(gone) ==
    [m \in Msgs |-> IF m \in gone /\ Dead(m) THEN "unresolved" ELSE blocker[m]]

Bumped(n) == IF n >= IntMax THEN IntMax ELSE n + 1

Listing(S) ==
    {s \in [1..Cardinality(S) -> S] :
        \A i, j \in 1..Cardinality(S) : i < j => Before(s[i], s[j])}

\* The audit events of removing expired and evicted rows, oldest row first.
RemovalEvents(expired, evicted) ==
    {[i \in 1..Cardinality(expired \cup evicted) |->
        [msg    |-> s[i],
         status |-> row[s[i]].status,
         reason |-> IF s[i] \in expired THEN "EXPIRED" ELSE "PAYLOAD_BUDGET_EVICTION",
         blocks |-> Dead(s[i])]] : s \in Listing(expired \cup evicted)}

RetentionOverwritingSummary(log) ==
    \E k \in 0..Len(log) :
        /\ Len(log) - k <= AuditMaxRows
        /\ k <= Len(audit) \/ Len(log) - k = AuditMaxRows
        /\ audit' = SubSeq(log, k + 1, Len(log))
        /\ summary' = [c \in Reasons \X Statuses |->
                        LET n == Cardinality({i \in 1..k : <<log[i].reason, log[i].status>> = c})
                        IN  IF n = 0 THEN summary[c] ELSE n]

\* EnforceAuditRetention folds the k oldest events of the log into the summary:
\* at least those beyond the newest AuditMaxRows, at most those beyond and
\* the ones already written, which may all have passed AuditMaxAge.
EnforceAuditRetention(log) ==
    \E k \in 0..Len(log) :
        /\ Len(log) - k <= AuditMaxRows
        /\ k <= Len(audit) \/ Len(log) - k = AuditMaxRows
        /\ audit' = SubSeq(log, k + 1, Len(log))
        /\ summary' = [c \in Reasons \X Statuses |->
                        summary[c] + Cardinality({i \in 1..k :
                                        <<log[i].reason, log[i].status>> = c})]

\* Deleting rows with their audit events and, for DEAD rows, their blockers.
AuditRemoval(expired, evicted, retention) ==
    /\ blocker' = BlockersAfter(expired \cup evicted)
    /\ audited' = audited + Cardinality(expired \cup evicted)
    /\ \E events \in RemovalEvents(expired, evicted) :
            IF retention
            THEN EnforceAuditRetention(audit \o events)
            ELSE audit' = audit \o events /\ UNCHANGED summary

\* An operator decision closes the message's blocking history and is audited.
AuditDecision(m, status, reason) ==
    LET Closed(e) == IF e.msg = m THEN [e EXCEPT !.blocks = FALSE] ELSE e
        event == [msg |-> m, status |-> status, reason |-> reason, blocks |-> FALSE]
    IN  /\ blocker' = IF blocker[m] = "unresolved"
                      THEN [blocker EXCEPT ![m] = "resolved"] ELSE blocker
        /\ audited' = audited + 1
        /\ EnforceAuditRetention(Append([i \in 1..Len(audit) |-> Closed(audit[i])], event))

AuditUnchanged == UNCHANGED <<audit, summary, audited>>

-----------------------------------------------------------------------------
(* The operations of the repository *)

Init ==
    /\ row = [m \in Msgs |-> Absent]
    /\ nextId = 1
    /\ blocker = [m \in Msgs |-> "none"]
    /\ audit = <<>>
    /\ summary = [c \in Reasons \X Statuses |-> 0]
    /\ audited = 0

\* A message too large for the whole budget is refused by an exception.  The
\* expired rows go first; a message that is still queued is not inserted again.
Enqueue(m) ==
    LET kept    == Queued \ Expired
        present == m \in kept
        evicted == IF present THEN {} ELSE Evicted(kept, Size[m])
        gone    == Expired \cup evicted
    IN  /\ Size[m] <= MaxPayloadBytes
        /\ nextId <= MaxId
        /\ row' = IF present THEN Without(gone) ELSE [Without(gone) EXCEPT ![m] = Fresh]
        /\ nextId' = IF present THEN nextId ELSE nextId + 1
        /\ AuditRemoval(Expired, evicted, evicted # {})

MarkAwaitingUnlessDead(m) ==
    /\ row' = IF ~Dead(m)
              THEN Updated(m, "AWAITING_ACK", Bumped(row[m].retry), FALSE, FALSE)
              ELSE row
    /\ UNCHANGED <<nextId, blocker>> /\ AuditUnchanged

MarkAwaitingAcknowledgement(m) ==
    /\ row' = IF Live(m)
              THEN Updated(m, "AWAITING_ACK", Bumped(row[m].retry), FALSE, FALSE)
              ELSE row
    /\ UNCHANGED <<nextId, blocker>> /\ AuditUnchanged

CompleteResolvingBlocker(m) ==
    /\ row' = Without({m})
    /\ blocker' = IF blocker[m] = "unresolved"
                  THEN [blocker EXCEPT ![m] = "resolved"] ELSE blocker
    /\ UNCHANGED nextId /\ AuditUnchanged

\* The row goes whatever its status is; a blocker it left stays as it is.
Complete(m) ==
    /\ row' = Without({m})
    /\ UNCHANGED <<nextId, blocker>> /\ AuditUnchanged

ScheduleRetryOnceMore(m) ==
    LET retry == row[m].retry
    IN  /\ row' = IF m \notin Queued THEN row
                  ELSE IF retry > MaxAttempts THEN Updated(m, "DEAD", retry, FALSE, FALSE)
                  ELSE Updated(m, "RETRY", retry, FALSE, FALSE)
        /\ UNCHANGED <<nextId, blocker>> /\ AuditUnchanged

\* A retryable acknowledgement: DEAD rows are rescheduled like any other.
ScheduleRetry(m) ==
    LET retry == row[m].retry
    IN  /\ row' = IF m \notin Queued THEN row
                  ELSE IF retry >= MaxAttempts THEN Updated(m, "DEAD", retry, FALSE, FALSE)
                  ELSE Updated(m, "RETRY", retry, FALSE, FALSE)
        /\ UNCHANGED <<nextId, blocker>> /\ AuditUnchanged

Quarantine(m) ==
    /\ row' = IF m \in Queued THEN Updated(m, "DEAD", row[m].retry, FALSE, FALSE) ELSE row
    /\ blocker' = IF m \in Queued THEN [blocker EXCEPT ![m] = "unresolved"] ELSE blocker
    /\ UNCHANGED nextId /\ AuditUnchanged

\* A publish that failed: an attempt already counted by
\* MarkAwaitingAcknowledgement is not counted twice.
RecordFailure(m) ==
    LET retry == IF row[m].status = "AWAITING_ACK"
                 THEN row[m].retry ELSE Bumped(row[m].retry)
    IN  /\ row' = IF ~Live(m) THEN row
                  ELSE IF retry >= MaxAttempts THEN Updated(m, "DEAD", retry, FALSE, FALSE)
                  ELSE Updated(m, "RETRY", retry, FALSE, FALSE)
        /\ UNCHANGED <<nextId, blocker>> /\ AuditUnchanged

\* The operator sends a dead message again.
RetryDead(m) ==
    /\ Dead(m)
    /\ audited < MaxAudits
    /\ row' = Updated(m, "RETRY", 0, TRUE, FALSE)
    /\ AuditDecision(m, "DEAD", "DEAD_RETRIED")
    /\ UNCHANGED nextId

\* The operator gives up a dead message, in the queue or already removed.
ResolveDead(m) ==
    /\ Dead(m) \/ (m \notin Queued /\ blocker[m] = "unresolved")
    /\ audited < MaxAudits
    /\ row' = Without({m})
    /\ AuditDecision(m, "DEAD", "DEAD_RESOLVED")
    /\ UNCHANGED nextId

RemoveExpired ==
    /\ row' = Without(Expired)
    /\ AuditRemoval(Expired, {}, TRUE)
    /\ UNCHANGED nextId

\* The last acknowledgement deadline has passed.  The blockers are written for
\* every row that ever died this way and is still there.
MoveExpiredAcknowledgementsToDead ==
    LET Overdue(m) == /\ row[m].status = "AWAITING_ACK"
                      /\ row[m].retry >= MaxAttempts
                      /\ row[m].due
        Died(m) == Overdue(m) \/ (Dead(m) /\ row[m].deadline)
    IN  /\ row' = [m \in Msgs |->
                    IF Overdue(m)
                    THEN [row[m] EXCEPT !.status = "DEAD", !.due = FALSE, !.deadline = TRUE]
                    ELSE row[m]]
        /\ blocker' = [m \in Msgs |-> IF Died(m) THEN "unresolved" ELSE blocker[m]]
        /\ UNCHANGED nextId /\ AuditUnchanged

\* The constructor, on every start of the client.
EnforceRetention ==
    LET evicted == Evicted(Queued \ Expired, 0)
    IN  /\ row' = Without(Expired \cup evicted)
        /\ AuditRemoval(Expired, evicted, TRUE)
        /\ UNCHANGED nextId

(* Time: next_attempt_at is reached; created_at, oldest first, passes MaxAge. *)

Elapse(m) ==
    /\ Live(m) /\ ~row[m].due
    /\ row' = [row EXCEPT ![m].due = TRUE]
    /\ UNCHANGED <<nextId, blocker>> /\ AuditUnchanged

Age(m) ==
    /\ m \in Queued /\ ~row[m].old
    /\ \A n \in Queued : Before(n, m) => row[n].old
    /\ row' = [row EXCEPT ![m].old = TRUE]
    /\ UNCHANGED <<nextId, blocker>> /\ AuditUnchanged

Operation(m) ==
    \/ Enqueue(m)
    \/ MarkAwaitingAcknowledgement(m)
    \/ Complete(m)
    \/ ScheduleRetry(m)
    \/ Quarantine(m)
    \/ RecordFailure(m)
    \/ RetryDead(m)
    \/ ResolveDead(m)
    \/ Elapse(m)
    \/ Age(m)

Next ==
    \/ \E m \in Msgs : Operation(m)
    \/ RemoveExpired
    \/ MoveExpiredAcknowledgementsToDead
    \/ EnforceRetention

Spec == Init /\ [][Next]_vars

-----------------------------------------------------------------------------
(* Properties *)

\* Every table holds what its columns allow, message ids are unique and row
\* ids are handed out once.
TypeOK ==
    /\ row \in [Msgs -> Row \cup {Absent}]
    /\ nextId \in Nat \ {0}
    /\ blocker \in [Msgs -> BlockerStates]
    /\ audit \in Seq(AuditEvent)
    /\ summary \in [Reasons \X Statuses -> Nat]
    /\ audited \in Nat

\* The stored payloads never exceed the storage budget, whatever order of
\* inserts, evictions, completions and expiries led here (EnforcePayloadBudget).
WithinPayloadBudget == Bytes(Queued) <= MaxPayloadBytes

\* Insertion order is the delivery order: two queued rows never share an id,
\* and no row carries an id that has not been handed out.
RowIdsAreUnique ==
    \A m, n \in Queued : row[m].id < nextId /\ (row[m].id = row[n].id => m = n)

\* A row offered for replay has attempts left: PENDING rows have used none and
\* RETRY rows fewer than MaxAttempts (ScheduleRetry, RecordFailure, RetryDead).
ReplayHasAttemptsLeft ==
    \A m \in Msgs :
        /\ row[m].status = "PENDING" => row[m].retry = 0
        /\ row[m].status = "RETRY" => row[m].retry < MaxAttempts

\* The audit log and the blocker table agree: an event still marked
\* blocks_topic belongs to a message whose blocker is unresolved, even after
\* the message id was queued, retried or resolved again.
BlockingAuditHasBlocker ==
    \A i \in 1..Len(audit) : audit[i].blocks => blocker[audit[i].msg] = "unresolved"

\* Folding old audit events into the summary loses none of them.
AuditConserved ==
    Len(audit) + MapThenSumSet(LAMBDA c : summary[c], {c \in DOMAIN summary : summary[c] > 0}) = audited

\* Once a topic is blocked by a dead message, no expiry, eviction, restart or
\* replay frees it: only the operator, or an acknowledgement of the dead
\* message itself (Complete, ScheduleRetry), does.
DeadTopicReleasedOnlyByDecision ==
    [][\A t \in Topics :
            HasDeadMessageForTopic(t) /\ ~HasDeadMessageForTopic(t)' =>
                \E m \in Msgs : /\ TopicOf[m] = t
                               /\ \/ RetryDead(m) \/ ResolveDead(m)
                                  \/ Complete(m) \/ ScheduleRetry(m)]_vars

\* A quarantined or evicted message that blocks its topic keeps blocking it
\* until the operator decides about that message: no acknowledgement resolves
\* a blocker.
BlockerResolvedOnlyByOperator ==
    [][\A m \in Msgs :
            blocker[m] = "unresolved" /\ blocker'[m] # "unresolved" =>
                RetryDead(m) \/ ResolveDead(m)]_vars

\* Making room for a new message costs the oldest rows and no more than needed:
\* keeping the youngest evicted row would have exceeded the budget.
EvictionIsOldestFirstAndMinimal ==
    [][nextId' > nextId =>
        \A new \in Msgs : row'[new].id = nextId =>
                LET kept == Queued \ Expired
                    lost == {m \in kept : row'[m].status = "ABSENT"}
                IN  \A m \in lost :
                        /\ \A n \in kept : Before(n, m) => n \in lost
                        /\ Bytes({n \in kept : ~Before(n, m)}) + Size[new] > MaxPayloadBytes]_vars

=============================================================================
