---------------------------- MODULE FusionOutbox ----------------------------
(***************************************************************************)
(* The transactional outbox of the backend and the Fusion Adapter workers  *)
(* that hand its events to Open Data Fusion (backend DatabaseService,      *)
(* fusion-adapter/Outbox).                                                 *)
(*                                                                         *)
(* A claim is one PostgreSQL transaction, every mark another; between them *)
(* a worker sends its records one after the other, its lease may run out   *)
(* and another worker may claim the same records.  The GUID of a claim is  *)
(* represented by the worker: a worker acts only on its latest claim.      *)
(***************************************************************************)
EXTENDS Integers, FiniteSets, FiniteSetsExt

CONSTANTS
    Events,       \* telemetry events
    Workers,      \* adapter processes
    NoLock,       \* lock_id of a record nobody has claimed; no record in hand
    BatchSize,    \* OpenDataFusionOptions.BatchSize
    MaxAttempts,  \* OpenDataFusionOptions.MaxAttempts
    Refused,      \* events Open Data Fusion answers with a permanent error
    MaxOverruns,  \* bound of the model: leases that run out while the worker lives
    MaxCrashes,   \* bound of the model: failed dispatch cycles
    MaxOutages    \* bound of the model: requests that fail or whose answer is lost

ASSUME OutboxAssumption ==
    /\ IsFiniteSet(Events) /\ IsFiniteSet(Workers)
    /\ NoLock \notin Workers \cup Events
    /\ BatchSize \in Nat \ {0}
    /\ MaxAttempts \in Nat \ {0}
    /\ Refused \subseteq Events
    /\ {MaxOverruns, MaxCrashes, MaxOutages} \subseteq Nat

VARIABLES
    row,       \* fusion_outbox
    captured,  \* how many rows were ever inserted
    worker,    \* the dispatch cycle of each worker
    accepted,  \* history: events Open Data Fusion has taken
    overruns, crashes, outages

vars == <<row, captured, worker, accepted, overruns, crashes, outages>>
bounds == <<overruns, crashes, outages>>

-----------------------------------------------------------------------------
(* States *)

Statuses == {"PENDING", "PROCESSING", "DELIVERED", "DEAD"}

\* `available` is available_at <= NOW(), `overdue` is locked_at < NOW() - lease,
\* `seq` the order of created_at.
Row == [status : Statuses, attempts : Nat, available : BOOLEAN,
        lock : Workers \cup {NoLock}, overdue : BOOLEAN, seq : Nat]

Absent == [status |-> "ABSENT", attempts |-> 0, available |-> FALSE,
           lock |-> NoLock, overdue |-> FALSE, seq |-> 0]

Kinds == {"Delivered", "TransientFailure", "PermanentFailure"}

\* The dispatch cycle of a worker: the records of its claim that are not sent
\* yet, the attempts read when they were claimed, the record in hand and its answer.
Cycle == [pc : {"idle", "send", "mark"}, claim : SUBSET Events, attempts : [Events -> Nat],
          id : Events \cup {NoLock}, kind : Kinds]

Idle == [pc |-> "idle", claim |-> {}, attempts |-> [e \in Events |-> 0],
         id |-> NoLock, kind |-> "Delivered"]

Sending(claim, attempts) ==
    [pc |-> "send", claim |-> claim, attempts |-> attempts, id |-> NoLock, kind |-> "Delivered"]

Settled(e) == row[e].status \in {"DELIVERED", "DEAD"}
Owes(e) == row[e].status \in {"PENDING", "PROCESSING"}

-----------------------------------------------------------------------------
(* The backend captures an event in the transaction of its telemetry *)

Capture(e) ==
    /\ row[e].status = "ABSENT"
    /\ row' = [row EXCEPT ![e] =
                [status |-> "PENDING", attempts |-> 0, available |-> TRUE,
                 lock |-> NoLock, overdue |-> FALSE, seq |-> captured + 1]]
    /\ captured' = captured + 1
    /\ UNCHANGED <<worker, accepted, bounds>>

-----------------------------------------------------------------------------
(* A dispatch cycle *)

\* Every update of a row takes a lease or gives it up.
Updated(r, status, attempts, available, lock) ==
    [status |-> status, attempts |-> attempts, available |-> available,
     lock |-> lock, overdue |-> FALSE, seq |-> r.seq]

ReleasedNever(r) == r

Released(r) ==
    IF r.status = "PROCESSING" /\ r.overdue
    THEN Updated(r, "PENDING", r.attempts, TRUE, NoLock)
    ELSE r

Candidates(table) == {e \in Events : table[e].status = "PENDING" /\ table[e].available}

\* ORDER BY created_at LIMIT @batchSize.
Oldest(S) == {e \in S : Cardinality({d \in S : row[d].seq < row[e].seq}) < BatchSize}

Leased(r, w) == Updated(r, "PROCESSING", r.attempts, r.available, w)

\* Expired leases are released and the batch is claimed in one transaction.
Claim(w) ==
    LET table == [e \in Events |-> Released(row[e])]
        batch == Oldest(Candidates(table))
    IN  /\ worker[w].pc = "idle"
        /\ row' = [e \in Events |-> IF e \in batch THEN Leased(table[e], w) ELSE table[e]]
        /\ worker' = [worker EXCEPT ![w] =
                        IF batch = {} THEN Idle
                        ELSE Sending(batch, [e \in Events |-> IF e \in batch THEN row[e].attempts ELSE 0])]
        /\ UNCHANGED <<captured, accepted, bounds>>

Answers(e, kind) ==
    \/ /\ e \notin Refused /\ kind = "Delivered"
       /\ accepted' = accepted \cup {e}
       /\ UNCHANGED outages
    \/ /\ e \in Refused /\ kind = "PermanentFailure"
       /\ UNCHANGED <<accepted, outages>>
    \/ /\ kind = "TransientFailure"
       /\ outages < MaxOutages /\ outages' = outages + 1
       /\ accepted' \in {accepted, accepted \cup ({e} \ Refused)}

\* The records of a claim are sent one at a time.
Send(w, e) ==
    /\ worker[w].pc = "send"
    /\ e \in worker[w].claim
    /\ \E kind \in Kinds :
            /\ Answers(e, kind)
            /\ worker' = [worker EXCEPT ![w] =
                            [pc |-> "mark", claim |-> worker[w].claim \ {e},
                             attempts |-> worker[w].attempts, id |-> e, kind |-> kind]]
    /\ UNCHANGED <<row, captured, overruns, crashes>>

HoldsWhoeverClaimed(w, e) == row[e].status = "PROCESSING"

HoldsAnyRow(w, e) == TRUE

\* UPDATE ... WHERE id = @id AND lock_id = @lockId AND status = 'PROCESSING'.
Holds(w, e) == row[e].status = "PROCESSING" /\ row[e].lock = w

Delivered(r) == Updated(r, "DELIVERED", r.attempts, r.available, NoLock)

RetriedKeepingLock(r) == Updated(r, "PENDING", r.attempts + 1, FALSE, r.lock)

Retried(r) == Updated(r, "PENDING", r.attempts + 1, FALSE, NoLock)

Died(r) == Updated(r, "DEAD", r.attempts + 1, r.available, NoLock)

MarkedOneAttemptEarly(r, kind, attempts) ==
    IF kind = "Delivered" THEN Delivered(r)
    ELSE IF kind = "PermanentFailure" \/ attempts + 2 >= MaxAttempts THEN Died(r)
    ELSE Retried(r)

MarkedAmbiguousAsDelivered(r, kind, attempts) ==
    IF kind # "PermanentFailure" THEN Delivered(r) ELSE Died(r)

Marked(r, kind, attempts) ==
    IF kind = "Delivered" THEN Delivered(r)
    ELSE IF kind = "PermanentFailure" \/ attempts + 1 >= MaxAttempts THEN Died(r)
    ELSE Retried(r)

\* The next record of the claim, or the end of the cycle.
NextRecord(c) == IF c.claim = {} THEN Idle ELSE Sending(c.claim, c.attempts)

Mark(w) ==
    LET e == worker[w].id
    IN  /\ worker[w].pc = "mark"
        /\ row' = IF Holds(w, e)
                  THEN [row EXCEPT ![e] = Marked(row[e], worker[w].kind, worker[w].attempts[e])]
                  ELSE row
        /\ worker' = [worker EXCEPT ![w] = NextRecord(worker[w])]
        /\ UNCHANGED <<captured, accepted, bounds>>

\* The process ends, or the cycle fails: the rest of the claim is forgotten.
Crash(w) ==
    /\ worker[w].pc # "idle"
    /\ crashes < MaxCrashes /\ crashes' = crashes + 1
    /\ worker' = [worker EXCEPT ![w] = Idle]
    /\ UNCHANGED <<row, captured, accepted, overruns, outages>>

WorkerStep(w) ==
    \/ Claim(w)
    \/ \E e \in Events : Send(w, e)
    \/ Mark(w)

-----------------------------------------------------------------------------
(* Time *)

BackoffEnds(e) ==
    /\ row[e].status = "PENDING" /\ ~row[e].available
    /\ row' = [row EXCEPT ![e].available = TRUE]
    /\ UNCHANGED <<captured, worker, accepted, bounds>>

\* The worker that holds the lease still has the record before it.
InHand(e) ==
    \E w \in Workers :
        /\ Holds(w, e)
        /\ e \in worker[w].claim \/ worker[w].id = e

\* A lease that runs out under its worker is an overrun.
LeaseEnds(e) ==
    /\ row[e].status = "PROCESSING" /\ ~row[e].overdue
    /\ row' = [row EXCEPT ![e].overdue = TRUE]
    /\ IF InHand(e)
       THEN overruns < MaxOverruns /\ overruns' = overruns + 1
       ELSE UNCHANGED overruns
    /\ UNCHANGED <<captured, worker, accepted, crashes, outages>>

-----------------------------------------------------------------------------
Init ==
    /\ row = [e \in Events |-> Absent]
    /\ captured = 0
    /\ worker = [w \in Workers |-> Idle]
    /\ accepted = {}
    /\ overruns = 0 /\ crashes = 0 /\ outages = 0

Next ==
    \/ \E e \in Events : Capture(e) \/ BackoffEnds(e) \/ LeaseEnds(e)
    \/ \E w \in Workers : WorkerStep(w) \/ Crash(w)

Spec == Init /\ [][Next]_vars

\* Workers poll and finish their requests, time passes.
Fairness ==
    /\ \A w \in Workers : WF_vars(WorkerStep(w))
    /\ \A e \in Events : WF_vars(BackoffEnds(e)) /\ WF_vars(LeaseEnds(e))

FairSpec == Spec /\ Fairness

-----------------------------------------------------------------------------
(* Properties *)

\* Rows, claims and counters keep their types, and a row carries a lease exactly
\* while it is PROCESSING.
TypeOK ==
    /\ row \in [Events -> Row \cup {Absent}]
    /\ \A e \in Events : row[e].lock # NoLock <=> row[e].status = "PROCESSING"
    /\ captured \in Nat
    /\ worker \in [Workers -> Cycle]
    /\ accepted \subseteq Events
    /\ {overruns, crashes, outages} \subseteq Nat

\* A record is marked delivered only after Open Data Fusion has taken the event,
\* even when the answer that is marked belongs to a lease that was lost.
DeliveredIsAccepted == \A e \in Events : row[e].status = "DELIVERED" => e \in accepted

\* However leases run out and workers overlap, an attempt is counted once: a
\* record never uses more than MaxAttempts, and one that may still be sent has
\* one left (FusionOutboxDispatcher.DispatchOnceAsync).
AttemptsBounded ==
    \A e \in Events :
        /\ row[e].attempts <= MaxAttempts
        /\ Owes(e) => row[e].attempts < MaxAttempts

\* A record dies only of a permanent error or of its last attempt.
DeadForAReason ==
    \A e \in Events : row[e].status = "DEAD" => e \in Refused \/ row[e].attempts = MaxAttempts

\* What is delivered or dead stays so: no late answer of a worker that has lost
\* its lease revives it.
SettledForGood == [][\A e \in Events : Settled(e) => row'[e] = row[e]]_vars

\* docs/PROJECT-GUIDE.vi.md:92, :203: as long as leases do not run out under their
\* workers for ever, every captured event is delivered or dead in the end.
EveryEventSettles == \A e \in Events : Owes(e) ~> Settled(e)
=============================================================================
