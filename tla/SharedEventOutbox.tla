------------------------- MODULE SharedEventOutbox --------------------------
(***************************************************************************)
(* The workspace events of Open Data Fusion: transactions of the API that  *)
(* write an event to odf.outbox_events, and the outbox workers that lease  *)
(* the events and append them to the Redis stream, in order within each    *)
(* aggregate (packages/postgres-runtime, apps/outbox-worker).              *)
(*                                                                         *)
(* The stream is the set of the events a consumer has received: consumers  *)
(* drop an event they have seen.  Every step adds at most one event, so an *)
(* invariant about this set is one about the order of first appearances.   *)
(* The event with an earlier occurred_at is the one whose transaction      *)
(* began first: the column defaults to now(), which is the start of the    *)
(* transaction, and that clock is taken to be strictly increasing.         *)
(***************************************************************************)
EXTENDS Integers, FiniteSets, FiniteSetsExt

CONSTANTS
    Events,         \* rows of odf.outbox_events
    Aggregate,      \* the workspace of each event
    Workers,        \* outbox worker processes
    Nobody,         \* lease_owner of a row without a lease; no event in hand
    Gone,           \* lease_owner left behind by a process that has ended
    BatchSize,      \* ODF_OUTBOX_BATCH_SIZE
    MaxAttempts,    \* ODF_OUTBOX_MAX_ATTEMPTS
    MaxTroubles     \* bound of the model: leases that run out under their worker,
                    \* workers that end in a cycle and calls that fail

ASSUME SharedEventOutboxAssumption ==
    /\ IsFiniteSet(Events) /\ IsFiniteSet(Workers)
    /\ DOMAIN Aggregate = Events
    /\ Nobody \notin Workers \cup Events /\ Gone \notin Workers \cup {Nobody}
    /\ BatchSize \in Nat \ {0}
    /\ MaxAttempts \in Nat \ {0}
    /\ MaxTroubles \in Nat

VARIABLES
    tx,      \* the transaction that writes each event
    row,     \* odf.outbox_events
    pump,    \* the cycle of each worker (OutboxPump.runOnce)
    wire,    \* XADD commands that are sent and not executed, by worker
    stream,  \* events that are on the stream
    troubles \* how many of them there were

vars == <<tx, row, pump, wire, stream, troubles>>

-----------------------------------------------------------------------------
(* States *)

\* A transaction saves the workspace (`save`) or changes a membership.  Of the
\* other events of the aggregate, `older` have an earlier occurred_at, and, as
\* histories, `before` were committed when it began, `under` before it was.
Tx == [phase : {"none", "open", "committed", "rolledBack"}, save : BOOLEAN,
       older : SUBSET Events, before : SUBSET Events, under : SUBSET Events]

NoTx == [phase |-> "none", save |-> FALSE, older |-> {}, before |-> {}, under |-> {}]

\* PENDING and DEAD are unpublished; the available_at of a DEAD row is infinity.
\* `ready` is available_at <= now(), `live` is lease_expires_at >= now().
Row == [status : {"PENDING", "PUBLISHED", "DEAD"}, ready : BOOLEAN,
        owner : Workers \cup {Nobody, Gone}, live : BOOLEAN, attempts : Nat]

NewRow == [status |-> "PENDING", ready |-> TRUE, owner |-> Nobody, live |-> FALSE, attempts |-> 0]

\* A cycle of a worker: the claimed events it has not sent, the one in hand.
Cycle == [pc : {"idle", "next", "sent", "mark", "failed"}, claim : SUBSET Events,
          id : Events \cup {Nobody}]

Idle == [pc |-> "idle", claim |-> {}, id |-> Nobody]

\* A cycle goes on with the events it has left, and ends without any.
Working(claim) == IF claim = {} THEN Idle ELSE [pc |-> "next", claim |-> claim, id |-> Nobody]

Trouble == troubles < MaxTroubles /\ troubles' = troubles + 1

Committed(e) == tx[e].phase = "committed"

Siblings(e) == {p \in Events : p # e /\ Aggregate[p] = Aggregate[e]}

-----------------------------------------------------------------------------
(* Transactions of the API *)

Begin(e, save) ==
    /\ tx[e].phase = "none"
    /\ tx' = [tx EXCEPT ![e] =
                [phase |-> "open", save |-> save,
                 older |-> {p \in Siblings(e) : tx[p].phase # "none"},
                 before |-> {p \in Siblings(e) : Committed(p)},
                 under |-> {}]]
    /\ UNCHANGED <<row, pump, wire, stream, troubles>>

VersionUnchecked(e) == TRUE

\* `WHERE version = expectedVersion`: a save is refused if another one of its
\* workspace was committed since the client read the version.
VersionIsCurrent(e) ==
    tx[e].save =>
        \A p \in Siblings(e) : Committed(p) /\ tx[p].save => p \in tx[e].before

Commit(e) ==
    /\ tx[e].phase = "open"
    /\ VersionIsCurrent(e)
    /\ tx' = [tx EXCEPT ![e].phase = "committed", ![e].under = {p \in Siblings(e) : Committed(p)}]
    /\ UNCHANGED <<row, pump, wire, stream, troubles>>

Rollback(e) ==
    /\ tx[e].phase = "open"
    /\ tx' = [tx EXCEPT ![e].phase = "rolledBack"]
    /\ UNCHANGED <<row, pump, wire, stream, troubles>>

-----------------------------------------------------------------------------
(* The columns a claim and the three updates of its owner write *)

Updated(r, status, ready, owner, attempts) ==
    [status |-> status, ready |-> ready, owner |-> owner,
     live |-> owner # Nobody, attempts |-> attempts]

Leased(r, w) == Updated(r, "PENDING", r.ready, w, r.attempts + 1)

MarkedKeepingLease(r) == Updated(r, "PUBLISHED", r.ready, r.owner, r.attempts)

Marked(r) == Updated(r, "PUBLISHED", r.ready, Nobody, r.attempts)

ReleasedOneAttemptEarly(r) ==
    IF r.attempts + 1 >= MaxAttempts
    THEN Updated(r, "DEAD", FALSE, Nobody, r.attempts)
    ELSE Updated(r, "PENDING", FALSE, Nobody, r.attempts)

\* deadLetter at the last attempt, release with a delay before.
Released(r) ==
    IF r.attempts >= MaxAttempts
    THEN Updated(r, "DEAD", FALSE, Nobody, r.attempts)
    ELSE Updated(r, "PENDING", FALSE, Nobody, r.attempts)

-----------------------------------------------------------------------------
(* A cycle of the pump *)

DueWithoutLease(e) == Committed(e) /\ row[e].status = "PENDING" /\ row[e].ready /\ row[e].owner = Nobody

Due(e) == Committed(e) /\ row[e].status = "PENDING" /\ row[e].ready /\ ~row[e].live

CandidatesPastDeadLetters ==
    {e \in Events : Due(e) /\ \A p \in tx[e].older : Committed(p) => row[p].status # "PENDING"}

\* The oldest unpublished event of each aggregate, if it is due.
Candidates ==
    {e \in Events : Due(e) /\ \A p \in tx[e].older : Committed(p) => row[p].status = "PUBLISHED"}

\* LIMIT: which candidates go first depends on available_at, and is left open.
Claim(w) ==
    /\ pump[w].pc = "idle"
    /\ \E batch \in kSubset(Min({BatchSize, Cardinality(Candidates)}), Candidates) :
        /\ row' = [e \in Events |-> IF e \in batch THEN Leased(row[e], w) ELSE row[e]]
        /\ pump' = [pump EXCEPT ![w] = Working(batch)]
    /\ UNCHANGED <<tx, wire, stream, troubles>>

Publish(w, e) ==
    /\ pump[w].pc = "next"
    /\ e \in pump[w].claim
    /\ pump' = [pump EXCEPT ![w] = [pc |-> "sent", claim |-> pump[w].claim \ {e}, id |-> e]]
    /\ wire' = wire \cup {<<w, e>>}
    /\ UNCHANGED <<tx, row, stream, troubles>>

Awaits(w, e) == pump[w].pc = "sent" /\ pump[w].id = e

\* Redis executes an XADD.  The worker that sent it may have given up long ago.
Append(w, e) ==
    /\ <<w, e>> \in wire
    /\ wire' = wire \ {<<w, e>>}
    /\ stream' = stream \cup {e}
    /\ pump' = IF Awaits(w, e) THEN [pump EXCEPT ![w].pc = "mark"] ELSE pump
    /\ UNCHANGED <<tx, row, troubles>>

GivenUpAsSent(c) == [pc |-> "mark", claim |-> c.claim, id |-> c.id]

GivenUp(c) == [pc |-> "failed", claim |-> c.claim, id |-> c.id]

\* publish rejects: the command was refused, its answer is lost, or the
\* connection is, with the command still on its way.
PublishFails(w) ==
    /\ pump[w].pc = "sent"
    /\ Trouble
    /\ \/ wire' = wire \ {<<w, pump[w].id>>} /\ stream' \in {stream, stream \cup {pump[w].id}}
       \/ UNCHANGED <<wire, stream>>
    /\ pump' = [pump EXCEPT ![w] = GivenUp(pump[w])]
    /\ UNCHANGED <<tx, row>>

HoldsAnyLease(w, e) == TRUE

\* WHERE event_id = $1 AND lease_owner = $2 AND published_at IS NULL.
Holds(w, e) == row[e].owner = w /\ row[e].status # "PUBLISHED"

\* A mark that finds its lease gone throws, and is handled as a failed publish.
MarkPublished(w) ==
    LET e == pump[w].id
    IN  /\ pump[w].pc = "mark"
        /\ IF Holds(w, e)
           THEN /\ row' = [row EXCEPT ![e] = Marked(row[e])]
                /\ pump' = [pump EXCEPT ![w] = Working(pump[w].claim)]
           ELSE /\ pump' = [pump EXCEPT ![w] = GivenUp(pump[w])]
                /\ UNCHANGED row
        /\ UNCHANGED <<tx, wire, stream, troubles>>

MarkFails(w) ==
    LET e == pump[w].id
    IN  /\ pump[w].pc = "mark"
        /\ Trouble
        /\ pump' = [pump EXCEPT ![w] = GivenUp(pump[w])]
        /\ \/ UNCHANGED row
           \/ Holds(w, e) /\ row' = [row EXCEPT ![e] = Marked(row[e])]
        /\ UNCHANGED <<tx, wire, stream>>

\* A release that finds its lease gone throws out of the cycle: the rest of the
\* claim is forgotten and stays leased.
Release(w) ==
    LET e == pump[w].id
    IN  /\ pump[w].pc = "failed"
        /\ IF Holds(w, e)
           THEN /\ row' = [row EXCEPT ![e] = Released(row[e])]
                /\ pump' = [pump EXCEPT ![w] = Working(pump[w].claim)]
           ELSE /\ pump' = [pump EXCEPT ![w] = Idle]
                /\ UNCHANGED row
        /\ UNCHANGED <<tx, wire, stream, troubles>>

ReleaseFails(w) ==
    LET e == pump[w].id
    IN  /\ pump[w].pc = "failed"
        /\ Trouble
        /\ pump' = [pump EXCEPT ![w] = Idle]
        /\ \/ UNCHANGED row
           \/ Holds(w, e) /\ row' = [row EXCEPT ![e] = Released(row[e])]
        /\ UNCHANGED <<tx, wire, stream>>

\* The process ends.  Its successor has another worker id.
Crash(w) ==
    /\ pump[w].pc # "idle"
    /\ Trouble
    /\ pump' = [pump EXCEPT ![w] = Idle]
    /\ row' = [e \in Events |-> IF row[e].owner = w THEN [row[e] EXCEPT !.owner = Gone] ELSE row[e]]
    /\ UNCHANGED <<tx, wire, stream>>

-----------------------------------------------------------------------------
(* Time and the operator *)

BackoffEnds(e) ==
    /\ row[e].status = "PENDING" /\ ~row[e].ready
    /\ row' = [row EXCEPT ![e].ready = TRUE]
    /\ UNCHANGED <<tx, pump, wire, stream, troubles>>

InHand(e) ==
    \E w \in Workers :
        row[e].owner = w /\ (e \in pump[w].claim \/ pump[w].id = e)

\* A lease that runs out while its owner works on the event is an overrun.
LeaseEnds(e) ==
    /\ row[e].live
    /\ row' = [row EXCEPT ![e].live = FALSE]
    /\ IF InHand(e) THEN Trouble ELSE UNCHANGED troubles
    /\ UNCHANGED <<tx, pump, wire, stream>>

Requeue(e) ==
    /\ row[e].status = "DEAD"
    /\ row' = [row EXCEPT ![e] = NewRow]
    /\ UNCHANGED <<tx, pump, wire, stream, troubles>>

-----------------------------------------------------------------------------
Init ==
    /\ tx = [e \in Events |-> NoTx]
    /\ row = [e \in Events |-> NewRow]
    /\ pump = [w \in Workers |-> Idle]
    /\ wire = {}
    /\ stream = {}
    /\ troubles = 0

WorkerStep(w) ==
    \/ Claim(w)
    \/ \E e \in Events : Publish(w, e) \/ (Awaits(w, e) /\ Append(w, e))
    \/ MarkPublished(w)
    \/ Release(w)

Next ==
    \/ \E e \in Events :
        \/ \E save \in BOOLEAN : Begin(e, save)
        \/ Commit(e) \/ Rollback(e) \/ BackoffEnds(e) \/ LeaseEnds(e) \/ Requeue(e)
    \/ \E w \in Workers :
        \/ WorkerStep(w)
        \/ \E e \in Events : Append(w, e)
        \/ PublishFails(w) \/ MarkFails(w) \/ ReleaseFails(w) \/ Crash(w)

Spec == Init /\ [][Next]_vars

\* Workers poll and finish their calls, time passes.
Fairness ==
    /\ \A w \in Workers : WF_vars(WorkerStep(w))
    /\ \A e \in Events : WF_vars(BackoffEnds(e)) /\ WF_vars(LeaseEnds(e))

FairSpec == Spec /\ Fairness

-----------------------------------------------------------------------------
(* Properties *)

\* Every table keeps its type, a lease has an owner, and a published or dead row
\* has none (the CHECK constraints of odf.outbox_events).
TypeOK ==
    /\ tx \in [Events -> Tx]
    /\ row \in [Events -> Row]
    /\ \A e \in Events :
        /\ row[e].live => row[e].owner # Nobody
        /\ row[e].status # "PENDING" => row[e].owner = Nobody
    /\ pump \in [Workers -> Cycle]
    /\ \A w \in Workers : pump[w].pc \in {"sent", "mark", "failed"} => pump[w].id # Nobody
    /\ wire \subseteq Workers \X Events
    /\ stream \subseteq Events
    /\ troubles \in Nat

\* An event that was committed before the transaction of another one of its
\* aggregate began comes first on the stream, whatever leases run out, commands
\* are repeated or late, workers end and dead letters wait (OutboxPump.runOnce).
NoOvertaking ==
    \A e \in stream : tx[e].before \subseteq stream

\* Saves of a workspace reach the stream in the order of their versions
\* (mutateWorkspace), for a save whose version is taken is refused.
SavesInVersionOrder ==
    \A e \in stream : \A p \in tx[e].under : tx[e].save /\ tx[p].save => p \in stream

\* docs/operations/outbox-dead-letter-recovery.md: a row is never marked published
\* before Redis has executed its XADD.
PublishedIsOnStream == \A e \in Events : row[e].status = "PUBLISHED" => e \in stream

\* An event becomes a dead letter only when its attempts are used up, not by a
\* worker that has lost its lease.
DeadForAReason == \A e \in Events : row[e].status = "DEAD" => row[e].attempts >= MaxAttempts

\* apps/outbox-worker/README.md: a dead letter waits for the operator, and what is
\* published stays so: a late mark or release of a lost lease changes neither.
OutcomesStand ==
    [][\A e \in Events :
        /\ row[e].status = "PUBLISHED" => row'[e] = row[e]
        /\ row[e].status = "DEAD" => row'[e] = row[e] \/ Requeue(e)]_vars

\* Every committed event is published in the end, unless a dead letter is in its
\* way: expired leases are taken over and aborted cycles repeated.
Blocked(e) ==
    \E p \in tx[e].older \cup {e} : row[p].status = "DEAD"

EveryEventIsPublished ==
    \A e \in Events : Committed(e) ~> (row[e].status = "PUBLISHED" \/ Blocked(e))

\* apps/outbox-worker/src/outbox.ts:53-55 "Membership revocations and workspace
\* mutations for the same aggregate must never overtake one another on the shared
\* stream": the stream shows them in the order in which they took effect.
StreamFollowsCommits ==
    \A e \in stream : tx[e].under \subseteq stream
=============================================================================
