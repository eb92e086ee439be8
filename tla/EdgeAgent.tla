------------------------------ MODULE EdgeAgent -------------------------------
(***************************************************************************)
(* The edge agent of Open Data Fusion (apps/edge-agent), delivering to the *)
(* API of RawIngest: a poll loop that reads a source past its checkpoint,  *)
(* archives the records and queues them, and a delivery loop that posts    *)
(* the batches of the queue.  Checkpoints and queue are one SQLite file;   *)
(* the process may end anywhere and starts again with that file.           *)
(*                                                                         *)
(* A batch is what a source returns past one checkpoint.  A poll that is   *)
(* repeated after a crash has another run id, but its first one was never  *)
(* queued, so one name stands for both.  A first 401 makes deliver() post  *)
(* again with a new token, which changes nothing; a second one is a        *)
(* request that is lost.                                                   *)
(***************************************************************************)
EXTENDS RawIngest, Sequences

CONSTANTS
    Batches,  \* the bundles this agent collects
    Earlier   \* for each, the batches of the same source before it

ASSUME EdgeAgentAssumption ==
    /\ Batches \subseteq Bundles
    /\ Earlier \in [Batches -> SUBSET Batches]

VARIABLES
    agent,     \* the process
    poll,      \* the batch in the hands of the poll loop
    archived,  \* batches in the archive directory
    passed,    \* batches up to the checkpoint of their source
    queue,     \* queued_batches: the state of each batch
    due,       \* the queued batches whose available_at has come, in its order
    delivery   \* the batch in the hands of the delivery loop, and its request

edgeVars == <<agent, poll, archived, passed, queue, due, delivery>>
vars == <<ingestVars, edgeVars>>

-----------------------------------------------------------------------------
(* States *)

\* 'pending' and 'failed' are the same to every query.
QueueStates == {"absent", "queued", "sending", "sent"}

NoPoll == [at |-> "idle", batch |-> None]
Poll == [at : {"idle", "read", "archived"}, batch : Batches \cup {None}]

NoDelivery == [at |-> "idle", batch |-> None, request |-> None]
Delivery == [at : {"idle", "claimed", "posted", "answered", "failed"},
             batch : Batches \cup {None}, request : Requests \cup {None}]

Holding(at, b) == [at |-> at, batch |-> b, request |-> None]

IsDue(b) == \E i \in DOMAIN due : due[i] = b

-----------------------------------------------------------------------------
(* The poll loop *)

\* poll(checkpoint): the first batch past the checkpoint.  A pass over the sources
\* that has begun is finished during a stop; LIMIT: which of them it has left is open.
Read(b) ==
    /\ agent # "down"
    /\ poll = NoPoll
    /\ b \notin passed /\ Earlier[b] \subseteq passed
    /\ poll' = [at |-> "read", batch |-> b]
    /\ UNCHANGED <<ingestVars, agent, archived, passed, queue, due, delivery>>

ArchiveLater ==
    /\ poll.at = "read"
    /\ poll' = [poll EXCEPT !.at = "archived"]
    /\ UNCHANGED <<ingestVars, agent, archived, passed, queue, due, delivery>>

Archive ==
    /\ poll.at = "read"
    /\ archived' = archived \cup {poll.batch}
    /\ poll' = [poll EXCEPT !.at = "archived"]
    /\ UNCHANGED <<ingestVars, agent, passed, queue, due, delivery>>

\* One transaction: the row, and the checkpoint if the row is new.
Enqueued(b) ==
    IF queue[b] = "absent"
    THEN /\ queue' = [queue EXCEPT ![b] = "queued"]
         /\ due' = Append(due, b)
         /\ passed' = passed \cup {b}
    ELSE UNCHANGED <<queue, due, passed>>

Enqueue ==
    /\ poll.at = "archived"
    /\ Enqueued(poll.batch)
    /\ poll' = NoPoll
    /\ UNCHANGED <<ingestVars, agent, archived, delivery>>

\* The source, the archive or the database fails; the next poll begins again.
PollFails ==
    /\ poll # NoPoll
    /\ Trouble
    /\ poll' = NoPoll
    /\ UNCHANGED <<blob, landing, run, completed, req, agent, archived, passed, queue, due, delivery>>

-----------------------------------------------------------------------------
(* The delivery loop *)

ClaimStillDue ==
    /\ agent # "down"
    /\ delivery = NoDelivery
    /\ due # <<>>
    /\ queue' = [queue EXCEPT ![Head(due)] = "sending"]
    /\ delivery' = Holding("claimed", Head(due))
    /\ UNCHANGED <<ingestVars, agent, poll, archived, passed, due>>

Claim ==
    /\ agent # "down"
    /\ delivery = NoDelivery
    /\ due # <<>>
    /\ queue' = [queue EXCEPT ![Head(due)] = "sending"]
    /\ due' = Tail(due)
    /\ delivery' = Holding("claimed", Head(due))
    /\ UNCHANGED <<ingestVars, agent, poll, archived, passed>>

Post ==
    /\ delivery.at = "claimed"
    /\ HasVacancy
    /\ req' = Arriving(delivery.batch)
    /\ delivery' = [at |-> "posted", batch |-> delivery.batch, request |-> Vacant]
    /\ UNCHANGED <<blob, landing, run, completed, troubles, agent, poll, archived, passed, queue, due>>

Awaited(q) == delivery.at = "posted" /\ delivery.request = q

AfterAnyAnswer(answer) == "answered"
AfterAnswer(answer) == IF answer = "ok" THEN "answered" ELSE "failed"

\* An answer nobody waits for is dropped.
Answer(q) ==
    /\ req[q].at \in Answers
    /\ req' = [req EXCEPT ![q] = Free]
    /\ delivery' = IF Awaited(q) THEN Holding(AfterAnswer(req[q].at), delivery.batch) ELSE delivery
    /\ UNCHANGED <<blob, landing, run, completed, troubles, agent, poll, archived, passed, queue, due>>

\* The token, the connection or the answer is lost, or the request takes longer
\* than requestTimeoutMs.  The API may go on with it, or never see it.
DeliveryFails ==
    /\ delivery.at \in {"claimed", "posted"}
    /\ Trouble
    /\ delivery' = Holding("failed", delivery.batch)
    /\ \/ UNCHANGED req
       \/ /\ delivery.at = "posted" /\ req[delivery.request].at = "find"
          /\ req' = [req EXCEPT ![delivery.request] = Free]
    /\ UNCHANGED <<blob, landing, run, completed, agent, poll, archived, passed, queue, due>>

\* markSent and release: WHERE id = ? AND state = 'sending'.
MarkSent ==
    /\ delivery.at = "answered"
    /\ queue' = [queue EXCEPT ![delivery.batch] = IF @ = "sending" THEN "sent" ELSE @]
    /\ delivery' = IF queue[delivery.batch] = "sending" THEN NoDelivery ELSE Holding("failed", delivery.batch)
    /\ UNCHANGED <<ingestVars, agent, poll, archived, passed, due>>

ReleaseForgetting ==
    /\ delivery.at = "failed"
    /\ delivery' = NoDelivery
    /\ queue' = [queue EXCEPT ![delivery.batch] = "sent"]
    /\ UNCHANGED <<ingestVars, agent, poll, archived, passed, due>>

ReleaseInFront ==
    /\ delivery.at = "failed"
    /\ queue' = [queue EXCEPT ![delivery.batch] = IF @ = "sending" THEN "queued" ELSE @]
    /\ due' = IF queue[delivery.batch] = "sending" THEN <<delivery.batch>> \o due ELSE due
    /\ delivery' = NoDelivery
    /\ UNCHANGED <<ingestVars, agent, poll, archived, passed>>

\* The batch is due again after the delay; a release that fails ends the drain.
Release ==
    /\ delivery.at = "failed"
    /\ queue' = [queue EXCEPT ![delivery.batch] = IF @ = "sending" THEN "queued" ELSE @]
    /\ delivery' = NoDelivery
    /\ UNCHANGED <<ingestVars, agent, poll, archived, passed, due>>

\* The update is refused: markSent is caught and released, release is not.
UpdateFails ==
    /\ delivery.at \in {"answered", "failed"}
    /\ Trouble
    /\ delivery' = IF delivery.at = "answered" THEN Holding("failed", delivery.batch) ELSE NoDelivery
    /\ UNCHANGED <<blob, landing, run, completed, req, agent, poll, archived, passed, queue, due>>

-----------------------------------------------------------------------------
(* Time *)

DelayEnds(b) ==
    /\ queue[b] = "queued" /\ ~IsDue(b)
    /\ due' = Append(due, b)
    /\ UNCHANGED <<ingestVars, agent, poll, archived, passed, queue, delivery>>

InHand(b) == delivery.batch = b

\* The next claim finds the lease ended.  It cannot while the batch is in hand:
\* one loop claims and delivers.
LeaseEnds(b) ==
    /\ queue[b] = "sending" /\ ~InHand(b)
    /\ queue' = [queue EXCEPT ![b] = "queued"]
    /\ due' = Append(due, b)
    /\ UNCHANGED <<ingestVars, agent, poll, archived, passed, delivery>>

-----------------------------------------------------------------------------
(* The process *)

\* SIGTERM: no pass over the sources begins, the queue is drained until a deadline.
Stop ==
    /\ agent = "running"
    /\ Trouble
    /\ agent' = "draining"
    /\ UNCHANGED <<blob, landing, run, completed, req, poll, archived, passed, queue, due, delivery>>

\* Nothing is left, or the deadline has passed.
Shutdown ==
    /\ agent = "draining"
    /\ poll = NoPoll /\ delivery = NoDelivery
    /\ agent' = "down"
    /\ UNCHANGED <<ingestVars, poll, archived, passed, queue, due, delivery>>

Crash ==
    /\ agent # "down"
    /\ Trouble
    /\ agent' = "down"
    /\ poll' = NoPoll
    /\ delivery' = NoDelivery
    /\ UNCHANGED <<blob, landing, run, completed, req, archived, passed, queue, due>>

Start ==
    /\ agent = "down"
    /\ agent' = "running"
    /\ UNCHANGED <<ingestVars, poll, archived, passed, queue, due, delivery>>

\* Another identity posts a bundle: a landing replayed by hand, a rotated agent.
OtherClient(b) ==
    /\ HasVacancy
    /\ Trouble
    /\ req' = Arriving(b)
    /\ UNCHANGED <<blob, landing, run, completed, edgeVars>>

-----------------------------------------------------------------------------
Init ==
    /\ IngestInit
    /\ agent = "running"
    /\ poll = NoPoll
    /\ archived = {}
    /\ passed = {}
    /\ queue = [b \in Batches |-> "absent"]
    /\ due = <<>>
    /\ delivery = NoDelivery

PollStep == Archive \/ Enqueue \/ \E b \in Batches : Read(b)

DeliveryStep == Claim \/ Post \/ MarkSent \/ Release

Next ==
    \/ PollStep \/ PollFails
    \/ DeliveryStep \/ DeliveryFails \/ UpdateFails
    \/ Stop \/ Shutdown \/ Crash \/ Start
    \/ \E b \in Batches : DelayEnds(b) \/ LeaseEnds(b)
    \/ \E b \in Bundles \ Batches : OtherClient(b)
    \/ \E q \in Requests : Answer(q)
    \/ ServerNext /\ UNCHANGED edgeVars

Spec == Init /\ [][Next]_vars

\* The loops of a running process, its restart, time and the API go on.  A drain
\* ends although a refused batch is always due again: after maxDrainBatch batches
\* at most it looks at its deadline.
Fairness ==
    /\ WF_vars(PollStep) /\ WF_vars(DeliveryStep) /\ SF_vars(Shutdown) /\ WF_vars(Start)
    /\ \A b \in Batches : WF_vars(DelayEnds(b)) /\ WF_vars(LeaseEnds(b))
    /\ \A q \in Requests : WF_vars(Answer(q)) /\ WF_vars(HandlerStep(q) /\ UNCHANGED edgeVars)

FairSpec == Spec /\ Fairness

-----------------------------------------------------------------------------
(* Properties *)

\* The tables of the API, the queue and the two loops keep their type; a batch is due
\* once, and only while it is not leased or sent (EdgeQueue.claim).
TypeOK ==
    /\ IngestTypeOK
    /\ agent \in {"running", "draining", "down"}
    /\ poll \in Poll /\ (poll.at # "idle" => poll.batch \in Batches)
    /\ archived \subseteq Batches
    /\ passed \subseteq Batches
    /\ queue \in [Batches -> QueueStates]
    /\ due \in Seq(Batches)
    /\ \A i \in DOMAIN due :
        queue[due[i]] = "queued" /\ \A j \in DOMAIN due : due[i] = due[j] => i = j
    /\ delivery \in Delivery
    /\ delivery.at # "idle" => delivery.batch \in Batches
    /\ delivery.at = "posted" => delivery.request \in Requests

\* apps/edge-agent/README.md:6-11: no checkpoint passes records that are not in the
\* archive and in the queue, wherever a poll, the process or a drain is cut short.
CheckpointIsCovered ==
    \A b \in passed : Earlier[b] \subseteq passed /\ b \in archived /\ queue[b] # "absent"

\* A batch the agent no longer delivers has been ingested with exactly its payload
\* and its evidence is stored, although requests time out and are answered late,
\* repeated or answered for another payload of the run.
SentIsIngested ==
    \A b \in Batches :
        queue[b] = "sent" =>
            /\ run[RunOf[b]] = [bundle |-> b, state |-> "succeeded"]
            /\ landing[RunOf[b]].bundle = b
            /\ b \in blob

\* Every step of agent and API is one of the contract, or invisible to it.
Contract == INSTANCE IngestContract WITH
    collected <- passed,
    ingested <- {b \in Bundles : run[RunOf[b]] = [bundle |-> b, state |-> "succeeded"]},
    delivered <- {b \in Batches : queue[b] = "sent"}

ImplementsContract == Contract!Spec

\* README "remaining entries are retained for the next start": every batch of a
\* source is delivered in the end, unless the API refuses it for good; a batch
\* that is refused for ever does not starve the others.
Refused(b) == b \in Invalid \/ Conflicts(b)

EveryBatchIsDelivered == \A b \in Batches : <>(queue[b] = "sent" \/ Refused(b))
=============================================================================
