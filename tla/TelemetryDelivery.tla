-------------------------- MODULE TelemetryDelivery --------------------------
(***************************************************************************)
(* Delivery of telemetry from the PLC client to the backend                *)
(* (ClientPLC.Infrastructure: MqttClientService, LocalDbService,           *)
(* ApplicationAcknowledgementHandler, MqttTransport; backend:              *)
(* MqttServerService, DatabaseService).                                    *)
(*                                                                         *)
(* One action is one database transaction or one step of the transport, so *)
(* everything that can come between two of them does: the producers (one   *)
(* per record), the delivery pump, the acknowledgement handler, the        *)
(* backend, the network, a crash, a stop and the operator interleave.      *)
(*                                                                         *)
(* A telemetry message is identified with the record it carries.  A sync   *)
(* batch carries the records that were unsynced when it was read.          *)
(***************************************************************************)
EXTENDS Integers, Sequences, FiniteSets, FiniteSetsExt

CONSTANTS
    Records,      \* telemetry records, and the messages that carry one record
    Batches,      \* ids of sync batches
    None,         \* no message
    MaxAttempts,  \* OfflineQueueOptions.MaxAttempts
    IntMax,       \* where the retry counter saturates
    MayExpire,    \* messages that may outlive OfflineQueueOptions.MaxAge
    Starts,       \* the approval of the device and the faults already spent, at the start
    MaxFaults,    \* bound of the model: lost connections, lost, late, busy and failed replies
    MaxRestarts,  \* bound of the model: crashes and stops of the client
    MaxAudits     \* bound of the model: audited events of the queue

Msgs == Records \cup Batches

ASSUME DeliveryAssumption ==
    /\ IsFiniteSet(Records) /\ IsFiniteSet(Batches)
    /\ Records \cap Batches = {}
    /\ None \notin Msgs
    /\ MaxAttempts \in Nat \ {0}
    /\ IntMax \in Nat /\ MaxAttempts <= IntMax
    /\ MayExpire \subseteq Msgs
    /\ Starts \subseteq [approved : BOOLEAN, faults : Nat]
    /\ {MaxFaults, MaxRestarts, MaxAudits} \subseteq Nat

VARIABLES
    row, nextId, blocker, audit, summary, audited,  \* the offline queue
    store,      \* telemetry_records: synced, per record
    content,    \* the records in a sync batch; {} while the id is unused
    producer,   \* where the producer of each record is
    pump,       \* the delivery pump
    handler,    \* the acknowledgement handler
    phase,      \* life of the client process
    transport,  \* MqttTransport
    wire,       \* the message the backend has received on this connection
    orphans,    \* messages in work at the backend from closed connections
    acks,       \* acknowledgements sent on this connection
    receipts,   \* telemetry_ingest_receipts of the backend
    approved,   \* the device is approved at the backend
    faults, restarts, \* how many faults and restarts there were
    raced       \* batches retried between the two queries of CanCreateSyncBatch

queueVars == <<row, nextId, blocker, audit, summary, audited>>
clientVars == <<producer, pump, handler, phase>>
networkVars == <<transport, wire, orphans, acks>>
serverVars == <<receipts, approved>>
history == <<faults, restarts, raced>>
vars == <<queueVars, store, content, clientVars, networkVars, serverVars, history>>

(* The offline queue; budgets and audit retention are its own subject. *)
Topics == {"telemetry", "sync"}
TopicOf == [m \in Msgs |-> IF m \in Records THEN "telemetry" ELSE "sync"]
Size == [m \in Msgs |-> 1]
MaxPayloadBytes == Cardinality(Msgs) + 1
AuditMaxRows == 1
MaxId == Cardinality(Msgs)

Q == INSTANCE OfflineQueue

-----------------------------------------------------------------------------
(* States *)

ProducerStates == {"idle", "check", "prepare", "send", "puback", "find", "fail"}
PumpStates == {"idle", "deadlines", "select", "replay", "read", "active", "dead", "create",
               "prepare", "send", "puback", "find", "fail"}

IdlePump == [pc |-> "idle", syncing |-> FALSE, due |-> <<>>, seen |-> {}, msg |-> None]
IdleHandler == [pc |-> "idle", msg |-> None]

AckStates == {"Committed", "Busy", "Rejected"}

Items(m) == IF m \in Records THEN {m} ELSE content[m]
Unsynced == {r \in Records : store[r] = "unsynced"}
ClientAlive == phase # "off"

\* The publish lock is held from the publish until the broker has answered.
PublishLockFree == pump.pc # "puback" /\ \A r \in Records : producer[r] # "puback"

\* Somewhere between the publish of m and the end of its acknowledgement.
InFlight(m) ==
    \/ m = wire \/ m \in orphans
    \/ \E i \in 1..Len(acks) : acks[i].msg = m
    \/ handler.msg = m
    \/ pump.msg = m /\ pump.pc \in {"send", "puback", "find", "fail"}
    \/ m \in Records /\ producer[m] \in {"send", "puback", "find", "fail"}

Fault == faults < MaxFaults /\ faults' = faults + 1 /\ UNCHANGED <<restarts, raced>>

ProducerAt(r, from, to) == producer[r] = from /\ producer' = [producer EXCEPT ![r] = to]
PumpAt(from, to) == pump.pc = from /\ pump' = [pump EXCEPT !.pc = to]

\* The pump ends its pass over the due messages and turns to the sync batch,
\* or ends its pass over the sync batch.
PumpDone == IF pump.syncing THEN IdlePump
            ELSE [pc |-> "read", syncing |-> TRUE, due |-> <<>>, seen |-> {}, msg |-> None]

Disconnected(to, producerThen, pumpThen) ==
    /\ transport' = to
    /\ wire' = None
    /\ orphans' \in {orphans, orphans \cup ({wire} \ {None})}
    /\ acks' = <<>>
    /\ producer' = [r \in Records |-> IF producerThen[r] = "puback" THEN "find" ELSE producerThen[r]]
    /\ pump' = IF pumpThen.pc = "puback" THEN [pumpThen EXCEPT !.pc = "find"] ELSE pumpThen

\* PublishAsync hands the message to the broker, which answers when the
\* backend has handled it.
Published(m) ==
    /\ wire' = m
    /\ orphans' = orphans \cup ({wire} \ {None})
    /\ UNCHANGED <<transport, acks>>

-----------------------------------------------------------------------------
(* Producers: the telemetry loop, PLC read events and manual sends *)

\* Record and queue row are written in one transaction.
Stored(r) ==
    /\ store[r] = "none"
    /\ store' = [store EXCEPT ![r] = "unsynced"]
    /\ Q!Enqueue(r)
    /\ ProducerAt(r, "idle", "check")
    /\ UNCHANGED <<content, pump, handler, networkVars, serverVars, history>>

Store(r) == phase = "running" /\ UNCHANGED phase /\ Stored(r)

ProducerCheck(r) ==
    /\ ProducerAt(r, "check", IF transport = "up" THEN "prepare" ELSE "idle")
    /\ UNCHANGED <<queueVars, store, content, pump, handler, phase, networkVars, serverVars, history>>

\* A message that is no longer live cannot be prepared.  The exception stops
\* the transport, except for the final message of StopAsync.
ProducerPrepare(r) ==
    /\ producer[r] = "prepare"
    /\ Q!MarkAwaitingAcknowledgement(r)
    /\ \/ /\ Q!Live(r)
          /\ ProducerAt(r, "prepare", "send")
          /\ UNCHANGED <<pump, networkVars>>
       \/ /\ ~Q!Live(r) /\ phase # "final"
          /\ Disconnected("stopped", [producer EXCEPT ![r] = "idle"], pump)
       \/ /\ ~Q!Live(r) /\ phase = "final"
          /\ ProducerAt(r, "prepare", "find")
          /\ UNCHANGED <<pump, networkVars>>
    /\ UNCHANGED <<store, content, handler, phase, serverVars, history>>

ProducerPublish(r) ==
    /\ phase # "stopping"
    /\ PublishLockFree
    /\ \/ /\ transport = "up"
          /\ ProducerAt(r, "send", "puback")
          /\ Published(r)
       \/ /\ transport # "up"
          /\ ProducerAt(r, "send", "find")
          /\ UNCHANGED networkVars
    /\ UNCHANGED <<queueVars, store, content, pump, handler, phase, serverVars, history>>

ProducerPublished(r) ==
    /\ wire = None
    /\ ProducerAt(r, "puback", "idle")
    /\ UNCHANGED <<queueVars, store, content, pump, handler, phase, networkVars, serverVars, history>>

\* StopAsync cancels a publish; the final publish times out instead.
ProducerCancelled(r) ==
    /\ phase \in {"stopping", "final"}
    /\ producer[r] \in {"send", "puback"}
    /\ producer' = [producer EXCEPT ![r] = IF phase = "final" THEN "find" ELSE "idle"]
    /\ UNCHANGED <<queueVars, store, content, pump, handler, phase, networkVars, serverVars, history>>

\* RecordOfflineMessageFailure: Find, then RecordFailure in another transaction.
ProducerFind(r) ==
    /\ ProducerAt(r, "find", IF r \in Q!Queued THEN "fail" ELSE "idle")
    /\ UNCHANGED <<queueVars, store, content, pump, handler, phase, networkVars, serverVars, history>>

ProducerFail(r) ==
    /\ producer[r] = "fail"
    /\ Q!RecordFailure(r)
    /\ \/ /\ r \in Q!Queued \/ phase = "final"
          /\ ProducerAt(r, "fail", "idle")
          /\ UNCHANGED <<pump, networkVars>>
       \/ /\ r \notin Q!Queued /\ phase # "final"
          /\ Disconnected("stopped", [producer EXCEPT ![r] = "idle"], pump)
    /\ UNCHANGED <<store, content, handler, phase, serverVars, history>>

ProducerStep(r) ==
    \/ ProducerCheck(r)
    \/ ProducerPrepare(r)
    \/ ProducerPublish(r)
    \/ ProducerPublished(r)
    \/ ProducerCancelled(r)
    \/ ProducerFind(r)
    \/ ProducerFail(r)

-----------------------------------------------------------------------------
(* The delivery pump: due messages first, then one new sync batch *)

PumpFrame == UNCHANGED <<store, producer, handler, phase, serverVars, history>>

PumpStart ==
    /\ phase = "running" /\ transport = "up"
    /\ PumpAt("idle", "deadlines")
    /\ Q!RemoveExpired
    /\ PumpFrame /\ UNCHANGED <<content, networkVars>>

PumpDeadlines ==
    /\ PumpAt("deadlines", "select")
    /\ Q!MoveExpiredAcknowledgementsToDead
    /\ PumpFrame /\ UNCHANGED <<content, networkVars>>

PumpSelect ==
    /\ pump.pc = "select"
    /\ \E due \in Q!Listing(Q!DueBatch(100)) :
            pump' = [pump EXCEPT !.pc = "replay", !.due = due]
    /\ PumpFrame /\ UNCHANGED <<queueVars, content, networkVars>>

\* The next due message; a message that cannot be prepared ends the pass.
PumpReplay ==
    /\ pump.pc = "replay"
    /\ pump.due # <<>> /\ phase = "running" /\ transport = "up"
    /\ Q!MarkAwaitingAcknowledgement(Head(pump.due))
    /\ pump' = IF Q!Live(Head(pump.due))
               THEN [pump EXCEPT !.pc = "send", !.due = Tail(pump.due), !.msg = Head(pump.due)]
               ELSE PumpDone
    /\ PumpFrame /\ UNCHANGED <<content, networkVars>>

PumpReplayDone ==
    /\ pump.pc = "replay"
    /\ pump.due = <<>> \/ phase # "running" \/ transport # "up"
    /\ pump' = PumpDone
    /\ PumpFrame /\ UNCHANGED <<queueVars, content, networkVars>>

PumpPublish ==
    /\ phase = "running"
    /\ PublishLockFree
    /\ \/ /\ transport = "up"
          /\ PumpAt("send", "puback")
          /\ Published(pump.msg)
       \/ /\ transport # "up"
          /\ PumpAt("send", "find")
          /\ UNCHANGED networkVars
    /\ PumpFrame /\ UNCHANGED <<queueVars, content>>

\* The wait before the next message ends early when the client stops.
PumpPublished ==
    /\ pump.pc = "puback" /\ wire = None
    /\ pump' = IF pump.syncing \/ phase # "running" THEN IdlePump
               ELSE [pump EXCEPT !.pc = "replay", !.msg = None]
    /\ PumpFrame /\ UNCHANGED <<queueVars, content, networkVars>>

PumpCancelled ==
    /\ phase = "stopping"
    /\ pump.pc \in {"send", "puback"}
    /\ pump' = IdlePump
    /\ PumpFrame /\ UNCHANGED <<queueVars, content, networkVars>>

PumpFind ==
    /\ pump.pc = "find"
    /\ pump' = IF pump.msg \in Q!Queued THEN [pump EXCEPT !.pc = "fail"] ELSE PumpDone
    /\ PumpFrame /\ UNCHANGED <<queueVars, content, networkVars>>

PumpFail ==
    /\ pump.pc = "fail"
    /\ Q!RecordFailure(pump.msg)
    /\ pump' = PumpDone
    /\ PumpFrame /\ UNCHANGED <<content, networkVars>>

SyncActiveUnlessPending ==
    /\ pump.pc = "active"
    /\ pump' = IF \E b \in Batches : row[b].status \in {"PENDING", "RETRY"} THEN IdlePump
               ELSE [pump EXCEPT !.pc = "dead"]
    /\ PumpFrame /\ UNCHANGED <<queueVars, content, networkVars>>

SyncRead ==
    /\ pump.pc = "read"
    /\ pump' = IF Unsynced = {} THEN IdlePump
               ELSE [pump EXCEPT !.pc = "active", !.seen = Unsynced]
    /\ PumpFrame /\ UNCHANGED <<queueVars, content, networkVars>>

\* CanCreateSyncBatch is two queries.
SyncActive ==
    /\ pump.pc = "active"
    /\ pump' = IF Q!HasActiveMessageForTopic("sync") THEN IdlePump
               ELSE [pump EXCEPT !.pc = "dead"]
    /\ PumpFrame /\ UNCHANGED <<queueVars, content, networkVars>>

SyncDead ==
    /\ pump.pc = "dead"
    /\ pump' = IF Q!HasDeadMessageForTopic("sync") THEN IdlePump
               ELSE [pump EXCEPT !.pc = "create"]
    /\ PumpFrame /\ UNCHANGED <<queueVars, content, networkVars>>

UnusedBatches == {b \in Batches : content[b] = {}}

SyncCreate(b) ==
    /\ pump.pc = "create"
    /\ b \in UnusedBatches
    /\ Q!Enqueue(b)
    /\ content' = [content EXCEPT ![b] = pump.seen]
    /\ pump' = [pump EXCEPT !.pc = "prepare", !.seen = {}, !.msg = b]
    /\ PumpFrame /\ UNCHANGED networkVars

\* Bound of the model: no id for another batch.
SyncOutOfIds ==
    /\ pump.pc = "create"
    /\ UnusedBatches = {}
    /\ pump' = IdlePump
    /\ PumpFrame /\ UNCHANGED <<queueVars, content, networkVars>>

SyncPrepare ==
    /\ pump.pc = "prepare"
    /\ Q!MarkAwaitingAcknowledgement(pump.msg)
    /\ pump' = IF Q!Live(pump.msg) THEN [pump EXCEPT !.pc = "send"] ELSE IdlePump
    /\ PumpFrame /\ UNCHANGED <<content, networkVars>>

PumpStep ==
    \/ PumpStart
    \/ PumpDeadlines
    \/ PumpSelect
    \/ PumpReplay
    \/ PumpReplayDone
    \/ PumpPublish
    \/ PumpPublished
    \/ PumpCancelled
    \/ PumpFind
    \/ PumpFail
    \/ SyncRead
    \/ SyncActive
    \/ SyncDead
    \/ \E b \in Batches : SyncCreate(b)
    \/ SyncOutOfIds
    \/ SyncPrepare

-----------------------------------------------------------------------------
(* The acknowledgement handler *)

Received(m, state) ==
    /\ ClientAlive /\ handler.pc = "idle"
    /\ acks # <<>> /\ Head(acks) = [msg |-> m, state |-> state]
    /\ acks' = Tail(acks)
    /\ UNCHANGED <<content, producer, pump, phase, transport, wire, orphans, serverVars, history>>

MarkNothing(m) == UNCHANGED store

MarkSynced(m) == store' = [r \in Records |-> IF r \in Items(m) THEN "synced" ELSE store[r]]

\* The records are marked synced before the queue row is completed, each in a
\* transaction of its own.
AckCommitted(m) ==
    /\ Received(m, "Committed")
    /\ \/ /\ m \in Q!Queued
          /\ MarkSynced(m)
          /\ handler' = [pc |-> "complete", msg |-> m]
       \/ /\ m \notin Q!Queued
          /\ UNCHANGED <<store, handler>>
    /\ UNCHANGED queueVars

AckRetryableTakenAsDone(m) ==
    /\ Received(m, "Busy")
    /\ MarkSynced(m)
    /\ handler' = [pc |-> "complete", msg |-> m]
    /\ UNCHANGED queueVars

\* Busy or RetryableFailure.
AckRetryable(m) ==
    /\ Received(m, "Busy")
    /\ Q!ScheduleRetry(m)
    /\ UNCHANGED <<store, handler>>

AckPermanentDropsRow(m) ==
    /\ Received(m, "Rejected")
    /\ Q!Complete(m)
    /\ UNCHANGED <<store, handler>>

\* PermanentFailure, Conflict, Malformed or PayloadTooLarge.
AckPermanent(m) ==
    /\ Received(m, "Rejected")
    /\ Q!Quarantine(m)
    /\ UNCHANGED <<store, handler>>

HandlerComplete ==
    /\ handler.pc = "complete"
    /\ Q!Complete(handler.msg)
    /\ handler' = IdleHandler
    /\ UNCHANGED <<store, content, producer, pump, phase, networkVars, serverVars, history>>

HandlerStep ==
    \/ \E m \in Msgs : AckCommitted(m) \/ AckRetryable(m) \/ AckPermanent(m)
    \/ HandlerComplete

-----------------------------------------------------------------------------
(* The backend; one transaction commits all records of a message *)

Arrived == ({wire} \ {None}) \cup orphans

\* The backend is done with one copy of m.
Handled(m) ==
    \/ /\ wire = m /\ wire' = None /\ UNCHANGED orphans
    \/ /\ m \in orphans /\ orphans' = orphans \ {m} /\ UNCHANGED wire

\* An acknowledgement reaches the session that is connected now, if any.
Reply(m, state) ==
    acks' = IF transport = "up" THEN Append(acks, [msg |-> m, state |-> state]) ELSE acks

ServerFrame == UNCHANGED <<queueVars, store, content, clientVars, transport>>

ServerCommitFirstOfBatch(m) ==
    /\ approved
    /\ Handled(m)
    /\ \E r \in Items(m) : receipts' = receipts \cup {r}
    /\ Reply(m, "Committed")
    /\ ServerFrame /\ UNCHANGED <<approved, history>>

\* Committed, or Duplicate when every receipt was there; the client treats
\* both alike.
ServerCommit(m) ==
    /\ approved
    /\ Handled(m)
    /\ receipts' = receipts \cup Items(m)
    /\ Reply(m, "Committed")
    /\ ServerFrame /\ UNCHANGED <<approved, history>>

\* The commit succeeded but its outcome did not come back.
ServerInterrupted(m) ==
    /\ approved
    /\ Fault
    /\ Handled(m)
    /\ receipts' = receipts \cup Items(m)
    /\ Reply(m, "Busy") \/ UNCHANGED acks
    /\ ServerFrame /\ UNCHANGED approved

\* Busy or RetryableFailure, with nothing committed.
ServerBusy(m) ==
    /\ Fault
    /\ Handled(m)
    /\ Reply(m, "Busy")
    /\ ServerFrame /\ UNCHANGED serverVars

\* A device that is not approved, or a failure of the database that is not one
\* that passes (ClassifyDatabaseFailure), with nothing committed.
ServerReject(m) ==
    /\ Handled(m)
    /\ IF approved THEN Fault ELSE UNCHANGED history
    /\ Reply(m, "Rejected")
    /\ ServerFrame /\ UNCHANGED serverVars

\* The publish handler failed: its reply carries no message id.
ServerLose(m) ==
    /\ Fault
    /\ Handled(m)
    /\ ServerFrame /\ UNCHANGED <<acks, serverVars>>

Approve ==
    /\ ~approved /\ approved' = TRUE
    /\ UNCHANGED <<queueVars, store, content, clientVars, networkVars, receipts, history>>

ServerStep(m) ==
    \/ ServerCommit(m)
    \/ ServerInterrupted(m)
    \/ ServerBusy(m)
    \/ ServerReject(m)
    \/ ServerLose(m)

-----------------------------------------------------------------------------
(* The transport *)

Connect ==
    /\ ClientAlive
    /\ transport = "down" /\ transport' = "up"
    /\ UNCHANGED <<queueVars, store, content, clientVars, wire, orphans, acks, serverVars, history>>

Drop ==
    /\ transport = "up"
    /\ Fault
    /\ Disconnected("down", producer, pump)
    /\ UNCHANGED <<queueVars, store, content, handler, phase, serverVars>>

\* RestartConnection: the user's way to start a stopped transport again.
RestartConnection ==
    /\ phase = "running"
    /\ IF transport = "stopped" THEN UNCHANGED history ELSE Fault
    /\ Disconnected("down", producer, pump)
    /\ UNCHANGED <<queueVars, store, content, handler, phase, serverVars>>

-----------------------------------------------------------------------------
(* Life of the client process *)

ClientIdle == pump.pc = "idle" /\ \A r \in Records : producer[r] = "idle"

Restarting ==
    /\ restarts < MaxRestarts /\ restarts' = restarts + 1
    /\ UNCHANGED <<faults, raced>>

\* The model needs a record for the final telemetry.
Stop ==
    /\ phase = "running" /\ phase' = "stopping"
    /\ Restarting
    /\ \E r \in Records : store[r] = "none"
    /\ UNCHANGED <<queueVars, store, content, producer, pump, handler, networkVars, serverVars>>

\* The tasks have ended: one last record says that the client is offline.
StoreFinal(r) ==
    /\ phase = "stopping" /\ phase' = "final"
    /\ ClientIdle
    /\ Stored(r)

ProcessGone ==
    /\ phase' = "off"
    /\ Disconnected("stopped", [r \in Records |-> "idle"], IdlePump)
    /\ handler' = IdleHandler
    /\ UNCHANGED <<queueVars, store, content, serverVars>>

Stopped ==
    /\ phase = "final"
    /\ ClientIdle
    /\ ProcessGone /\ UNCHANGED history

Crash ==
    /\ ClientAlive
    /\ Restarting
    /\ ProcessGone

Restart ==
    /\ phase = "off" /\ phase' = "running"
    /\ Q!EnforceRetention
    /\ transport' = "down"
    /\ UNCHANGED <<store, content, producer, pump, handler, wire, orphans, acks, serverVars, history>>

-----------------------------------------------------------------------------
(* Time and the operator *)

QueueOnly == UNCHANGED <<store, content, clientVars, networkVars, serverVars>>

\* An acknowledgement that is still on its way past its deadline is a fault.
Elapse(m) ==
    /\ Q!Elapse(m)
    /\ IF row[m].status = "AWAITING_ACK" /\ InFlight(m) THEN Fault ELSE UNCHANGED history
    /\ QueueOnly

Age(m) == m \in MayExpire /\ Q!Age(m) /\ QueueOnly /\ UNCHANGED history

\* The first query of CanCreateSyncBatch is done, the second is not.
Raced(m) ==
    raced' = IF m \in Batches /\ pump.pc = "dead" THEN raced \cup {m} ELSE raced

Operator(m) ==
    /\ ClientAlive
    /\ \/ Q!RetryDead(m) /\ Raced(m)
       \/ Q!ResolveDead(m) /\ UNCHANGED raced
    /\ QueueOnly /\ UNCHANGED <<faults, restarts>>

-----------------------------------------------------------------------------
Init ==
    /\ Q!Init
    /\ store = [r \in Records |-> "none"]
    /\ content = [b \in Batches |-> {}]
    /\ producer = [r \in Records |-> "idle"]
    /\ pump = IdlePump
    /\ handler = IdleHandler
    /\ phase = "running"
    /\ transport = "down"
    /\ wire = None
    /\ orphans = {}
    /\ acks = <<>>
    /\ receipts = {}
    /\ \E s \in Starts : approved = s.approved /\ faults = s.faults
    /\ restarts = 0
    /\ raced = {}

Next ==
    \/ \E r \in Records : Store(r) \/ StoreFinal(r) \/ ProducerStep(r)
    \/ PumpStep
    \/ HandlerStep
    \/ \E m \in Msgs : ServerStep(m) \/ Elapse(m) \/ Age(m) \/ Operator(m)
    \/ Approve
    \/ Connect \/ Drop \/ RestartConnection
    \/ Stop \/ Stopped \/ Crash \/ Restart

Spec == Init /\ [][Next]_vars

\* Threads of the client and the backend run on, the transport's loop
\* reconnects, deadlines pass and a client that is off is started again.
Fairness ==
    /\ \A r \in Records : WF_vars(ProducerStep(r))
    /\ WF_vars(PumpStep)
    /\ WF_vars(HandlerStep)
    /\ \A m \in Msgs : WF_vars(ServerStep(m)) /\ WF_vars(Elapse(m))
    /\ WF_vars(Connect)
    /\ \A r \in Records : WF_vars(StoreFinal(r))
    /\ WF_vars(Stopped) /\ WF_vars(Restart)

FairSpec == Spec /\ Fairness

\* The user also restarts the connection when it has been stopped.
AttendedSpec == FairSpec /\ WF_vars(transport = "stopped" /\ RestartConnection)

-----------------------------------------------------------------------------
(* Properties *)

\* The abstract contract, read off the two databases.
Progress(r) ==
    IF store[r] = "synced" THEN "confirmed"
    ELSE IF r \in receipts THEN "committed"
    ELSE IF store[r] = "unsynced" THEN "pending"
    ELSE "none"

Contract == INSTANCE TelemetryContract WITH progress <- [r \in Records |-> Progress(r)]

\* Every variable of the delivery keeps its type.
TypeOK ==
    /\ Q!TypeOK
    /\ store \in [Records -> {"none", "unsynced", "synced"}]
    /\ content \in [Batches -> SUBSET Records]
    /\ producer \in [Records -> ProducerStates]
    /\ pump \in [pc : PumpStates, syncing : BOOLEAN, due : Seq(Msgs),
                 seen : SUBSET Records, msg : Msgs \cup {None}]
    /\ handler \in [pc : {"idle", "complete"}, msg : Msgs \cup {None}]
    /\ phase \in {"running", "stopping", "final", "off"}
    /\ transport \in {"stopped", "down", "up"}
    /\ wire \in Msgs \cup {None}
    /\ orphans \subseteq Msgs
    /\ acks \in Seq([msg : Msgs, state : AckStates])
    /\ receipts \subseteq Records
    /\ approved \in BOOLEAN
    /\ faults \in Nat /\ restarts \in Nat
    /\ raced \subseteq Batches

\* A record the client counts as synced, and will never send again, is in the
\* backend's database, whatever was lost, repeated or restarted on the way.
SyncedIsCommitted == \A r \in Records : store[r] = "synced" => r \in receipts

\* A sync batch is made only while no other one is live, dead or given up
\* without a decision (CanCreateSyncBatch).  Its two queries are two
\* transactions: the first has found no live batch, and the second then finds
\* no dead one when the operator has retried it in between.  That is the only
\* way to two live batches.
OneBatchUnlessRaced ==
    \A b, c \in Batches : Q!Live(b) /\ Q!Live(c) /\ Q!Before(b, c) => b \in raced

\* The client implements the contract of telemetry delivery.
ImplementsContract == Contract!Spec

\* A message leaves the queue only when all it carries is committed at the
\* backend and marked synced at the client, unless it outlived MaxAge or the
\* operator gave it up (ApplicationAcknowledgementHandler.Handle).
LeavesOnlyDelivered ==
    [][\A m \in Q!Queued :
            row'[m].status = "ABSENT" =>
                \/ \A r \in Items(m) : r \in receipts /\ store[r] = "synced"
                \/ row[m].old
                \/ Q!ResolveDead(m)]_vars

\* Every stored record reaches the backend and is confirmed.
EveryRecordIsConfirmed ==
    \A r \in Records : store[r] = "unsynced" ~> store[r] = "synced"

\* No message is retried for ever: it is completed, dies or expires.
NoEndlessRetry == \A m \in Msgs : Q!Live(m) ~> ~Q!Live(m)

\* README.md:121, docs/PROJECT-GUIDE.vi.md:121: the client reconnects.
Reconnects == phase = "running" /\ transport = "stopped" ~> transport # "stopped" \/ phase = "off"

\* OfflineQueueRepositoryTests.cs:526: a message is attempted MaxAttempts times
\* at most.
AttemptsBounded == \A m \in Msgs : row[m].retry <= MaxAttempts

\* OfflineQueueRepositoryTests.cs:447: a message the backend has rejected for
\* good is sent again only when the operator says so.
QuarantineNeedsOperator ==
    [][\A m \in Msgs : blocker[m] = "unresolved" /\ Q!Dead(m) /\ Q!Live(m)' => Q!RetryDead(m)]_vars
=============================================================================
