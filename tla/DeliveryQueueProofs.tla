------------------------- MODULE DeliveryQueueProofs -------------------------
(***************************************************************************)
(* The delivery and its queue: every step of TelemetryDelivery is a step   *)
(* of OfflineQueue or leaves the queue alone, so the theorems about the    *)
(* queue hold in the delivery; and what follows for the delivery: its      *)
(* types, what a message may leave the queue for, and the batch at a time. *)
(***************************************************************************)
EXTENDS TelemetryDeliveryProofs, Sums

QP == INSTANCE OfflineQueueProofs

-----------------------------------------------------------------------------
(* What the pump and the handler hold between two steps. *)

Carrying == {"prepare", "send", "puback", "find", "fail"}

PumpCarries == pump.pc \in Carrying => pump.msg \in Msgs

Delivered(m) == \A r \in Items(m) : r \in receipts /\ store[r] = "synced"

HandlerShape == [pc : {"idle", "complete"}, msg : Msgs \cup {None}]

HandlerCompletes ==
    /\ handler \in HandlerShape
    /\ handler.pc = "complete" => handler.msg \in Known /\ Delivered(handler.msg)

Lifetimes ==
    /\ phase \in {"running", "stopping", "final", "off"}
    /\ transport \in {"stopped", "down", "up"}
    /\ approved \in BOOLEAN
    /\ faults \in Nat /\ restarts \in Nat

Held == PumpCarries /\ HandlerCompletes /\ Lifetimes /\ raced \subseteq Batches

\* A lost connection leaves the pump's message where it is.
LEMMA DisconnectedCarries ==
    ASSUME IInv, PumpCarries, NEW to, NEW p, Disconnected(to, p, pump)
    PROVE  PumpCarries'
BY DEF IInv, Shapes, PumpCarries, Carrying, Disconnected

LEMMA PumpDoneCarries ==
    ASSUME pump' \in {IdlePump, PumpDone}
    PROVE  PumpCarries'
BY DEF PumpCarries, Carrying, IdlePump, PumpDone

LEMMA PumpStepCarries ==
    ASSUME IInv, PumpCarries, PumpStep
    PROVE  PumpCarries'
<1> USE DEF PumpAt, Carrying
<1>0. pump \in PumpShape
  BY DEF IInv, Shapes, PumpShape
<1>1. CASE pump' \in {IdlePump, PumpDone}
  BY <1>1, PumpDoneCarries
<1>2. ASSUME NEW to, pump' = [pump EXCEPT !.pc = to], to \in Carrying => pump.pc \in Carrying
      PROVE  PumpCarries'
  BY <1>0, <1>2 DEF PumpCarries, PumpShape
<1>3. CASE PumpStart \/ PumpDeadlines
  BY <1>2, <1>3 DEF PumpStart, PumpDeadlines
<1>4. CASE PumpSelect
  BY <1>0, <1>4 DEF PumpSelect, PumpCarries, PumpShape
<1>5. CASE PumpReplay
  <2>1. pump.due \in Seq(Msgs) /\ pump.due # <<>>
    BY <1>0, <1>5 DEF PumpReplay, PumpShape
  <2>2. Head(pump.due) \in Msgs
    BY <2>1
  <2>3. CASE pump' = [pump EXCEPT !.pc = "send", !.due = Tail(pump.due), !.msg = Head(pump.due)]
    <3>1. pump'.msg = Head(pump.due)
      BY <1>0, <2>3 DEF PumpShape
    <3> QED
      BY <2>2, <3>1 DEF PumpCarries
  <2> QED
    BY <1>1, <1>5, <2>3 DEF PumpReplay
<1>6. CASE PumpPublish
  BY <1>2, <1>6 DEF PumpPublish
<1>7. CASE PumpPublished
  <2>1. CASE pump' = [pump EXCEPT !.pc = "replay", !.msg = None]
    BY <1>0, <2>1 DEF PumpCarries, PumpShape
  <2> QED
    BY <1>1, <1>7, <2>1 DEF PumpPublished
<1>8. CASE PumpFind
  BY <1>1, <1>2, <1>8 DEF PumpFind
<1>9. CASE SyncRead
  <2>1. CASE pump' = [pump EXCEPT !.pc = "active", !.seen = Unsynced]
    BY <1>0, <2>1 DEF PumpCarries, PumpShape
  <2> QED
    BY <1>1, <1>9, <2>1 DEF SyncRead
<1>10. CASE SyncActive \/ SyncDead
  BY <1>1, <1>2, <1>10 DEF SyncActive, SyncDead
<1>11. ASSUME NEW b \in Batches, SyncCreate(b) PROVE PumpCarries'
  BY <1>0, <1>11 DEF SyncCreate, PumpCarries, PumpShape, Msgs
<1>12. CASE SyncPrepare
  BY <1>1, <1>2, <1>12 DEF SyncPrepare
<1>13. CASE PumpReplayDone \/ PumpCancelled \/ PumpFail \/ SyncOutOfIds
  BY <1>1, <1>13 DEF PumpReplayDone, PumpCancelled, PumpFail, SyncOutOfIds
<1> QED
  BY <1>3, <1>4, <1>5, <1>6, <1>7, <1>8, <1>9, <1>10, <1>11, <1>12, <1>13 DEF PumpStep

LEMMA PumpCarriesStep ==
    ASSUME IInv, PumpCarries, [Next]_vars
    PROVE  PumpCarries'
<1>1. CASE pump' = pump
  BY <1>1 DEF PumpCarries
<1>2. CASE \E to, p : Disconnected(to, p, pump)
  BY <1>2, DisconnectedCarries
<1>3. CASE ProcessGone
  <2>1. pump' = IdlePump
    BY <1>3 DEF ProcessGone, Disconnected, IdlePump
  <2> QED
    BY <2>1, PumpDoneCarries
<1>4. CASE PumpStep
  BY <1>4, PumpStepCarries
<1>5. CASE \E r \in Records : Store(r) \/ StoreFinal(r) \/ ProducerStep(r)
  BY <1>1, <1>2, <1>5
  DEF Store, StoreFinal, Stored, ProducerStep, ProducerCheck, ProducerPrepare, ProducerPublish,
      ProducerPublished, ProducerCancelled, ProducerFind, ProducerFail
<1>6. CASE HandlerStep
  BY <1>1, <1>6 DEF HandlerStep, AckCommitted, AckRetryable, AckPermanent, Received, HandlerComplete
<1>7. CASE \E m \in Msgs : ServerStep(m)
  BY <1>1, <1>7 DEF ServerStep, ServerCommit, ServerInterrupted, ServerBusy, ServerReject,
                    ServerLose, ServerFrame, clientVars
<1>8. CASE \E m \in Msgs : Elapse(m) \/ Age(m) \/ Operator(m)
  BY <1>1, <1>8 DEF Elapse, Age, Operator, QueueOnly, clientVars
<1>9. CASE Connect \/ Drop \/ RestartConnection
  BY <1>1, <1>2, <1>9 DEF Connect, Drop, RestartConnection, clientVars
<1>10. CASE Stop \/ Stopped \/ Crash \/ Restart
  BY <1>1, <1>3, <1>10 DEF Stop, Stopped, Crash, Restart
<1>11. CASE Approve \/ UNCHANGED vars
  BY <1>1, <1>11 DEF Approve, vars, clientVars
<1> QED
  BY <1>4, <1>5, <1>6, <1>7, <1>8, <1>9, <1>10, <1>11 DEF Next

\* Receipts, synced records and the contents of batches are never taken back.
LEMMA NothingTakenBack ==
    ASSUME IInv, [Next]_vars
    PROVE  /\ receipts \subseteq receipts'
           /\ \A r \in Records : store[r] = "synced" => store'[r] = "synced"
           /\ Known \subseteq Known'
           /\ \A m \in Known : Items(m)' = Items(m)
<1> DEFINE Grows == /\ receipts \subseteq receipts'
                    /\ \A r \in Records : /\ store[r] = "synced" => store'[r] = "synced"
                                          /\ store[r] # "none" => store'[r] # "none"
<1>1. Grows
  <2>1. CASE Bookkeeping
    BY <2>1 DEF Bookkeeping
  <2>2. ASSUME NEW r \in Records, Stored(r) PROVE Grows
    BY <2>2 DEF Stored, serverVars, IInv, Shapes
  <2>3. ASSUME NEW m \in Msgs, AckCommitted(m) PROVE Grows
    BY <2>3 DEF AckCommitted, Received, MarkSynced, serverVars, IInv, Shapes
  <2>4. ASSUME NEW m \in Msgs, Committing(m) PROVE Grows
    BY <2>4 DEF Committing
  <2> QED
    BY <2>1, <2>2, <2>3, <2>4, StepsOfContract
<1>2. content' = content \/ \E b \in Batches : SyncCreate(b)
  <2>1. CASE \E r \in Records : Store(r) \/ StoreFinal(r) \/ ProducerStep(r)
    BY <2>1
    DEF Store, StoreFinal, Stored, ProducerStep, ProducerCheck, ProducerPrepare, ProducerPublish,
        ProducerPublished, ProducerCancelled, ProducerFind, ProducerFail
  <2>2. CASE PumpStep
    BY <2>2 DEF PumpStep, PumpStart, PumpDeadlines, PumpSelect, PumpReplay, PumpReplayDone,
                PumpPublish, PumpPublished, PumpCancelled, PumpFind, PumpFail, SyncRead, SyncActive,
                SyncDead, SyncOutOfIds, SyncPrepare
  <2>3. CASE HandlerStep
    BY <2>3 DEF HandlerStep, AckCommitted, AckRetryable, AckPermanent, Received, HandlerComplete
  <2>4. CASE \E m \in Msgs : ServerStep(m)
    BY <2>4 DEF ServerStep, ServerCommit, ServerInterrupted, ServerBusy, ServerReject, ServerLose,
                ServerFrame
  <2>5. CASE \E m \in Msgs : Elapse(m) \/ Age(m) \/ Operator(m)
    BY <2>5 DEF Elapse, Age, Operator, QueueOnly
  <2>6. CASE Connect \/ Drop \/ RestartConnection
    BY <2>6 DEF Connect, Drop, RestartConnection
  <2>7. CASE Stop \/ Stopped \/ Crash \/ Restart
    BY <2>7 DEF Stop, Stopped, Crash, Restart, ProcessGone
  <2>8. CASE Approve \/ UNCHANGED vars
    BY <2>8 DEF Approve, vars
  <2> QED
    BY <2>1, <2>2, <2>3, <2>4, <2>5, <2>6, <2>7, <2>8 DEF Next
<1>3. \A b \in Batches : content[b] # {} => content'[b] = content[b]
  <2>1. ASSUME NEW c \in Batches, SyncCreate(c), NEW b \in Batches, content[b] # {}
        PROVE  content'[b] = content[b]
    BY <2>1 DEF SyncCreate, UnusedBatches, IInv, Shapes
  <2> QED
    BY <1>2, <2>1
<1>4. Known \subseteq Known'
  BY <1>1, <1>3 DEF Known, Stored_
<1>5. \A m \in Known : Items(m)' = Items(m)
  BY <1>3 DEF Known, Stored_, Items
<1> QED
  BY <1>1, <1>4, <1>5

\* What the handler is about to complete stays delivered.
LEMMA StaysDelivered ==
    ASSUME IInv, [Next]_vars, NEW m \in Known, Delivered(m)
    PROVE  m \in Known' /\ Delivered(m)'
<1>1. Items(m)' = Items(m) /\ m \in Known'
  BY NothingTakenBack
<1>2. Items(m) \subseteq Records
  <2>1. m \in Records \/ m \in Batches
    BY DEF Known, Stored_
  <2> QED
    BY <2>1 DEF Items, IInv, Shapes
<1> QED
  BY <1>1, <1>2, NothingTakenBack DEF Delivered

LEMMA HandlerUnlessStep ==
    ASSUME [Next]_vars
    PROVE  \/ handler' = handler
           \/ handler' = IdleHandler
           \/ \E m \in Msgs : AckCommitted(m) /\ m \in Q!Queued
<1>1. CASE \E r \in Records : Store(r) \/ StoreFinal(r) \/ ProducerStep(r)
  BY <1>1
  DEF Store, StoreFinal, Stored, ProducerStep, ProducerCheck, ProducerPrepare, ProducerPublish,
      ProducerPublished, ProducerCancelled, ProducerFind, ProducerFail
<1>2. CASE PumpStep
  BY <1>2 DEF PumpStep, PumpFrame, PumpStart, PumpDeadlines, PumpSelect, PumpReplay, PumpReplayDone,
              PumpPublish, PumpPublished, PumpCancelled, PumpFind, PumpFail, SyncRead, SyncActive,
              SyncDead, SyncCreate, SyncOutOfIds, SyncPrepare
<1>3. CASE HandlerStep
  BY <1>3 DEF HandlerStep, AckCommitted, AckRetryable, AckPermanent, HandlerComplete
<1>4. CASE \E m \in Msgs : ServerStep(m)
  BY <1>4 DEF ServerStep, ServerCommit, ServerInterrupted, ServerBusy, ServerReject, ServerLose,
              ServerFrame, clientVars
<1>5. CASE \E m \in Msgs : Elapse(m) \/ Age(m) \/ Operator(m)
  BY <1>5 DEF Elapse, Age, Operator, QueueOnly, clientVars
<1>6. CASE Connect \/ Drop \/ RestartConnection
  BY <1>6 DEF Connect, Drop, RestartConnection, clientVars
<1>7. CASE Stop \/ Stopped \/ Crash \/ Restart
  BY <1>7 DEF Stop, Stopped, Crash, Restart, ProcessGone
<1>8. CASE Approve \/ UNCHANGED vars
  BY <1>8 DEF Approve, vars, clientVars
<1> QED
  BY <1>1, <1>2, <1>3, <1>4, <1>5, <1>6, <1>7, <1>8 DEF Next

LEMMA HandlerCompletesStep ==
    ASSUME IInv, IInv', HandlerCompletes, [Next]_vars
    PROVE  HandlerCompletes'
<1>1. CASE handler' = handler
  BY <1>1, StaysDelivered DEF HandlerCompletes
<1>2. CASE handler' = IdleHandler
  BY <1>2 DEF HandlerCompletes, HandlerShape, IdleHandler
<1>3. ASSUME NEW m \in Msgs, AckCommitted(m), m \in Q!Queued PROVE HandlerCompletes'
  <2>1. handler' = [pc |-> "complete", msg |-> m]
    BY <1>3 DEF AckCommitted
  <2>2. m \in Known'
    BY <1>3, NothingTakenBack DEF IInv, Durable, QueueDurable
  <2>3. Delivered(m)'
    <3>1. \A r \in Records : r \in Items(m) => store'[r] = "synced"
      BY <1>3 DEF AckCommitted, MarkSynced
    <3>2. Items(m)' = Items(m) /\ Items(m) \subseteq Records
      <4>1. m \in Known
        BY <1>3 DEF IInv, Durable, QueueDurable
      <4>2. Items(m) \subseteq Stored_
        BY <4>1, TravelsStored
      <4> QED
        BY <4>1, <4>2, NothingTakenBack DEF Stored_
    <3> QED
      BY <3>1, <3>2 DEF Delivered, IInv, SyncedIsCommitted
  <2> QED
    BY <2>1, <2>2, <2>3 DEF HandlerCompletes, HandlerShape
<1> QED
  BY <1>1, <1>2, <1>3, HandlerUnlessStep

LEMMA LifetimesStep ==
    ASSUME Lifetimes, [Next]_vars
    PROVE  Lifetimes'
<1> USE DEF Lifetimes, Fault, Disconnected, serverVars, networkVars, history, clientVars, Restarting
<1>1. CASE \E r \in Records : Store(r) \/ StoreFinal(r)
  BY <1>1 DEF Store, StoreFinal, Stored
<1>2. CASE \E r \in Records : ProducerStep(r)
  BY <1>2
  DEF ProducerStep, ProducerCheck, ProducerPrepare, ProducerPublish, Published,
      ProducerPublished, ProducerCancelled, ProducerFind, ProducerFail
<1>3. CASE PumpStep
  BY <1>3 DEF PumpStep, PumpFrame, PumpStart, PumpDeadlines, PumpSelect, PumpReplay, PumpReplayDone,
              PumpPublish, Published, PumpPublished, PumpCancelled, PumpFind, PumpFail, SyncRead,
              SyncActive, SyncDead, SyncCreate, SyncOutOfIds, SyncPrepare
<1>4. CASE HandlerStep
  BY <1>4 DEF HandlerStep, AckCommitted, AckRetryable, AckPermanent, Received, HandlerComplete
<1>5. CASE \E m \in Msgs : ServerStep(m)
  BY <1>5 DEF ServerStep, ServerCommit, ServerInterrupted, ServerBusy, ServerReject, ServerLose,
              ServerFrame
<1>6. CASE \E m \in Msgs : Elapse(m) \/ Age(m) \/ Operator(m)
  BY <1>6 DEF Elapse, Age, Operator, QueueOnly
<1>7. CASE Connect \/ Drop \/ RestartConnection
  BY <1>7 DEF Connect, Drop, RestartConnection
<1>8. CASE Stop \/ Stopped \/ Crash \/ Restart
  BY <1>8 DEF Stop, Stopped, Crash, Restart, ProcessGone
<1>9. CASE Approve \/ UNCHANGED vars
  BY <1>9 DEF Approve, vars
<1> QED
  BY <1>1, <1>2, <1>3, <1>4, <1>5, <1>6, <1>7, <1>8, <1>9 DEF Next

\* Only the operator's retry of a batch makes one raced, and none is forgotten.
LEMMA RacedSteps ==
    ASSUME [Next]_vars
    PROVE  \/ raced' = raced
           \/ \E b \in Batches : Q!RetryDead(b) /\ raced' = raced \cup {b}
<1> USE DEF Fault, Restarting, history
<1>1. CASE \E r \in Records : Store(r) \/ StoreFinal(r)
  BY <1>1 DEF Store, StoreFinal, Stored
<1>2. CASE \E r \in Records : ProducerStep(r)
  BY <1>2
  DEF ProducerStep, ProducerCheck, ProducerPrepare, ProducerPublish, ProducerPublished,
      ProducerCancelled, ProducerFind, ProducerFail
<1>3. CASE PumpStep
  BY <1>3 DEF PumpStep, PumpFrame, PumpStart, PumpDeadlines, PumpSelect, PumpReplay, PumpReplayDone,
              PumpPublish, PumpPublished, PumpCancelled, PumpFind, PumpFail, SyncRead,
              SyncActive, SyncDead, SyncCreate, SyncOutOfIds, SyncPrepare
<1>4. CASE HandlerStep
  BY <1>4 DEF HandlerStep, AckCommitted, AckRetryable, AckPermanent, Received, HandlerComplete
<1>5. CASE \E m \in Msgs : ServerStep(m)
  BY <1>5 DEF ServerStep, ServerCommit, ServerInterrupted, ServerBusy, ServerReject, ServerLose
<1>6. CASE \E m \in Msgs : Elapse(m) \/ Age(m)
  BY <1>6 DEF Elapse, Age
<1>7. CASE \E m \in Msgs : Operator(m)
  BY <1>7 DEF Operator, Raced
<1>8. CASE Connect \/ Drop \/ RestartConnection
  BY <1>8 DEF Connect, Drop, RestartConnection
<1>9. CASE Stop \/ Stopped \/ Crash \/ Restart
  BY <1>9 DEF Stop, Stopped, Crash, Restart
<1>10. CASE Approve \/ UNCHANGED vars
  BY <1>10 DEF Approve, vars
<1> QED
  BY <1>1, <1>2, <1>3, <1>4, <1>5, <1>6, <1>7, <1>8, <1>9, <1>10 DEF Next

\* The pump and the handler carry messages, and what the handler is about to
\* complete is delivered, in every reachable state.
THEOREM HeldInvariance == Spec => []Held
<1>1. Init => Held
  BY DeliveryAssumption DEF Init, Held, PumpCarries, Carrying, HandlerCompletes, HandlerShape,
     Lifetimes, IdlePump, IdleHandler
<1>2. IInv /\ IInv' /\ Held /\ [Next]_vars => Held'
  BY PumpCarriesStep, HandlerCompletesStep, LifetimesStep, RacedSteps DEF Held
<1> QED
  BY <1>1, <1>2, Invariance, PTL DEF Spec

-----------------------------------------------------------------------------
(* The queue within the delivery. *)

\* The operations of the queue on n but for an insert, a completion and the
\* decisions of the operator.
QueueOperation(n) ==
    \/ Q!MarkAwaitingAcknowledgement(n)
    \/ Q!ScheduleRetry(n)
    \/ Q!Quarantine(n)
    \/ Q!RecordFailure(n)
    \/ Q!Elapse(n)
    \/ Q!Age(n)

\* The operations of the queue on all rows.
QueueSweep ==
    \/ Q!RemoveExpired
    \/ Q!MoveExpiredAcknowledgementsToDead
    \/ Q!EnforceRetention

\* Every step of the delivery is one operation of the queue, or none: records
\* and batches are inserted when they are stored and created, and only the
\* acknowledgement handler completes a row.
LEMMA QueueSteps ==
    ASSUME IInv, Held, [Next]_vars
    PROVE  \/ UNCHANGED Q!vars
           \/ \E r \in Records : Stored(r)
           \/ \E b \in Batches : SyncCreate(b)
           \/ HandlerComplete /\ handler.msg \in Msgs
           \/ \E n \in Msgs : QueueOperation(n) \/ Operator(n)
           \/ QueueSweep
<1> USE DEF Msgs
<1>1. CASE UNCHANGED queueVars
  BY <1>1 DEF queueVars, Q!vars
<1>2. CASE \E r \in Records : Store(r) \/ StoreFinal(r)
  BY <1>2 DEF Store, StoreFinal
<1>3. CASE \E r \in Records : ProducerStep(r)
  BY <1>1, <1>3
  DEF ProducerStep, ProducerCheck, ProducerPrepare, ProducerPublish, ProducerPublished,
      ProducerCancelled, ProducerFind, ProducerFail, QueueOperation
<1>4. CASE PumpStep
  <2>1. CASE PumpReplay
    <3>1. pump.due \in Seq(Msgs) /\ pump.due # <<>>
      BY <2>1 DEF IInv, Shapes, PumpReplay
    <3>2. Head(pump.due) \in Msgs
      BY <3>1
    <3> QED
      BY <2>1, <3>2 DEF PumpReplay, QueueOperation
  <2>2. CASE PumpFail \/ SyncPrepare
    <3>1. pump.msg \in Msgs
      BY <2>2 DEF Held, PumpCarries, Carrying, PumpFail, SyncPrepare
    <3> QED
      BY <2>2, <3>1 DEF PumpFail, SyncPrepare, QueueOperation
  <2>3. CASE PumpStart \/ PumpDeadlines
    BY <2>3 DEF PumpStart, PumpDeadlines, QueueSweep
  <2> QED
    BY <1>1, <1>4, <2>1, <2>2, <2>3
    DEF PumpStep, PumpSelect, PumpReplayDone, PumpPublish, PumpPublished, PumpCancelled, PumpFind,
        SyncRead, SyncActive, SyncDead, SyncOutOfIds
<1>5. CASE HandlerStep
  <2>1. CASE HandlerComplete
    BY <2>1 DEF Held, HandlerCompletes, HandlerComplete, Known, Stored_
  <2> QED
    BY <1>1, <1>5, <2>1 DEF HandlerStep, AckCommitted, AckRetryable, AckPermanent, QueueOperation
<1>6. CASE \E m \in Msgs : ServerStep(m)
  BY <1>1, <1>6 DEF ServerStep, ServerCommit, ServerInterrupted, ServerBusy, ServerReject,
                    ServerLose, ServerFrame
<1>7. CASE \E m \in Msgs : Elapse(m) \/ Age(m) \/ Operator(m)
  BY <1>7 DEF Elapse, Age, QueueOperation
<1>8. CASE Connect \/ Drop \/ RestartConnection
  BY <1>1, <1>8 DEF Connect, Drop, RestartConnection
<1>9. CASE Stop \/ Stopped \/ Crash
  BY <1>1, <1>9 DEF Stop, Stopped, Crash, ProcessGone
<1>10. CASE Restart
  BY <1>10 DEF Restart, QueueSweep
<1>11. CASE Approve \/ UNCHANGED vars
  BY <1>1, <1>11 DEF Approve, vars
<1> QED
  BY <1>2, <1>3, <1>4, <1>5, <1>6, <1>7, <1>8, <1>9, <1>10, <1>11 DEF Next

\* The delivery uses the queue as OfflineQueue allows and in no other way:
\* producers, pump, handler, restart and operator change the queue's tables
\* only through its operations.
THEOREM DeliveryUsesQueue == Spec => Q!Spec
<1>1. Init => Q!Init
  BY DEF Init
<1>2. IInv /\ Held /\ [Next]_vars => [Q!Next]_(Q!vars)
  BY QueueSteps
  DEF QueueOperation, Operator, QueueSweep, Q!Next, Q!Operation, Stored, SyncCreate,
      HandlerComplete, Msgs
<1> QED
  BY <1>1, <1>2, Invariance, HeldInvariance, PTL DEF Spec, Q!Spec

\* The queue's assumptions on its constants follow from the delivery's.
LEMMA QueueConstants == QP!QueueAssumption
<1>1. IsFiniteSet(Msgs)
  BY DeliveryAssumption, FS_Union DEF Msgs
<1>2. Cardinality(Msgs) \in Nat
  BY <1>1, FS_CardinalityType
<1>3. QP!IsFiniteSet(Msgs)
  BY <1>1 DEF QP!IsFiniteSet, IsFiniteSet
<1> QED
  BY <1>2, <1>3, DeliveryAssumption
  DEF QP!QueueAssumption, TopicOf, Topics, Size, MaxPayloadBytes, AuditMaxRows, MaxId

\* OfflineQueueProofs extends OfflineQueue: its copy of the queue is the same.
LEMMA SameInit == Q!Init => QP!Init
BY DEF Q!Init, QP!Init, Q!Absent, QP!Absent, Q!Reasons, QP!Reasons, Q!Statuses, QP!Statuses,
       Q!LiveStatuses, QP!LiveStatuses

LEMMA SameNext == ASSUME Q!Next PROVE QP!Next
BY DEF Q!Next, QP!Next, Q!Operation, QP!Operation, Q!Enqueue, QP!Enqueue,
       Q!MarkAwaitingAcknowledgement, QP!MarkAwaitingAcknowledgement, Q!Complete, QP!Complete,
       Q!ScheduleRetry, QP!ScheduleRetry, Q!Quarantine, QP!Quarantine,
       Q!RecordFailure, QP!RecordFailure, Q!RetryDead, QP!RetryDead,
       Q!ResolveDead, QP!ResolveDead, Q!Elapse, QP!Elapse, Q!Age, QP!Age,
       Q!RemoveExpired, QP!RemoveExpired,
       Q!MoveExpiredAcknowledgementsToDead, QP!MoveExpiredAcknowledgementsToDead,
       Q!EnforceRetention, QP!EnforceRetention, Q!AuditUnchanged, QP!AuditUnchanged,
       Q!AuditRemoval, QP!AuditRemoval, Q!AuditDecision, QP!AuditDecision,
       Q!EnforceAuditRetention, QP!EnforceAuditRetention, Q!RemovalEvents, QP!RemovalEvents,
       Q!Listing, QP!Listing, Q!Bumped, QP!Bumped, Q!BlockersAfter, QP!BlockersAfter,
       Q!Fresh, QP!Fresh, Q!Without, QP!Without, Q!Updated, QP!Updated, Q!Evicted, QP!Evicted,
       Q!Bytes, QP!Bytes, Q!MapThenSumSet, QP!MapThenSumSet,
       Q!MapThenFoldSet, QP!MapThenFoldSet, Q!Expired, QP!Expired, Q!Before, QP!Before,
       Q!Live, QP!Live, Q!Dead, QP!Dead, Q!Queued, QP!Queued, Q!Absent, QP!Absent,
       Q!Statuses, QP!Statuses, Q!LiveStatuses, QP!LiveStatuses, Q!Reasons, QP!Reasons,
       Q!Cardinality, QP!Cardinality

LEMMA SameSpec == Q!Spec => QP!Spec
<1>1. [Q!Next]_(Q!vars) => [QP!Next]_(QP!vars)
  BY SameNext DEF Q!vars, QP!vars
<1> QED
  BY <1>1, SameInit, PTL DEF Q!Spec, QP!Spec

LEMMA SameType == QP!TypeOK => Q!TypeOK
BY DEF Q!TypeOK, QP!TypeOK, Q!Row, QP!Row, Q!Absent, QP!Absent, Q!Statuses, QP!Statuses,
       Q!LiveStatuses, QP!LiveStatuses, Q!BlockerStates, QP!BlockerStates,
       Q!AuditEvent, QP!AuditEvent, Q!Reasons, QP!Reasons

\* Every variable of the delivery keeps its type, the queue's tables included.
THEOREM DeliveryTypeCorrect == Spec => []TypeOK
<1>1. QP!Spec => []QP!TypeOK
  BY QP!TypeCorrect, QueueConstants, PTL
<1>2. IInv /\ Held /\ QP!TypeOK => TypeOK
  <2> SUFFICES ASSUME IInv, Held, QP!TypeOK PROVE TypeOK
    OBVIOUS
  <2>1. orphans \subseteq Msgs /\ wire \in Msgs \cup {None}
    BY DEF IInv, Durable, NetworkDurable, Known, Stored_, Msgs
  <2> QED
    BY <2>1, SameType DEF TypeOK, IInv, Shapes, Held, HandlerCompletes, HandlerShape, Lifetimes
<1> QED
  BY <1>1, <1>2, DeliveryUsesQueue, SameSpec, Invariance, HeldInvariance, PTL

\* What the queue promises on its own it keeps inside the client, whatever the
\* producers, the pump, the acknowledgements and the restarts do with it: row
\* ids are unique, a row offered for replay has attempts left, every audited
\* removal of a dead row still has its blocker, every audited event is kept or
\* counted in the summary, only the operator resolves a blocker, and a topic
\* whose message died waits for the operator or that message's acknowledgement.
THEOREM QueuePromisesKept ==
    Spec => /\ [](QP!RowIdsAreUnique /\ QP!ReplayHasAttemptsLeft)
            /\ [](QP!BlockingAuditHasBlocker /\ QP!AuditConserved)
            /\ QP!BlockerResolvedOnlyByOperator
            /\ QP!DeadTopicReleasedOnlyByDecision
<1>1. QP!Spec => [](QP!RowIdsAreUnique /\ QP!ReplayHasAttemptsLeft)
  BY QP!RowIdsUnique, QP!ReplayBounded, QueueConstants, PTL
<1>2. QP!Spec => [](QP!BlockingAuditHasBlocker /\ QP!AuditConserved)
  BY QP!AuditAgreesWithBlockers, QP!AuditIsConserved, QueueConstants, PTL
<1>3. QP!Spec => QP!BlockerResolvedOnlyByOperator
  BY QP!BlockersAreTheOperators, QueueConstants, PTL
<1>4. QP!Spec => QP!DeadTopicReleasedOnlyByDecision
  BY QP!TopicsAreReleasedByDecision, QueueConstants, PTL
<1> QED
  BY <1>1, <1>2, <1>3, <1>4, DeliveryUsesQueue, SameSpec, PTL

-----------------------------------------------------------------------------
(* What a message leaves the queue for. *)

\* The budget of the delivery's queue has room for every message.
LEMMA NothingEvicted ==
    ASSUME NEW kept \in SUBSET Msgs, NEW incoming \in {0, 1}
    PROVE  Q!Evicted(kept, incoming) = {}
<1>1. IsFiniteSet(Msgs) /\ IsFiniteSet(kept)
  BY DeliveryAssumption, FS_Union, FS_Subset DEF Msgs
<1>2. \A S : Q!Bytes(S) = Total(Size, S)
  BY DEF Q!Bytes, Total, Q!MapThenSumSet, MapThenSumSet, Q!MapThenFoldSet, MapThenFoldSet
<1>3. ASSUME NEW S \in SUBSET kept
      PROVE  Q!Bytes(S) = Cardinality(S) /\ Cardinality(S) \in Nat
  <2>1. IsFiniteSet(S) /\ \A m \in S : Size[m] = 1
    BY <1>1, FS_Subset DEF Size
  <2> QED
    BY <1>2, <2>1, TotalOfOnes, FS_CardinalityType
<1>4. PICK all \in Nat, some \in Nat :
        all = Cardinality(Msgs) /\ some = Cardinality(kept) /\ some <= all
  BY <1>1, FS_Subset, FS_CardinalityType
<1>5. Q!Bytes(kept) + incoming - MaxPayloadBytes <= 0
  <2>1. Q!Bytes(kept) = some
    BY <1>3, <1>4
  <2>2. some + incoming - (all + 1) <= 0
    BY <1>4
  <2> QED
    BY <1>4, <2>1, <2>2 DEF MaxPayloadBytes
<1>6. ASSUME NEW m \in kept
      PROVE  ~(Q!Bytes({n \in kept : Q!Before(n, m)}) < Q!Bytes(kept) + incoming - MaxPayloadBytes)
  <2> DEFINE older == {n \in kept : Q!Before(n, m)}
  <2>1. Q!Bytes(older) \in Nat
    <3>1. older \in SUBSET kept
      OBVIOUS
    <3> HIDE DEF older
    <3> QED
      BY <1>3, <3>1
  <2>2. Q!Bytes(kept) \in Nat /\ MaxPayloadBytes \in Nat
    BY <1>3, <1>4 DEF MaxPayloadBytes
  <2> HIDE DEF older
  <2>3. ~(Q!Bytes(older) < Q!Bytes(kept) + incoming - MaxPayloadBytes)
    BY <1>5, <2>1, <2>2
  <2> QED
    BY <2>3 DEF older
<1> QED
  BY <1>6 DEF Q!Evicted

\* An insert takes no row away but the expired ones.
LEMMA EnqueueRemovesOnlyOld ==
    ASSUME row = [n \in Msgs |-> row[n]], NEW a \in Msgs, Q!Enqueue(a),
           NEW m \in Q!Queued, row'[m].status = "ABSENT"
    PROVE  row[m].old
<1> DEFINE kept == Q!Queued \ Q!Expired
           evicted == IF a \in kept THEN {} ELSE Q!Evicted(kept, Size[a])
           gone == Q!Expired \cup evicted
<1>1. evicted = {}
  <2>1. kept \in SUBSET Msgs /\ Size[a] \in {0, 1}
    BY DEF Q!Queued, Size
  <2> HIDE DEF kept
  <2> QED
    BY <2>1, NothingEvicted
<1>2. row' = IF a \in kept THEN Q!Without(gone) ELSE [Q!Without(gone) EXCEPT ![a] = Q!Fresh]
  BY DEF Q!Enqueue
<1>3. m \in Msgs
  BY DEF Q!Queued
<1>4. m \in gone
  <2> HIDE DEF gone, kept
  <2> QED
    BY <1>2, <1>3 DEF Q!Without, Q!Fresh, Q!Queued
<1>5. m \in Q!Expired
  <2> HIDE DEF evicted
  <2> QED
    BY <1>1, <1>4
<1> QED
  BY <1>5 DEF Q!Expired

LEMMA SweepRemovesOnlyOld ==
    ASSUME row \in [Msgs -> Q!Row \cup {Q!Absent}], QueueSweep,
           NEW m \in Q!Queued, row'[m].status = "ABSENT"
    PROVE  row[m].old
<1>1. m \in Msgs /\ row[m].status # "ABSENT"
  BY DEF Q!Queued
<1>2. ASSUME row' = Q!Without(Q!Expired) PROVE row[m].old
  BY <1>1, <1>2 DEF Q!Without, Q!Expired
<1>3. CASE Q!RemoveExpired
  BY <1>2, <1>3 DEF Q!RemoveExpired
<1>4. CASE Q!EnforceRetention
  <2>1. Q!Evicted(Q!Queued \ Q!Expired, 0) = {}
    <3>1. Q!Queued \ Q!Expired \in SUBSET Msgs
      BY DEF Q!Queued
    <3> QED
      BY <3>1, NothingEvicted
  <2>2. row' = Q!Without(Q!Expired \cup Q!Evicted(Q!Queued \ Q!Expired, 0))
    BY <1>4 DEF Q!EnforceRetention
  <2>3. Q!Expired \cup {} = Q!Expired
    OBVIOUS
  <2> QED
    BY <1>2, <2>1, <2>2, <2>3
<1>5. CASE Q!MoveExpiredAcknowledgementsToDead
  <2>1. row[m] \in Q!Row
    BY <1>1 DEF Q!Absent
  <2>2. row'[m].status \in {row[m].status, "DEAD"}
    BY <1>1, <1>5, <2>1 DEF Q!MoveExpiredAcknowledgementsToDead, Q!Row
  <2> QED
    BY <1>1, <2>2
<1> QED
  BY <1>3, <1>4, <1>5 DEF QueueSweep

LEMMA OperationRemovesOnlyResolved ==
    ASSUME row = [n \in Msgs |-> row[n]], NEW n \in Msgs, QueueOperation(n) \/ Operator(n),
           NEW m \in Q!Queued, row'[m].status = "ABSENT"
    PROVE  Q!ResolveDead(m)
<1>1. m \in Msgs /\ row[m].status # "ABSENT"
  BY DEF Q!Queued
<1>2. ASSUME NEW status \in Q!Statuses, NEW retry, NEW due, NEW deadline,
             row' = Q!Updated(n, status, retry, due, deadline)
      PROVE  FALSE
  BY <1>1, <1>2 DEF Q!Updated, Q!Statuses, Q!LiveStatuses
<1>3. {"AWAITING_ACK", "RETRY", "DEAD"} \subseteq Q!Statuses
  BY DEF Q!Statuses, Q!LiveStatuses
<1>4. CASE Q!MarkAwaitingAcknowledgement(n)
  BY <1>1, <1>2, <1>3, <1>4 DEF Q!MarkAwaitingAcknowledgement
<1>5. CASE Q!ScheduleRetry(n)
  BY <1>1, <1>2, <1>3, <1>5 DEF Q!ScheduleRetry
<1>6. CASE Q!Quarantine(n)
  BY <1>1, <1>2, <1>3, <1>6 DEF Q!Quarantine
<1>7. CASE Q!RecordFailure(n)
  BY <1>1, <1>2, <1>3, <1>7 DEF Q!RecordFailure
<1>8. CASE Q!RetryDead(n)
  BY <1>1, <1>2, <1>3, <1>8 DEF Q!RetryDead
<1>9. CASE Q!ResolveDead(n)
  <2>1. n = m
    BY <1>1, <1>9 DEF Q!ResolveDead, Q!Without
  <2> QED
    BY <1>9, <2>1
<1>10. CASE Q!Elapse(n)
  <2>1. row' = [row EXCEPT ![n] = [row[n] EXCEPT !.due = TRUE]]
    BY <1>10 DEF Q!Elapse
  <2>2. row'[m].status = row[m].status
    BY <1>1, <2>1
  <2> QED
    BY <1>1, <2>2
<1>11. CASE Q!Age(n)
  <2>1. row' = [row EXCEPT ![n] = [row[n] EXCEPT !.old = TRUE]]
    BY <1>11 DEF Q!Age
  <2>2. row'[m].status = row[m].status
    BY <1>1, <2>1
  <2> QED
    BY <1>1, <2>2
<1> QED
  BY <1>4, <1>5, <1>6, <1>7, <1>8, <1>9, <1>10, <1>11 DEF QueueOperation, Operator

\* A message leaves the queue because everything it carries is committed and
\* marked synced, because it outlived MaxAge, or because the operator gave it
\* up: no failure, restart, late or repeated acknowledgement loses one.
THEOREM MessagesLeaveDelivered == Spec => LeavesOnlyDelivered
<1>1. ASSUME IInv, Held, TypeOK, [Next]_vars, NEW m \in Q!Queued, row'[m].status = "ABSENT"
      PROVE  \/ \A r \in Items(m) : r \in receipts /\ store[r] = "synced"
             \/ row[m].old
             \/ Q!ResolveDead(m)
  <2>1. /\ row \in [Msgs -> Q!Row \cup {Q!Absent}]
        /\ row = [n \in Msgs |-> row[n]]
        /\ m \in Msgs /\ row[m].status # "ABSENT"
    BY <1>1 DEF TypeOK, Q!TypeOK, Q!Queued
  <2>2. CASE UNCHANGED Q!vars
    BY <1>1, <2>1, <2>2 DEF Q!vars
  <2>3. ASSUME NEW r \in Records, Stored(r) PROVE row[m].old
    BY <1>1, <2>1, <2>3, EnqueueRemovesOnlyOld DEF Stored, Msgs
  <2>4. ASSUME NEW b \in Batches, SyncCreate(b) PROVE row[m].old
    BY <1>1, <2>1, <2>4, EnqueueRemovesOnlyOld DEF SyncCreate, Msgs
  <2>5. CASE HandlerComplete
    <3>1. m = handler.msg
      BY <1>1, <2>1, <2>5 DEF HandlerComplete, Q!Complete, Q!Without
    <3> QED
      BY <1>1, <2>5, <3>1 DEF HandlerComplete, Held, HandlerCompletes, Delivered
  <2>6. ASSUME NEW n \in Msgs, QueueOperation(n) \/ Operator(n) PROVE Q!ResolveDead(m)
    BY <1>1, <2>1, <2>6, OperationRemovesOnlyResolved
  <2>7. CASE QueueSweep
    BY <1>1, <2>1, <2>7, SweepRemovesOnlyOld
  <2> QED
    BY <1>1, <2>2, <2>3, <2>4, <2>5, <2>6, <2>7, QueueSteps
<1>2. IInv /\ Held /\ TypeOK /\ [Next]_vars =>
        [\A m \in Q!Queued :
            row'[m].status = "ABSENT" =>
                \/ \A r \in Items(m) : r \in receipts /\ store[r] = "synced"
                \/ row[m].old
                \/ Q!ResolveDead(m)]_vars
  BY <1>1
<1> QED
  BY <1>2, Invariance, HeldInvariance, DeliveryTypeCorrect, PTL DEF Spec, LeavesOnlyDelivered

-----------------------------------------------------------------------------
(* One sync batch at a time.  CanCreateSyncBatch looks for a live batch and *)
(* for a dead one in two transactions, and the new batch is inserted in a   *)
(* third.  What it saw stays true in between, because the queue gains no    *)
(* batch elsewhere and a dead batch stays dead or blocked, unless the       *)
(* operator has it retried just then; raced names those batches.            *)

QueuedBatches == {b \in Batches : row[b].status # "ABSENT"}

Dying(b) == Q!Dead(b) \/ blocker[b] = "unresolved"

\* A late Busy acknowledgement reschedules a dead row, but only one that has
\* attempts left, and such a row has died of a rejection.
DeadForGood(b) == Q!Dead(b) => row[b].retry >= MaxAttempts \/ blocker[b] = "unresolved"

BatchOrder ==
    /\ \A b, c \in QueuedBatches : Q!Before(b, c) => b \in raced
    /\ \A b \in Batches : DeadForGood(b)
    /\ pump.pc = "dead" => \A b \in QueuedBatches : Dying(b) \/ b \in raced
    /\ pump.pc = "create" => QueuedBatches \subseteq raced

\* What an operation of the queue may do to a batch.
Settles(b) ==
    /\ DeadForGood(b)'
    /\ b \in QueuedBatches' =>
            /\ b \in QueuedBatches /\ row'[b].id = row[b].id
            /\ Dying(b) => Dying(b)' \/ (pump.pc = "dead" => b \in raced')

LEMMA LeftAlone ==
    ASSUME NEW b \in Batches, DeadForGood(b), row'[b] = row[b],
           blocker'[b] \in {blocker[b], "unresolved"}
    PROVE  Settles(b)
BY DEF DeadForGood, Settles, Dying, QueuedBatches, Q!Dead

LEMMA TakenAway ==
    ASSUME NEW b \in Batches, row'[b] = Q!Absent
    PROVE  Settles(b)
BY DEF DeadForGood, Settles, QueuedBatches, Q!Dead, Q!Absent

LEMMA RemovalSettles ==
    ASSUME TypeOK, NEW b \in Batches, DeadForGood(b), NEW gone,
           row'[b] = IF b \in gone THEN Q!Absent ELSE row[b],
           blocker' = Q!BlockersAfter(gone)
    PROVE  Settles(b)
<1>1. blocker'[b] \in {blocker[b], "unresolved"}
  BY DEF Q!BlockersAfter, Msgs
<1> QED
  BY <1>1, LeftAlone, TakenAway

\* Inserting another message removes a batch or leaves it alone.
LEMMA EnqueueSettles ==
    ASSUME TypeOK, NEW b \in Batches, DeadForGood(b), NEW a \in Msgs, a # b, Q!Enqueue(a)
    PROVE  Settles(b)
<1> DEFINE kept == Q!Queued \ Q!Expired
           evicted == IF a \in kept THEN {} ELSE Q!Evicted(kept, Size[a])
           gone == Q!Expired \cup evicted
<1>1. /\ row' = IF a \in kept THEN Q!Without(gone) ELSE [Q!Without(gone) EXCEPT ![a] = Q!Fresh]
      /\ blocker' = Q!BlockersAfter(gone)
  BY DEF Q!Enqueue, Q!AuditRemoval
<1> HIDE DEF gone, kept
<1>2. row'[b] = IF b \in gone THEN Q!Absent ELSE row[b]
  BY <1>1 DEF Q!Without, Msgs
<1> QED
  BY <1>1, <1>2, RemovalSettles

LEMMA SweepSettles ==
    ASSUME TypeOK, NEW b \in Batches, DeadForGood(b), QueueSweep
    PROVE  Settles(b)
<1>1. b \in Msgs /\ row[b] \in Q!Row \cup {Q!Absent}
  BY DEF TypeOK, Q!TypeOK, Msgs
<1>2. ASSUME NEW gone, row' = Q!Without(gone), blocker' = Q!BlockersAfter(gone)
      PROVE  Settles(b)
  BY <1>1, <1>2, RemovalSettles DEF Q!Without
<1>3. CASE Q!RemoveExpired
  BY <1>2, <1>3 DEF Q!RemoveExpired, Q!AuditRemoval
<1>4. CASE Q!EnforceRetention
  BY <1>2, <1>4 DEF Q!EnforceRetention, Q!AuditRemoval
<1>5. CASE Q!MoveExpiredAcknowledgementsToDead
  <2>1. blocker'[b] \in {blocker[b], "unresolved"}
    BY <1>1, <1>5 DEF Q!MoveExpiredAcknowledgementsToDead
  <2>2. \/ row'[b] = row[b]
        \/ /\ row[b].status = "AWAITING_ACK" /\ row[b].retry >= MaxAttempts
           /\ row'[b] = [row[b] EXCEPT !.status = "DEAD", !.due = FALSE, !.deadline = TRUE]
    BY <1>1, <1>5 DEF Q!MoveExpiredAcknowledgementsToDead
  <2>3. CASE row'[b] = row[b]
    BY <2>1, <2>3, LeftAlone
  <2>4. CASE row'[b] # row[b]
    <3>1. row[b] \in Q!Row
      BY <1>1, <2>2, <2>4 DEF Q!Absent
    <3>2. row'[b].status = "DEAD" /\ row'[b].retry = row[b].retry /\ row'[b].id = row[b].id
      BY <2>2, <2>4, <3>1 DEF Q!Row
    <3> QED
      BY <2>2, <2>4, <3>2 DEF Settles, DeadForGood, Dying, QueuedBatches, Q!Dead
  <2> QED
    BY <2>3, <2>4
<1> QED
  BY <1>3, <1>4, <1>5 DEF QueueSweep

\* Of the operations on one row, only the operator's retry brings a dead batch
\* back to life and leaves no blocker.
LEMMA OperationSettles ==
    ASSUME TypeOK, NEW b \in Batches, DeadForGood(b), NEW n \in Msgs,
           QueueOperation(n) \/ Operator(n)
    PROVE  Settles(b)
<1>1. b \in Msgs /\ row \in [Msgs -> Q!Row \cup {Q!Absent}] /\ blocker \in [Msgs -> Q!BlockerStates]
  BY DEF TypeOK, Q!TypeOK, Msgs
<1>2. ASSUME row'[b] = row[b], blocker' = blocker PROVE Settles(b)
  BY <1>2, LeftAlone
<1>3. ASSUME NEW status \in Q!Statuses, NEW retry, NEW due, NEW deadline,
             row' = Q!Updated(n, status, retry, due, deadline)
      PROVE  /\ n # b => row'[b] = row[b]
             /\ n = b => row'[b].status = status /\ row'[b].retry = retry
             /\ row'[b].id = row[b].id
  BY <1>1, <1>3 DEF Q!Updated
<1>4. {"AWAITING_ACK", "RETRY", "DEAD"} \subseteq Q!Statuses
  BY DEF Q!Statuses, Q!LiveStatuses
<1>5. CASE Q!MarkAwaitingAcknowledgement(n)
  <2>1. blocker' = blocker
    BY <1>5 DEF Q!MarkAwaitingAcknowledgement
  <2>2. CASE n = b /\ Q!Live(n)
    <3>1. row'[b].status = "AWAITING_ACK" /\ row'[b].id = row[b].id
      BY <1>3, <1>4, <1>5, <2>2 DEF Q!MarkAwaitingAcknowledgement
    <3> QED
      BY <2>1, <2>2, <3>1
      DEF Settles, DeadForGood, Dying, QueuedBatches, Q!Dead, Q!Live, Q!LiveStatuses
  <2>3. CASE ~(n = b /\ Q!Live(n))
    <3>1. row'[b] = row[b]
      BY <1>3, <1>4, <1>5, <2>3 DEF Q!MarkAwaitingAcknowledgement
    <3> QED
      BY <1>2, <2>1, <3>1
  <2> QED
    BY <2>2, <2>3
<1>6. CASE Q!ScheduleRetry(n)
  <2>1. blocker' = blocker
    BY <1>6 DEF Q!ScheduleRetry
  <2>2. CASE n = b /\ n \in Q!Queued
    <3>1. \/ row[b].retry >= MaxAttempts /\ row'[b].status = "DEAD" /\ row'[b].retry = row[b].retry
          \/ ~(row[b].retry >= MaxAttempts) /\ row'[b].status = "RETRY"
      BY <1>3, <1>4, <1>6, <2>2 DEF Q!ScheduleRetry
    <3>2. row'[b].id = row[b].id
      BY <1>3, <1>4, <1>6, <2>2 DEF Q!ScheduleRetry
    <3> QED
      BY <2>1, <2>2, <3>1, <3>2 DEF Settles, DeadForGood, Dying, QueuedBatches, Q!Dead, Q!Queued
  <2>3. CASE ~(n = b /\ n \in Q!Queued)
    <3>1. row'[b] = row[b]
      BY <1>3, <1>4, <1>6, <2>3 DEF Q!ScheduleRetry
    <3> QED
      BY <1>2, <2>1, <3>1
  <2> QED
    BY <2>2, <2>3
<1>7. CASE Q!Quarantine(n)
  <2>1. CASE n = b /\ n \in Q!Queued
    <3>1. row'[b].status = "DEAD" /\ blocker'[b] = "unresolved" /\ row'[b].id = row[b].id
      BY <1>1, <1>3, <1>4, <1>7, <2>1 DEF Q!Quarantine
    <3> QED
      BY <2>1, <3>1 DEF Settles, DeadForGood, Dying, QueuedBatches, Q!Dead, Q!Queued
  <2>2. CASE ~(n = b /\ n \in Q!Queued)
    <3>1. row'[b] = row[b] /\ blocker'[b] = blocker[b]
      BY <1>1, <1>3, <1>4, <1>7, <2>2 DEF Q!Quarantine
    <3> QED
      BY <3>1, LeftAlone
  <2> QED
    BY <2>1, <2>2
<1>8. CASE Q!RecordFailure(n)
  <2>1. blocker' = blocker
    BY <1>8 DEF Q!RecordFailure
  <2>2. CASE n = b /\ Q!Live(n)
    <3>1. \/ row'[b].status = "DEAD" /\ row'[b].retry >= MaxAttempts
          \/ row'[b].status = "RETRY"
      BY <1>3, <1>4, <1>8, <2>2 DEF Q!RecordFailure
    <3>2. row'[b].id = row[b].id
      BY <1>3, <1>4, <1>8, <2>2 DEF Q!RecordFailure
    <3> QED
      BY <2>1, <2>2, <3>1, <3>2
      DEF Settles, DeadForGood, Dying, QueuedBatches, Q!Dead, Q!Live, Q!LiveStatuses
  <2>3. CASE ~(n = b /\ Q!Live(n))
    <3>1. row'[b] = row[b]
      BY <1>3, <1>4, <1>8, <2>3 DEF Q!RecordFailure
    <3> QED
      BY <1>2, <2>1, <3>1
  <2> QED
    BY <2>2, <2>3
<1>9. CASE Q!RetryDead(n) /\ Raced(n)
  <2>1. CASE n = b
    <3>1. row'[b].status = "RETRY" /\ row'[b].id = row[b].id
      BY <1>3, <1>4, <1>9, <2>1 DEF Q!RetryDead
    <3>2. pump.pc = "dead" => b \in raced'
      BY <1>9, <2>1 DEF Raced
    <3> QED
      BY <1>9, <2>1, <3>1, <3>2 DEF Settles, DeadForGood, QueuedBatches, Q!RetryDead, Q!Dead
  <2>2. CASE n # b
    <3>1. row'[b] = row[b]
      BY <1>3, <1>4, <1>9, <2>2 DEF Q!RetryDead
    <3>2. blocker'[b] = blocker[b]
      BY <1>1, <1>9, <2>2 DEF Q!RetryDead, Q!AuditDecision
    <3> QED
      BY <3>1, <3>2, LeftAlone
  <2> QED
    BY <2>1, <2>2
<1>10. CASE Q!ResolveDead(n)
  <2>1. CASE n = b
    BY <1>1, <1>10, <2>1, TakenAway DEF Q!ResolveDead, Q!Without
  <2>2. CASE n # b
    <3>1. row'[b] = row[b]
      BY <1>1, <1>10, <2>2 DEF Q!ResolveDead, Q!Without
    <3>2. blocker'[b] = blocker[b]
      BY <1>1, <1>10, <2>2 DEF Q!ResolveDead, Q!AuditDecision
    <3> QED
      BY <3>1, <3>2, LeftAlone
  <2> QED
    BY <2>1, <2>2
<1>11. CASE Q!Elapse(n) \/ Q!Age(n)
  <2>1. blocker' = blocker
    BY <1>11 DEF Q!Elapse, Q!Age
  <2>2. n \in Q!Queued
    BY <1>1, <1>11 DEF Q!Elapse, Q!Age, Q!Live, Q!LiveStatuses, Q!Queued
  <2>3. row[n] \in Q!Row
    BY <1>1, <2>2 DEF Q!Queued, Q!Absent
  <2>4. \/ row' = [row EXCEPT ![n] = [row[n] EXCEPT !.due = TRUE]]
        \/ row' = [row EXCEPT ![n] = [row[n] EXCEPT !.old = TRUE]]
    BY <1>11 DEF Q!Elapse, Q!Age
  <2>5. CASE n # b
    BY <1>1, <1>2, <2>1, <2>4, <2>5
  <2>6. CASE n = b
    <3>1. /\ row'[b].status = row[b].status /\ row'[b].retry = row[b].retry
          /\ row'[b].id = row[b].id
      BY <1>1, <2>3, <2>4, <2>6 DEF Q!Row
    <3> QED
      BY <2>1, <3>1 DEF Settles, DeadForGood, Dying, QueuedBatches, Q!Dead
  <2> QED
    BY <2>5, <2>6
<1> QED
  BY <1>5, <1>6, <1>7, <1>8, <1>9, <1>10, <1>11 DEF QueueOperation, Operator

\* The pump comes to its last check and to the insert only through the checks.
LEMMA PumpChecks ==
    ASSUME IInv, [Next]_vars
    PROVE  \/ pump'.pc \notin {"dead", "create"}
           \/ pump'.pc = pump.pc /\ ~\E b \in Batches : SyncCreate(b)
           \/ SyncActive
           \/ SyncDead
<1>0. pump \in PumpShape
  BY DEF IInv, Shapes, PumpShape
<1>1. IdlePump.pc = "idle" /\ PumpDone.pc \in {"idle", "read"}
  BY DEF IdlePump, PumpDone
<1>2. ASSUME NEW to, NEW p, Disconnected(to, p, pump)
      PROVE  pump'.pc = "find" \/ pump' = pump
  BY <1>0, <1>2 DEF Disconnected, PumpShape
<1>3. ASSUME NEW b \in Batches, SyncCreate(b) PROVE pump'.pc = "prepare"
  BY <1>0, <1>3 DEF SyncCreate, PumpShape
<1>4. CASE ProcessGone
  <2>1. pump' = IdlePump
    BY <1>4 DEF ProcessGone, Disconnected, IdlePump
  <2> QED
    BY <1>1, <2>1
<1>5. CASE PumpStep
  <2>1. ASSUME NEW to, pump' = [pump EXCEPT !.pc = to] PROVE pump'.pc = to
    BY <1>0, <2>1 DEF PumpShape
  <2>2. CASE PumpSelect \/ PumpReplay \/ PumpPublished \/ SyncRead
    BY <1>0, <1>1, <2>2 DEF PumpSelect, PumpReplay, PumpPublished, SyncRead, PumpShape
  <2>3. CASE PumpStart \/ PumpDeadlines \/ PumpPublish \/ PumpFind \/ SyncPrepare
    BY <1>1, <2>1, <2>3 DEF PumpStart, PumpDeadlines, PumpPublish, PumpFind, SyncPrepare, PumpAt
  <2>4. CASE PumpReplayDone \/ PumpCancelled \/ PumpFail \/ SyncOutOfIds
    BY <1>1, <2>4 DEF PumpReplayDone, PumpCancelled, PumpFail, SyncOutOfIds
  <2> QED
    BY <1>3, <1>5, <2>2, <2>3, <2>4 DEF PumpStep
<1>6. CASE pump' = pump
  <2>1. ~\E b \in Batches : SyncCreate(b) /\ pump.pc \in {"dead", "create"}
    BY <1>3, <1>6 DEF SyncCreate
  <2> QED
    BY <1>6, <2>1
<1>7. CASE \E to, p : Disconnected(to, p, pump)
  BY <1>2, <1>6, <1>7
<1>8. CASE \E r \in Records : Store(r) \/ StoreFinal(r) \/ ProducerStep(r)
  BY <1>6, <1>7, <1>8
  DEF Store, StoreFinal, Stored, ProducerStep, ProducerCheck, ProducerPrepare, ProducerPublish,
      ProducerPublished, ProducerCancelled, ProducerFind, ProducerFail
<1>9. CASE HandlerStep
  BY <1>6, <1>9 DEF HandlerStep, AckCommitted, AckRetryable, AckPermanent, Received, HandlerComplete
<1>10. CASE \E m \in Msgs : ServerStep(m)
  BY <1>6, <1>10 DEF ServerStep, ServerCommit, ServerInterrupted, ServerBusy, ServerReject,
                     ServerLose, ServerFrame, clientVars
<1>11. CASE \E m \in Msgs : Elapse(m) \/ Age(m) \/ Operator(m)
  BY <1>6, <1>11 DEF Elapse, Age, Operator, QueueOnly, clientVars
<1>12. CASE Connect \/ Drop \/ RestartConnection
  BY <1>6, <1>7, <1>12 DEF Connect, Drop, RestartConnection, clientVars
<1>13. CASE Stop \/ Stopped \/ Crash \/ Restart
  BY <1>4, <1>6, <1>13 DEF Stop, Stopped, Crash, Restart
<1>14. CASE Approve \/ UNCHANGED vars
  BY <1>6, <1>14 DEF Approve, vars, clientVars
<1> QED
  BY <1>5, <1>8, <1>9, <1>10, <1>11, <1>12, <1>13, <1>14 DEF Next

\* Batches travel on the sync topic, and nothing else does.
LEMMA SyncTopic ==
    ASSUME NEW m \in Msgs
    PROVE  TopicOf[m] = "sync" <=> m \in Batches
BY DeliveryAssumption DEF TopicOf, Msgs

\* Nothing but the insert of a new batch adds one to the queue.
LEMMA BatchesSettle ==
    ASSUME IInv, Held, TypeOK, [Next]_vars,
           ~\E b \in Batches : SyncCreate(b), NEW b \in Batches, DeadForGood(b)
    PROVE  Settles(b)
<1>1. b \in Msgs /\ row = [n \in Msgs |-> row[n]]
  BY DEF TypeOK, Q!TypeOK, Msgs
<1>2. CASE UNCHANGED Q!vars
  BY <1>2, LeftAlone DEF Q!vars
<1>3. ASSUME NEW r \in Records, Stored(r) PROVE Settles(b)
  <2>1. r \in Msgs /\ r # b
    BY DeliveryAssumption DEF Msgs
  <2> QED
    BY <1>3, <2>1, EnqueueSettles DEF Stored
<1>4. CASE HandlerComplete
  <2>1. CASE handler.msg = b
    BY <1>1, <1>4, <2>1, TakenAway DEF HandlerComplete, Q!Complete, Q!Without
  <2>2. CASE handler.msg # b
    BY <1>1, <1>4, <2>2, LeftAlone DEF HandlerComplete, Q!Complete, Q!Without
  <2> QED
    BY <2>1, <2>2
<1>5. ASSUME NEW n \in Msgs, QueueOperation(n) \/ Operator(n) PROVE Settles(b)
  BY <1>5, OperationSettles
<1>6. CASE QueueSweep
  BY <1>6, SweepSettles
<1> QED
  BY <1>2, <1>3, <1>4, <1>5, <1>6, QueueSteps

\* The row of a new batch comes after all others.
LEMMA SameIds == QP!RowIdsAreUnique => Q!RowIdsAreUnique
BY DEF Q!RowIdsAreUnique, QP!RowIdsAreUnique, Q!Queued, QP!Queued

LEMMA NewBatch ==
    ASSUME IInv, TypeOK, Q!RowIdsAreUnique, BatchOrder, raced \subseteq raced',
           NEW a \in Batches, SyncCreate(a)
    PROVE  BatchOrder'
<1>1. QueuedBatches \subseteq raced /\ pump'.pc = "prepare" /\ Q!Enqueue(a) /\ a \in Msgs
  BY DEF SyncCreate, BatchOrder, IInv, Shapes, Msgs
<1>2. ASSUME NEW b \in Batches, b # a PROVE Settles(b)
  BY <1>1, <1>2, EnqueueSettles DEF BatchOrder
<1>3. row \in [Msgs -> Q!Row \cup {Q!Absent}] /\ nextId \in Nat
  BY DEF TypeOK, Q!TypeOK
<1>4. CASE a \in Q!Queued \ Q!Expired
  <2>1. row'[a] = row[a] /\ blocker'[a] = blocker[a] /\ a \in QueuedBatches
    BY <1>1, <1>3, <1>4
    DEF Q!Enqueue, Q!Without, Q!AuditRemoval, Q!BlockersAfter, Q!Queued, QueuedBatches
  <2>2. \A b \in Batches : Settles(b)
    BY <1>2, <2>1, LeftAlone DEF BatchOrder
  <2>3. QueuedBatches' \subseteq QueuedBatches
    BY <2>2 DEF Settles, QueuedBatches
  <2>4. QueuedBatches' \subseteq raced'
    BY <1>1, <2>3
  <2> QED
    BY <1>1, <2>2, <2>4 DEF BatchOrder, Settles
<1>5. CASE a \notin Q!Queued \ Q!Expired
  <2>1. row'[a] = Q!Fresh
    BY <1>1, <1>3, <1>5 DEF Q!Enqueue, Q!Without
  <2>2. \A b \in Batches : DeadForGood(b)'
    BY <1>2, <2>1 DEF Settles, DeadForGood, Q!Dead, Q!Fresh
  <2>3. ASSUME NEW b \in Batches, b \in QueuedBatches', b # a
        PROVE  b \in raced' /\ row'[b].id < nextId
    <3>1. b \in QueuedBatches /\ row'[b].id = row[b].id
      BY <1>2, <2>3 DEF Settles
    <3>2. b \in Q!Queued
      BY <3>1 DEF QueuedBatches, Q!Queued, Msgs
    <3> QED
      BY <1>1, <3>1, <3>2 DEF Q!RowIdsAreUnique
  <2>4. ASSUME NEW b \in QueuedBatches', NEW c \in QueuedBatches', Q!Before(b, c)'
        PROVE  b \in raced'
    <3>1. row'[b].id < row'[c].id /\ b \in Batches /\ c \in Batches
      BY <2>4 DEF Q!Before, QueuedBatches
    <3>2. CASE b # a
      BY <2>3, <3>1, <3>2
    <3>3. CASE b = a
      <4>1. row'[b].id = nextId
        BY <2>1, <3>3 DEF Q!Fresh
      <4>2. c = a
        <5>1. ASSUME c # a PROVE FALSE
          <6>1. row'[c].id < nextId /\ c \in Q!Queued /\ row'[c].id = row[c].id
            BY <1>2, <2>3, <3>1, <5>1 DEF Settles, QueuedBatches, Q!Queued, Msgs
          <6>2. row[c].id \in Nat
            BY <1>3, <6>1 DEF Q!Queued, Q!Row, Q!Absent
          <6> QED
            BY <1>3, <3>1, <4>1, <6>1, <6>2
        <5> QED
          BY <5>1
      <4> QED
        BY <1>3, <3>1, <3>3, <4>1, <4>2
    <3> QED
      BY <3>2, <3>3
  <2> QED
    BY <1>1, <2>2, <2>4 DEF BatchOrder
<1> QED
  BY <1>4, <1>5

\* A step adds no batch to the queue before those that are there are dying or
\* raced.
LEMMA BatchOrderStep ==
    ASSUME IInv, Held, TypeOK, Q!RowIdsAreUnique, BatchOrder, [Next]_vars
    PROVE  BatchOrder'
<1>1. raced \subseteq raced'
  BY RacedSteps
<1>2. CASE \E a \in Batches : SyncCreate(a)
  BY <1>1, <1>2, NewBatch
<1>3. CASE ~\E a \in Batches : SyncCreate(a)
  <2>1. \A b \in Batches : Settles(b)
    BY <1>1, <1>3, BatchesSettle DEF BatchOrder
  <2>2. QueuedBatches' \subseteq QueuedBatches
    BY <2>1 DEF Settles, QueuedBatches
  <2>3. /\ \A b, c \in QueuedBatches' : Q!Before(b, c)' => b \in raced'
        /\ \A b \in Batches : DeadForGood(b)'
    <3>1. \A b \in QueuedBatches' : b \in Batches /\ row'[b].id = row[b].id
      BY <2>1 DEF Settles, QueuedBatches
    <3>2. \A b, c \in QueuedBatches' : Q!Before(b, c)' => Q!Before(b, c)
      BY <3>1 DEF Q!Before
    <3> QED
      BY <1>1, <2>1, <2>2, <3>2 DEF BatchOrder, Settles
  <2>4. CASE pump'.pc \notin {"dead", "create"}
    BY <2>3, <2>4 DEF BatchOrder
  <2>5. CASE pump'.pc = pump.pc
    <3>1. pump'.pc = "create" => QueuedBatches' \subseteq raced'
      BY <1>1, <2>2, <2>5 DEF BatchOrder
    <3>2. ASSUME pump'.pc = "dead", NEW b \in QueuedBatches' PROVE Dying(b)' \/ b \in raced'
      <4>1. b \in QueuedBatches /\ b \in Batches /\ (Dying(b) => Dying(b)' \/ b \in raced')
        BY <2>1, <2>5, <3>2 DEF Settles, QueuedBatches
      <4>2. Dying(b) \/ b \in raced
        BY <2>5, <3>2, <4>1 DEF BatchOrder
      <4> QED
        BY <1>1, <4>1, <4>2
    <3> QED
      BY <2>3, <3>1, <3>2 DEF BatchOrder
  <2>6. CASE SyncActive
    <3>1. pump'.pc # "create" /\ (pump'.pc = "dead" => ~Q!HasActiveMessageForTopic("sync"))
      BY <2>6 DEF SyncActive, IdlePump, IInv, Shapes
    <3>2. UNCHANGED <<row, blocker>>
      BY <2>6 DEF SyncActive, queueVars
    <3>3. ASSUME NEW b \in QueuedBatches, ~Q!HasActiveMessageForTopic("sync") PROVE Q!Dead(b)
      <4>1. b \in Msgs /\ TopicOf[b] = "sync" /\ row[b].status # "ABSENT"
        BY SyncTopic DEF QueuedBatches, Msgs
      <4>2. ~Q!Live(b)
        BY <3>3, <4>1 DEF Q!HasActiveMessageForTopic
      <4>3. row[b] \in Q!Row
        BY <4>1 DEF TypeOK, Q!TypeOK, Q!Absent
      <4> QED
        BY <4>2, <4>3 DEF Q!Row, Q!Statuses, Q!Live, Q!Dead
    <3>4. pump'.pc = "dead" => \A b \in QueuedBatches' : Dying(b)'
      BY <3>1, <3>2, <3>3 DEF QueuedBatches, Dying, Q!Dead
    <3> QED
      BY <2>3, <3>1, <3>4 DEF BatchOrder
  <2>7. CASE SyncDead
    <3>1. /\ pump.pc = "dead" /\ pump'.pc # "dead"
          /\ pump'.pc = "create" => ~Q!HasDeadMessageForTopic("sync")
      BY <2>7 DEF SyncDead, IdlePump, IInv, Shapes
    <3>2. ASSUME NEW b \in QueuedBatches, ~Q!HasDeadMessageForTopic("sync") PROVE b \in raced
      <4>1. b \in Msgs /\ TopicOf[b] = "sync"
        BY SyncTopic DEF QueuedBatches, Msgs
      <4>2. Dying(b) \/ b \in raced
        BY <3>1 DEF BatchOrder
      <4> QED
        BY <3>2, <4>1, <4>2 DEF Dying, Q!HasDeadMessageForTopic
    <3>3. pump'.pc = "create" => QueuedBatches' \subseteq raced'
      BY <1>1, <2>2, <3>1, <3>2
    <3> QED
      BY <2>3, <3>1, <3>3 DEF BatchOrder
  <2> QED
    BY <1>1, <2>4, <2>5, <2>6, <2>7, PumpChecks
<1> QED
  BY <1>2, <1>3

\* Two sync batches are live together only if the operator retried the older
\* one between the two queries of CanCreateSyncBatch, although these queries
\* and the insert are three transactions, and acknowledgements, deadlines and
\* restarts come in between.
THEOREM OneBatchBarringRace == Spec => []OneBatchUnlessRaced
<1>1. Init => BatchOrder
  <2> SUFFICES ASSUME Init PROVE BatchOrder
    OBVIOUS
  <2>1. \A b \in Batches : row[b] = Q!Absent
    BY DEF Init, Q!Init, Msgs
  <2> QED
    BY <2>1 DEF Init, IdlePump, BatchOrder, QueuedBatches, DeadForGood, Q!Dead, Q!Absent
<1>2. IInv /\ Held /\ TypeOK /\ QP!RowIdsAreUnique /\ BatchOrder /\ [Next]_vars => BatchOrder'
  BY BatchOrderStep, SameIds
<1>3. BatchOrder => OneBatchUnlessRaced
  BY DEF BatchOrder, OneBatchUnlessRaced, QueuedBatches, Q!Live, Q!LiveStatuses
<1> QED
  BY <1>1, <1>2, <1>3, Invariance, HeldInvariance, DeliveryTypeCorrect, QueuePromisesKept,
     PTL DEF Spec

\* As long as the operator has no dead batch retried, one sync batch is live at
\* most.
THEOREM OneBatchUnlessRetried ==
    Spec /\ [][\A b \in Batches : ~Q!RetryDead(b)]_vars
        => [](\A b, c \in Batches : Q!Live(b) /\ Q!Live(c) => b = c)
<1>1. Init => raced = {}
  BY DEF Init
<1>2. raced = {} /\ [Next]_vars /\ [\A b \in Batches : ~Q!RetryDead(b)]_vars => (raced = {})'
  BY RacedSteps DEF vars, history
<1>3. ASSUME raced = {}, OneBatchUnlessRaced, TypeOK, Q!RowIdsAreUnique,
             NEW b \in Batches, NEW c \in Batches, Q!Live(b), Q!Live(c)
      PROVE  b = c
  <2>1. b \in Q!Queued /\ c \in Q!Queued
    BY <1>3 DEF Q!Queued, Q!Live, Q!LiveStatuses, Msgs
  <2>2. row[b].id \in Nat /\ row[c].id \in Nat
    BY <1>3, <2>1 DEF TypeOK, Q!TypeOK, Q!Queued, Q!Row, Q!Absent
  <2>3. ~(row[b].id < row[c].id) /\ ~(row[c].id < row[b].id)
    BY <1>3 DEF OneBatchUnlessRaced, Q!Before
  <2>4. row[b].id = row[c].id
    BY <2>2, <2>3
  <2> QED
    BY <1>3, <2>1, <2>4 DEF Q!RowIdsAreUnique
<1>4. raced = {} /\ OneBatchUnlessRaced /\ TypeOK /\ QP!RowIdsAreUnique
      => \A b, c \in Batches : Q!Live(b) /\ Q!Live(c) => b = c
  BY <1>3, SameIds
<1> QED
  BY <1>1, <1>2, <1>4, OneBatchBarringRace, DeliveryTypeCorrect, QueuePromisesKept, PTL DEF Spec

=============================================================================
