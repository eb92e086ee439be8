----------------------- MODULE TelemetryDeliveryProofs -----------------------
(***************************************************************************)
(* Proofs about TelemetryDelivery, for every set of records and batches    *)
(* and every bound: what the client counts as synced is committed, and the *)
(* delivery implements TelemetryContract.                                  *)
(*                                                                         *)
(* The argument: nothing travels that was not stored first (Durable), an   *)
(* acknowledgement says Committed only when the receipts of everything the *)
(* message carries are there (TrueReplies), and receipts are never taken   *)
(* back.  The id of a batch is never given other records while a message,  *)
(* a row or a reply still carries it, because an id that travels is known. *)
(***************************************************************************)
EXTENDS TelemetryDelivery, FiniteSetTheorems, TLAPS

Stored_ == {r \in Records : store[r] # "none"}
Known == Stored_ \cup {b \in Batches : content[b] # {}}

\* The types the argument needs; of a row only that the table is a function.
Shapes ==
    /\ row = [m \in Msgs |-> row[m]]
    /\ store \in [Records -> {"none", "unsynced", "synced"}]
    /\ content \in [Batches -> SUBSET Records]
    /\ producer \in [Records -> ProducerStates]
    /\ pump \in [pc : PumpStates, syncing : BOOLEAN, due : Seq(Msgs),
                 seen : SUBSET Records, msg : Msgs \cup {None}]
    /\ acks \in Seq([msg : Msgs, state : AckStates])
    /\ receipts \subseteq Records

QueueDurable == Q!Queued \subseteq Known

NetworkDurable ==
    /\ wire \in Known \cup {None}
    /\ orphans \subseteq Known
    /\ \A i \in 1..Len(acks) : acks[i].msg \in Known

ProducersDurable == \A r \in Records : producer[r] # "idle" => r \in Stored_

\* The pump holds the records of the batch it is about to create.
Reading == {"active", "dead", "create"}

PumpDurable ==
    /\ pump.msg \in Known \cup {None}
    /\ \A i \in 1..Len(pump.due) : pump.due[i] \in Known
    /\ pump.seen \subseteq Stored_
    /\ pump.pc \in Reading => pump.seen # {}

BatchesDurable == \A b \in Batches : content[b] \subseteq Stored_

Durable == QueueDurable /\ NetworkDurable /\ ProducersDurable /\ PumpDurable /\ BatchesDurable

ReceiptsDurable == receipts \subseteq Stored_

TrueReplies ==
    \A i \in 1..Len(acks) : acks[i].state = "Committed" => Items(acks[i].msg) \subseteq receipts

IInv == Shapes /\ Durable /\ ReceiptsDurable /\ TrueReplies /\ SyncedIsCommitted

-----------------------------------------------------------------------------
(* The queue *)

Untouched == UNCHANGED <<store, content, receipts>>

\* An operation of the queue other than an insert adds no row.
QueueMove(m) ==
    \/ Q!MarkAwaitingAcknowledgement(m)
    \/ Q!Complete(m)
    \/ Q!ScheduleRetry(m)
    \/ Q!Quarantine(m)
    \/ Q!RecordFailure(m)
    \/ Q!RetryDead(m)
    \/ Q!ResolveDead(m)
    \/ Q!Elapse(m)
    \/ Q!Age(m)
    \/ Q!RemoveExpired
    \/ Q!MoveExpiredAcknowledgementsToDead
    \/ Q!EnforceRetention
    \/ UNCHANGED row

\* Only Enqueue adds a row to the queue, and only its own.
LEMMA QueueMoves ==
    ASSUME row = [n \in Msgs |-> row[n]], NEW m, QueueMove(m)
    PROVE  row' = [n \in Msgs |-> row'[n]] /\ Q!Queued' \subseteq Q!Queued
<1>1. CASE Q!MarkAwaitingAcknowledgement(m)
  BY <1>1 DEF Q!MarkAwaitingAcknowledgement, Q!Queued, Q!Updated, Q!Live, Q!LiveStatuses
<1>2. CASE Q!Complete(m)
  BY <1>2 DEF Q!Complete, Q!Queued, Q!Without, Q!Absent
<1>3. CASE Q!ScheduleRetry(m)
  BY <1>3 DEF Q!ScheduleRetry, Q!Queued, Q!Updated
<1>4. CASE Q!Quarantine(m)
  BY <1>4 DEF Q!Quarantine, Q!Queued, Q!Updated
<1>5. CASE Q!RecordFailure(m)
  BY <1>5 DEF Q!RecordFailure, Q!Queued, Q!Updated, Q!Live, Q!LiveStatuses
<1>6. CASE Q!RetryDead(m)
  BY <1>6 DEF Q!RetryDead, Q!Queued, Q!Updated, Q!Dead
<1>7. CASE Q!ResolveDead(m)
  BY <1>7 DEF Q!ResolveDead, Q!Queued, Q!Without, Q!Absent
<1>8. CASE Q!Elapse(m)
  BY <1>8 DEF Q!Elapse, Q!Queued, Q!Live, Q!LiveStatuses
<1>9. CASE Q!Age(m)
  BY <1>9 DEF Q!Age, Q!Queued
<1>10. CASE Q!RemoveExpired
  BY <1>10 DEF Q!RemoveExpired, Q!Queued, Q!Without, Q!Absent
<1>11. CASE Q!MoveExpiredAcknowledgementsToDead
  BY <1>11 DEF Q!MoveExpiredAcknowledgementsToDead, Q!Queued
<1>12. CASE Q!EnforceRetention
  BY <1>12 DEF Q!EnforceRetention, Q!Queued, Q!Without, Q!Absent
<1>13. CASE UNCHANGED row
  BY <1>13 DEF Q!Queued
<1> QED
  BY <1>1, <1>2, <1>3, <1>4, <1>5, <1>6, <1>7, <1>8, <1>9, <1>10, <1>11, <1>12, <1>13 DEF QueueMove

LEMMA EnqueueAdds ==
    ASSUME row = [n \in Msgs |-> row[n]], NEW m \in Msgs, Q!Enqueue(m)
    PROVE  row' = [n \in Msgs |-> row'[n]] /\ Q!Queued' \subseteq Q!Queued \cup {m}
BY DEF Q!Enqueue, Q!Queued, Q!Without, Q!Absent

-----------------------------------------------------------------------------
(* Steps that change neither a record, nor a batch, nor a receipt *)

PumpShape == [pc : PumpStates, syncing : BOOLEAN, due : Seq(Msgs),
              seen : SUBSET Records, msg : Msgs \cup {None}]
AckShape == [msg : Msgs, state : AckStates]

ProducersQuiet ==
    /\ producer' \in [Records -> ProducerStates]
    /\ \A r \in Records : producer'[r] # "idle" => producer[r] # "idle"

PumpQuiet ==
    /\ pump' \in PumpShape
    /\ pump'.msg \in Known \cup {None}
    /\ \A i \in 1..Len(pump'.due) : pump'.due[i] \in Known
    /\ pump'.seen \subseteq Stored_
    /\ pump'.pc \in Reading => pump'.seen # {}

NetworkQuiet ==
    /\ wire' \in Known \cup {None}
    /\ orphans' \subseteq Known
    /\ acks' \in Seq(AckShape)
    /\ \A i \in 1..Len(acks') :
            /\ acks'[i].msg \in Known
            /\ acks'[i].state = "Committed" => Items(acks'[i].msg) \subseteq receipts

\* What is durable and true stays so when records, batches and receipts stay.
LEMMA QuietStep ==
    ASSUME IInv, Untouched, NEW m, QueueMove(m), ProducersQuiet, PumpQuiet, NetworkQuiet
    PROVE  IInv'
<1> USE DEF IInv, Untouched
<1>1. row' = [n \in Msgs |-> row'[n]] /\ Q!Queued' \subseteq Q!Queued
  BY QueueMoves DEF Shapes
<1>2. Known' = Known /\ Stored_' = Stored_
  BY DEF Known, Stored_
<1>3. Shapes'
  BY <1>1 DEF Shapes, ProducersQuiet, PumpQuiet, NetworkQuiet, PumpShape, AckShape
<1>4. QueueDurable'
  BY <1>1, <1>2 DEF Durable, QueueDurable
<1>5. NetworkDurable'
  BY <1>2 DEF NetworkDurable, NetworkQuiet
<1>6. ProducersDurable'
  BY <1>2 DEF Durable, ProducersDurable, ProducersQuiet
<1>7. PumpDurable'
  BY <1>2 DEF PumpDurable, PumpQuiet
<1>8. BatchesDurable'
  BY <1>2 DEF Durable, BatchesDurable
<1>9. ReceiptsDurable'
  BY <1>2 DEF ReceiptsDurable
<1>10. TrueReplies'
  BY DEF TrueReplies, NetworkQuiet, Items
<1>11. SyncedIsCommitted'
  BY DEF SyncedIsCommitted
<1> QED
  BY <1>3, <1>4, <1>5, <1>6, <1>7, <1>8, <1>9, <1>10, <1>11 DEF Durable

LEMMA NetworkStays ==
    ASSUME IInv, UNCHANGED <<wire, orphans, acks>>
    PROVE  NetworkQuiet
BY DEF IInv, Shapes, Durable, NetworkDurable, TrueReplies, NetworkQuiet, AckShape

LEMMA PumpStays ==
    ASSUME IInv, UNCHANGED pump
    PROVE  PumpQuiet
BY DEF IInv, Shapes, Durable, PumpDurable, PumpQuiet, PumpShape

LEMMA ProducersStay ==
    ASSUME IInv, UNCHANGED producer
    PROVE  ProducersQuiet
BY DEF IInv, Shapes, ProducersQuiet

LEMMA ProducerMoves ==
    ASSUME IInv, NEW r \in Records, producer[r] # "idle", NEW to \in ProducerStates,
           producer' = [producer EXCEPT ![r] = to]
    PROVE  ProducersQuiet
BY DEF IInv, Shapes, ProducersQuiet

LEMMA PumpMoves ==
    ASSUME IInv, NEW to \in PumpStates, pump' = [pump EXCEPT !.pc = to],
           to \in Reading => pump.pc \in Reading
    PROVE  PumpQuiet
BY DEF IInv, Shapes, Durable, PumpDurable, PumpQuiet, PumpShape

LEMMA IdlePumpQuiet ==
    ASSUME IInv, pump' \in {IdlePump, PumpDone}
    PROVE  PumpQuiet
<1> DEFINE Rest == [pc |-> "read", syncing |-> TRUE, due |-> <<>>, seen |-> {}, msg |-> None]
<1>1. IdlePump \in PumpShape /\ Rest \in PumpShape
  <2>1. <<>> \in Seq(Msgs)
    OBVIOUS
  <2> QED
    BY <2>1 DEF IdlePump, PumpShape, PumpStates
<1>2. pump' \in {IdlePump, Rest}
  BY DEF PumpDone
<1>3. pump'.pc \in {"idle", "read"} /\ pump'.due = <<>> /\ pump'.seen = {} /\ pump'.msg = None
  BY <1>2 DEF IdlePump
<1>4. \A i \in 1..Len(pump'.due) : FALSE
  <2>1. Len(<<>>) = 0
    OBVIOUS
  <2> QED
    BY <2>1, <1>3
<1> QED
  BY <1>1, <1>2, <1>3, <1>4 DEF PumpQuiet, Reading

LEMMA PublishQuiet ==
    ASSUME IInv, NEW m \in Known \cup {None}, Published(m)
    PROVE  NetworkQuiet
BY DEF IInv, Shapes, Durable, NetworkDurable, TrueReplies, NetworkQuiet, AckShape, Published

\* A lost or closed connection loses messages and replies and sends a waiting
\* publisher to record its failure, nothing else.
LEMMA DisconnectQuiet ==
    ASSUME IInv, NEW to, NEW p \in [Records -> ProducerStates], NEW q \in PumpShape,
           \A r \in Records : p[r] # "idle" => producer[r] # "idle",
           q \in {pump, IdlePump},
           Disconnected(to, p, q)
    PROVE  ProducersQuiet /\ PumpQuiet /\ NetworkQuiet
<1>1. ProducersQuiet
  BY DEF ProducersQuiet, Disconnected, ProducerStates
<1>2. PumpQuiet
  <2>1. CASE q = pump
    BY <2>1 DEF IInv, Shapes, Durable, PumpDurable, PumpQuiet, PumpShape, Disconnected, PumpStates, Reading
  <2>2. CASE q = IdlePump
    BY <2>2 DEF PumpQuiet, PumpShape, Disconnected, PumpStates, IdlePump, Reading
  <2> QED
    BY <2>1, <2>2
<1>3. NetworkQuiet
  <2>1. acks' = <<>> /\ wire' = None
    BY DEF Disconnected
  <2>2. orphans' \subseteq Known
    BY DEF IInv, Durable, NetworkDurable, Disconnected
  <2> QED
    BY <2>1, <2>2 DEF NetworkQuiet
<1> QED
  BY <1>1, <1>2, <1>3

LEMMA ReplyTaken ==
    ASSUME IInv, acks # <<>>, acks' = Tail(acks), UNCHANGED <<wire, orphans>>
    PROVE  NetworkQuiet
<1>1. acks' \in Seq(AckShape) /\ Len(acks') = Len(acks) - 1
  BY DEF IInv, Shapes, AckShape
<1>2. \A i \in 1..Len(acks') : acks'[i] = acks[i + 1] /\ i + 1 \in 1..Len(acks)
  BY <1>1 DEF IInv, Shapes
<1> QED
  BY <1>1, <1>2 DEF IInv, Durable, NetworkDurable, TrueReplies, NetworkQuiet

-----------------------------------------------------------------------------
(* Steps of the backend *)

\* A message that travels is known, and what it carries was stored.
LEMMA TravelsStored ==
    ASSUME IInv, NEW m \in Known
    PROVE  Items(m) \subseteq Stored_
BY DeliveryAssumption DEF IInv, Durable, BatchesDurable, Known, Stored_, Items

\* The backend replies what it has committed, at most what the message carries.
LEMMA ServerReplies ==
    ASSUME IInv, NEW m \in Msgs, Handled(m), NEW state \in AckStates,
           UNCHANGED <<row, store, content, producer, pump>>,
           receipts' \in {receipts, receipts \cup Items(m)},
           state = "Committed" => Items(m) \subseteq receipts',
           UNCHANGED acks \/ Reply(m, state)
    PROVE  IInv'
<1>1. m \in Known
  BY DeliveryAssumption DEF IInv, Durable, NetworkDurable, Handled
<1>2. Known' = Known /\ Stored_' = Stored_
  BY DEF Known, Stored_
<1>3. Items(m) \subseteq Stored_ /\ receipts \subseteq receipts' /\ receipts' \subseteq Stored_
  BY <1>1, TravelsStored DEF IInv, ReceiptsDurable
<1>4. PICK reply \in AckShape :
            /\ reply.msg = m /\ (reply.state = "Committed" => Items(m) \subseteq receipts')
            /\ acks' \in {acks, Append(acks, reply)}
  <2>1. [msg |-> m, state |-> state] \in AckShape
    BY DEF AckShape
  <2> QED
    BY <2>1 DEF Reply
<1>5. acks \in Seq(AckShape)
  BY DEF IInv, Shapes, AckShape
<1>6. /\ acks' \in Seq(AckShape)
      /\ \A i \in 1..Len(acks') : acks'[i] = reply \/ (i \in 1..Len(acks) /\ acks'[i] = acks[i])
  <2>1. CASE acks' = acks
    BY <2>1, <1>5
  <2>2. CASE acks' = Append(acks, reply)
    BY <2>2, <1>5
  <2> QED
    BY <2>1, <2>2, <1>4
<1>7. Shapes'
  BY <1>2, <1>3, <1>6 DEF IInv, Shapes, AckShape, Stored_
<1>8. NetworkDurable'
  <2>1. wire' \in Known \cup {None} /\ orphans' \subseteq Known
    BY DEF IInv, Durable, NetworkDurable, Handled
  <2> QED
    BY <2>1, <1>1, <1>2, <1>4, <1>6 DEF IInv, Durable, NetworkDurable
<1>9. Durable'
  BY <1>2, <1>8 DEF IInv, Durable, QueueDurable, Q!Queued, ProducersDurable, PumpDurable,
                    BatchesDurable
<1>10. ReceiptsDurable'
  BY <1>2, <1>3 DEF ReceiptsDurable
<1>11. TrueReplies'
  BY <1>3, <1>4, <1>6 DEF IInv, TrueReplies, Items
<1>12. SyncedIsCommitted'
  BY <1>3 DEF IInv, SyncedIsCommitted
<1> QED
  BY <1>7, <1>9, <1>10, <1>11, <1>12 DEF IInv

-----------------------------------------------------------------------------
(* Steps that store a record, mark records synced or create a batch *)

LEMMA StoredKeeps ==
    ASSUME IInv, NEW r \in Records, Stored(r)
    PROVE  IInv'
<1> USE DEF IInv, Stored, networkVars, serverVars
<1>1. row' = [n \in Msgs |-> row'[n]] /\ Q!Queued' \subseteq Q!Queued \cup {r}
  BY EnqueueAdds DEF Shapes, Msgs
<1>2. Stored_' = Stored_ \cup {r} /\ Known' = Known \cup {r}
  BY DEF Shapes, Stored_, Known
<1>3. Shapes'
  BY <1>1 DEF Shapes, ProducerAt, ProducerStates
<1>4. Durable'
  BY <1>1, <1>2 DEF Shapes, Durable, QueueDurable, NetworkDurable, ProducersDurable, PumpDurable,
                    BatchesDurable, ProducerAt
<1>5. ReceiptsDurable'
  BY <1>2 DEF ReceiptsDurable
<1>6. TrueReplies'
  BY DEF TrueReplies, Items
<1>7. SyncedIsCommitted'
  BY DEF Shapes, SyncedIsCommitted
<1> QED
  BY <1>3, <1>4, <1>5, <1>6, <1>7

\* A Committed reply names a message whose records are all at the backend.
LEMMA AckCommittedKeeps ==
    ASSUME IInv, NEW m \in Msgs, AckCommitted(m)
    PROVE  IInv'
<1> USE DEF AckCommitted, Received, serverVars, queueVars
<1>1. NetworkQuiet
  BY ReplyTaken
<1>2. CASE m \notin Q!Queued
  BY <1>1, <1>2, QuietStep, ProducersStay, PumpStays DEF Untouched, QueueMove
<1>3. CASE m \in Q!Queued
  <2> USE <1>3 DEF MarkSynced
  <2>1. Items(m) \subseteq receipts
    <3>1. acks[1] = [msg |-> m, state |-> "Committed"] /\ 1 \in 1..Len(acks)
      <4>1. acks \in Seq(AckShape) /\ acks # <<>>
        BY DEF IInv, Shapes, AckShape
      <4>2. Head(acks) = acks[1] /\ 1 \in 1..Len(acks)
        BY <4>1
      <4> QED
        BY <4>2
    <3> QED
      BY <3>1 DEF IInv, TrueReplies
  <2>2. Stored_' = Stored_ /\ Known' = Known
    BY <2>1 DEF IInv, Shapes, ReceiptsDurable, Stored_, Known
  <2>3. Shapes'
    BY <1>1 DEF IInv, Shapes, NetworkQuiet, AckShape
  <2>4. NetworkDurable'
    BY <1>1, <2>2 DEF NetworkQuiet, NetworkDurable
  <2>5. Durable'
    BY <2>2, <2>4 DEF IInv, Durable, QueueDurable, Q!Queued, ProducersDurable, PumpDurable,
                      BatchesDurable
  <2>6. ReceiptsDurable'
    BY <2>2 DEF IInv, ReceiptsDurable
  <2>7. TrueReplies'
    BY <1>1 DEF NetworkQuiet, TrueReplies, Items
  <2>8. SyncedIsCommitted'
    BY <2>1 DEF IInv, SyncedIsCommitted
  <2> QED
    BY <2>3, <2>5, <2>6, <2>7, <2>8 DEF IInv
<1> QED
  BY <1>2, <1>3

\* The id of the new batch is in no row, reply or connection: those are known.
LEMMA SyncCreateKeeps ==
    ASSUME IInv, NEW b \in Batches, SyncCreate(b)
    PROVE  IInv'
<1> USE DEF SyncCreate, PumpFrame, UnusedBatches, networkVars, serverVars
<1>1. row' = [n \in Msgs |-> row'[n]] /\ Q!Queued' \subseteq Q!Queued \cup {b}
  BY EnqueueAdds DEF IInv, Shapes, Msgs
<1>2. pump.seen # {} /\ pump.seen \subseteq Stored_ /\ pump.seen \subseteq Records
  BY DEF IInv, Shapes, Durable, PumpDurable, Reading
<1>3. content' \in [Batches -> SUBSET Records] /\ content'[b] = pump.seen
      /\ \A c \in Batches \ {b} : content'[c] = content[c]
  BY <1>2 DEF IInv, Shapes
<1>4. Stored_' = Stored_ /\ Known \subseteq Known' /\ b \in Known' /\ b \notin Known
  BY <1>2, <1>3, DeliveryAssumption DEF Stored_, Known
<1>5. pump' \in PumpShape /\ pump'.pc = "prepare" /\ pump'.msg = b /\ pump'.seen = {}
      /\ pump'.due = pump.due
  BY DEF IInv, Shapes, PumpShape, PumpStates, Msgs
<1>6. Shapes'
  BY <1>1, <1>3, <1>5 DEF IInv, Shapes, PumpShape
<1>7. PumpDurable'
  BY <1>4, <1>5 DEF IInv, Durable, PumpDurable, Reading
<1>8. BatchesDurable'
  BY <1>2, <1>3, <1>4 DEF IInv, Durable, BatchesDurable
<1>9. QueueDurable' /\ NetworkDurable' /\ ProducersDurable'
  BY <1>1, <1>4 DEF IInv, Durable, QueueDurable, NetworkDurable, ProducersDurable
<1>10. ReceiptsDurable'
  BY <1>4 DEF IInv, ReceiptsDurable
<1>11. TrueReplies'
  <2>1. \A n \in Known : Items(n)' = Items(n)
    BY <1>3, <1>4 DEF Items, Known, Stored_
  <2> QED
    BY <2>1 DEF IInv, Durable, NetworkDurable, TrueReplies
<1>12. SyncedIsCommitted'
  BY DEF IInv, SyncedIsCommitted
<1> QED
  BY <1>6, <1>7, <1>8, <1>9, <1>10, <1>11, <1>12 DEF IInv, Durable

-----------------------------------------------------------------------------
(* Producers *)

\* A producer whose exception is not handled stops the transport.
LEMMA FailureStops ==
    ASSUME IInv, NEW r \in Records, Disconnected("stopped", [producer EXCEPT ![r] = "idle"], pump)
    PROVE  ProducersQuiet /\ PumpQuiet /\ NetworkQuiet
<1> DEFINE p == [producer EXCEPT ![r] = "idle"]
<1>1. p \in [Records -> ProducerStates] /\ \A s \in Records : p[s] # "idle" => producer[s] # "idle"
  BY DEF IInv, Shapes, ProducerStates
<1>2. pump \in PumpShape
  BY DEF IInv, Shapes, PumpShape
<1>3. Disconnected("stopped", p, pump)
  OBVIOUS
<1> HIDE DEF p
<1> QED
  BY <1>1, <1>2, <1>3, DisconnectQuiet

LEMMA ProducerKeeps ==
    ASSUME IInv, NEW r \in Records, ProducerStep(r)
    PROVE  IInv'
<1> USE DEF queueVars, networkVars, serverVars, ProducerAt, ProducerStates
<1>0. ASSUME Untouched, QueueMove(r), ProducersQuiet, PumpQuiet, NetworkQuiet
      PROVE  IInv'
  BY <1>0, QuietStep
<1>1. CASE ProducerCheck(r)
  BY <1>0, <1>1, ProducerMoves, PumpStays, NetworkStays DEF ProducerCheck, Untouched, QueueMove
<1>2. CASE ProducerPrepare(r)
  <2>1. ProducersQuiet /\ PumpQuiet /\ NetworkQuiet
    BY <1>2, ProducerMoves, PumpStays, NetworkStays, FailureStops DEF ProducerPrepare
  <2> QED
    BY <1>0, <1>2, <2>1 DEF ProducerPrepare, Untouched, QueueMove
<1>3. CASE ProducerPublish(r)
  <2>1. NetworkQuiet
    <3>1. producer[r] = "send"
      BY <1>3 DEF ProducerPublish
    <3>2. r \in Known
      BY <3>1 DEF IInv, Durable, ProducersDurable, Known
    <3> QED
      BY <1>3, <3>2, PublishQuiet, NetworkStays DEF ProducerPublish
  <2> QED
    BY <1>0, <1>3, <2>1, ProducerMoves, PumpStays DEF ProducerPublish, Untouched, QueueMove
<1>4. CASE ProducerPublished(r)
  BY <1>0, <1>4, ProducerMoves, PumpStays, NetworkStays DEF ProducerPublished, Untouched, QueueMove
<1>5. CASE ProducerCancelled(r)
  BY <1>0, <1>5, ProducerMoves, PumpStays, NetworkStays DEF ProducerCancelled, Untouched, QueueMove
<1>6. CASE ProducerFind(r)
  BY <1>0, <1>6, ProducerMoves, PumpStays, NetworkStays DEF ProducerFind, Untouched, QueueMove
<1>7. CASE ProducerFail(r)
  <2>1. ProducersQuiet /\ PumpQuiet /\ NetworkQuiet
    BY <1>7, ProducerMoves, PumpStays, NetworkStays, FailureStops DEF ProducerFail
  <2> QED
    BY <1>0, <1>7, <2>1 DEF ProducerFail, Untouched, QueueMove
<1> QED
  BY <1>1, <1>2, <1>3, <1>4, <1>5, <1>6, <1>7 DEF ProducerStep

-----------------------------------------------------------------------------
(* The delivery pump *)

\* The due messages are queued, so they are known.
LEMMA SelectQuiet ==
    ASSUME IInv, PumpSelect
    PROVE  PumpQuiet
<1>1. PICK due \in Q!Listing(Q!DueBatch(100)) : pump' = [pump EXCEPT !.pc = "replay", !.due = due]
  BY DEF PumpSelect
<1>2. Q!DueBatch(100) \subseteq Q!Queued /\ Q!Queued \subseteq Known /\ Q!Queued \subseteq Msgs
  BY DEF IInv, Durable, QueueDurable, Q!DueBatch, Q!DueMessages, Q!Queued, Q!Live, Q!LiveStatuses
<1>3. Cardinality(Q!DueBatch(100)) \in Nat
  BY <1>2, DeliveryAssumption, FS_Union, FS_Subset, FS_CardinalityType DEF Msgs
<1>4. due \in [1..Cardinality(Q!DueBatch(100)) -> Q!DueBatch(100)]
  <2>1. Q!Cardinality(Q!DueBatch(100)) = Cardinality(Q!DueBatch(100))
    BY DEF Q!Cardinality, Cardinality
  <2> QED
    BY <2>1 DEF Q!Listing
<1>5. due \in Seq(Msgs) /\ \A i \in 1..Len(due) : due[i] \in Known
  <2> DEFINE n == Cardinality(Q!DueBatch(100))
             S == Q!DueBatch(100)
  <2>1. n \in Nat /\ due \in [1..n -> S] /\ S \subseteq Msgs /\ S \subseteq Known
    BY <1>2, <1>3, <1>4
  <2> HIDE DEF n, S
  <2> QED
    BY <2>1
<1>6. pump' \in PumpShape /\ pump'.pc = "replay" /\ pump'.due = due /\ pump'.seen = pump.seen
      /\ pump'.msg = pump.msg
  BY <1>1, <1>5 DEF IInv, Shapes, PumpShape, PumpStates
<1> QED
  BY <1>5, <1>6 DEF IInv, Durable, PumpDurable, PumpQuiet, Reading

LEMMA ReplayQuiet ==
    ASSUME IInv, PumpReplay
    PROVE  PumpQuiet
<1>1. CASE pump' = PumpDone
  BY <1>1, IdlePumpQuiet
<1>2. CASE pump' = [pump EXCEPT !.pc = "send", !.due = Tail(pump.due), !.msg = Head(pump.due)]
  <2> DEFINE due == pump.due
  <2>1. due \in Seq(Msgs) /\ due # <<>> /\ \A i \in 1..Len(due) : due[i] \in Known
    BY DEF IInv, Shapes, Durable, PumpDurable, PumpReplay
  <2>2. /\ Head(due) \in Known /\ Head(due) \in Msgs
        /\ Tail(due) \in Seq(Msgs)
        /\ \A i \in 1..Len(Tail(due)) : Tail(due)[i] \in Known
    <3> HIDE DEF due
    <3> QED
      BY <2>1
  <2>3. pump' \in PumpShape /\ pump'.pc = "send" /\ pump'.due = Tail(due)
        /\ pump'.msg = Head(due) /\ pump'.seen = pump.seen
    BY <1>2, <2>2 DEF IInv, Shapes, PumpShape, PumpStates
  <2> QED
    BY <2>2, <2>3 DEF IInv, Durable, PumpDurable, PumpQuiet, Reading
<1> QED
  BY <1>1, <1>2 DEF PumpReplay

LEMMA NextMessageQuiet ==
    ASSUME IInv, pump' = [pump EXCEPT !.pc = "replay", !.msg = None]
    PROVE  PumpQuiet
BY DEF IInv, Shapes, Durable, PumpDurable, PumpQuiet, PumpShape, PumpStates, Reading

LEMMA ReadQuiet ==
    ASSUME IInv, Unsynced # {}, pump' = [pump EXCEPT !.pc = "active", !.seen = Unsynced]
    PROVE  PumpQuiet
<1>1. Unsynced \subseteq Stored_ /\ Unsynced \subseteq Records
  BY DEF Unsynced, Stored_
<1> QED
  BY <1>1 DEF IInv, Shapes, Durable, PumpDurable, PumpQuiet, PumpShape, PumpStates

LEMMA PumpKeeps ==
    ASSUME IInv, PumpStep
    PROVE  IInv'
<1> USE DEF queueVars, networkVars, serverVars, PumpAt, PumpFrame, PumpStates, Reading
<1>0. ASSUME UNCHANGED <<store, content, receipts, producer>>, NEW m, QueueMove(m),
             PumpQuiet, NetworkQuiet
      PROVE  IInv'
  BY <1>0, QuietStep, ProducersStay DEF Untouched
<1>1. CASE PumpStart
  BY <1>0, <1>1, PumpMoves, NetworkStays DEF PumpStart, QueueMove
<1>2. CASE PumpDeadlines
  BY <1>0, <1>2, PumpMoves, NetworkStays DEF PumpDeadlines, QueueMove
<1>3. CASE PumpSelect
  BY <1>0, <1>3, SelectQuiet, NetworkStays DEF PumpSelect, QueueMove
<1>4. CASE PumpReplay
  BY <1>0, <1>4, ReplayQuiet, NetworkStays DEF PumpReplay, QueueMove
<1>5. CASE PumpReplayDone
  BY <1>0, <1>5, IdlePumpQuiet, NetworkStays DEF PumpReplayDone, QueueMove
<1>6. CASE PumpPublish
  <2>1. NetworkQuiet
    <3>1. pump.msg \in Known \cup {None}
      BY DEF IInv, Durable, PumpDurable
    <3> QED
      BY <1>6, <3>1, PublishQuiet, NetworkStays DEF PumpPublish
  <2> QED
    BY <1>0, <1>6, <2>1, PumpMoves DEF PumpPublish, QueueMove
<1>7. CASE PumpPublished
  BY <1>0, <1>7, IdlePumpQuiet, NextMessageQuiet, NetworkStays DEF PumpPublished, QueueMove
<1>8. CASE PumpCancelled
  BY <1>0, <1>8, IdlePumpQuiet, NetworkStays DEF PumpCancelled, QueueMove
<1>9. CASE PumpFind
  BY <1>0, <1>9, IdlePumpQuiet, PumpMoves, NetworkStays DEF PumpFind, QueueMove
<1>10. CASE PumpFail
  BY <1>0, <1>10, IdlePumpQuiet, NetworkStays DEF PumpFail, QueueMove
<1>11. CASE SyncRead
  BY <1>0, <1>11, IdlePumpQuiet, ReadQuiet, NetworkStays DEF SyncRead, QueueMove
<1>12. CASE SyncActive
  BY <1>0, <1>12, IdlePumpQuiet, PumpMoves, NetworkStays DEF SyncActive, QueueMove
<1>13. CASE SyncDead
  BY <1>0, <1>13, IdlePumpQuiet, PumpMoves, NetworkStays DEF SyncDead, QueueMove
<1>14. CASE \E b \in Batches : SyncCreate(b)
  BY <1>14, SyncCreateKeeps
<1>15. CASE SyncOutOfIds
  BY <1>0, <1>15, IdlePumpQuiet, NetworkStays DEF SyncOutOfIds, QueueMove
<1>16. CASE SyncPrepare
  BY <1>0, <1>16, IdlePumpQuiet, PumpMoves, NetworkStays DEF SyncPrepare, QueueMove
<1> QED
  BY <1>1, <1>2, <1>3, <1>4, <1>5, <1>6, <1>7, <1>8, <1>9, <1>10, <1>11, <1>12, <1>13, <1>14,
     <1>15, <1>16 DEF PumpStep

-----------------------------------------------------------------------------
(* The acknowledgement handler, the backend and the rest *)

LEMMA HandlerKeeps ==
    ASSUME IInv, HandlerStep
    PROVE  IInv'
<1> USE DEF queueVars, networkVars, serverVars
<1>0. ASSUME UNCHANGED <<store, content, receipts, producer, pump>>, NEW m, QueueMove(m), NetworkQuiet
      PROVE  IInv'
  BY <1>0, QuietStep, ProducersStay, PumpStays DEF Untouched
<1>1. CASE \E m \in Msgs : AckCommitted(m)
  BY <1>1, AckCommittedKeeps
<1>2. CASE \E m \in Msgs : AckRetryable(m)
  BY <1>0, <1>2, ReplyTaken DEF AckRetryable, Received, QueueMove
<1>3. CASE \E m \in Msgs : AckPermanent(m)
  BY <1>0, <1>3, ReplyTaken DEF AckPermanent, Received, QueueMove
<1>4. CASE HandlerComplete
  BY <1>0, <1>4, NetworkStays DEF HandlerComplete, QueueMove
<1> QED
  BY <1>1, <1>2, <1>3, <1>4 DEF HandlerStep

LEMMA ServerKeeps ==
    ASSUME IInv, NEW m \in Msgs, ServerStep(m)
    PROVE  IInv'
<1> USE DEF ServerFrame, queueVars, clientVars, serverVars, AckStates
<1>1. CASE ServerCommit(m)
  BY <1>1, ServerReplies DEF ServerCommit
<1>2. CASE ServerInterrupted(m)
  BY <1>2, ServerReplies DEF ServerInterrupted
<1>3. CASE ServerBusy(m)
  BY <1>3, ServerReplies DEF ServerBusy
<1>4. CASE ServerReject(m)
  BY <1>4, ServerReplies DEF ServerReject
<1>5. CASE ServerLose(m)
  BY <1>5, ServerReplies DEF ServerLose
<1> QED
  BY <1>1, <1>2, <1>3, <1>4, <1>5 DEF ServerStep

\* The process is gone: nobody publishes and nothing travels to the client.
LEMMA GoneKeeps ==
    ASSUME IInv, ProcessGone
    PROVE  IInv'
<1> DEFINE p == [r \in Records |-> "idle"]
<1>1. p \in [Records -> ProducerStates] /\ \A r \in Records : p[r] # "idle" => producer[r] # "idle"
  BY DEF ProducerStates
<1>2. IdlePump \in PumpShape
  <2>1. <<>> \in Seq(Msgs)
    OBVIOUS
  <2> QED
    BY <2>1 DEF IdlePump, PumpShape, PumpStates
<1>3. Disconnected("stopped", p, IdlePump)
  BY DEF ProcessGone
<1>4. ProducersQuiet /\ PumpQuiet /\ NetworkQuiet
  <2> HIDE DEF p
  <2> QED
    BY <1>1, <1>2, <1>3, DisconnectQuiet
<1> QED
  BY <1>4, QuietStep DEF ProcessGone, Untouched, QueueMove, queueVars, serverVars

LEMMA ConnectionKeeps ==
    ASSUME IInv, Connect \/ Drop \/ RestartConnection
    PROVE  IInv'
<1> USE DEF queueVars, clientVars, serverVars, Untouched, QueueMove
<1>1. CASE Connect
  BY <1>1, QuietStep, ProducersStay, PumpStays, NetworkStays DEF Connect
<1>2. CASE Disconnected("down", producer, pump) /\ UNCHANGED <<queueVars, store, content, serverVars>>
  <2>1. producer \in [Records -> ProducerStates] /\ pump \in PumpShape
    BY DEF IInv, Shapes, PumpShape
  <2>2. ProducersQuiet /\ PumpQuiet /\ NetworkQuiet
    BY <1>2, <2>1, DisconnectQuiet
  <2> QED
    BY <1>2, <2>2, QuietStep
<1> QED
  BY <1>1, <1>2 DEF Drop, RestartConnection

LEMMA LifeKeeps ==
    ASSUME IInv, Stop \/ Stopped \/ Crash \/ Restart
    PROVE  IInv'
<1> USE DEF queueVars, networkVars, serverVars, Untouched, QueueMove
<1>1. CASE Stop
  BY <1>1, QuietStep, ProducersStay, PumpStays, NetworkStays DEF Stop
<1>2. CASE Stopped \/ Crash
  BY <1>2, GoneKeeps DEF Stopped, Crash
<1>3. CASE Restart
  BY <1>3, QuietStep, ProducersStay, PumpStays, NetworkStays DEF Restart
<1> QED
  BY <1>1, <1>2, <1>3

LEMMA TimeKeeps ==
    ASSUME IInv, NEW m \in Msgs, Elapse(m) \/ Age(m) \/ Operator(m)
    PROVE  IInv'
<1>1. QueueMove(m) /\ QueueOnly
  BY DEF Elapse, Age, Operator, QueueMove
<1> QED
  BY <1>1, QuietStep, ProducersStay, PumpStays, NetworkStays
     DEF QueueOnly, clientVars, networkVars, serverVars, Untouched

-----------------------------------------------------------------------------
(* The inductive invariant *)

LEMMA InitIInv == Init => IInv
<1> SUFFICES ASSUME Init PROVE IInv
  OBVIOUS
<1> USE DEF Init
<1>1. Q!Queued = {} /\ row = [m \in Msgs |-> row[m]]
  BY DEF Q!Init, Q!Queued, Q!Absent
<1>2. <<>> \in Seq(Msgs) /\ <<>> \in Seq(AckShape) /\ Len(<<>>) = 0
  OBVIOUS
<1>3. pump \in PumpShape /\ pump.due = <<>> /\ pump.seen = {} /\ pump.msg = None /\ pump.pc = "idle"
  BY <1>2 DEF IdlePump, PumpShape, PumpStates
<1>4. Shapes
  BY <1>1, <1>2, <1>3 DEF Shapes, ProducerStates, PumpShape, AckShape
<1>5. Durable
  BY <1>1, <1>2, <1>3 DEF Durable, QueueDurable, NetworkDurable, ProducersDurable, PumpDurable,
                          BatchesDurable, Reading
<1>6. ReceiptsDurable /\ TrueReplies /\ SyncedIsCommitted
  BY <1>2 DEF ReceiptsDurable, TrueReplies, SyncedIsCommitted
<1> QED
  BY <1>4, <1>5, <1>6 DEF IInv

LEMMA NextIInv == IInv /\ [Next]_vars => IInv'
<1> SUFFICES ASSUME IInv, [Next]_vars PROVE IInv'
  OBVIOUS
<1>1. CASE \E r \in Records : Store(r) \/ StoreFinal(r)
  BY <1>1, StoredKeeps DEF Store, StoreFinal
<1>2. CASE \E r \in Records : ProducerStep(r)
  BY <1>2, ProducerKeeps
<1>3. CASE PumpStep
  BY <1>3, PumpKeeps
<1>4. CASE HandlerStep
  BY <1>4, HandlerKeeps
<1>5. CASE \E m \in Msgs : ServerStep(m)
  BY <1>5, ServerKeeps
<1>6. CASE \E m \in Msgs : Elapse(m) \/ Age(m) \/ Operator(m)
  BY <1>6, TimeKeeps
<1>7. CASE Connect \/ Drop \/ RestartConnection
  BY <1>7, ConnectionKeeps
<1>8. CASE Stop \/ Stopped \/ Crash \/ Restart
  BY <1>8, LifeKeeps
<1>9. CASE Approve \/ UNCHANGED vars
  BY <1>9, QuietStep, ProducersStay, PumpStays, NetworkStays
     DEF Approve, vars, queueVars, clientVars, networkVars, serverVars, Untouched, QueueMove
<1> QED
  BY <1>1, <1>2, <1>3, <1>4, <1>5, <1>6, <1>7, <1>8, <1>9 DEF Next

\* Nothing travels that was not stored first, replies are true, and the
\* client's books agree with the backend's.
THEOREM Invariance == Spec => []IInv
BY InitIInv, NextIInv, PTL DEF Spec

\* What the client counts as synced is in the backend's database, for every
\* number of records, batches, attempts, faults and restarts.
THEOREM SyncedRecordsAreCommitted == Spec => []SyncedIsCommitted
<1>1. IInv => SyncedIsCommitted
  BY DEF IInv
<1> QED
  BY <1>1, Invariance, PTL

-----------------------------------------------------------------------------
(* The delivery implements the contract *)

\* The records that a step of the backend commits.
Committing(m) ==
    /\ Handled(m)
    /\ receipts' = receipts \cup Items(m)
    /\ UNCHANGED store

Bookkeeping == UNCHANGED <<store, receipts>>

LEMMA StepsOfContract ==
    ASSUME [Next]_vars
    PROVE  \/ Bookkeeping
           \/ \E r \in Records : Stored(r)
           \/ \E m \in Msgs : AckCommitted(m) \/ Committing(m)
<1> USE DEF Bookkeeping, serverVars
<1>1. CASE \E r \in Records : Store(r) \/ StoreFinal(r)
  BY <1>1 DEF Store, StoreFinal
<1>2. CASE \E r \in Records : ProducerStep(r)
  BY <1>2 DEF ProducerStep, ProducerCheck, ProducerPrepare, ProducerPublish, ProducerPublished,
              ProducerCancelled, ProducerFind, ProducerFail
<1>3. CASE PumpStep
  BY <1>3 DEF PumpStep, PumpFrame, PumpStart, PumpDeadlines, PumpSelect, PumpReplay, PumpReplayDone,
              PumpPublish, PumpPublished, PumpCancelled, PumpFind, PumpFail, SyncRead, SyncActive,
              SyncDead, SyncCreate, SyncOutOfIds, SyncPrepare
<1>4. CASE HandlerStep
  BY <1>4 DEF HandlerStep, AckRetryable, AckPermanent, Received, HandlerComplete
<1>5. CASE \E m \in Msgs : ServerStep(m)
  BY <1>5 DEF ServerStep, ServerCommit, ServerInterrupted, ServerBusy, ServerReject, ServerLose,
              ServerFrame, Committing
<1>6. CASE \E m \in Msgs : Elapse(m) \/ Age(m) \/ Operator(m)
  BY <1>6 DEF Elapse, Age, Operator, QueueOnly
<1>7. CASE Connect \/ Drop \/ RestartConnection
  BY <1>7 DEF Connect, Drop, RestartConnection
<1>8. CASE Stop \/ Stopped \/ Crash \/ Restart
  BY <1>8 DEF Stop, Stopped, Crash, Restart, ProcessGone
<1>9. CASE Approve \/ UNCHANGED vars
  BY <1>9 DEF Approve, vars
<1> QED
  BY <1>1, <1>2, <1>3, <1>4, <1>5, <1>6, <1>7, <1>8, <1>9 DEF Next

View == [r \in Records |-> Progress(r)]

LEMMA StepImplements ==
    ASSUME IInv, IInv', [Next]_vars
    PROVE  [Contract!Next]_View
<1>1. CASE Bookkeeping
  BY <1>1 DEF Bookkeeping, View, Progress
<1>2. ASSUME NEW r \in Records, Stored(r) PROVE Contract!Record(r)
  <2>1. r \notin receipts /\ UNCHANGED receipts
    BY <1>2 DEF IInv, ReceiptsDurable, Stored_, Stored, serverVars
  <2>2. \A s \in Records : store'[s] = IF s = r THEN "unsynced" ELSE store[s]
    BY <1>2 DEF IInv, Shapes, Stored
  <2>3. Progress(r) = "none" /\ Progress(r)' = "pending"
        /\ \A s \in Records \ {r} : Progress(s)' = Progress(s)
    BY <1>2, <2>1, <2>2 DEF Stored, Progress
  <2> QED
    BY <2>3 DEF Contract!Record, Contract!Moved
<1>3. ASSUME NEW m \in Msgs, AckCommitted(m) PROVE [Contract!Next]_View
  <2>1. CASE m \notin Q!Queued
    BY <1>3, <2>1, <1>1 DEF AckCommitted, Received, serverVars, Bookkeeping
  <2>2. CASE m \in Q!Queued
    <3> DEFINE S == {r \in Records : r \in Items(m) /\ store[r] # "synced"}
    <3>1. \A r \in Records : store'[r] = IF r \in Items(m) THEN "synced" ELSE store[r]
      BY <1>3, <2>2 DEF AckCommitted, MarkSynced
    <3>2. UNCHANGED receipts
      BY <1>3 DEF AckCommitted, Received, serverVars
    <3>3. \A r \in Records : r \in Items(m) => r \in receipts
      BY <3>1, <3>2 DEF IInv, SyncedIsCommitted
    <3>4. \A r \in S : Progress(r) = "committed" /\ Progress(r)' = "confirmed"
      BY <3>1, <3>2, <3>3 DEF Progress
    <3>5. \A r \in Records \ S : Progress(r)' = Progress(r)
      BY <3>1, <3>2 DEF Progress
    <3>6. Contract!Confirm(S)
      BY <3>4, <3>5 DEF Contract!Confirm, Contract!Moved
    <3> QED
      BY <3>6 DEF Contract!Next
  <2> QED
    BY <2>1, <2>2
<1>4. ASSUME NEW m \in Msgs, Committing(m) PROVE [Contract!Next]_View
  <2> DEFINE S == {r \in Records : r \in Items(m) /\ r \notin receipts}
  <2>1. m \in Known
    BY <1>4, DeliveryAssumption DEF IInv, Durable, NetworkDurable, Committing, Handled
  <2>2. \A r \in S : store[r] = "unsynced"
    BY <2>1, TravelsStored DEF IInv, Shapes, SyncedIsCommitted, Stored_
  <2>3. \A r \in S : Progress(r) = "pending" /\ Progress(r)' = "committed"
    BY <1>4, <2>2 DEF Committing, Progress
  <2>4. \A r \in Records \ S : Progress(r)' = Progress(r)
    BY <1>4 DEF Committing, Progress
  <2>5. Contract!Commit(S)
    BY <2>3, <2>4 DEF Contract!Commit, Contract!Moved
  <2> QED
    BY <2>5 DEF Contract!Next
<1> QED
  BY <1>1, <1>2, <1>3, <1>4, StepsOfContract DEF Contract!Next

\* The client, the network and the backend together implement the contract:
\* stored, then committed, then confirmed, and never back.
THEOREM DeliveryImplementsContract == Spec => ImplementsContract
<1>1. Init => Contract!Init
  BY DEF Init, Contract!Init, Progress
<1>2. IInv /\ IInv' /\ [Next]_vars => [Contract!Next]_View
  BY StepImplements
<1> QED
  BY <1>1, <1>2, Invariance, PTL DEF Spec, ImplementsContract, Contract!Spec, View
=============================================================================
