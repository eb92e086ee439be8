--------------------------- MODULE EdgeAgentProofs ----------------------------
(***************************************************************************)
(* Proofs about EdgeAgent with its API, for every set of bundles, runs and *)
(* requests, every order of batches and every number of troubles.          *)
(*                                                                         *)
(* The argument: whatever the agent does to the API is to put a request    *)
(* into a free place or to free one (ClientStep), and no step of the API   *)
(* takes an object, the payload of a landing, a run that succeeded or a    *)
(* checkpoint back (Kept).  So what a request has reached stays true while *)
(* others of the same run overtake it (RequestsAreTrue), and an answer     *)
(* still means what it said when the agent reads it (LoopsAreTrue).        *)
(***************************************************************************)
EXTENDS EdgeAgent, TLAPS

Succeeded(b) == run[RunOf[b]] = [bundle |-> b, state |-> "succeeded"]

\* What each step of a request rests on, until it is answered.
RequestTrue(q) ==
    LET b == req[q].bundle
    IN  /\ req[q].at = "land" => b \in blob
        /\ req[q].at \in {"ingest", "record", "accept", "fail"} => Landed(b)
        /\ req[q].at \in {"accept", "ok"} => Succeeded(b)

RequestsAreTrue == \A q \in Requests : RequestTrue(q)

RunsNameTheirBundle == \A r \in Runs : run[r].state = "succeeded" => run[r].bundle # None

TablesAreTrue ==
    RequestsAreTrue /\ RunsNameTheirBundle /\ RunsHaveEvidence /\ AcceptedIsIngested /\ CompletedOnce

\* What the agent's loops rest on; requests with its batches come from its queue.
LoopsAreTrue ==
    /\ poll.at = "archived" => poll.batch \in archived
    /\ poll.at # "idle" => Earlier[poll.batch] \subseteq passed
    /\ delivery.at # "idle" => delivery.batch \in passed
    /\ delivery.at = "posted" => req[delivery.request].at # "free"
                                 /\ req[delivery.request].bundle = delivery.batch
    /\ delivery.at = "answered" => Succeeded(delivery.batch)
    /\ \A b \in Batches : queue[b] # "absent" => b \in passed
    /\ \A q \in Requests : req[q].at # "free" /\ req[q].bundle \in Batches => req[q].bundle \in passed

IInv == TypeOK /\ TablesAreTrue /\ LoopsAreTrue /\ CheckpointIsCovered /\ SentIsIngested

-----------------------------------------------------------------------------
(* Types *)

LEMMA VacantIsFree ==
    ASSUME HasVacancy
    PROVE  Vacant \in Requests /\ req[Vacant] = Free
BY DEF HasVacancy, Vacant

LEMMA InitTypeOK == Init => TypeOK
BY RawIngestAssumption
   DEF Init, IngestInit, TypeOK, IngestTypeOK, NoLanding, Landing, NoRun, Run, Free, Request,
       NoPoll, Poll, NoDelivery, Delivery, QueueStates

\* A request changes its step, and only its step.
LEMMA ToTyped ==
    ASSUME req \in [Requests -> Request], NEW q \in Requests, req[q].at # "free",
           NEW at \in Steps \cup Answers, To(q, at)
    PROVE  /\ req' \in [Requests -> Request]
           /\ req'[q] = [at |-> at, bundle |-> req[q].bundle]
           /\ req[q].bundle \in Bundles
           /\ \A p \in Requests \ {q} : req'[p] = req[p]
<1>1. req[q] \in [at : Steps \cup Answers, bundle : Bundles]
  BY DEF Request
<1> QED
  BY <1>1 DEF Request, To

LEMMA ArrivingTyped ==
    ASSUME req \in [Requests -> Request], HasVacancy, NEW b \in Bundles, req' = Arriving(b)
    PROVE  /\ req' \in [Requests -> Request]
           /\ req'[Vacant] = [at |-> "find", bundle |-> b]
           /\ \A p \in Requests \ {Vacant} : req'[p] = req[p]
BY VacantIsFree DEF Arriving, Request, Steps, Free

LEMMA TablesTyped ==
    ASSUME IngestTypeOK, NEW b \in Bundles
    PROVE  /\ \A s \in {"received", "accepted", "failed"} : Close(b, s) => landing' \in [Runs -> Landing]
           /\ Land(b) => landing' \in [Runs -> Landing]
           /\ Ingested(b) => run' \in [Runs -> Run] /\ completed' \in [Runs -> Nat]
           /\ Failed(b) => run' \in [Runs -> Run]
           /\ RunOf[b] \in Runs
<1> USE DEF IngestTypeOK
<1>1. RunOf[b] \in Runs
  BY RawIngestAssumption
<1>2. ASSUME NEW s \in {"received", "accepted", "failed"}, Close(b, s)
      PROVE  landing' \in [Runs -> Landing]
  BY <1>1, <1>2 DEF Close, Landing
<1>3. Land(b) => landing' \in [Runs -> Landing]
  BY <1>1 DEF Land, Landing
<1>4. Ingested(b) => run' \in [Runs -> Run]
  BY <1>1 DEF Ingested, Run
<1>5. Ingested(b) => completed' \in [Runs -> Nat]
  BY <1>1 DEF Ingested
<1>6. Failed(b) => run' \in [Runs -> Run]
  BY <1>1 DEF Failed, Run
<1> QED
  BY <1>1, <1>2, <1>3, <1>4, <1>5, <1>6

LEMMA ServerTyped ==
    ASSUME IngestTypeOK, ServerNext
    PROVE  IngestTypeOK'
<1> USE DEF IngestTypeOK
<1>1. CASE ServerCrash
  BY <1>1, RawIngestAssumption DEF ServerCrash, Trouble, Request, Steps, Answers
<1>2. ASSUME NEW q \in Requests, HandlerStep(q) \/ CallFails(q)
      PROVE  IngestTypeOK'
  <2> DEFINE b == req[q].bundle
  <2>0. req[q].at \in Steps /\ b \in Bundles
    BY <1>2 DEF HandlerStep, Find, Put, LandRun, Ingest, RecordFailedRun, Accept, Fail, CallFails,
                Steps, Request
  <2>1. ASSUME NEW at \in Steps \cup Answers, To(q, at)
        PROVE  req' \in [Requests -> Request]
    BY <2>0, <2>1, ToTyped DEF Steps
  <2> HIDE DEF b
  <2>2. CASE Find(q)
    BY <2>2, <2>1 DEF Find, Steps, Answers
  <2>3. CASE Put(q)
    BY <2>3, <2>1, <2>0 DEF Put, Steps, Answers, b
  <2>4. CASE LandRun(q)
    BY <2>4, <2>1, <2>0, TablesTyped DEF LandRun, Steps, Answers, b
  <2>5. CASE Ingest(q)
    BY <2>5, <2>1, <2>0, TablesTyped DEF Ingest, Steps, Answers, b
  <2>6. CASE RecordFailedRun(q)
    BY <2>6, <2>1, <2>0, TablesTyped DEF RecordFailedRun, Steps, Answers, b
  <2>7. CASE Accept(q)
    BY <2>7, <2>1, <2>0, TablesTyped DEF Accept, Steps, Answers, b
  <2>8. CASE Fail(q)
    BY <2>8, <2>1, <2>0, TablesTyped DEF Fail, Steps, Answers, b
  <2>9. CASE CallFails(q)
    <3>1. AfterError(req[q].at) \in Steps \cup Answers
      BY <2>0 DEF AfterError, Steps, Answers
    <3>2. req' \in [Requests -> Request]
      BY <2>9, <3>1, <2>1 DEF CallFails
    <3>3. troubles' \in Nat
      BY <2>9, RawIngestAssumption DEF CallFails, Trouble
    <3> QED
      BY <2>9, <3>2, <3>3, <2>0, TablesTyped DEF CallFails, b
  <2> QED
    BY <1>2, <2>2, <2>3, <2>4, <2>5, <2>6, <2>7, <2>8, <2>9 DEF HandlerStep
<1> QED
  BY <1>1, <1>2 DEF ServerNext

\* What a step of the agent is to the API: a request put into a free place, or freed.
ClientStep ==
    /\ UNCHANGED <<blob, landing, run, completed>>
    /\ troubles' \in Nat
    /\ \/ UNCHANGED req
       \/ HasVacancy /\ \E b \in Bundles : (b \in Batches => b \in passed) /\ req' = Arriving(b)
       \/ \E q \in Requests : req' = [req EXCEPT ![q] = Free]

LEMMA AgentIsClient ==
    ASSUME TypeOK, LoopsAreTrue, [Next]_vars
    PROVE  ClientStep \/ (ServerNext /\ UNCHANGED edgeVars)
<1> USE DEF ClientStep, ingestVars
<1>1. troubles \in Nat /\ (Trouble => troubles' \in Nat)
  BY DEF TypeOK, IngestTypeOK, Trouble
<1>2. CASE PollStep \/ PollFails
  BY <1>1, <1>2 DEF PollStep, Archive, Enqueue, Read, PollFails
<1>3. CASE Claim \/ MarkSent \/ Release \/ UpdateFails
  BY <1>1, <1>3 DEF Claim, MarkSent, Release, UpdateFails
<1>4. CASE Post
  <2>1. delivery.batch \in passed /\ passed \subseteq Batches /\ Batches \subseteq Bundles
    BY <1>4, EdgeAgentAssumption DEF Post, LoopsAreTrue, TypeOK
  <2> QED
    BY <1>4, <1>1, <2>1 DEF Post
<1>5. CASE DeliveryFails
  <2>1. delivery.at = "posted" => delivery.request \in Requests
    BY DEF TypeOK, Delivery
  <2> QED
    BY <1>5, <1>1, <2>1 DEF DeliveryFails
<1>6. CASE Stop \/ Shutdown \/ Crash \/ Start
  BY <1>1, <1>6 DEF Stop, Shutdown, Crash, Start
<1>7. ASSUME NEW b \in Batches, DelayEnds(b) \/ LeaseEnds(b)
      PROVE  ClientStep
  BY <1>1, <1>7 DEF DelayEnds, LeaseEnds
<1>8. ASSUME NEW b \in Bundles \ Batches, OtherClient(b)
      PROVE  ClientStep
  BY <1>1, <1>8 DEF OtherClient
<1>9. ASSUME NEW q \in Requests, Answer(q)
      PROVE  ClientStep
  BY <1>1, <1>9 DEF Answer
<1>10. CASE UNCHANGED vars
  BY <1>1, <1>10 DEF vars
<1> QED
  BY <1>2, <1>3, <1>4, <1>5, <1>6, <1>7, <1>8, <1>9, <1>10 DEF Next, DeliveryStep

LEMMA ClientTyped ==
    ASSUME IngestTypeOK, ClientStep
    PROVE  IngestTypeOK'
<1>1. req' \in [Requests -> Request]
  BY ArrivingTyped DEF IngestTypeOK, ClientStep, Request, Free
<1> QED
  BY <1>1 DEF IngestTypeOK, ClientStep

\* The order of due batches.
DueOK(d, qu) ==
    /\ d \in Seq(Batches)
    /\ \A i \in DOMAIN d :
        qu[d[i]] = "queued" /\ \A j \in DOMAIN d : d[i] = d[j] => i = j

LEMMA DueGrows ==
    ASSUME NEW d, NEW qu, NEW new, NEW b \in Batches, DueOK(d, qu),
           \A i \in DOMAIN d : d[i] # b,
           new[b] = "queued", \A c \in Batches \ {b} : new[c] = qu[c]
    PROVE  DueOK(Append(d, b), new)
BY DEF DueOK

LEMMA DueShrinks ==
    ASSUME NEW d, NEW qu, NEW new, DueOK(d, qu), d # <<>>,
           \A c \in Batches \ {Head(d)} : new[c] = qu[c]
    PROVE  /\ DueOK(Tail(d), new)
           /\ Head(d) \in Batches /\ qu[Head(d)] = "queued"
<1>1. /\ d \in Seq(Batches) /\ Len(d) > 0 /\ Head(d) = d[1] /\ 1 \in DOMAIN d
      /\ Tail(d) \in Seq(Batches) /\ DOMAIN Tail(d) = 1..(Len(d) - 1)
      /\ \A i \in DOMAIN Tail(d) : i + 1 \in DOMAIN d /\ Tail(d)[i] = d[i + 1]
  BY DEF DueOK
<1>2. \A i \in DOMAIN Tail(d) : d[i + 1] # d[1]
  BY <1>1 DEF DueOK
<1> QED
  BY <1>1, <1>2 DEF DueOK

LEMMA DueKept ==
    ASSUME NEW d, NEW qu, NEW new, NEW b, DueOK(d, qu), qu[b] # "queued",
           \A c \in Batches \ {b} : new[c] = qu[c]
    PROVE  DueOK(d, new)
BY DEF DueOK

\* The agent's part of TypeOK.
AgentTypeOK ==
    /\ agent \in {"running", "draining", "down"}
    /\ poll \in Poll /\ (poll.at # "idle" => poll.batch \in Batches)
    /\ archived \subseteq Batches
    /\ passed \subseteq Batches
    /\ queue \in [Batches -> QueueStates]
    /\ DueOK(due, queue)
    /\ delivery \in Delivery
    /\ delivery.at # "idle" => delivery.batch \in Batches
    /\ delivery.at = "posted" => delivery.request \in Requests

LEMMA TypeParts == TypeOK <=> IngestTypeOK /\ AgentTypeOK
BY DEF TypeOK, AgentTypeOK, DueOK

LEMMA AgentTyped ==
    ASSUME TypeOK, [Next]_vars
    PROVE  AgentTypeOK'
<1>0. AgentTypeOK /\ IngestTypeOK
  BY TypeParts
<1>b. /\ poll.at # "idle" => poll.batch \in Batches
      /\ delivery.at # "idle" => delivery.batch \in Batches
      /\ delivery.at = "posted" => delivery.request \in Requests
  BY <1>0 DEF AgentTypeOK, Poll, Delivery
<1>c. /\ NoPoll \in Poll /\ NoPoll.at = "idle"
      /\ NoDelivery \in Delivery /\ NoDelivery.at = "idle"
      /\ \A b \in Batches, at \in {"claimed", "answered", "failed"} :
            /\ Holding(at, b) \in Delivery /\ Holding(at, b).at = at
            /\ Holding(at, b).batch = b
  BY DEF NoPoll, Poll, NoDelivery, Delivery, Holding
<1>1. ASSUME NEW b \in Batches, Read(b)
      PROVE  AgentTypeOK'
  BY <1>1, <1>0 DEF Read, AgentTypeOK, Poll
<1>2. CASE Archive
  BY <1>2, <1>0, <1>b DEF Archive, AgentTypeOK, Poll
<1>3. CASE Enqueue
  <2> DEFINE b == poll.batch
  <2>1. b \in Batches
    BY <1>3, <1>b DEF Enqueue
  <2>2. CASE queue[b] = "absent"
    <3>1. \A i \in DOMAIN due : due[i] # b
      BY <1>0, <2>2 DEF AgentTypeOK, DueOK
    <3>2. queue' = [queue EXCEPT ![b] = "queued"] /\ due' = Append(due, b) /\ passed' = passed \cup {b}
      BY <1>3, <2>2 DEF Enqueue, Enqueued
    <3>3. DueOK(due', queue')
      <4>1. queue'[b] = "queued" /\ \A c \in Batches \ {b} : queue'[c] = queue[c]
        BY <1>0, <2>1, <3>2 DEF AgentTypeOK
      <4>2. DueOK(due, queue)
        BY <1>0 DEF AgentTypeOK
      <4> QED
        BY <2>1, <3>1, <3>2, <4>1, <4>2, DueGrows
    <3> QED
      BY <1>0, <1>3, <1>c, <2>1, <3>2, <3>3 DEF AgentTypeOK, QueueStates, Enqueue
  <2>3. CASE queue[b] # "absent"
    BY <1>3, <1>0, <1>c, <2>3 DEF Enqueue, Enqueued, AgentTypeOK
  <2> QED
    BY <2>2, <2>3
<1>4. CASE PollFails
  BY <1>4, <1>0, <1>c DEF PollFails, AgentTypeOK
<1>5. CASE Claim
  <2> DEFINE b == Head(due)
  <2>1. queue' = [queue EXCEPT ![b] = "sending"] /\ due' = Tail(due) /\ delivery' = Holding("claimed", b)
    BY <1>5 DEF Claim
  <2>2. b \in Batches /\ DueOK(due', queue')
    <3>1. DueOK(due, queue) /\ due # <<>>
      BY <1>5, <1>0 DEF AgentTypeOK, Claim
    <3>2. \A c \in Batches \ {b} : queue'[c] = queue[c]
      BY <1>0, <2>1 DEF AgentTypeOK
    <3> QED
      BY <2>1, <3>1, <3>2, DueShrinks
  <2> QED
    BY <1>5, <1>0, <1>c, <2>1, <2>2 DEF AgentTypeOK, Claim, QueueStates
<1>6. CASE Post
  BY <1>6, <1>0, <1>b, VacantIsFree DEF Post, AgentTypeOK, Delivery
<1>7. ASSUME NEW q \in Requests, Answer(q)
      PROVE  AgentTypeOK'
  <2>1. AfterAnswer(req[q].at) \in {"answered", "failed"}
    BY DEF AfterAnswer
  <2>2. CASE Awaited(q)
    BY <1>7, <1>0, <1>b, <1>c, <2>1, <2>2 DEF Answer, Awaited, AgentTypeOK
  <2>3. CASE ~Awaited(q)
    BY <1>7, <1>0, <2>3 DEF Answer, AgentTypeOK
  <2> QED
    BY <2>2, <2>3
<1>8. CASE DeliveryFails
  BY <1>8, <1>0, <1>b, <1>c DEF DeliveryFails, AgentTypeOK
<1>9. CASE MarkSent \/ Release
  <2> DEFINE b == delivery.batch
  <2>1. b \in Batches
    BY <1>9, <1>b DEF MarkSent, Release
  <2>2. DueOK(due', queue') /\ queue' \in [Batches -> QueueStates]
    <3>1. CASE queue[b] = "sending"
      <4>1. \A c \in Batches \ {b} : queue'[c] = queue[c]
        BY <1>9, <1>0, <2>1 DEF MarkSent, Release, AgentTypeOK
      <4>2. due' = due
        BY <1>9 DEF MarkSent, Release
      <4>3. DueOK(due', queue')
        BY <1>0, <3>1, <4>1, <4>2, DueKept DEF AgentTypeOK
      <4> QED
        BY <1>9, <1>0, <4>3, <2>1 DEF MarkSent, Release, AgentTypeOK, QueueStates
    <3>2. CASE queue[b] # "sending"
      <4>1. queue' = queue /\ due' = due
        BY <1>9, <1>0, <2>1, <3>2 DEF MarkSent, Release, AgentTypeOK
      <4> QED
        BY <4>1, <1>0 DEF AgentTypeOK
    <3> QED
      BY <3>1, <3>2
  <2>3. delivery' = NoDelivery \/ delivery' = Holding("failed", b)
    BY <1>9 DEF MarkSent, Release
  <2> QED
    BY <1>9, <1>0, <1>c, <2>1, <2>2, <2>3 DEF MarkSent, Release, AgentTypeOK
<1>10. CASE UpdateFails
  <2>1. delivery.batch \in Batches /\ (delivery' = NoDelivery \/ delivery' = Holding("failed", delivery.batch))
    BY <1>10, <1>b DEF UpdateFails
  <2> QED
    BY <1>10, <1>0, <1>c, <2>1 DEF UpdateFails, AgentTypeOK
<1>11. CASE Stop \/ Shutdown \/ Crash \/ Start
  BY <1>11, <1>0, <1>c DEF Stop, Shutdown, Crash, Start, AgentTypeOK
<1>12. ASSUME NEW b \in Batches, DelayEnds(b)
      PROVE  AgentTypeOK'
  <2>1. DueOK(due', queue')
    BY <1>12, <1>0, DueGrows DEF DelayEnds, IsDue, AgentTypeOK
  <2> QED
    BY <1>12, <1>0, <2>1 DEF DelayEnds, AgentTypeOK
<1>13. ASSUME NEW b \in Batches, LeaseEnds(b)
      PROVE  AgentTypeOK'
  <2>1. \A i \in DOMAIN due : due[i] # b
    BY <1>13, <1>0 DEF LeaseEnds, AgentTypeOK, DueOK
  <2>2. DueOK(due', queue')
    <3>1. queue'[b] = "queued" /\ \A c \in Batches \ {b} : queue'[c] = queue[c]
      BY <1>13, <1>0 DEF LeaseEnds, AgentTypeOK
    <3>2. DueOK(due, queue) /\ due' = Append(due, b)
      BY <1>13, <1>0 DEF LeaseEnds, AgentTypeOK
    <3> QED
      BY <2>1, <3>1, <3>2, DueGrows
  <2> QED
    BY <1>13, <1>0, <2>2 DEF LeaseEnds, AgentTypeOK, QueueStates
<1>14. CASE UNCHANGED edgeVars
  BY <1>14, <1>0 DEF edgeVars, AgentTypeOK
<1> QED
  BY <1>1, <1>2, <1>3, <1>4, <1>5, <1>6, <1>7, <1>8, <1>9, <1>10, <1>11, <1>12, <1>13, <1>14
  DEF Next, PollStep, DeliveryStep, OtherClient, vars

-----------------------------------------------------------------------------
(* The tables of the API *)

\* No step takes back an object, what has landed, a run that succeeded or a checkpoint.
Kept ==
    /\ blob \subseteq blob' /\ passed \subseteq passed'
    /\ \A r \in Runs : landing[r].bundle # None => landing'[r].bundle = landing[r].bundle
    /\ \A r \in Runs : run[r].state = "succeeded" => run'[r] = run[r]

\* The changes of the tables that requests make, on what they rest on.
LEMMA LandKeeps ==
    ASSUME IngestTypeOK, TablesAreTrue, NEW b \in Bundles, b \in blob,
           landing[RunOf[b]].bundle = None, Land(b),
           UNCHANGED <<blob, run, completed>>
    PROVE  /\ landing'[RunOf[b]].bundle = b
           /\ \A r \in Runs : landing[r].bundle # None => landing'[r] = landing[r]
           /\ (RunsNameTheirBundle /\ RunsHaveEvidence /\ AcceptedIsIngested /\ CompletedOnce)'
<1>1. RunOf[b] \in Runs /\ landing' = [landing EXCEPT ![RunOf[b]] = [bundle |-> b, state |-> "received"]]
  BY RawIngestAssumption DEF Land
<1>2. landing \in [Runs -> Landing]
  BY DEF IngestTypeOK
<1>3. /\ landing'[RunOf[b]] = [bundle |-> b, state |-> "received"]
      /\ \A r \in Runs \ {RunOf[b]} : landing'[r] = landing[r]
  BY <1>1, <1>2
<1> QED
  BY <1>1, <1>3, RawIngestAssumption
     DEF TablesAreTrue, RunsNameTheirBundle, RunsHaveEvidence, AcceptedIsIngested, CompletedOnce

LEMMA CloseKeeps ==
    ASSUME IngestTypeOK, TablesAreTrue, NEW b \in Bundles, NEW s, Close(b, s),
           s = "accepted" => Succeeded(b),
           UNCHANGED <<blob, run, completed>>
    PROVE  /\ \A r \in Runs : landing'[r].bundle = landing[r].bundle
           /\ (RunsNameTheirBundle /\ RunsHaveEvidence /\ AcceptedIsIngested /\ CompletedOnce)'
<1>1. RunOf[b] \in Runs /\ landing' = [landing EXCEPT ![RunOf[b]].state = s]
  BY RawIngestAssumption DEF Close
<1>2. landing \in [Runs -> Landing]
  BY DEF IngestTypeOK
<1>3. /\ landing'[RunOf[b]].bundle = landing[RunOf[b]].bundle /\ landing'[RunOf[b]].state = s
      /\ \A r \in Runs \ {RunOf[b]} : landing'[r] = landing[r]
  BY <1>1, <1>2 DEF Landing
<1> QED
  BY <1>1, <1>3
     DEF TablesAreTrue, RunsNameTheirBundle, RunsHaveEvidence, AcceptedIsIngested, CompletedOnce, Succeeded

LEMMA IngestedKeeps ==
    ASSUME IngestTypeOK, TablesAreTrue, NEW b \in Bundles, Landed(b), ~Processed(b), Ingested(b),
           UNCHANGED <<blob, landing>>
    PROVE  /\ Succeeded(b)'
           /\ \A r \in Runs \ {RunOf[b]} : run'[r] = run[r]
           /\ (RunsNameTheirBundle /\ RunsHaveEvidence /\ AcceptedIsIngested /\ CompletedOnce)'
<1>1. RunOf[b] \in Runs /\ b # None
  BY RawIngestAssumption
<1>2. run \in [Runs -> Run] /\ completed \in [Runs -> Nat]
  BY DEF IngestTypeOK
<1>3. /\ run'[RunOf[b]] = [bundle |-> b, state |-> "succeeded"]
      /\ \A r \in Runs \ {RunOf[b]} : run'[r] = run[r]
      /\ completed'[RunOf[b]] = completed[RunOf[b]] + 1
      /\ \A r \in Runs \ {RunOf[b]} : completed'[r] = completed[r]
  BY <1>1, <1>2 DEF Ingested
<1>4. completed[RunOf[b]] = 0
  BY <1>1 DEF TablesAreTrue, CompletedOnce, Processed
<1> QED
  BY <1>1, <1>3, <1>4
     DEF TablesAreTrue, RunsNameTheirBundle, RunsHaveEvidence, AcceptedIsIngested, CompletedOnce,
         Succeeded, Landed

LEMMA FailedKeeps ==
    ASSUME IngestTypeOK, TablesAreTrue, NEW b \in Bundles, Landed(b), Failed(b),
           UNCHANGED <<blob, landing, completed>>
    PROVE  /\ \A r \in Runs : run[r].state = "succeeded" => run'[r] = run[r]
           /\ \A r \in Runs : run'[r].state = "succeeded" => run[r].state = "succeeded"
           /\ (RunsNameTheirBundle /\ RunsHaveEvidence /\ AcceptedIsIngested /\ CompletedOnce)'
<1>1. RunOf[b] \in Runs
  BY RawIngestAssumption
<1>2. run \in [Runs -> Run]
  BY DEF IngestTypeOK
<1>3. /\ run'[RunOf[b]] = IF Processed(b) THEN run[RunOf[b]] ELSE [bundle |-> b, state |-> "failed"]
      /\ \A r \in Runs \ {RunOf[b]} : run'[r] = run[r]
  BY <1>1, <1>2 DEF Failed
<1> QED
  BY <1>1, <1>3
     DEF TablesAreTrue, RunsNameTheirBundle, RunsHaveEvidence, AcceptedIsIngested, CompletedOnce,
         Landed, Processed

\* Requests that make no step keep what they rest on.
LEMMA OthersKept ==
    ASSUME IngestTypeOK, Kept, NEW p \in Requests, RequestTrue(p), req'[p] = req[p]
    PROVE  RequestTrue(p)'
<1>1. req[p] \in Request
  BY DEF IngestTypeOK
<1>2. CASE req[p] = Free
  BY <1>2 DEF RequestTrue, Free
<1>3. CASE req[p].bundle \in Bundles
  <2>1. RunOf[req[p].bundle] \in Runs /\ req[p].bundle # None
    BY <1>3, RawIngestAssumption
  <2> QED
    BY <2>1 DEF RequestTrue, Kept, Landed, Succeeded
<1> QED
  BY <1>1, <1>2, <1>3 DEF Request, Free

LEMMA ServerKeeps ==
    ASSUME IngestTypeOK, TablesAreTrue, ServerNext, UNCHANGED passed
    PROVE  TablesAreTrue' /\ Kept
<1> DEFINE Rest == RunsNameTheirBundle /\ RunsHaveEvidence /\ AcceptedIsIngested /\ CompletedOnce
<1>0. Rest /\ RequestsAreTrue
  BY DEF TablesAreTrue
<1>1. CASE ServerCrash
  <2>1. Rest' /\ Kept
    BY <1>1, <1>0 DEF ServerCrash, Kept, RunsNameTheirBundle, RunsHaveEvidence, AcceptedIsIngested, CompletedOnce
  <2>2. ASSUME NEW p \in Requests
        PROVE  RequestTrue(p)'
    <3>1. CASE req[p].at \in Steps
      <4>1. req'[p] = [req[p] EXCEPT !.at = "error"]
        BY <1>1, <3>1 DEF ServerCrash
      <4>2. req'[p].at = "error"
        BY <4>1, <3>1 DEF IngestTypeOK, Request, Steps
      <4> QED
        BY <4>2 DEF RequestTrue
    <3>2. CASE req[p].at \notin Steps
      BY <1>1, <1>0, <2>1, <3>2, OthersKept DEF ServerCrash, RequestsAreTrue
    <3> QED
      BY <3>1, <3>2
  <2> QED
    BY <2>1, <2>2 DEF TablesAreTrue, RequestsAreTrue
<1>2. ASSUME NEW q \in Requests, HandlerStep(q) \/ CallFails(q)
      PROVE  TablesAreTrue' /\ Kept
  <2>0. PICK b : b = req[q].bundle
    OBVIOUS
  <2>1. /\ req[q].at \in Steps /\ b \in Bundles /\ RunOf[b] \in Runs /\ b # None
        /\ RequestTrue(q)
    BY <1>2, <1>0, <2>0, RawIngestAssumption
       DEF HandlerStep, Find, Put, LandRun, Ingest, RecordFailedRun, Accept, Fail, CallFails,
           Steps, Request, IngestTypeOK, RequestsAreTrue
  <2>2. ASSUME NEW at \in Steps \cup Answers, To(q, at), Kept, Rest',
               at = "land" => b \in blob',
               at \in {"ingest", "record", "accept", "fail"} => Landed(b)',
               at \in {"accept", "ok"} => Succeeded(b)'
        PROVE  TablesAreTrue' /\ Kept
    <3>1. /\ req'[q] = [at |-> at, bundle |-> b]
          /\ \A p \in Requests \ {q} : req'[p] = req[p]
      BY <2>0, <2>1, <2>2, ToTyped DEF IngestTypeOK, Steps
    <3>2. RequestTrue(q)'
      BY <3>1, <2>2 DEF RequestTrue, Landed, Succeeded
    <3>3. \A p \in Requests \ {q} : RequestTrue(p)'
      BY <3>1, <2>2, <1>0, OthersKept DEF RequestsAreTrue
    <3> QED
      BY <2>2, <3>2, <3>3 DEF TablesAreTrue, RequestsAreTrue
  <2>3. UNCHANGED <<blob, landing, run, completed>> => Kept /\ Rest'
    BY <1>0 DEF Kept, RunsNameTheirBundle, RunsHaveEvidence, AcceptedIsIngested, CompletedOnce
  <2>4. blob' = blob \cup {b} /\ UNCHANGED <<landing, run, completed>> => Kept /\ Rest'
    BY <1>0 DEF Kept, RunsNameTheirBundle, RunsHaveEvidence, AcceptedIsIngested, CompletedOnce
  <2>5. ASSUME b \in blob, landing[RunOf[b]].bundle = None, Land(b), UNCHANGED <<blob, run, completed>>
        PROVE  Kept /\ Rest' /\ Landed(b)'
    BY <2>1, <2>5, <1>0, LandKeeps DEF Kept, Landed
  <2>6. ASSUME NEW s, Close(b, s), s = "accepted" => Succeeded(b), UNCHANGED <<blob, run, completed>>
        PROVE  Kept /\ Rest' /\ (Landed(b) => Landed(b)') /\ (Succeeded(b) => Succeeded(b)')
    BY <2>1, <2>6, CloseKeeps DEF Kept, Landed, Succeeded
  <2>7. ASSUME Landed(b), ~Processed(b), Ingested(b), UNCHANGED <<blob, landing>>
        PROVE  Kept /\ Rest' /\ Landed(b)' /\ Succeeded(b)'
    BY <2>1, <2>7, IngestedKeeps DEF Kept, Landed, Processed
  <2>8. ASSUME Landed(b), Failed(b), UNCHANGED <<blob, landing, completed>>
        PROVE  Kept /\ Rest' /\ Landed(b)'
    <3>1. Rest' /\ \A r \in Runs : run[r].state = "succeeded" => run'[r] = run[r]
      <4> HIDE DEF Rest
      <4>1. (RunsNameTheirBundle /\ RunsHaveEvidence /\ AcceptedIsIngested /\ CompletedOnce)'
            /\ \A r \in Runs : run[r].state = "succeeded" => run'[r] = run[r]
        BY <2>1, <2>8, FailedKeeps
      <4> QED
        BY <4>1 DEF Rest
    <3> QED
      BY <2>8, <3>1 DEF Kept, Landed
  <2>9. Landed(b) /\ Processed(b) => Succeeded(b)
    <3>1. run[RunOf[b]] \in Run
      BY <2>1 DEF IngestTypeOK
    <3> QED
      BY <2>1, <1>0, <3>1 DEF Landed, Processed, Succeeded, RunsNameTheirBundle, RunsHaveEvidence, Run
  <2> HIDE DEF Rest
  <2>10. CASE Find(q)
    BY <2>0, <2>10, <2>1, <2>2, <2>3 DEF Find, Steps, Answers, Landed
  <2>11. CASE Put(q)
    BY <2>0, <2>11, <2>1, <2>2, <2>4 DEF Put, Steps, Answers
  <2>12. CASE LandRun(q)
    <3>1. b \in blob
      BY <2>0, <2>12, <2>1 DEF LandRun, RequestTrue
    <3>2. CASE landing[RunOf[b]].bundle = None
      <4>1. Land(b) /\ To(q, "ingest") /\ UNCHANGED <<blob, run, completed>>
        BY <2>0, <2>12, <3>2 DEF LandRun, Conflicts
      <4> QED
        BY <3>1, <3>2, <4>1, <2>2, <2>5 DEF Steps
    <3>3. CASE landing[RunOf[b]].bundle # None
      <4>1. UNCHANGED <<blob, landing, run, completed>>
        BY <2>0, <2>12, <3>3 DEF LandRun
      <4>2. To(q, "error") \/ (Landed(b) /\ To(q, "ingest"))
        BY <2>0, <2>12, <3>3, <2>1 DEF LandRun, Conflicts, Landed
      <4> QED
        BY <4>1, <4>2, <2>2, <2>3 DEF Steps, Answers, Landed
    <3> QED
      BY <3>2, <3>3
  <2>13. CASE Ingest(q)
    <3>1. Landed(b)
      BY <2>0, <2>13, <2>1 DEF Ingest, RequestTrue
    <3>2. CASE Processed(b)
      BY <2>0, <2>13, <3>1, <3>2, <2>2, <2>3, <2>9 DEF Ingest, Steps, Landed, Succeeded
    <3>3. CASE ~Processed(b) /\ b \in Invalid
      BY <2>0, <2>13, <3>1, <3>3, <2>2, <2>3 DEF Ingest, Steps, Landed
    <3>4. CASE ~Processed(b) /\ b \notin Invalid
      BY <2>0, <2>13, <3>1, <3>4, <2>2, <2>7 DEF Ingest, Steps
    <3> QED
      BY <3>2, <3>3, <3>4
  <2>14. CASE RecordFailedRun(q)
    BY <2>0, <2>14, <2>1, <2>2, <2>8 DEF RecordFailedRun, RequestTrue, Steps
  <2>15. CASE Accept(q)
    BY <2>0, <2>15, <2>1, <2>2, <2>6 DEF Accept, RequestTrue, Steps, Answers
  <2>16. CASE Fail(q)
    BY <2>0, <2>16, <2>1, <2>2, <2>6 DEF Fail, RequestTrue, Steps, Answers
  <2>17. CASE CallFails(q)
    <3> DEFINE at == AfterError(req[q].at)
    <3>1. /\ at \in {"error", "record", "fail"} /\ To(q, at)
          /\ at # "error" => Landed(b)
      BY <2>0, <2>17, <2>1 DEF CallFails, AfterError, RequestTrue, Steps
    <3>2. SUFFICES Kept /\ Rest' /\ (Landed(b) => Landed(b)')
      BY <3>1, <3>2, <2>2 DEF Steps, Answers
    <3>3. CASE UNCHANGED <<blob, landing, run, completed>>
      BY <3>3, <2>3 DEF Landed
    <3>4. CASE blob' = blob \cup {b} /\ UNCHANGED <<landing, run, completed>>
      BY <3>4, <2>4 DEF Landed
    <3>5. CASE req[q].at = "land" /\ landing[RunOf[b]].bundle = None /\ Land(b) /\ UNCHANGED <<blob, run, completed>>
      BY <2>0, <3>5, <2>1, <2>5 DEF RequestTrue
    <3>6. CASE req[q].at = "ingest" /\ ~Processed(b) /\ Ingested(b) /\ UNCHANGED <<blob, landing>>
      BY <2>0, <3>6, <2>1, <2>7 DEF RequestTrue
    <3>7. CASE req[q].at = "accept" /\ Close(b, "accepted") /\ UNCHANGED <<blob, run, completed>>
      BY <2>0, <3>7, <2>1, <2>6 DEF RequestTrue
    <3> QED
      BY <2>0, <2>17, <3>3, <3>4, <3>5, <3>6, <3>7 DEF CallFails
  <2> QED
    BY <1>2, <2>10, <2>11, <2>12, <2>13, <2>14, <2>15, <2>16, <2>17 DEF HandlerStep
<1> QED
  BY <1>1, <1>2 DEF ServerNext

LEMMA ClientKeeps ==
    ASSUME IngestTypeOK, TablesAreTrue, ClientStep, passed \subseteq passed'
    PROVE  TablesAreTrue' /\ Kept
<1>1. /\ Kept
      /\ (RunsNameTheirBundle /\ RunsHaveEvidence /\ AcceptedIsIngested /\ CompletedOnce)'
  BY DEF ClientStep, TablesAreTrue, Kept, RunsNameTheirBundle, RunsHaveEvidence, AcceptedIsIngested, CompletedOnce
<1>2. ASSUME NEW p \in Requests
      PROVE  RequestTrue(p)'
  <2>1. req'[p] = req[p] \/ req'[p].at \in {"find", "free"}
    <3>1. CASE UNCHANGED req
      BY <3>1
    <3>2. ASSUME HasVacancy, NEW b \in Bundles, req' = Arriving(b)
          PROVE  req'[p] = req[p] \/ req'[p].at = "find"
      <4>1. /\ req'[Vacant] = [at |-> "find", bundle |-> b]
            /\ \A o \in Requests \ {Vacant} : req'[o] = req[o]
        BY <3>2, ArrivingTyped DEF IngestTypeOK
      <4> QED
        BY <4>1
    <3>3. ASSUME NEW q \in Requests, req' = [req EXCEPT ![q] = Free]
          PROVE  req'[p] = req[p] \/ req'[p].at = "free"
      BY <3>3 DEF IngestTypeOK, Free
    <3> QED
      BY <3>1, <3>2, <3>3 DEF ClientStep
  <2>2. CASE req'[p] = req[p]
    BY <2>2, <1>1, OthersKept DEF TablesAreTrue, RequestsAreTrue
  <2>3. CASE req'[p].at \in {"find", "free"}
    BY <2>3 DEF RequestTrue
  <2> QED
    BY <2>1, <2>2, <2>3
<1> QED
  BY <1>1, <1>2 DEF TablesAreTrue, RequestsAreTrue

-----------------------------------------------------------------------------
(* The queue *)

\* How queue, archive and checkpoints move: one batch at a time, and never back.
QueueMoves ==
    /\ archived \subseteq archived'
    /\ \A b \in Batches :
        /\ queue[b] # "absent" => queue'[b] # "absent"
        /\ queue[b] = "sent" => queue'[b] = "sent"
        /\ queue'[b] = "sent" => queue[b] = "sent" \/ (delivery.at = "answered" /\ delivery.batch = b)
    /\ \/ passed' = passed /\ \A b \in Batches : queue[b] = "absent" => queue'[b] = "absent"
       \/ /\ poll.at = "archived" /\ passed' = passed \cup {poll.batch}
          /\ \A b \in Batches : queue'[b] = IF b = poll.batch THEN "queued" ELSE queue[b]

LEMMA QueueStep ==
    ASSUME TypeOK, [Next]_vars
    PROVE  QueueMoves
<1>0. queue \in [Batches -> QueueStates]
  BY DEF TypeOK
<1>1. ASSUME NEW b \in Batches, Read(b)
      PROVE  QueueMoves
  BY <1>1 DEF Read, QueueMoves
<1>2. CASE Archive \/ PollFails \/ Post \/ DeliveryFails \/ UpdateFails
  BY <1>2 DEF Archive, PollFails, Post, DeliveryFails, UpdateFails, QueueMoves
<1>3. CASE Enqueue
  <2>1. CASE queue[poll.batch] = "absent"
    BY <1>3, <1>0, <2>1 DEF Enqueue, Enqueued, QueueMoves
  <2>2. CASE queue[poll.batch] # "absent"
    BY <1>3, <2>2 DEF Enqueue, Enqueued, QueueMoves
  <2> QED
    BY <2>1, <2>2
<1>4. CASE Claim
  <2>1. Head(due) \in Batches /\ queue[Head(due)] = "queued"
    BY <1>4, DueShrinks DEF Claim, TypeOK, DueOK
  <2> QED
    BY <1>4, <1>0, <2>1 DEF Claim, QueueMoves
<1>5. CASE MarkSent
  BY <1>5, <1>0 DEF MarkSent, QueueMoves
<1>6. CASE Release
  BY <1>6, <1>0 DEF Release, QueueMoves
<1>7. CASE Stop \/ Shutdown \/ Crash \/ Start
  BY <1>7 DEF Stop, Shutdown, Crash, Start, QueueMoves
<1>8. ASSUME NEW b \in Batches, DelayEnds(b) \/ LeaseEnds(b)
      PROVE  QueueMoves
  BY <1>8, <1>0 DEF DelayEnds, LeaseEnds, QueueMoves
<1>9. CASE UNCHANGED edgeVars
  BY <1>9 DEF edgeVars, QueueMoves
<1>10. ASSUME NEW q \in Requests, Answer(q)
      PROVE  QueueMoves
  BY <1>10 DEF Answer, QueueMoves
<1> QED
  BY <1>1, <1>2, <1>3, <1>4, <1>5, <1>6, <1>7, <1>8, <1>9, <1>10
     DEF Next, PollStep, DeliveryStep, OtherClient, vars

-----------------------------------------------------------------------------
(* The loops *)

LEMMA ServerKeepsBundles ==
    ASSUME IngestTypeOK, ServerNext, NEW p \in Requests
    PROVE  req'[p].bundle = req[p].bundle /\ (req'[p].at = "free" <=> req[p].at = "free")
<1>1. CASE ServerCrash
  <2>1. req'[p] = IF req[p].at \in Steps THEN [req[p] EXCEPT !.at = "error"] ELSE req[p]
    BY <1>1 DEF ServerCrash
  <2>2. req[p].at \in Steps => req[p] \in [at : Steps \cup Answers, bundle : Bundles] /\ req[p].at # "free"
    BY DEF IngestTypeOK, Request, Steps
  <2> QED
    BY <2>1, <2>2
<1>2. ASSUME NEW q \in Requests, HandlerStep(q) \/ CallFails(q)
      PROVE  req'[p].bundle = req[p].bundle /\ (req'[p].at = "free" <=> req[p].at = "free")
  <2>1. /\ req[q].at \in Steps
        /\ \E at \in Steps \cup Answers : To(q, at)
    BY <1>2 DEF HandlerStep, Find, Put, LandRun, Ingest, RecordFailedRun, Accept, Fail, CallFails,
                AfterError, Steps, Answers
  <2>2. PICK at \in Steps \cup Answers : To(q, at)
    BY <2>1
  <2>3. /\ req'[q] = [at |-> at, bundle |-> req[q].bundle]
        /\ \A o \in Requests \ {q} : req'[o] = req[o]
    BY <2>1, <2>2, ToTyped DEF IngestTypeOK, Steps
  <2> QED
    BY <2>1, <2>3 DEF Steps, Answers
<1> QED
  BY <1>1, <1>2 DEF ServerNext

LEMMA LoopsStep ==
    ASSUME IInv, [Next]_vars, TypeOK', Kept
    PROVE  LoopsAreTrue'
<1>0. /\ TypeOK /\ IngestTypeOK /\ LoopsAreTrue /\ CheckpointIsCovered /\ RequestsAreTrue
      /\ req \in [Requests -> Request] /\ queue \in [Batches -> QueueStates]
  BY DEF IInv, TypeOK, TablesAreTrue, IngestTypeOK
<1>a. \A b \in Batches : Succeeded(b) => Succeeded(b)'
  BY RawIngestAssumption, EdgeAgentAssumption DEF Kept, Succeeded
<1>b. /\ poll.at # "idle" => poll.batch \in Batches
      /\ delivery.at # "idle" => delivery.batch \in Batches
      /\ delivery.at = "posted" => delivery.request \in Requests
      /\ delivery'.at = "posted" => delivery'.request \in Requests
      /\ passed \subseteq passed'
  BY <1>0 DEF TypeOK, Kept
<1>c. \A b \in Batches : queue'[b] # "absent" => b \in passed'
  BY <1>0, QueueStep DEF QueueMoves, LoopsAreTrue
<1>d. \A q \in Requests : req'[q].at # "free" /\ req'[q].bundle \in Batches => req'[q].bundle \in passed'
  <2>1. CASE ServerNext
    BY <1>0, <1>b, <2>1, ServerKeepsBundles DEF LoopsAreTrue
  <2>2. ASSUME ClientStep, NEW q \in Requests
        PROVE  req'[q].at # "free" /\ req'[q].bundle \in Batches => req'[q].bundle \in passed'
    <3>1. CASE UNCHANGED req
      BY <1>0, <1>b, <3>1 DEF LoopsAreTrue
    <3>2. ASSUME HasVacancy, NEW b \in Bundles, b \in Batches => b \in passed, req' = Arriving(b)
          PROVE  req'[q].at # "free" /\ req'[q].bundle \in Batches => req'[q].bundle \in passed'
      <4>1. req'[q] = [at |-> "find", bundle |-> b] \/ req'[q] = req[q]
        BY <1>0, <3>2, ArrivingTyped
      <4> QED
        BY <1>0, <1>b, <3>2, <4>1 DEF LoopsAreTrue
    <3>3. ASSUME NEW o \in Requests, req' = [req EXCEPT ![o] = Free]
          PROVE  req'[q].at # "free" /\ req'[q].bundle \in Batches => req'[q].bundle \in passed'
      <4>1. req'[q].at = "free" \/ req'[q] = req[q]
        BY <1>0, <3>3 DEF Free
      <4> QED
        BY <1>0, <1>b, <4>1 DEF LoopsAreTrue
    <3> QED
      BY <2>2, <3>1, <3>2, <3>3 DEF ClientStep
  <2> QED
    BY <1>0, <2>1, <2>2, AgentIsClient
<1> DEFINE PollTrue == /\ poll.at = "archived" => poll.batch \in archived
                       /\ poll.at # "idle" => Earlier[poll.batch] \subseteq passed
           DeliveryTrue == /\ delivery.at # "idle" => delivery.batch \in passed
                           /\ delivery.at = "posted" => req[delivery.request].at # "free"
                                                        /\ req[delivery.request].bundle = delivery.batch
                           /\ delivery.at = "answered" => Succeeded(delivery.batch)
<1>e. PollTrue /\ DeliveryTrue
  BY <1>0 DEF LoopsAreTrue
<1>f. PollTrue' /\ DeliveryTrue' => LoopsAreTrue'
  BY <1>c, <1>d DEF LoopsAreTrue
<1>g. UNCHANGED <<poll, archived>> => PollTrue'
  BY <1>b, <1>e
<1>h. UNCHANGED <<delivery, req>> => DeliveryTrue'
  BY <1>a, <1>b, <1>e
<1>i. delivery'.at = "idle" \/ (delivery'.at \in {"claimed", "failed"} /\ delivery'.batch \in passed') => DeliveryTrue'
  OBVIOUS
<1>j. /\ NoPoll.at = "idle" /\ NoDelivery.at = "idle"
      /\ \A at, b : Holding(at, b).at = at /\ Holding(at, b).batch = b
  BY DEF NoPoll, NoDelivery, Holding
<1>1. ASSUME NEW b \in Batches, Read(b)
      PROVE  LoopsAreTrue'
  <2>1. PollTrue'
    BY <1>1 DEF Read
  <2> QED
    BY <1>1, <1>f, <1>h, <2>1 DEF Read, ingestVars
<1>2. CASE Archive
  <2>1. poll'.at = "archived" /\ poll'.batch = poll.batch /\ archived' = archived \cup {poll.batch}
        /\ poll.at = "read" /\ UNCHANGED <<passed, delivery, req>>
    BY <1>2, <1>0 DEF Archive, TypeOK, Poll, ingestVars
  <2>2. PollTrue'
    BY <2>1, <1>e
  <2> QED
    BY <1>f, <1>h, <2>1, <2>2
<1>3. CASE Enqueue \/ PollFails
  <2>1. PollTrue'
    BY <1>3, <1>j DEF Enqueue, PollFails
  <2> QED
    BY <1>3, <1>f, <1>h, <2>1 DEF Enqueue, PollFails, ingestVars
<1>4. CASE Claim
  <2>1. Head(due) \in Batches /\ queue[Head(due)] = "queued"
    BY <1>4, <1>0, DueShrinks DEF Claim, TypeOK, DueOK
  <2>2. delivery'.at = "claimed" /\ delivery'.batch \in passed'
    BY <1>4, <1>0, <1>b, <1>j, <2>1 DEF Claim, LoopsAreTrue
  <2> QED
    BY <1>4, <1>f, <1>g, <1>i, <2>2 DEF Claim
<1>5. CASE Post
  <2>1. delivery.batch \in Batches /\ delivery.batch \in Bundles /\ delivery.batch \in passed
    BY <1>5, <1>b, <1>e, EdgeAgentAssumption DEF Post
  <2>2. req'[Vacant] = [at |-> "find", bundle |-> delivery.batch]
    BY <1>5, <1>0, <2>1, ArrivingTyped DEF Post
  <2>3. DeliveryTrue'
    BY <1>5, <1>b, <2>1, <2>2 DEF Post
  <2> QED
    BY <1>5, <1>f, <1>g, <2>3 DEF Post
<1>6. ASSUME NEW q \in Requests, Answer(q)
      PROVE  LoopsAreTrue'
  <2>1. CASE Awaited(q)
    <3>1. /\ delivery.batch \in Batches /\ delivery.batch \in passed' /\ req[q].bundle = delivery.batch
          /\ req[q].at = "ok" => Succeeded(delivery.batch)
      BY <2>1, <1>b, <1>e, <1>0 DEF Awaited, RequestsAreTrue, RequestTrue
    <3>2. delivery'.at = AfterAnswer(req[q].at) /\ delivery'.batch = delivery.batch
      BY <1>6, <2>1, <1>j DEF Answer
    <3>3. CASE req[q].at = "ok"
      BY <3>1, <3>2, <3>3, <1>a, <1>f, <1>g, <1>6 DEF AfterAnswer, Answer
    <3>4. CASE req[q].at # "ok"
      BY <3>1, <3>2, <3>4, <1>f, <1>g, <1>i, <1>6 DEF AfterAnswer, Answer
    <3> QED
      BY <3>3, <3>4
  <2>2. CASE ~Awaited(q)
    <3>1. delivery' = delivery /\ \A p \in Requests \ {q} : req'[p] = req[p]
      BY <1>6, <1>0, <2>2 DEF Answer
    <3>2. DeliveryTrue'
      BY <3>1, <2>2, <1>a, <1>b, <1>e DEF Awaited
    <3> QED
      BY <1>6, <1>f, <1>g, <3>2 DEF Answer
  <2> QED
    BY <2>1, <2>2
<1>7. CASE DeliveryFails
  <2>1. delivery'.at = "failed" /\ delivery'.batch \in passed'
    BY <1>7, <1>b, <1>e, <1>j DEF DeliveryFails
  <2> QED
    BY <1>7, <1>f, <1>g, <1>i, <2>1 DEF DeliveryFails
<1>8. CASE MarkSent \/ Release \/ UpdateFails
  <2>1. delivery'.at = "idle" \/ (delivery'.at = "failed" /\ delivery'.batch \in passed')
    BY <1>8, <1>b, <1>e, <1>j DEF MarkSent, Release, UpdateFails
  <2> QED
    BY <1>8, <1>f, <1>g, <1>i, <2>1 DEF MarkSent, Release, UpdateFails
<1>9. CASE Stop \/ Shutdown \/ Start
  BY <1>9, <1>f, <1>g, <1>h DEF Stop, Shutdown, Start, ingestVars
<1>10. CASE Crash
  <2>1. PollTrue' /\ delivery'.at = "idle"
    BY <1>10, <1>j DEF Crash
  <2> QED
    BY <1>f, <1>i, <2>1
<1>11. ASSUME NEW b \in Batches, DelayEnds(b) \/ LeaseEnds(b)
      PROVE  LoopsAreTrue'
  BY <1>11, <1>f, <1>g, <1>h DEF DelayEnds, LeaseEnds, ingestVars
<1>12. ASSUME NEW b \in Bundles, OtherClient(b)
      PROVE  LoopsAreTrue'
  <2>1. Vacant \in Requests /\ req[Vacant].at = "free" /\ \A p \in Requests \ {Vacant} : req'[p] = req[p]
    <3>1. HasVacancy /\ req' = Arriving(b)
      BY <1>12 DEF OtherClient
    <3>2. Vacant \in Requests /\ req[Vacant].at = "free"
      BY <3>1, VacantIsFree DEF Free
    <3> QED
      BY <3>1, <3>2, <1>0, ArrivingTyped
  <2>2. DeliveryTrue'
    BY <1>12, <1>a, <1>b, <1>e, <2>1 DEF OtherClient, edgeVars
  <2> QED
    BY <1>12, <1>f, <1>g, <2>2 DEF OtherClient, edgeVars
<1>13. CASE ServerNext /\ UNCHANGED edgeVars
  <2>1. DeliveryTrue'
    BY <1>13, <1>0, <1>a, <1>b, <1>e, ServerKeepsBundles DEF edgeVars
  <2> QED
    BY <1>13, <1>f, <1>g, <2>1 DEF edgeVars
<1>14. CASE UNCHANGED vars
  BY <1>14, <1>f, <1>g, <1>h DEF vars, edgeVars, ingestVars
<1> QED
  BY <1>1, <1>2, <1>3, <1>4, <1>5, <1>6, <1>7, <1>8, <1>9, <1>10, <1>11, <1>12, <1>13, <1>14
     DEF Next, PollStep, DeliveryStep

-----------------------------------------------------------------------------
(* The invariant and what it gives *)

LEMMA InitIInv == Init => IInv
<1> SUFFICES ASSUME Init PROVE IInv
  OBVIOUS
<1>1. TypeOK
  BY InitTypeOK
<1>2. TablesAreTrue
  BY DEF Init, IngestInit, TablesAreTrue, RequestsAreTrue, RequestTrue, Free, RunsNameTheirBundle,
         RunsHaveEvidence, AcceptedIsIngested, CompletedOnce, NoLanding, NoRun
<1>3. LoopsAreTrue /\ CheckpointIsCovered /\ SentIsIngested
  BY DEF Init, IngestInit, LoopsAreTrue, CheckpointIsCovered, SentIsIngested, NoPoll, NoDelivery, Free
<1> QED
  BY <1>1, <1>2, <1>3 DEF IInv

LEMMA NextKept ==
    ASSUME IInv, [Next]_vars
    PROVE  TypeOK' /\ TablesAreTrue' /\ Kept
<1>1. /\ IngestTypeOK /\ TablesAreTrue /\ TypeOK /\ LoopsAreTrue
      /\ passed \subseteq passed'
  BY QueueStep DEF IInv, TypeOK, QueueMoves
<1>2. ClientStep \/ (ServerNext /\ UNCHANGED passed)
  BY <1>1, AgentIsClient DEF edgeVars
<1>3. IngestTypeOK'
  BY <1>1, <1>2, ClientTyped, ServerTyped
<1>4. TypeOK'
  <2>1. AgentTypeOK'
    BY <1>1, AgentTyped
  <2> QED
    BY <1>3, <2>1 DEF TypeOK, AgentTypeOK, DueOK
<1> QED
  BY <1>1, <1>2, <1>4, ClientKeeps, ServerKeeps

LEMMA NextIInv == IInv /\ [Next]_vars => IInv'
<1> SUFFICES ASSUME IInv, [Next]_vars PROVE IInv'
  OBVIOUS
<1>1. TypeOK' /\ TablesAreTrue' /\ Kept
  BY NextKept
<1>2. LoopsAreTrue'
  BY <1>1, LoopsStep
<1>3. QueueMoves /\ TypeOK /\ LoopsAreTrue /\ CheckpointIsCovered /\ SentIsIngested
  BY QueueStep DEF IInv
<1>4. CheckpointIsCovered'
  <2>1. poll.at = "archived" => poll.batch \in Batches /\ poll.batch \in archived
                                /\ Earlier[poll.batch] \subseteq passed
    BY <1>3 DEF TypeOK, LoopsAreTrue
  <2>2. passed \subseteq Batches
    BY <1>3 DEF TypeOK
  <2> QED
    BY <1>3, <2>1, <2>2 DEF QueueMoves, CheckpointIsCovered
<1>5. SentIsIngested'
  <2>1. ASSUME NEW b \in Batches, queue'[b] = "sent"
        PROVE  Succeeded(b)'
    <3>1. Succeeded(b)
      BY <1>3, <2>1 DEF QueueMoves, LoopsAreTrue, SentIsIngested, Succeeded
    <3> QED
      BY <3>1, <1>1, RawIngestAssumption, EdgeAgentAssumption DEF Kept, Succeeded
  <2>2. \A b \in Batches : RunOf[b] \in Runs /\ b # None
    BY RawIngestAssumption, EdgeAgentAssumption
  <2>3. RunsHaveEvidence'
    BY <1>1 DEF TablesAreTrue
  <2> QED
    BY <2>1, <2>2, <2>3 DEF SentIsIngested, Succeeded, RunsHaveEvidence
<1> QED
  BY <1>1, <1>2, <1>4, <1>5 DEF IInv

LEMMA InductiveInvariant == Spec => []IInv
BY InitIInv, NextIInv, PTL DEF Spec
\* TypeOK: tables, requests, queue and loops keep their type; a batch is due once, and
\* only while it is queued (EdgeQueue.claim).
THEOREM TypeCorrect == Spec => []TypeOK
BY InductiveInvariant, PTL DEF IInv

\* CheckpointIsCovered: no checkpoint of a source passes records that are not archived
\* and queued (EdgeQueue.enqueue), whatever fails or crashes.
THEOREM NothingSkipped == Spec => []CheckpointIsCovered
BY InductiveInvariant, PTL DEF IInv

\* SentIsIngested: a batch that EdgeQueue.markSent takes for delivered was ingested with
\* exactly its payload, and its evidence is stored.
THEOREM NothingLost == Spec => []SentIsIngested
BY InductiveInvariant, PTL DEF IInv

\* RunsHaveEvidence: a run is that of the payload that landed under its id, whose object
\* is in the storage, for any number of concurrent requests (PostgresRawLandingStore.archive).
THEOREM EvidenceKept == Spec => []RunsHaveEvidence
BY InductiveInvariant, PTL DEF IInv, TablesAreTrue

\* AcceptedIsIngested: a landing that says 'accepted' has been ingested
\* (PostgresRawLandingStore.complete).
THEOREM AcceptedMeansIngested == Spec => []AcceptedIsIngested
BY InductiveInvariant, PTL DEF IInv, TablesAreTrue

\* CompletedOnce: the requests of a run publish its completion exactly once
\* (PostgresIndustrialPersistence.ingest).
THEOREM CompletionPublishedOnce == Spec => []CompletedOnce
BY InductiveInvariant, PTL DEF IInv, TablesAreTrue

-----------------------------------------------------------------------------
(* The contract *)

IngestedBundles == {b \in Bundles : Succeeded(b)}
DeliveredBatches == {b \in Batches : queue[b] = "sent"}

LEMMA RunMoves ==
    ASSUME IngestTypeOK, ServerNext
    PROVE  \/ run' = run
           \/ \E q \in Requests : \E b \in Bundles :
                /\ req[q].at # "free" /\ req[q].bundle = b
                /\ (~Processed(b) /\ Ingested(b)) \/ Failed(b)
<1>1. ASSUME NEW q \in Requests, HandlerStep(q) \/ CallFails(q)
      PROVE  req[q].at # "free" /\ req[q].bundle \in Bundles
  BY <1>1 DEF HandlerStep, Find, Put, LandRun, Ingest, RecordFailedRun, Accept, Fail, CallFails,
              Steps, Request, IngestTypeOK
<1>2. ASSUME NEW q \in Requests, HandlerStep(q) \/ CallFails(q)
      PROVE  \/ run' = run
             \/ ~Processed(req[q].bundle) /\ Ingested(req[q].bundle)
             \/ Failed(req[q].bundle)
  BY <1>2 DEF HandlerStep, Find, Put, LandRun, Ingest, RecordFailedRun, Accept, Fail, CallFails
<1>3. ServerCrash => run' = run
  BY DEF ServerCrash
<1> QED
  BY <1>1, <1>2, <1>3 DEF ServerNext

LEMMA ServerImplements ==
    ASSUME IInv, ServerNext
    PROVE  \/ IngestedBundles' = IngestedBundles
           \/ \E b \in Bundles :
                /\ b \in Batches => b \in passed
                /\ \A c \in IngestedBundles : RunOf[c] # RunOf[b]
                /\ IngestedBundles' = IngestedBundles \cup {b}
<1>1. /\ IngestTypeOK /\ run \in [Runs -> Run] /\ \A c \in Bundles : RunOf[c] \in Runs
      /\ LoopsAreTrue
  BY RawIngestAssumption DEF IInv, TypeOK, IngestTypeOK
<1>2. CASE run' = run
  BY <1>2 DEF IngestedBundles, Succeeded
<1>3. ASSUME NEW q \in Requests, NEW b \in Bundles, req[q].at # "free", req[q].bundle = b,
             ~Processed(b), Ingested(b)
      PROVE  \E a \in Bundles :
                /\ a \in Batches => a \in passed
                /\ \A c \in IngestedBundles : RunOf[c] # RunOf[a]
                /\ IngestedBundles' = IngestedBundles \cup {a}
  <2>1. b \in Batches => b \in passed
    BY <1>1, <1>3 DEF LoopsAreTrue
  <2>2. \A c \in IngestedBundles : RunOf[c] # RunOf[b]
    BY <1>3 DEF IngestedBundles, Succeeded, Processed
  <2>3. /\ run'[RunOf[b]] = [bundle |-> b, state |-> "succeeded"]
        /\ \A r \in Runs \ {RunOf[b]} : run'[r] = run[r]
    BY <1>1, <1>3 DEF Ingested
  <2>4. \A c \in Bundles : Succeeded(c)' <=> Succeeded(c) \/ c = b
    BY <1>1, <1>3, <2>3 DEF Succeeded, Processed
  <2>5. IngestedBundles' = IngestedBundles \cup {b}
    BY <2>4 DEF IngestedBundles
  <2> QED
    BY <2>1, <2>2, <2>5
<1>4. ASSUME NEW b \in Bundles, Failed(b)
      PROVE  IngestedBundles' = IngestedBundles
  <2>1. /\ run'[RunOf[b]] = IF Processed(b) THEN run[RunOf[b]] ELSE [bundle |-> b, state |-> "failed"]
        /\ \A r \in Runs \ {RunOf[b]} : run'[r] = run[r]
    BY <1>1, <1>4 DEF Failed
  <2>2. \A c \in Bundles : Succeeded(c)' <=> Succeeded(c)
    BY <1>1, <2>1 DEF Succeeded, Processed
  <2> QED
    BY <2>2 DEF IngestedBundles
<1> QED
  BY <1>1, <1>2, <1>3, <1>4, RunMoves

LEMMA QueueImplements ==
    ASSUME IInv, QueueMoves
    PROVE  \/ UNCHANGED <<passed, DeliveredBatches>>
           \/ \E b \in Batches : /\ Earlier[b] \subseteq passed /\ passed' = passed \cup {b}
                                /\ UNCHANGED DeliveredBatches
           \/ \E b \in Batches : /\ b \in passed \cap IngestedBundles
                                /\ DeliveredBatches' = DeliveredBatches \cup {b}
                                /\ UNCHANGED passed
<1>1. TypeOK /\ LoopsAreTrue /\ QueueMoves
  BY DEF IInv
<1>2. CASE /\ poll.at = "archived" /\ passed' = passed \cup {poll.batch}
           /\ \A b \in Batches : queue'[b] = IF b = poll.batch THEN "queued" ELSE queue[b]
  <2>1. poll.batch \in Batches /\ Earlier[poll.batch] \subseteq passed
    BY <1>1, <1>2 DEF TypeOK, LoopsAreTrue
  <2>2. \A b \in Batches : queue'[b] = "sent" <=> queue[b] = "sent"
    BY <1>1, <1>2 DEF QueueMoves
  <2> QED
    BY <1>2, <2>1, <2>2 DEF DeliveredBatches
<1>3. CASE passed' = passed
  <2>1. CASE \A b \in Batches : queue'[b] = "sent" => queue[b] = "sent"
    BY <1>1, <1>3, <2>1 DEF QueueMoves, DeliveredBatches
  <2>2. ASSUME NEW b \in Batches, queue'[b] = "sent", queue[b] # "sent"
        PROVE  /\ b \in passed \cap IngestedBundles
               /\ DeliveredBatches' = DeliveredBatches \cup {b}
    <3>1. delivery.at = "answered" /\ delivery.batch = b
      BY <1>1, <2>2 DEF QueueMoves
    <3>2. b \in passed /\ Succeeded(b) /\ b \in Bundles
      BY <1>1, <3>1, EdgeAgentAssumption DEF LoopsAreTrue
    <3>3. \A c \in Batches : queue'[c] = "sent" <=> queue[c] = "sent" \/ c = b
      BY <1>1, <2>2, <3>1 DEF QueueMoves
    <3> QED
      BY <3>2, <3>3 DEF IngestedBundles, DeliveredBatches
  <2> QED
    BY <1>3, <2>1, <2>2
<1> QED
  BY <1>1, <1>2, <1>3 DEF QueueMoves

\* ImplementsContract: every step of agent and API collects a batch in its order, ingests
\* a run once, delivers a batch that is ingested, or is invisible to the contract.
THEOREM AgentImplementsContract == Spec => ImplementsContract
<1>1. Init => Contract!Init
  <2> SUFFICES ASSUME Init PROVE Contract!Init
    OBVIOUS
  <2>1. \A r \in Runs : run[r].state = "failed"
    BY DEF Init, IngestInit, NoRun
  <2>2. IngestedBundles = {} /\ DeliveredBatches = {} /\ passed = {}
    BY <2>1, RawIngestAssumption DEF Init, IngestedBundles, Succeeded, DeliveredBatches
  <2> QED
    BY <2>2 DEF Contract!Init, IngestedBundles, Succeeded, DeliveredBatches
<1>2. IInv /\ [Next]_vars => [Contract!Next]_(Contract!vars)
  <2> SUFFICES ASSUME IInv, [Next]_vars PROVE [Contract!Next]_(Contract!vars)
    OBVIOUS
  <2>0. TypeOK /\ LoopsAreTrue /\ Batches \subseteq Bundles
    BY EdgeAgentAssumption DEF IInv
  <2>1. CASE ServerNext /\ UNCHANGED edgeVars
    <3>1. UNCHANGED <<passed, DeliveredBatches>>
      BY <2>1 DEF edgeVars, DeliveredBatches
    <3>2. CASE IngestedBundles' = IngestedBundles
      BY <3>1, <3>2 DEF Contract!vars, IngestedBundles, Succeeded, DeliveredBatches
    <3>3. ASSUME NEW b \in Bundles, b \in Batches => b \in passed,
                 \A c \in IngestedBundles : RunOf[c] # RunOf[b],
                 IngestedBundles' = IngestedBundles \cup {b}
          PROVE  Contract!Ingest(b)
      BY <3>1, <3>3 DEF Contract!Ingest, IngestedBundles, Succeeded, DeliveredBatches
    <3> QED
      BY <2>1, <3>2, <3>3, ServerImplements DEF Contract!Next
  <2>2. CASE ClientStep
    <3>1. UNCHANGED IngestedBundles
      BY <2>2 DEF ClientStep, IngestedBundles, Succeeded
    <3>2. CASE UNCHANGED <<passed, DeliveredBatches>>
      BY <3>1, <3>2 DEF Contract!vars, IngestedBundles, Succeeded, DeliveredBatches
    <3>3. ASSUME NEW b \in Batches, Earlier[b] \subseteq passed, passed' = passed \cup {b},
                 UNCHANGED DeliveredBatches
          PROVE  Contract!Collect(b)
      BY <3>1, <3>3 DEF Contract!Collect, IngestedBundles, Succeeded, DeliveredBatches
    <3>4. ASSUME NEW b \in Batches, b \in passed \cap IngestedBundles,
                 DeliveredBatches' = DeliveredBatches \cup {b}, UNCHANGED passed
          PROVE  Contract!Deliver(b)
      BY <3>1, <3>4 DEF Contract!Deliver, IngestedBundles, Succeeded, DeliveredBatches
    <3>5. QueueMoves
      BY <2>0, QueueStep
    <3> QED
      BY <3>2, <3>3, <3>4, <3>5, QueueImplements DEF Contract!Next
  <2> QED
    BY <2>0, <2>1, <2>2, AgentIsClient
<1> QED
  BY <1>1, <1>2, InductiveInvariant, PTL DEF Spec, ImplementsContract, Contract!Spec
=============================================================================
