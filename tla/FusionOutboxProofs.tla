------------------------- MODULE FusionOutboxProofs -------------------------
(***************************************************************************)
(* Proofs about FusionOutbox, for every set of events and workers and      *)
(* every bound: no overlap of leases loses, invents or revives an outcome. *)
(*                                                                         *)
(* The argument: what a worker read when it claimed a record is still what *)
(* the row says as long as the row carries its lease (ReadStillTrue), and  *)
(* what it is about to mark is what Open Data Fusion answered (Truthful).  *)
(* A worker without the lease changes nothing.                             *)
(***************************************************************************)
EXTENDS FusionOutbox, TLAPS

InClaim(w, e) == e \in worker[w].claim \/ worker[w].id = e

\* The attempts in the row are those its holder read.
ReadStillTrue ==
    \A w \in Workers, e \in Events :
        Holds(w, e) /\ InClaim(w, e) => worker[w].attempts[e] = row[e].attempts

\* An answer that is being marked was given.
Truthful ==
    \A w \in Workers :
        worker[w].pc = "mark" =>
            /\ worker[w].id \in Events
            /\ worker[w].kind = "Delivered" => worker[w].id \in accepted
            /\ worker[w].kind = "PermanentFailure" => worker[w].id \in Refused

IInv ==
    /\ TypeOK /\ ReadStillTrue /\ Truthful
    /\ DeliveredIsAccepted /\ AttemptsBounded /\ DeadForAReason

-----------------------------------------------------------------------------
(* What one row may become *)

\* What the properties say of a single row.
GoodRow(e, r, taken) ==
    /\ r \in Row \cup {Absent}
    /\ r.lock # NoLock <=> r.status = "PROCESSING"
    /\ r.status = "DELIVERED" => e \in taken
    /\ r.attempts <= MaxAttempts
    /\ r.status \in {"PENDING", "PROCESSING"} => r.attempts < MaxAttempts
    /\ r.status = "DEAD" => e \in Refused \/ r.attempts = MaxAttempts

LEMMA GoodRows ==
    /\ IInv => \A e \in Events : GoodRow(e, row[e], accepted)
    /\ /\ row \in [Events -> Row \cup {Absent}]
       /\ \A e \in Events : GoodRow(e, row[e], accepted)
       => /\ DeliveredIsAccepted /\ AttemptsBounded /\ DeadForAReason
          /\ \A e \in Events : row[e].lock # NoLock <=> row[e].status = "PROCESSING"
BY DEF IInv, TypeOK, GoodRow, DeliveredIsAccepted, AttemptsBounded, DeadForAReason, Owes

\* Releasing and leasing a row keeps its attempts.
LEMMA ReleasedGood ==
    ASSUME NEW e \in Events, NEW r, GoodRow(e, r, accepted)
    PROVE  /\ GoodRow(e, Released(r), accepted)
           /\ Released(r).attempts = r.attempts
           /\ Released(r).status = "PROCESSING" => Released(r) = r
<1>1. CASE Released(r) = r
  BY <1>1
<1>2. CASE r.status = "PROCESSING" /\ Released(r) = Updated(r, "PENDING", r.attempts, TRUE, NoLock)
  BY <1>2, OutboxAssumption DEF GoodRow, Updated, Row, Absent, Statuses
<1> QED
  BY <1>1, <1>2 DEF Released

LEMMA LeasedGood ==
    ASSUME NEW e \in Events, NEW r, GoodRow(e, r, accepted), r.status = "PENDING", NEW w \in Workers
    PROVE  /\ GoodRow(e, Leased(r, w), accepted)
           /\ Leased(r, w).attempts = r.attempts /\ Leased(r, w).lock = w
BY OutboxAssumption DEF GoodRow, Leased, Updated, Row, Absent, Statuses

\* A mark leaves the row good when the answer is true and the count was read right.
LEMMA MarkedGood ==
    ASSUME NEW e \in Events, NEW r, GoodRow(e, r, accepted), r.status = "PROCESSING",
           NEW kind \in Kinds,
           kind = "Delivered" => e \in accepted,
           kind = "PermanentFailure" => e \in Refused
    PROVE  /\ GoodRow(e, Marked(r, kind, r.attempts), accepted)
           /\ Marked(r, kind, r.attempts).status # "PROCESSING"
<1>1. r \in Row
  BY DEF GoodRow, Absent
<1>2. CASE Marked(r, kind, r.attempts) = Delivered(r) /\ kind = "Delivered"
  BY <1>1, <1>2, OutboxAssumption DEF GoodRow, Delivered, Updated, Row, Statuses
<1>3. CASE /\ Marked(r, kind, r.attempts) = Died(r)
           /\ kind = "PermanentFailure" \/ r.attempts + 1 >= MaxAttempts
  BY <1>1, <1>3, OutboxAssumption DEF GoodRow, Died, Updated, Row, Statuses
<1>4. CASE Marked(r, kind, r.attempts) = Retried(r) /\ ~(r.attempts + 1 >= MaxAttempts)
  BY <1>1, <1>4, OutboxAssumption DEF GoodRow, Retried, Updated, Row, Statuses
<1> QED
  BY <1>2, <1>3, <1>4 DEF Marked

\* A row in which only time has passed is as good as before.
LEMMA TimeGood ==
    ASSUME NEW e \in Events, NEW r, GoodRow(e, r, accepted), r # Absent, NEW q,
           q = [r EXCEPT !.available = TRUE] \/ q = [r EXCEPT !.overdue = TRUE]
    PROVE  /\ GoodRow(e, q, accepted)
           /\ q.status = r.status /\ q.lock = r.lock /\ q.attempts = r.attempts
BY DEF GoodRow, Row

-----------------------------------------------------------------------------
(* Steps *)

LEMMA ClaimKeeps ==
    ASSUME IInv, NEW w \in Workers, Claim(w)
    PROVE  IInv'
<1> DEFINE table == [e \in Events |-> Released(row[e])]
           batch == Oldest(Candidates(table))
<1>1. /\ worker[w].pc = "idle"
      /\ row' = [e \in Events |-> IF e \in batch THEN Leased(table[e], w) ELSE table[e]]
      /\ worker' = [worker EXCEPT ![w] =
                        IF batch = {} THEN Idle
                        ELSE Sending(batch, [e \in Events |-> IF e \in batch THEN row[e].attempts ELSE 0])]
      /\ UNCHANGED <<captured, accepted, bounds>>
  BY DEF Claim
<1>2. batch \subseteq Events /\ \A e \in batch : Released(row[e]).status = "PENDING"
  BY DEF Oldest, Candidates
<1>3. \A e \in Events : /\ row'[e] = IF e \in batch THEN Leased(Released(row[e]), w) ELSE Released(row[e])
                        /\ GoodRow(e, row'[e], accepted)
                        /\ row'[e].attempts = row[e].attempts
                        /\ row'[e].status = "PROCESSING" =>
                                IF e \in batch THEN row'[e].lock = w ELSE row'[e] = row[e]
  <2> TAKE e \in Events
  <2>1. row'[e] = IF e \in batch THEN Leased(Released(row[e]), w) ELSE Released(row[e])
    BY <1>1
  <2>2. GoodRow(e, row[e], accepted)
    BY GoodRows
  <2> QED
    BY <1>2, <2>1, <2>2, ReleasedGood, LeasedGood
<1>4. /\ worker' \in [Workers -> Cycle]
      /\ worker'[w].claim = batch /\ worker'[w].id = NoLock /\ worker'[w].pc # "mark"
      /\ \A e \in batch : worker'[w].attempts[e] = row[e].attempts
      /\ \A v \in Workers \ {w} : worker'[v] = worker[v]
  <2> DEFINE read == [e \in Events |-> IF e \in batch THEN row[e].attempts ELSE 0]
             cycle == IF batch = {} THEN Idle ELSE Sending(batch, read)
  <2>1. read \in [Events -> Nat] /\ \A e \in batch : read[e] = row[e].attempts
    BY <1>2 DEF IInv, TypeOK, Row, Absent
  <2>4. Idle \in Cycle /\ Idle.claim = {} /\ Idle.id = NoLock /\ Idle.pc = "idle"
    BY DEF Idle, Cycle, Kinds
  <2>6. worker' = [worker EXCEPT ![w] = cycle]
    BY <1>1
  <2>7. worker \in [Workers -> Cycle]
    BY DEF IInv, TypeOK
  <2> HIDE DEF read, batch, cycle
  <2>8. cycle \in Cycle /\ cycle.claim = batch /\ cycle.id = NoLock /\ cycle.pc # "mark"
        /\ \A e \in batch : cycle.attempts[e] = row[e].attempts
    BY <2>1, <2>4, <1>2 DEF cycle, Sending, Cycle, Kinds
  <2> QED
    BY <2>6, <2>7, <2>8
<1> HIDE DEF table, batch
<1>5. row' \in [Events -> Row \cup {Absent}]
  BY <1>1, <1>3 DEF GoodRow
<1>6. DeliveredIsAccepted' /\ AttemptsBounded' /\ DeadForAReason'
      /\ \A e \in Events : row'[e].lock # NoLock <=> row'[e].status = "PROCESSING"
  BY <1>1, <1>3 DEF GoodRow, DeliveredIsAccepted, AttemptsBounded, DeadForAReason, Owes
<1>7. TypeOK'
  BY <1>1, <1>4, <1>5, <1>6 DEF IInv, TypeOK, bounds
<1>8. ReadStillTrue'
  BY <1>2, <1>3, <1>4, OutboxAssumption DEF IInv, ReadStillTrue, Holds, InClaim
<1>9. Truthful'
  BY <1>1, <1>4 DEF IInv, Truthful
<1> QED
  BY <1>6, <1>7, <1>8, <1>9 DEF IInv

LEMMA SendKeeps ==
    ASSUME IInv, NEW w \in Workers, NEW e \in Events, Send(w, e)
    PROVE  IInv'
<1>1. PICK kind \in Kinds :
        /\ Answers(e, kind)
        /\ worker' = [worker EXCEPT ![w] =
                        [pc |-> "mark", claim |-> worker[w].claim \ {e},
                         attempts |-> worker[w].attempts, id |-> e, kind |-> kind]]
  BY DEF Send
<1>2. /\ worker' \in [Workers -> Cycle]
      /\ worker'[w] = [pc |-> "mark", claim |-> worker[w].claim \ {e},
                       attempts |-> worker[w].attempts, id |-> e, kind |-> kind]
      /\ \A v \in Workers \ {w} : worker'[v] = worker[v]
  BY <1>1 DEF IInv, TypeOK, Cycle
<1>3. /\ accepted \subseteq accepted' /\ accepted' \subseteq Events
      /\ kind = "Delivered" => e \in accepted'
      /\ kind = "PermanentFailure" => e \in Refused
  BY <1>1 DEF IInv, TypeOK, Answers
<1>4. UNCHANGED <<row, captured, overruns, crashes>> /\ e \in worker[w].claim
      /\ outages' \in Nat
  BY <1>1 DEF Send, Answers, IInv, TypeOK
<1>5. TypeOK'
  BY <1>2, <1>3, <1>4 DEF IInv, TypeOK
<1>6. ReadStillTrue'
  BY <1>2, <1>4 DEF IInv, ReadStillTrue, Holds, InClaim
<1>7. Truthful'
  BY <1>2, <1>3 DEF IInv, Truthful
<1>8. DeliveredIsAccepted' /\ AttemptsBounded' /\ DeadForAReason'
  BY <1>3, <1>4 DEF IInv, DeliveredIsAccepted, AttemptsBounded, DeadForAReason, Owes
<1> QED
  BY <1>5, <1>6, <1>7, <1>8 DEF IInv

LEMMA MarkKeeps ==
    ASSUME IInv, NEW w \in Workers, Mark(w)
    PROVE  IInv'
<1> DEFINE e == worker[w].id
<1>1. /\ e \in Events /\ worker[w].pc = "mark" /\ worker[w].kind \in Kinds
      /\ worker[w].kind = "Delivered" => e \in accepted
      /\ worker[w].kind = "PermanentFailure" => e \in Refused
  BY DEF IInv, TypeOK, Cycle, Truthful, Mark
<1>2. UNCHANGED <<captured, accepted, bounds>>
  BY DEF Mark
<1>3. /\ worker' \in [Workers -> Cycle]
      /\ worker'[w].pc # "mark"
      /\ worker'[w].claim \subseteq worker[w].claim /\ worker'[w].id = NoLock
      /\ worker'[w].claim # {} => worker'[w].attempts = worker[w].attempts
      /\ \A v \in Workers \ {w} : worker'[v] = worker[v]
  <2> DEFINE next == NextRecord(worker[w])
  <2>1. /\ next \in Cycle /\ next.pc # "mark"
        /\ next.claim \subseteq worker[w].claim /\ next.id = NoLock
        /\ next.claim # {} => next.attempts = worker[w].attempts
    <3>1. worker[w] \in Cycle
      BY DEF IInv, TypeOK
    <3>2. CASE worker[w].claim = {}
      BY <3>2 DEF NextRecord, Idle, Cycle, Kinds
    <3>3. CASE worker[w].claim # {}
      BY <3>1, <3>3 DEF NextRecord, Sending, Cycle, Kinds
    <3> QED
      BY <3>2, <3>3
  <2>2. worker' = [worker EXCEPT ![w] = next] /\ worker \in [Workers -> Cycle]
    BY DEF Mark, IInv, TypeOK
  <2> HIDE DEF next
  <2>3. /\ worker' \in [Workers -> Cycle] /\ worker'[w] = next
        /\ \A v \in Workers \ {w} : worker'[v] = worker[v]
    BY <2>1, <2>2
  <2> QED
    BY <2>1, <2>3
<1>4. \A d \in Events : /\ GoodRow(d, row'[d], accepted)
                        /\ row'[d] = row[d] \/ row'[d].status # "PROCESSING"
  <2> TAKE d \in Events
  <2>1. GoodRow(d, row[d], accepted)
    BY GoodRows
  <2>2. CASE Holds(w, e) /\ d = e
    <3>1. worker[w].attempts[e] = row[e].attempts
      BY <1>1, <2>2 DEF IInv, ReadStillTrue, InClaim
    <3>2. row'[d] = Marked(row[e], worker[w].kind, row[e].attempts)
      BY <1>1, <2>2, <3>1 DEF Mark, IInv, TypeOK
    <3> QED
      BY <1>1, <2>1, <2>2, <3>2, MarkedGood DEF Holds
  <2>3. CASE ~(Holds(w, e) /\ d = e)
    BY <2>1, <2>3 DEF Mark, IInv, TypeOK
  <2> QED
    BY <2>2, <2>3
<1>5. row' \in [Events -> Row \cup {Absent}]
  <2>1. row' = [d \in Events |-> row'[d]]
    BY DEF Mark, IInv, TypeOK
  <2> QED
    BY <2>1, <1>4 DEF GoodRow
<1>6. DeliveredIsAccepted' /\ AttemptsBounded' /\ DeadForAReason'
      /\ \A d \in Events : row'[d].lock # NoLock <=> row'[d].status = "PROCESSING"
  BY <1>2, <1>4 DEF GoodRow, DeliveredIsAccepted, AttemptsBounded, DeadForAReason, Owes
<1>7. TypeOK'
  BY <1>2, <1>3, <1>5, <1>6 DEF IInv, TypeOK, bounds
<1>8. ReadStillTrue'
  BY <1>3, <1>4, OutboxAssumption DEF IInv, ReadStillTrue, Holds, InClaim
<1>9. Truthful'
  BY <1>2, <1>3 DEF IInv, Truthful
<1> QED
  BY <1>6, <1>7, <1>8, <1>9 DEF IInv

-----------------------------------------------------------------------------
(* The steps of the backend, of failures and of time *)

LEMMA CaptureKeeps ==
    ASSUME IInv, NEW e \in Events, Capture(e)
    PROVE  IInv'
<1> DEFINE fresh == [status |-> "PENDING", attempts |-> 0, available |-> TRUE,
                     lock |-> NoLock, overdue |-> FALSE, seq |-> captured + 1]
<1>1. row' = [row EXCEPT ![e] = fresh] /\ captured' = captured + 1
      /\ UNCHANGED <<worker, accepted, bounds>>
  BY DEF Capture
<1>2. /\ fresh \in Row
      /\ fresh.status = "PENDING" /\ fresh.attempts = 0 /\ fresh.lock = NoLock
  BY DEF IInv, TypeOK, Row, Statuses
<1>3. /\ row' \in [Events -> Row \cup {Absent}]
      /\ row'[e] = fresh /\ \A d \in Events \ {e} : row'[d] = row[d]
  BY <1>1, <1>2 DEF IInv, TypeOK
<1> HIDE DEF fresh
<1>4. DeliveredIsAccepted' /\ AttemptsBounded' /\ DeadForAReason'
      /\ \A d \in Events : row'[d].lock # NoLock <=> row'[d].status = "PROCESSING"
  BY <1>1, <1>2, <1>3, OutboxAssumption
     DEF IInv, TypeOK, DeliveredIsAccepted, AttemptsBounded, DeadForAReason, Owes
<1>5. TypeOK'
  BY <1>1, <1>3, <1>4 DEF IInv, TypeOK, bounds
<1>6. ReadStillTrue' /\ Truthful'
  BY <1>1, <1>2, <1>3 DEF IInv, ReadStillTrue, Truthful, Holds, InClaim
<1> QED
  BY <1>4, <1>5, <1>6 DEF IInv

LEMMA TimeKeeps ==
    ASSUME IInv, NEW e \in Events, BackoffEnds(e) \/ LeaseEnds(e)
    PROVE  IInv'
<1>1. /\ UNCHANGED <<captured, worker, accepted, crashes, outages>> /\ overruns' \in Nat
      /\ \/ row' = [row EXCEPT ![e].available = TRUE]
         \/ row' = [row EXCEPT ![e].overdue = TRUE]
      /\ row[e].status \in {"PENDING", "PROCESSING"}
  BY DEF BackoffEnds, LeaseEnds, IInv, TypeOK, bounds
<1>2. /\ row' \in [Events -> Row \cup {Absent}]
      /\ \A d \in Events : /\ row'[d].status = row[d].status
                           /\ row'[d].attempts = row[d].attempts
                           /\ row'[d].lock = row[d].lock
  <2>1. PICK q : /\ row' = [row EXCEPT ![e] = q]
                 /\ q = [row[e] EXCEPT !.available = TRUE] \/ q = [row[e] EXCEPT !.overdue = TRUE]
    BY <1>1, Zenon
  <2>2. GoodRow(e, row[e], accepted) /\ row[e] # Absent
    BY <1>1, GoodRows DEF Absent
  <2>3. /\ GoodRow(e, q, accepted)
        /\ q.status = row[e].status /\ q.lock = row[e].lock /\ q.attempts = row[e].attempts
    <3>1. PICK r : r = row[e]
      OBVIOUS
    <3>2. q = [r EXCEPT !.available = TRUE] \/ q = [r EXCEPT !.overdue = TRUE]
      BY <2>1, <3>1, Zenon
    <3>3. GoodRow(e, r, accepted) /\ r # Absent
      BY <2>2, <3>1
    <3>4. GoodRow(e, q, accepted) /\ q.status = r.status /\ q.lock = r.lock /\ q.attempts = r.attempts
      BY <3>2, <3>3, TimeGood
    <3> QED
      BY <3>1, <3>4
  <2>4. q \in Row \cup {Absent} /\ row \in [Events -> Row \cup {Absent}]
    BY <2>3 DEF GoodRow, IInv, TypeOK
  <2>5. row' = [row EXCEPT ![e] = q]
    BY <2>1
  <2> QED
    BY <2>3, <2>4, <2>5
<1>3. DeliveredIsAccepted' /\ AttemptsBounded' /\ DeadForAReason'
  BY <1>1, <1>2 DEF IInv, DeliveredIsAccepted, AttemptsBounded, DeadForAReason, Owes
<1>4. TypeOK'
  BY <1>1, <1>2 DEF IInv, TypeOK
<1>5. ReadStillTrue' /\ Truthful'
  BY <1>1, <1>2 DEF IInv, ReadStillTrue, Truthful, Holds, InClaim
<1> QED
  BY <1>3, <1>4, <1>5 DEF IInv

LEMMA CrashKeeps ==
    ASSUME IInv, NEW w \in Workers, Crash(w)
    PROVE  IInv'
<1>1. UNCHANGED <<row, captured, accepted, overruns, outages>> /\ crashes' \in Nat
      /\ worker' = [worker EXCEPT ![w] = Idle]
  BY DEF Crash, IInv, TypeOK
<1>2. Idle \in Cycle /\ Idle.claim = {} /\ Idle.id = NoLock /\ Idle.pc = "idle"
  BY DEF Idle, Cycle, Kinds
<1>3. /\ worker' \in [Workers -> Cycle]
      /\ worker'[w] = Idle /\ \A v \in Workers \ {w} : worker'[v] = worker[v]
  BY <1>1, <1>2 DEF IInv, TypeOK
<1>4. TypeOK'
  BY <1>1, <1>3 DEF IInv, TypeOK
<1>5. ReadStillTrue' /\ Truthful'
  BY <1>1, <1>2, <1>3, OutboxAssumption DEF IInv, ReadStillTrue, Truthful, Holds, InClaim
<1>6. DeliveredIsAccepted' /\ AttemptsBounded' /\ DeadForAReason'
  BY <1>1 DEF IInv, DeliveredIsAccepted, AttemptsBounded, DeadForAReason, Owes
<1> QED
  BY <1>4, <1>5, <1>6 DEF IInv

-----------------------------------------------------------------------------
(* The invariant and what follows from it *)

LEMMA Initially == Init => IInv
<1> SUFFICES ASSUME Init PROVE IInv
  OBVIOUS
<1>1. Idle \in Cycle /\ Idle.claim = {} /\ Idle.id = NoLock /\ Idle.pc = "idle"
  BY DEF Idle, Cycle, Kinds
<1>2. \A e \in Events : row[e] = Absent
  BY DEF Init
<1>3. TypeOK
  BY <1>1 DEF Init, TypeOK, Absent
<1>4. DeliveredIsAccepted /\ AttemptsBounded /\ DeadForAReason
  BY <1>2, OutboxAssumption DEF DeliveredIsAccepted, AttemptsBounded, DeadForAReason, Owes, Absent
<1>5. ReadStillTrue /\ Truthful
  BY <1>1, <1>2 DEF Init, ReadStillTrue, Truthful, Holds, Absent
<1> QED
  BY <1>3, <1>4, <1>5 DEF IInv

\* Whatever the backend, the workers, Open Data Fusion and the clock do, the rows
\* keep their types and bounds and every answer about to be marked was given.
THEOREM Invariance == Spec => []IInv
<1>1. IInv /\ [Next]_vars => IInv'
  <2> SUFFICES ASSUME IInv, [Next]_vars PROVE IInv'
    OBVIOUS
  <2>1. CASE \E e \in Events : Capture(e)
    BY <2>1, CaptureKeeps
  <2>2. CASE \E e \in Events : BackoffEnds(e) \/ LeaseEnds(e)
    BY <2>2, TimeKeeps
  <2>3. CASE \E w \in Workers : Claim(w)
    BY <2>3, ClaimKeeps
  <2>4. CASE \E w \in Workers, e \in Events : Send(w, e)
    BY <2>4, SendKeeps
  <2>5. CASE \E w \in Workers : Mark(w)
    BY <2>5, MarkKeeps
  <2>6. CASE \E w \in Workers : Crash(w)
    BY <2>6, CrashKeeps
  <2>7. CASE UNCHANGED vars
    BY <2>7 DEF vars, IInv, TypeOK, ReadStillTrue, Truthful, Holds, InClaim,
                DeliveredIsAccepted, AttemptsBounded, DeadForAReason, Owes
  <2> QED
    BY <2>1, <2>2, <2>3, <2>4, <2>5, <2>6, <2>7 DEF Next, WorkerStep
<1> QED
  BY Initially, <1>1, PTL DEF Spec

\* No overlap of leases marks an event delivered that Open Data Fusion never
\* took, or counts an attempt twice (FusionOutboxRepository.MarkRetryAsync).
LEMMA OutcomesAreTrue == Spec => [](DeliveredIsAccepted /\ AttemptsBounded /\ DeadForAReason)
<1>1. IInv => DeliveredIsAccepted /\ AttemptsBounded /\ DeadForAReason
  BY DEF IInv
<1> QED
  BY Invariance, <1>1, PTL

\* DeliveredIsAccepted: an answer that is marked delivered was given, even to a worker
\* whose lease was lost (MarkDeliveredAsync).
THEOREM NothingDeliveredFalsely == Spec => []DeliveredIsAccepted
BY OutcomesAreTrue, PTL

\* AttemptsBounded: leases that run out and workers that overlap count an attempt once.
THEOREM AttemptsCountedOnce == Spec => []AttemptsBounded
BY OutcomesAreTrue, PTL

\* DeadForAReason: an event dies of a permanent error or of its last attempt.
THEOREM NothingDiesEarly == Spec => []DeadForAReason
BY OutcomesAreTrue, PTL

\* A row carries a lease exactly while it is PROCESSING.
THEOREM TypeCorrect == Spec => []TypeOK
<1>1. IInv => TypeOK
  BY DEF IInv
<1> QED
  BY Invariance, <1>1, PTL

-----------------------------------------------------------------------------
(* A settled row never changes *)

LEMMA StepsKeepSettled ==
    ASSUME IInv, Next, NEW e \in Events, Settled(e)
    PROVE  row'[e] = row[e]
<1>1. row[e].status \in {"DELIVERED", "DEAD"}
  BY DEF Settled
<1>2. row \in [Events -> Row \cup {Absent}]
  BY DEF IInv, TypeOK
<1>3. ASSUME NEW d \in Events, Capture(d) PROVE row'[e] = row[e]
  BY <1>1, <1>2, <1>3 DEF Capture
<1>4. ASSUME NEW d \in Events, BackoffEnds(d) \/ LeaseEnds(d) PROVE row'[e] = row[e]
  BY <1>1, <1>2, <1>4 DEF BackoffEnds, LeaseEnds
<1>5. ASSUME NEW w \in Workers, Claim(w) PROVE row'[e] = row[e]
  <2> DEFINE table == [d \in Events |-> Released(row[d])]
             batch == Oldest(Candidates(table))
  <2>1. row' = [d \in Events |-> IF d \in batch THEN Leased(table[d], w) ELSE table[d]]
    BY <1>5 DEF Claim
  <2>2. table[e] = row[e]
    BY <1>1 DEF Released
  <2>3. e \notin batch
    BY <1>1, <2>2 DEF Oldest, Candidates
  <2> HIDE DEF table, batch
  <2> QED
    BY <2>1, <2>2, <2>3
<1>6. ASSUME NEW w \in Workers, NEW d \in Events, Send(w, d) PROVE row'[e] = row[e]
  BY <1>6 DEF Send
<1>7. ASSUME NEW w \in Workers, Mark(w) PROVE row'[e] = row[e]
  BY <1>1, <1>2, <1>7 DEF Mark, Holds
<1>8. ASSUME NEW w \in Workers, Crash(w) PROVE row'[e] = row[e]
  BY <1>8 DEF Crash
<1> QED
  BY <1>3, <1>4, <1>5, <1>6, <1>7, <1>8 DEF Next, WorkerStep

\* No late answer of a worker that lost its lease revives an event that is
\* delivered or dead (the WHERE clauses of FusionOutboxRepository).
THEOREM SettledRowsStay == Spec => SettledForGood
<1>1. IInv /\ [Next]_vars => [\A e \in Events : Settled(e) => row'[e] = row[e]]_vars
  BY StepsKeepSettled
<1> QED
  BY Invariance, <1>1, PTL DEF Spec, SettledForGood
=============================================================================
