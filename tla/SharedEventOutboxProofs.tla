---------------------- MODULE SharedEventOutboxProofs -----------------------
(***************************************************************************)
(* Proofs about SharedEventOutbox, for every set of events, aggregates and *)
(* workers, every batch size and every number of troubles.                 *)
(*                                                                         *)
(* The argument: an event is claimed only when its visible predecessors    *)
(* are published, and published rows never change; so whatever is claimed, *)
(* in hand, on the wire or on the stream has its predecessors published    *)
(* (HeadsOnly), and what is published is on the stream.                    *)
(***************************************************************************)
EXTENDS SharedEventOutbox, TLAPS

\* Whatever a worker, a connection or the stream has of an event.
Underway(e) ==
    \/ e \in stream
    \/ \E w \in Workers : e \in pump[w].claim \/ pump[w].id = e \/ <<w, e>> \in wire

HeadsOnly ==
    \A e \in Events : Underway(e) =>
        Committed(e) /\ \A p \in tx[e].before : row[p].status = "PUBLISHED"

\* A worker marks what Redis has executed.
MarksAreTrue == \A w \in Workers : pump[w].pc = "mark" => pump[w].id \in stream

\* What a transaction saw committed is older, and stays committed; a committed
\* save has seen the saves it follows.
HistoryOK ==
    \A e \in Events :
        /\ tx[e].before \subseteq tx[e].older
        /\ \A p \in tx[e].before \cup tx[e].under : Committed(p)
        /\ Committed(e) /\ tx[e].save => \A p \in tx[e].under : tx[p].save => p \in tx[e].before
        /\ ~Committed(e) => tx[e].under = {}

IInv == TypeOK /\ HeadsOnly /\ MarksAreTrue /\ HistoryOK /\ PublishedIsOnStream /\ DeadForAReason

-----------------------------------------------------------------------------
(* What one row may become *)

GoodRow(e, r) ==
    /\ r \in Row
    /\ r.live => r.owner # Nobody
    /\ r.status # "PENDING" => r.owner = Nobody
    /\ r.status = "PUBLISHED" => e \in stream
    /\ r.status = "DEAD" => r.attempts >= MaxAttempts

\* A step leaves a row, or changes one that is pending, or requeues it.
GoodStep(e, r) ==
    /\ GoodRow(e, r)
    /\ row[e].status = "PUBLISHED" => r = row[e]
    /\ row[e].status = "DEAD" => r = row[e] \/ Requeue(e)

LEMMA GoodRows ==
    ASSUME IInv
    PROVE  \A e \in Events : GoodStep(e, row[e])
BY DEF IInv, TypeOK, GoodStep, GoodRow, PublishedIsOnStream, DeadForAReason

\* The four changes of a pending row: leased, marked, released, and the columns
\* that time and the end of a process change.
LEMMA LeasedGood ==
    ASSUME NEW e \in Events, GoodRow(e, row[e]), row[e].status = "PENDING", NEW w \in Workers
    PROVE  GoodStep(e, Leased(row[e], w))
BY SharedEventOutboxAssumption DEF GoodStep, GoodRow, Row, Leased, Updated

LEMMA MarkedGood ==
    ASSUME NEW e \in Events, GoodRow(e, row[e]), row[e].status = "PENDING", e \in stream
    PROVE  GoodStep(e, Marked(row[e]))
BY SharedEventOutboxAssumption DEF GoodStep, GoodRow, Row, Marked, Updated

LEMMA ReleasedGood ==
    ASSUME NEW e \in Events, GoodRow(e, row[e]), row[e].status = "PENDING"
    PROVE  GoodStep(e, Released(row[e]))
BY SharedEventOutboxAssumption DEF GoodStep, GoodRow, Row, Released, Updated

LEMMA ColumnGood ==
    ASSUME NEW e \in Events, GoodRow(e, row[e]), row[e].status = "PENDING", NEW r,
           \/ r = [row[e] EXCEPT !.ready = TRUE]
           \/ r = [row[e] EXCEPT !.live = FALSE]
           \/ row[e].owner # Nobody /\ r = [row[e] EXCEPT !.owner = Gone]
    PROVE  GoodStep(e, r)
<1>1. row[e] \in Row
  BY DEF GoodRow
<1>2. r \in Row /\ r.status = row[e].status /\ r.attempts = row[e].attempts
  BY <1>1, SharedEventOutboxAssumption DEF Row
<1>3. r.live => r.owner # Nobody
  BY <1>1, SharedEventOutboxAssumption DEF Row, GoodRow
<1> QED
  BY <1>2, <1>3 DEF GoodStep, GoodRow

\* The owner of a lease works on a pending row.
LEMMA HeldIsPending ==
    ASSUME IInv, NEW w \in Workers, NEW e \in Events, Holds(w, e)
    PROVE  GoodRow(e, row[e]) /\ row[e].status = "PENDING"
BY GoodRows, SharedEventOutboxAssumption DEF Holds, GoodStep, GoodRow

\* A worker that has sent, marks or gives up has an event in hand.
LEMMA HasEvent ==
    ASSUME IInv, NEW w \in Workers, pump[w].pc \in {"sent", "mark", "failed"}
    PROVE  pump[w].id \in Events
BY DEF IInv, TypeOK, Cycle

\* Every step takes every row to a good one.
LEMMA RowsStep ==
    ASSUME IInv, Next
    PROVE  row' \in [Events -> Row] /\ \A e \in Events : GoodStep(e, row'[e])
<1> DEFINE Goal == row' \in [Events -> Row] /\ \A e \in Events : GoodStep(e, row'[e])
<1>1. /\ row \in [Events -> Row]
      /\ \A e \in Events : GoodStep(e, row[e]) /\ GoodRow(e, row[e])
  BY GoodRows DEF IInv, TypeOK, GoodStep
<1>2. CASE UNCHANGED row
  BY <1>1, <1>2
<1>3. ASSUME NEW e \in Events, NEW r, GoodStep(e, r), row' = [row EXCEPT ![e] = r]
      PROVE  Goal
  BY <1>1, <1>3 DEF GoodStep, GoodRow
<1>4. ASSUME NEW w \in Workers, Claim(w)
      PROVE  Goal
  <2>1. PICK batch \in SUBSET Candidates :
            row' = [e \in Events |-> IF e \in batch THEN Leased(row[e], w) ELSE row[e]]
    BY <1>4 DEF Claim, kSubset
  <2>2. \A e \in batch : row[e].status = "PENDING"
    BY DEF Candidates, Due
  <2>3. \A e \in Events : GoodStep(e, row'[e])
    BY <1>1, <2>1, <2>2, LeasedGood
  <2> QED
    BY <2>1, <2>3 DEF GoodStep, GoodRow
<1>5. ASSUME NEW w \in Workers, MarkPublished(w) \/ MarkFails(w)
      PROVE  Goal
  <2>1. pump[w].id \in Events /\ pump[w].id \in stream
    BY <1>5, HasEvent DEF MarkPublished, MarkFails, IInv, MarksAreTrue
  <2>2. CASE Holds(w, pump[w].id) /\ row' = [row EXCEPT ![pump[w].id] = Marked(row[pump[w].id])]
    BY <2>1, <2>2, <1>3, HeldIsPending, MarkedGood
  <2> QED
    BY <1>2, <1>5, <2>2 DEF MarkPublished, MarkFails
<1>6. ASSUME NEW w \in Workers, Release(w) \/ ReleaseFails(w)
      PROVE  Goal
  <2>1. pump[w].id \in Events
    BY <1>6, HasEvent DEF Release, ReleaseFails
  <2>2. CASE Holds(w, pump[w].id) /\ row' = [row EXCEPT ![pump[w].id] = Released(row[pump[w].id])]
    BY <2>1, <2>2, <1>3, HeldIsPending, ReleasedGood
  <2> QED
    BY <1>2, <1>6, <2>2 DEF Release, ReleaseFails
<1>7. ASSUME NEW w \in Workers, Crash(w)
      PROVE  Goal
  <2>1. row' = [e \in Events |-> IF row[e].owner = w THEN [row[e] EXCEPT !.owner = Gone] ELSE row[e]]
    BY <1>7 DEF Crash
  <2>2. \A e \in Events : row[e].owner = w => row[e].status = "PENDING" /\ row[e].owner # Nobody
    BY <1>1, SharedEventOutboxAssumption DEF GoodRow
  <2>3. \A e \in Events : GoodStep(e, row'[e])
    BY <1>1, <2>1, <2>2, ColumnGood
  <2> QED
    BY <2>1, <2>3 DEF GoodStep, GoodRow
<1>8. ASSUME NEW e \in Events, BackoffEnds(e)
      PROVE  Goal
  <2>1. GoodStep(e, [row[e] EXCEPT !.ready = TRUE])
    BY <1>1, <1>8, ColumnGood DEF BackoffEnds
  <2> QED
    BY <1>3, <1>8, <2>1 DEF BackoffEnds
<1>9. ASSUME NEW e \in Events, LeaseEnds(e)
      PROVE  Goal
  <2>1. GoodStep(e, [row[e] EXCEPT !.live = FALSE])
    BY <1>1, <1>9, ColumnGood DEF LeaseEnds, GoodRow
  <2> QED
    BY <1>3, <1>9, <2>1 DEF LeaseEnds
<1>10. ASSUME NEW e \in Events, Requeue(e)
       PROVE  Goal
  <2>1. GoodStep(e, NewRow)
    BY <1>10, SharedEventOutboxAssumption DEF GoodStep, GoodRow, NewRow, Row, Requeue
  <2> QED
    BY <1>3, <1>10, <2>1 DEF Requeue
<1> QED
  BY <1>2, <1>4, <1>5, <1>6, <1>7, <1>8, <1>9, <1>10
  DEF Next, WorkerStep, Begin, Commit, Rollback, Publish, Append, PublishFails

-----------------------------------------------------------------------------
(* Workers, commands and the stream *)

\* What every step does to the workers, the wire and the stream: an event gets
\* under way by a claim only, and a worker marks an event that was appended.
FlightOK ==
    /\ pump' \in [Workers -> Cycle]
    /\ \A w \in Workers : pump'[w].pc \in {"sent", "mark", "failed"} => pump'[w].id # Nobody
    /\ \A w \in Workers : pump'[w].pc = "mark" => pump'[w].id \in stream'
    /\ wire' \subseteq Workers \X Events
    /\ stream \subseteq stream' /\ stream' \subseteq Events
    /\ troubles' \in Nat
    /\ \A e \in Events : Underway(e)' => Underway(e) \/ e \in Candidates

LEMMA CyclesTyped ==
    /\ Idle \in Cycle /\ Idle.pc = "idle" /\ Idle.id = Nobody /\ Idle.claim = {}
    /\ \A claim \in SUBSET Events :
        /\ Working(claim) \in Cycle
        /\ Working(claim).claim = claim
        /\ Working(claim).pc \in {"idle", "next"}
        /\ Working(claim).id = Nobody
    /\ \A c \in Cycle :
        /\ GivenUp(c) \in Cycle
        /\ GivenUp(c).claim = c.claim /\ GivenUp(c).id = c.id /\ GivenUp(c).pc = "failed"
BY DEF Cycle, Idle, Working, GivenUp

\* The cycle a worker goes on with holds what it held, or what it claims.
CycleOK(c) ==
    /\ c \in Cycle
    /\ c.pc \in {"sent", "mark", "failed"} => c.id # Nobody
    /\ c.pc = "mark" => c.id \in stream'
    /\ \A e \in Events : e \in c.claim \/ c.id = e => Underway(e) \/ e \in Candidates

\* Commands and stream hold what was under way.
WireOK ==
    /\ wire' \subseteq Workers \X Events
    /\ \A v \in Workers, e \in Events : <<v, e>> \in wire' => Underway(e)
    /\ stream \subseteq stream'
    /\ \A e \in stream' : e \in Events /\ Underway(e)
    /\ troubles' \in Nat

\* Every step changes the cycle of one worker at most.
LEMMA OneCycle ==
    ASSUME IInv, NEW w \in Workers, NEW c, pump' = [pump EXCEPT ![w] = c], CycleOK(c), WireOK
    PROVE  FlightOK
<1>1. /\ pump' \in [Workers -> Cycle]
      /\ pump'[w] = c
      /\ \A v \in Workers \ {w} : pump'[v] = pump[v]
  BY DEF IInv, TypeOK, CycleOK
<1>2. \A e \in Events : Underway(e)' => Underway(e) \/ e \in Candidates
  <2> SUFFICES ASSUME NEW e \in Events, Underway(e)'
               PROVE  Underway(e) \/ e \in Candidates
    OBVIOUS
  <2>1. CASE e \in stream'
    BY <2>1 DEF WireOK
  <2>2. ASSUME NEW v \in Workers, e \in pump'[v].claim \/ pump'[v].id = e
        PROVE  Underway(e) \/ e \in Candidates
    <3>1. CASE v = w
      BY <1>1, <2>2, <3>1 DEF CycleOK
    <3>2. CASE v # w
      BY <1>1, <2>2, <3>2 DEF Underway
    <3> QED
      BY <3>1, <3>2
  <2>3. ASSUME NEW v \in Workers, <<v, e>> \in wire'
        PROVE  Underway(e)
    BY <2>3 DEF WireOK
  <2> QED
    BY <2>1, <2>2, <2>3 DEF Underway
<1>3. \A v \in Workers :
        /\ pump'[v].pc \in {"sent", "mark", "failed"} => pump'[v].id # Nobody
        /\ pump'[v].pc = "mark" => pump'[v].id \in stream'
  BY <1>1 DEF CycleOK, WireOK, IInv, TypeOK, MarksAreTrue
<1> QED
  BY <1>1, <1>2, <1>3 DEF FlightOK, WireOK

LEMMA FlightStep ==
    ASSUME IInv, Next
    PROVE  FlightOK
<1>1. /\ pump \in [Workers -> Cycle] /\ stream \subseteq Events
      /\ wire \subseteq Workers \X Events /\ troubles \in Nat
      /\ \A w \in Workers : pump[w] \in Cycle /\ pump[w].claim \subseteq Events
      /\ Trouble => troubles' \in Nat
      /\ \A e \in Events : e # Nobody
  BY SharedEventOutboxAssumption DEF IInv, TypeOK, Cycle, Trouble
<1>2. /\ \A e \in stream : e \in Events /\ Underway(e)
      /\ \A w \in Workers, e \in Events :
            e \in pump[w].claim \/ pump[w].id = e \/ <<w, e>> \in wire => Underway(e)
  BY <1>1 DEF Underway
<1>3. UNCHANGED <<wire, stream>> /\ troubles' \in Nat => WireOK
  BY <1>1, <1>2 DEF WireOK
<1>4. ASSUME NEW w \in Workers, Claim(w)
      PROVE  FlightOK
  <2>1. PICK batch \in SUBSET Candidates : pump' = [pump EXCEPT ![w] = Working(batch)]
    BY <1>4 DEF Claim, kSubset
  <2>2. UNCHANGED <<wire, stream, troubles>>
    BY <1>4 DEF Claim
  <2>3. batch \in SUBSET Events
    BY DEF Candidates
  <2>4. CycleOK(Working(batch))
    BY <1>1, <2>3, CyclesTyped DEF CycleOK
  <2> QED
    BY <1>1, <1>3, <2>1, <2>2, <2>4, OneCycle
<1>5. ASSUME NEW w \in Workers, NEW e \in Events, Publish(w, e)
      PROVE  FlightOK
  <2> DEFINE c == [pc |-> "sent", claim |-> pump[w].claim \ {e}, id |-> e]
  <2>1. /\ pump' = [pump EXCEPT ![w] = c] /\ wire' = wire \cup {<<w, e>>}
        /\ e \in pump[w].claim /\ UNCHANGED <<stream, troubles>>
    BY <1>5 DEF Publish
  <2>2. CycleOK(c)
    BY <1>1, <1>2, <2>1 DEF CycleOK, Cycle
  <2>3. WireOK
    BY <1>1, <1>2, <2>1 DEF WireOK
  <2> HIDE DEF c
  <2> QED
    BY <2>1, <2>2, <2>3, OneCycle
<1>6. ASSUME NEW w \in Workers, NEW e \in Events, Append(w, e)
      PROVE  FlightOK
  <2>1. /\ <<w, e>> \in wire /\ wire' = wire \ {<<w, e>>}
        /\ stream' = stream \cup {e} /\ UNCHANGED troubles
        /\ pump' = IF Awaits(w, e) THEN [pump EXCEPT ![w].pc = "mark"] ELSE pump
    BY <1>6 DEF Append
  <2> DEFINE c == IF Awaits(w, e) THEN [pump[w] EXCEPT !.pc = "mark"] ELSE pump[w]
  <2>2. pump' = [pump EXCEPT ![w] = c]
    BY <1>1, <2>1
  <2>3. /\ c \in Cycle /\ c.claim = pump[w].claim /\ c.id = pump[w].id
        /\ c.pc \in {"sent", "mark", "failed"} => c.id # Nobody
        /\ c.pc = "mark" => c.id \in stream'
    BY <1>1, <2>1 DEF Cycle, Awaits, IInv, TypeOK, MarksAreTrue
  <2> HIDE DEF c
  <2>4. CycleOK(c)
    BY <1>2, <2>3 DEF CycleOK
  <2>5. WireOK
    BY <1>1, <1>2, <2>1 DEF WireOK
  <2> QED
    BY <2>2, <2>4, <2>5, OneCycle
<1>7. ASSUME NEW w \in Workers, pump[w].id \in Events,
             pump' = [pump EXCEPT ![w] = GivenUp(pump[w])], WireOK
      PROVE  FlightOK
  <2>1. CycleOK(GivenUp(pump[w]))
    <3>1. /\ GivenUp(pump[w]) \in Cycle /\ GivenUp(pump[w]).pc = "failed"
          /\ GivenUp(pump[w]).claim = pump[w].claim /\ GivenUp(pump[w]).id = pump[w].id
      BY <1>1, CyclesTyped
    <3>2. \A e \in Events : e \in pump[w].claim \/ pump[w].id = e => Underway(e)
      BY <1>2
    <3> QED
      BY <1>1, <1>7, <3>1, <3>2 DEF CycleOK
  <2> QED
    BY <1>7, <2>1, OneCycle
<1>8. ASSUME NEW w \in Workers, WireOK,
             pump' = [pump EXCEPT ![w] = Idle] \/ pump' = [pump EXCEPT ![w] = Working(pump[w].claim)]
      PROVE  FlightOK
  <2>1. CycleOK(Idle) /\ CycleOK(Working(pump[w].claim))
    <3>1. /\ Working(pump[w].claim) \in Cycle /\ Working(pump[w].claim).pc \in {"idle", "next"}
          /\ Working(pump[w].claim).claim = pump[w].claim /\ Working(pump[w].claim).id = Nobody
      BY <1>1, CyclesTyped
    <3>2. \A e \in Events : e # Nobody /\ (e \in pump[w].claim => Underway(e))
      BY <1>1, <1>2
    <3>3. CycleOK(Idle)
      BY <3>2, CyclesTyped DEF CycleOK
    <3>4. CycleOK(Working(pump[w].claim))
      BY <3>1, <3>2 DEF CycleOK
    <3> QED
      BY <3>3, <3>4
  <2> QED
    BY <1>8, <2>1, OneCycle
<1>9. ASSUME NEW w \in Workers, PublishFails(w)
      PROVE  FlightOK
  <2>1. pump[w].id \in Events
    BY <1>9, HasEvent DEF PublishFails
  <2>2. /\ pump' = [pump EXCEPT ![w] = GivenUp(pump[w])] /\ Trouble
        /\ wire' \subseteq wire
        /\ stream' \in {stream, stream \cup {pump[w].id}}
    BY <1>9 DEF PublishFails
  <2>3. WireOK
    BY <1>1, <1>2, <2>1, <2>2 DEF WireOK
  <2> QED
    BY <1>7, <2>1, <2>2, <2>3
<1>10. ASSUME NEW w \in Workers,
              MarkPublished(w) \/ MarkFails(w) \/ Release(w) \/ ReleaseFails(w) \/ Crash(w)
       PROVE  FlightOK
  <2>1. WireOK
    BY <1>1, <1>3, <1>10 DEF MarkPublished, MarkFails, Release, ReleaseFails, Crash
  <2>2. CASE pump[w].pc = "mark" /\ pump' = [pump EXCEPT ![w] = GivenUp(pump[w])]
    BY <1>7, <2>1, <2>2, HasEvent
  <2> QED
    BY <1>8, <1>10, <2>1, <2>2 DEF MarkPublished, MarkFails, Release, ReleaseFails, Crash
<1>11. ASSUME UNCHANGED <<pump, wire, stream>>, troubles' \in Nat
       PROVE  FlightOK
  BY <1>11 DEF FlightOK, IInv, TypeOK, MarksAreTrue, Underway
<1>12. ASSUME NEW e \in Events,
              \/ \E save \in BOOLEAN : Begin(e, save)
              \/ Commit(e) \/ Rollback(e) \/ BackoffEnds(e) \/ LeaseEnds(e) \/ Requeue(e)
       PROVE  FlightOK
  BY <1>1, <1>11, <1>12 DEF Begin, Commit, Rollback, BackoffEnds, LeaseEnds, Requeue
<1> QED
  BY <1>4, <1>5, <1>6, <1>9, <1>10, <1>12 DEF Next, WorkerStep

-----------------------------------------------------------------------------
(* Transactions *)

\* What every step does to the transactions: one that is committed stays as it is.
LEMMA TxStep ==
    ASSUME IInv, Next
    PROVE  /\ tx' \in [Events -> Tx] /\ HistoryOK'
           /\ \A e \in Events : Committed(e) => tx'[e] = tx[e]
<1>1. tx \in [Events -> Tx] /\ HistoryOK
  BY DEF IInv, TypeOK
<1>2. CASE UNCHANGED tx
  BY <1>1, <1>2 DEF HistoryOK, Committed
<1>3. ASSUME NEW e \in Events, NEW save \in BOOLEAN, Begin(e, save)
      PROVE  /\ tx' \in [Events -> Tx] /\ HistoryOK'
             /\ \A d \in Events : Committed(d) => tx'[d] = tx[d]
  <2>1. /\ tx[e].phase = "none"
        /\ tx'[e] = [phase |-> "open", save |-> save,
                     older |-> {p \in Siblings(e) : tx[p].phase # "none"},
                     before |-> {p \in Siblings(e) : Committed(p)}, under |-> {}]
        /\ \A d \in Events \ {e} : tx'[d] = tx[d]
        /\ tx' \in [Events -> Tx]
    BY <1>1, <1>3 DEF Begin, Tx, Siblings
  <2>2. \A p \in Events : Committed(p) => p # e /\ Committed(p)'
    BY <2>1 DEF Committed
  <2> QED
    BY <1>1, <2>1, <2>2 DEF HistoryOK, Committed, Tx, Siblings
<1>4. ASSUME NEW e \in Events, Commit(e)
      PROVE  /\ tx' \in [Events -> Tx] /\ HistoryOK'
             /\ \A d \in Events : Committed(d) => tx'[d] = tx[d]
  <2> DEFINE under == {p \in Siblings(e) : Committed(p)}
  <2>1. /\ tx[e].phase = "open" /\ VersionIsCurrent(e) /\ tx[e] \in Tx
        /\ tx' = [tx EXCEPT ![e].phase = "committed", ![e].under = under]
        /\ under \subseteq Events /\ \A p \in under : Committed(p)
    BY <1>1, <1>4 DEF Commit, Siblings
  <2>2. \A p \in under : tx[e].save /\ tx[p].save => p \in tx[e].before
    BY <2>1 DEF VersionIsCurrent
  <2> HIDE DEF under
  <2>3. /\ tx'[e].save = tx[e].save /\ tx'[e].before = tx[e].before /\ tx'[e].older = tx[e].older
        /\ tx'[e].under = under /\ tx'[e].phase = "committed" /\ tx'[e] \in Tx
    BY <1>1, <2>1 DEF Tx
  <2>4. \A d \in Events \ {e} : tx'[d] = tx[d]
    BY <1>1, <2>1
  <2>5. \A p \in Events : Committed(p) => p # e /\ Committed(p)' /\ tx'[p] = tx[p]
    BY <2>1, <2>4 DEF Committed
  <2>6. tx' \in [Events -> Tx]
    BY <1>1, <2>1, <2>3, <2>4
  <2>7. ASSUME NEW d \in Events
        PROVE  /\ tx'[d].before \subseteq tx'[d].older
               /\ \A p \in tx'[d].before \cup tx'[d].under : Committed(p)'
               /\ Committed(d)' /\ tx'[d].save =>
                    \A p \in tx'[d].under : tx'[p].save => p \in tx'[d].before
               /\ ~Committed(d)' => tx'[d].under = {}
    <3>1. tx[d].before \subseteq Events /\ tx[d].under \subseteq Events
      BY <1>1 DEF Tx
    <3>2. CASE d = e
      BY <1>1, <2>1, <2>2, <2>3, <2>5, <3>1, <3>2 DEF HistoryOK, Committed
    <3>3. CASE d # e
      BY <1>1, <2>4, <2>5, <3>1, <3>3 DEF HistoryOK, Committed
    <3> QED
      BY <3>2, <3>3
  <2> QED
    BY <2>5, <2>6, <2>7 DEF HistoryOK
<1>5. ASSUME NEW e \in Events, Rollback(e)
      PROVE  /\ tx' \in [Events -> Tx] /\ HistoryOK'
             /\ \A d \in Events : Committed(d) => tx'[d] = tx[d]
  <2>1. /\ tx[e].phase = "open"
        /\ tx'[e] = [tx[e] EXCEPT !.phase = "rolledBack"]
        /\ \A d \in Events \ {e} : tx'[d] = tx[d]
        /\ tx' \in [Events -> Tx]
    BY <1>1, <1>5 DEF Rollback, Tx
  <2>2. \A p \in Events : Committed(p) => p # e /\ Committed(p)'
    BY <2>1 DEF Committed
  <2> QED
    BY <1>1, <2>1, <2>2 DEF HistoryOK, Committed, Tx
<1> QED
  BY <1>2, <1>3, <1>4, <1>5
  DEF Next, WorkerStep, Claim, Publish, Append, MarkPublished, Release, PublishFails, MarkFails,
      ReleaseFails, Crash, BackoffEnds, LeaseEnds, Requeue

-----------------------------------------------------------------------------
(* The invariant *)

LEMMA InitInv == Init => IInv
<1> SUFFICES ASSUME Init PROVE IInv
  OBVIOUS
<1>1. NewRow \in Row /\ NoTx \in Tx /\ Idle \in Cycle
  BY DEF NewRow, Row, NoTx, Tx, Idle, Cycle
<1>2. TypeOK
  BY <1>1 DEF Init, TypeOK, NewRow, Idle
<1>3. HeadsOnly /\ MarksAreTrue /\ HistoryOK
  BY SharedEventOutboxAssumption DEF Init, HeadsOnly, MarksAreTrue, HistoryOK, Underway, Idle, NoTx, Committed
<1>4. PublishedIsOnStream /\ DeadForAReason
  BY DEF Init, PublishedIsOnStream, DeadForAReason, NewRow
<1> QED
  BY <1>2, <1>3, <1>4 DEF IInv

LEMMA StepInv == IInv /\ [Next]_vars => IInv'
<1> SUFFICES ASSUME IInv, [Next]_vars PROVE IInv'
  OBVIOUS
<1>1. CASE UNCHANGED vars
  BY <1>1 DEF vars, IInv, TypeOK, HeadsOnly, Underway, Committed, MarksAreTrue, HistoryOK,
      PublishedIsOnStream, DeadForAReason
<1>2. CASE Next
  <2>1. row' \in [Events -> Row] /\ \A e \in Events : GoodStep(e, row'[e])
    BY <1>2, RowsStep
  <2>2. FlightOK
    BY <1>2, FlightStep
  <2>3. /\ tx' \in [Events -> Tx] /\ HistoryOK'
        /\ \A e \in Events : Committed(e) => tx'[e] = tx[e]
    BY <1>2, TxStep
  <2>4. TypeOK'
    BY <2>1, <2>2, <2>3 DEF TypeOK, FlightOK, GoodStep, GoodRow
  <2>5. HeadsOnly'
    <3> SUFFICES ASSUME NEW e \in Events, Underway(e)'
                 PROVE  Committed(e)' /\ \A p \in tx'[e].before : row'[p].status = "PUBLISHED"
      BY DEF HeadsOnly
    <3>1. Committed(e) /\ \A p \in tx[e].before : row[p].status = "PUBLISHED"
      <4>1. CASE Underway(e)
        BY <4>1 DEF IInv, HeadsOnly
      <4>2. CASE e \in Candidates
        BY <4>2 DEF IInv, HistoryOK, Candidates, Due
      <4> QED
        BY <2>2, <4>1, <4>2 DEF FlightOK
    <3>2. tx'[e] = tx[e] /\ tx[e].before \subseteq Events
      BY <2>3, <3>1 DEF IInv, TypeOK, Tx
    <3> QED
      BY <2>1, <3>1, <3>2 DEF Committed, GoodStep
  <2>6. MarksAreTrue'
    BY <2>2 DEF FlightOK, MarksAreTrue
  <2>7. PublishedIsOnStream' /\ DeadForAReason'
    BY <2>1, <2>2 DEF GoodStep, GoodRow, FlightOK, PublishedIsOnStream, DeadForAReason
  <2> QED
    BY <2>3, <2>4, <2>5, <2>6, <2>7 DEF IInv
<1> QED
  BY <1>1, <1>2

\* The inductive invariant holds in every state of every behaviour.
THEOREM Invariance == Spec => []IInv
BY InitInv, StepInv, PTL DEF Spec

\* Every table keeps its type, and neither a published nor a dead row is leased.
THEOREM TypeCorrect == Spec => []TypeOK
<1>1. IInv => TypeOK
  BY DEF IInv
<1> QED
  BY <1>1, Invariance, PTL

\* The stream keeps the order of transactions that do not overlap (NoOvertaking), and
\* that of all the saves of a workspace (SavesInVersionOrder); nothing is marked
\* published that is not on it, and nothing dies before its last attempt.
LEMMA StreamIsOrdered ==
    Spec => [](NoOvertaking /\ SavesInVersionOrder /\ PublishedIsOnStream /\ DeadForAReason)
<1>1. IInv => NoOvertaking /\ SavesInVersionOrder /\ PublishedIsOnStream /\ DeadForAReason
  <2> SUFFICES ASSUME IInv
               PROVE  NoOvertaking /\ SavesInVersionOrder /\ PublishedIsOnStream /\ DeadForAReason
    OBVIOUS
  <2>1. \A e \in stream : e \in Events /\ tx[e].before \subseteq Events /\ tx[e].under \subseteq Events
    BY DEF IInv, TypeOK, Tx
  <2>2. \A e \in stream : Committed(e) /\ \A p \in tx[e].before : row[p].status = "PUBLISHED"
    BY <2>1 DEF IInv, HeadsOnly, Underway
  <2>3. NoOvertaking
    BY <2>1, <2>2 DEF NoOvertaking, IInv, PublishedIsOnStream
  <2>4. SavesInVersionOrder
    BY <2>1, <2>2, <2>3 DEF SavesInVersionOrder, NoOvertaking, IInv, HistoryOK
  <2> QED
    BY <2>3, <2>4 DEF IInv
<1> QED
  BY <1>1, Invariance, PTL

\* NoOvertaking: Redis executes an event of an aggregate after every one whose
\* transaction had ended before (claimBatch takes the head of each aggregate).
THEOREM NothingOvertakes == Spec => []NoOvertaking
BY StreamIsOrdered, PTL

\* SavesInVersionOrder: the saves of a workspace reach the stream in their order,
\* although their transactions overlap.
THEOREM SavesStayInOrder == Spec => []SavesInVersionOrder
BY StreamIsOrdered, PTL

\* PublishedIsOnStream: no row is marked published before its XADD is executed
\* (markPublished).
THEOREM NothingPublishedEarly == Spec => []PublishedIsOnStream
BY StreamIsOrdered, PTL

\* DeadForAReason: only the last attempt of an event makes it a dead letter
\* (releaseForRetry).
THEOREM NothingDiesEarly == Spec => []DeadForAReason
BY StreamIsOrdered, PTL

\* What is published stays as it is, and a dead letter waits for the operator: no
\* call of a worker that has lost its lease changes either.
THEOREM OutcomesStay == Spec => OutcomesStand
<1>1. IInv /\ [Next]_vars =>
        [\A e \in Events :
            /\ row[e].status = "PUBLISHED" => row'[e] = row[e]
            /\ row[e].status = "DEAD" => row'[e] = row[e] \/ Requeue(e)]_vars
  BY RowsStep DEF GoodStep
<1> QED
  BY <1>1, Invariance, PTL DEF Spec, OutcomesStand
=============================================================================
