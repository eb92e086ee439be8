------------------------- MODULE OfflineQueueProofs -------------------------
(***************************************************************************)
(* Theorems about OfflineQueue, for every set of messages and every value  *)
(* of the options.                                                         *)
(***************************************************************************)
EXTENDS OfflineQueue, Sums, FiniteSetTheorems, SequenceTheorems, TLAPS

RowTypeOK == row \in [Msgs -> Row \cup {Absent}]

LogTypeOK ==
    /\ audit \in Seq(AuditEvent)
    /\ summary \in [Reasons \X Statuses -> Nat]
    /\ audited \in Nat

-----------------------------------------------------------------------------
(* The row operators. *)

\* Statuses of rows, read off the type.
LEMMA RowFacts ==
    ASSUME RowTypeOK, NEW m \in Msgs
    PROVE  /\ m \in Queued => row[m] \in Row
           /\ m \notin Queued => row[m] = Absent
           /\ Live(m) => m \in Queued
           /\ Dead(m) => m \in Queued
           /\ m \in Queued <=> row[m].status \in Statuses
           /\ row[m].retry \in Nat
           /\ row[m].id \in Nat
BY DEF RowTypeOK, Row, Absent, Queued, Live, Dead, LiveStatuses, Statuses

\* UpdateState rewrites one queued row and keeps its place in the queue.
LEMMA UpdatedFacts ==
    ASSUME RowTypeOK, NEW m \in Queued,
           NEW status \in Statuses, NEW retry \in Nat,
           NEW due \in BOOLEAN, NEW deadline \in BOOLEAN
    PROVE  LET new == Updated(m, status, retry, due, deadline)
           IN  /\ new \in [Msgs -> Row \cup {Absent}]
               /\ new[m].status = status
               /\ new[m].retry = retry
               /\ new[m].id = row[m].id
               /\ \A n \in Msgs : n # m => new[n] = row[n]
<1>1. m \in Msgs /\ row[m] \in Row
  BY RowFacts DEF Queued
<1>2. [status |-> status, retry |-> retry, due |-> due, old |-> row[m].old,
       deadline |-> deadline, id |-> row[m].id] \in Row
  BY <1>1 DEF Row
<1>3. QED
  BY <1>1, <1>2 DEF Updated, RowTypeOK

\* Deleting rows leaves the others alone.
LEMMA WithoutFacts ==
    ASSUME RowTypeOK, NEW gone
    PROVE  /\ Without(gone) \in [Msgs -> Row \cup {Absent}]
           /\ \A n \in Msgs : Without(gone)[n] = IF n \in gone THEN Absent ELSE row[n]
BY DEF Without, RowTypeOK

-----------------------------------------------------------------------------
(* The audit log. *)

\* A function on 1..n is a sequence of length n.
LEMMA FunctionIsSeq ==
    ASSUME NEW S, NEW n \in Nat, NEW f \in [1..n -> S]
    PROVE  f \in Seq(S) /\ Len(f) = n
OBVIOUS

\* Every blocking event of a log has its blocker.
LEMMA BlockingStepFacts ==
    ASSUME NEW log,
           \A i \in 1..Len(log) : log[i].blocks => blocker'[log[i].msg] = "unresolved",
           \A i \in 1..Len(audit') : \E j \in 1..Len(log) : audit'[i] = log[j]
    PROVE  BlockingAuditHasBlocker'
<1> SUFFICES ASSUME NEW i \in 1..Len(audit'), audit'[i].blocks
             PROVE  blocker'[audit'[i].msg] = "unresolved"
  BY DEF BlockingAuditHasBlocker
<1>1. PICK j \in 1..Len(log) : audit'[i] = log[j]
  OBVIOUS
<1> QED
  BY <1>1

\* The events of a removal are well formed; the blocking ones are of DEAD rows.
LEMMA RemovalEventsFacts ==
    ASSUME RowTypeOK, IsFiniteSet(Msgs),
           NEW expired \in SUBSET Queued, NEW evicted \in SUBSET Queued,
           NEW events \in RemovalEvents(expired, evicted)
    PROVE  /\ Cardinality(expired \cup evicted) \in Nat
           /\ events \in Seq(AuditEvent)
           /\ Len(events) = Cardinality(expired \cup evicted)
           /\ \A i \in 1..Len(events) :
                 events[i].blocks => /\ events[i].msg \in expired \cup evicted
                                     /\ Dead(events[i].msg)
<1> DEFINE gone == expired \cup evicted
           N == Cardinality(gone)
           Event(m) ==
             [msg |-> m, status |-> row[m].status,
              reason |-> IF m \in expired THEN "EXPIRED" ELSE "PAYLOAD_BUDGET_EVICTION",
              blocks |-> Dead(m)]
<1>1. gone \subseteq Queued /\ gone \subseteq Msgs
  BY DEF Queued
<1>2. N \in Nat
  BY <1>1, FS_Subset, FS_CardinalityType
<1>3. PICK s \in Listing(gone) : events = [i \in 1..N |-> Event(s[i])]
  BY DEF RemovalEvents
<1>4. s \in [1..N -> gone]
  BY <1>3 DEF Listing
<1>5. \A m \in gone : Event(m) \in AuditEvent
  <2> SUFFICES ASSUME NEW m \in gone PROVE Event(m) \in AuditEvent
    OBVIOUS
  <2>1. m \in Msgs /\ row[m].status \in Statuses
    BY <1>1, RowFacts
  <2> QED
    BY <2>1 DEF AuditEvent, Reasons, Dead
<1>6. events \in [1..N -> AuditEvent]
  BY <1>3, <1>4, <1>5
<1>7. \A i \in 1..N : /\ s[i] \in gone
                       /\ events[i].msg = s[i]
                       /\ events[i].blocks = Dead(s[i])
  BY <1>3, <1>4
<1> HIDE DEF gone, N, Event
<1>8. events \in Seq(AuditEvent) /\ Len(events) = N
  BY <1>2, <1>6, FunctionIsSeq
<1>9. \A i \in 1..Len(events) :
          events[i].blocks => events[i].msg \in gone /\ Dead(events[i].msg)
  BY <1>7, <1>8
<1> QED
  BY <1>2, <1>8, <1>9 DEF gone, N

\* EnforceAuditRetention keeps a suffix of the log.
LEMMA RetentionFacts ==
    ASSUME LogTypeOK, NEW log \in Seq(AuditEvent), EnforceAuditRetention(log)
    PROVE  /\ audit' \in Seq(AuditEvent)
           /\ summary' \in [Reasons \X Statuses -> Nat]
           /\ \A i \in 1..Len(audit') : \E j \in 1..Len(log) : audit'[i] = log[j]
<1>1. PICK k \in 0..Len(log) :
        /\ audit' = SubSeq(log, k + 1, Len(log))
        /\ summary' = [c \in Reasons \X Statuses |->
                        summary[c] + Cardinality({i \in 1..k :
                                        <<log[i].reason, log[i].status>> = c})]
  BY DEF EnforceAuditRetention
<1>2. Len(log) \in Nat /\ \A i \in 1..Len(log) : log[i] \in AuditEvent
  BY LenProperties, ElementOfSeq
<1>3. /\ audit' \in Seq(AuditEvent)
      /\ Len(audit') = Len(log) - k
      /\ \A i \in 1..(Len(log) - k) : audit'[i] = log[k + i]
  <2>1. \A i \in (k + 1)..Len(log) : log[i] \in AuditEvent
    BY <1>2
  <2>2. k + 1 \in Int /\ Len(log) \in Int
    BY <1>2
  <2> QED
    BY <1>1, <1>2, <2>1, <2>2, SubSeqProperties
<1>4. \A i \in 1..Len(audit') : k + i \in 1..Len(log) /\ audit'[i] = log[k + i]
  BY <1>2, <1>3
<1>5. \A c : Cardinality({i \in 1..k : <<log[i].reason, log[i].status>> = c}) \in Nat
  <2> TAKE c
  <2>1. IsFiniteSet(1..k)
    BY <1>2, FS_Interval
  <2> QED
    BY <2>1, FS_Subset, FS_CardinalityType
<1>6. summary' \in [Reasons \X Statuses -> Nat]
  <2> DEFINE folded(c) == Cardinality({i \in 1..k : <<log[i].reason, log[i].status>> = c})
  <2>1. summary' = [c \in Reasons \X Statuses |-> summary[c] + folded(c)]
    BY <1>1
  <2>2. \A c : folded(c) \in Nat
    BY <1>5
  <2> HIDE DEF folded
  <2>3. \A c \in Reasons \X Statuses : summary[c] + folded(c) \in Nat
    BY <2>2 DEF LogTypeOK
  <2> QED
    BY <2>1, <2>3
<1> QED
  BY <1>3, <1>4, <1>6

\* Removing rows keeps the tables well formed and blocks for every DEAD row.
LEMMA AuditRemovalFacts ==
    ASSUME QueueAssumption, RowTypeOK, LogTypeOK, BlockingAuditHasBlocker,
           blocker \in [Msgs -> BlockerStates],
           NEW expired \in SUBSET Queued, NEW evicted \in SUBSET Queued,
           NEW retention \in BOOLEAN, AuditRemoval(expired, evicted, retention)
    PROVE  /\ blocker' \in [Msgs -> BlockerStates]
           /\ LogTypeOK'
           /\ BlockingAuditHasBlocker'
<1>1. blocker' = BlockersAfter(expired \cup evicted)
  BY DEF AuditRemoval
<1>2. blocker' \in [Msgs -> BlockerStates]
  BY <1>1 DEF BlockersAfter, BlockerStates
<1>3. PICK events \in RemovalEvents(expired, evicted) :
        IF retention THEN EnforceAuditRetention(audit \o events)
                     ELSE audit' = audit \o events /\ UNCHANGED summary
  BY DEF AuditRemoval
<1>4. /\ Cardinality(expired \cup evicted) \in Nat
      /\ events \in Seq(AuditEvent)
      /\ \A i \in 1..Len(events) :
            events[i].blocks => /\ events[i].msg \in expired \cup evicted
                                /\ Dead(events[i].msg)
  BY RemovalEventsFacts DEF QueueAssumption
<1> DEFINE log == audit \o events
<1>5. /\ log \in Seq(AuditEvent)
      /\ Len(audit) \in Nat /\ Len(events) \in Nat
      /\ Len(log) = Len(audit) + Len(events)
      /\ \A i \in 1..Len(log) :
            log[i] = IF i <= Len(audit) THEN audit[i] ELSE events[i - Len(audit)]
  BY <1>4, ConcatProperties, LenProperties DEF LogTypeOK
<1>6. \A i \in 1..Len(log) : log[i].blocks => blocker'[log[i].msg] = "unresolved"
  <2> SUFFICES ASSUME NEW i \in 1..Len(log), log[i].blocks
               PROVE  blocker'[log[i].msg] = "unresolved"
    OBVIOUS
  <2>1. log[i].msg \in Msgs
    <3>1. log[i] \in AuditEvent
      BY <1>5, ElementOfSeq
    <3> QED
      BY <3>1 DEF AuditEvent
  <2>2. CASE i <= Len(audit)
    <3>1. i \in 1..Len(audit) /\ log[i] = audit[i]
      BY <1>5, <2>2
    <3>2. blocker[log[i].msg] = "unresolved"
      BY <3>1 DEF BlockingAuditHasBlocker
    <3> QED
      BY <1>1, <2>1, <3>2 DEF BlockersAfter
  <2>3. CASE ~(i <= Len(audit))
    <3>1. i - Len(audit) \in 1..Len(events) /\ log[i] = events[i - Len(audit)]
      BY <1>5, <2>3
    <3> QED
      BY <1>1, <1>4, <2>1, <3>1 DEF BlockersAfter
  <2> QED
    BY <2>2, <2>3
<1>7. /\ audit' \in Seq(AuditEvent)
      /\ summary' \in [Reasons \X Statuses -> Nat]
      /\ \A i \in 1..Len(audit') : \E j \in 1..Len(log) : audit'[i] = log[j]
  <2>1. CASE retention
    BY <1>3, <1>5, <2>1, RetentionFacts
  <2>2. CASE ~retention
    BY <1>3, <1>5, <2>2 DEF LogTypeOK
  <2> QED
    BY <2>1, <2>2
<1>8. audited' \in Nat
  BY <1>4 DEF AuditRemoval, LogTypeOK
<1>9. BlockingAuditHasBlocker'
  BY <1>6, <1>7, BlockingStepFacts
<1> QED
  BY <1>2, <1>7, <1>8, <1>9 DEF LogTypeOK

\* An operator decision keeps the tables well formed, closes the message's
\* blocking events and resolves at most that message's blocker.
LEMMA AuditDecisionFacts ==
    ASSUME LogTypeOK, BlockingAuditHasBlocker,
           blocker \in [Msgs -> BlockerStates],
           NEW m \in Msgs, NEW status \in Statuses, NEW reason \in Reasons,
           AuditDecision(m, status, reason)
    PROVE  /\ blocker' \in [Msgs -> BlockerStates]
           /\ LogTypeOK'
           /\ BlockingAuditHasBlocker'
           /\ \A n \in Msgs : n # m => blocker'[n] = blocker[n]
<1> DEFINE Closed(e) == IF e.msg = m THEN [e EXCEPT !.blocks = FALSE] ELSE e
           event == [msg |-> m, status |-> status, reason |-> reason, blocks |-> FALSE]
           closed == [i \in 1..Len(audit) |-> Closed(audit[i])]
           log == Append(closed, event)
<1>1. /\ blocker' = IF blocker[m] = "unresolved"
                    THEN [blocker EXCEPT ![m] = "resolved"] ELSE blocker
      /\ audited' = audited + 1
      /\ EnforceAuditRetention(log)
  BY DEF AuditDecision
<1>2. /\ blocker' \in [Msgs -> BlockerStates]
      /\ \A n \in Msgs : n # m => blocker'[n] = blocker[n]
  BY <1>1 DEF BlockerStates
<1>3. Len(audit) \in Nat /\ \A i \in 1..Len(audit) : audit[i] \in AuditEvent
  BY LenProperties, ElementOfSeq DEF LogTypeOK
<1>4. \A e \in AuditEvent : /\ Closed(e) \in AuditEvent
                            /\ Closed(e).msg = e.msg
                            /\ Closed(e).blocks => e.msg # m /\ e.blocks
  BY DEF AuditEvent
<1>5. closed \in [1..Len(audit) -> AuditEvent]
  BY <1>3, <1>4
<1>6. closed \in Seq(AuditEvent) /\ Len(closed) = Len(audit)
  BY <1>3, <1>5
<1>7. event \in AuditEvent
  BY DEF AuditEvent
<1>8. /\ log \in Seq(AuditEvent)
      /\ Len(log) = Len(audit) + 1
      /\ \A i \in 1..Len(log) : log[i] = IF i <= Len(audit) THEN closed[i] ELSE event
  <2> HIDE DEF closed, event
  <2>1. \A i \in 1..(Len(closed) + 1) :
            Append(closed, event)[i] = IF i <= Len(closed) THEN closed[i] ELSE event
    BY <1>6, <1>7, AppendProperties
  <2> QED
    BY <1>3, <1>6, <1>7, <2>1, AppendProperties
<1>9. \A i \in 1..Len(log) : log[i].blocks => blocker'[log[i].msg] = "unresolved"
  <2> SUFFICES ASSUME NEW i \in 1..Len(log), log[i].blocks
               PROVE  blocker'[log[i].msg] = "unresolved"
    OBVIOUS
  <2>1. i \in 1..Len(audit) /\ log[i] = Closed(audit[i])
    BY <1>3, <1>8
  <2>2. audit[i] \in AuditEvent /\ audit[i].blocks /\ audit[i].msg # m
        /\ log[i].msg = audit[i].msg
    BY <1>3, <1>4, <2>1
  <2>3. blocker[audit[i].msg] = "unresolved"
    BY <2>1, <2>2 DEF BlockingAuditHasBlocker
  <2>4. audit[i].msg \in Msgs
    BY <2>2 DEF AuditEvent
  <2> QED
    BY <1>2, <2>2, <2>3, <2>4
<1>10. /\ audit' \in Seq(AuditEvent)
       /\ summary' \in [Reasons \X Statuses -> Nat]
       /\ \A i \in 1..Len(audit') : \E j \in 1..Len(log) : audit'[i] = log[j]
  BY <1>1, <1>8, RetentionFacts
<1>11. BlockingAuditHasBlocker'
  BY <1>9, <1>10, BlockingStepFacts
<1> QED
  BY <1>1, <1>2, <1>10, <1>11 DEF LogTypeOK

-----------------------------------------------------------------------------
(* The inductive invariant.  RowIdsAreUnique needs the type of nextId,     *)
(* BlockingAuditHasBlocker that of the log; the conjuncts do not otherwise *)
(* depend on each other.                                                   *)

RowsOK == RowTypeOK /\ nextId \in Nat \ {0} /\ RowIdsAreUnique /\ ReplayHasAttemptsLeft

TablesOK == blocker \in [Msgs -> BlockerStates] /\ LogTypeOK /\ BlockingAuditHasBlocker

IInv == RowsOK /\ TablesOK

\* Rewriting a queued row with UpdateState keeps the rows well formed, when a
\* row made RETRY has attempts left.
LEMMA UpdateKeepsRows ==
    ASSUME RowsOK, NEW m \in Queued,
           NEW status \in Statuses \ {"PENDING"}, NEW retry \in Nat,
           status = "RETRY" => retry < MaxAttempts,
           NEW due \in BOOLEAN, NEW deadline \in BOOLEAN,
           row' = Updated(m, status, retry, due, deadline), nextId' = nextId
    PROVE  RowsOK'
<1>1. /\ row' \in [Msgs -> Row \cup {Absent}]
      /\ row'[m].status = status /\ row'[m].retry = retry /\ row'[m].id = row[m].id
      /\ \A n \in Msgs : n # m => row'[n] = row[n]
  <2>1. RowTypeOK /\ status \in Statuses
    BY DEF RowsOK
  <2> QED
    BY <2>1, UpdatedFacts
<1>2. RowIdsAreUnique'
  <2> SUFFICES ASSUME NEW a \in Queued', NEW b \in Queued'
               PROVE  row'[a].id < nextId' /\ (row'[a].id = row'[b].id => a = b)
    BY DEF RowIdsAreUnique
  <2>1. a \in Queued /\ b \in Queued
    BY <1>1 DEF Queued
  <2>2. row'[a].id = row[a].id /\ row'[b].id = row[b].id
    BY <1>1, <2>1 DEF Queued
  <2> QED
    BY <2>1, <2>2 DEF RowsOK, RowIdsAreUnique
<1>3. ReplayHasAttemptsLeft'
  <2> SUFFICES ASSUME NEW n \in Msgs
               PROVE  /\ row'[n].status = "PENDING" => row'[n].retry = 0
                      /\ row'[n].status = "RETRY" => row'[n].retry < MaxAttempts
    BY DEF ReplayHasAttemptsLeft
  <2> QED
    BY <1>1 DEF RowsOK, ReplayHasAttemptsLeft
<1> QED
  BY <1>1, <1>2, <1>3 DEF RowsOK, RowTypeOK

\* Deleting rows keeps the rest well formed.
LEMMA RemovalKeepsRows ==
    ASSUME RowsOK, NEW gone, row' = Without(gone), nextId' = nextId
    PROVE  RowsOK'
<1>1. /\ row' \in [Msgs -> Row \cup {Absent}]
      /\ \A n \in Msgs : row'[n] = IF n \in gone THEN Absent ELSE row[n]
  BY WithoutFacts DEF RowsOK
<1>2. \A n \in Queued' : n \in Queued /\ row'[n] = row[n]
  BY <1>1 DEF Queued, Absent
<1>3. RowIdsAreUnique'
  BY <1>2 DEF RowsOK, RowIdsAreUnique
<1>4. ReplayHasAttemptsLeft'
  BY <1>1 DEF RowsOK, ReplayHasAttemptsLeft, Absent
<1> QED
  BY <1>1, <1>3, <1>4 DEF RowsOK, RowTypeOK

\* An operation that writes no audit event and resolves no blocker.
LEMMA AuditUntouched ==
    ASSUME TablesOK, AuditUnchanged, blocker' \in [Msgs -> BlockerStates],
           \A m \in Msgs : blocker[m] = "unresolved" => blocker'[m] = "unresolved"
    PROVE  TablesOK'
<1>1. LogTypeOK'
  BY DEF AuditUnchanged, TablesOK, LogTypeOK
<1>2. \A i \in 1..Len(audit) : audit[i].msg \in Msgs
  <2> SUFFICES ASSUME NEW i \in 1..Len(audit) PROVE audit[i].msg \in Msgs
    OBVIOUS
  <2>1. audit[i] \in AuditEvent
    BY ElementOfSeq DEF TablesOK, LogTypeOK
  <2> QED
    BY <2>1 DEF AuditEvent
<1>3. BlockingAuditHasBlocker'
  BY <1>2 DEF BlockingAuditHasBlocker, AuditUnchanged, TablesOK
<1> QED
  BY <1>1, <1>3 DEF TablesOK

LEMMA InitInvariant == Init => IInv
<1> SUFFICES ASSUME Init PROVE IInv
  OBVIOUS
<1>1. row = [m \in Msgs |-> Absent] /\ Queued = {}
  BY DEF Init, Queued, Absent
<1>2. RowsOK
  BY <1>1 DEF Init, RowsOK, RowTypeOK, RowIdsAreUnique, ReplayHasAttemptsLeft, Absent
<1>3. TablesOK
  BY DEF Init, TablesOK, LogTypeOK, BlockerStates, BlockingAuditHasBlocker
<1> QED
  BY <1>2, <1>3 DEF IInv

-----------------------------------------------------------------------------
(* One lemma per operation whose proof is more than a citation. *)

LEMMA EnqueueInvariant ==
    ASSUME QueueAssumption, IInv, NEW m \in Msgs, Enqueue(m)
    PROVE  IInv'
<1> DEFINE kept == Queued \ Expired
           evicted == IF m \in kept THEN {} ELSE Evicted(kept, Size[m])
           gone == Expired \cup evicted
<1>1. /\ row' = IF m \in kept THEN Without(gone) ELSE [Without(gone) EXCEPT ![m] = Fresh]
      /\ nextId' = IF m \in kept THEN nextId ELSE nextId + 1
      /\ AuditRemoval(Expired, evicted, evicted # {})
  BY DEF Enqueue
<1>2. Expired \subseteq Queued /\ evicted \subseteq Queued
  BY DEF Expired, Evicted
<1>3. TablesOK'
  BY <1>1, <1>2, AuditRemovalFacts DEF IInv, TablesOK, RowsOK
<1>4. CASE m \in kept
  BY <1>1, <1>3, <1>4, RemovalKeepsRows DEF IInv
<1>5. CASE m \notin kept
  <2>1. row' = [Without(gone) EXCEPT ![m] = Fresh] /\ nextId' = nextId + 1
    BY <1>1, <1>5
  <2>2. nextId \in Nat \ {0} /\ Fresh \in Row
    BY DEF Fresh, IInv, RowsOK, Row, Statuses, LiveStatuses
  <2>3. /\ row' \in [Msgs -> Row \cup {Absent}]
        /\ row'[m] = Fresh
        /\ \A n \in Msgs \ {m} : row'[n] = IF n \in gone THEN Absent ELSE row[n]
    <3> HIDE DEF gone
    <3> QED
      BY <2>1, <2>2, WithoutFacts DEF IInv, RowsOK
  <2> /\ Fresh.id = nextId /\ Fresh.status = "PENDING" /\ Fresh.retry = 0
    BY DEF Fresh
  <2> HIDE DEF gone, evicted, kept
  <2>4. \A n \in Queued' : n \in Msgs /\ (n # m => n \in Queued /\ row'[n] = row[n])
    BY <2>3 DEF Queued, Absent
  <2>5. \A n \in Queued : row[n].id \in Nat /\ row[n].id < nextId
    BY RowFacts DEF IInv, RowsOK, RowIdsAreUnique, Queued
  <2>6. RowIdsAreUnique'
    BY <2>1, <2>2, <2>3, <2>4, <2>5 DEF IInv, RowsOK, RowIdsAreUnique
  <2>7. ReplayHasAttemptsLeft'
    BY <2>3 DEF IInv, RowsOK, ReplayHasAttemptsLeft, Absent
  <2>8. RowTypeOK' /\ nextId' \in Nat \ {0}
    BY <2>1, <2>2, <2>3 DEF RowTypeOK
  <2> QED
    BY <1>3, <2>6, <2>7, <2>8 DEF IInv, RowsOK
<1> QED
  BY <1>4, <1>5

\* RemoveExpired and the constructor.
LEMMA RemovalInvariant ==
    ASSUME QueueAssumption, IInv, RemoveExpired \/ EnforceRetention
    PROVE  IInv'
<1>1. PICK evicted \in SUBSET Queued :
        /\ row' = Without(Expired \cup evicted)
        /\ AuditRemoval(Expired, evicted, TRUE)
        /\ nextId' = nextId
  <2>1. CASE RemoveExpired
    <3>1. Expired \cup {} = Expired
      OBVIOUS
    <3> QED
      BY <2>1, <3>1 DEF RemoveExpired
  <2>2. CASE EnforceRetention
    <3> DEFINE evicted == Evicted(Queued \ Expired, 0)
    <3>1. evicted \in SUBSET Queued
      BY DEF Evicted
    <3> QED
      BY <2>2, <3>1 DEF EnforceRetention
  <2> QED
    BY <2>1, <2>2
<1>2. Expired \in SUBSET Queued
  BY DEF Expired
<1>3. TablesOK'
  BY <1>1, <1>2, AuditRemovalFacts DEF IInv, TablesOK, RowsOK
<1>4. RowsOK'
  BY <1>1, RemovalKeepsRows DEF IInv
<1> QED
  BY <1>3, <1>4 DEF IInv

LEMMA DeadlineInvariant ==
    ASSUME IInv, MoveExpiredAcknowledgementsToDead
    PROVE  IInv'
<1> DEFINE Overdue(m) == /\ row[m].status = "AWAITING_ACK"
                         /\ row[m].retry >= MaxAttempts
                         /\ row[m].due
           died(m) == [row[m] EXCEPT !.status = "DEAD", !.due = FALSE, !.deadline = TRUE]
<1>1. row' = [m \in Msgs |-> IF Overdue(m) THEN died(m) ELSE row[m]]
  BY DEF MoveExpiredAcknowledgementsToDead
<1>2. \A m \in Msgs : Overdue(m) => /\ row[m] \in Row
                                    /\ died(m) \in Row
                                    /\ died(m).status = "DEAD"
                                    /\ died(m).id = row[m].id
  <2> SUFFICES ASSUME NEW m \in Msgs, Overdue(m)
               PROVE  /\ row[m] \in Row /\ died(m) \in Row
                      /\ died(m).status = "DEAD" /\ died(m).id = row[m].id
    OBVIOUS
  <2>1. row[m] \in Row
    BY RowFacts DEF IInv, RowsOK, Statuses, LiveStatuses
  <2> QED
    BY <2>1 DEF Row, Statuses
<1>3. /\ row' \in [Msgs -> Row \cup {Absent}]
      /\ \A m \in Msgs : /\ row'[m].id = row[m].id
                         /\ row'[m] = row[m] \/ row'[m].status = "DEAD"
                         /\ m \in Queued' => m \in Queued
  <2> HIDE DEF died
  <2>1. row \in [Msgs -> Row \cup {Absent}]
    BY DEF IInv, RowsOK, RowTypeOK
  <2>2. \A m \in Msgs : row'[m] = IF Overdue(m) THEN died(m) ELSE row[m]
    BY <1>1
  <2>3. row' \in [Msgs -> Row \cup {Absent}]
    BY <1>1, <1>2, <2>1
  <2>4. \A m \in Msgs : Overdue(m) => m \in Queued
    BY DEF Queued
  <2> QED
    BY <1>2, <2>2, <2>3, <2>4 DEF Queued
<1>4. nextId' = nextId
  BY DEF MoveExpiredAcknowledgementsToDead
<1>5. RowIdsAreUnique'
  <2>1. \A m \in Queued' : m \in Msgs /\ m \in Queued /\ row'[m].id = row[m].id
    BY <1>3 DEF Queued
  <2> QED
    BY <1>4, <2>1 DEF IInv, RowsOK, RowIdsAreUnique
<1>6. ReplayHasAttemptsLeft'
  BY <1>3 DEF IInv, RowsOK, ReplayHasAttemptsLeft
<1>7. RowsOK'
  BY <1>3, <1>4, <1>5, <1>6 DEF IInv, RowsOK, RowTypeOK
<1>8. TablesOK'
  <2>1. /\ blocker' \in [Msgs -> BlockerStates]
        /\ \A m \in Msgs : blocker[m] = "unresolved" => blocker'[m] = "unresolved"
    BY DEF MoveExpiredAcknowledgementsToDead, IInv, TablesOK, BlockerStates
  <2>2. AuditUnchanged
    BY DEF MoveExpiredAcknowledgementsToDead
  <2> QED
    BY <2>1, <2>2, AuditUntouched DEF IInv
<1> QED
  BY <1>7, <1>8 DEF IInv

\* The passing of time changes neither the state nor the order of the rows.
LEMMA TimeInvariant ==
    ASSUME IInv, NEW m \in Msgs, Elapse(m) \/ Age(m)
    PROVE  IInv'
<1>1. row[m] \in Row
  BY RowFacts DEF IInv, RowsOK, Elapse, Age
<1>2. /\ row' \in [Msgs -> Row \cup {Absent}]
      /\ \A n \in Msgs : /\ row'[n].status = row[n].status
                         /\ row'[n].retry = row[n].retry
                         /\ row'[n].id = row[n].id
  <2>1. row \in [Msgs -> Row \cup {Absent}]
    BY DEF IInv, RowsOK, RowTypeOK
  <2>2. CASE Elapse(m)
    <3>1. [row[m] EXCEPT !.due = TRUE] \in Row
      BY <1>1 DEF Row
    <3> QED
      BY <1>1, <2>1, <2>2, <3>1 DEF Elapse, Row
  <2>3. CASE Age(m)
    <3>1. [row[m] EXCEPT !.old = TRUE] \in Row
      BY <1>1 DEF Row
    <3> QED
      BY <1>1, <2>1, <2>3, <3>1 DEF Age, Row
  <2> QED
    BY <2>2, <2>3
<1>3. nextId' = nextId /\ blocker' = blocker /\ AuditUnchanged
  BY DEF Elapse, Age
<1>4. RowIdsAreUnique'
  <2>1. \A n \in Queued' : n \in Msgs /\ n \in Queued /\ row'[n].id = row[n].id
    BY <1>2 DEF Queued
  <2> QED
    BY <1>3, <2>1 DEF IInv, RowsOK, RowIdsAreUnique
<1>5. ReplayHasAttemptsLeft'
  BY <1>2 DEF IInv, RowsOK, ReplayHasAttemptsLeft
<1>6. TablesOK'
  BY <1>3, AuditUntouched DEF IInv, TablesOK
<1> QED
  BY <1>2, <1>3, <1>4, <1>5, <1>6 DEF IInv, RowsOK, RowTypeOK

LEMMA StutterInvariant == IInv /\ UNCHANGED vars => IInv'
<1> SUFFICES ASSUME IInv, UNCHANGED vars PROVE IInv'
  OBVIOUS
<1>1. RowsOK'
  BY DEF IInv, RowsOK, vars, RowTypeOK, RowIdsAreUnique, ReplayHasAttemptsLeft, Queued
<1>2. TablesOK'
  BY AuditUntouched DEF IInv, TablesOK, vars, AuditUnchanged
<1> QED
  BY <1>1, <1>2 DEF IInv

\* An operation on m that rewrites m's row or leaves all rows alone, writes no
\* audit event and resolves no blocker.
LEMMA RewriteInvariant ==
    ASSUME IInv, NEW m \in Msgs, nextId' = nextId, AuditUnchanged,
           blocker' = blocker \/ blocker' = [blocker EXCEPT ![m] = "unresolved"],
           \/ row' = row
           \/ /\ m \in Queued
              /\ \E status \in Statuses \ {"PENDING"}, retry \in Nat,
                    due \in BOOLEAN, deadline \in BOOLEAN :
                    /\ status = "RETRY" => retry < MaxAttempts
                    /\ row' = Updated(m, status, retry, due, deadline)
    PROVE  IInv'
<1>1. RowsOK'
  <2>1. CASE row' = row
    BY <2>1 DEF IInv, RowsOK, RowTypeOK, RowIdsAreUnique, ReplayHasAttemptsLeft, Queued
  <2>2. CASE row' # row
    <3>1. m \in Queued
      BY <2>2
    <3>2. PICK status \in Statuses \ {"PENDING"}, retry \in Nat,
               due \in BOOLEAN, deadline \in BOOLEAN :
               /\ status = "RETRY" => retry < MaxAttempts
               /\ row' = Updated(m, status, retry, due, deadline)
      BY <2>2
    <3> QED
      BY <3>1, <3>2, UpdateKeepsRows DEF IInv
  <2> QED
    BY <2>1, <2>2
<1>2. TablesOK'
  <2>1. /\ blocker' \in [Msgs -> BlockerStates]
        /\ \A n \in Msgs : blocker[n] = "unresolved" => blocker'[n] = "unresolved"
    BY DEF IInv, TablesOK, BlockerStates
  <2> QED
    BY <2>1, AuditUntouched DEF IInv
<1> QED
  BY <1>1, <1>2 DEF IInv

\* A delivery that failed: the row waits for a retry while it has attempts left.
LEMMA FailureInvariant ==
    ASSUME QueueAssumption, IInv, NEW m \in Msgs, m \in Queued, NEW retry \in Nat,
           nextId' = nextId, blocker' = blocker, AuditUnchanged,
           row' = IF retry >= MaxAttempts THEN Updated(m, "DEAD", retry, FALSE, FALSE)
                  ELSE Updated(m, "RETRY", retry, FALSE, FALSE)
    PROVE  IInv'
<1>1. {"DEAD", "RETRY"} \subseteq Statuses \ {"PENDING"} /\ MaxAttempts \in Nat
  BY DEF Statuses, LiveStatuses, QueueAssumption
<1>2. CASE retry >= MaxAttempts
  <2>1. row' = Updated(m, "DEAD", retry, FALSE, FALSE)
    BY <1>2
  <2> QED
    BY <1>1, <2>1, RewriteInvariant
<1>3. CASE ~(retry >= MaxAttempts)
  <2>1. row' = Updated(m, "RETRY", retry, FALSE, FALSE)
    BY <1>3
  <2>2. retry < MaxAttempts
    BY <1>1, <1>3
  <2> QED
    BY <1>1, <2>1, <2>2, RewriteInvariant
<1> QED
  BY <1>2, <1>3

LEMMA NextInvariant ==
    ASSUME QueueAssumption, IInv, [Next]_vars
    PROVE  IInv'
<1> USE DEF IInv
<1>a. \A m \in Msgs : /\ Live(m) => m \in Queued
                      /\ Dead(m) => m \in Queued
                      /\ row[m].retry \in Nat
                      /\ Bumped(row[m].retry) \in Nat
  BY RowFacts DEF RowsOK, Bumped, QueueAssumption
<1>b. /\ {"AWAITING_ACK", "DEAD", "RETRY"} \subseteq Statuses \ {"PENDING"}
      /\ MaxAttempts \in Nat /\ 0 < MaxAttempts
  BY DEF Statuses, LiveStatuses, QueueAssumption
<1>1. ASSUME NEW m \in Msgs, Enqueue(m) PROVE IInv'
  BY <1>1, EnqueueInvariant
<1>2. ASSUME NEW m \in Msgs, MarkAwaitingAcknowledgement(m) PROVE IInv'
  BY <1>2, <1>a, <1>b, RewriteInvariant DEF MarkAwaitingAcknowledgement
<1>3. ASSUME NEW m \in Msgs, Complete(m) PROVE IInv'
  <2>1. RowsOK'
    BY <1>3, RemovalKeepsRows DEF Complete
  <2>2. TablesOK'
    BY <1>3, AuditUntouched DEF Complete, TablesOK
  <2> QED
    BY <2>1, <2>2
<1>4. ASSUME NEW m \in Msgs, ScheduleRetry(m) PROVE IInv'
  <2>1. row[m].retry \in Nat
    BY <1>a
  <2>2. CASE m \in Queued
    BY <1>4, <2>1, <2>2, FailureInvariant DEF ScheduleRetry
  <2>3. CASE m \notin Queued
    BY <1>4, <2>3, RewriteInvariant DEF ScheduleRetry
  <2> QED
    BY <2>2, <2>3
<1>5. ASSUME NEW m \in Msgs, Quarantine(m) PROVE IInv'
  <2>1. CASE m \in Queued
    <3>1. row' = Updated(m, "DEAD", row[m].retry, FALSE, FALSE)
      BY <1>5, <2>1 DEF Quarantine
    <3> QED
      BY <1>5, <2>1, <3>1, <1>a, <1>b, RewriteInvariant DEF Quarantine
  <2>2. CASE m \notin Queued
    BY <1>5, <2>2, RewriteInvariant DEF Quarantine
  <2> QED
    BY <2>1, <2>2
<1>6. ASSUME NEW m \in Msgs, RecordFailure(m) PROVE IInv'
  <2> DEFINE retry == IF row[m].status = "AWAITING_ACK"
                     THEN row[m].retry ELSE Bumped(row[m].retry)
  <2>1. retry \in Nat
    BY <1>a
  <2>2. row' = IF ~Live(m) THEN row
               ELSE IF retry >= MaxAttempts THEN Updated(m, "DEAD", retry, FALSE, FALSE)
               ELSE Updated(m, "RETRY", retry, FALSE, FALSE)
    BY <1>6 DEF RecordFailure
  <2>3. nextId' = nextId /\ blocker' = blocker /\ AuditUnchanged
    BY <1>6 DEF RecordFailure
  <2> HIDE DEF retry
  <2>4. CASE Live(m)
    BY <1>a, <2>1, <2>2, <2>3, <2>4, FailureInvariant
  <2>5. CASE ~Live(m)
    BY <2>2, <2>3, <2>5, RewriteInvariant
  <2> QED
    BY <2>4, <2>5
<1>7. ASSUME NEW m \in Msgs, RetryDead(m) PROVE IInv'
  <2>1. RowsOK'
    BY <1>7, <1>a, <1>b, UpdateKeepsRows DEF RetryDead
  <2>2. TablesOK'
    BY <1>7, <1>b, AuditDecisionFacts DEF RetryDead, TablesOK, Reasons
  <2> QED
    BY <2>1, <2>2
<1>8. ASSUME NEW m \in Msgs, ResolveDead(m) PROVE IInv'
  <2>1. RowsOK'
    BY <1>8, RemovalKeepsRows DEF ResolveDead
  <2>2. TablesOK'
    BY <1>8, <1>b, AuditDecisionFacts DEF ResolveDead, TablesOK, Reasons
  <2> QED
    BY <2>1, <2>2
<1>9. ASSUME NEW m \in Msgs, Elapse(m) \/ Age(m) PROVE IInv'
  BY <1>9, TimeInvariant
<1>10. CASE RemoveExpired \/ EnforceRetention
  BY <1>10, RemovalInvariant
<1>11. CASE MoveExpiredAcknowledgementsToDead
  BY <1>11, DeadlineInvariant
<1>12. CASE UNCHANGED vars
  BY <1>12, StutterInvariant
<1> QED
  BY <1>1, <1>2, <1>3, <1>4, <1>5, <1>6, <1>7, <1>8, <1>9, <1>10, <1>11, <1>12
  DEF Next, Operation


-----------------------------------------------------------------------------
(* The theorems. *)

\* The invariant holds in every reachable state of the queue.
THEOREM Invariance == Spec => []IInv
<1>1. IInv /\ [Next]_vars => IInv'
  BY NextInvariant, QueueAssumption
<1> QED
  BY <1>1, InitInvariant, PTL DEF Spec

\* Every table of the queue keeps its type (the schema of the SQLite tables).
THEOREM TypeCorrect == Spec => []TypeOK
<1>1. IInv => TypeOK
  BY DEF IInv, RowsOK, RowTypeOK, TablesOK, LogTypeOK, TypeOK
<1> QED
  BY <1>1, Invariance, PTL

\* Two queued rows never share a row id: the replay order of GetDueMessages
\* and the eviction order of EnforcePayloadBudget are total.
THEOREM RowIdsUnique == Spec => []RowIdsAreUnique
<1>1. IInv => RowIdsAreUnique
  BY DEF IInv, RowsOK
<1> QED
  BY <1>1, Invariance, PTL

\* ScheduleRetry, RecordFailure and RetryDead never offer for replay a row that
\* has used its attempts up.
THEOREM ReplayBounded == Spec => []ReplayHasAttemptsLeft
<1>1. IInv => ReplayHasAttemptsLeft
  BY DEF IInv, RowsOK
<1> QED
  BY <1>1, Invariance, PTL

\* However the audit log is truncated and the message ids are reused, a
\* blocking audit event has its row in mqtt_offline_queue_blocker.
THEOREM AuditAgreesWithBlockers == Spec => []BlockingAuditHasBlocker
<1>1. IInv => BlockingAuditHasBlocker
  BY DEF IInv, TablesOK
<1> QED
  BY <1>1, Invariance, PTL

\* No acknowledgement, expiry, eviction, restart or replay resolves a blocker:
\* RetryDead and ResolveDead do, each its own message's.
THEOREM BlockersAreTheOperators == Spec => BlockerResolvedOnlyByOperator
<1>1. ASSUME IInv, [Next]_vars, NEW m \in Msgs,
             blocker[m] = "unresolved", blocker'[m] # "unresolved"
      PROVE  RetryDead(m) \/ ResolveDead(m)
  <2>1. blocker \in [Msgs -> BlockerStates]
    BY <1>1 DEF IInv, TablesOK
  <2>2. ASSUME NEW n \in Msgs, RetryDead(n) \/ ResolveDead(n)
        PROVE  RetryDead(m) \/ ResolveDead(m)
    <3>1. CASE n = m
      BY <2>2, <3>1
    <3>2. CASE n # m
      <4>1. \E reason \in Reasons : AuditDecision(n, "DEAD", reason)
        BY <2>2 DEF RetryDead, ResolveDead, Reasons
      <4>2. blocker'[m] = blocker[m]
        BY <2>1, <3>2, <4>1 DEF AuditDecision
      <4> QED
        BY <1>1, <4>2
    <3> QED
      BY <3>1, <3>2
  <2>3. ASSUME NEW gone, blocker' = BlockersAfter(gone)
        PROVE  FALSE
    BY <1>1, <2>3 DEF BlockersAfter
  <2>4. ASSUME NEW n \in Msgs, Enqueue(n) PROVE FALSE
    BY <2>3, <2>4 DEF Enqueue, AuditRemoval
  <2>5. CASE RemoveExpired \/ EnforceRetention
    BY <2>3, <2>5 DEF RemoveExpired, EnforceRetention, AuditRemoval
  <2>6. CASE MoveExpiredAcknowledgementsToDead
    BY <1>1, <2>6 DEF MoveExpiredAcknowledgementsToDead
  <2>7. ASSUME NEW n \in Msgs, Quarantine(n) PROVE FALSE
    BY <1>1, <2>1, <2>7 DEF Quarantine
  <2>8. ASSUME NEW n \in Msgs,
               \/ MarkAwaitingAcknowledgement(n) \/ Complete(n) \/ ScheduleRetry(n)
               \/ RecordFailure(n) \/ Elapse(n) \/ Age(n)
        PROVE  FALSE
    <3>1. blocker' = blocker
      BY <2>8 DEF MarkAwaitingAcknowledgement, Complete, ScheduleRetry, RecordFailure,
                  Elapse, Age
    <3> QED
      BY <1>1, <3>1
  <2>9. CASE UNCHANGED vars
    BY <1>1, <2>9 DEF vars
  <2> QED
    BY <1>1, <2>2, <2>4, <2>5, <2>6, <2>7, <2>8, <2>9 DEF Next, Operation
<1>2. IInv /\ [Next]_vars =>
        [\A m \in Msgs :
            blocker[m] = "unresolved" /\ blocker'[m] # "unresolved" =>
                RetryDead(m) \/ ResolveDead(m)]_vars
  BY <1>1
<1> QED
  BY <1>2, Invariance, PTL DEF Spec, BlockerResolvedOnlyByOperator

\* What keeps topic t blocked on account of message m.
Blocks(m) == Dead(m) \/ blocker[m] = "unresolved"

\* An operation that is no decision about m keeps m blocking.
LEMMA StillBlocking ==
    ASSUME IInv, [Next]_vars, NEW m \in Msgs, Blocks(m), ~Blocks(m)'
    PROVE  RetryDead(m) \/ ResolveDead(m) \/ Complete(m) \/ ScheduleRetry(m)
<1>1. /\ row \in [Msgs -> Row \cup {Absent}]
      /\ blocker \in [Msgs -> BlockerStates]
  BY DEF IInv, RowsOK, RowTypeOK, TablesOK
<1>2. ASSUME row'[m] = row[m] \/ row'[m].status = "DEAD",
             blocker[m] = "unresolved" => blocker'[m] = "unresolved"
      PROVE  FALSE
  BY <1>2 DEF Blocks, Dead
<1>3. ASSUME NEW gone, row'[m] = IF m \in gone THEN Absent ELSE row[m],
             blocker' = BlockersAfter(gone)
      PROVE  FALSE
  <2>1. blocker'[m] = IF m \in gone /\ Dead(m) THEN "unresolved" ELSE blocker[m]
    BY <1>3 DEF BlockersAfter
  <2>2. CASE m \in gone /\ Dead(m)
    BY <2>1, <2>2 DEF Blocks
  <2>3. CASE m \in gone /\ ~Dead(m)
    BY <2>1, <2>3 DEF Blocks
  <2>4. CASE m \notin gone
    BY <1>3, <2>1, <2>4 DEF Blocks, Dead
  <2> QED
    BY <2>2, <2>3, <2>4
<1>4. ASSUME NEW n \in Msgs, Enqueue(n) PROVE FALSE
  <2> DEFINE kept == Queued \ Expired
             evicted == IF n \in kept THEN {} ELSE Evicted(kept, Size[n])
             gone == Expired \cup evicted
  <2>1. blocker' = BlockersAfter(gone)
    BY <1>4 DEF Enqueue, AuditRemoval
  <2>2. row' = IF n \in kept THEN Without(gone) ELSE [Without(gone) EXCEPT ![n] = Fresh]
    BY <1>4 DEF Enqueue
  <2>3. CASE m = n /\ n \notin kept
    <3>1. ~Dead(m) \/ m \in gone
      BY <1>1, <2>3 DEF Queued, Dead
    <3>2. blocker'[m] = IF m \in gone /\ Dead(m) THEN "unresolved" ELSE blocker[m]
      BY <2>1 DEF BlockersAfter
    <3> QED
      BY <3>1, <3>2 DEF Blocks
  <2>4. CASE ~(m = n /\ n \notin kept)
    <3> HIDE DEF gone
    <3>1. row'[m] = IF m \in gone THEN Absent ELSE row[m]
      BY <2>2, <2>4 DEF Without
    <3> QED
      BY <1>3, <2>1, <3>1
  <2> QED
    BY <2>3, <2>4
<1>5. CASE RemoveExpired \/ EnforceRetention
  <2>1. PICK gone : row' = Without(gone) /\ blocker' = BlockersAfter(gone)
    <3>1. Expired \cup {} = Expired
      OBVIOUS
    <3> QED
      BY <1>5, <3>1 DEF RemoveExpired, EnforceRetention, AuditRemoval
  <2>2. row'[m] = IF m \in gone THEN Absent ELSE row[m]
    BY <2>1 DEF Without
  <2> QED
    BY <1>3, <2>1, <2>2
<1>6. CASE MoveExpiredAcknowledgementsToDead
  <2>1. row'[m] = row[m] \/ row'[m].status = "DEAD"
    <3>1. CASE row[m].status = "AWAITING_ACK"
      <4>1. row[m] \in Row
        BY <1>1, <3>1 DEF Absent
      <4>2. [row[m] EXCEPT !.status = "DEAD", !.due = FALSE, !.deadline = TRUE].status = "DEAD"
        BY <4>1 DEF Row
      <4> QED
        BY <1>6, <4>2 DEF MoveExpiredAcknowledgementsToDead
    <3>2. CASE row[m].status # "AWAITING_ACK"
      BY <1>6, <3>2 DEF MoveExpiredAcknowledgementsToDead
    <3> QED
      BY <3>1, <3>2
  <2>2. blocker[m] = "unresolved" => blocker'[m] = "unresolved"
    BY <1>6 DEF MoveExpiredAcknowledgementsToDead
  <2> QED
    BY <1>2, <2>1, <2>2
<1>7. ASSUME NEW n \in Msgs, n # m,
             \/ MarkAwaitingAcknowledgement(n) \/ Complete(n) \/ ScheduleRetry(n)
             \/ Quarantine(n) \/ RecordFailure(n) \/ Elapse(n) \/ Age(n)
      PROVE  FALSE
  <2>1. row'[m] = row[m]
    BY <1>1, <1>7 DEF MarkAwaitingAcknowledgement, Complete, ScheduleRetry, Quarantine,
                      RecordFailure, Elapse, Age, Updated, Without
  <2>2. blocker'[m] = blocker[m]
    BY <1>1, <1>7 DEF MarkAwaitingAcknowledgement, Complete, ScheduleRetry, Quarantine,
                      RecordFailure, Elapse, Age
  <2> QED
    BY <1>2, <2>1, <2>2
<1>8. ASSUME NEW n \in Msgs, n # m, RetryDead(n) \/ ResolveDead(n) PROVE FALSE
  <2>1. row'[m] = row[m]
    BY <1>1, <1>8 DEF RetryDead, ResolveDead, Updated, Without
  <2>2. \E reason \in Reasons : AuditDecision(n, "DEAD", reason)
    BY <1>8 DEF RetryDead, ResolveDead, Reasons
  <2>3. blocker'[m] = blocker[m]
    BY <1>1, <1>8, <2>2 DEF AuditDecision
  <2> QED
    BY <1>2, <2>1, <2>3
<1>9. CASE MarkAwaitingAcknowledgement(m) \/ RecordFailure(m) \/ Elapse(m)
  <2>1. blocker' = blocker
    BY <1>9 DEF MarkAwaitingAcknowledgement, RecordFailure, Elapse
  <2>2. Dead(m) => row' = row
    BY <1>9 DEF MarkAwaitingAcknowledgement, RecordFailure, Elapse, Live, Dead, LiveStatuses
  <2> QED
    BY <2>1, <2>2 DEF Blocks, Dead
<1>10. CASE Quarantine(m)
  <2>1. m \in Queued => blocker'[m] = "unresolved"
    BY <1>1, <1>10 DEF Quarantine
  <2>2. m \notin Queued => blocker' = blocker /\ row' = row
    BY <1>10 DEF Quarantine
  <2> QED
    BY <2>1, <2>2 DEF Blocks, Dead
<1>11. CASE Age(m)
  <2>1. row[m] \in Row
    BY <1>1, <1>11 DEF Age, Queued, Absent
  <2>2. row'[m] = [row[m] EXCEPT !.old = TRUE] /\ blocker' = blocker
    BY <1>1, <1>11 DEF Age
  <2>3. row'[m].status = row[m].status
    BY <2>1, <2>2 DEF Row
  <2> QED
    BY <2>2, <2>3 DEF Blocks, Dead
<1>12. CASE UNCHANGED vars
  BY <1>2, <1>12 DEF vars
<1> QED
  BY <1>4, <1>5, <1>6, <1>7, <1>8, <1>9, <1>10, <1>11, <1>12 DEF Next, Operation

\* Expiry, eviction, restart and replay never unblock a topic: the operator
\* does, or an acknowledgement of the dead message itself.
THEOREM TopicsAreReleasedByDecision == Spec => DeadTopicReleasedOnlyByDecision
<1>1. ASSUME IInv, [Next]_vars, NEW t \in Topics,
             HasDeadMessageForTopic(t), ~HasDeadMessageForTopic(t)'
      PROVE  \E m \in Msgs : /\ TopicOf[m] = t
                             /\ \/ RetryDead(m) \/ ResolveDead(m)
                                \/ Complete(m) \/ ScheduleRetry(m)
  <2>1. PICK m \in Msgs : TopicOf[m] = t /\ Blocks(m)
    BY <1>1 DEF HasDeadMessageForTopic, Blocks
  <2>2. ~Blocks(m)'
    BY <1>1, <2>1 DEF HasDeadMessageForTopic, Blocks, Dead
  <2> QED
    BY <1>1, <2>1, <2>2, StillBlocking
<1>2. IInv /\ [Next]_vars =>
        [\A t \in Topics :
            HasDeadMessageForTopic(t) /\ ~HasDeadMessageForTopic(t)' =>
                \E m \in Msgs : /\ TopicOf[m] = t
                               /\ \/ RetryDead(m) \/ ResolveDead(m)
                                  \/ Complete(m) \/ ScheduleRetry(m)]_vars
  BY <1>1
<1> QED
  BY <1>2, Invariance, PTL DEF Spec, DeadTopicReleasedOnlyByDecision

-----------------------------------------------------------------------------
(* The storage budget. *)

\* The bytes of a set of messages are a sum over it.
LEMMA BytesAreTotal == \A S : Bytes(S) = Total(Size, S)
BY DEF Bytes, Total

LEMMA BytesFacts ==
    ASSUME QueueAssumption, NEW S \in SUBSET Msgs
    PROVE  /\ IsFiniteSet(S) /\ \A m \in S : Size[m] \in Nat
           /\ Bytes(S) \in Nat
           /\ \A T \in SUBSET S : /\ Bytes(T) \in Nat
                                  /\ Bytes(T) <= Bytes(S)
                                  /\ Bytes(S) = Bytes(T) + Bytes(S \ T)
<1>1. IsFiniteSet(S) /\ \A m \in S : Size[m] \in Nat
  BY FS_Subset DEF QueueAssumption
<1>2. \A T : Bytes(T) = Total(Size, T)
  BY BytesAreTotal
<1>3. \A T \in SUBSET S : /\ Total(Size, T) \in Nat
                          /\ Total(Size, T) <= Total(Size, S)
                          /\ Total(Size, S) = Total(Size, T) + Total(Size, S \ T)
  <2> TAKE T \in SUBSET S
  <2>1. IsFiniteSet(T) /\ \A m \in T : Size[m] \in Nat
    BY <1>1, FS_Subset
  <2>2. Total(Size, T) \in Nat
    BY <2>1, TotalType
  <2>3. /\ Total(Size, T) <= Total(Size, S)
        /\ Total(Size, S) = Total(Size, T) + Total(Size, S \ T)
    BY <1>1, TotalOfSubset
  <2> QED
    BY <2>2, <2>3
<1>4. Total(Size, S) \in Nat
  BY <1>3
<1> QED
  BY <1>1, <1>2, <1>3, <1>4

\* Among some rows there is an oldest one.
LEMMA OldestRow ==
    ASSUME RowTypeOK, NEW S \in SUBSET Queued, S # {}
    PROVE  \E m \in S : \A n \in S : ~Before(n, m)
<1> DEFINE ids == {row[m].id : m \in S}
<1>1. ids \subseteq Nat /\ ids # {}
  BY RowFacts DEF Queued
<1>2. PICK i \in ids : \A j \in ids : <<j, i>> \notin OpToRel(<, Nat)
  <2> HIDE DEF ids
  <2> QED
    BY <1>1, WFMin, NatLessThanWellFounded
<1>3. \A j \in ids : ~(j < i)
  BY <1>1, <1>2 DEF OpToRel
<1> QED
  BY <1>3 DEF Before

\* EnforcePayloadBudget evicts oldest first, frees enough for the incoming
\* message, and would not have without the youngest evicted row.
LEMMA EvictedFacts ==
    ASSUME QueueAssumption, RowTypeOK, NEW kept \in SUBSET Queued,
           NEW incoming \in Nat, incoming <= MaxPayloadBytes
    PROVE  LET evicted == Evicted(kept, incoming)
           IN  /\ evicted \subseteq kept
               /\ Bytes(kept \ evicted) + incoming <= MaxPayloadBytes
               /\ \A m \in evicted :
                    /\ \A n \in kept : Before(n, m) => n \in evicted
                    /\ Bytes({n \in kept : ~Before(n, m)}) + incoming > MaxPayloadBytes
<1> DEFINE evicted == Evicted(kept, incoming)
           older(m) == {n \in kept : Before(n, m)}
<1>1. kept \in SUBSET Msgs
  BY DEF Queued
<1>2. MaxPayloadBytes \in Nat
  BY DEF QueueAssumption
<1>3. PICK total \in Nat : total = Bytes(kept)
  BY <1>1, BytesFacts
<1>4. evicted = {m \in kept : Bytes(older(m)) < total + incoming - MaxPayloadBytes}
  BY <1>3 DEF Evicted
<1> HIDE DEF evicted
<1>5. \A T \in SUBSET kept : /\ Bytes(T) \in Nat
                             /\ total = Bytes(T) + Bytes(kept \ T)
                             /\ \A R \in SUBSET T : Bytes(R) <= Bytes(T)
  <2> TAKE T \in SUBSET kept
  <2>1. Bytes(T) \in Nat /\ total = Bytes(T) + Bytes(kept \ T)
    BY <1>1, <1>3, BytesFacts
  <2>2. T \in SUBSET Msgs
    BY <1>1
  <2>3. \A R \in SUBSET T : Bytes(R) <= Bytes(T)
    BY <2>2, BytesFacts
  <2> QED
    BY <2>1, <2>3
<1>6. \A m \in kept : row[m].id \in Nat
  BY <1>1, RowFacts
<1>7. ASSUME NEW m \in evicted, NEW n \in kept, Before(n, m) PROVE n \in evicted
  <2>1. m \in kept
    BY <1>4
  <2>2. older(n) \subseteq older(m)
    <3>1. \A k \in kept : Before(k, n) => Before(k, m)
      BY <1>6, <1>7, <2>1 DEF Before
    <3> QED
      BY <3>1
  <2>3. PICK a \in Nat, b \in Nat : a = Bytes(older(n)) /\ b = Bytes(older(m)) /\ a <= b
    <3> DEFINE R == older(n)
               T == older(m)
    <3>1. T \in SUBSET kept /\ R \in SUBSET kept /\ R \in SUBSET T
      BY <2>2
    <3> HIDE DEF R, T
    <3>2. Bytes(R) \in Nat /\ Bytes(T) \in Nat /\ Bytes(R) <= Bytes(T)
      BY <1>5, <3>1
    <3> QED
      BY <3>2 DEF R, T
  <2>4. b < total + incoming - MaxPayloadBytes
    BY <1>4, <2>3
  <2>5. a < total + incoming - MaxPayloadBytes
    BY <1>2, <2>3, <2>4
  <2> QED
    BY <1>4, <2>3, <2>5
<1>8. ASSUME NEW m \in evicted
      PROVE  Bytes({n \in kept : ~Before(n, m)}) + incoming > MaxPayloadBytes
  <2> DEFINE T == older(m)
  <2>1. {n \in kept : ~Before(n, m)} = kept \ T /\ T \in SUBSET kept /\ kept \ T \in SUBSET kept
    OBVIOUS
  <2>2. Bytes(T) < total + incoming - MaxPayloadBytes
    BY <1>4
  <2> HIDE DEF T
  <2>3. PICK a \in Nat, b \in Nat : a = Bytes(T) /\ b = Bytes(kept \ T) /\ total = a + b
    BY <1>5, <2>1
  <2>4. b + incoming > MaxPayloadBytes
    BY <1>2, <2>2, <2>3
  <2> QED
    BY <2>1, <2>3, <2>4
<1>9. Bytes(kept \ evicted) + incoming <= MaxPayloadBytes
  <2>1. evicted \in SUBSET kept /\ kept \ evicted \in SUBSET kept
    BY <1>4
  <2>2. PICK a \in Nat, b \in Nat :
            a = Bytes(evicted) /\ b = Bytes(kept \ evicted) /\ total = a + b
    BY <1>5, <2>1
  <2>3. CASE kept \ evicted = {}
    <3>1. b = 0
      <4>1. Bytes({}) = 0
        BY TotalOfNone, BytesAreTotal
      <4> QED
        BY <2>2, <2>3, <4>1
    <3> QED
      BY <1>2, <2>2, <3>1
  <2>4. CASE kept \ evicted # {}
    <3>1. PICK m \in kept \ evicted : \A n \in kept \ evicted : ~Before(n, m)
      BY <2>1, <2>4, OldestRow
    <3>2. older(m) \subseteq evicted
      BY <3>1
    <3>3. PICK c \in Nat : c = Bytes(older(m)) /\ c <= a
      <4> DEFINE R == older(m)
      <4>1. R \in SUBSET evicted /\ R \in SUBSET kept
        BY <3>2
      <4> HIDE DEF R
      <4>2. Bytes(R) \in Nat /\ Bytes(R) <= Bytes(evicted)
        BY <1>5, <2>1, <4>1
      <4> QED
        BY <2>2, <4>2 DEF R
    <3>4. ~(c < total + incoming - MaxPayloadBytes)
      BY <1>4, <3>1, <3>3
    <3> QED
      BY <1>2, <2>2, <3>3, <3>4
  <2> QED
    BY <2>3, <2>4
<1> QED
  BY <1>4, <1>7, <1>8, <1>9 DEF evicted

\* Rows that are only removed or rewritten take no more bytes.
LEMMA BudgetKept ==
    ASSUME QueueAssumption, WithinPayloadBudget, Queued' \subseteq Queued
    PROVE  WithinPayloadBudget'
<1>1. Queued \in SUBSET Msgs
  BY DEF Queued
<1>2. PICK S : S = Queued'
  OBVIOUS
<1>3. S \in SUBSET Queued
  BY <1>2
<1>4. Bytes(S) \in Nat /\ Bytes(Queued) \in Nat /\ Bytes(S) <= Bytes(Queued)
  BY <1>1, <1>3, BytesFacts
<1>5. Bytes(Queued)' = Bytes(S)
  BY <1>2
<1> QED
  BY <1>4, <1>5 DEF WithinPayloadBudget, QueueAssumption

\* Which rows an Enqueue that inserts leaves.
LEMMA EnqueuedRows ==
    ASSUME QueueAssumption, RowTypeOK, NEW m \in Msgs, Enqueue(m),
           m \notin Queued \ Expired
    PROVE  LET kept    == Queued \ Expired
               evicted == Evicted(kept, Size[m])
           IN  /\ Size[m] \in Nat /\ Size[m] <= MaxPayloadBytes
               /\ evicted \subseteq kept
               /\ row'[m] = Fresh
               /\ \A n \in Msgs \ {m} : row'[n] = IF n \in kept \ evicted THEN row[n] ELSE Absent
               /\ Queued' = (kept \ evicted) \cup {m}
               /\ nextId' = nextId + 1
<1> DEFINE kept == Queued \ Expired
           evicted == Evicted(kept, Size[m])
           gone == Expired \cup evicted
<1>1. /\ row' = [Without(gone) EXCEPT ![m] = Fresh]
      /\ nextId' = nextId + 1 /\ Size[m] <= MaxPayloadBytes
  BY DEF Enqueue
<1>2. evicted \subseteq kept
  BY DEF Evicted
<1>3. \A n \in Msgs : n \notin Queued => row[n] = Absent
  BY RowFacts
<1> HIDE DEF evicted
<1>4. row'[m] = Fresh /\ \A n \in Msgs \ {m} : row'[n] = IF n \in gone THEN Absent ELSE row[n]
  BY <1>1 DEF Without
<1>5. \A n \in Msgs \ {m} : row'[n] = IF n \in kept \ evicted THEN row[n] ELSE Absent
  BY <1>2, <1>3, <1>4 DEF Expired
<1>6. Queued' = (kept \ evicted) \cup {m}
  <2>1. \A n \in Msgs : row'[n].status # "ABSENT" <=> n \in (kept \ evicted) \cup {m}
    BY <1>4, <1>5 DEF Queued, Fresh, Absent
  <2> QED
    BY <1>2, <2>1 DEF Queued
<1> QED
  BY <1>1, <1>2, <1>4, <1>5, <1>6 DEF evicted, QueueAssumption

LEMMA BudgetStep ==
    ASSUME QueueAssumption, IInv, WithinPayloadBudget, [Next]_vars
    PROVE  WithinPayloadBudget'
<1> USE DEF IInv
<1>1. \A m \in Msgs : row[m] \in Row \/ row[m] = Absent
  BY DEF RowsOK, RowTypeOK
<1>2. ASSUME NEW gone, row' = Without(gone) PROVE WithinPayloadBudget'
  <2>1. Queued' \subseteq Queued
    BY <1>2 DEF Queued, Without, Absent
  <2> QED
    BY <2>1, BudgetKept
<1>3. ASSUME NEW m \in Queued, NEW new, row' = [row EXCEPT ![m] = new]
      PROVE  WithinPayloadBudget'
  <2>1. Queued' \subseteq Queued
    BY <1>3 DEF Queued
  <2> QED
    BY <2>1, BudgetKept
<1>4. ASSUME row' = row PROVE WithinPayloadBudget'
  BY <1>4, BudgetKept DEF Queued
<1>5. ASSUME NEW m \in Msgs, Enqueue(m) PROVE WithinPayloadBudget'
  <2> DEFINE kept == Queued \ Expired
             rest == kept \ Evicted(kept, Size[m])
  <2>1. CASE m \in kept
    BY <1>2, <1>5, <2>1 DEF Enqueue
  <2>2. CASE m \notin kept
    <3>1. /\ Size[m] \in Nat /\ Size[m] <= MaxPayloadBytes
          /\ Queued' = rest \cup {m}
      BY <1>5, <2>2, EnqueuedRows DEF RowsOK
    <3>2. Bytes(rest) + Size[m] <= MaxPayloadBytes
      <4>1. kept \in SUBSET Queued
        OBVIOUS
      <4> HIDE DEF kept
      <4> QED
        BY <3>1, <4>1, EvictedFacts DEF RowsOK
    <3>3. m \notin rest /\ IsFiniteSet(rest) /\ \A n \in rest \cup {m} : Size[n] \in Nat
      <4>1. rest \in SUBSET Msgs
        BY DEF Queued
      <4> QED
        BY <2>2, <3>1, <4>1, BytesFacts
    <3> HIDE DEF rest
    <3>4. Total(Size, rest \cup {m}) = Total(Size, rest) + Size[m]
      BY <3>3, TotalOfOneMore
    <3>5. Bytes(Queued)' = Bytes(rest \cup {m})
      BY <3>1
    <3> QED
      BY <3>2, <3>4, <3>5, BytesAreTotal DEF WithinPayloadBudget
  <2> QED
    BY <2>1, <2>2
<1>6. ASSUME NEW m \in Msgs,
             \/ MarkAwaitingAcknowledgement(m) \/ ScheduleRetry(m) \/ Quarantine(m)
             \/ RecordFailure(m) \/ RetryDead(m) \/ Elapse(m) \/ Age(m)
      PROVE  WithinPayloadBudget'
  <2>1. \/ row' = row
        \/ m \in Queued /\ \E new : row' = [row EXCEPT ![m] = new]
    <3>1. Live(m) \/ Dead(m) => m \in Queued
      BY DEF Live, Dead, Queued, LiveStatuses
    <3>2. \A status, retry, due, deadline :
             row' = Updated(m, status, retry, due, deadline) =>
                \E new : row' = [row EXCEPT ![m] = new]
      BY DEF Updated
    <3>3. Elapse(m) \/ Age(m) => m \in Queued /\ \E new : row' = [row EXCEPT ![m] = new]
      <4>1. Elapse(m) => row' = [row EXCEPT ![m] = [row[m] EXCEPT !.due = TRUE]]
        BY DEF Elapse
      <4>2. Age(m) => row' = [row EXCEPT ![m] = [row[m] EXCEPT !.old = TRUE]]
        BY DEF Age
      <4> QED
        BY <3>1, <4>1, <4>2 DEF Elapse, Age
    <3>4. \/ row' = row
          \/ m \in Queued /\ \E status, retry, due, deadline :
                                row' = Updated(m, status, retry, due, deadline)
          \/ Elapse(m) \/ Age(m)
      BY <1>6, <3>1
      DEF MarkAwaitingAcknowledgement, ScheduleRetry, Quarantine, RecordFailure, RetryDead
    <3> QED
      BY <3>2, <3>3, <3>4
  <2> QED
    BY <1>3, <1>4, <2>1
<1>7. ASSUME NEW m \in Msgs, Complete(m) \/ ResolveDead(m) PROVE WithinPayloadBudget'
  BY <1>2, <1>7 DEF Complete, ResolveDead
<1>8. CASE RemoveExpired \/ EnforceRetention
  BY <1>2, <1>8 DEF RemoveExpired, EnforceRetention
<1>9. CASE MoveExpiredAcknowledgementsToDead
  <2>1. \A m \in Msgs : row'[m] = row[m] \/ row[m].status = "AWAITING_ACK"
    BY <1>9 DEF MoveExpiredAcknowledgementsToDead
  <2>2. Queued' \subseteq Queued
    BY <2>1 DEF Queued
  <2> QED
    BY <2>2, BudgetKept
<1>10. CASE UNCHANGED vars
  BY <1>4, <1>10 DEF vars
<1> QED
  BY <1>5, <1>6, <1>7, <1>8, <1>9, <1>10 DEF Next, Operation

\* However inserts, evictions, expiries, acknowledgements and restarts follow
\* each other, EnforcePayloadBudget keeps the stored payloads within
\* OfflineQueueOptions.MaxPayloadBytes.
THEOREM BudgetHolds == Spec => []WithinPayloadBudget
<1>1. Init => WithinPayloadBudget
  <2> SUFFICES ASSUME Init PROVE WithinPayloadBudget
    OBVIOUS
  <2>1. Queued = {}
    BY DEF Init, Queued, Absent
  <2>2. Bytes(Queued) = 0
    BY <2>1, BytesAreTotal, TotalOfNone
  <2> QED
    BY <2>2, QueueAssumption DEF WithinPayloadBudget, QueueAssumption
<1>2. IInv /\ WithinPayloadBudget /\ [Next]_vars => WithinPayloadBudget'
  BY BudgetStep, QueueAssumption
<1> QED
  BY <1>1, <1>2, Invariance, PTL DEF Spec

\* Room for a new message is made by evicting the oldest rows, and no more of
\* them than EnforcePayloadBudget needs.
THEOREM EvictionIsMinimal == Spec => EvictionIsOldestFirstAndMinimal
<1>1. ASSUME IInv, Next, nextId' > nextId, NEW new \in Msgs, row'[new].id = nextId,
             NEW m \in Queued \ Expired, row'[m].status = "ABSENT"
      PROVE  /\ \A n \in Queued \ Expired : Before(n, m) => row'[n].status = "ABSENT"
             /\ Bytes({n \in Queued \ Expired : ~Before(n, m)}) + Size[new] > MaxPayloadBytes
  <2> DEFINE kept == Queued \ Expired
  <2>1. nextId \in Nat \ {0} /\ RowTypeOK
    BY <1>1 DEF IInv, RowsOK
  <2>2. PICK a \in Msgs : Enqueue(a) /\ a \notin kept
    <3>1. ~(nextId' = nextId)
      BY <1>1, <2>1
    <3>2. \E a \in Msgs : Enqueue(a)
      BY <1>1, <3>1
      DEF Next, Operation, MarkAwaitingAcknowledgement, Complete, ScheduleRetry, Quarantine,
          RecordFailure, RetryDead, ResolveDead, Elapse, Age, RemoveExpired,
          MoveExpiredAcknowledgementsToDead, EnforceRetention
    <3> QED
      BY <3>1, <3>2 DEF Enqueue
  <2> DEFINE evicted == Evicted(kept, Size[a])
  <2>3. /\ Size[a] \in Nat /\ Size[a] <= MaxPayloadBytes
        /\ evicted \subseteq kept
        /\ row'[a] = Fresh
        /\ \A n \in Msgs \ {a} : row'[n] = IF n \in kept \ evicted THEN row[n] ELSE Absent
    BY <2>1, <2>2, EnqueuedRows, QueueAssumption
  <2>4. new = a
    <3> SUFFICES ASSUME new # a PROVE FALSE
      OBVIOUS
    <3>1. (row'[new] = row[new] /\ new \in Queued) \/ row'[new].id = 0
      BY <2>3 DEF Absent
    <3>2. \A n \in Queued : row[n].id < nextId
      BY <1>1 DEF IInv, RowsOK, RowIdsAreUnique
    <3>3. \A n \in Queued : row[n].id \in Nat
      BY <2>1, RowFacts DEF Queued
    <3> QED
      BY <1>1, <2>1, <3>1, <3>2, <3>3
  <2>5. \A n \in kept : row'[n].status = "ABSENT" <=> n \in evicted
    <3> TAKE n \in kept
    <3>1. n \in Msgs /\ n # a /\ row[n].status # "ABSENT"
      BY <2>2 DEF Queued
    <3> QED
      BY <2>3, <3>1 DEF Absent
  <2>6. kept \in SUBSET Queued
    OBVIOUS
  <2>7. m \in evicted
    BY <1>1, <2>5
  <2>8. /\ \A n \in kept : Before(n, m) => n \in evicted
        /\ Bytes({n \in kept : ~Before(n, m)}) + Size[a] > MaxPayloadBytes
    <3> HIDE DEF kept
    <3>1. \A k \in Evicted(kept, Size[a]) :
             /\ \A n \in kept : Before(n, k) => n \in Evicted(kept, Size[a])
             /\ Bytes({n \in kept : ~Before(n, k)}) + Size[a] > MaxPayloadBytes
      BY <2>1, <2>3, <2>6, EvictedFacts, QueueAssumption
    <3> QED
      BY <2>7, <3>1
  <2> QED
    BY <2>4, <2>5, <2>8
<1>2. IInv /\ [Next]_vars =>
        [nextId' > nextId =>
            \A new \in Msgs : row'[new].id = nextId =>
                LET kept == Queued \ Expired
                    lost == {m \in kept : row'[m].status = "ABSENT"}
                IN  \A m \in lost :
                        /\ \A n \in kept : Before(n, m) => n \in lost
                        /\ Bytes({n \in kept : ~Before(n, m)}) + Size[new] > MaxPayloadBytes]_vars
  BY <1>1
<1> QED
  BY <1>2, Invariance, PTL DEF Spec, EvictionIsOldestFirstAndMinimal

-----------------------------------------------------------------------------
(* The audit log and its summary. *)

Keys == Reasons \X Statuses

LEMMA KeysFinite == IsFiniteSet(Keys)
<1>1. Reasons = {"EXPIRED"} \cup ({"PAYLOAD_BUDGET_EVICTION"} \cup ({"DEAD_RETRIED"} \cup {"DEAD_RESOLVED"}))
  BY DEF Reasons
<1>2. Statuses = {"PENDING"} \cup ({"AWAITING_ACK"} \cup ({"RETRY"} \cup {"DEAD"}))
  BY DEF Statuses, LiveStatuses
<1>3. \A x : IsFiniteSet({x})
  BY FS_Singleton
<1>4. IsFiniteSet(Reasons)
  BY <1>1, <1>3, FS_Union
<1>5. IsFiniteSet(Statuses)
  BY <1>2, <1>3, FS_Union
<1> QED
  BY <1>4, <1>5, FS_Product DEF Keys

\* Every event ever written is in the log or counted in the summary.
Conserved(log, counts, n) == Len(log) + Total(counts, Keys) = n

LEMMA SummaryTotal ==
    ASSUME NEW counts \in [Reasons \X Statuses -> Nat]
    PROVE  /\ Total(counts, Keys) \in Nat
           /\ MapThenSumSet(LAMBDA c : counts[c], {c \in DOMAIN counts : counts[c] > 0})
                = Total(counts, Keys)
<1>1. IsFiniteSet(Keys) /\ \A c \in Keys : counts[c] \in Nat
  BY KeysFinite DEF Keys
<1>2. Total(counts, {c \in Keys : counts[c] > 0}) = Total(counts, Keys)
  BY <1>1, TotalOfPositive
<1>3. DOMAIN counts = Keys
  BY DEF Keys
<1>4. MapThenSumSet(LAMBDA c : counts[c], {c \in DOMAIN counts : counts[c] > 0})
        = Total(counts, {c \in Keys : counts[c] > 0})
  BY <1>3 DEF Total
<1> QED
  BY <1>1, <1>2, <1>4, TotalType

LEMMA ConservedDef ==
    ASSUME LogTypeOK
    PROVE  AuditConserved <=> Conserved(audit, summary, audited)
BY SummaryTotal DEF LogTypeOK, AuditConserved, Conserved

\* EnforceAuditRetention counts every event it folds, once, under its key.
LEMMA RetentionConserves ==
    ASSUME LogTypeOK, NEW log \in Seq(AuditEvent), EnforceAuditRetention(log),
           NEW n \in Nat, Conserved(log, summary, n)
    PROVE  Conserved(audit', summary', n)
<1>1. PICK k \in 0..Len(log) :
        /\ audit' = SubSeq(log, k + 1, Len(log))
        /\ summary' = [c \in Reasons \X Statuses |->
                        summary[c] + Cardinality({i \in 1..k :
                                        <<log[i].reason, log[i].status>> = c})]
  BY DEF EnforceAuditRetention
<1>2. PICK len \in Nat : len = Len(log)
  BY LenProperties
<1>3. k \in Nat /\ k <= len /\ k + 1 \in Int
  BY <1>2
<1>4. \A i \in 1..len : log[i] \in AuditEvent
  BY <1>2, ElementOfSeq
<1>5. Len(audit') = len - k
  <2>1. \A i \in (k + 1)..len : log[i] \in AuditEvent
    BY <1>3, <1>4
  <2>2. PICK first \in Int : first = k + 1
    BY <1>3
  <2>3. audit' = SubSeq(log, first, len)
    BY <1>1, <1>2, <2>2
  <2>4. len \in Int /\ \A i \in first..len : log[i] \in AuditEvent
    BY <2>1, <2>2
  <2>5. Len(SubSeq(log, first, len)) = IF first <= len THEN len - first + 1 ELSE 0
    BY <2>4, SubSeqProperties
  <2>6. (IF first <= len THEN len - first + 1 ELSE 0) = len - k
    BY <1>3, <2>2
  <2> QED
    BY <2>3, <2>5, <2>6
<1> DEFINE key == [i \in 1..k |-> <<log[i].reason, log[i].status>>]
           folded == [c \in Keys |-> Cardinality({i \in 1..k : key[i] = c})]
<1>6. key \in [1..k -> Keys]
  <2>1. \A i \in 1..k : log[i] \in AuditEvent
    BY <1>3, <1>4
  <2> QED
    BY <2>1 DEF AuditEvent, Keys
<1>7. IsFiniteSet(1..k) /\ Cardinality(1..k) = k
  BY <1>3, IntervalCount
<1>8. \A c \in Keys : /\ summary[c] \in Nat
                      /\ folded[c] \in Nat
                      /\ summary'[c] = summary[c] + folded[c]
  <2> TAKE c \in Keys
  <2>1. {i \in 1..k : key[i] = c} = {i \in 1..k : <<log[i].reason, log[i].status>> = c}
    OBVIOUS
  <2>2. Cardinality({i \in 1..k : key[i] = c}) \in Nat
    BY <1>7, FS_Subset, FS_CardinalityType
  <2>3. folded[c] = Cardinality({i \in 1..k : key[i] = c})
    OBVIOUS
  <2>4. summary[c] \in Nat
    BY DEF LogTypeOK, Keys
  <2>5. summary'[c] = summary[c] + Cardinality({i \in 1..k :
                                        <<log[i].reason, log[i].status>> = c})
    <3> DEFINE count(d) == Cardinality({i \in 1..k : <<log[i].reason, log[i].status>> = d})
    <3>1. summary' = [d \in Keys |-> summary[d] + count(d)]
      BY <1>1 DEF Keys
    <3> HIDE DEF count
    <3>2. summary'[c] = summary[c] + count(c)
      BY <3>1
    <3> QED
      BY <3>2 DEF count
  <2> HIDE DEF folded, key
  <2> QED
    BY <2>1, <2>2, <2>3, <2>4, <2>5
<1>9. Total(folded, Keys) = k
  <2>1. \A c \in Keys : folded[c] = Cardinality({i \in 1..k : key[i] = c})
    OBVIOUS
  <2> HIDE DEF folded, key
  <2> QED
    BY <1>6, <1>7, <2>1, KeysFinite, TotalOfCounts
<1> HIDE DEF folded, key
<1>10. PICK counts : counts = summary'
  OBVIOUS
<1>11. Total(counts, Keys) = Total(summary, Keys) + Total(folded, Keys)
  BY <1>8, <1>10, KeysFinite, TotalOfSums
<1>12. PICK t \in Nat : t = Total(summary, Keys)
  BY SummaryTotal DEF LogTypeOK
<1>13. len + t = n
  BY <1>2, <1>12 DEF Conserved
<1>14. (len - k) + (t + k) = n
  BY <1>3, <1>13
<1> QED
  BY <1>5, <1>9, <1>10, <1>11, <1>12, <1>14 DEF Conserved

LEMMA RemovalConserves ==
    ASSUME QueueAssumption, RowTypeOK, LogTypeOK, Conserved(audit, summary, audited),
           NEW expired \in SUBSET Queued, NEW evicted \in SUBSET Queued,
           NEW retention \in BOOLEAN, AuditRemoval(expired, evicted, retention)
    PROVE  Conserved(audit', summary', audited')
<1>1. PICK events \in RemovalEvents(expired, evicted) :
        IF retention THEN EnforceAuditRetention(audit \o events)
                     ELSE audit' = audit \o events /\ UNCHANGED summary
  BY DEF AuditRemoval
<1>2. PICK gone \in Nat : /\ gone = Cardinality(expired \cup evicted)
                          /\ events \in Seq(AuditEvent)
                          /\ Len(events) = gone
  <2>1. /\ Cardinality(expired \cup evicted) \in Nat
        /\ events \in Seq(AuditEvent)
        /\ Len(events) = Cardinality(expired \cup evicted)
    BY RemovalEventsFacts DEF QueueAssumption
  <2> QED
    BY <2>1
<1>3. PICK a \in Nat, t \in Nat : a = Len(audit) /\ t = Total(summary, Keys)
  BY LenProperties, SummaryTotal DEF LogTypeOK
<1>4. audited = a + t /\ audited' = (a + t) + gone
  BY <1>2, <1>3 DEF Conserved, AuditRemoval
<1>5. audit \o events \in Seq(AuditEvent) /\ Len(audit \o events) = a + gone
  BY <1>2, <1>3, ConcatProperties DEF LogTypeOK
<1>6. Conserved(audit \o events, summary, audited')
  <2>1. (a + gone) + t = (a + t) + gone
    OBVIOUS
  <2> QED
    BY <1>3, <1>4, <1>5, <2>1 DEF Conserved
<1>7. audited' \in Nat
  BY <1>2, <1>3, <1>4
<1>8. CASE retention
  <2> DEFINE log == audit \o events
  <2>1. EnforceAuditRetention(log) /\ log \in Seq(AuditEvent)
    BY <1>1, <1>5, <1>8
  <2>2. PICK n \in Nat : n = audited'
    BY <1>7
  <2>3. Conserved(log, summary, n)
    BY <1>6, <2>2
  <2> HIDE DEF log
  <2>4. Conserved(audit', summary', n)
    BY <2>1, <2>3, RetentionConserves
  <2> QED
    BY <2>2, <2>4
<1>9. CASE ~retention
  BY <1>1, <1>6, <1>9 DEF Conserved
<1> QED
  BY <1>8, <1>9

LEMMA DecisionConserves ==
    ASSUME LogTypeOK, Conserved(audit, summary, audited), NEW m \in Msgs,
           NEW status \in Statuses, NEW reason \in Reasons,
           AuditDecision(m, status, reason)
    PROVE  Conserved(audit', summary', audited')
<1> DEFINE Closed(e) == IF e.msg = m THEN [e EXCEPT !.blocks = FALSE] ELSE e
           event == [msg |-> m, status |-> status, reason |-> reason, blocks |-> FALSE]
           closed == [i \in 1..Len(audit) |-> Closed(audit[i])]
           log == Append(closed, event)
<1>1. audited' = audited + 1 /\ EnforceAuditRetention(log)
  BY DEF AuditDecision
<1>2. PICK a \in Nat, t \in Nat : a = Len(audit) /\ t = Total(summary, Keys)
  BY LenProperties, SummaryTotal DEF LogTypeOK
<1>3. \A i \in 1..a : audit[i] \in AuditEvent
  BY <1>2, ElementOfSeq DEF LogTypeOK
<1>4. event \in AuditEvent /\ \A e \in AuditEvent : Closed(e) \in AuditEvent
  BY DEF AuditEvent
<1>5. closed \in [1..a -> AuditEvent]
  BY <1>2, <1>3, <1>4
<1>6. closed \in Seq(AuditEvent) /\ Len(closed) = a
  BY <1>5, FunctionIsSeq
<1> HIDE DEF event, closed
<1>7. log \in Seq(AuditEvent) /\ Len(log) = a + 1
  BY <1>4, <1>6, AppendProperties
<1>8. audited = a + t /\ (a + 1) + t = (a + t) + 1 /\ (a + t) + 1 \in Nat
  BY <1>2 DEF Conserved
<1> HIDE DEF log
<1>9. PICK n \in Nat : n = audited'
  BY <1>1, <1>8
<1>10. Conserved(log, summary, n)
  BY <1>1, <1>2, <1>7, <1>8, <1>9 DEF Conserved
<1>11. Conserved(audit', summary', n)
  BY <1>1, <1>7, <1>10, RetentionConserves
<1> QED
  BY <1>9, <1>11

LEMMA ConservedStep ==
    ASSUME QueueAssumption, IInv, Conserved(audit, summary, audited), [Next]_vars
    PROVE  Conserved(audit', summary', audited')
<1>1. RowTypeOK /\ LogTypeOK
  BY DEF IInv, RowsOK, TablesOK
<1>2. Expired \in SUBSET Queued /\ {} \in SUBSET Queued
  BY DEF Expired
<1>3. \A incoming : Evicted(Queued \ Expired, incoming) \in SUBSET Queued
  BY DEF Evicted
<1>4. ASSUME AuditUnchanged PROVE Conserved(audit', summary', audited')
  BY <1>4 DEF AuditUnchanged
<1>5. ASSUME NEW m \in Msgs, Enqueue(m) PROVE Conserved(audit', summary', audited')
  <2>1. PICK evicted \in SUBSET Queued, retention \in BOOLEAN :
          AuditRemoval(Expired, evicted, retention)
    <3> DEFINE evicted == IF m \in Queued \ Expired THEN {}
                          ELSE Evicted(Queued \ Expired, Size[m])
    <3>1. evicted \in SUBSET Queued /\ (evicted # {}) \in BOOLEAN
      BY <1>2, <1>3
    <3>2. AuditRemoval(Expired, evicted, evicted # {})
      BY <1>5 DEF Enqueue
    <3> QED
      BY <3>1, <3>2
  <2> QED
    BY <1>1, <1>2, <2>1, RemovalConserves
<1>6. CASE RemoveExpired \/ EnforceRetention
  <2>1. PICK evicted \in SUBSET Queued : AuditRemoval(Expired, evicted, TRUE)
    BY <1>2, <1>3, <1>6 DEF RemoveExpired, EnforceRetention
  <2> QED
    BY <1>1, <1>2, <2>1, RemovalConserves
<1>7. ASSUME NEW m \in Msgs, RetryDead(m) \/ ResolveDead(m)
      PROVE  Conserved(audit', summary', audited')
  <2>1. PICK reason \in Reasons : AuditDecision(m, "DEAD", reason)
    BY <1>7 DEF RetryDead, ResolveDead, Reasons
  <2>2. "DEAD" \in Statuses
    BY DEF Statuses
  <2> QED
    BY <1>1, <2>1, <2>2, DecisionConserves
<1>8. CASE UNCHANGED vars
  BY <1>8 DEF vars
<1> QED
  BY <1>4, <1>5, <1>6, <1>7, <1>8
  DEF Next, Operation, MarkAwaitingAcknowledgement, Complete, ScheduleRetry, Quarantine,
      RecordFailure, Elapse, Age, MoveExpiredAcknowledgementsToDead

\* EnforceAuditRetention loses no event and counts none twice: the log and the
\* summary together hold every removal and every operator decision audited.
THEOREM AuditIsConserved == Spec => []AuditConserved
<1> DEFINE Inv == Conserved(audit, summary, audited)
<1>1. Init => Inv
  <2> SUFFICES ASSUME Init PROVE Inv
    OBVIOUS
  <2>1. audit = <<>> /\ audited = 0 /\ summary = [c \in Keys |-> 0]
    BY DEF Init, Keys
  <2>2. Units(summary, Keys) = {}
    BY <2>1 DEF Units
  <2>3. Total(summary, Keys) = Cardinality(Units(summary, Keys))
    BY <2>1, KeysFinite, TotalIsCount
  <2>4. Total(summary, Keys) = 0
    BY <2>2, <2>3, FS_EmptySet
  <2> QED
    BY <2>1, <2>4 DEF Conserved
<1>2. IInv /\ Inv /\ [Next]_vars => Inv'
  BY ConservedStep, QueueAssumption
<1>3. IInv /\ Inv => AuditConserved
  BY ConservedDef DEF IInv, TablesOK
<1> HIDE DEF Inv
<1> QED
  BY <1>1, <1>2, <1>3, Invariance, PTL DEF Spec

-----------------------------------------------------------------------------
(* The order of removals. *)

\* Put before the listing of the other rows, the oldest row lists them all.
LEMMA OldestFirst ==
    ASSUME RowTypeOK, RowIdsAreUnique, NEW S \in SUBSET Queued, IsFiniteSet(S),
           NEW m \in S, \A n \in S : ~Before(n, m), NEW s \in Listing(S \ {m})
    PROVE  Listing(S) # {}
<1>1. PICK n \in Nat : n = Cardinality(S \ {m}) /\ Cardinality(S) = n + 1
  <2> DEFINE rest == S \ {m}
  <2>1. IsFiniteSet(rest) /\ m \notin rest /\ rest \cup {m} = S
    BY FS_Subset
  <2> HIDE DEF rest
  <2>2. Cardinality(rest) \in Nat /\ Cardinality(rest \cup {m}) = Cardinality(rest) + 1
    BY <2>1, FS_AddElement, FS_CardinalityType
  <2> QED
    BY <2>1, <2>2 DEF rest
<1>2. s \in [1..n -> S \ {m}] /\ \A i, j \in 1..n : i < j => Before(s[i], s[j])
  BY <1>1 DEF Listing
<1> DEFINE all == [i \in 1..(n + 1) |-> IF i = 1 THEN m ELSE s[i - 1]]
<1>3. \A i \in 1..(n + 1) : i # 1 => i - 1 \in 1..n
  OBVIOUS
<1>4. all \in [1..(n + 1) -> S]
  BY <1>2, <1>3
<1>5. ASSUME NEW i \in 1..(n + 1), NEW j \in 1..(n + 1), i < j
      PROVE  Before(all[i], all[j])
  <2>1. j # 1 /\ j - 1 \in 1..n /\ all[j] = s[j - 1]
    BY <1>3, <1>5
  <2>2. CASE i = 1
    <3>1. all[i] = m /\ all[j] \in S \ {m}
      BY <1>2, <2>1, <2>2
    <3>2. PICK o \in S \ {m} : o = all[j]
      BY <3>1
    <3>3. row[o].id \in Nat /\ row[m].id \in Nat /\ row[o].id # row[m].id
      BY RowFacts DEF RowIdsAreUnique, Queued
    <3>4. ~(row[o].id < row[m].id)
      BY DEF Before
    <3> QED
      BY <3>1, <3>2, <3>3, <3>4 DEF Before
  <2>3. CASE i # 1
    <3>1. i - 1 \in 1..n /\ i - 1 < j - 1 /\ all[i] = s[i - 1]
      BY <1>3, <1>5, <2>3
    <3> QED
      BY <1>2, <2>1, <3>1
  <2> QED
    BY <2>2, <2>3
<1>6. all \in Listing(S)
  <2> HIDE DEF all
  <2> QED
    BY <1>1, <1>4, <1>5 DEF Listing
<1> QED
  BY <1>6

LEMMA RowsHaveListing ==
    ASSUME RowTypeOK, RowIdsAreUnique, IsFiniteSet(Msgs), NEW S \in SUBSET Queued
    PROVE  Listing(S) # {}
<1> DEFINE bad == {r \in SUBSET Queued : Listing(r) = {}}
<1> SUFFICES ASSUME bad # {} PROVE FALSE
  OBVIOUS
<1>0. IsFiniteSet(Queued)
  BY FS_Subset DEF Queued
<1>1. IsWellFoundedOn(StrictSubsetOrdering(Queued), SUBSET Queued)
  BY <1>0, FS_FiniteSubsetsOfFinite, FS_StrictSubsetOrderingWellFounded
<1>2. PICK r \in bad : \A q \in bad : <<q, r>> \notin StrictSubsetOrdering(Queued)
  <2>1. bad \subseteq SUBSET Queued
    OBVIOUS
  <2> HIDE DEF bad
  <2> QED
    BY <1>1, <2>1, WFMin
<1>3. r # {}
  <2> SUFFICES ASSUME r = {} PROVE FALSE
    OBVIOUS
  <2>1. Cardinality(r) = 0 /\ 1..0 = {}
    BY FS_EmptySet
  <2>2. [i \in 1..0 |-> i] \in Listing(r)
    BY <2>1 DEF Listing
  <2> QED
    BY <1>2, <2>2
<1>4. PICK m \in r : \A n \in r : ~Before(n, m)
  BY <1>2, <1>3, OldestRow
<1>5. <<r \ {m}, r>> \in StrictSubsetOrdering(Queued) /\ r \ {m} \in SUBSET Queued
  BY <1>2, <1>4 DEF StrictSubsetOrdering
<1>6. Listing(r \ {m}) # {}
  BY <1>2, <1>5
<1>7. IsFiniteSet(r)
  BY <1>0, <1>2, FS_Subset
<1> HIDE DEF bad
<1>8. Listing(r) # {}
  BY <1>2, <1>4, <1>6, <1>7, OldestFirst DEF bad
<1> QED
  BY <1>2, <1>8 DEF bad

\* Whatever rows the queue removes or offers for replay, there is an order of
\* their row ids to audit or to send them in (the ORDER BY of RemoveExpired,
\* EnforcePayloadBudget and GetDueMessages): no removal is ever held up by its
\* audit events.
THEOREM RowsCanBeListed == Spec => [](\A S \in SUBSET Queued : Listing(S) # {})
<1>1. IInv => \A S \in SUBSET Queued : Listing(S) # {}
  BY RowsHaveListing, QueueAssumption DEF IInv, RowsOK
<1> QED
  BY <1>1, Invariance, PTL

=============================================================================
