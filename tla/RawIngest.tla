------------------------------ MODULE RawIngest ------------------------------
(***************************************************************************)
(* POST /api/v1/ingest/bundle of the Open Data Fusion API, with its raw    *)
(* landing: a request stores the bundle as an immutable object, records a  *)
(* landing, ingests the bundle in one transaction and closes the landing.  *)
(* These are separate transactions: requests of one run interleave with    *)
(* each other, and the process may end between any two of them.            *)
(*                                                                         *)
(* A bundle stands for the exact bytes that are hashed: bundles with one   *)
(* run id are different payloads of one run.  Nothing in the code removes  *)
(* an object or a landing, so the check of the stored object that follows  *)
(* a lookup only fails as the storage does (Fails).  The replay of a       *)
(* landing is a run of its own and changes nothing that is modelled here.  *)
(***************************************************************************)
EXTENDS Integers, FiniteSets

CONSTANTS
    Bundles,     \* ingest bundles
    Runs,        \* run ids
    RunOf,       \* bundle.source.runId
    Invalid,     \* bundles whose ingest transaction is refused: a cycle of assets,
                 \* another value for an immutable point
    Requests,    \* requests the API handles at a time
    None,        \* no bundle
    MaxTroubles  \* bound of the model: faults and what else may happen at any time

ASSUME RawIngestAssumption ==
    /\ RunOf \in [Bundles -> Runs]
    /\ Invalid \subseteq Bundles
    /\ None \notin Bundles
    /\ MaxTroubles \in Nat

VARIABLES
    blob,      \* the object storage: bundles under the key of their run and checksum
    landing,   \* odf.raw_landing_objects, with the latest event of each
    run,       \* odf.ingestion_runs
    completed, \* history: 'ingestion.completed' events of each run
    req,       \* the requests
    troubles   \* how many of them there were

ingestVars == <<blob, landing, run, completed, req, troubles>>

-----------------------------------------------------------------------------
(* States *)

Landing == [bundle : Bundles \cup {None}, state : {"received", "accepted", "failed"}]
NoLanding == [bundle |-> None, state |-> "received"]

\* 'running' is seen by nobody outside the transaction that ingests.
Run == [bundle : Bundles \cup {None}, state : {"failed", "succeeded"}]
NoRun == [bundle |-> None, state |-> "failed"]

\* What a request does next, or its answer.
Steps == {"find", "put", "land", "ingest", "record", "accept", "fail"}
Answers == {"ok", "error"}
Request == [at : Steps \cup Answers, bundle : Bundles] \cup {[at |-> "free", bundle |-> None]}
Free == [at |-> "free", bundle |-> None]

\* A free place for one more request.
Vacant == CHOOSE q \in Requests : req[q] = Free
HasVacancy == \E q \in Requests : req[q] = Free

Arriving(b) == [req EXCEPT ![Vacant] = [at |-> "find", bundle |-> b]]

Trouble == troubles < MaxTroubles /\ troubles' = troubles + 1

To(q, at) == req' = [req EXCEPT ![q].at = at]

-----------------------------------------------------------------------------
(* The tables *)

\* findByRun, assertExactRun
Landed(b) == landing[RunOf[b]].bundle = b
ConflictsNever(b) == FALSE
Conflicts(b) == landing[RunOf[b]].bundle \notin {None, b}

Land(b) == landing' = [landing EXCEPT ![RunOf[b]] = [bundle |-> b, state |-> "received"]]

Close(b, state) == landing' = [landing EXCEPT ![RunOf[b]].state = state]

ProcessedNever(b) == FALSE
Processed(b) == run[RunOf[b]].state = "succeeded"

Ingested(b) ==
    /\ run' = [run EXCEPT ![RunOf[b]] = [bundle |-> b, state |-> "succeeded"]]
    /\ completed' = [completed EXCEPT ![RunOf[b]] = @ + 1]

FailedEvenIfProcessed(b) ==
    run' = [run EXCEPT ![RunOf[b]] = [bundle |-> b, state |-> "failed"]]

\* recordFailedRun ... WHERE state <> 'succeeded'
Failed(b) ==
    run' = [run EXCEPT ![RunOf[b]] =
              IF Processed(b) THEN @ ELSE [bundle |-> b, state |-> "failed"]]

-----------------------------------------------------------------------------
(* The handler *)

Find(q) ==
    LET b == req[q].bundle
    IN  /\ req[q].at = "find"
        /\ To(q, IF Conflicts(b) THEN "error" ELSE IF Landed(b) THEN "ingest" ELSE "put")
        /\ UNCHANGED <<blob, landing, run, completed, troubles>>

\* putImmutable creates the object or finds the same one.
Put(q) ==
    /\ req[q].at = "put"
    /\ blob' = blob \cup {req[q].bundle}
    /\ To(q, "land")
    /\ UNCHANGED <<landing, run, completed, troubles>>

\* Under the advisory lock of the run: another request may have landed it.
LandRun(q) ==
    LET b == req[q].bundle
    IN  /\ req[q].at = "land"
        /\ IF Conflicts(b) THEN To(q, "error") ELSE To(q, "ingest")
        /\ IF landing[RunOf[b]].bundle = None THEN Land(b) ELSE UNCHANGED landing
        /\ UNCHANGED <<blob, run, completed, troubles>>

\* One transaction under the advisory lock of the run.
Ingest(q) ==
    LET b == req[q].bundle
    IN  /\ req[q].at = "ingest"
        /\ \/ /\ Processed(b)
              /\ To(q, "accept")
              /\ UNCHANGED <<run, completed>>
           \/ /\ ~Processed(b) /\ b \in Invalid
              /\ To(q, "record")
              /\ UNCHANGED <<run, completed>>
           \/ /\ ~Processed(b) /\ b \notin Invalid
              /\ Ingested(b)
              /\ To(q, "accept")
        /\ UNCHANGED <<blob, landing, troubles>>

RecordFailedRun(q) ==
    /\ req[q].at = "record"
    /\ Failed(req[q].bundle)
    /\ To(q, "fail")
    /\ UNCHANGED <<blob, landing, completed, troubles>>

Accept(q) ==
    /\ req[q].at = "accept"
    /\ Close(req[q].bundle, "accepted")
    /\ To(q, "ok")
    /\ UNCHANGED <<blob, run, completed, troubles>>

Fail(q) ==
    /\ req[q].at = "fail"
    /\ Close(req[q].bundle, "failed")
    /\ To(q, "error")
    /\ UNCHANGED <<blob, run, completed, troubles>>

HandlerStep(q) ==
    \/ Find(q) \/ Put(q) \/ LandRun(q) \/ Ingest(q)
    \/ RecordFailedRun(q) \/ Accept(q) \/ Fail(q)

-----------------------------------------------------------------------------
(* Faults: a transaction or a call of the storage fails, with or without its  *)
(* effect (an acknowledgement that is lost).                                  *)

\* Before the handler's try, in the ingest, in recordFailedRun (whose own error is
\* swallowed), in complete('accepted') and in complete('failed').
AfterError(at) ==
    CASE at \in {"find", "put", "land"} -> "error"
      [] at = "ingest" -> "record"
      [] at = "record" -> "fail"
      [] at = "accept" -> "fail"
      [] at = "fail" -> "error"

CallFails(q) ==
    LET b == req[q].bundle
    IN  /\ req[q].at \in Steps
        /\ Trouble
        /\ To(q, AfterError(req[q].at))
        /\ \/ UNCHANGED <<blob, landing, run, completed>>
           \/ /\ req[q].at = "put"
              /\ blob' = blob \cup {b}
              /\ UNCHANGED <<landing, run, completed>>
           \/ /\ req[q].at = "land" /\ landing[RunOf[b]].bundle = None
              /\ Land(b)
              /\ UNCHANGED <<blob, run, completed>>
           \/ /\ req[q].at = "ingest" /\ ~Processed(b) /\ b \notin Invalid
              /\ Ingested(b)
              /\ UNCHANGED <<blob, landing>>
           \/ /\ req[q].at = "accept"
              /\ Close(b, "accepted")
              /\ UNCHANGED <<blob, run, completed>>

\* The API process ends with its requests: their clients see an error.
ServerCrash ==
    /\ \E q \in Requests : req[q].at \in Steps
    /\ Trouble
    /\ req' = [q \in Requests |-> IF req[q].at \in Steps THEN [req[q] EXCEPT !.at = "error"] ELSE req[q]]
    /\ UNCHANGED <<blob, landing, run, completed>>

-----------------------------------------------------------------------------
IngestInit ==
    /\ blob = {}
    /\ landing = [r \in Runs |-> NoLanding]
    /\ run = [r \in Runs |-> NoRun]
    /\ completed = [r \in Runs |-> 0]
    /\ req = [q \in Requests |-> Free]
    /\ troubles = 0

ServerNext == ServerCrash \/ \E q \in Requests : HandlerStep(q) \/ CallFails(q)

-----------------------------------------------------------------------------
(* Properties *)

\* Tables and requests keep their type.
IngestTypeOK ==
    /\ blob \subseteq Bundles
    /\ landing \in [Runs -> Landing]
    /\ run \in [Runs -> Run]
    /\ completed \in [Runs -> Nat]
    /\ req \in [Requests -> Request]
    /\ troubles \in Nat

\* A run, succeeded or failed, is that of the payload that landed under its id,
\* and the evidence of a landing is in the storage: two payloads of one run may
\* race through lookup, storage and landing (PostgresRawLandingStore.archive).
RunsHaveEvidence ==
    \A r \in Runs :
        /\ run[r].bundle \in {None, landing[r].bundle}
        /\ landing[r].bundle \in blob \cup {None}

\* A landing that says 'accepted' has been ingested, whatever request wrote last
\* and whichever of its transactions lost its acknowledgement.
AcceptedIsIngested ==
    \A r \in Runs :
        landing[r].bundle # None /\ landing[r].state = "accepted" => run[r].state = "succeeded"

\* apps/api/README.md:381 "runId is an idempotency key": the retries of a run, concurrent or after any error, publish its completion once.
CompletedOnce ==
    \A r \in Runs : completed[r] = IF run[r].state = "succeeded" THEN 1 ELSE 0

=============================================================================
