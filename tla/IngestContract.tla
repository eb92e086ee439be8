---------------------------- MODULE IngestContract ----------------------------
(***************************************************************************)
(* What collection and ingestion promise together: a source is collected   *)
(* in its order, a run is ingested with one payload, once, and the edge    *)
(* agent takes a batch for delivered only when it is ingested.             *)
(***************************************************************************)
CONSTANTS
    Bundles,  \* ingest bundles
    Batches,  \* those the edge agent collects
    Earlier,  \* the batches of the same source that come before each one
    RunOf     \* the run id of each bundle

VARIABLES
    collected,  \* batches the agent is responsible for
    ingested,   \* bundles whose data are in the platform
    delivered   \* batches the agent no longer delivers

vars == <<collected, ingested, delivered>>

Init == collected = {} /\ ingested = {} /\ delivered = {}

Collect(b) ==
    /\ Earlier[b] \subseteq collected
    /\ collected' = collected \cup {b}
    /\ UNCHANGED <<ingested, delivered>>

Ingest(b) ==
    /\ b \in Batches => b \in collected
    /\ \A c \in ingested : RunOf[c] # RunOf[b]
    /\ ingested' = ingested \cup {b}
    /\ UNCHANGED <<collected, delivered>>

Deliver(b) ==
    /\ b \in collected \cap ingested
    /\ delivered' = delivered \cup {b}
    /\ UNCHANGED <<collected, ingested>>

Next ==
    \/ \E b \in Batches : Collect(b) \/ Deliver(b)
    \/ \E b \in Bundles : Ingest(b)

Spec == Init /\ [][Next]_vars
=============================================================================
