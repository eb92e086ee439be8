--------------------------- MODULE MCOfflineQueue ---------------------------
(* Instances of OfflineQueue for TLC. *)
EXTENDS OfflineQueue, TLC

CONSTANTS m1, m2, m3, telemetry, sync

\* Two sync batches and a telemetry message half as large.
MCTopicOf == [m \in Msgs |-> IF m = m1 THEN telemetry ELSE sync]
MCSize == [m \in Msgs |-> IF m = m1 THEN 1 ELSE 2]

Symmetry == Permutations({m2, m3})
=============================================================================
