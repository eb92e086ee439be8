----------------------------- MODULE MCEdgeAgent ------------------------------
(* A source with two batches, the first of which is refused.  Another identity   *)
(* posts another payload of the second batch's run.                              *)
EXTENDS EdgeAgent

CONSTANTS b1, b2, other, r1, r2

MCRunOf == [b \in Bundles |-> IF b = b1 THEN r1 ELSE r2]
MCEarlier == [b \in Batches |-> IF b = b2 THEN {b1} ELSE {}]
=============================================================================
