------------------------- MODULE MCTelemetryDelivery -------------------------
(* Values for the constants of TelemetryDelivery on small instances. *)
EXTENDS TelemetryDelivery, TLC

CONSTANTS r1, r2, b1, b2, none

OneRecord == {r1}
TwoRecords == {r1, r2}
OneBatch == {b1}
TwoBatches == {b1, b2}
Nobody == {}

Start(isApproved) == [approved |-> isApproved, faults |-> 0]
Approved == {Start(TRUE)}
EitherApproval == {Start(TRUE), Start(FALSE)}

\* The device is approved and there may be a fault, or it is approved later
\* and none is left.
FaultOrLateApproval ==
    {[approved |-> TRUE, faults |-> 0], [approved |-> FALSE, faults |-> 1]}

\* Records are interchangeable, and so are batch ids.
Symmetry == Permutations({r1, r2}) \cup Permutations({b1, b2})
=============================================================================
