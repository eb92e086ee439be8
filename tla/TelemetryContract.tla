-------------------------- MODULE TelemetryContract --------------------------
(***************************************************************************)
(* What the delivery of telemetry promises, without queue, transport or    *)
(* acknowledgements: a record is first made durable at the PLC client,     *)
(* then committed by the backend, and only then confirmed at the client.   *)
(* No record goes back, and none is confirmed that the backend may not     *)
(* have.  TelemetryDelivery implements this specification.                 *)
(***************************************************************************)
CONSTANT Records

VARIABLE progress

Stages == {"none", "pending", "committed", "confirmed"}

TypeOK == progress \in [Records -> Stages]

Moved(S, from, to) ==
    /\ \A r \in S : progress[r] = from
    /\ progress' = [r \in Records |-> IF r \in S THEN to ELSE progress[r]]

Init == progress = [r \in Records |-> "none"]

Record(r) == Moved({r}, "none", "pending")

\* One message may carry several records, and the backend takes all or none.
Commit(S) == Moved(S, "pending", "committed")

Confirm(S) == Moved(S, "committed", "confirmed")

Next ==
    \/ \E r \in Records : Record(r)
    \/ \E S \in SUBSET Records : Commit(S) \/ Confirm(S)

Spec == Init /\ [][Next]_progress
=============================================================================
