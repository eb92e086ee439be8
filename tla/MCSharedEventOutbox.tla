------------------------ MODULE MCSharedEventOutbox -------------------------
(* The events of one workspace. *)
EXTENDS SharedEventOutbox

CONSTANT hall

MCAggregate == [e \in Events |-> hall]
=============================================================================
