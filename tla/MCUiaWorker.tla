----------------------------- MODULE MCUiaWorker -----------------------------
(* One tree and one text typed into an element it listed, on threads that may hang. *)
EXTENDS UiaWorker

Ops == <<"tree", "type">>
==============================================================================
