------------------------------ MODULE MCEvents ------------------------------
(* Instance of Events for TLC: every event of the four bindings.            *)
EXTENDS Events
=============================================================================
