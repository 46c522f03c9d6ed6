------------------------------ MODULE MCEventSync ------------------------------
(* EventSync on small sets of events. *)
EXTENDS EventSync

==============================================================================
