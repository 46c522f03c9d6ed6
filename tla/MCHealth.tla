------------------------------- MODULE MCHealth -------------------------------
(* Health for TLC: the configuration gives the intervals and bounds their       *)
(* values, which leave room for the requests.                                   *)
EXTENDS Health

ASSUME RoomAssumption == Room

===============================================================================
