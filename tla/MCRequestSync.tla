----------------------------- MODULE MCRequestSync -----------------------------
(* RequestSync on one request, which is pending, issued, denied or invalid, and  *)
(* comes and goes in every state.                                                *)
EXTENDS RequestSync

MCKinds == {{}, {"approved", "ready"}, {"denied"}, {"approved", "invalid"}}
MCPossible == [k \in Keys |-> States]

==============================================================================
