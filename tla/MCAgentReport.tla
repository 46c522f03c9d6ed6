---------------------------- MODULE MCAgentReport -----------------------------
(* AgentReport for TLC: two ports of one host.                                  *)
EXTENDS AgentReport

MCTargets == {<<"host", 443>>, <<"host", 8443>>}

CONSTANTS c1, c2

\* One target renews its certificate, the other fails at times
MCServable ==
    [t \in MCTargets |-> IF t = <<"host", 443>> THEN {c1, c2} ELSE {c1, "failed"}]

===============================================================================
