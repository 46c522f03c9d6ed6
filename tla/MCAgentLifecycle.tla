--------------------------- MODULE MCAgentLifecycle ---------------------------
(* AgentLifecycle for TLC: the configuration gives the constants their values. *)
EXTENDS AgentLifecycle

===============================================================================
