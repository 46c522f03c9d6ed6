----------------------------- MODULE CertWatchAPI -----------------------------
(****************************************************************************)
(* The CertWatch API, as far as the agent can tell: which agent identifiers *)
(* it has issued and to which name, which of them it still knows, and which *)
(* have been presented to it as the previous identifier of another agent.   *)
(* The service is not part of the repository: this module states what the   *)
(* agent's client (internal/sync) relies on, and no more.                   *)
(****************************************************************************)
EXTENDS StateFile

VARIABLES
    owner,      \* the name an identifier was issued to, NoName if never issued
    live,       \* the identifiers the API still knows
    presented   \* identifiers accepted as previous_agent_id of a sync

apiVars == <<owner, live, presented>>

ApiTypeOK ==
    /\ owner \in [AgentIds -> AgentNames \cup {NoName}]
    /\ live \subseteq AgentIds
    /\ presented \subseteq AgentIds

ApiInit ==
    /\ owner = [i \in AgentIds |-> NoName]
    /\ live = {}
    /\ presented = {}

Unissued == {i \in AgentIds : owner[i] = NoName}

\* The identifiers a sync of agent `name` presenting `id` may be answered with:
\* its own while it is known, otherwise a new one or one of the same name
Registrations(id, name) ==
    IF id \in live THEN {id} ELSE {i \in live : owner[i] = name} \cup Unissued

\* Every identifier is issued at most once, so that a bounded set of them may
\* run out
CanRegister(name) == Unissued \cup {i \in live : owner[i] = name} # {}

\* A sync request that is accepted and answered with identifier i
AcceptSync(prev, name, i) ==
    /\ owner' = [owner EXCEPT ![i] = IF @ = NoName THEN name ELSE @]
    /\ live' = live \cup {i}
    /\ presented' = presented \cup ({prev} \cap AgentIds)

\* An agent is deleted in the dashboard; its identifier is never issued again.
\* Bound: some identifier stays unissued, so that re-registration is possible
DeleteAgent(i) ==
    /\ i \in live
    /\ Unissued # {}
    /\ live' = live \ {i}
    /\ UNCHANGED <<owner, presented>>

==============================================================================
