------------------------------ MODULE StateFile ------------------------------
(****************************************************************************)
(* The persisted identity of an agent: the State record of                  *)
(* internal/state/state.go and the pure operations the agent performs on    *)
(* it.  The two timestamps of the record are left out: nothing in the agent *)
(* branches on them.  The file that holds the record is a value of its own: *)
(* it may not exist yet (Absent), and between the truncation and the write  *)
(* of os.WriteFile it holds nothing that parses (Torn).                     *)
(*                                                                          *)
(* In every module, an operator named XFault is X with a plausible bug in   *)
(* it.  No specification uses one; PROJECT.json names the property that     *)
(* fails when XFault takes the place of X.                                  *)
(****************************************************************************)
EXTENDS FiniteSets

CONSTANTS
    AgentIds,       \* identifiers the API can issue
    AgentNames,     \* values of agent.name in the configuration
    NoId, NoName,   \* the empty strings of the record
    Absent, Torn    \* a state file that does not exist, or does not parse

\* StateData of the file: agent_id, agent_name, previous_agent_id
State == [id : AgentIds \cup {NoId}, name : AgentNames \cup {NoName},
          prev : AgentIds \cup {NoId}]

ASSUME IdAssumption == NoId \notin AgentIds
ASSUME NameAssumption == NoName \notin AgentNames
ASSUME FileAssumption == Absent \notin State /\ Torn \notin State /\ Absent # Torn

FileContents == State \cup {Absent, Torn}

\* What NewManager, and Load of an absent or unparsable file, leave in memory
EmptyState == [id |-> NoId, name |-> NoName, prev |-> NoId]

\* Load.  An unreadable file is reported and start goes on with EmptyState
LoadState(file, readable) ==
    IF readable /\ file \notin {Absent, Torn} THEN file ELSE EmptyState

\* Fault: the first-run test is inverted
HasNameChangedFault(st, configName) == st.name = NoName /\ st.name # configName

HasNameChanged(st, configName) == st.name # NoName /\ st.name # configName

HasState(st) == st.id # NoId \/ st.name # NoName

\* Fault: an empty identifier overwrites prev
ResetStateFault(st) == [id |-> NoId, name |-> st.name, prev |-> st.id]

\* handleAgentReset: the identifier moves to prev, and an identifier that is
\* already empty leaves the prev of an earlier reset alone
ResetState(st) == [id |-> NoId, name |-> st.name,
                   prev |-> IF st.id # NoId THEN st.id ELSE st.prev]

\* Fault: the identifier is kept
ClearedStateFault(st) == st

\* ClearAgentID
ClearedState(st) == [id |-> NoId, name |-> st.name, prev |-> st.prev]

\* Fault: the identifier and the name are swapped
SyncedStateFault(st, id, name, migrated) ==
    [id |-> name, name |-> id, prev |-> IF migrated THEN NoId ELSE st.prev]

\* Client.Sync, once the API answered success with an identifier
SyncedState(st, id, name, migrated) ==
    [id |-> id, name |-> name, prev |-> IF migrated THEN NoId ELSE st.prev]

==============================================================================
