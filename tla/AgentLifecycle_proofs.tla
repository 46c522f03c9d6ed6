------------------------ MODULE AgentLifecycle_proofs ------------------------
(****************************************************************************)
(* Safety of AgentLifecycle for every set of identifiers and names.         *)
(****************************************************************************)
EXTENDS AgentLifecycle, TLAPS

\* An identifier in the state was issued, and a prev that is kept beside an
\* identifier has been offered to the API already
Offered(st) ==
    /\ st.id # NoId => st.name # NoName /\ owner[st.id] # NoName
    /\ st.prev # NoId => owner[st.prev] # NoName
    /\ st.id # NoId /\ st.prev # NoId => st.prev \in presented

\* What the API has promised to the agent whose answer is under way
ReplyInv ==
    pc = "recv" =>
        /\ reply.id \in AgentIds
        /\ owner[reply.id] = cfgName
        /\ mem.id \in live => reply.id = mem.id
        /\ mem.prev # NoId => mem.prev \in presented

\* What the manager may have dropped of a file it has read
KeptInv ==
    pc # "down" /\ gap # "unread" /\ file \in State =>
        \A i \in {file.id, file.prev} \cap live : i \in {mem.id, mem.prev} \cup presented

PlaceInv ==
    /\ pc = "down" => mem = EmptyState
    /\ pc = "write" => file = Torn

\* Whose identifiers are in memory, in the file and in the answer under way
BoundInv ==
    /\ IdentityBound
    /\ Offered(mem)
    /\ file \in State => Offered(file)
    /\ ReplyInv
    /\ PlaceInv

\* The inductive invariant
IInv == TypeOK /\ BoundInv /\ FileFollowsMemory /\ KeptInv

------------------------------------------------------------------------------
(* The pure operations of the state file *)

LEMMA LoadType ==
    ASSUME NEW f \in FileContents, NEW readable \in BOOLEAN
    PROVE  /\ LoadState(f, readable) \in State
           /\ LoadState(f, readable) \in {f, EmptyState}
           /\ f \in State => LoadState(f, TRUE) = f
           /\ f \notin State => LoadState(f, readable) = EmptyState
BY FileAssumption DEF LoadState, FileContents, EmptyState, State

LEMMA OperationTypes ==
    ASSUME NEW st \in State, NEW i \in AgentIds, NEW name \in AgentNames,
           NEW migrated \in BOOLEAN
    PROVE  /\ ResetState(st) \in State
           /\ ClearedState(st) \in State
           /\ SyncedState(st, i, name, migrated) \in State
BY DEF ResetState, ClearedState, SyncedState, State

------------------------------------------------------------------------------
(* Type correctness *)

LEMMA ExitType == ASSUME Exited PROVE
    /\ pc' \in PCs /\ task' \in Tasks /\ mem' \in State /\ reply' \in Replies
    /\ canceled' \in BOOLEAN /\ ready' \in BOOLEAN /\ gap' \in Gaps
BY DEF Exited, PCs, Tasks, EmptyState, State, NoReply, Replies, Gaps

LEMMA SyncReturnsType == ASSUME TypeOK, SyncReturns PROVE
    /\ pc' \in PCs /\ task' \in Tasks /\ mem' \in State /\ reply' \in Replies
    /\ canceled' \in BOOLEAN /\ ready' \in BOOLEAN
BY DEF TypeOK, SyncReturns, PCs, Tasks, NoReply, Replies

LEMMA SaveReturnsType == ASSUME TypeOK, NEW ok \in BOOLEAN, SaveReturns(ok) PROVE
    /\ pc' \in PCs /\ task' \in Tasks /\ mem' \in State /\ reply' \in Replies
    /\ canceled' \in BOOLEAN /\ ready' \in BOOLEAN /\ gap' \in Gaps
<1>1. CASE task = "reset" /\ ~ok /\ Exited
  BY <1>1, ExitType
<1>2. CASE /\ pc' = "scan"
           /\ task' = IF task = "reset" THEN "initial" ELSE "reregister"
           /\ gap' = IF ok THEN "none" ELSE IF gap = "none" THEN "unsaved" ELSE gap
           /\ UNCHANGED <<mem, reply, canceled, ready>>
  BY <1>2 DEF TypeOK, PCs, Tasks, Gaps
<1>3. CASE /\ gap' = IF ok THEN "none" ELSE IF gap = "none" THEN "unsaved" ELSE gap
           /\ SyncReturns
  BY <1>3, SyncReturnsType DEF TypeOK, Gaps
<1>4. QED
  BY <1>1, <1>2, <1>3 DEF SaveReturns

LEMMA TypeStep == TypeOK /\ [Next]_vars => TypeOK'
<1> SUFFICES ASSUME TypeOK, [Next]_vars PROVE TypeOK'
  OBVIOUS
<1> USE DEF ApiTypeOK
<1>1. CASE StartRefused
  BY <1>1 DEF StartRefused, TypeOK, apiVars
<1>2. CASE StartRun
  BY <1>2, LoadType DEF StartRun, TypeOK, apiVars, PCs, Tasks, Gaps
<1>3. CASE StartReset
  <2>1. PICK name \in AgentNames, readable \in BOOLEAN :
           cfgName' = name /\ mem' = ResetState(LoadState(file, readable))
    BY <1>3 DEF StartReset
  <2>2. LoadState(file, readable) \in State
    BY LoadType DEF TypeOK
  <2>3. mem' \in State
    BY <2>1, <2>2 DEF ResetState, State
  <2>4. QED
    BY <1>3, <2>1, <2>3 DEF StartReset, TypeOK, apiVars, PCs, Tasks
<1>4. CASE SaveRejected
  BY <1>4, SaveReturnsType DEF SaveRejected, TypeOK, apiVars
<1>5. CASE SaveTruncates
  BY <1>5 DEF SaveTruncates, TypeOK, apiVars, PCs, FileContents
<1>6. CASE SaveWrites
  BY <1>6, SaveReturnsType DEF SaveWrites, TypeOK, apiVars, FileContents
<1>7. CASE SaveFailsMidway
  BY <1>7, SaveReturnsType DEF SaveFailsMidway, TypeOK, apiVars
<1>8. CASE Scan \/ Tick \/ HeartbeatReturns
  BY <1>8 DEF Scan, Tick, ScanTick, SyncTick, HeartbeatTick, HeartbeatReturns, At,
              TypeOK, apiVars, PCs, Tasks
<1>9. CASE SyncAccepted
  <2>1. PICK i \in Registrations(mem.id, cfgName), migrated \in BOOLEAN :
           /\ AcceptSync(mem.prev, cfgName, i)
           /\ reply' = [id |-> i, migrated |-> migrated]
    BY <1>9 DEF SyncAccepted
  <2>2. i \in AgentIds
    BY DEF Registrations, Unissued, TypeOK
  <2>3. ApiTypeOK'
    BY <2>1, <2>2 DEF AcceptSync, TypeOK
  <2>4. reply' \in Replies
    BY <2>1, <2>2 DEF Replies
  <2>5. QED
    BY <1>9, <2>3, <2>4 DEF SyncAccepted, TypeOK, PCs
<1>10. CASE SyncDeclined \/ SyncFailed \/ SyncResponseLost
  BY <1>10, SyncReturnsType
     DEF SyncDeclined, SyncFailed, SyncResponseLost, TypeOK, apiVars
<1>11. CASE SyncResponse
  <2>1. reply.id \in AgentIds \cup {NoId}
    BY DEF TypeOK, Replies
  <2>2. mem' \in State
    BY <1>11, <2>1 DEF SyncResponse, SyncedState, TypeOK, State
  <2>3. QED
    BY <1>11, <2>2 DEF SyncResponse, TypeOK, apiVars, PCs
<1>12. CASE HeartbeatNotFound
  <2>1. mem' \in State
    BY <1>12 DEF HeartbeatNotFound, ClearedState, TypeOK, State
  <2>2. QED
    BY <1>12, <2>1 DEF HeartbeatNotFound, TypeOK, apiVars, PCs, Tasks
<1>13. CASE Signal
  BY <1>13 DEF Signal, TypeOK, apiVars
<1>14. CASE Crash \/ Stop
  BY <1>14, ExitType DEF Crash, Stop, TypeOK, apiVars
<1>15. CASE Delete
  BY <1>15 DEF Delete, DeleteAgent, procVars, TypeOK
<1>16. CASE UNCHANGED vars
  BY <1>16 DEF vars, apiVars, procVars, TypeOK
<1>17. QED
  BY <1>1, <1>2, <1>3, <1>4, <1>5, <1>6, <1>7, <1>8, <1>9, <1>10, <1>11, <1>12,
     <1>13, <1>14, <1>15, <1>16 DEF Next, Start, Save, Request, Heartbeat

------------------------------------------------------------------------------
(* The effect of the steps that return from a save or a request *)

LEMMA SaveReturnsEffect ==
    ASSUME NEW ok \in BOOLEAN, SaveReturns(ok)
    PROVE  \/ Exited
           \/ /\ pc' \in {"scan", "idle"}
              /\ mem' = mem
              /\ gap' = IF ok THEN "none" ELSE IF gap = "none" THEN "unsaved" ELSE gap
BY DEF SaveReturns, SyncReturns

\* An accepted sync: what the API's part of the step does
LEMMA AcceptEffect ==
    ASSUME TypeOK, BoundInv, SyncAccepted
    PROVE  /\ reply'.id \in AgentIds
           /\ owner'[reply'.id] = cfgName
           /\ \A j \in AgentIds : owner[j] # NoName => owner'[j] = owner[j]
           /\ mem.id \in live => reply'.id = mem.id
           /\ mem.id \in live' => reply'.id = mem.id
           /\ live' = live \cup {reply'.id}
           /\ reply'.id \in live \/ owner[reply'.id] = NoName
           /\ presented \subseteq presented'
           /\ mem.prev # NoId => mem.prev \in presented'
<1>1. PICK i \in Registrations(mem.id, cfgName), migrated \in BOOLEAN :
         /\ AcceptSync(mem.prev, cfgName, i)
         /\ reply' = [id |-> i, migrated |-> migrated]
  BY DEF SyncAccepted
<1>2. i \in AgentIds /\ reply'.id = i
  BY <1>1 DEF Registrations, Unissued, TypeOK, ApiTypeOK
<1>3. owner[i] = cfgName \/ owner[i] = NoName
  <2>1. CASE mem.id \in live
    <3>1. i = mem.id /\ mem.id # NoId
      BY <2>1, <1>1, IdAssumption DEF Registrations, TypeOK, ApiTypeOK
    <3>2. QED
      BY <3>1 DEF BoundInv, IdentityBound
  <2>2. CASE mem.id \notin live
    BY <2>2, <1>1 DEF Registrations, Unissued
  <2>3. QED
    BY <2>1, <2>2
<1>4. /\ owner'[i] = cfgName
      /\ \A j \in AgentIds : owner[j] # NoName => owner'[j] = owner[j]
  BY <1>1, <1>2, <1>3 DEF AcceptSync, TypeOK, ApiTypeOK
<1>5. live' = live \cup {i} /\ presented' = presented \cup ({mem.prev} \cap AgentIds)
  BY <1>1 DEF AcceptSync
<1>6. mem.id \in live => i = mem.id
  BY <1>1 DEF Registrations
<1>7. i \in live \/ owner[i] = NoName
  BY <1>1 DEF Registrations, Unissued
<1>8. mem.prev # NoId => mem.prev \in presented'
  BY <1>5 DEF TypeOK, State
<1>9. QED
  BY <1>2, <1>4, <1>5, <1>6, <1>7, <1>8

------------------------------------------------------------------------------
(* The identity the agent presents *)

LEMMA BoundStep == TypeOK /\ BoundInv /\ [Next]_vars => BoundInv'
<1> SUFFICES ASSUME TypeOK, BoundInv, [Next]_vars PROVE BoundInv'
  OBVIOUS
<1> USE DEF BoundInv
<1>a. ASSUME Exited, UNCHANGED <<apiVars, file, cfgName>> PROVE BoundInv'
  BY <1>a DEF Exited, EmptyState, IdentityBound, Offered, ReplyInv, PlaceInv, apiVars
<1>b. ASSUME pc' \notin {"down", "recv", "write"}, pc # "down",
             UNCHANGED <<apiVars, mem, file, cfgName>>
      PROVE  BoundInv'
  BY <1>b DEF IdentityBound, Offered, ReplyInv, PlaceInv, apiVars
<1>1. CASE StartRefused
  BY <1>1 DEF StartRefused, IdentityBound, Offered, ReplyInv, PlaceInv, apiVars, EmptyState
<1>2. CASE StartRun
  <2>1. PICK name \in AgentNames, readable, reset \in BOOLEAN :
           /\ IF reset THEN ~HasState(LoadState(file, readable))
                       ELSE ~HasNameChanged(LoadState(file, readable), name)
           /\ cfgName' = name
           /\ mem' = LoadState(file, readable)
    BY <1>2 DEF StartRun
  <2>2. mem' = EmptyState \/ (mem' = file /\ file \in State)
    BY <2>1, LoadType DEF TypeOK
  <2>3. UNCHANGED <<apiVars, file>> /\ pc' = "scan"
    BY <1>2 DEF StartRun
  <2>4. CASE mem' = EmptyState
    BY <2>3, <2>4 DEF EmptyState, IdentityBound, Offered, ReplyInv, PlaceInv, apiVars
  <2>5. CASE mem' = file /\ file \in State
    <3>1. mem'.id # NoId => file.name = cfgName' /\ owner[file.id] = file.name
      BY <2>1, <2>5 DEF HasState, HasNameChanged, IdentityBound, Offered
    <3>2. QED
      BY <2>3, <2>5, <3>1 DEF IdentityBound, Offered, ReplyInv, PlaceInv, apiVars
  <2>6. QED
    BY <2>2, <2>4, <2>5
<1>3. CASE StartReset
  <2>1. PICK name \in AgentNames, readable \in BOOLEAN :
           /\ HasState(LoadState(file, readable))
           /\ cfgName' = name
           /\ mem' = ResetState(LoadState(file, readable))
    BY <1>3 DEF StartReset
  <2>2. LoadState(file, readable) # EmptyState
    BY <2>1 DEF HasState, EmptyState
  <2>3. file \in State /\ mem' = ResetState(file)
    BY <2>1, <2>2, LoadType DEF TypeOK
  <2>4. Offered(file)
    BY <2>3
  <2>5. /\ mem'.id = NoId
        /\ mem'.prev # NoId => owner[mem'.prev] # NoName
    BY <2>3, <2>4 DEF ResetState, Offered
  <2>6. UNCHANGED <<apiVars, file>> /\ pc' = "save"
    BY <1>3 DEF StartReset
  <2>7. QED
    BY <2>5, <2>6 DEF IdentityBound, Offered, ReplyInv, PlaceInv, apiVars
<1>4. CASE SaveRejected \/ SaveFailsMidway
  BY <1>4, <1>a, <1>b, SaveReturnsEffect DEF SaveRejected, SaveFailsMidway
<1>5. CASE SaveTruncates
  BY <1>5, FileAssumption
     DEF SaveTruncates, IdentityBound, Offered, ReplyInv, PlaceInv, apiVars
<1>6. CASE SaveWrites
  <2>1. Exited \/ (pc' \in {"scan", "idle"} /\ mem' = mem)
    BY <1>6, SaveReturnsEffect DEF SaveWrites
  <2>2. UNCHANGED <<apiVars, cfgName>> /\ file' = mem
    BY <1>6 DEF SaveWrites
  <2>3. (file' \in State => Offered(file')) /\ (mem.id # NoId => owner[mem.id] = mem.name)
    BY <2>2 DEF IdentityBound, Offered, apiVars
  <2>4. QED
    BY <2>1, <2>2, <2>3
       DEF Exited, EmptyState, IdentityBound, Offered, ReplyInv, PlaceInv, apiVars
<1>7. CASE Scan \/ Tick \/ HeartbeatReturns
  BY <1>7, <1>b DEF Scan, Tick, ScanTick, SyncTick, HeartbeatTick, HeartbeatReturns, At
<1>8. CASE SyncAccepted
  <2>1. UNCHANGED <<cfgName, mem, file>> /\ pc' = "recv"
    BY <1>8 DEF SyncAccepted
  <2>2. \A j \in AgentIds : owner[j] # NoName => owner'[j] = owner[j]
    BY <1>8, AcceptEffect
  <2>3. cfgName # NoName
    BY NameAssumption DEF TypeOK
  <2>4. /\ mem.id \in AgentIds \cup {NoId} /\ mem.prev \in AgentIds \cup {NoId}
        /\ file \in State => /\ file.id \in AgentIds \cup {NoId}
                            /\ file.prev \in AgentIds \cup {NoId}
    BY DEF TypeOK, State
  <2>5. IdentityBound' /\ Offered(mem)' /\ (file \in State => Offered(file))'
    BY <1>8, <2>1, <2>2, <2>3, <2>4, AcceptEffect DEF IdentityBound, Offered
  <2>6. ReplyInv' /\ PlaceInv'
    BY <1>8, <2>1, AcceptEffect DEF ReplyInv, PlaceInv, SyncAccepted
  <2>7. QED
    BY <2>5, <2>6
<1>9. CASE SyncDeclined \/ SyncFailed \/ SyncResponseLost
  BY <1>9, <1>b DEF SyncDeclined, SyncFailed, SyncResponseLost, SyncReturns
<1>10. CASE SyncResponse
  <2>1. /\ UNCHANGED <<apiVars, cfgName, file>>
        /\ pc' = "save" /\ pc = "recv"
        /\ mem' = SyncedState(mem, reply.id, cfgName, reply.migrated)
    BY <1>10 DEF SyncResponse
  <2>2. cfgName # NoName
    BY NameAssumption DEF TypeOK
  <2>3. QED
    BY <2>1, <2>2 DEF SyncedState, IdentityBound, Offered, ReplyInv, PlaceInv, apiVars
<1>11. CASE HeartbeatNotFound
  BY <1>11 DEF HeartbeatNotFound, ClearedState, IdentityBound, Offered, ReplyInv,
               PlaceInv, apiVars
<1>12. CASE Signal
  BY <1>12 DEF Signal, IdentityBound, Offered, ReplyInv, PlaceInv, apiVars
<1>13. CASE Crash \/ Stop
  BY <1>13, <1>a DEF Crash, Stop
<1>14. CASE Delete
  BY <1>14 DEF Delete, DeleteAgent, procVars, IdentityBound, Offered, ReplyInv, PlaceInv
<1>15. CASE UNCHANGED vars
  BY <1>15 DEF vars, apiVars, procVars, IdentityBound, Offered, ReplyInv, PlaceInv
<1>16. QED
  BY <1>1, <1>2, <1>3, <1>4, <1>5, <1>6, <1>7, <1>8, <1>9, <1>10, <1>11, <1>12,
     <1>13, <1>14, <1>15 DEF Next, Start, Save, Request, Heartbeat

------------------------------------------------------------------------------
(* Memory and file *)

LEMMA FollowsStep ==
    TypeOK /\ FileFollowsMemory /\ [Next]_vars => FileFollowsMemory'
<1> SUFFICES ASSUME TypeOK, FileFollowsMemory, [Next]_vars,
                    pc' \notin {"down", "save", "write"}, gap' = "none"
             PROVE  mem' = LoadState(file', TRUE)
  BY DEF FileFollowsMemory
<1>a. ASSUME pc \notin {"down", "save", "write"}, UNCHANGED <<mem, file, gap>>
      PROVE  mem' = LoadState(file', TRUE)
  BY <1>a DEF FileFollowsMemory
<1>1. CASE StartRefused \/ StartReset \/ SaveTruncates \/ SyncResponse
           \/ HeartbeatNotFound \/ Crash \/ Stop
  <2>1. pc' \in {"down", "save", "write"}
    BY <1>1 DEF StartRefused, StartReset, SaveTruncates, SyncResponse,
                HeartbeatNotFound, Crash, Stop, Exited
  <2>2. QED
    BY <2>1
<1>2. CASE StartRun
  <2>1. PICK readable \in BOOLEAN :
           /\ mem' = LoadState(file, readable)
           /\ gap' = IF file # Absent /\ LoadState(file, readable) # file
                     THEN "unread" ELSE "none"
    BY <1>2 DEF StartRun
  <2>2. file' = file
    BY <1>2 DEF StartRun
  <2>3. CASE file = Absent
    BY <2>1, <2>2, <2>3 DEF LoadState
  <2>4. CASE file # Absent
    <3>1. LoadState(file, readable) = file
      BY <2>1, <2>4
    <3>2. file \in State
      BY <3>1, LoadType DEF TypeOK
    <3>3. QED
      BY <2>1, <2>2, <3>1, <3>2, LoadType DEF TypeOK
  <2>5. QED
    BY <2>3, <2>4
<1>3. CASE SaveRejected \/ SaveFailsMidway
  BY <1>3, SaveReturnsEffect DEF SaveRejected, SaveFailsMidway, Exited, TypeOK, Gaps
<1>4. CASE SaveWrites
  <2>1. mem' = mem /\ file' = mem
    BY <1>4, SaveReturnsEffect DEF SaveWrites, Exited
  <2>2. mem \in State
    BY DEF TypeOK
  <2>3. QED
    BY <2>1, <2>2, FileAssumption DEF LoadState
<1>5. CASE Scan \/ Tick \/ HeartbeatReturns
  BY <1>5, <1>a DEF Scan, Tick, ScanTick, SyncTick, HeartbeatTick, HeartbeatReturns, At
<1>6. CASE SyncAccepted \/ SyncDeclined \/ SyncFailed \/ SyncResponseLost
  BY <1>6, <1>a
     DEF SyncAccepted, SyncDeclined, SyncFailed, SyncResponseLost, SyncReturns
<1>7. CASE Signal \/ Delete \/ UNCHANGED vars
  BY <1>7 DEF Signal, Delete, procVars, vars, FileFollowsMemory
<1>8. QED
  BY <1>1, <1>2, <1>3, <1>4, <1>5, <1>6, <1>7
     DEF Next, Start, Save, Request, Heartbeat

------------------------------------------------------------------------------
(* Predecessors *)

\* An identifier that becomes known in a step was in no state before it
LEMMA NewlyLive ==
    ASSUME TypeOK, BoundInv, [Next]_vars, NEW i \in live', i \notin live
    PROVE  /\ i \in AgentIds
           /\ i \notin {mem.id, mem.prev}
           /\ file \in State => i \notin {file.id, file.prev}
<1>1. CASE SyncAccepted
  <2>1. i \in AgentIds /\ owner[i] = NoName
    BY <1>1, AcceptEffect
  <2>2. i # NoId
    BY <2>1, IdAssumption
  <2>3. QED
    BY <2>1, <2>2 DEF BoundInv, Offered
<1>2. CASE ~SyncAccepted
  <2>1. live' \subseteq live
    BY <1>2 DEF Next, Start, StartRefused, StartRun, StartReset, Save, SaveRejected,
           SaveTruncates, SaveWrites, SaveFailsMidway, Scan, Request, SyncDeclined,
           SyncFailed, SyncResponse, SyncResponseLost, Heartbeat, HeartbeatReturns,
           HeartbeatNotFound, Tick, ScanTick, SyncTick, HeartbeatTick, At, Stop,
           Signal, Crash, Delete, DeleteAgent, apiVars, vars
  <2>2. QED
    BY <2>1
<1>3. QED
  BY <1>1, <1>2

\* Answers never un-present an identifier
LEMMA PresentedGrows ==
    ASSUME TypeOK, BoundInv, [Next]_vars PROVE presented \subseteq presented'
<1>1. CASE SyncAccepted
  BY <1>1, AcceptEffect
<1>2. CASE ~SyncAccepted
  BY <1>2 DEF Next, Start, StartRefused, StartRun, StartReset, Save, SaveRejected,
         SaveTruncates, SaveWrites, SaveFailsMidway, Scan, Request, SyncDeclined,
         SyncFailed, SyncResponse, SyncResponseLost, Heartbeat, HeartbeatReturns,
         HeartbeatNotFound, Tick, ScanTick, SyncTick, HeartbeatTick, At, Stop,
         Signal, Crash, Delete, DeleteAgent, apiVars, vars
<1>3. QED
  BY <1>1, <1>2

\* What the process drops from memory, the API has been offered or has deleted
LEMMA MemoryKeeps ==
    ASSUME TypeOK, BoundInv, [Next]_vars, pc # "down", pc' # "down",
           NEW i \in {mem.id, mem.prev} \cap live, i \in live'
    PROVE  i \in {mem'.id, mem'.prev} \cup presented'
<1>1. i # NoId
  BY IdAssumption DEF TypeOK, ApiTypeOK
<1>2. CASE mem' = mem
  BY <1>2
<1>3. CASE SyncResponse
  <2>1. /\ mem' = SyncedState(mem, reply.id, cfgName, reply.migrated)
        /\ pc = "recv" /\ presented' = presented
    BY <1>3 DEF SyncResponse, apiVars
  <2>2. CASE i = mem.id
    BY <2>1, <2>2 DEF SyncedState, BoundInv, ReplyInv
  <2>3. CASE i = mem.prev
    BY <1>1, <2>1, <2>3 DEF BoundInv, ReplyInv
  <2>4. QED
    BY <2>2, <2>3
<1>4. CASE HeartbeatNotFound
  BY <1>4 DEF HeartbeatNotFound, ClearedState
<1>5. mem' = mem \/ SyncResponse \/ HeartbeatNotFound
  BY SaveReturnsEffect
     DEF Next, Start, StartRefused, StartRun, StartReset, Save, SaveRejected,
         SaveTruncates, SaveWrites, SaveFailsMidway, Scan, Request, SyncAccepted,
         SyncDeclined, SyncFailed, SyncResponseLost, SyncReturns, Heartbeat,
         HeartbeatReturns, Tick, ScanTick, SyncTick, HeartbeatTick, At, Stop, Signal,
         Crash, Exited, Delete, procVars, vars
<1>6. QED
  BY <1>2, <1>3, <1>4, <1>5

\* Only Save touches the file, and only StartRun leaves it unread
LEMMA FileFrame ==
    ASSUME [Next]_vars, ~SaveTruncates, ~SaveWrites
    PROVE  /\ file' = file
           /\ ~StartRun /\ ~StartReset /\ pc' # "down" =>
                 pc # "down" /\ (gap' # "unread" => gap # "unread")
BY SaveReturnsEffect
   DEF Next, Start, StartRefused, StartRun, StartReset, Save, SaveRejected,
       SaveFailsMidway, Scan, Request, SyncAccepted, SyncDeclined, SyncFailed,
       SyncResponse, SyncResponseLost, SyncReturns, Heartbeat, HeartbeatReturns,
       HeartbeatNotFound, Tick, ScanTick, SyncTick, HeartbeatTick, At, Stop, Signal,
       Crash, Exited, Delete, procVars, vars

LEMMA KeptStep == TypeOK /\ BoundInv /\ KeptInv /\ [Next]_vars => KeptInv'
<1> SUFFICES ASSUME TypeOK, BoundInv, KeptInv, [Next]_vars,
                    pc' # "down", gap' # "unread", file' \in State,
                    NEW i \in {file'.id, file'.prev} \cap live'
             PROVE  i \in {mem'.id, mem'.prev} \cup presented'
  BY DEF KeptInv
<1>1. CASE SaveWrites
  BY <1>1, SaveReturnsEffect DEF SaveWrites, Exited
<1>2. CASE SaveTruncates
  BY <1>2, FileAssumption DEF SaveTruncates
<1>3. CASE ~SaveWrites /\ ~SaveTruncates
  <2>1. file' = file
    BY <1>3, FileFrame
  <2>2. i \in live
    BY <2>1, NewlyLive
  <2>3. CASE StartRun
    <3>1. mem' = file
      BY <2>1, <2>3, FileAssumption DEF StartRun
    <3>2. QED
      BY <2>1, <3>1
  <2>4. CASE StartReset
    <3>1. PICK readable \in BOOLEAN :
             /\ HasState(LoadState(file, readable))
             /\ mem' = ResetState(LoadState(file, readable))
      BY <2>4 DEF StartReset
    <3>2. mem' = ResetState(file)
      <4>1. LoadState(file, readable) # EmptyState
        BY <3>1 DEF HasState, EmptyState
      <4>2. LoadState(file, readable) = file
        BY <4>1, LoadType DEF TypeOK
      <4>3. QED
        BY <3>1, <4>2
    <3>3. i # NoId /\ presented' = presented
      BY <2>2, <2>4, IdAssumption DEF TypeOK, ApiTypeOK, StartReset, apiVars
    <3>4. QED
      BY <2>1, <3>2, <3>3 DEF ResetState, BoundInv, Offered
  <2>5. CASE ~StartRun /\ ~StartReset
    <3>1. pc # "down" /\ gap # "unread"
      BY <1>3, <2>5, FileFrame
    <3>2. i \in {mem.id, mem.prev} \cup presented
      BY <2>1, <2>2, <3>1 DEF KeptInv
    <3>3. QED
      BY <2>2, <3>1, <3>2, MemoryKeeps, PresentedGrows
  <2>6. QED
    BY <2>3, <2>4, <2>5
<1>4. QED
  BY <1>1, <1>2, <1>3

LEMMA PredecessorStep ==
    ASSUME IInv, [Next]_vars, NEW i \in AgentIds \cap live', i \in Held,
           gap # "unread", ~(file' = Torn /\ pc' = "down")
    PROVE  i \in Held' \cup presented'
<1> USE DEF IInv
<1>1. CASE file \in State
  <2>1. i \in {file.id, file.prev} \cap live
    BY <1>1, NewlyLive DEF Held
  <2>2. CASE SaveTruncates
    <3>1. pc # "down" /\ pc' # "down" /\ file' = Torn /\ mem' = mem /\ presented' = presented
      BY <2>2 DEF SaveTruncates, apiVars
    <3>2. i \in {mem.id, mem.prev} \cup presented
      BY <1>1, <2>1, <3>1 DEF KeptInv
    <3>3. QED
      BY <3>1, <3>2, FileAssumption DEF Held
  <2>3. CASE SaveWrites
    BY <1>1, <2>3, FileAssumption DEF SaveWrites, BoundInv, PlaceInv
  <2>4. CASE ~SaveTruncates /\ ~SaveWrites
    BY <1>1, <2>1, <2>4, FileFrame DEF Held
  <2>5. QED
    BY <2>2, <2>3, <2>4
<1>2. CASE file \notin State
  <2>1. file = Torn /\ pc # "down" /\ i \in {mem.id, mem.prev}
    BY <1>2 DEF Held
  <2>2. i \in live
    BY <2>1, NewlyLive
  <2>3. CASE SaveWrites
    <3>1. file' = mem /\ mem \in State
      BY <2>3 DEF SaveWrites, TypeOK
    <3>2. QED
      BY <2>1, <3>1 DEF Held
  <2>4. CASE ~SaveWrites
    <3>1. file' = Torn
      BY <2>1, <2>4, FileFrame DEF SaveTruncates
    <3>2. pc' # "down"
      BY <3>1
    <3>3. QED
      BY <2>1, <2>2, <3>1, <3>2, MemoryKeeps, FileAssumption DEF Held
  <2>5. QED
    BY <2>3, <2>4
<1>3. QED
  BY <1>1, <1>2

------------------------------------------------------------------------------
(* The theorems *)

LEMMA InitInv == Init => IInv
<1> SUFFICES ASSUME Init PROVE IInv
  OBVIOUS
<1>1. ApiTypeOK
  BY DEF Init, ApiInit, ApiTypeOK
<1>2. TypeOK
  BY <1>1 DEF Init, TypeOK, PCs, Tasks, EmptyState, State, FileContents, NoReply, Replies,
              Gaps
<1>3. BoundInv
  BY FileAssumption
     DEF Init, BoundInv, IdentityBound, Offered, ReplyInv, PlaceInv, EmptyState
<1>4. FileFollowsMemory /\ KeptInv
  BY DEF Init, FileFollowsMemory, KeptInv
<1>5. QED
  BY <1>2, <1>3, <1>4 DEF IInv

LEMMA StepInv == IInv /\ [Next]_vars => IInv'
BY TypeStep, BoundStep, FollowsStep, KeptStep DEF IInv

LEMMA Invariance == Spec => []IInv
BY InitInv, StepInv, PTL DEF Spec

\* Every variable stays in its type, the file being absent, torn or a record
THEOREM TypeCorrect == Spec => []TypeOK
BY Invariance, PTL DEF IInv

\* No agent ever presents, or stores, an identifier under another name than the
\* one it was issued to
THEOREM IdentityIsBound == Spec => []IdentityBound
BY Invariance, PTL DEF IInv, BoundInv

\* Memory and file agree between saves, unless a load or a save failed
THEOREM FileIsCurrent == Spec => []FileFollowsMemory
BY Invariance, PTL DEF IInv

\* No agent the API knows is forgotten without having been offered as a
\* predecessor, but by a torn or an unread file
THEOREM PredecessorIsKept == Spec => PredecessorKept
<1>1. IInv /\ [Next]_vars =>
        [\A i \in AgentIds \cap live' :
            i \in Held =>
               \/ i \in Held' \cup presented'
               \/ gap = "unread"
               \/ file' = Torn /\ pc' = "down"]_vars
  BY PredecessorStep
<1>2. QED
  BY <1>1, Invariance, PTL DEF Spec, PredecessorKept

==============================================================================
