----------------------- MODULE ControllerIdentity_proofs -----------------------
(****************************************************************************)
(* Safety of ControllerIdentity for every set of identifiers and names.     *)
(****************************************************************************)
EXTENDS ControllerIdentity, TLAPS

Paired(st) == st.id # NoId => <<st.id, st.name>> \in confirmed

\* The manager holds a pair that came together in an accepted sync, except
\* between the two setters; and so does the answer under way, with the name.
MemoryPaired ==
    /\ loop # "named" => Paired(mem)
    /\ reply # NoId => <<reply, cfgName>> \in confirmed
    /\ loop = "named" => mem.id = reply

\* The inductive invariant
IInv == TypeOK /\ PairConfirmed /\ MemoryPaired /\ FileFollowsMemory

USE IdAssumption, NameAssumption, FileAssumption

LEMMA LoadType ==
  ASSUME NEW f \in FileContents, NEW readable \in BOOLEAN
  PROVE  /\ LoadState(f, readable) \in State
         /\ LoadState(f, readable) \in {f, EmptyState}
  BY DEF LoadState, FileContents, EmptyState, State

LEMMA InitIInv == Init => IInv
  <1> SUFFICES ASSUME Init PROVE IInv OBVIOUS
  <1> USE DEF Init
  <1>1. ApiTypeOK BY DEF ApiInit, ApiTypeOK
  <1>2. mem \in State /\ file \in FileContents BY DEF EmptyState, State, FileContents
  <1>3. TypeOK BY <1>1, <1>2 DEF TypeOK, Loops
  <1>4. PairConfirmed BY <1>2 DEF PairConfirmed, State
  <1>5. MemoryPaired BY DEF MemoryPaired, Paired, EmptyState
  <1>6. FileFollowsMemory BY DEF FileFollowsMemory
  <1> QED BY <1>3, <1>4, <1>5, <1>6 DEF IInv

\* The identity a new process begins with is that of the file, or none
LEMMA StartStep == IInv /\ Start => IInv'
  <1> SUFFICES ASSUME IInv, Start PROVE IInv' OBVIOUS
  <1> USE DEF IInv, Start
  <1>1. PICK readable \in BOOLEAN : mem' = LoadState(file, readable) OBVIOUS
  <1>2. mem' \in State /\ mem' \in {file, EmptyState}
    BY <1>1, LoadType DEF TypeOK
  <1>3. TypeOK' BY <1>2 DEF TypeOK, ApiTypeOK, apiVars, Loops
  <1>4. PairConfirmed' BY DEF PairConfirmed
  <1>5. reply = NoId BY DEF TypeOK, Loops
  <1>6. MemoryPaired'
    BY <1>2, <1>5 DEF MemoryPaired, Paired, PairConfirmed, EmptyState
  <1>7. FileFollowsMemory'
    BY <1>2 DEF FileFollowsMemory, LoadState, TypeOK
  <1> QED BY <1>3, <1>4, <1>6, <1>7

\* An end of the process loses what is in memory, and leaves the file as it is
LEMMA ExitStep == IInv /\ Exit => IInv'
  <1> SUFFICES ASSUME IInv, Exit PROVE IInv' OBVIOUS
  <1> USE DEF IInv, Exit
  <1>1. mem' \in State BY DEF EmptyState, State
  <1>2. TypeOK' BY <1>1 DEF TypeOK, ApiTypeOK, apiVars, Loops
  <1>3. PairConfirmed' BY DEF PairConfirmed
  <1>4. MemoryPaired' BY DEF MemoryPaired, Paired, EmptyState
  <1>5. FileFollowsMemory' BY DEF FileFollowsMemory
  <1> QED BY <1>2, <1>3, <1>4, <1>5

\* A sync whose answer names an identifier: the pair is confirmed
LEMMA SyncAcceptedStep == IInv /\ SyncAccepted => IInv'
  <1> SUFFICES ASSUME IInv, SyncAccepted PROVE IInv' OBVIOUS
  <1> USE DEF IInv, SyncAccepted
  <1>1. PICK i \in Registrations(mem.id, cfgName) :
             /\ AcceptSync(NoId, cfgName, i) /\ reply' = i
             /\ confirmed' = confirmed \cup {<<i, cfgName>>}
    OBVIOUS
  <1>2. i \in AgentIds BY DEF Registrations, Unissued, TypeOK, ApiTypeOK
  <1>3. ApiTypeOK' BY <1>1, <1>2 DEF AcceptSync, TypeOK, ApiTypeOK
  <1>4. TypeOK' BY <1>1, <1>2, <1>3 DEF TypeOK, Loops
  <1>5. PairConfirmed' BY <1>1 DEF PairConfirmed
  <1>6. MemoryPaired' BY <1>1, <1>2 DEF MemoryPaired, Paired
  <1>7. FileFollowsMemory' BY DEF FileFollowsMemory
  <1> QED BY <1>4, <1>5, <1>6, <1>7

\* Both setters of the identity
LEMMA SetStep == IInv /\ (SetAgentID \/ SetAgentName) => IInv'
  <1> SUFFICES ASSUME IInv, SetAgentID \/ SetAgentName PROVE IInv' OBVIOUS
  <1> USE DEF IInv, SetAgentID, SetAgentName
  <1>1. TypeOK' BY DEF TypeOK, ApiTypeOK, apiVars, Loops, State
  <1>2. PairConfirmed' BY DEF PairConfirmed
  <1>3. MemoryPaired' BY DEF MemoryPaired, Paired, TypeOK, State
  <1>4. FileFollowsMemory' BY DEF FileFollowsMemory
  <1> QED BY <1>1, <1>2, <1>3, <1>4

\* What is saved is the pair the manager holds
LEMMA SaveStep == IInv /\ Save => IInv'
  <1> SUFFICES ASSUME IInv, Save PROVE IInv' OBVIOUS
  <1> USE DEF IInv, Save, SaveTruncates, SaveWrites, SaveFails
  <1>1. TypeOK' BY DEF TypeOK, ApiTypeOK, apiVars, Loops, FileContents
  <1>2. PairConfirmed' BY DEF PairConfirmed, MemoryPaired, Paired, TypeOK
  <1>3. MemoryPaired' BY DEF MemoryPaired, Paired
  <1>4. FileFollowsMemory' BY DEF FileFollowsMemory, LoadState, TypeOK
  <1> QED BY <1>1, <1>2, <1>3, <1>4

\* Every other step leaves the identity, the file and the pairs alone
LEMMA QuietStep ==
  /\ IInv
  /\ \/ Signal \/ SyncTick \/ SyncFailed \/ SyncLost
     \/ HeartbeatTick \/ HeartbeatReturns \/ Watch \/ Delete \/ UNCHANGED vars
  => IInv'
  <1> SUFFICES ASSUME IInv,
                      \/ Signal \/ SyncTick \/ SyncFailed \/ SyncLost \/ HeartbeatTick
                      \/ HeartbeatReturns \/ Watch \/ Delete \/ UNCHANGED vars
               PROVE  IInv'
    OBVIOUS
  <1> USE DEF IInv
  <1>1. UNCHANGED <<mem, file, confirmed, cfgName, gap, owner>>
    BY DEF Signal, SyncTick, At, SyncFailed, SyncLost, HeartbeatTick, HeartbeatReturns,
           Watch, Delete, DeleteAgent, vars, procVars, apiVars
  <1>2. live' \subseteq live /\ presented' = presented
    BY DEF Signal, SyncTick, At, SyncFailed, SyncLost, HeartbeatTick, HeartbeatReturns,
           Watch, Delete, DeleteAgent, vars, procVars, apiVars
  <1>3. \/ loop' = loop /\ reply' = reply
        \/ loop \in {"select", "send"} /\ loop' \in {"select", "send"} /\ reply' = reply
        \/ loop = "recv" /\ loop' = "select" /\ reply' = NoId
    BY DEF Signal, SyncTick, At, SyncFailed, SyncLost, HeartbeatTick, HeartbeatReturns,
           Watch, Delete, vars, procVars
  <1>4. /\ beat' \in AgentIds \cup {NoId} /\ watched' \in BOOLEAN
        /\ canceled' \in BOOLEAN
    BY DEF Signal, SyncTick, At, SyncFailed, SyncLost, HeartbeatTick, HeartbeatReturns,
           Watch, Delete, vars, procVars, TypeOK, State
  <1>5. TypeOK' BY <1>1, <1>2, <1>3, <1>4 DEF TypeOK, ApiTypeOK, Loops
  <1>6. PairConfirmed' BY <1>1 DEF PairConfirmed
  <1>7. MemoryPaired' BY <1>1, <1>3 DEF MemoryPaired, Paired
  <1>8. FileFollowsMemory' BY <1>1, <1>3 DEF FileFollowsMemory
  <1> QED BY <1>5, <1>6, <1>7, <1>8

LEMMA NextIInv == IInv /\ [Next]_vars => IInv'
  <1> SUFFICES ASSUME IInv, [Next]_vars PROVE IInv' OBVIOUS
  <1>1. CASE Start \/ Exit BY <1>1, StartStep, ExitStep
  <1>2. CASE Sync
    BY <1>2, SyncAcceptedStep, SetStep, QuietStep DEF Sync
  <1>3. CASE Save BY <1>3, SaveStep
  <1>4. CASE \/ Signal \/ SyncTick \/ HeartbeatTick \/ HeartbeatReturns
             \/ Watch \/ Delete \/ UNCHANGED vars
    BY <1>4, QuietStep
  <1> QED BY <1>1, <1>2, <1>3, <1>4 DEF Next

LEMMA AlwaysIInv == Spec => []IInv
  BY InitIInv, NextIInv, PTL DEF Spec

\* Every variable keeps its type; an answer is under way exactly from its arrival
\* to the second setter.
THEOREM TypeCorrect == Spec => []TypeOK
  <1>1. IInv => TypeOK BY DEF IInv
  <1> QED BY <1>1, AlwaysIInv, PTL

\* The identifier and the name in the file came together in a sync the API
\* accepted, wherever the process ends.
THEOREM PairIsConfirmed == Spec => []PairConfirmed
  <1>1. IInv => PairConfirmed BY DEF IInv
  <1> QED BY <1>1, AlwaysIInv, PTL

\* Between two saves the file holds what the manager holds.
THEOREM FileIsCurrent == Spec => []FileFollowsMemory
  <1>1. IInv => FileFollowsMemory BY DEF IInv
  <1> QED BY <1>1, AlwaysIInv, PTL

==============================================================================
