---------------------------- MODULE AgentLifecycle ----------------------------
(****************************************************************************)
(* The identity of cw-agent through start, reset, sync, heartbeat,          *)
(* re-registration, shutdown and crash: internal/cmd/start.go,              *)
(* internal/agent/agent.go, internal/sync/client.go and the Load and Save   *)
(* of internal/state/state.go.  One goroutine runs all of it (Agent.Run);   *)
(* pc says where that goroutine is and task what it is doing, which decides *)
(* how it goes on after a save or a request.                                *)
(****************************************************************************)
EXTENDS CertWatchAPI

CONSTANT HeartbeatEnabled   \* heartbeat_interval > 0 in the configuration
ASSUME HeartbeatAssumption == HeartbeatEnabled \in BOOLEAN

VARIABLES
    pc,         \* where the main goroutine is
    task,       \* what it is doing there
    cfgName,    \* agent.name of the latest start
    mem,        \* the state the manager holds
    file,       \* the state file
    reply,      \* the API's answer the agent is about to handle
    canceled,   \* the context is canceled: a signal was received
    ready,      \* server.SetReady
    gap         \* why mem and file may differ between two saves (history)

procVars == <<pc, task, cfgName, mem, file, reply, canceled, ready, gap>>
vars == <<apiVars, procVars>>

PCs == {"down",     \* no process
        "save",     \* Save is about to open the file
        "write",    \* Save has truncated the file and is about to write it
        "scan",     \* scanning
        "send",     \* a sync request is about to be sent
        "recv",     \* the API has handled the request, its answer is under way
        "beat",     \* a heartbeat is about to be sent
        "idle"}     \* in the select of Agent.Run

Tasks == {"none",
          "reset",          \* handleAgentReset, before the agent runs
          "initial",        \* the first scanAndSync
          "tick",           \* a scan of the scan ticker
          "periodic",       \* a sync of the sync ticker
          "clear",          \* ClearAgentID after a heartbeat was answered 404
          "reregister"}     \* the scanAndSync after ClearAgentID

Replies == [id : AgentIds \cup {NoId}, migrated : BOOLEAN]
NoReply == [id |-> NoId, migrated |-> FALSE]

Gaps == {"none",
         "unread",      \* this run started from a file it could not read
         "unsaved"}     \* its last save failed

TypeOK ==
    /\ ApiTypeOK
    /\ pc \in PCs
    /\ task \in Tasks
    /\ cfgName \in AgentNames
    /\ mem \in State
    /\ file \in FileContents
    /\ reply \in Replies
    /\ canceled \in BOOLEAN
    /\ ready \in BOOLEAN
    /\ gap \in Gaps

Init ==
    /\ ApiInit
    /\ pc = "down" /\ task = "none"
    /\ cfgName \in AgentNames
    /\ mem = EmptyState /\ file = Absent /\ reply = NoReply
    /\ canceled = FALSE /\ ready = FALSE /\ gap = "none"

------------------------------------------------------------------------------
(* runStart *)

\* The process is gone and with it everything it held in memory
Exited ==
    /\ pc' = "down" /\ task' = "none"
    /\ mem' = EmptyState /\ reply' = NoReply
    /\ canceled' = FALSE /\ ready' = FALSE /\ gap' = "none"

\* `start` without --reset-agent under a changed name: nothing is changed
StartRefused ==
    /\ pc = "down"
    /\ \E name \in AgentNames, readable \in BOOLEAN :
          /\ HasNameChanged(LoadState(file, readable), name)
          /\ cfgName' = name
    /\ UNCHANGED <<apiVars, pc, task, mem, file, reply, canceled, ready, gap>>

\* `start`, and `start --reset-agent` when there is nothing to reset
StartRun ==
    /\ pc = "down"
    /\ \E name \in AgentNames, readable, reset \in BOOLEAN :
          LET st == LoadState(file, readable) IN
          /\ IF reset THEN ~HasState(st) ELSE ~HasNameChanged(st, name)
          /\ cfgName' = name
          /\ mem' = st
          /\ gap' = IF file # Absent /\ st # file THEN "unread" ELSE "none"
    /\ pc' = "scan" /\ task' = "initial"
    /\ UNCHANGED <<apiVars, file, reply, canceled, ready>>

\* `start --reset-agent`, confirmed (a declined prompt exits without a change)
StartReset ==
    /\ pc = "down"
    /\ \E name \in AgentNames, readable \in BOOLEAN :
          LET st == LoadState(file, readable) IN
          /\ HasState(st)
          /\ cfgName' = name
          /\ mem' = ResetState(st)
    /\ pc' = "save" /\ task' = "reset"
    /\ UNCHANGED <<apiVars, file, reply, canceled, ready, gap>>

------------------------------------------------------------------------------
(* Manager.Save, and how each of its callers goes on *)

\* Fault: an agent without an identifier is not marked ready
SyncReturnsFault ==
    /\ pc' = "idle" /\ task' = "none" /\ reply' = NoReply
    /\ ready' = (ready \/ (task = "initial" /\ mem.id # NoId))
    /\ UNCHANGED <<mem, canceled>>

\* syncWithCloud returns to Run or to sendHeartbeat.  Run marks the agent ready
\* after its first sync, whether or not it succeeded
SyncReturns ==
    /\ pc' = "idle" /\ task' = "none" /\ reply' = NoReply
    /\ ready' = (ready \/ task = "initial")
    /\ UNCHANGED <<mem, canceled>>

\* Save returns to handleAgentReset, which gives up after a failure; to
\* ClearAgentID or Sync, whose callers go on all the same
SaveReturns(ok) ==
    \/ task = "reset" /\ ~ok /\ Exited
    \/ /\ (task = "reset" /\ ok) \/ task = "clear"
       /\ pc' = "scan"
       /\ task' = IF task = "reset" THEN "initial" ELSE "reregister"
       /\ gap' = IF ok THEN "none" ELSE IF gap = "none" THEN "unsaved" ELSE gap
       /\ UNCHANGED <<mem, reply, canceled, ready>>
    \/ /\ task \notin {"reset", "clear"}
       /\ gap' = IF ok THEN "none" ELSE IF gap = "none" THEN "unsaved" ELSE gap
       /\ SyncReturns

\* The file cannot be opened
SaveRejected ==
    /\ pc = "save"
    /\ SaveReturns(FALSE)
    /\ UNCHANGED <<apiVars, cfgName, file>>

SaveTruncates ==
    /\ pc = "save"
    /\ pc' = "write"
    /\ file' = Torn
    /\ UNCHANGED <<apiVars, task, cfgName, mem, reply, canceled, ready, gap>>

SaveWrites ==
    /\ pc = "write"
    /\ file' = mem
    /\ SaveReturns(TRUE)
    /\ UNCHANGED <<apiVars, cfgName>>

\* The write fails after the truncation
SaveFailsMidway ==
    /\ pc = "write"
    /\ SaveReturns(FALSE)
    /\ UNCHANGED <<apiVars, cfgName, file>>

------------------------------------------------------------------------------
(* The select of Agent.Run *)

At(place, doing) ==
    /\ pc' = place /\ task' = doing
    /\ UNCHANGED <<apiVars, cfgName, mem, file, reply, canceled, ready, gap>>

ScanTick == pc = "idle" /\ At("scan", "tick")

SyncTick == pc = "idle" /\ At("send", "periodic")

\* A heartbeat without an identifier is skipped
HeartbeatTick ==
    /\ pc = "idle" /\ HeartbeatEnabled /\ mem.id # NoId
    /\ At("beat", "none")

Stop ==
    /\ pc = "idle" /\ canceled
    /\ Exited
    /\ UNCHANGED <<apiVars, cfgName, file>>

\* ScanAll returns results whatever happens to the connections
Scan ==
    /\ pc = "scan"
    /\ IF task = "tick" THEN At("idle", "none") ELSE At("send", task)

------------------------------------------------------------------------------
(* Client.Sync *)

\* The API registers the agent; its answer is under way
SyncAccepted ==
    /\ pc = "send" /\ ~canceled
    /\ \E i \in Registrations(mem.id, cfgName), migrated \in BOOLEAN :
          /\ migrated => mem.prev # NoId
          /\ AcceptSync(mem.prev, cfgName, i)
          /\ reply' = [id |-> i, migrated |-> migrated]
    /\ pc' = "recv"
    /\ UNCHANGED <<task, cfgName, mem, file, canceled, ready, gap>>

\* A 2xx answer without success or without an identifier is not an error
SyncDeclined ==
    /\ pc = "send" /\ ~canceled
    /\ SyncReturns
    /\ UNCHANGED <<apiVars, cfgName, file, gap>>

\* Fault: the request outlives the context
SyncFailedFault ==
    /\ pc = "send" /\ ~canceled
    /\ SyncReturns
    /\ UNCHANGED <<apiVars, cfgName, file, gap>>

\* No connection, a timeout, a canceled context or an error status
SyncFailed ==
    /\ pc = "send"
    /\ SyncReturns
    /\ UNCHANGED <<apiVars, cfgName, file, gap>>

\* The identifier and the name are adopted together, then saved
SyncResponse ==
    /\ pc = "recv"
    /\ mem' = SyncedState(mem, reply.id, cfgName, reply.migrated)
    /\ pc' = "save"
    /\ UNCHANGED <<apiVars, task, cfgName, file, reply, canceled, ready, gap>>

\* The API has handled the request and the agent never learns of it
SyncResponseLost ==
    /\ pc = "recv"
    /\ SyncReturns
    /\ UNCHANGED <<apiVars, cfgName, file, gap>>

------------------------------------------------------------------------------
(* sendHeartbeat *)

\* Answered, or failed with anything but 404
HeartbeatReturns ==
    /\ pc = "beat"
    /\ At("idle", "none")

\* Fault: the cleared state is not saved
HeartbeatNotFoundFault ==
    /\ pc = "beat" /\ ~canceled
    /\ mem.id \notin live
    /\ mem' = ClearedState(mem)
    /\ pc' = "scan" /\ task' = "reregister"
    /\ UNCHANGED <<apiVars, cfgName, file, reply, canceled, ready, gap>>

\* 404: the identifier is forgotten, and the agent registers again
HeartbeatNotFound ==
    /\ pc = "beat" /\ ~canceled
    /\ mem.id \notin live
    /\ mem' = ClearedState(mem)
    /\ pc' = "save" /\ task' = "clear"
    /\ UNCHANGED <<apiVars, cfgName, file, reply, canceled, ready, gap>>

------------------------------------------------------------------------------
(* The outside world *)

\* SIGINT or SIGTERM once the handler is installed, after the reset stage
Signal ==
    /\ pc # "down" /\ task # "reset" /\ ~canceled
    /\ canceled' = TRUE
    /\ UNCHANGED <<apiVars, pc, task, cfgName, mem, file, reply, ready, gap>>

\* SIGKILL, a power failure, or a signal during the reset stage
Crash ==
    /\ pc # "down"
    /\ Exited
    /\ UNCHANGED <<apiVars, cfgName, file>>

Delete ==
    /\ \E i \in live : DeleteAgent(i)
    /\ UNCHANGED procVars

Start == StartRefused \/ StartRun \/ StartReset
Save == SaveRejected \/ SaveTruncates \/ SaveWrites \/ SaveFailsMidway
Request == SyncAccepted \/ SyncDeclined \/ SyncFailed \/ SyncResponse \/ SyncResponseLost
Heartbeat == HeartbeatReturns \/ HeartbeatNotFound
Tick == ScanTick \/ SyncTick \/ HeartbeatTick

Next == Start \/ Save \/ Scan \/ Request \/ Heartbeat \/ Tick \/ Stop
        \/ Signal \/ Crash \/ Delete

Spec == Init /\ [][Next]_vars

\* What the main goroutine does without waiting for the select or a start
Proceed == Save \/ Scan \/ Request \/ Heartbeat

\* The goroutine keeps running.  The select of Run picks any ready case at
\* random, so a case that keeps being ready is picked: hence strong fairness of
\* its branches.  The network and the API do not fail for ever: a request that
\* is sent again and again is answered at last, an accepted sync being promised
\* only to an agent the API knows or one without an identifier.
Fairness ==
    /\ WF_vars(Proceed)
    /\ SF_vars(SyncTick) /\ SF_vars(HeartbeatTick) /\ SF_vars(Stop)
    /\ SF_vars(SyncAccepted /\ mem.id \in live \cup {NoId})
    /\ SF_vars(SyncResponse)
    /\ SF_vars(HeartbeatNotFound)

FairSpec == Spec /\ Fairness

------------------------------------------------------------------------------
(* Properties *)

\* The identifier an agent holds was issued to the name it runs under, and the
\* identifier in the file to the name beside it.  Every request after the start
\* presents mem.id with cfgName, so no agent ever speaks for another: this is
\* what the name check of runStart and the reset are for, across any sequence
\* of renames, resets, lost answers, failed saves and crashes.
IdentityBound ==
    /\ mem.id # NoId => owner[mem.id] = cfgName /\ mem.name = cfgName
    /\ file \in State /\ file.id # NoId => owner[file.id] = file.name

\* Between two saves the file holds what the manager holds, unless the file was
\* not read at the start or the last save failed: no path of Sync, ClearAgentID
\* or handleAgentReset changes the identity in memory and goes on without
\* saving it.
FileFollowsMemory ==
    pc \notin {"down", "save", "write"} /\ gap = "none" =>
        mem = LoadState(file, TRUE)

\* The identifiers a restart, or the next save, can still start from
Held == IF file \in State THEN {file.id, file.prev}
        ELSE IF file = Torn /\ pc # "down" THEN {mem.id, mem.prev} ELSE {}

\* An agent the API still knows is never orphaned: its identifier stays in the
\* state until the API has been offered it as a predecessor, so that its
\* certificates can migrate.  It is lost only when the process ends between the
\* truncation and the write of Save, or when a file that was not read at the
\* start is overwritten.
PredecessorKept ==
    [][\A i \in AgentIds \cap live' :
          i \in Held =>
             \/ i \in Held' \cup presented'
             \/ gap = "unread"
             \/ file' = Torn /\ pc' = "down"]_vars

\* An agent that is not registered, or whose registration was deleted while it
\* was running, registers again through its heartbeats and syncs unless it
\* ends: ClearAgentID after a 404 is what makes the API give it an identifier.
\* The API must have one left for it.
ReRegisters ==
    pc # "down" /\ mem.id \notin live
        ~> pc = "down" \/ mem.id \in live \/ ~CanRegister(cfgName)

\* A signal ends the run, whatever request, save or scan it falls into.
StopsAfterSignal == canceled ~> pc = "down"

\* A run that does not end becomes ready: /readyz must not depend on what the
\* API answers to the first sync, or an agent started while the cloud is down
\* would stay out of service after the cloud is back.
BecomesReady == pc # "down" ~> ready \/ pc = "down"

==============================================================================
