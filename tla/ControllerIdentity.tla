-------------------------- MODULE ControllerIdentity --------------------------
(****************************************************************************)
(* The identity of cw-agent-certmanager: cmd/cw-agent-certmanager/main.go,  *)
(* the goroutines syncLoop and heartbeatLoop of                             *)
(* internal/certmanager/agent.go, the cert-manager sync of                  *)
(* internal/sync/client.go, and the state manager they share.  The          *)
(* controller has no name check, no reset and no re-registration; it obtains*)
(* its identifier from the answer to a certificate sync, and the process    *)
(* ends without waiting for its goroutines.                                 *)
(****************************************************************************)
EXTENDS CertWatchAPI

VARIABLES
    loop,       \* where syncLoop is
    beat,       \* the identifier of the heartbeat under way
    watched,    \* the map of certificates is not empty
    cfgName,    \* agent.name of the latest start
    mem,        \* the state the manager holds
    file,       \* the state file
    reply,      \* identifier in the answer under way
    canceled,   \* a signal was received
    gap,        \* mem and file may differ: the file was not read, or not saved (history)
    confirmed   \* identifiers and names that came together in an accepted sync (history)

procVars == <<loop, beat, cfgName, mem, file, reply, canceled, gap, confirmed>>
vars == <<apiVars, procVars, watched>>

Loops == {"down", "select", "send", "recv",
          "named",      \* SetAgentID is done, SetAgentName is next
          "save", "write"}

TypeOK ==
    /\ ApiTypeOK
    /\ loop \in Loops
    /\ beat \in AgentIds \cup {NoId}
    /\ watched \in BOOLEAN
    /\ cfgName \in AgentNames
    /\ mem \in State
    /\ file \in FileContents
    /\ reply \in AgentIds \cup {NoId}
    /\ reply # NoId <=> loop \in {"recv", "named"}
    /\ canceled \in BOOLEAN /\ gap \in BOOLEAN
    /\ confirmed \subseteq AgentIds \X AgentNames

Init ==
    /\ ApiInit
    /\ loop = "down" /\ beat = NoId /\ watched = FALSE
    /\ cfgName \in AgentNames
    /\ mem = EmptyState /\ file = Absent /\ reply = NoId
    /\ canceled = FALSE /\ gap = FALSE /\ confirmed = {}

------------------------------------------------------------------------------
(* run of main.go *)

Start ==
    /\ loop = "down" /\ loop' = "select"
    /\ cfgName' \in AgentNames
    /\ \E readable \in BOOLEAN : mem' = LoadState(file, readable)
    /\ gap' = (file # Absent /\ mem' # file)
    /\ UNCHANGED <<apiVars, beat, watched, file, reply, canceled, confirmed>>

Signal ==
    /\ loop # "down" /\ ~canceled
    /\ canceled' = TRUE
    /\ UNCHANGED <<apiVars, loop, beat, watched, cfgName, mem, file, reply,
                   gap, confirmed>>

\* The manager returns on the signal and the process ends, or is killed: syncLoop
\* and heartbeatLoop are not waited for
Exit ==
    /\ loop # "down" /\ loop' = "down"
    /\ beat' = NoId /\ mem' = EmptyState /\ reply' = NoId
    /\ canceled' = FALSE /\ gap' = FALSE /\ watched' = FALSE
    /\ UNCHANGED <<apiVars, cfgName, file, confirmed>>

------------------------------------------------------------------------------
(* syncLoop *)

At(place) ==
    /\ loop' = place
    /\ UNCHANGED <<apiVars, beat, watched, cfgName, mem, file, reply,
                   canceled, gap, confirmed>>

\* Fault: a sync, too, is skipped without an identifier
SyncTickFault == loop = "select" /\ watched /\ mem.id # NoId /\ At("send")

\* doSync, unless the map is empty
SyncTick == loop = "select" /\ watched /\ At("send")

\* Fault: an answer without an identifier is adopted
SyncAcceptedFault ==
    /\ loop = "send" /\ ~canceled /\ loop' = "recv"
    /\ \E i \in Registrations(mem.id, cfgName) :
          /\ AcceptSync(NoId, cfgName, i)
          /\ reply' \in {i, NoId}
          /\ confirmed' = confirmed \cup {<<i, cfgName>>}
    /\ UNCHANGED <<beat, watched, cfgName, mem, file, canceled, gap>>

\* The API answers with an identifier
SyncAccepted ==
    /\ loop = "send" /\ ~canceled /\ loop' = "recv"
    /\ \E i \in Registrations(mem.id, cfgName) :
          /\ AcceptSync(NoId, cfgName, i)
          /\ reply' = i
          /\ confirmed' = confirmed \cup {<<i, cfgName>>}
    /\ UNCHANGED <<beat, watched, cfgName, mem, file, canceled, gap>>

\* An answer without success, or an error
SyncFailed == loop = "send" /\ At("select")

SyncLost ==
    /\ loop = "recv" /\ loop' = "select"
    /\ reply' = NoId
    /\ UNCHANGED <<apiVars, beat, watched, cfgName, mem, file, canceled, gap,
                   confirmed>>

SetAgentID ==
    /\ loop = "recv" /\ loop' = "named"
    /\ mem' = [mem EXCEPT !.id = reply]
    /\ UNCHANGED <<apiVars, beat, watched, cfgName, file, reply, canceled,
                   gap, confirmed>>

\* Fault: the name of the first sync is kept
SetAgentNameFault ==
    /\ loop = "named" /\ loop' = "save"
    /\ mem' = [mem EXCEPT !.name = IF @ = NoName THEN cfgName ELSE @]
    /\ reply' = NoId
    /\ UNCHANGED <<apiVars, beat, watched, cfgName, file, canceled, gap,
                   confirmed>>

\* Fault: the identity is not saved
SetAgentNameUnsavedFault ==
    /\ loop = "named" /\ loop' = "select"
    /\ mem' = [mem EXCEPT !.name = cfgName]
    /\ reply' = NoId
    /\ UNCHANGED <<apiVars, beat, watched, cfgName, file, canceled, gap,
                   confirmed>>

SetAgentName ==
    /\ loop = "named" /\ loop' = "save"
    /\ mem' = [mem EXCEPT !.name = cfgName]
    /\ reply' = NoId
    /\ UNCHANGED <<apiVars, beat, watched, cfgName, file, canceled, gap,
                   confirmed>>

SaveTruncates ==
    /\ loop = "save" /\ loop' = "write"
    /\ file' = Torn
    /\ UNCHANGED <<apiVars, beat, watched, cfgName, mem, reply, canceled,
                   gap, confirmed>>

SaveWrites ==
    /\ loop = "write" /\ loop' = "select"
    /\ file' = mem /\ gap' = FALSE
    /\ UNCHANGED <<apiVars, beat, watched, cfgName, mem, reply, canceled,
                   confirmed>>

\* The file cannot be opened, or not be written: a warning
SaveFails ==
    /\ loop \in {"save", "write"} /\ loop' = "select"
    /\ gap' = TRUE
    /\ UNCHANGED <<apiVars, beat, watched, cfgName, mem, file, reply,
                   canceled, confirmed>>

------------------------------------------------------------------------------
(* heartbeatLoop *)

\* heartbeat_interval is positive, which starts this loop; a heartbeat without an
\* identifier is skipped
HeartbeatTick ==
    /\ loop # "down" /\ beat = NoId /\ mem.id # NoId
    /\ beat' = mem.id
    /\ UNCHANGED <<apiVars, loop, watched, cfgName, mem, file, reply, canceled, gap,
                   confirmed>>

\* Answered, 404 included, or failed
HeartbeatReturns ==
    /\ beat # NoId /\ beat' = NoId
    /\ UNCHANGED <<apiVars, loop, watched, cfgName, mem, file, reply,
                   canceled, gap, confirmed>>

------------------------------------------------------------------------------

\* The certificates of the cluster come and go
Watch ==
    /\ loop # "down"
    /\ watched' = ~watched
    /\ UNCHANGED <<apiVars, procVars>>

Delete ==
    /\ \E i \in live : DeleteAgent(i)
    /\ UNCHANGED <<procVars, watched>>

Sync == SyncAccepted \/ SyncFailed \/ SyncLost \/ SetAgentID \/ SetAgentName
Save == SaveTruncates \/ SaveWrites \/ SaveFails

Next ==
    \/ Start \/ Signal \/ Exit
    \/ SyncTick \/ Sync \/ Save
    \/ HeartbeatTick \/ HeartbeatReturns
    \/ Watch \/ Delete

Spec == Init /\ [][Next]_vars

\* The goroutines keep running and the tickers tick.  The network and the API do
\* not fail for ever: a request that is sent again and again is answered at last,
\* an accepted sync being promised only to a controller the API knows or one
\* without an identifier.
Fairness ==
    /\ WF_vars(SyncTick) /\ WF_vars(Sync) /\ WF_vars(Save)
    /\ WF_vars(HeartbeatTick) /\ WF_vars(HeartbeatReturns)
    /\ SF_vars(SyncAccepted /\ mem.id \in live \cup {NoId})
    /\ SF_vars(SetAgentID)

FairSpec == Spec /\ Fairness

------------------------------------------------------------------------------
(* Properties *)

\* The identifier and the name in the file came together in a sync the API
\* accepted, also after a rename, a lost answer, a failed save or an end of the
\* process between the setters.  This is about the file: with another agent.name
\* the process that loads it presents the identifier beside its new name, until
\* its first accepted sync, since run does not compare the names.
PairConfirmed ==
    file \in State /\ file.id # NoId => <<file.id, file.name>> \in confirmed

\* Between two saves the file holds what the manager holds, unless it could not
\* be read at the start or its last save failed.
FileFollowsMemory ==
    loop \in {"select", "send", "recv"} /\ ~gap => mem = LoadState(file, TRUE)

\* A controller that has certificates to report and keeps running obtains an
\* identifier, and then sends heartbeats for as long as it runs, whatever it was
\* started from: an unreadable file, a deleted identifier or another name.  That
\* the API knows the identifier is not promised: the controller keeps one that was
\* deleted until a sync is answered with another.
Registers ==
    <>[](loop # "down" /\ watched /\ ~canceled /\ CanRegister(cfgName))
        => <>[](mem.id # NoId) /\ []<><<HeartbeatTick>>_vars

==============================================================================
