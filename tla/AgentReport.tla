------------------------------ MODULE AgentReport ------------------------------
(****************************************************************************)
(* What the agent finds out about its targets, on the way from the scan to  *)
(* the metrics and to the API: Agent.Run, scanAndSync, scan and             *)
(* syncWithCloud of internal/agent/agent.go, and Client.Sync of             *)
(* internal/sync/client.go. The scan is that of ScanPool. The identity that *)
(* travels with the request is the subject of AgentLifecycle.               *)
(*                                                                          *)
(* One process is modelled, up to its end. It starts with whatever earlier  *)
(* ones have told the API.                                                  *)
(****************************************************************************)
EXTENDS ScanPool

CONSTANT Servable       \* what dials of a target can find

Findings == Certificates \cup {"failed"}

ASSUME ServableAssumption == Servable \in [Targets -> SUBSET Findings]

VARIABLES
    place,      \* where the goroutine of Agent.Run is
    syncNext,   \* the scan under way is that of scanAndSync
    served,     \* what a dial of each target finds, a certificate or a failure
    gauges,     \* the certificate whose gauges are set, of each target
    view,       \* what the API has been told last of each target
    late        \* a request the client has given up and the network still has

reportVars == <<place, syncNext, served, gauges, view, late>>
allVars == <<vars, reportVars>>

Places == {"starting",  \* before the first scanAndSync
           "scanning",  \* in ScanAll
           "syncing",   \* the request is built and not yet sent
           "posting",   \* the request is under way
           "select",    \* waiting for a tick or the signal
           "stopped"}
Entries == Outcomes \cup {"none"}
NoRequest == NotScanned

ReportTypeOK ==
    /\ TypeOK
    /\ place \in Places
    /\ syncNext \in BOOLEAN
    /\ served \in [Targets -> Findings]
    /\ gauges \in [Targets -> Certificates \cup {"none"}]
    /\ view \in [Targets -> Entries]
    /\ late \in [Targets -> Entries]
    /\ main # "idle" <=> place = "scanning"

ReportInit ==
    /\ Init
    /\ place = "starting" /\ syncNext = FALSE
    /\ served \in {f \in [Targets -> Findings] : \A t \in Targets : f[t] \in Servable[t]}
    /\ gauges = NotScanned
    /\ \/ view = NotScanned
       \/ view \in [Targets -> Findings] /\ \A t \in Targets : view[t] \in Servable[t]
    /\ late = NoRequest

------------------------------------------------------------------------------
(* Agent.scan *)

ScanAndSync ==
    /\ place' = "scanning" /\ syncNext' = TRUE
    /\ Call
    /\ UNCHANGED <<served, gauges, view, late>>

\* With scanAndSync Run begins
FirstScan == place = "starting" /\ ScanAndSync

\* A heartbeat is answered with 404
Reregister == place = "select" /\ ScanAndSync

\* Fault: there is no other scan when the last one reached every target
ScanTickFault ==
    /\ place = "select" /\ place' = "scanning"
    /\ \E t \in Targets : lastScan[t] \notin Certificates
    /\ syncNext' = FALSE
    /\ Call
    /\ UNCHANGED <<served, gauges, view, late>>

ScanTick ==
    /\ place = "select" /\ place' = "scanning"
    /\ syncNext' = FALSE
    /\ Call
    /\ UNCHANGED <<served, gauges, view, late>>

\* A dial finds what the target serves at that moment
Dial(t) ==
    /\ Scan(t)
    /\ results'[t] = served[t]
    /\ UNCHANGED reportVars

Scanning ==
    /\ Wait \/ \E t \in Targets : Spawn(t) \/ Acquire(t) \/ GiveUp(t) \/ Finish(t)
    /\ UNCHANGED reportVars

\* RecordCertificateMetrics for each target that could be scanned; the gauges of
\* the others stay
Recorded(scan) ==
    [t \in Targets |-> IF scan[t] \in Certificates THEN scan[t] ELSE gauges[t]]

ScanReturns ==
    /\ place = "scanning"
    /\ Return
    /\ gauges' = Recorded(lastScan')
    /\ place' = IF syncNext THEN "syncing" ELSE "select"
    /\ syncNext' = FALSE
    /\ UNCHANGED <<served, view, late>>

------------------------------------------------------------------------------
(* Agent.syncWithCloud *)

\* Fault: results are joined to certificates by the host name alone
RequestFault == [t \in Targets |-> lastScan[CHOOSE u \in Targets : u[1] = t[1]]]

\* buildSyncRequest joins the results to the configured certificates by host
\* name and port: the certificate of a target, or its last error
Request == [t \in Targets |-> lastScan[t]]

\* A tick of the sync ticker
SyncTick ==
    /\ place = "select" /\ place' = "syncing"
    /\ UNCHANGED <<vars, syncNext, served, gauges, view, late>>

\* Fault: the request has a context of its own
SendFault ==
    /\ place = "syncing" /\ place' = "posting"
    /\ UNCHANGED <<vars, syncNext, served, gauges, view, late>>

\* A request whose context is canceled is not sent
Send ==
    /\ place = "syncing"
    /\ place' = IF canceled THEN "select" ELSE "posting"
    /\ UNCHANGED <<vars, syncNext, served, gauges, view, late>>

\* The API takes it in, whether or not the answer arrives and whatever it is
PostHandled ==
    /\ place = "posting" /\ place' = "select"
    /\ view' = Request
    /\ UNCHANGED <<vars, syncNext, served, gauges, late>>

PostFails ==
    /\ place = "posting" /\ place' = "select"
    /\ UNCHANGED <<vars, syncNext, served, gauges, view, late>>

\* The client's timeout or the signal ends a request the network still has.
\* Bound: one at a time
PostAbandoned ==
    /\ place = "posting" /\ place' = "select"
    /\ late = NoRequest /\ late' = Request
    /\ UNCHANGED <<vars, syncNext, served, gauges, view>>

HandleLate ==
    /\ late # NoRequest
    /\ view' = late /\ late' = NoRequest
    /\ UNCHANGED <<vars, place, syncNext, served, gauges>>

------------------------------------------------------------------------------

Stop ==
    /\ place = "select" /\ canceled /\ place' = "stopped"
    /\ UNCHANGED <<vars, syncNext, served, gauges, view, late>>

Signal ==
    /\ place # "stopped" /\ Cancel
    /\ UNCHANGED reportVars

\* A target renews its certificate, fails, or works again
Serve(t) ==
    /\ \E f \in Servable[t] \ {served[t]} : served' = [served EXCEPT ![t] = f]
    /\ UNCHANGED <<vars, place, syncNext, gauges, view, late>>

PostReturns == PostHandled \/ PostFails \/ PostAbandoned

\* The agent's goroutines, where nothing is waited for but a dial or a request
Proceed ==
    \/ FirstScan \/ Scanning \/ ScanReturns \/ Send \/ PostReturns
    \/ \E t \in Targets : Dial(t)

ReportNext ==
    \/ Proceed
    \/ ScanTick \/ SyncTick \/ Reregister \/ Stop
    \/ Signal \/ HandleLate
    \/ \E t \in Targets : Serve(t)

ReportSpec == ReportInit /\ [][ReportNext]_allVars

\* The goroutines run, and a dial and a request end; the select takes a ready
\* tick at random; requests do not fail for ever
ReportFairness ==
    /\ WF_allVars(Proceed)
    /\ SF_allVars(ScanTick) /\ SF_allVars(SyncTick)
    /\ SF_allVars(PostHandled)

ReportFairSpec == ReportSpec /\ ReportFairness

------------------------------------------------------------------------------
(* Properties *)

\* A scan that the signal cuts short is never reported: targets that were given
\* up would look like failed ones to the API. The scan becomes lastScan, and the
\* sync after it is attempted (scanAndSync; the select may take a tick before
\* ctx.Done), but its request has the canceled context.
NothingCanceledReported ==
    \A t \in Targets : view[t] # "canceled" /\ late[t] # "canceled"

\* The metrics never learn of a renewal after the API: when a request changes
\* what the API holds of a target to a certificate, the gauges of the target are
\* those of that certificate, whatever was scanned, failed, or was renewed in
\* between. A request that arrives late may bring an older certificate.
MetricsFirst ==
    [][\A t \in Targets :
         /\ view'[t] # view[t] /\ view'[t] \in Certificates
         /\ late' = late
         => gauges[t] = view'[t]]_allVars

\* What a target goes on serving, or its failure, reaches the API while the agent
\* runs, over failed and late requests; and a certificate reaches the metrics, and
\* stays there.
ReportsConverge ==
    \A t \in Targets : \A f \in Servable[t] :
        <>[](served[t] = f /\ ~canceled)
            => <>[](view[t] = f /\ (f \in Certificates => gauges[t] = f))

==============================================================================
