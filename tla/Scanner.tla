------------------------------- MODULE Scanner -------------------------------
(****************************************************************************)
(* What Agent.scan relies on in Scanner.ScanAll: once called it returns,    *)
(* and what it returns has an outcome for each of the configured targets.   *)
(* A target is given up as canceled only when the agent is stopping.        *)
(****************************************************************************)
CONSTANTS
    Targets,        \* hostname:port of the configured certificates
    Certificates    \* what a target can be found to serve

VARIABLES
    scanning,   \* ScanAll has been called and has not returned
    lastScan,   \* Agent.lastScan: an outcome for each target, or no scan yet
    canceled    \* the context is canceled

vars == <<scanning, lastScan, canceled>>

Outcomes == Certificates \cup {"failed", "canceled"}
NotScanned == [t \in Targets |-> "none"]

Init == scanning = FALSE /\ lastScan = NotScanned /\ canceled = FALSE

Call ==
    /\ ~scanning /\ scanning' = TRUE
    /\ UNCHANGED <<lastScan, canceled>>

Return ==
    /\ scanning /\ scanning' = FALSE
    /\ lastScan' \in [Targets -> Outcomes]
    /\ canceled \/ \A t \in Targets : lastScan'[t] # "canceled"
    /\ UNCHANGED canceled

Cancel ==
    /\ ~canceled /\ canceled' = TRUE
    /\ UNCHANGED <<scanning, lastScan>>

Next == Call \/ Return \/ Cancel

Safety == Init /\ [][Next]_vars

Spec == Safety /\ WF_vars(Return)

==============================================================================
