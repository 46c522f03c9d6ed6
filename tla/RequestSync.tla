------------------------------ MODULE RequestSync ------------------------------
(****************************************************************************)
(* How the certificate requests of a cluster reach the API:                 *)
(* CertificateRequestReconciler of internal/certmanager/controller/         *)
(* request.go with its callback for a request that has failed, its map, and *)
(* syncLoop.  The API adds what a request names to what it holds.           *)
(****************************************************************************)
EXTENDS SyncLoop

\* What the status of a request shows
Marks == {"approved", "denied", "ready",    \* these conditions are True
          "failed",         \* Ready is False with the reason Failed
          "invalid",        \* InvalidRequest is True
          "failureTime"}    \* the time of a failure is set

ASSUME MarkAssumption == Kinds \subseteq SUBSET Marks

\* extractStatus
IsDenied(status) == "denied" \in status
IsFailed(status) == status \cap {"failed", "invalid", "failureTime"} # {}

Failures == {status \in Kinds : IsFailed(status) \/ IsDenied(status)}

VARIABLE alerted    \* requests whose status in the map was given to OnFailure (history)

requestVars == <<vars, syncVars, alerted>>

TypeOKRequests == TypeOK /\ SyncTypeOK /\ alerted \subseteq Keys

RequestInit == Init /\ SyncInit /\ alerted = {}

------------------------------------------------------------------------------
(* Reconcile *)

\* A status that is stored or removed has not been given to OnFailure yet
StoreRequest(k) == Store(k) /\ alerted' = alerted \ {k}
RemoveRequest(k) == Remove(k) /\ alerted' = alerted \ {k}

\* Fault: a request that was denied is not a failure
OnFailureFault(k) ==
    /\ Finish(k)
    /\ alerted' = IF IsFailed(got[k]) THEN alerted \cup {k} ELSE alerted

\* OnFailure starts an event sync
OnFailure(k) ==
    /\ Finish(k)
    /\ alerted' = IF got[k] \in Failures THEN alerted \cup {k} ELSE alerted

ReconcileRequest(k) ==
    /\ \/ Get(k) /\ UNCHANGED alerted
       \/ StoreRequest(k) \/ RemoveRequest(k) \/ OnFailure(k)
    /\ UNCHANGED syncVars

RequestChanges ==
    /\ \E k \in Keys : Change(k) \/ Touch(k)
    /\ UNCHANGED <<syncVars, alerted>>

------------------------------------------------------------------------------
(* syncLoop, the API, the process *)

Added(b) == [k \in Keys |-> IF b[k] # Gone THEN b[k] ELSE view[k]]

RequestsHandled == PostHandled(Added(batch))

RequestLooping ==
    /\ DelayOver \/ SyncTick \/ DoSync \/ PostFails \/ RequestsHandled
    /\ UNCHANGED <<vars, alerted>>

LateRequestSync ==
    /\ \E b \in abandoned : HandleLate(Added(b))
    /\ UNCHANGED <<vars, alerted>>

RequestProcessEnds ==
    /\ Restart /\ alerted' = {}
    /\ LoopRestart

RequestNext ==
    \/ \E k \in Keys : ReconcileRequest(k)
    \/ RequestChanges
    \/ RequestLooping \/ LateRequestSync
    \/ RequestProcessEnds

RequestSpec == RequestInit /\ [][RequestNext]_requestVars

\* As in CertSync
RequestFairness ==
    /\ \A k \in Keys : SF_requestVars(ReconcileRequest(k))
    /\ WF_requestVars(RequestLooping)
    /\ SF_requestVars(RequestsHandled /\ UNCHANGED <<vars, alerted>>)

RequestFairSpec == RequestSpec /\ RequestFairness

------------------------------------------------------------------------------
(* Properties *)

\* No failure passes unreported: a failed request whose status is in the map,
\* and whose reconciliation is over, has started an event sync, after every
\* change of it, its deletion and recreation, and every restart.
FailuresAlerted ==
    \A k \in Keys : cache[k] \in Failures /\ step[k] # "stored" => k \in alerted

\* A certificate request whose state stays the same is in that state at the API
\* from some time on, unless it is deleted: over failed and late requests, and
\* restarts that begin with an empty map.
RequestsConverge ==
    \A k \in Keys, s \in Kinds :
        <>[](objects[k] = s) => <>[](view[k] = s)

==============================================================================
