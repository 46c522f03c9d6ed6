------------------------------- MODULE CertSync -------------------------------
(****************************************************************************)
(* How the certificates of a cluster reach the API: the reconciler, its     *)
(* map, and syncLoop.  The API replaces what it holds of the certificates   *)
(* of the cluster by what a request names (its answer counts what it        *)
(* created, updated and deleted).                                           *)
(****************************************************************************)
EXTENDS CertificateReconciler, SyncLoop

syncAllVars == <<certVars, syncVars>>

AllTypeOK == CertTypeOK /\ SyncTypeOK

SyncCertInit == CertInit /\ SyncInit

------------------------------------------------------------------------------

Reconciling(k) == ReconcileCertificate(k) /\ UNCHANGED syncVars

ClusterChanges ==
    /\ \E k \in Keys : (Change(k) \/ Requeue(k)) /\ UNCHANGED seriesVars
    /\ UNCHANGED syncVars

Handled == PostHandled(batch)

Looping ==
    /\ DelayOver \/ SyncTick \/ DoSync \/ PostFails \/ Handled
    /\ UNCHANGED certVars

LateRequest ==
    /\ \E b \in abandoned : HandleLate(b)
    /\ UNCHANGED certVars

\* The process ends and is started again
ProcessEnds ==
    /\ RestartEmpty
    /\ LoopRestart

Next ==
    \/ \E k \in Keys : Reconciling(k)
    \/ ClusterChanges
    \/ Looping \/ LateRequest
    \/ ProcessEnds

Spec == SyncCertInit /\ [][Next]_syncAllVars

\* The goroutines keep running and the ticker ticks; the work queue is first in,
\* first out, so that a queued key gets its turn however often another one is
\* queued again; requests do not fail for ever
Fairness ==
    /\ \A k \in Keys : SF_syncAllVars(Reconciling(k))
    /\ WF_syncAllVars(Looping)
    /\ SF_syncAllVars(Handled /\ UNCHANGED certVars)

FairSpec == Spec /\ Fairness

------------------------------------------------------------------------------
(* Properties *)

\* A certificate whose state stays the same is in that state at the API from
\* some time on, a deletion included, over failed and late requests, stale
\* reads of the map and restarts: each sync posts the whole map, so that
\* nothing depends on an earlier one.  The cluster must not stay empty, since
\* nothing is posted of an empty map.
CertificatesConverge ==
    \A k \in Keys, s \in States :
        <>[](objects[k] = s) /\ <>[](objects # Empty) => <>[](view[k] = s)

==============================================================================
