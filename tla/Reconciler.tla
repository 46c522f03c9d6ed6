------------------------------ MODULE Reconciler ------------------------------
(****************************************************************************)
(* A controller-runtime reconciler and the map it keeps: the common part of *)
(* CertificateReconciler and CertificateRequestReconciler of                *)
(* internal/certmanager/controller.  One worker takes keys from the work    *)
(* queue, gets the object from the informer's store, and stores its status  *)
(* in the map or removes it from there.                                     *)
(*                                                                          *)
(* objects is the informer's store: a change there puts the key back into   *)
(* the queue, also while the key is being reconciled.  A Get that fails     *)
(* puts the key back too, and changes nothing.                              *)
(****************************************************************************)
CONSTANTS
    Keys,       \* namespace/name of the objects
    Kinds,      \* states of an object, as far as the reconciler tells them apart
    Gone,       \* no such object, no such entry
    Possible    \* bound: what each object may turn to, Gone if it may be deleted

States == Kinds \cup {Gone}

ASSUME GoneAssumption == Gone \notin Kinds
ASSUME PossibleAssumption == Possible \in [Keys -> SUBSET States]

VARIABLES
    objects,    \* the informer's store
    queue,      \* the work queue
    step,       \* how far the reconciliation of each key is
    got,        \* what its Get returned
    cache       \* the map: certificates or requests

vars == <<objects, queue, step, got, cache>>

Steps == {"idle", "got", "stored"}

TypeOK ==
    /\ objects \in [Keys -> States]
    /\ queue \subseteq Keys
    /\ step \in [Keys -> Steps]
    /\ got \in [Keys -> States]
    /\ cache \in [Keys -> States]

Empty == [k \in Keys |-> Gone]

Init ==
    /\ objects = Empty /\ queue = {}
    /\ step = [k \in Keys |-> "idle"] /\ got = Empty
    /\ cache = Empty

------------------------------------------------------------------------------
(* The cluster, as the informer sees it *)

Change(k) ==
    /\ \E v \in Possible[k] \ {objects[k]} :
          objects' = [objects EXCEPT ![k] = v]
    /\ queue' = queue \cup {k}
    /\ UNCHANGED <<step, got, cache>>

\* A write that leaves the state alone, and the resync of the informer
Touch(k) ==
    /\ objects[k] # Gone
    /\ queue' = queue \cup {k}
    /\ UNCHANGED <<objects, step, got, cache>>

------------------------------------------------------------------------------
(* Reconcile, one key at a time *)

Get(k) ==
    /\ k \in queue /\ \A j \in Keys : step[j] = "idle"
    /\ queue' = queue \ {k}
    /\ step' = [step EXCEPT ![k] = "got"]
    /\ got' = [got EXCEPT ![k] = objects[k]]
    /\ UNCHANGED <<objects, cache>>

\* Fault: an entry that is there already is not replaced
StoreOnceFault(k) ==
    /\ step[k] = "got" /\ got[k] # Gone
    /\ cache' = [cache EXCEPT ![k] = IF cache[k] = Gone THEN got[k] ELSE cache[k]]
    /\ step' = [step EXCEPT ![k] = "stored"]
    /\ UNCHANGED <<objects, queue, got>>

\* storeCertificate, storeRequest
Store(k) ==
    /\ step[k] = "got" /\ got[k] # Gone
    /\ cache' = [cache EXCEPT ![k] = got[k]]
    /\ step' = [step EXCEPT ![k] = "stored"]
    /\ UNCHANGED <<objects, queue, got>>

\* Fault: an object that is not found is left to a later reconciliation
RemoveFault(k) ==
    /\ step[k] = "got" /\ got[k] = Gone
    /\ step' = [step EXCEPT ![k] = "idle"]
    /\ UNCHANGED <<objects, queue, got, cache>>

\* removeCertificate, removeRequest
Remove(k) ==
    /\ step[k] = "got" /\ got[k] = Gone
    /\ cache' = [cache EXCEPT ![k] = Gone]
    /\ step' = [step EXCEPT ![k] = "idle"]
    /\ UNCHANGED <<objects, queue, got>>

\* What follows the storing: metrics, and the callback of a failed request
Finish(k) ==
    /\ step[k] = "stored"
    /\ step' = [step EXCEPT ![k] = "idle"]
    /\ got' = [got EXCEPT ![k] = Gone]
    /\ UNCHANGED <<objects, queue, cache>>

\* RequeueAfter of a certificate that was stored; after its removal a requeue
\* finds nothing and changes nothing
Requeue(k) ==
    /\ cache[k] # Gone
    /\ queue' = queue \cup {k}
    /\ UNCHANGED <<objects, step, got, cache>>

Reconcile(k) == Get(k) \/ Store(k) \/ Remove(k) \/ Finish(k)

\* A new process lists the objects there are
Restart ==
    /\ queue' = {k \in Keys : objects[k] # Gone}
    /\ step' = [k \in Keys |-> "idle"] /\ got' = Empty
    /\ cache' = Empty
    /\ UNCHANGED objects

------------------------------------------------------------------------------
(* Properties *)

\* No change is lost: where the map differs from the cluster, the key is still
\* queued, or the worker is about to store what the cluster has.  A change that
\* comes between the Get and the storing leaves the old status in the map only
\* until its own reconciliation.
CacheCurrent ==
    \A k \in Keys : cache[k] # objects[k] =>
        k \in queue \/ (step[k] = "got" /\ got[k] = objects[k])

==============================================================================
