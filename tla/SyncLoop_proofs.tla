---------------------------- MODULE SyncLoop_proofs ----------------------------
(****************************************************************************)
(* What holds of the two reconcilers and of syncLoop, for every set of      *)
(* objects and kinds of them.  The map and syncLoop are the same on both    *)
(* paths, and what is known of them is shown once.  Each step of CertSync   *)
(* is a step of CertificateReconciler or leaves it alone, so that what is   *)
(* shown of CertificateReconciler holds of CertSync too.                    *)
(****************************************************************************)
EXTENDS CertSync, RequestSync, TLAPS

USE GoneAssumption

------------------------------------------------------------------------------
(* Reconciler *)

\* An object that has changed since it was got has its key back in the queue:
\* what Store puts into the map is current, or not for long.
GotCurrent ==
    \A k \in Keys : step[k] = "got" /\ got[k] # objects[k] => k \in queue

\* What is left to do after the storing is about the status that was stored.
StoredCurrent ==
    \A k \in Keys : step[k] = "stored" => got[k] # Gone /\ cache[k] = got[k]

MapInv == TypeOK /\ GotCurrent /\ StoredCurrent /\ CacheCurrent

LEMMA InitMapInv == Init => MapInv
  BY DEF Init, Empty, MapInv, TypeOK, States, Steps, GotCurrent, StoredCurrent, CacheCurrent

\* A change of the cluster, or a key that is queued again
LEMMA QueueStep ==
  ASSUME MapInv, NEW k \in Keys, Change(k) \/ Touch(k) \/ Requeue(k)
  PROVE  MapInv'
  <1> USE DEF MapInv, TypeOK, States, Steps, Change, Touch, Requeue
  <1>1. TypeOK' BY PossibleAssumption
  <1>2. GotCurrent' /\ CacheCurrent' BY DEF GotCurrent, CacheCurrent
  <1>3. StoredCurrent' BY DEF StoredCurrent
  <1> QED BY <1>1, <1>2, <1>3

\* The key leaves the queue, and its object is got as it is
LEMMA GetStep ==
  ASSUME MapInv, NEW k \in Keys, Get(k)
  PROVE  MapInv'
  <1> USE DEF MapInv, TypeOK, Steps, Get
  <1>1. TypeOK' OBVIOUS
  <1>2. GotCurrent' BY DEF GotCurrent
  <1>3. CacheCurrent' BY DEF CacheCurrent
  <1>4. StoredCurrent' BY DEF StoredCurrent
  <1> QED BY <1>1, <1>2, <1>3, <1>4

\* What is stored is current, or its key is in the queue
LEMMA StoreStep ==
  ASSUME MapInv, NEW k \in Keys, Store(k)
  PROVE  MapInv'
  <1> USE DEF MapInv, TypeOK, Steps, Store
  <1>1. TypeOK' OBVIOUS
  <1>2. GotCurrent' BY DEF GotCurrent
  <1>3. CacheCurrent' BY DEF GotCurrent, CacheCurrent
  <1>4. StoredCurrent' BY DEF StoredCurrent
  <1> QED BY <1>1, <1>2, <1>3, <1>4

LEMMA RemoveStep ==
  ASSUME MapInv, NEW k \in Keys, Remove(k)
  PROVE  MapInv'
  <1> USE DEF MapInv, TypeOK, States, Steps, Remove
  <1>1. TypeOK' OBVIOUS
  <1>2. GotCurrent' BY DEF GotCurrent
  <1>3. CacheCurrent' BY DEF GotCurrent, CacheCurrent
  <1>4. StoredCurrent' BY DEF StoredCurrent
  <1> QED BY <1>1, <1>2, <1>3, <1>4

LEMMA FinishStep ==
  ASSUME MapInv, NEW k \in Keys, Finish(k)
  PROVE  MapInv'
  <1> USE DEF MapInv, TypeOK, States, Steps, Finish
  <1>1. TypeOK' OBVIOUS
  <1>2. GotCurrent' BY DEF GotCurrent
  <1>3. CacheCurrent' BY DEF CacheCurrent
  <1>4. StoredCurrent' BY DEF StoredCurrent
  <1> QED BY <1>1, <1>2, <1>3, <1>4

\* A new process has an empty map, and every object in its queue
LEMMA RestartStep ==
  ASSUME MapInv, Restart
  PROVE  MapInv'
  BY DEF MapInv, TypeOK, States, Steps, Restart, Empty, GotCurrent, StoredCurrent,
         CacheCurrent

LEMMA IdleStep ==
  ASSUME MapInv, UNCHANGED vars
  PROVE  MapInv'
  BY DEF vars, MapInv, TypeOK, GotCurrent, StoredCurrent, CacheCurrent

------------------------------------------------------------------------------
(* CertificateReconciler *)

IInv == MapInv /\ CertTypeOK /\ SeriesCurrent

LEMMA InitIInv == CertInit => IInv
  <1> SUFFICES ASSUME CertInit PROVE IInv OBVIOUS
  <1>1. CertTypeOK /\ MapInv
    BY InitMapInv DEF CertInit, CertTypeOK, MapInv, NoDates, Dates
  <1>2. SeriesCurrent BY DEF CertInit, Init, Empty, NoDates, SeriesCurrent
  <1> QED BY <1>1, <1>2 DEF IInv

\* What SeriesCurrent says of a certificate
Current(k) ==
    IF cache[k] = Gone THEN k \notin plain /\ expiry[k] = NoDate
    ELSE /\ k \in plain
         /\ <<k, Issuer[cache[k]]>> \in ready
         /\ NotAfter[cache[k]] \in {NoDate, expiry[k]}

\* A step that leaves the series of a certificate alone, and its entry unless it
\* is stored, keeps it current
LEMMA CurrentStep ==
  ASSUME SeriesCurrent, NEW k \in Keys, step[k] # "stored",
         cache'[k] = cache[k], expiry'[k] = expiry[k],
         k \in plain' <=> k \in plain,
         cache[k] # Gone =>
            (<<k, Issuer[cache[k]]>> \in ready => <<k, Issuer[cache[k]]>> \in ready')
  PROVE  Current(k)'
  BY DEF SeriesCurrent, Current

\* The removal of a certificate takes all its series but certificate_ready's, and
\* those of no other one
LEMMA RemoveCertificateStep ==
  ASSUME IInv, NEW k \in Keys, RemoveCertificate(k)
  PROVE  IInv'
  <1>1. MapInv' BY RemoveStep DEF IInv, RemoveCertificate
  <1>2. CertTypeOK'
    BY <1>1 DEF IInv, CertTypeOK, MapInv, RemoveCertificate, Dates
  <1>3. ASSUME NEW j \in Keys, step'[j] # "stored" PROVE Current(j)'
    <2> USE DEF RemoveCertificate, Remove, IInv, CertTypeOK, TypeOK, States, Steps
    <2>1. CASE j = k BY <2>1 DEF Current
    <2>2. CASE j # k
      <3>1. step[j] # "stored" /\ cache'[j] = cache[j] /\ expiry'[j] = expiry[j]
        BY <1>3, <2>2
      <3>2. j \in plain' <=> j \in plain BY <2>2
      <3>3. \A i : <<j, i>> \in ready => <<j, i>> \in ready' BY <2>2
      <3> QED BY <3>1, <3>2, <3>3, CurrentStep
    <2> QED BY <2>1, <2>2
  <1>4. SeriesCurrent' BY <1>3 DEF SeriesCurrent, Current
  <1> QED BY <1>1, <1>2, <1>4 DEF IInv

\* The series are set from the status that was stored
LEMMA UpdateMetricsStep ==
  ASSUME IInv, NEW k \in Keys, UpdateMetrics(k)
  PROVE  IInv'
  <1>1. MapInv' BY FinishStep DEF IInv, UpdateMetrics, SetSeries
  <1>2. got[k] \in Kinds /\ cache[k] = got[k]
    BY DEF IInv, MapInv, TypeOK, States, StoredCurrent, UpdateMetrics, SetSeries, Finish
  <1> DEFINE date == IF NotAfter[got[k]] = NoDate THEN expiry[k] ELSE NotAfter[got[k]]
  <1>3. /\ ready' = ready \cup {<<k, Issuer[got[k]]>>}
        /\ plain' = plain \cup {k}
        /\ expiry' = [expiry EXCEPT ![k] = date]
        /\ step' = [step EXCEPT ![k] = "idle"] /\ cache' = cache
    BY DEF UpdateMetrics, SetSeries, Finish
  <1>4. CertTypeOK'
    <2>1. date \in Dates BY <1>2 DEF IInv, CertTypeOK, Dates
    <2>2. Issuer[got[k]] \in Issuers BY <1>2 DEF Issuers
    <2> HIDE DEF date
    <2> QED BY <1>1, <1>3, <2>1, <2>2 DEF IInv, CertTypeOK, MapInv
  <1>5. ASSUME NEW j \in Keys, step'[j] # "stored" PROVE Current(j)'
    <2> USE DEF IInv, CertTypeOK, TypeOK, Steps
    <2>1. CASE j = k
      <3>1. expiry'[k] = date BY <1>3
      <3> QED BY <1>2, <1>3, <2>1, <3>1 DEF Current, States
    <2>2. CASE j # k
      <3>1. step[j] # "stored" /\ cache'[j] = cache[j] /\ expiry'[j] = expiry[j]
        BY <1>3, <1>5, <2>2
      <3> QED BY <1>3, <2>2, <3>1, CurrentStep
    <2> QED BY <2>1, <2>2
  <1>6. SeriesCurrent' BY <1>5 DEF SeriesCurrent, Current
  <1> QED BY <1>1, <1>4, <1>6 DEF IInv

LEMMA NextIInv == IInv /\ [CertNext]_certVars => IInv'
  <1> SUFFICES ASSUME IInv, [CertNext]_certVars PROVE IInv' OBVIOUS
  <1>1. ASSUME MapInv', UNCHANGED seriesVars,
               \A k \in Keys : step'[k] # "stored" => step[k] # "stored" /\ cache'[k] = cache[k]
        PROVE  IInv'
    <2>1. CertTypeOK' BY <1>1 DEF IInv, CertTypeOK, MapInv, seriesVars
    <2>2. ASSUME NEW k \in Keys, step'[k] # "stored" PROVE Current(k)'
      BY <1>1, <2>2, CurrentStep DEF seriesVars, IInv
    <2>3. SeriesCurrent' BY <2>2 DEF SeriesCurrent, Current
    <2> QED BY <1>1, <2>1, <2>3 DEF IInv
  <1>2. ASSUME NEW k \in Keys, Change(k) \/ Requeue(k), UNCHANGED seriesVars
        PROVE  IInv'
    <2>1. MapInv' BY <1>2, QueueStep DEF IInv
    <2> QED BY <1>1, <1>2, <2>1 DEF Change, Requeue
  <1>3. ASSUME NEW k \in Keys, Get(k) \/ Store(k), UNCHANGED seriesVars
        PROVE  IInv'
    <2>1. MapInv' BY <1>3, GetStep, StoreStep DEF IInv
    <2>2. \A j \in Keys : step'[j] # "stored" => step[j] # "stored" /\ cache'[j] = cache[j]
      BY <1>3 DEF Get, Store, IInv, MapInv, TypeOK, Steps
    <2> QED BY <1>1, <1>3, <2>1, <2>2
  <1>4. ASSUME NEW k \in Keys, ReconcileCertificate(k) PROVE IInv'
    BY <1>3, <1>4, RemoveCertificateStep, UpdateMetricsStep DEF ReconcileCertificate
  <1>5. CASE RestartEmpty
    <2>1. MapInv' BY <1>5, RestartStep DEF IInv, RestartEmpty
    <2>2. CertTypeOK'
      BY <1>5, <2>1 DEF IInv, CertTypeOK, MapInv, RestartEmpty, NoDates, Dates
    <2>3. SeriesCurrent'
      BY <1>5 DEF SeriesCurrent, RestartEmpty, NoDates, Restart, Empty
    <2> QED BY <2>1, <2>2, <2>3 DEF IInv
  <1>6. CASE UNCHANGED certVars
    <2>1. MapInv' BY <1>6, IdleStep DEF IInv, certVars
    <2> QED BY <1>1, <1>6, <2>1 DEF certVars, vars
  <1> QED BY <1>2, <1>4, <1>5, <1>6 DEF CertNext

LEMMA AlwaysIInv == CertSpec => []IInv
  BY InitIInv, NextIInv, PTL DEF CertSpec

\* Every variable keeps its type.
THEOREM TypeCorrect == CertSpec => []CertTypeOK
  <1>1. IInv => CertTypeOK BY DEF IInv
  <1> QED BY <1>1, AlwaysIInv, PTL

\* Where the map differs from the cluster a reconciliation is still to come, so
\* that no change of a certificate is lost, whenever it comes.
THEOREM MapIsCurrent == CertSpec => []CacheCurrent
  <1>1. IInv => CacheCurrent BY DEF IInv, MapInv
  <1> QED BY <1>1, AlwaysIInv, PTL

\* Between reconciliations a certificate that is not in the map has none of the
\* series that its removal deletes, and one that is there has the ready series of
\* its current issuer and, if its status has a NotAfter, that expiry: whatever the
\* issuers and dates of the states it goes through, those without a NotAfter among
\* them.
THEOREM SeriesAreCurrent == CertSpec => []SeriesCurrent
  <1>1. IInv => SeriesCurrent BY DEF IInv
  <1> QED BY <1>1, AlwaysIInv, PTL

------------------------------------------------------------------------------
(* syncLoop *)

LEMMA InitSyncType == SyncInit => SyncTypeOK
  BY DEF SyncInit, SyncTypeOK, Places, Maps, Empty, States

LEMMA LoopType ==
  ASSUME TypeOK, SyncTypeOK,
         \/ DelayOver \/ SyncTick \/ DoSync \/ PostFails
         \/ \E after \in Maps : PostHandled(after) \/ HandleLate(after)
         \/ LoopRestart \/ UNCHANGED syncVars
  PROVE  SyncTypeOK'
  <1> USE DEF SyncTypeOK, Places, Maps
  <1>1. CASE DelayOver \/ SyncTick BY <1>1 DEF DelayOver, SyncTick, GoTo
  <1>2. CASE DoSync BY <1>2 DEF DoSync, Post, GoTo, TypeOK
  <1>3. CASE PostFails BY <1>3 DEF PostFails, Return, GiveUp, Empty, States
  <1>4. ASSUME NEW after \in Maps, PostHandled(after) PROVE SyncTypeOK'
    BY <1>4 DEF PostHandled, Return, Empty, States
  <1>5. ASSUME NEW after \in Maps, HandleLate(after) PROVE SyncTypeOK'
    BY <1>5 DEF HandleLate
  <1>6. CASE LoopRestart BY <1>6 DEF LoopRestart, GiveUp, Empty, States
  <1>7. CASE UNCHANGED syncVars BY <1>7 DEF syncVars
  <1> QED BY <1>1, <1>2, <1>3, <1>4, <1>5, <1>6, <1>7

------------------------------------------------------------------------------
(* CertSync *)

LEMMA NextIsReconciler == [Next]_syncAllVars => [CertNext]_certVars
  <1> SUFFICES ASSUME [Next]_syncAllVars PROVE [CertNext]_certVars OBVIOUS
  <1>1. ASSUME NEW k \in Keys, Reconciling(k) PROVE CertNext
    BY <1>1 DEF Reconciling, CertNext
  <1>2. CASE ClusterChanges BY <1>2 DEF ClusterChanges, CertNext
  <1>3. CASE Looping \/ LateRequest BY <1>3 DEF Looping, LateRequest
  <1>4. CASE ProcessEnds BY <1>4 DEF ProcessEnds, CertNext
  <1>5. CASE UNCHANGED syncAllVars BY <1>5 DEF syncAllVars
  <1> QED BY <1>1, <1>2, <1>3, <1>4, <1>5 DEF Next

\* CertSync implements CertificateReconciler: syncLoop reads the map and never
\* writes it, and the process ends for both at once.
THEOREM ImplementsReconciler == Spec => CertSpec
  <1>1. SyncCertInit => CertInit BY DEF SyncCertInit
  <1> QED BY <1>1, NextIsReconciler, PTL DEF Spec, CertSpec

\* No change of a certificate is lost, and the series follow the map, while
\* syncLoop posts the map and processes end at any time.
THEOREM SyncKeepsCurrent == Spec => []CacheCurrent /\ []SeriesCurrent
  BY ImplementsReconciler, MapIsCurrent, SeriesAreCurrent, PTL

LEMMA SyncTypeStep ==
  ASSUME CertTypeOK, SyncTypeOK, [Next]_syncAllVars
  PROVE  SyncTypeOK'
  <1> USE DEF CertTypeOK
  <1>1. batch \in Maps /\ \A b \in abandoned : b \in Maps BY DEF SyncTypeOK
  <1>2. CASE (\E k \in Keys : Reconciling(k)) \/ ClusterChanges \/ UNCHANGED syncAllVars
    BY <1>2, LoopType DEF Reconciling, ClusterChanges, syncAllVars
  <1>3. CASE Looping BY <1>1, <1>3, LoopType DEF Looping, Handled
  <1>4. CASE LateRequest BY <1>1, <1>4, LoopType DEF LateRequest
  <1>5. CASE ProcessEnds BY <1>5, LoopType DEF ProcessEnds
  <1> QED BY <1>2, <1>3, <1>4, <1>5 DEF Next

\* Every variable keeps its type; a request is under way exactly while syncLoop
\* posts, and no request names nothing.
THEOREM SyncTypeCorrect == Spec => []AllTypeOK
  <1>1. SyncCertInit => SyncTypeOK BY InitSyncType DEF SyncCertInit
  <1>2. CertTypeOK /\ SyncTypeOK /\ [Next]_syncAllVars => SyncTypeOK' BY SyncTypeStep
  <1>3. Spec => []CertTypeOK BY ImplementsReconciler, TypeCorrect, PTL
  <1>4. CertTypeOK /\ SyncTypeOK => AllTypeOK BY DEF AllTypeOK
  <1> QED BY <1>1, <1>2, <1>3, <1>4, PTL DEF Spec

------------------------------------------------------------------------------
(* RequestSync *)

RequestInv == MapInv /\ alerted \subseteq Keys /\ FailuresAlerted

LEMMA InitRequestInv == RequestInit => RequestInv
  BY InitMapInv DEF RequestInit, RequestInv, Init, Empty, FailuresAlerted, Failures

\* A status that is stored has its OnFailure before it
LEMMA StoreRequestStep ==
  ASSUME RequestInv, NEW k \in Keys, StoreRequest(k)
  PROVE  RequestInv'
  <1>1. MapInv' BY StoreStep DEF RequestInv, StoreRequest
  <1>2. FailuresAlerted'
    BY DEF RequestInv, MapInv, TypeOK, Steps, FailuresAlerted, StoreRequest, Store
  <1> QED BY <1>1, <1>2 DEF RequestInv, StoreRequest

\* A request that is not found has no entry, and an entry that is not there is
\* no failure
LEMMA RemoveRequestStep ==
  ASSUME RequestInv, NEW k \in Keys, RemoveRequest(k)
  PROVE  RequestInv'
  <1>1. MapInv' BY RemoveStep DEF RequestInv, RemoveRequest
  <1>2. FailuresAlerted'
    BY DEF RequestInv, MapInv, TypeOK, Steps, FailuresAlerted, Failures, RemoveRequest, Remove
  <1> QED BY <1>1, <1>2 DEF RequestInv, RemoveRequest

\* What OnFailure sees is what the map holds
LEMMA OnFailureStep ==
  ASSUME RequestInv, NEW k \in Keys, OnFailure(k)
  PROVE  RequestInv'
  <1>1. MapInv' BY FinishStep DEF RequestInv, OnFailure
  <1>2. cache[k] = got[k] BY DEF RequestInv, MapInv, StoredCurrent, OnFailure, Finish
  <1>3. FailuresAlerted'
    BY <1>2 DEF RequestInv, MapInv, TypeOK, Steps, FailuresAlerted, OnFailure, Finish
  <1> QED BY <1>1, <1>3 DEF RequestInv, OnFailure

LEMMA NextRequestInv == RequestInv /\ [RequestNext]_requestVars => RequestInv'
  <1> SUFFICES ASSUME RequestInv, [RequestNext]_requestVars PROVE RequestInv' OBVIOUS
  <1>1. ASSUME NEW k \in Keys, Get(k), alerted' = alerted PROVE RequestInv'
    <2>1. MapInv' BY <1>1, GetStep DEF RequestInv
    <2>2. FailuresAlerted'
      BY <1>1 DEF RequestInv, MapInv, TypeOK, Steps, FailuresAlerted, Get
    <2> QED BY <1>1, <2>1, <2>2 DEF RequestInv
  <1>2. ASSUME NEW k \in Keys, ReconcileRequest(k) PROVE RequestInv'
    BY <1>1, <1>2, StoreRequestStep, RemoveRequestStep, OnFailureStep
    DEF ReconcileRequest
  <1>3. CASE RequestChanges
    <2>1. MapInv' BY <1>3, QueueStep DEF RequestChanges, RequestInv
    <2>2. UNCHANGED <<step, cache, alerted>> BY <1>3 DEF RequestChanges, Change, Touch
    <2> QED BY <2>1, <2>2 DEF RequestInv, FailuresAlerted
  <1>4. CASE RequestProcessEnds
    <2>1. MapInv' BY <1>4, RestartStep DEF RequestProcessEnds, RequestInv
    <2> QED BY <1>4, <2>1
            DEF RequestProcessEnds, RequestInv, FailuresAlerted, Failures, Restart, Empty
  <1>5. CASE UNCHANGED <<vars, alerted>>
    <2>1. MapInv' BY <1>5, IdleStep DEF RequestInv
    <2> QED BY <1>5, <2>1 DEF vars, RequestInv, FailuresAlerted
  <1>6. CASE RequestLooping \/ LateRequestSync \/ UNCHANGED requestVars
    BY <1>5, <1>6 DEF RequestLooping, LateRequestSync, requestVars
  <1> QED BY <1>2, <1>3, <1>4, <1>6 DEF RequestNext

LEMMA AlwaysRequestInv == RequestSpec => []RequestInv
  BY InitRequestInv, NextRequestInv, PTL DEF RequestSpec

LEMMA RequestSyncTypeStep ==
  ASSUME TypeOK, SyncTypeOK, [RequestNext]_requestVars
  PROVE  SyncTypeOK'
  <1>1. \A b \in Maps : Added(b) \in Maps BY DEF SyncTypeOK, Maps, Added
  <1>2. batch \in Maps /\ \A b \in abandoned : b \in Maps BY DEF SyncTypeOK
  <1>3. CASE \/ \E k \in Keys : ReconcileRequest(k)
             \/ RequestChanges \/ UNCHANGED requestVars
    BY <1>3, LoopType DEF ReconcileRequest, RequestChanges, requestVars
  <1>4. CASE RequestLooping
    BY <1>1, <1>2, <1>4, LoopType DEF RequestLooping, RequestsHandled
  <1>5. CASE LateRequestSync BY <1>1, <1>2, <1>5, LoopType DEF LateRequestSync
  <1>6. CASE RequestProcessEnds BY <1>6, LoopType DEF RequestProcessEnds
  <1> QED BY <1>3, <1>4, <1>5, <1>6 DEF RequestNext

\* Every variable keeps its type; a request is under way exactly while syncLoop
\* posts, and no request names nothing.
THEOREM RequestTypeCorrect == RequestSpec => []TypeOKRequests
  <1>1. RequestInit => SyncTypeOK BY InitSyncType DEF RequestInit
  <1>2. RequestInv /\ SyncTypeOK /\ [RequestNext]_requestVars => SyncTypeOK'
    BY RequestSyncTypeStep DEF RequestInv, MapInv
  <1>3. RequestInv /\ SyncTypeOK => TypeOKRequests
    BY DEF RequestInv, MapInv, TypeOKRequests
  <1> QED BY <1>1, <1>2, <1>3, AlwaysRequestInv, PTL DEF RequestSpec

\* Where the map of the requests differs from the cluster a reconciliation is
\* still to come: no change of a request is lost.
THEOREM RequestMapIsCurrent == RequestSpec => []CacheCurrent
  <1>1. RequestInv => CacheCurrent BY DEF RequestInv, MapInv
  <1> QED BY <1>1, AlwaysRequestInv, PTL

\* Every failure in the map has started an event sync once its reconciliation is
\* over.
THEOREM FailuresAreAlerted == RequestSpec => []FailuresAlerted
  <1>1. RequestInv => FailuresAlerted BY DEF RequestInv
  <1> QED BY <1>1, AlwaysRequestInv, PTL

==============================================================================
