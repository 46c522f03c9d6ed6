-------------------------- MODULE EventSync_proofs --------------------------
(****************************************************************************)
(* Safety of EventSync for every set of events, drains and restarts, and    *)
(* that its steps implement those of EventDelivery.                         *)
(****************************************************************************)
EXTENDS EventSync, TLAPS

\* What is in a request has been tried, what was tried or is buffered was seen,
\* and what waits in the queue was not.  A goroutine starts once per event: the
\* one of the event whose callback comes next is not running
Flow ==
    /\ \A e \in Failures : batch[e] \subseteq tried
    /\ \A d \in Drains : taken[d] \subseteq tried
    /\ tried \subseteq seen /\ buffer \subseteq seen /\ early \subseteq seen
    /\ queue \cap seen = {}
    /\ \A e \in queue \cup seen : age[e] # "unborn"
    /\ worker # NoEvent => worker \in seen
    /\ \A e \in Failures : sched[e] # "none" => e \in seen /\ e # worker

\* The inductive invariant
IInv == TypeOK /\ Flow /\ DebounceExact /\ NoLostWakeup /\ NothingDroppedUntried

------------------------------------------------------------------------------

LEMMA TypeStep == TypeOK /\ Flow /\ [Next]_vars => TypeOK'
<1> SUFFICES ASSUME TypeOK, Flow, [Next]_vars PROVE TypeOK'
  OBVIOUS
<1> USE FailuresAssumption DEF TypeOK, watcherVars, immediateVars, drainVars
<1>1. ASSUME NEW e \in Events, Occur(e) PROVE TypeOK'
  BY <1>1 DEF Occur, Ages
<1>2. ASSUME NEW e \in Events, GrowOld(e) PROVE TypeOK'
  BY <1>2 DEF GrowOld, Ages
<1>3. ASSUME NEW e \in Events, Store(e) PROVE TypeOK'
  BY <1>3 DEF Store, StoreAs, Purged, Callback
<1>4. ASSUME NEW e \in Events, Missing(e) PROVE TypeOK'
  BY <1>4 DEF Missing
<1>5. CASE Trigger
  <2>1. worker \in Failures /\ sched[worker] = "none"
    BY <1>5, NoEventAssumption DEF Trigger, Flow
  <2>2. QED
    BY <1>5, <2>1 DEF Trigger, Phases
<1>6. ASSUME NEW e \in Failures, Schedule(e) PROVE TypeOK'
  BY <1>6 DEF Schedule, ScheduleIf, Phases
<1>7. ASSUME NEW e \in Failures, Wake(e) PROVE TypeOK'
  BY <1>7 DEF Wake, Phases
<1>8. ASSUME NEW e \in Failures, Snapshot(e) PROVE TypeOK'
  BY <1>8 DEF Snapshot, SnapshotKeeping, IfAny, Recent, Phases
<1>9. ASSUME NEW e \in Failures, Post(e) PROVE TypeOK'
  BY <1>9 DEF Post, Phases
<1>10. ASSUME NEW d \in Drains, RequestFails(d) PROVE TypeOK'
  BY <1>10 DEF RequestFails
<1>11. ASSUME NEW d \in Drains, Drain(d) PROVE TypeOK'
  BY <1>11 DEF Drain, IfAny
<1>12. ASSUME NEW d \in Drains, PostDrained(d) PROVE TypeOK'
  BY <1>12 DEF PostDrained
<1>13. CASE Restart
  BY <1>13 DEF Restart, Phases
<1>14. CASE UNCHANGED vars
  BY <1>14 DEF vars
<1>15. QED
  BY <1>1, <1>2, <1>3, <1>4, <1>5, <1>6, <1>7, <1>8, <1>9, <1>10, <1>11, <1>12,
     <1>13, <1>14 DEF Next, Reconcile, ImmediateSync, EventSyncOf

LEMMA FlowStep == TypeOK /\ Flow /\ [Next]_vars => Flow'
<1> SUFFICES ASSUME TypeOK, Flow, [Next]_vars PROVE Flow'
  OBVIOUS
<1> USE FailuresAssumption, NoEventAssumption DEF TypeOK, Flow, watcherVars, immediateVars, drainVars
<1>1. ASSUME NEW e \in Events, Occur(e) PROVE Flow'
  BY <1>1 DEF Occur
<1>2. ASSUME NEW e \in Events, GrowOld(e) PROVE Flow'
  BY <1>2 DEF GrowOld
<1>3. ASSUME NEW e \in Events, Store(e) PROVE Flow'
  BY <1>3 DEF Store, StoreAs, Purged, Callback
<1>4. ASSUME NEW e \in Events, Missing(e) PROVE Flow'
  BY <1>4 DEF Missing
<1>5. CASE Trigger
  BY <1>5 DEF Trigger
<1>6. ASSUME NEW e \in Failures, Schedule(e) PROVE Flow'
  BY <1>6 DEF Schedule, ScheduleIf
<1>7. ASSUME NEW e \in Failures, Wake(e) PROVE Flow'
  BY <1>7 DEF Wake
<1>8. ASSUME NEW e \in Failures, Snapshot(e) PROVE Flow'
  BY <1>8 DEF Snapshot, SnapshotKeeping, IfAny, Recent
<1>9. ASSUME NEW e \in Failures, Post(e) PROVE Flow'
  BY <1>9 DEF Post
<1>10. ASSUME NEW d \in Drains, RequestFails(d) PROVE Flow'
  BY <1>10 DEF RequestFails
<1>11. ASSUME NEW d \in Drains, Drain(d) PROVE Flow'
  BY <1>11 DEF Drain, IfAny
<1>12. ASSUME NEW d \in Drains, PostDrained(d) PROVE Flow'
  BY <1>12 DEF PostDrained
<1>13. CASE Restart
  BY <1>13 DEF Restart
<1>14. CASE UNCHANGED vars
  BY <1>14 DEF vars
<1>15. QED
  BY <1>1, <1>2, <1>3, <1>4, <1>5, <1>6, <1>7, <1>8, <1>9, <1>10, <1>11, <1>12,
     <1>13, <1>14 DEF Next, Reconcile, ImmediateSync, EventSyncOf

------------------------------------------------------------------------------
(* The debounce *)

LEMMA DebounceStep == TypeOK /\ Flow /\ DebounceExact /\ [Next]_vars => DebounceExact'
<1> SUFFICES ASSUME TypeOK, Flow, DebounceExact, [Next]_vars PROVE DebounceExact'
  OBVIOUS
<1> USE DEF TypeOK, DebounceExact, watcherVars, immediateVars, drainVars
<1>1. CASE UNCHANGED <<sched, pending>>
  BY <1>1
<1>2. CASE Trigger
  <2>1. worker \in Failures /\ sched[worker] = "none"
    BY <1>2, NoEventAssumption DEF Trigger, Flow
  <2>2. \A e \in Failures : sched'[e] = "sleeping" <=> sched[e] = "sleeping"
    BY <1>2, <2>1 DEF Trigger
  <2>3. QED
    BY <1>2, <2>2 DEF Trigger
<1>3. ASSUME NEW e \in Failures, Schedule(e) PROVE DebounceExact'
  BY <1>3 DEF Schedule, ScheduleIf
<1>4. ASSUME NEW e \in Failures, Wake(e) PROVE DebounceExact'
  BY <1>4 DEF Wake
<1>5. ASSUME NEW e \in Failures, Snapshot(e) PROVE DebounceExact'
  BY <1>5 DEF Snapshot, SnapshotKeeping, IfAny
<1>6. ASSUME NEW e \in Failures, Post(e) PROVE DebounceExact'
  BY <1>6 DEF Post
<1>7. CASE Restart
  BY <1>7 DEF Restart
<1>8. QED
  BY <1>1, <1>2, <1>3, <1>4, <1>5, <1>6, <1>7
     DEF Next, Reconcile, ImmediateSync, EventSyncOf, Occur, GrowOld, Store, StoreAs,
         Missing, RequestFails, Drain, PostDrained, vars

LEMMA WakeupStep ==
    /\ TypeOK /\ Flow /\ DebounceExact /\ NoLostWakeup /\ [Next]_vars => NoLostWakeup'
<1> SUFFICES ASSUME TypeOK, Flow, DebounceExact, NoLostWakeup, [Next]_vars
             PROVE  NoLostWakeup'
  OBVIOUS
<1> USE DEF TypeOK, NoLostWakeup, Recent, Scheduling, watcherVars, immediateVars, drainVars
<1>1. CASE /\ UNCHANGED <<worker, sched, buffer, tried>>
           /\ \A e \in buffer : age'[e] \in {"fresh", "closing"}
                                => age[e] \in {"fresh", "closing"}
  BY <1>1
<1>2. ASSUME NEW e \in Events, Store(e) PROVE NoLostWakeup'
  BY <1>2, NoEventAssumption DEF Store, StoreAs, Purged, Callback
<1>3. CASE Trigger
  <2>1. worker \in Failures /\ sched[worker] = "none"
    BY <1>3, NoEventAssumption DEF Trigger, Flow
  <2>2. QED
    BY <1>3, <2>1 DEF Trigger
<1>4. ASSUME NEW e \in Failures, Schedule(e) PROVE NoLostWakeup'
  <2>1. \E f \in Failures : sched'[f] = "sleeping"
    BY <1>4 DEF Schedule, ScheduleIf, DebounceExact
  <2>2. QED
    BY <1>4, <2>1 DEF Schedule, ScheduleIf
<1>5. ASSUME NEW e \in Failures, Wake(e) PROVE NoLostWakeup'
  <2>1. sched'[e] = "woken"
    BY <1>5 DEF Wake
  <2>2. QED
    BY <2>1
<1>6. ASSUME NEW e \in Failures, Snapshot(e) PROVE NoLostWakeup'
  BY <1>6 DEF Snapshot, SnapshotKeeping, IfAny
<1>7. ASSUME NEW e \in Failures, Post(e) PROVE NoLostWakeup'
  BY <1>7 DEF Post
<1>8. ASSUME NEW d \in Drains, Drain(d) PROVE NoLostWakeup'
  BY <1>8 DEF Drain
<1>9. CASE Restart
  BY <1>9 DEF Restart
<1>10. ASSUME NEW e \in Events, Occur(e) \/ GrowOld(e) PROVE NoLostWakeup'
  <2>1. Occur(e) => e \notin buffer
    BY DEF Occur, Flow
  <2>2. \A f \in buffer : age'[f] \in {"fresh", "closing"} => age[f] \in {"fresh", "closing"}
    BY <1>10, <2>1 DEF Occur, GrowOld
  <2>3. UNCHANGED <<worker, sched, buffer, tried>>
    BY <1>10 DEF Occur, GrowOld
  <2>4. QED
    BY <1>1, <2>2, <2>3
<1>11. QED
  BY <1>1, <1>2, <1>3, <1>4, <1>5, <1>6, <1>7, <1>8, <1>9, <1>10
     DEF Next, Reconcile, ImmediateSync, EventSyncOf, Missing, RequestFails, PostDrained,
         vars

LEMMA DroppedStep ==
    TypeOK /\ NothingDroppedUntried /\ [Next]_vars => NothingDroppedUntried'
<1> SUFFICES ASSUME TypeOK, NothingDroppedUntried, [Next]_vars
             PROVE  NothingDroppedUntried'
  OBVIOUS
<1> USE DEF TypeOK, NothingDroppedUntried, watcherVars, immediateVars, drainVars
<1>1. CASE UNCHANGED <<age, seen, buffer, tried>>
  BY <1>1
<1>2. ASSUME NEW e \in Events, Occur(e) \/ GrowOld(e) PROVE NothingDroppedUntried'
  BY <1>2 DEF Occur, GrowOld
<1>3. ASSUME NEW e \in Events, Store(e) PROVE NothingDroppedUntried'
  BY <1>3 DEF Store, StoreAs, Purged
<1>4. ASSUME NEW e \in Failures, Snapshot(e) PROVE NothingDroppedUntried'
  BY <1>4 DEF Snapshot, SnapshotKeeping, IfAny, Recent
<1>5. ASSUME NEW d \in Drains, Drain(d) PROVE NothingDroppedUntried'
  BY <1>5 DEF Drain
<1>6. CASE Restart
  BY <1>6 DEF Restart
<1>7. QED
  BY <1>1, <1>2, <1>3, <1>4, <1>5, <1>6
     DEF Next, Reconcile, ImmediateSync, EventSyncOf, Missing, Trigger, Schedule,
         ScheduleIf, Wake, Post, RequestFails, PostDrained, vars

------------------------------------------------------------------------------
(* The theorems *)

LEMMA InitInv == Init => IInv
BY FailuresAssumption
   DEF Init, IInv, TypeOK, Flow, DebounceExact, NoLostWakeup, NothingDroppedUntried, Ages,
       Recent, Phases

LEMMA StepInv == IInv /\ [Next]_vars => IInv'
BY TypeStep, FlowStep, DebounceStep, WakeupStep, DroppedStep DEF IInv

LEMMA Invariance == Spec => []IInv
BY InitInv, StepInv, PTL DEF Spec

\* Every variable stays in its type; only failure events have goroutines
THEOREM TypeCorrect == Spec => []TypeOK
BY Invariance, PTL DEF IInv

\* The pending flag stands for exactly one sleeping goroutine
THEOREM DebounceIsExact == Spec => []DebounceExact
BY Invariance, PTL DEF IInv

\* No failure event is left in the buffer without a reader to come
THEOREM NoWakeupIsLost == Spec => []NoLostWakeup
BY Invariance, PTL DEF IInv

\* No reader of the buffer discards what it does not send
THEOREM NothingIsDroppedUntried == Spec => []NothingDroppedUntried
BY Invariance, PTL DEF IInv

------------------------------------------------------------------------------
(* The steps of EventSync are steps of EventDelivery *)

Stood == [e \in Events |-> Standing(e)]

LEMMA StandingOf ==
    ASSUME NEW e \in Events
    PROVE  Standing(e) = IF e \in delivered THEN "sent"
                         ELSE IF e \in tried THEN "tried"
                         ELSE IF e \notin seen THEN "unseen"
                         ELSE IF e \in Recent(early) THEN "waiting" ELSE "idle"
<1>1. CASE e \in delivered
  BY <1>1 DEF Standing
<1>2. CASE e \in tried \ delivered
  BY <1>2 DEF Standing
<1>3. CASE e \in seen \ (tried \cup delivered)
  BY <1>3 DEF Standing
<1>4. CASE e \notin seen \cup tried \cup delivered
  BY <1>4 DEF Standing
<1>5. QED
  BY <1>1, <1>2, <1>3, <1>4

LEMMA NextStandingOf ==
    ASSUME NEW e \in Events
    PROVE  Standing(e)' = IF e \in delivered' THEN "sent"
                          ELSE IF e \in tried' THEN "tried"
                          ELSE IF e \notin seen' THEN "unseen"
                          ELSE IF e \in Recent(early)' THEN "waiting" ELSE "idle"
<1>1. CASE e \in delivered'
  BY <1>1 DEF Standing
<1>2. CASE e \in tried' \ delivered'
  BY <1>2 DEF Standing
<1>3. CASE e \in seen' \ (tried' \cup delivered')
  BY <1>3 DEF Standing
<1>4. CASE e \notin seen' \cup tried' \cup delivered'
  BY <1>4 DEF Standing
<1>5. QED
  BY <1>1, <1>2, <1>3, <1>4

\* Moving the events of S, and no other, is a Move of EventDelivery
LEMMA MoveRefines ==
    ASSUME NEW S \in SUBSET Events, NEW from, NEW to, S # {},
           \A e \in S : Standing(e) \in from /\ Standing(e)' = to,
           \A e \in Events \ S : Standing(e)' = Standing(e)
    PROVE  Delivery!Move(S, from, to)
BY DEF Delivery!Move

LEMMA StepRefines == IInv /\ [Next]_vars => [Delivery!Next]_Stood
<1> SUFFICES ASSUME IInv, [Next]_vars PROVE Delivery!Next \/ Stood' = Stood
  BY DEF Stood
<1> USE DEF IInv, TypeOK, Flow, watcherVars, immediateVars, drainVars
<1>a. ASSUME \A e \in Events : Standing(e)' = Standing(e) PROVE Stood' = Stood
  BY <1>a DEF Stood
<1>b. ASSUME NEW S \in SUBSET Events, tried' = tried \cup S, S \subseteq seen,
             UNCHANGED <<age, early, seen, delivered>>
      PROVE  Delivery!Next \/ Stood' = Stood
  <2> DEFINE T == S \ (tried \cup delivered)
  <2>1. \A e \in T : Standing(e) \in {"waiting", "idle"} /\ Standing(e)' = "tried"
    BY <1>b, StandingOf, NextStandingOf DEF Recent
  <2>2. \A e \in Events \ T : Standing(e)' = Standing(e)
    BY <1>b, StandingOf, NextStandingOf DEF Recent
  <2>3. CASE T = {}
    BY <1>a, <2>2, <2>3
  <2>4. CASE T # {}
    <3>1. Delivery!Move(T, {"waiting", "idle"}, "tried")
      BY <2>1, <2>2, <2>4, MoveRefines
    <3>2. QED
      BY <3>1 DEF Delivery!Next, Delivery!Try
  <2>5. QED
    BY <2>3, <2>4
<1>c. ASSUME NEW S \in SUBSET Events, delivered' = delivered \cup S, S \subseteq tried,
             UNCHANGED <<age, early, seen, tried>>
      PROVE  Delivery!Next \/ Stood' = Stood
  <2> DEFINE T == S \ delivered
  <2>1. \A e \in T : Standing(e) \in {"tried"} /\ Standing(e)' = "sent"
    BY <1>c, StandingOf, NextStandingOf DEF Recent
  <2>2. \A e \in Events \ T : Standing(e)' = Standing(e)
    BY <1>c, StandingOf, NextStandingOf DEF Recent
  <2>3. CASE T = {}
    BY <1>a, <2>2, <2>3
  <2>4. CASE T # {}
    <3>1. Delivery!Move(T, {"tried"}, "sent")
      BY <2>1, <2>2, <2>4, MoveRefines
    <3>2. QED
      BY <3>1 DEF Delivery!Next, Delivery!Succeed
  <2>5. QED
    BY <2>3, <2>4
<1>1. CASE UNCHANGED <<age, early, seen, tried, delivered>>
  BY <1>1, <1>a, StandingOf, NextStandingOf DEF Recent
<1>2. ASSUME NEW e \in Events, Occur(e) PROVE Stood' = Stood
  <2>1. e \notin seen /\ UNCHANGED <<early, seen, tried, delivered>>
    BY <1>2 DEF Occur
  <2>2. \A f \in Events \ {e} : age'[f] = age[f]
    BY <1>2 DEF Occur
  <2>3. QED
    BY <1>a, <2>1, <2>2, StandingOf, NextStandingOf DEF Recent
<1>3. ASSUME NEW e \in Events, GrowOld(e) PROVE Stood' = Stood
  <2>1. /\ UNCHANGED <<early, seen, tried, delivered>>
        /\ \A f \in Events \ {e} : age'[f] = age[f]
    BY <1>3 DEF GrowOld
  <2>2. \A f \in Events \ {e} : Standing(f)' = Standing(f)
    BY <2>1, StandingOf, NextStandingOf DEF Recent
  <2>3. e \in Recent(early) \ tried => age'[e] \in {"fresh", "closing"}
    <3>1. SUFFICES ASSUME e \in early, e \notin tried, age[e] \in {"fresh", "closing"}
                   PROVE  age'[e] \in {"fresh", "closing"}
      BY DEF Recent
    <3>2. e \in buffer /\ e \in Failures
      BY <3>1 DEF NothingDroppedUntried
    <3>3. Scheduling(e)
      BY <3>1, <3>2 DEF NoLostWakeup, Recent
    <3>4. QED
      BY <1>3, <3>1, <3>3 DEF GrowOld
  <2>4. e \notin tried => (e \in Recent(early) <=> e \in Recent(early)')
    <3>1. e \in Recent(early)' => e \in Recent(early)
      BY <1>3, <2>1 DEF GrowOld, Recent
    <3>2. QED
      BY <2>1, <2>3, <3>1 DEF Recent
  <2>5. Standing(e)' = Standing(e)
    BY <2>1, <2>4, StandingOf, NextStandingOf
  <2>6. QED
    BY <1>a, <2>2, <2>5
<1>4. ASSUME NEW e \in Events, Store(e) PROVE Delivery!Next \/ Stood' = Stood
  <2>1. /\ e \notin seen /\ e \notin tried /\ e \notin early /\ seen' = seen \cup {e}
        /\ UNCHANGED <<age, tried, delivered>>
        /\ early' = IF e \in Failures /\ age[e] = "fresh" THEN early \cup {e} ELSE early
    BY <1>4 DEF Store, StoreAs
  <2>2. \A f \in Events \ {e} : Standing(f)' = Standing(f)
    BY <2>1, StandingOf, NextStandingOf DEF Recent
  <2>3. CASE e \in delivered
    BY <1>a, <2>1, <2>2, <2>3, StandingOf, NextStandingOf
  <2>4. CASE e \notin delivered
    <3>1. /\ Standing(e) = "unseen" /\ Standing(e)' \in {"waiting", "idle"}
          /\ Standing(e)' = "waiting" => e \in Failures
      BY <2>1, <2>4, StandingOf, NextStandingOf DEF Recent
    <3>2. \/ e \in Failures /\ Delivery!Move({e}, {"unseen"}, "waiting")
          \/ Delivery!Move({e}, {"unseen"}, "idle")
      BY <2>2, <3>1, MoveRefines
    <3>3. QED
      BY <3>2 DEF Delivery!Next, Delivery!Accept
  <2>5. QED
    BY <2>3, <2>4
<1>5. ASSUME NEW e \in Failures, Snapshot(e) PROVE Delivery!Next \/ Stood' = Stood
  <2> DEFINE S == Recent(buffer)
  <2>1. /\ tried' = tried \cup S /\ S \in SUBSET Events /\ S \subseteq seen
        /\ UNCHANGED <<age, early, seen, delivered>>
    BY <1>5 DEF Snapshot, SnapshotKeeping, IfAny, Recent
  <2>2. QED
    BY <1>b, <2>1
<1>6. ASSUME NEW d \in Drains, Drain(d) PROVE Delivery!Next \/ Stood' = Stood
  <2>1. /\ tried' = tried \cup buffer /\ buffer \in SUBSET Events /\ buffer \subseteq seen
        /\ UNCHANGED <<age, early, seen, delivered>>
    BY <1>6 DEF Drain
  <2>2. QED
    BY <1>b, <2>1
<1>7. ASSUME NEW e \in Failures, Post(e) PROVE Delivery!Next \/ Stood' = Stood
  <2>1. batch[e] \in SUBSET Events /\ batch[e] \subseteq tried
    OBVIOUS
  <2>2. /\ delivered' = delivered \/ delivered' = delivered \cup batch[e]
        /\ UNCHANGED <<age, early, seen, tried>>
    BY <1>7 DEF Post
  <2>3. QED
    BY <1>1, <1>c, <2>1, <2>2
<1>8. ASSUME NEW d \in Drains, PostDrained(d) PROVE Delivery!Next \/ Stood' = Stood
  <2>1. taken[d] \in SUBSET Events /\ taken[d] \subseteq tried
    OBVIOUS
  <2>2. /\ delivered' = delivered \/ delivered' = delivered \cup taken[d]
        /\ UNCHANGED <<age, early, seen, tried>>
    BY <1>8 DEF PostDrained
  <2>3. QED
    BY <1>1, <1>c, <2>1, <2>2
<1>9. CASE Restart
  <2>1. seen' = {} /\ tried' = {} /\ delivered' = delivered
    BY <1>9 DEF Restart
  <2>2. \A e \in Events :
           Standing(e)' = IF Standing(e) = "sent" THEN "sent" ELSE "unseen"
    BY <2>1, StandingOf, NextStandingOf
  <2>3. Delivery!Restart
    BY <2>2 DEF Delivery!Restart
  <2>4. QED
    BY <2>3 DEF Delivery!Next
<1>10. QED
  BY <1>1, <1>2, <1>3, <1>4, <1>5, <1>6, <1>7, <1>8, <1>9
     DEF Next, Reconcile, ImmediateSync, EventSyncOf, Missing, Trigger, Schedule,
         ScheduleIf, Wake, RequestFails, vars

\* Whatever the interleaving, an event goes through the life EventDelivery
\* describes: from the acceptance of a failure event that is far enough from the
\* end of its 5 minutes only a request or the end of the process leads away
THEOREM ImplementsDelivery == Spec => Delivery!Safety
<1>1. Init => Delivery!Init
  BY StandingOf DEF Init, Delivery!Init
<1>2. IInv /\ [Next]_vars => [Delivery!Next]_Stood
  BY StepRefines
<1>3. QED
  BY <1>1, <1>2, Invariance, PTL DEF Spec, Delivery!Safety, Stood

==============================================================================
