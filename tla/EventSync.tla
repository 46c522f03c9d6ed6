------------------------------ MODULE EventSync ------------------------------
(****************************************************************************)
(* The event path of cw-agent-certmanager: the EventWatcher of              *)
(* internal/certmanager/controller/event.go with its buffer, and the        *)
(* goroutines of internal/certmanager/agent.go that send the buffer to the  *)
(* API: one per failure event (scheduleImmediateEventSync, debounced) and   *)
(* one per failed CertificateRequest (doEventSync, which drains).           *)
(*                                                                          *)
(* An element of Events is one occurrence of a Kubernetes Event: an update  *)
(* of its count or timestamp is another element.  Time is the age class of  *)
(* each event, the only thing the code compares clocks for.                 *)
(****************************************************************************)
EXTENDS FiniteSets

CONSTANTS
    Events,         \* occurrences of cert-manager Events
    Failures,       \* those with a reason IsFailureEvent accepts
    Drains,         \* doEventSync goroutines that may run at the same time
    NoEvent,        \* the reconcile worker has no callback to make
    Crashes         \* bound: tokens, one used up by each end of the process

ASSUME FailuresAssumption == Failures \subseteq Events
ASSUME NoEventAssumption == NoEvent \notin Events

VARIABLES
    age,        \* of each event, against the two windows of the code
    queue,      \* events in the controller's work queue
    seen,       \* events this process has reconciled
    worker,     \* the event whose OnFailureEvent callback comes next
    buffer,     \* EventWatcher.events
    sched,      \* the scheduleImmediateEventSync goroutine of each failure event
    pending,    \* Agent.immediateSyncPending
    batch,      \* what each of these goroutines is posting
    drain,      \* the doEventSync goroutines
    taken,      \* what each of these is posting
    early,      \* failure events this process has accepted while fresh (history)
    tried,      \* events this process has put into a request (history)
    delivered,  \* events of requests that succeeded (history)
    crashes     \* tokens left

watcherVars == <<queue, seen, worker>>
immediateVars == <<sched, pending, batch>>
drainVars == <<drain, taken>>
vars == <<age, watcherVars, buffer, immediateVars, drainVars, early, tried, delivered,
          crashes>>

Ages == {"unborn",
         "fresh",       \* within the 5 minutes of doImmediateEventSync, and further
                        \* from their end than the debounce and its steps take
         "closing",     \* within the 5 minutes, near their end
         "old",         \* within the 30 minutes of EventWatcher.maxAge
         "expired"}

\* What GetRecentEvents(5 * time.Minute) returns of a set of events
Recent(S) == {f \in S : age[f] \in {"fresh", "closing"}}

Phases == {"none", "spawned",
           "sleeping",      \* in the debounce sleep, pending is its own
           "woken",         \* pending is reset, the buffer is not read yet
           "posting"}

TypeOK ==
    /\ age \in [Events -> Ages]
    /\ queue \subseteq Events /\ seen \subseteq Events
    /\ worker \in Failures \cup {NoEvent}
    /\ buffer \subseteq Events
    /\ sched \in [Failures -> Phases]
    /\ pending \in BOOLEAN
    /\ batch \in [Failures -> SUBSET Events]
    /\ \A e \in Failures : sched[e] = "posting" <=> batch[e] # {}
    /\ drain \in [Drains -> {"none", "spawned", "posting"}]
    /\ taken \in [Drains -> SUBSET Events]
    /\ \A d \in Drains : drain[d] = "posting" <=> taken[d] # {}
    /\ early \subseteq Failures
    /\ tried \subseteq Events /\ delivered \subseteq Events
    /\ crashes \subseteq Crashes

Init ==
    /\ age = [e \in Events |-> "unborn"]
    /\ queue = {} /\ seen = {} /\ worker = NoEvent /\ buffer = {}
    /\ sched = [e \in Failures |-> "none"] /\ pending = FALSE
    /\ batch = [e \in Failures |-> {}]
    /\ drain = [d \in Drains |-> "none"] /\ taken = [d \in Drains |-> {}]
    /\ early = {} /\ tried = {} /\ delivered = {} /\ crashes = Crashes

------------------------------------------------------------------------------
(* The cluster and the clock *)

Occur(e) ==
    /\ age[e] = "unborn"
    /\ age' = [age EXCEPT ![e] = "fresh"]
    /\ queue' = queue \cup {e}
    /\ UNCHANGED <<seen, worker, buffer, immediateVars, drainVars, early, tried,
                   delivered, crashes>>

\* Some goroutine is between a trigger and its reading of the buffer
Scheduling(e) ==
    \/ worker = e
    \/ e \in Failures /\ sched[e] = "spawned"
    \/ \E f \in Failures : sched[f] \in {"sleeping", "woken"}

\* An event leaves the 5 minutes, then the 30.  It may leave them at any moment,
\* also while a goroutine sleeps for it: then the goroutine reads the buffer too
\* late.  Only what was accepted while fresh outlasts its own way to the first
\* reading of the buffer, which takes the debounce and a few steps
GrowOld(e) ==
    /\ \/ age[e] = "fresh" /\ age' = [age EXCEPT ![e] = "closing"]
       \/ age[e] = "closing" /\ age' = [age EXCEPT ![e] = "old"]
          /\ ~(e \in early \ tried /\ Scheduling(e))
       \/ age[e] = "old" /\ age' = [age EXCEPT ![e] = "expired"]
    /\ UNCHANGED <<watcherVars, buffer, immediateVars, drainVars, early, tried,
                   delivered, crashes>>

------------------------------------------------------------------------------
(* EventWatcher.Reconcile, one worker *)

StoreAs(e, kept, next) ==
    /\ worker = NoEvent /\ e \in queue
    /\ queue' = queue \ {e}
    /\ seen' = seen \cup {e}
    /\ buffer' = kept
    /\ worker' = next
    /\ early' = IF e \in Failures /\ age[e] = "fresh" THEN early \cup {e} ELSE early
    /\ UNCHANGED <<age, immediateVars, drainVars, tried, delivered, crashes>>

\* What the purge keeps of a set of events
Purged(S) == {f \in S : age[f] # "expired"}

\* Only a failure event has a callback
Callback(e) == IF e \in Failures THEN e ELSE NoEvent

\* Fault: the purge keeps what is older than maxAge
StoreOldFault(e) == StoreAs(e, (buffer \cup {e}) \ Purged(buffer \cup {e}), Callback(e))

\* storeEvent appends, then purges what is older than maxAge
Store(e) == StoreAs(e, Purged(buffer \cup {e}), Callback(e))

\* The cluster has already deleted the event: nothing is stored
Missing(e) ==
    /\ worker = NoEvent /\ e \in queue /\ age[e] = "expired"
    /\ queue' = queue \ {e}
    /\ UNCHANGED <<age, seen, worker, buffer, immediateVars, drainVars, early,
                   tried, delivered, crashes>>

\* OnFailureEvent starts a goroutine
Trigger ==
    /\ worker # NoEvent
    /\ sched' = [sched EXCEPT ![worker] = "spawned"]
    /\ worker' = NoEvent
    /\ UNCHANGED <<age, queue, seen, buffer, pending, batch, drainVars, early,
                   tried, delivered, crashes>>

------------------------------------------------------------------------------
(* scheduleImmediateEventSync and doImmediateEventSync *)

\* One step under immediateSyncMu
ScheduleIf(e, busy) ==
    /\ sched[e] = "spawned"
    /\ sched' = [sched EXCEPT ![e] = IF busy THEN "none" ELSE "sleeping"]
    /\ pending' = (pending \/ ~busy)
    /\ UNCHANGED <<age, watcherVars, buffer, batch, drainVars, early, tried,
                   delivered, crashes>>

\* Fault: a pending sync is not noticed
ScheduleTwiceFault(e) == ScheduleIf(e, FALSE)

\* Fault: a goroutine whose sync is under way still counts as pending
ScheduleLateFault(e) ==
    ScheduleIf(e, \E f \in Failures : sched[f] \in {"sleeping", "woken", "posting"})

\* Leave it to the goroutine that is already pending
Schedule(e) == ScheduleIf(e, pending)

\* The debounce is over
Wake(e) ==
    /\ sched[e] = "sleeping"
    /\ sched' = [sched EXCEPT ![e] = "woken"]
    /\ pending' = FALSE
    /\ UNCHANGED <<age, watcherVars, buffer, batch, drainVars, early, tried,
                   delivered, crashes>>

\* The events of the last 5 minutes go into a request
SnapshotKeeping(e, kept, next) ==
    /\ sched[e] = "woken"
    /\ sched' = [sched EXCEPT ![e] = next]
    /\ batch' = [batch EXCEPT ![e] = Recent(buffer)]
    /\ tried' = tried \cup Recent(buffer)
    /\ buffer' = kept
    /\ UNCHANGED <<age, watcherVars, pending, drainVars, early, delivered, crashes>>

\* If there are none, there is no request
IfAny(S) == IF S = {} THEN "none" ELSE "posting"

\* Fault: the buffer is emptied, of what is not recent too
SnapshotFault(e) == SnapshotKeeping(e, {}, IfAny(Recent(buffer)))

\* Fault: a request is made whether there are recent events or none
SnapshotEmptyFault(e) == SnapshotKeeping(e, buffer, "posting")

\* GetRecentEvents keeps the buffer
Snapshot(e) == SnapshotKeeping(e, buffer, IfAny(Recent(buffer)))

\* SyncCertManagerEvents; a failure is logged
Post(e) ==
    /\ sched[e] = "posting"
    /\ sched' = [sched EXCEPT ![e] = "none"]
    /\ batch' = [batch EXCEPT ![e] = {}]
    /\ delivered' \in {delivered, delivered \cup batch[e]}
    /\ UNCHANGED <<age, watcherVars, buffer, pending, drainVars, early, tried,
                   crashes>>

------------------------------------------------------------------------------
(* doEventSync, started by a failed CertificateRequest *)

RequestFails(d) ==
    /\ drain[d] = "none"
    /\ drain' = [drain EXCEPT ![d] = "spawned"]
    /\ UNCHANGED <<age, watcherVars, buffer, immediateVars, taken, early, tried,
                   delivered, crashes>>

\* GetEvents: the buffer is emptied
Drain(d) ==
    /\ drain[d] = "spawned"
    /\ drain' = [drain EXCEPT ![d] = IfAny(buffer)]
    /\ taken' = [taken EXCEPT ![d] = buffer]
    /\ tried' = tried \cup buffer
    /\ buffer' = {}
    /\ UNCHANGED <<age, watcherVars, immediateVars, early, delivered, crashes>>

\* SyncCertManagerEvents; a failure is logged and the events are gone
PostDrained(d) ==
    /\ drain[d] = "posting"
    /\ drain' = [drain EXCEPT ![d] = "none"]
    /\ taken' = [taken EXCEPT ![d] = {}]
    /\ delivered' \in {delivered, delivered \cup taken[d]}
    /\ UNCHANGED <<age, watcherVars, buffer, immediateVars, early, tried, crashes>>

------------------------------------------------------------------------------

\* The process ends, by a signal or a crash, and is started again: memory is
\* lost, and the informer lists every event the cluster still has
Restart ==
    /\ \E c \in crashes : crashes' = crashes \ {c}
    /\ queue' = {e \in Events : age[e] # "unborn"}
    /\ seen' = {} /\ worker' = NoEvent /\ buffer' = {}
    /\ sched' = [e \in Failures |-> "none"] /\ pending' = FALSE
    /\ batch' = [e \in Failures |-> {}]
    /\ drain' = [d \in Drains |-> "none"] /\ taken' = [d \in Drains |-> {}]
    /\ early' = {} /\ tried' = {}
    /\ UNCHANGED <<age, delivered>>

Reconcile == Trigger \/ \E e \in Events : Store(e) \/ Missing(e)
ImmediateSync(e) == Schedule(e) \/ Wake(e) \/ Snapshot(e) \/ Post(e)
EventSyncOf(d) == Drain(d) \/ PostDrained(d)

Next ==
    \/ \E e \in Events : Occur(e) \/ GrowOld(e)
    \/ Reconcile
    \/ \E e \in Failures : ImmediateSync(e)
    \/ \E d \in Drains : RequestFails(d) \/ EventSyncOf(d)
    \/ Restart

Spec == Init /\ [][Next]_vars

\* Every goroutine that can run does, and every request returns (the client has
\* a timeout); requests are never assumed to succeed
Fairness ==
    /\ WF_vars(Reconcile)
    /\ \A e \in Failures : WF_vars(ImmediateSync(e))
    /\ \A d \in Drains : WF_vars(EventSyncOf(d))

FairSpec == Spec /\ Fairness

------------------------------------------------------------------------------
(* Properties *)

\* The debounce: the flag is set exactly while one goroutine sleeps for all, so
\* a burst of failures costs one request per debounce period.
DebounceExact ==
    /\ pending <=> \E e \in Failures : sched[e] = "sleeping"
    /\ \A e, f \in Failures : sched[e] = "sleeping" /\ sched[f] = "sleeping" => e = f

\* No wake-up is lost: a failure event in the buffer that is within the 5 minutes
\* and that no request has carried is still ahead of some goroutine's reading of
\* the buffer, whether its own goroutine was absorbed by another or not.  This is
\* why scheduleImmediateEventSync resets the flag before it reads the buffer.
\* That it is still within the 5 minutes at that reading is another matter: see
\* GrowOld, and EventDelivery for the events that are.
NoLostWakeup ==
    \A e \in Recent(buffer) \cap Failures : e \notin tried => Scheduling(e)

\* An event leaves the buffer only into a request or by the purge: a reader of
\* the buffer never discards what it does not send.
NothingDroppedUntried ==
    \A e \in seen : e \in buffer \cup tried \/ age[e] = "expired"

\* EventDelivery, what the goroutines promise together: see there.
Standing(e) ==
    CASE e \in delivered -> "sent"
      [] e \in tried \ delivered -> "tried"
      [] e \in seen \ (tried \cup delivered) ->
            IF e \in Recent(early) THEN "waiting" ELSE "idle"
      [] OTHER -> "unseen"

Delivery == INSTANCE EventDelivery WITH standing <- [e \in Events |-> Standing(e)]

Promise == Delivery!Spec

==============================================================================
