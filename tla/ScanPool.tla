------------------------------- MODULE ScanPool -------------------------------
(****************************************************************************)
(* Scanner.ScanAll of internal/scanner/scanner.go: one goroutine for each   *)
(* target, a channel as a semaphore, and a WaitGroup; and its caller        *)
(* Agent.scan of internal/agent/agent.go.                                   *)
(****************************************************************************)
EXTENDS Integers, FiniteSets

CONSTANTS
    Targets,        \* hostname:port of the configured certificates
    Certificates,   \* what a target can be found to serve
    Concurrency     \* agent.concurrency, at least 1 (validateAgent)

ASSUME TargetsAssumption == IsFiniteSet(Targets)
ASSUME ConcurrencyAssumption == Concurrency \in Nat \ {0}
ASSUME CertificatesAssumption == {"none", "failed", "canceled"} \cap Certificates = {}

VARIABLES
    main,       \* where Agent.scan and ScanAll are
    worker,     \* where the goroutine of each target is
    sem,        \* tokens in the channel
    pending,    \* the counter of the WaitGroup
    results,    \* the slice the goroutines write
    lastScan,   \* Agent.lastScan
    canceled    \* the context is canceled

vars == <<main, worker, sem, pending, results, lastScan, canceled>>

Mains == {"idle",       \* not scanning
          "spawning",   \* in the loop over the targets
          "waiting"}    \* in wg.Wait
Workers == {"none",
            "queued",       \* in the select for a token
            "dialing",      \* has a token
            "returning",    \* its result is written, its token is not returned
            "done"}
\* A certificate (Success), or the reason there is none (Error)
Outcomes == Certificates \cup {"failed", "canceled"}
NotScanned == [t \in Targets |-> "none"]

At(place) == {t \in Targets : worker[t] = place}
Connected == {t \in Targets : worker[t] \in {"dialing", "returning"}}
Running == {t \in Targets : worker[t] \in {"queued", "dialing", "returning"}}

TypeOK ==
    /\ main \in Mains
    /\ worker \in [Targets -> Workers]
    /\ sem \in 0..Concurrency
    /\ pending \in Nat
    /\ results \in [Targets -> Outcomes \cup {"none"}]
    /\ lastScan \in [Targets -> Outcomes \cup {"none"}]
    /\ canceled \in BOOLEAN

Init ==
    /\ main = "idle" /\ worker = NotScanned
    /\ sem = 0 /\ pending = 0
    /\ results = NotScanned /\ lastScan = NotScanned
    /\ canceled = FALSE

------------------------------------------------------------------------------
(* Agent.scan and ScanAll *)

\* A new slice, a new channel
Call ==
    /\ main = "idle" /\ main' = "spawning"
    /\ worker' = NotScanned /\ results' = NotScanned /\ sem' = 0
    /\ UNCHANGED <<pending, lastScan, canceled>>

\* Fault: the goroutine counts itself
SpawnFault(t) ==
    /\ main = "spawning" /\ worker[t] = "none"
    /\ worker' = [worker EXCEPT ![t] = "queued"]
    /\ UNCHANGED <<main, sem, pending, results, lastScan, canceled>>

Spawn(t) ==
    /\ main = "spawning" /\ worker[t] = "none"
    /\ worker' = [worker EXCEPT ![t] = "queued"]
    /\ pending' = pending + 1
    /\ UNCHANGED <<main, sem, results, lastScan, canceled>>

Wait ==
    /\ main = "spawning" /\ At("none") = {}
    /\ main' = "waiting"
    /\ UNCHANGED <<worker, sem, pending, results, lastScan, canceled>>

\* Fault: the goroutines are not waited for
ReturnFault ==
    /\ main = "waiting"
    /\ main' = "idle"
    /\ lastScan' = results
    /\ UNCHANGED <<worker, sem, pending, results, canceled>>

Return ==
    /\ main = "waiting" /\ pending = 0
    /\ main' = "idle"
    /\ lastScan' = results
    /\ UNCHANGED <<worker, sem, pending, results, canceled>>

------------------------------------------------------------------------------
(* The goroutine of a target *)

\* Fault: the token is taken before the channel has room
AcquireFault(t) ==
    /\ worker[t] = "queued"
    /\ worker' = [worker EXCEPT ![t] = "dialing"]
    /\ sem' = IF sem < Concurrency THEN sem + 1 ELSE sem
    /\ UNCHANGED <<main, pending, results, lastScan, canceled>>

\* The select takes either case when both are ready
Acquire(t) ==
    /\ worker[t] = "queued" /\ sem < Concurrency
    /\ worker' = [worker EXCEPT ![t] = "dialing"]
    /\ sem' = sem + 1
    /\ UNCHANGED <<main, pending, results, lastScan, canceled>>

GiveUp(t) ==
    /\ worker[t] = "queued" /\ canceled
    /\ results' = [results EXCEPT ![t] = "canceled"]
    /\ worker' = [worker EXCEPT ![t] = "done"]
    /\ pending' = pending - 1
    /\ UNCHANGED <<main, sem, lastScan, canceled>>

\* The connection is made or fails, at the latest after the dialer's timeout;
\* a canceled context does not interrupt it
Scan(t) ==
    /\ worker[t] = "dialing"
    /\ \E o \in Certificates \cup {"failed"} : results' = [results EXCEPT ![t] = o]
    /\ worker' = [worker EXCEPT ![t] = "returning"]
    /\ UNCHANGED <<main, sem, pending, lastScan, canceled>>

\* Fault: the token of a failed scan is kept
FinishFault(t) ==
    /\ worker[t] = "returning"
    /\ sem' = IF results[t] \in Certificates THEN sem - 1 ELSE sem
    /\ worker' = [worker EXCEPT ![t] = "done"]
    /\ pending' = pending - 1
    /\ UNCHANGED <<main, results, lastScan, canceled>>

\* The deferred calls: the token is returned, the WaitGroup told
Finish(t) ==
    /\ worker[t] = "returning"
    /\ sem' = sem - 1
    /\ worker' = [worker EXCEPT ![t] = "done"]
    /\ pending' = pending - 1
    /\ UNCHANGED <<main, results, lastScan, canceled>>

Cancel ==
    /\ ~canceled /\ canceled' = TRUE
    /\ UNCHANGED <<main, worker, sem, pending, results, lastScan>>

ScanOf(t) == Acquire(t) \/ GiveUp(t) \/ Scan(t) \/ Finish(t)

Next ==
    \/ Call \/ Wait \/ Return \/ Cancel
    \/ \E t \in Targets : Spawn(t) \/ ScanOf(t)

Spec == Init /\ [][Next]_vars

\* The goroutines run, and a dial ends
Fairness ==
    /\ WF_vars(Wait) /\ WF_vars(Return)
    /\ \A t \in Targets : WF_vars(Spawn(t)) /\ WF_vars(ScanOf(t))

FairSpec == Spec /\ Fairness

------------------------------------------------------------------------------
(* Properties *)

\* No more connections are open than the configuration allows, whatever the
\* order in which goroutines get, return and give up their tokens.
ConnectionsBounded == Cardinality(Connected) <= Concurrency

\* When ScanAll has returned, no goroutine can write to the slice any more: the
\* slice is Agent.lastScan, which the next sync reads without a lock.
NoLateWrites ==
    main = "idle" => Running = {}

\* ScanAll is a Scanner: it returns, with an outcome for every target.
Scanner == INSTANCE Scanner WITH scanning <- main # "idle"
IsScanner == Scanner!Spec

==============================================================================
