-------------------------------- MODULE Health --------------------------------
(****************************************************************************)
(* The pace of cw-agent and what /livez makes of it: the select loop of     *)
(* internal/agent/agent.go with its tickers and the time its branches take, *)
(* the times that internal/server/health.go records, and the liveness probe *)
(* of the Helm chart, which asks /livez and ends an agent that keeps        *)
(* answering 503.                                                           *)
(*                                                                          *)
(* Time passes in units.  It cannot pass in the select while a branch is    *)
(* ready, nor in a branch that has used up its time.                        *)
(****************************************************************************)
EXTENDS Naturals

CONSTANTS
    ScanInterval, SyncInterval, HeartbeatInterval,  \* of the configuration
    ScanTime,       \* bound: the time a scan of all targets takes
    RequestTime,    \* the timeout of a request
    Passes,         \* bound: how often in a row the select takes another branch
                    \* while a tick of the scan waits (it chooses at random)
    LiveLimit,      \* ten minutes
    Patience        \* time for which the probe lets /livez fail

ASSUME IntervalAssumption ==
    /\ {ScanInterval, SyncInterval, HeartbeatInterval} \subseteq Nat \ {0}
    /\ {ScanTime, RequestTime, Passes, LiveLimit, Patience} \subseteq Nat

Tickers == {"scan", "sync", "heartbeat"}
Interval == [k \in Tickers |-> CASE k = "scan" -> ScanInterval
                                 [] k = "sync" -> SyncInterval
                                 [] k = "heartbeat" -> HeartbeatInterval]
MayTake == [k \in Tickers |-> IF k = "scan" THEN ScanTime ELSE RequestTime]

VARIABLES
    busy,       \* the branch that runs, or "select"
    started,    \* the first scanAndSync is over, the tickers are set up
    chained,    \* a scan is part of scanAndSync
    spent,      \* the time it has taken
    next,       \* time to the next tick of each ticker
    ticked,     \* the tickers with a tick in their channel
    passed,     \* how often the waiting tick of the scan was passed over
    scanAge,    \* time since RecordScan, capped
    reachAge,   \* time since a scan reached a target or the agent began, capped
                \* (history)
    failing     \* for how long /livez has answered 503, capped

vars == <<busy, started, chained, spent, next, ticked, passed, scanAge,
          reachAge, failing>>

Never == LiveLimit + 1      \* longer ago than /livez accepts, or not at all

Healthy == scanAge <= LiveLimit

TypeOK ==
    /\ busy \in Tickers \cup {"select"}
    /\ started \in BOOLEAN /\ chained \in BOOLEAN
    /\ busy = "select" => started /\ ~chained /\ spent = 0
    /\ busy # "select" => spent \in 0..MayTake[busy]
    /\ \A k \in Tickers : next[k] \in 1..Interval[k]
    /\ ticked \subseteq Tickers
    /\ passed \in 0..Passes
    /\ scanAge \in 0..Never /\ reachAge \in 0..Never
    /\ failing \in 0..Patience + 1

Init ==
    /\ busy = "scan" /\ started = FALSE /\ chained = TRUE /\ spent = 0
    /\ next = Interval /\ ticked = {}
    /\ passed = 0 /\ scanAge = Never /\ reachAge = 0 /\ failing = 0

------------------------------------------------------------------------------
(* The select of Agent.Run *)

\* Any branch that is ready
Select(k) ==
    /\ busy = "select" /\ k \in ticked
    /\ busy' = k /\ spent' = 0
    /\ ticked' = ticked \ {k}
    /\ passed' = IF "scan" \in ticked' THEN passed + 1 ELSE 0
    /\ passed' <= Passes
    /\ UNCHANGED <<started, chained, next, scanAge, reachAge, failing>>

\* A scan of scanAndSync is followed by a sync; all else returns to the select,
\* the first scanAndSync after the tickers are set up
Resume ==
    /\ busy' = IF chained THEN "sync" ELSE "select"
    /\ started' = (started \/ ~chained)
    /\ chained' = FALSE /\ spent' = 0
    /\ UNCHANGED <<next, ticked, passed, failing>>

\* A scan ends, having reached a target or none
ScanEnds(age) ==
    /\ busy = "scan"
    /\ scanAge' = age
    /\ reachAge' \in {0, reachAge}
    /\ Resume

\* Fault: it is scanAndSync that records, and a scan by its own ticker is forgotten
ScanDoneFault == ScanEnds(IF chained THEN 0 ELSE scanAge)

\* RecordScan, whether a target was reached or none
ScanDone == ScanEnds(0)

\* syncWithCloud or sendHeartbeat returns
RequestDone ==
    /\ busy \in {"sync", "heartbeat"}
    /\ Resume
    /\ UNCHANGED <<scanAge, reachAge>>

\* A heartbeat answered 404: scanAndSync registers the agent again
Reregister ==
    /\ busy = "heartbeat"
    /\ busy' = "scan" /\ chained' = TRUE /\ spent' = 0
    /\ UNCHANGED <<started, next, ticked, passed, scanAge, reachAge, failing>>

------------------------------------------------------------------------------
(* Time *)

Older(age) == IF age = Never THEN Never ELSE age + 1

\* Fault: timers, which fire once, instead of tickers
TicksFault ==
    IF ~started THEN UNCHANGED <<next, ticked>>
    ELSE /\ next' = [k \in Tickers |-> next[k] - 1]
         /\ ticked' = ticked \cup {k \in Tickers : next[k] = 1}

\* A ticker keeps one tick for the select
Ticks ==
    IF ~started THEN UNCHANGED <<next, ticked>>
    ELSE /\ next' = [k \in Tickers |-> IF next[k] = 1 THEN Interval[k] ELSE next[k] - 1]
         /\ ticked' = ticked \cup {k \in Tickers : next[k] = 1}

TimePasses ==
    /\ IF busy = "select" THEN ticked = {} /\ spent' = 0
       ELSE spent < MayTake[busy] /\ spent' = spent + 1
    /\ Ticks
    /\ scanAge' = Older(scanAge) /\ reachAge' = Older(reachAge)
    /\ failing' = IF Healthy THEN 0
                  ELSE IF failing > Patience THEN failing ELSE failing + 1
    /\ UNCHANGED <<busy, started, chained, passed>>

Next ==
    \/ \E k \in Tickers : Select(k)
    \/ ScanDone \/ RequestDone \/ Reregister
    \/ TimePasses

Spec == Init /\ [][Next]_vars

------------------------------------------------------------------------------
(* Properties *)

\* The branches that may come before a scan that is ready are over within this
\* wait, if each of them runs into its timeout: it lets in a syncs and b
\* heartbeats, beside the request that runs and one of each that are ready ...
ServedWithin(wait, a, b) ==
    /\ wait <= a * SyncInterval /\ wait <= b * HeartbeatInterval
    /\ RequestTime * (3 + a + b) <= wait

\* ... or the select passes the scan over no more often than Passes, beside the
\* request that runs
PassedWithin(wait) == RequestTime * (1 + Passes) <= wait

\* The intervals leave room for the requests or the select is not too unlucky,
\* and a scan of all targets is shorter than the patience of the probe.
Room ==
    /\ ScanTime <= Patience
    /\ \E wait \in 0..LiveLimit + Patience + 1 :
          /\ PassedWithin(wait) \/ \E a, b \in 0..wait : ServedWithin(wait, a, b)
          /\ ScanInterval + RequestTime + wait + ScanTime <= LiveLimit + Patience + 1

\* The pace of the scans never makes the probe end an agent: where there is Room,
\* requests that run into their timeout and the order in which the select takes
\* its branches leave a scan, recorded by RecordScan, within LiveLimit.
SurvivesProbe == failing <= Patience

\* What docs/metrics.md:205 says of /livez, and health.go:29 of the time it reads:
\* it answers 503 where no scan was successful within LiveLimit.
LiveMeansReached == Healthy => reachAge <= LiveLimit

==============================================================================
