----------------------------- MODULE Health_proofs -----------------------------
(****************************************************************************)
(* The probe and the pace of the agent, for every interval, every time that *)
(* scans and requests take and every limit.  The safety property is a bound *)
(* on the time from one scan to the next, and its proof an analysis of the  *)
(* response time: the select may take its branches in any order, so that a  *)
(* scan that is ready waits for what is ready beside it and for what        *)
(* becomes ready meanwhile, or for as many branches as the select may take  *)
(* before it, and the budget of that wait is part of the invariant.         *)
(****************************************************************************)
EXTENDS Health, TLAPS

USE IntervalAssumption

LEMMA Intervals ==
  /\ Interval \in [Tickers -> Nat \ {0}]
  /\ Interval["scan"] = ScanInterval
  /\ Interval["sync"] = SyncInterval
  /\ Interval["heartbeat"] = HeartbeatInterval
  BY DEF Interval, Tickers

LEMMA Times ==
  /\ MayTake \in [Tickers -> Nat]
  /\ MayTake["scan"] = ScanTime
  /\ \A k \in {"sync", "heartbeat"} : MayTake[k] = RequestTime
  BY DEF MayTake, Tickers

------------------------------------------------------------------------------
(* Types *)

\* Before the tickers are set up there is the first scanAndSync only, and a scan
\* that is followed by a sync is under way.
Phases ==
    /\ chained => busy = "scan"
    /\ ~started => /\ busy # "heartbeat" /\ (busy = "scan" => chained)
                   /\ next = Interval /\ ticked = {}

Typed == TypeOK /\ Phases

LEMMA InitTyped == Init => Typed
  <1> SUFFICES ASSUME Init PROVE Typed OBVIOUS
  <1> USE DEF Init
  <1>1. \A k \in Tickers : next[k] \in 1..Interval[k] BY Intervals
  <1>2. spent \in 0..MayTake[busy] BY Times DEF Tickers
  <1>3. busy \in Tickers /\ busy # "select" BY DEF Tickers
  <1>4. /\ scanAge \in 0..Never /\ reachAge \in 0..Never /\ failing \in 0..Patience + 1
        /\ passed \in 0..Passes
    BY DEF Never
  <1>5. started \in BOOLEAN /\ chained \in BOOLEAN /\ ticked \subseteq Tickers OBVIOUS
  <1>6. TypeOK BY <1>1, <1>2, <1>3, <1>4, <1>5, Zenon DEF TypeOK
  <1> QED BY <1>6 DEF Typed, Phases

LEMMA SelectTyped ==
  ASSUME Typed, NEW k \in Tickers, Select(k)
  PROVE  Typed'
  <1> USE DEF Typed, Phases, Select
  <1>1. spent' \in 0..MayTake[busy'] BY Times
  <1>2. started BY DEF TypeOK
  <1>3. k \in {"scan", "sync", "heartbeat"} /\ k # "select" BY DEF Tickers
  <1>4. ~chained BY DEF TypeOK
  <1>5. passed' \in 0..Passes BY DEF TypeOK
  <1>6. TypeOK' BY <1>1, <1>2, <1>3, <1>5 DEF TypeOK
  <1> QED BY <1>2, <1>4, <1>6

LEMMA ResumeTyped ==
  ASSUME Typed, Resume, scanAge' \in 0..Never, reachAge' \in 0..Never, busy # "select"
  PROVE  Typed'
  <1> USE DEF Typed, Phases, Resume
  <1>1. 0 \in 0..MayTake["sync"] BY Times
  <1>2. chained \in BOOLEAN /\ started \in BOOLEAN BY DEF TypeOK
  <1>3. busy' \in Tickers \cup {"select"} BY DEF Tickers
  <1>4. busy' # "select" => busy' = "sync" /\ spent' \in 0..MayTake[busy'] BY <1>1
  <1>5. busy' = "select" => started' /\ ~chained' /\ spent' = 0 BY <1>2
  <1>6. started' \in BOOLEAN /\ chained' \in BOOLEAN BY <1>2
  <1>7. TypeOK' BY <1>3, <1>4, <1>5, <1>6 DEF TypeOK, Never
  <1>8. Phases' BY <1>2
  <1> QED BY <1>7, <1>8

LEMMA ScanDoneTyped ==
  ASSUME Typed, ScanDone
  PROVE  Typed'
  <1>1. /\ busy = "scan" /\ scanAge' = 0 /\ reachAge' \in {0, reachAge} /\ Resume
    BY DEF ScanDone, ScanEnds
  <1>2. scanAge' \in 0..Never /\ reachAge' \in 0..Never BY <1>1 DEF Typed, TypeOK, Never
  <1> QED BY <1>1, <1>2, ResumeTyped

LEMMA ReregisterTyped ==
  ASSUME Typed, Reregister
  PROVE  Typed'
  <1> USE DEF Typed, Phases, Reregister
  <1>1. spent' \in 0..MayTake[busy'] BY Times
  <1>2. started BY DEF TypeOK
  <1>3. TypeOK' BY <1>1, <1>2 DEF TypeOK, Tickers
  <1> QED BY <1>2, <1>3

\* Where the tickers run, each is a unit nearer to its tick, or has ticked and
\* begins again
LEMMA TickersRun ==
  ASSUME TypeOK, started, Ticks, NEW k \in Tickers
  PROVE  /\ ticked \subseteq ticked'
         /\ k \in ticked' => k \in ticked \/ next[k] = 1
         /\ next[k] \in Nat /\ next[k] >= 1
         /\ \/ next[k] = 1 /\ next'[k] = Interval[k] /\ k \in ticked'
            \/ next[k] > 1 /\ next'[k] = next[k] - 1 /\ (k \in ticked' => k \in ticked)
  <1> USE DEF Ticks
  <1>1. next[k] \in 1..Interval[k] /\ Interval[k] \in Nat BY Intervals DEF TypeOK
  <1>2. next'[k] = IF next[k] = 1 THEN Interval[k] ELSE next[k] - 1 OBVIOUS
  <1>3. k \in ticked' <=> k \in ticked \/ next[k] = 1 OBVIOUS
  <1> QED BY <1>1, <1>2, <1>3

LEMMA TimePassesTyped ==
  ASSUME Typed, TimePasses
  PROVE  Typed'
  <1> USE DEF Typed
  <1>1. /\ UNCHANGED <<busy, started, chained>>
        /\ Ticks /\ scanAge' = Older(scanAge)
        /\ failing' = IF Healthy THEN 0
                      ELSE IF failing > Patience THEN failing ELSE failing + 1
    BY DEF TimePasses
  <1>2. \A k \in Tickers : next'[k] \in 1..Interval[k]
    <2>1. CASE started
      <3> SUFFICES ASSUME NEW k \in Tickers PROVE next'[k] \in 1..Interval[k] OBVIOUS
      <3>1. next[k] \in 1..Interval[k] /\ Interval[k] \in Nat \ {0} BY Intervals DEF TypeOK
      <3> QED BY <1>1, <2>1, <3>1, TickersRun
    <2>2. CASE ~started BY <1>1, <2>2 DEF Ticks, TypeOK
    <2> QED BY <2>1, <2>2
  <1>3. ticked' \subseteq Tickers BY <1>1 DEF Ticks, TypeOK
  <1>4. scanAge' \in 0..Never /\ reachAge' \in 0..Never /\ passed' = passed
    BY <1>1 DEF TimePasses, Older, TypeOK, Never
  <1>5. failing' \in 0..Patience + 1 BY <1>1 DEF TypeOK
  <1>6. busy = "select" => spent' = 0 BY DEF TimePasses
  <1>7. busy # "select" => spent' \in 0..MayTake[busy]
    <2> SUFFICES ASSUME busy # "select" PROVE spent' \in 0..MayTake[busy] OBVIOUS
    <2>1. busy \in Tickers /\ MayTake[busy] \in Nat BY Times DEF TypeOK
    <2>2. spent < MayTake[busy] /\ spent' = spent + 1 BY DEF TimePasses
    <2>3. spent \in 0..MayTake[busy] BY DEF TypeOK
    <2> QED BY <2>1, <2>2, <2>3
  <1>8. TypeOK' BY <1>1, <1>2, <1>3, <1>4, <1>5, <1>6, <1>7 DEF TypeOK
  <1>9. Phases' BY <1>1 DEF Phases, Ticks
  <1> QED BY <1>8, <1>9

LEMMA NextTyped == Typed /\ [Next]_vars => Typed'
  <1> SUFFICES ASSUME Typed, [Next]_vars PROVE Typed' OBVIOUS
  <1>1. ASSUME NEW k \in Tickers, Select(k) PROVE Typed' BY <1>1, SelectTyped
  <1>2. CASE ScanDone BY <1>2, ScanDoneTyped
  <1>3. CASE RequestDone BY <1>3, ResumeTyped DEF RequestDone, Typed, TypeOK
  <1>4. CASE Reregister BY <1>4, ReregisterTyped
  <1>5. CASE TimePasses BY <1>5, TimePassesTyped
  <1>6. CASE UNCHANGED vars
    BY <1>6 DEF vars, Typed, TypeOK, Phases
  <1> QED BY <1>1, <1>2, <1>3, <1>4, <1>5, <1>6 DEF Next

\* Every variable keeps its type, for every value of the constants.
THEOREM TypeCorrect == Spec => []TypeOK
  <1>1. Typed => TypeOK BY DEF Typed
  <1> QED BY <1>1, InitTyped, NextTyped, PTL DEF Spec

------------------------------------------------------------------------------
(* The time from one scan to the next *)

\* The wait of a scan that is ready, and the time from the end of a scan until
\* the next one begins
Waits(wait) ==
    /\ PassedWithin(wait) \/ \E a, b \in 0..wait : ServedWithin(wait, a, b)
    /\ ScanInterval + RequestTime + wait + ScanTime <= LiveLimit + Patience + 1

Wait == CHOOSE wait \in 0..LiveLimit + Patience + 1 : Waits(wait)
Delay == ScanInterval + RequestTime + Wait

\* Time since the last scan, further than scanAge counts
Age == IF scanAge <= LiveLimit THEN scanAge ELSE LiveLimit + 1 + failing

\* What is left of the request under way, and whether a branch is ready
Requests == {"sync", "heartbeat"}
Rest == IF busy \in Requests THEN RequestTime - spent ELSE 0
Ready(k) == IF k \in ticked THEN 1 ELSE 0

\* In time d at most a ticks of the sync are to come and b of the heartbeat, and
\* the requests of these, of what is ready and of the branch that runs are over
\* within d.
Budget(d, a, b) ==
    /\ Age + d <= Delay
    /\ d < next["sync"] + a * SyncInterval
    /\ d < next["heartbeat"] + b * HeartbeatInterval
    /\ Rest + RequestTime * (Ready("sync") + Ready("heartbeat") + a + b) <= d

\* In time d the select takes the branches that may still come before the scan
Luck(d) == Age + d <= Delay /\ Rest + RequestTime * (Passes - passed) <= d

Served == (\E d, a, b \in Nat : Budget(d, a, b)) \/ \E d \in Nat : Luck(d)

\* The first scanAndSync
First ==
    ~started => /\ busy = "scan" => scanAge = Never /\ failing = spent
                /\ busy = "sync" => Age <= spent

InScan == started /\ busy = "scan" => Age <= Delay + spent

BeforeTick ==
    started /\ busy # "scan" /\ "scan" \notin ticked
        => Age + next["scan"] <= ScanInterval + RequestTime

AfterTick == started /\ busy # "scan" /\ "scan" \in ticked => Served

IInv == Typed /\ SurvivesProbe /\ First /\ InScan /\ BeforeTick /\ AfterTick

LEMMA WaitFits ==
  ASSUME Room
  PROVE  /\ Wait \in Nat /\ Delay \in Nat
         /\ PassedWithin(Wait) \/ \E a, b \in Nat : ServedWithin(Wait, a, b)
         /\ Delay + ScanTime <= LiveLimit + Patience + 1
  <1>1. \E wait \in 0..LiveLimit + Patience + 1 : Waits(wait)
    BY DEF Room, Waits
  <1>2. Wait \in 0..LiveLimit + Patience + 1 /\ Waits(Wait)
    BY <1>1, Zenon DEF Wait
  <1>3. \A a \in 0..Wait : a \in Nat BY <1>2
  <1>4. Wait \in Nat BY <1>2
  <1> QED BY <1>2, <1>3, <1>4 DEF Waits, Delay

LEMMA TimesMore ==
  ASSUME NEW r \in Nat, NEW m \in Nat, NEW n \in Nat, m <= n
  PROVE  r * m \in Nat /\ r * m <= r * n
  <1>1. PICK k \in Nat : n = m + k
    <2>1. n - m \in Nat /\ n = m + (n - m) OBVIOUS
    <2> QED BY <2>1
  <1>2. r * n = r * m + r * k /\ r * m \in Nat /\ r * k \in Nat BY <1>1
  <1> QED BY <1>2

LEMMA TimesOneMore ==
  ASSUME NEW r \in Nat, NEW m \in Nat
  PROVE  /\ r * m \in Nat /\ r * (m + 1) = r * m + r
         /\ m * r \in Nat /\ (m + 1) * r = m * r + r
  OBVIOUS

LEMMA AgeType == TypeOK => Age \in Nat
  BY DEF TypeOK, Age, Never

\* While time passes the age grows by one, and /livez fails for as long as the
\* age exceeds the limit
LEMMA Aging ==
  ASSUME TypeOK, failing <= Patience, TimePasses
  PROVE  /\ Age' = Age + 1
         /\ Age + 1 <= LiveLimit + Patience + 1 => failing' <= Patience
  BY DEF TypeOK, Age, Never, Healthy, Older, TimePasses

\* A scan that becomes ready has the whole wait before it
LEMMA WaitBegins ==
  ASSUME Room, TypeOK', Age' <= ScanInterval + RequestTime
  PROVE  Served'
  <1>1. Wait \in Nat BY WaitFits
  <1>2. Age' + Wait <= Delay
    <2>1. Age' \in Nat BY DEF TypeOK, Age, Never
    <2> QED BY <2>1, <1>1 DEF Delay
  <1>3. Rest' \in Nat /\ Rest' <= RequestTime
    BY Times DEF TypeOK, Rest, Requests, Tickers
  <1>4. CASE PassedWithin(Wait)
    <2> DEFINE m == Passes - passed'
    <2>1. m \in Nat /\ m <= Passes BY DEF TypeOK
    <2> HIDE DEF m
    <2>2. RequestTime * m \in Nat /\ RequestTime * m <= RequestTime * Passes
      BY <2>1, TimesMore
    <2>3. RequestTime * Passes \in Nat
          /\ RequestTime * (Passes + 1) = RequestTime * Passes + RequestTime
      BY TimesOneMore
    <2>4. RequestTime * (Passes + 1) <= Wait BY <1>4 DEF PassedWithin
    <2>5. Rest' + RequestTime * m <= Wait BY <1>1, <1>3, <2>2, <2>3, <2>4
    <2>6. Luck(Wait)' BY <1>2, <2>5 DEF Luck, m
    <2> QED BY <1>1, <2>6 DEF Served
  <1>5. ASSUME NEW a \in Nat, NEW b \in Nat, ServedWithin(Wait, a, b) PROVE Served'
    <2>1. /\ next'["sync"] \in Nat /\ next'["sync"] >= 1
          /\ next'["heartbeat"] \in Nat /\ next'["heartbeat"] >= 1
      BY Intervals DEF TypeOK, Tickers
    <2>2. /\ Wait < next'["sync"] + a * SyncInterval
          /\ Wait < next'["heartbeat"] + b * HeartbeatInterval
      <3>1. a * SyncInterval \in Nat /\ b * HeartbeatInterval \in Nat OBVIOUS
      <3> QED BY <1>1, <1>5, <2>1, <3>1 DEF ServedWithin
    <2> DEFINE m == Ready("sync")' + Ready("heartbeat")' + a + b
               n == 2 + a + b
    <2>3. m \in Nat /\ n \in Nat /\ m <= n BY DEF Ready
    <2>4. RequestTime * (3 + a + b) <= Wait BY <1>5 DEF ServedWithin
    <2>5. 3 + a + b = n + 1 OBVIOUS
    <2> HIDE DEF m, n
    <2>6. RequestTime * m \in Nat /\ RequestTime * m <= RequestTime * n BY <2>3, TimesMore
    <2>7. RequestTime * n \in Nat /\ RequestTime * (n + 1) = RequestTime * n + RequestTime
      BY <2>3, TimesOneMore
    <2>8. Rest' + RequestTime * m <= Wait BY <1>1, <1>3, <2>4, <2>5, <2>6, <2>7
    <2>9. Budget(Wait, a, b)' BY <1>2, <2>2, <2>8 DEF Budget, m
    <2> QED BY <1>1, <2>9 DEF Served
  <1> QED BY <1>4, <1>5, WaitFits

------------------------------------------------------------------------------
(* The steps *)

LEMMA InitIInv == Init => IInv
  <1>1. Init => SurvivesProbe /\ First /\ InScan /\ BeforeTick /\ AfterTick
    BY DEF Init, SurvivesProbe, First, InScan, BeforeTick, AfterTick
  <1> QED BY <1>1, InitTyped DEF IInv

\* Where the agent is not scanning, the next scan begins within the delay
LEMMA WithinDelay ==
  ASSUME Room, IInv, started, busy # "scan"
  PROVE  Age <= Delay
  <1>1. Age \in Nat /\ Delay \in Nat /\ Wait \in Nat
    BY AgeType, WaitFits DEF IInv, Typed
  <1>2. CASE "scan" \in ticked
    <2>1. PICK d \in Nat : Age + d <= Delay
      BY <1>2 DEF IInv, AfterTick, Served, Budget, Luck
    <2> QED BY <1>1, <2>1
  <1>3. CASE "scan" \notin ticked
    <2>1. Age + next["scan"] <= ScanInterval + RequestTime BY <1>3 DEF IInv, BeforeTick
    <2>2. next["scan"] \in Nat BY Intervals DEF IInv, Typed, TypeOK, Tickers
    <2> QED BY <1>1, <2>1, <2>2 DEF Delay
  <1> QED BY <1>2, <1>3

LEMMA SelectStep ==
  ASSUME Room, IInv, NEW k \in Tickers, Select(k)
  PROVE  IInv'
  <1>1. Typed' BY SelectTyped DEF IInv
  <1>2. started /\ busy = "select" /\ UNCHANGED <<started, next, scanAge, failing>>
    BY DEF IInv, Typed, TypeOK, Select
  <1>3. Age' = Age BY <1>2 DEF Age
  <1>4. SurvivesProbe' /\ First' BY <1>2 DEF IInv, SurvivesProbe, First
  <1>5. InScan'
    <2>1. Age <= Delay /\ Age \in Nat /\ Delay \in Nat
      BY <1>2, WithinDelay, AgeType, WaitFits DEF IInv, Typed
    <2> QED BY <1>3, <2>1 DEF InScan, Select
  <1>6. BeforeTick' BY <1>2, <1>3 DEF IInv, BeforeTick, Select
  <1>7. AfterTick'
    <2> SUFFICES ASSUME k # "scan", "scan" \in ticked' PROVE Served'
      BY DEF AfterTick, Select
    <2>a. k \in Requests BY DEF Tickers, Requests
    <2>b. Rest = 0 /\ Rest' = RequestTime BY <1>2, <2>a DEF Rest, Select, Requests
    <2>c. Served BY <1>2 DEF IInv, AfterTick, Select
    <2>d. ASSUME NEW d \in Nat, Luck(d) PROVE Served'
      <3>1. passed' = passed + 1 /\ passed' <= Passes /\ passed \in Nat
        BY DEF Select, IInv, Typed, TypeOK
      <3> DEFINE m == Passes - passed'
                 n == Passes - passed
      <3>2. m \in Nat /\ n = m + 1 BY <3>1
      <3>3. RequestTime * n <= d
        <4>1. Rest + RequestTime * n <= d BY <2>d DEF Luck
        <4>2. RequestTime * n \in Nat BY <3>2
        <4> HIDE DEF n
        <4> QED BY <2>b, <4>1, <4>2
      <3> HIDE DEF m, n
      <3>4. RequestTime * m \in Nat /\ RequestTime * (m + 1) = RequestTime * m + RequestTime
        BY <3>2, TimesOneMore
      <3>5. Rest' + RequestTime * m <= d BY <2>b, <3>2, <3>3, <3>4
      <3>6. Luck(d)' BY <1>3, <2>d, <3>5 DEF Luck, m
      <3> QED BY <3>6 DEF Served
    <2>e. ASSUME NEW d \in Nat, NEW a \in Nat, NEW b \in Nat, Budget(d, a, b) PROVE Served'
      <3> DEFINE m == Ready("sync")' + Ready("heartbeat")' + a + b
                 n == Ready("sync") + Ready("heartbeat") + a + b
      <3>1. m \in Nat /\ n = m + 1 BY <2>a DEF Ready, Select, Requests
      <3>2. Rest + RequestTime * n <= d BY <2>e DEF Budget
      <3> HIDE DEF m, n
      <3>3. RequestTime * m \in Nat /\ RequestTime * (m + 1) = RequestTime * m + RequestTime
        BY <3>1, TimesOneMore
      <3>4. Rest' + RequestTime * m <= d BY <2>b, <3>1, <3>2, <3>3
      <3>5. Budget(d, a, b)' BY <1>2, <1>3, <2>e, <3>4 DEF Budget, m
      <3> QED BY <3>5 DEF Served
    <2> QED BY <2>c, <2>d, <2>e DEF Served
  <1> QED BY <1>1, <1>4, <1>5, <1>6, <1>7 DEF IInv

LEMMA ScanDoneStep ==
  ASSUME Room, IInv, ScanDone
  PROVE  IInv'
  <1>1. Typed' BY ScanDoneTyped DEF IInv
  <1>2. /\ scanAge' = 0 /\ spent' = 0 /\ failing' = failing /\ busy' # "scan"
        /\ next' = next
    BY DEF ScanDone, ScanEnds, Resume
  <1>3. Age' = 0 BY <1>2 DEF Age
  <1>4. SurvivesProbe' /\ First' /\ InScan'
    BY <1>2, <1>3 DEF IInv, SurvivesProbe, First, InScan
  <1>5. BeforeTick'
    <2>1. next["scan"] \in 1..ScanInterval BY Intervals DEF IInv, Typed, TypeOK, Tickers
    <2> QED BY <1>2, <1>3, <2>1 DEF BeforeTick
  <1>6. AfterTick' BY <1>1, <1>3, WaitBegins DEF AfterTick, Typed
  <1> QED BY <1>1, <1>4, <1>5, <1>6 DEF IInv

LEMMA RequestDoneStep ==
  ASSUME Room, IInv, RequestDone
  PROVE  IInv'
  <1>1. Typed' BY ResumeTyped DEF IInv, Typed, TypeOK, RequestDone
  <1>2. /\ busy \in Requests /\ busy' = "select" /\ started' /\ spent' = 0
        /\ UNCHANGED <<next, ticked, scanAge, failing>>
    BY DEF IInv, Typed, TypeOK, Phases, RequestDone, Resume, Requests
  <1>3. Age' = Age /\ Age \in Nat BY <1>2, AgeType DEF Age, IInv, Typed
  <1>4. SurvivesProbe' /\ First' /\ InScan'
    BY <1>2 DEF IInv, SurvivesProbe, First, InScan
  <1>5. CASE ~started
    <2>1. busy = "sync" /\ next = Interval /\ ticked = {}
      BY <1>2, <1>5 DEF IInv, Typed, Phases, Requests
    <2>2. spent \in 0..RequestTime BY <2>1, Times DEF IInv, Typed, TypeOK, Tickers
    <2>3. Age <= RequestTime BY <1>3, <1>5, <2>1, <2>2 DEF IInv, First
    <2>4. BeforeTick' BY <1>2, <1>3, <2>1, <2>3, Intervals DEF BeforeTick
    <2>5. AfterTick' BY <1>2, <2>1 DEF AfterTick
    <2> QED BY <1>1, <1>4, <2>4, <2>5 DEF IInv
  <1>6. CASE started
    <2>1. BeforeTick' BY <1>2, <1>3, <1>6 DEF IInv, BeforeTick, Requests
    <2>2. AfterTick'
      <3> SUFFICES ASSUME "scan" \in ticked PROVE Served' BY <1>2 DEF AfterTick
      <3>1. Served BY <1>2, <1>6 DEF IInv, AfterTick, Requests
      <3>2. /\ Ready("sync")' = Ready("sync") /\ Ready("heartbeat")' = Ready("heartbeat")
            /\ Rest' = 0 /\ passed' = passed
        BY <1>2 DEF RequestDone, Resume, Ready, Rest, Requests
      <3>3. Rest \in Nat
        BY <1>2, Times DEF IInv, Typed, TypeOK, Rest, Requests, Tickers
      <3>4. ASSUME NEW d \in Nat, NEW n \in Nat, Rest + RequestTime * n <= d
            PROVE  0 + RequestTime * n <= d
        <4>1. RequestTime * n \in Nat BY TimesOneMore
        <4> QED BY <3>3, <3>4, <4>1
      <3>5. ASSUME NEW d \in Nat, Luck(d) PROVE Served'
        <4>1. Passes - passed \in Nat BY DEF IInv, Typed, TypeOK
        <4>2. Luck(d)' BY <1>3, <3>2, <3>4, <3>5, <4>1 DEF Luck
        <4> QED BY <4>2 DEF Served
      <3>6. ASSUME NEW d \in Nat, NEW a \in Nat, NEW b \in Nat, Budget(d, a, b)
            PROVE  Served'
        <4>1. Ready("sync") + Ready("heartbeat") + a + b \in Nat BY DEF Ready
        <4>2. Budget(d, a, b)' BY <1>2, <1>3, <3>2, <3>4, <3>6, <4>1 DEF Budget
        <4> QED BY <4>2 DEF Served
      <3> QED BY <3>1, <3>5, <3>6 DEF Served
    <2> QED BY <1>1, <1>4, <2>1, <2>2 DEF IInv
  <1> QED BY <1>5, <1>6

LEMMA ReregisterStep ==
  ASSUME Room, IInv, Reregister
  PROVE  IInv'
  <1>1. Typed' BY ReregisterTyped DEF IInv
  <1>2. /\ started /\ started' /\ busy = "heartbeat" /\ busy' = "scan" /\ spent' = 0
        /\ UNCHANGED <<scanAge, failing>>
    BY DEF IInv, Typed, Phases, TypeOK, Reregister
  <1>3. Age' = Age /\ Age \in Nat BY <1>2, AgeType DEF Age, IInv, Typed
  <1>4. Age <= Delay /\ Delay \in Nat BY <1>2, WithinDelay, WaitFits
  <1> QED BY <1>1, <1>2, <1>3, <1>4
          DEF IInv, SurvivesProbe, First, InScan, BeforeTick, AfterTick

LEMMA TimeInFirst ==
  ASSUME Room, IInv, TimePasses, ~started
  PROVE  SurvivesProbe' /\ First'
  <1>1. /\ ~started' /\ busy' = busy /\ busy # "select"
        /\ spent < MayTake[busy] /\ spent' = spent + 1
        /\ scanAge' = Older(scanAge)
        /\ failing' = IF Healthy THEN 0
                      ELSE IF failing > Patience THEN failing ELSE failing + 1
    BY DEF TimePasses, IInv, Typed, TypeOK
  <1>2. busy \in {"scan", "sync"}
    BY <1>1 DEF IInv, Typed, Phases, TypeOK, Tickers
  <1>3. CASE busy = "scan"
    <2>1. scanAge = Never /\ failing = spent BY <1>3 DEF IInv, First
    <2>2. spent \in 0..ScanTime /\ spent < ScanTime /\ ScanTime <= Patience
      BY <1>1, <1>3, Times, WaitFits DEF IInv, Typed, TypeOK, Room
    <2>3. scanAge' = Never /\ failing' = spent'
      BY <1>1, <2>1, <2>2 DEF Older, Healthy, Never
    <2>4. failing' <= Patience BY <1>1, <2>2, <2>3
    <2> QED BY <1>1, <1>3, <2>3, <2>4 DEF SurvivesProbe, First
  <1>4. CASE busy = "sync"
    <2>1. Age <= spent /\ spent \in Nat /\ spent + 1 <= RequestTime /\ Age \in Nat
      BY <1>1, <1>4, Times, AgeType DEF IInv, First, Typed, TypeOK
    <2>2. RequestTime + ScanTime <= LiveLimit + Patience + 1
      BY WaitFits DEF Delay
    <2>3. Age + 1 <= LiveLimit + Patience + 1 BY <2>1, <2>2
    <2>4. Age' = Age + 1 /\ failing' <= Patience
      BY <2>3, Aging DEF IInv, SurvivesProbe, Typed
    <2> QED BY <1>1, <1>4, <2>1, <2>4 DEF SurvivesProbe, First
  <1> QED BY <1>2, <1>3, <1>4

\* While a request runs, a tick takes one of those that were to come and makes
\* it one that is ready, or is lost
LEMMA TickCounted ==
  ASSUME Typed, started, Ticks, NEW k \in Requests,
         NEW d \in Nat, d >= 1, NEW n \in Nat, d < next[k] + n * Interval[k]
  PROVE  \E m \in Nat : /\ d - 1 < next'[k] + m * Interval[k]
                        /\ Ready(k)' + m <= Ready(k) + n
  <1>1. k \in Tickers /\ Interval[k] \in Nat BY Intervals DEF Requests, Tickers
  <1>2. next[k] \in Nat /\ next[k] >= 1 BY <1>1, TickersRun DEF Typed
  <1>3. CASE next[k] > 1
    <2>1. next'[k] = next[k] - 1 /\ (k \in ticked' => k \in ticked)
      BY <1>1, <1>3, TickersRun DEF Typed
    <2>2. n * Interval[k] \in Nat BY <1>1, TimesOneMore
    <2>3. d - 1 < next'[k] + n * Interval[k]
      <3> DEFINE x == n * Interval[k]
      <3>1. x \in Nat /\ d < next[k] + x BY <2>2
      <3> HIDE DEF x
      <3>2. d - 1 < next[k] - 1 + x BY <1>2, <3>1
      <3> QED BY <2>1, <3>2 DEF x
    <2>4. Ready(k)' + n <= Ready(k) + n BY <2>1 DEF Ready
    <2> QED BY <2>3, <2>4
  <1>4. CASE next[k] = 1
    <2>1. next'[k] = Interval[k] /\ k \in ticked'
      BY <1>1, <1>4, TickersRun DEF Typed
    <2>2. n # 0
      <3> SUFFICES ASSUME n = 0 PROVE FALSE OBVIOUS
      <3>1. n * Interval[k] = 0 BY <1>1
      <3> QED BY <1>4, <3>1
    <2>3. PICK m \in Nat : n = m + 1
      <3>1. n - 1 \in Nat /\ n = (n - 1) + 1 BY <2>2
      <3> QED BY <3>1
    <2>4. n * Interval[k] = m * Interval[k] + Interval[k] /\ m * Interval[k] \in Nat
      BY <1>1, <2>3, TimesOneMore
    <2>5. d - 1 < next'[k] + m * Interval[k]
      <3> DEFINE x == n * Interval[k]
                 y == m * Interval[k]
      <3>1. x = y + Interval[k] /\ y \in Nat /\ d < 1 + x BY <1>4, <2>4
      <3> HIDE DEF x, y
      <3>2. d - 1 < Interval[k] + y BY <1>1, <3>1
      <3> QED BY <2>1, <3>2 DEF y
    <2>6. Ready(k)' + m <= Ready(k) + n BY <2>3 DEF Ready
    <2> QED BY <2>5, <2>6
  <1> QED BY <1>2, <1>3, <1>4

LEMMA LuckInWait ==
  ASSUME Room, IInv, TimePasses, started, "scan" \in ticked, busy # "scan",
         NEW d \in Nat, Luck(d)
  PROVE  Served' /\ Age + 1 <= Delay
  <1>1. busy \in Requests /\ busy' = busy /\ passed' = passed
        /\ spent < MayTake[busy] /\ spent' = spent + 1
    BY DEF TimePasses, IInv, Typed, TypeOK, Requests, Tickers
  <1>2. spent \in Nat /\ spent < RequestTime
    BY <1>1, Times DEF Requests, IInv, Typed, TypeOK, Tickers
  <1>3. Rest \in Nat /\ Rest >= 1 /\ Rest' = Rest - 1 BY <1>1, <1>2 DEF Rest
  <1> DEFINE n == Passes - passed
  <1>4. n \in Nat /\ RequestTime * n \in Nat /\ Rest + RequestTime * n <= d
    <2>1. n \in Nat BY DEF IInv, Typed, TypeOK
    <2> QED BY <2>1, TimesOneMore DEF Luck
  <1>5. Age \in Nat /\ Delay \in Nat /\ Age + d <= Delay
    BY AgeType, WaitFits DEF IInv, Typed, Luck
  <1>6. Age' = Age + 1 BY Aging DEF IInv, SurvivesProbe, Typed
  <1>7. d >= 1 /\ Rest' + RequestTime * n <= d - 1
    <2> HIDE DEF n
    <2> QED BY <1>3, <1>4
  <1>8. d - 1 \in Nat /\ Age' + (d - 1) <= Delay /\ Age + 1 <= Delay
    BY <1>5, <1>6, <1>7
  <1>9. Luck(d - 1)' BY <1>1, <1>7, <1>8 DEF Luck
  <1> QED BY <1>8, <1>9 DEF Served

LEMMA BudgetInWait ==
  ASSUME Room, IInv, TimePasses, started, "scan" \in ticked, busy # "scan",
         NEW d \in Nat, NEW a \in Nat, NEW b \in Nat, Budget(d, a, b)
  PROVE  Served' /\ Age + 1 <= Delay
  <1>1. Budget(d, a, b) OBVIOUS
  <1>2. busy \in Requests /\ busy' = busy /\ Ticks /\ started
        /\ spent < MayTake[busy] /\ spent' = spent + 1
    BY DEF TimePasses, IInv, Typed, TypeOK, Requests, Tickers
  <1>3. spent \in Nat /\ spent < RequestTime
    BY <1>2, Times DEF Requests, IInv, Typed, TypeOK, Tickers
  <1>4. Rest \in Nat /\ Rest >= 1 /\ Rest' = Rest - 1 BY <1>2, <1>3 DEF Rest
  <1> DEFINE n == Ready("sync") + Ready("heartbeat") + a + b
  <1>5. n \in Nat /\ RequestTime * n \in Nat /\ Rest + RequestTime * n <= d
    <2>1. n \in Nat BY DEF Ready
    <2> QED BY <1>1, <2>1, TimesOneMore DEF Budget
  <1>6. d >= 1
    <2> HIDE DEF n
    <2> QED BY <1>4, <1>5
  <1>7. Age \in Nat /\ Delay \in Nat /\ Age + d <= Delay
    BY <1>1, AgeType, WaitFits DEF IInv, Typed, Budget
  <1>8. Age' = Age + 1 BY Aging DEF IInv, SurvivesProbe, Typed
  <1>9. PICK p \in Nat : /\ d - 1 < next'["sync"] + p * Interval["sync"]
                         /\ Ready("sync")' + p <= Ready("sync") + a
    <2>1. d < next["sync"] + a * Interval["sync"] BY <1>1, Intervals DEF Budget
    <2> QED BY <1>2, <1>6, <2>1, TickCounted DEF Requests, IInv
  <1>10. PICK q \in Nat : /\ d - 1 < next'["heartbeat"] + q * Interval["heartbeat"]
                          /\ Ready("heartbeat")' + q <= Ready("heartbeat") + b
    <2>1. d < next["heartbeat"] + b * Interval["heartbeat"] BY <1>1, Intervals DEF Budget
    <2> QED BY <1>2, <1>6, <2>1, TickCounted DEF Requests, IInv
  <1> DEFINE m == Ready("sync")' + Ready("heartbeat")' + p + q
  <1>11. m \in Nat /\ m <= n BY <1>9, <1>10 DEF Ready
  <1>12. Rest' + RequestTime * m <= d - 1
    <2> HIDE DEF m, n
    <2>1. RequestTime * m \in Nat /\ RequestTime * m <= RequestTime * n
      BY <1>5, <1>11, TimesMore
    <2> QED BY <1>4, <1>5, <2>1
  <1>13. d - 1 \in Nat /\ Age' + (d - 1) <= Delay /\ Age + 1 <= Delay
    BY <1>6, <1>7, <1>8
  <1>14. Budget(d - 1, p, q)' BY <1>9, <1>10, <1>12, <1>13, Intervals DEF Budget
  <1> QED BY <1>13, <1>14 DEF Served

LEMMA TimeInWait ==
  ASSUME Room, IInv, TimePasses, started, "scan" \in ticked, busy # "scan"
  PROVE  Served' /\ Age + 1 <= Delay
  <1>1. Served BY DEF IInv, AfterTick
  <1> QED BY <1>1, LuckInWait, BudgetInWait DEF Served

LEMMA TimePassesStep ==
  ASSUME Room, IInv, TimePasses
  PROVE  IInv'
  <1>1. Typed' BY TimePassesTyped DEF IInv
  <1>2. started' = started /\ busy' = busy BY DEF TimePasses
  <1>3. CASE ~started
    BY <1>1, <1>2, <1>3, TimeInFirst DEF IInv, InScan, BeforeTick, AfterTick
  <1>4. CASE started
    <2>1. Age' = Age + 1 /\ (Age + 1 <= LiveLimit + Patience + 1 => failing' <= Patience)
      BY Aging DEF IInv, SurvivesProbe, Typed
    <2>2. Age \in Nat /\ Delay \in Nat /\ Wait \in Nat
          /\ Delay + ScanTime <= LiveLimit + Patience + 1
      BY AgeType, WaitFits DEF IInv, Typed
    <2>3. First' BY <1>2, <1>4 DEF First
    <2>4. CASE busy = "scan"
      <3>1. spent \in Nat /\ spent' = spent + 1 /\ spent + 1 <= ScanTime
        BY <2>4, Times DEF TimePasses, IInv, Typed, TypeOK
      <3>2. Age <= Delay + spent BY <1>4, <2>4 DEF IInv, InScan
      <3>3. InScan' BY <2>1, <2>2, <3>1, <3>2 DEF InScan
      <3>4. SurvivesProbe' BY <2>1, <2>2, <3>1, <3>2 DEF SurvivesProbe
      <3> QED BY <1>1, <1>2, <2>3, <2>4, <3>3, <3>4 DEF IInv, BeforeTick, AfterTick
    <2>5. CASE busy # "scan" /\ "scan" \in ticked
      <3>1. Served' /\ Age + 1 <= Delay BY <1>4, <2>5, TimeInWait
      <3>2. SurvivesProbe' BY <2>1, <2>2, <3>1 DEF SurvivesProbe
      <3>3. "scan" \in ticked' BY <2>5 DEF TimePasses, Ticks
      <3> QED BY <1>1, <1>2, <2>3, <2>5, <3>1, <3>2, <3>3
              DEF IInv, InScan, BeforeTick, AfterTick
    <2>6. CASE busy # "scan" /\ "scan" \notin ticked
      <3>1. Age + next["scan"] <= ScanInterval + RequestTime
        BY <1>4, <2>6 DEF IInv, BeforeTick
      <3>2. /\ next["scan"] \in Nat /\ next["scan"] >= 1
            /\ \/ next["scan"] = 1
               \/ /\ next["scan"] > 1 /\ next'["scan"] = next["scan"] - 1
                  /\ "scan" \notin ticked'
        BY <1>4, <2>6, TickersRun DEF TimePasses, IInv, Typed, Tickers
      <3>3. Age + 1 <= ScanInterval + RequestTime BY <2>2, <3>1, <3>2
      <3>4. SurvivesProbe' BY <2>1, <2>2, <3>3 DEF SurvivesProbe, Delay
      <3>5. "scan" \in ticked' => Served' BY <1>1, <2>1, <3>3, WaitBegins DEF Typed
      <3>6. "scan" \notin ticked' => Age' + next'["scan"] <= ScanInterval + RequestTime
        <4>1. next["scan"] = 1 => "scan" \in ticked'
          BY <1>4, TickersRun DEF TimePasses, IInv, Typed, Tickers
        <4> QED BY <2>1, <2>2, <3>1, <3>2, <4>1
      <3> QED BY <1>1, <1>2, <2>3, <2>6, <3>4, <3>5, <3>6
              DEF IInv, InScan, BeforeTick, AfterTick
    <2> QED BY <2>4, <2>5, <2>6
  <1> QED BY <1>3, <1>4

LEMMA NextIInv ==
  ASSUME Room
  PROVE  IInv /\ [Next]_vars => IInv'
  <1> SUFFICES ASSUME IInv, [Next]_vars PROVE IInv' OBVIOUS
  <1>1. ASSUME NEW k \in Tickers, Select(k) PROVE IInv' BY <1>1, SelectStep
  <1>2. CASE ScanDone BY <1>2, ScanDoneStep
  <1>3. CASE RequestDone BY <1>3, RequestDoneStep
  <1>4. CASE Reregister BY <1>4, ReregisterStep
  <1>5. CASE TimePasses BY <1>5, TimePassesStep
  <1>6. CASE UNCHANGED vars
    <2>1. Typed' BY <1>6, NextTyped DEF IInv
    <2>2. Age' = Age /\ (Served => Served')
      BY <1>6 DEF vars, Age, Served, Budget, Luck, Rest, Ready
    <2> QED BY <1>6, <2>1, <2>2
            DEF vars, IInv, SurvivesProbe, First, InScan, BeforeTick, AfterTick
  <1> QED BY <1>1, <1>2, <1>3, <1>4, <1>5, <1>6 DEF Next

\* Where there is Room, because of the intervals or because the select does not
\* pass the scan over too often, the pace of the scans never makes the probe end
\* an agent: whatever the requests take up to their timeout, the next scan is over
\* before /livez has failed for longer than the probe lets it.
THEOREM ProbeSurvived == Room => (Spec => []SurvivesProbe)
  <1> SUFFICES ASSUME Room PROVE Spec => []SurvivesProbe OBVIOUS
  <1>1. IInv => SurvivesProbe BY DEF IInv
  <1>2. IInv /\ [Next]_vars => IInv' BY NextIInv
  <1> QED BY <1>1, <1>2, InitIInv, PTL DEF Spec

==============================================================================
