-------------------------- MODULE AgentReport_proofs --------------------------
(****************************************************************************)
(* What holds of ScanPool and of AgentReport for every finite set of        *)
(* targets, every set of certificates and every concurrency of at least     *)
(* one. What is known of a scan carries over to the agent: a step of the    *)
(* agent is a step of its scan, or leaves it alone.                         *)
(****************************************************************************)
EXTENDS AgentReport, FiniteSetTheorems, TLAPS

------------------------------------------------------------------------------
(* A scan: ScanPool *)

\* The channel holds a token for each goroutine that has one, and the WaitGroup
\* counts each goroutine that has started and has not ended.
Counted == sem = Cardinality(Connected) /\ pending = Cardinality(Running)

\* A goroutine that wrote its result wrote an outcome, and gave up only when the
\* context was canceled.
Written ==
    \A t \in Targets :
        worker[t] \in {"returning", "done"} =>
            results[t] \in Outcomes /\ (results[t] = "canceled" => canceled)

\* The loop has started every goroutine when Wait is called.
AllSpawned == main = "waiting" => \A t \in Targets : worker[t] # "none"

IInv == TypeOK /\ Counted /\ Written /\ AllSpawned /\ NoLateWrites

USE TargetsAssumption, ConcurrencyAssumption, CertificatesAssumption

LEMMA FiniteGroups ==
  /\ IsFiniteSet(Connected) /\ Cardinality(Connected) \in Nat
  /\ IsFiniteSet(Running) /\ Cardinality(Running) \in Nat
  <1>1. Connected \subseteq Targets /\ Running \subseteq Targets
    BY DEF Connected, Running
  <1>2. IsFiniteSet(Connected) /\ IsFiniteSet(Running) BY <1>1, FS_Subset
  <1> QED BY <1>2, FS_CardinalityType

LEMMA InitIInv == Init => IInv
  <1> SUFFICES ASSUME Init PROVE IInv OBVIOUS
  <1> USE DEF Init, NotScanned
  <1>1. Connected = {} /\ Running = {} BY DEF Connected, Running
  <1>2. Counted BY <1>1, FS_EmptySet DEF Counted
  <1>3. TypeOK
    <2>1. 0 \in 0..Concurrency OBVIOUS
    <2>2. NotScanned \in [Targets -> Workers] /\ NotScanned \in [Targets -> Outcomes \cup {"none"}]
      BY DEF Workers
    <2> QED BY <2>1, <2>2 DEF TypeOK, Mains
  <1>4. Written /\ AllSpawned /\ NoLateWrites BY <1>1 DEF Written, AllSpawned, NoLateWrites
  <1> QED BY <1>2, <1>3, <1>4 DEF IInv

\* A new scan starts when no goroutine of the last one runs
LEMMA CallStep == IInv /\ Call => IInv'
  <1> SUFFICES ASSUME IInv, Call PROVE IInv' OBVIOUS
  <1> USE DEF IInv, Call, NotScanned
  <1>1. Running = {} BY DEF NoLateWrites
  <1>2. pending = 0 BY <1>1, FS_EmptySet DEF Counted
  <1>3. Connected' = {} /\ Running' = {} BY DEF Connected, Running
  <1>4. Counted' BY <1>2, <1>3, FS_EmptySet DEF Counted
  <1>5. TypeOK' BY DEF TypeOK, Mains, Workers, Outcomes
  <1>6. Written' /\ AllSpawned' /\ NoLateWrites' BY DEF Written, AllSpawned, NoLateWrites
  <1> QED BY <1>4, <1>5, <1>6

LEMMA SpawnStep == ASSUME IInv, NEW t \in Targets, Spawn(t) PROVE IInv'
  <1> USE DEF IInv, Spawn
  <1>1. Connected' = Connected BY DEF Connected, TypeOK
  <1>2. Running' = Running \cup {t} /\ t \notin Running BY DEF Running, TypeOK
  <1>3. Counted' BY <1>1, <1>2, FiniteGroups, FS_AddElement DEF Counted
  <1>4. TypeOK' BY DEF TypeOK, Workers
  <1>5. Written' BY DEF Written, TypeOK
  <1>6. AllSpawned' /\ NoLateWrites' BY DEF AllSpawned, NoLateWrites
  <1> QED BY <1>3, <1>4, <1>5, <1>6

LEMMA WaitStep == IInv /\ Wait => IInv'
  <1> SUFFICES ASSUME IInv, Wait PROVE IInv' OBVIOUS
  <1> USE DEF IInv, Wait
  <1>1. Counted' BY DEF Counted, Connected, Running
  <1>2. TypeOK' BY DEF TypeOK, Mains
  <1>3. Written' /\ AllSpawned' /\ NoLateWrites'
    BY DEF Written, AllSpawned, NoLateWrites, At
  <1> QED BY <1>1, <1>2, <1>3

\* The counter is zero only when no goroutine runs
LEMMA ReturnStep == IInv /\ Return => IInv'
  <1> SUFFICES ASSUME IInv, Return PROVE IInv' OBVIOUS
  <1> USE DEF IInv, Return
  <1>1. Running = {} BY FiniteGroups, FS_EmptySet DEF Counted
  <1>2. Running' = Running /\ Connected' = Connected BY DEF Running, Connected
  <1>3. Counted' BY <1>2 DEF Counted
  <1>4. TypeOK' BY DEF TypeOK, Mains
  <1>5. Written' /\ AllSpawned' BY DEF Written, AllSpawned
  <1>6. NoLateWrites' BY <1>1, <1>2 DEF NoLateWrites
  <1> QED BY <1>3, <1>4, <1>5, <1>6

LEMMA AcquireStep == ASSUME IInv, NEW t \in Targets, Acquire(t) PROVE IInv'
  <1> USE DEF IInv, Acquire
  <1>1. Running' = Running BY DEF Running, TypeOK
  <1>2. Connected' = Connected \cup {t} /\ t \notin Connected BY DEF Connected, TypeOK
  <1>3. Counted' BY <1>1, <1>2, FiniteGroups, FS_AddElement DEF Counted
  <1>4. TypeOK' BY DEF TypeOK, Workers
  <1>5. Written' /\ AllSpawned' BY DEF Written, AllSpawned, TypeOK
  <1>6. NoLateWrites' BY <1>1 DEF NoLateWrites
  <1> QED BY <1>3, <1>4, <1>5, <1>6

LEMMA ScanStep == ASSUME IInv, NEW t \in Targets, Scan(t) PROVE IInv'
  <1> USE DEF IInv, Scan
  <1>1. Running' = Running /\ Connected' = Connected BY DEF Running, Connected, TypeOK
  <1>2. Counted' BY <1>1 DEF Counted
  <1>3. TypeOK' BY DEF TypeOK, Workers, Outcomes
  <1>4. Written' BY DEF Written, TypeOK, Outcomes
  <1>5. AllSpawned' BY DEF AllSpawned, TypeOK
  <1>6. NoLateWrites' BY <1>1 DEF NoLateWrites
  <1> QED BY <1>2, <1>3, <1>4, <1>5, <1>6

\* A goroutine ends: what GiveUp and Finish have in common
LEMMA EndStep ==
  ASSUME TypeOK, Counted, AllSpawned, NoLateWrites, NEW t \in Running,
         worker' = [worker EXCEPT ![t] = "done"], pending' = pending - 1,
         UNCHANGED <<main, lastScan, canceled>>
  PROVE  /\ pending' = Cardinality(Running') /\ pending' \in Nat
         /\ AllSpawned' /\ NoLateWrites'
  <1>0. t \in Targets BY DEF Running
  <1>1. Running' = Running \ {t} BY <1>0 DEF Running, TypeOK
  <1>2. Cardinality(Running') = Cardinality(Running) - 1
    BY <1>1, FiniteGroups, FS_RemoveElement
  <1>3. Running # {} /\ Cardinality(Running) # 0 BY FiniteGroups, FS_EmptySet
  <1>4. pending' = Cardinality(Running') /\ pending' \in Nat
    BY <1>2, <1>3, FiniteGroups DEF Counted
  <1>5. AllSpawned' BY <1>0 DEF AllSpawned, TypeOK
  <1>6. NoLateWrites' BY <1>1 DEF NoLateWrites
  <1> QED BY <1>4, <1>5, <1>6

LEMMA GiveUpStep == ASSUME IInv, NEW t \in Targets, GiveUp(t) PROVE IInv'
  <1> USE DEF IInv, GiveUp
  <1>1. t \in Running BY DEF Running
  <1>2. pending' = Cardinality(Running') /\ pending' \in Nat /\ AllSpawned' /\ NoLateWrites'
    BY <1>1, EndStep
  <1>3. Connected' = Connected BY DEF Connected, TypeOK
  <1>4. Counted' BY <1>2, <1>3 DEF Counted
  <1>5. TypeOK' BY <1>2 DEF TypeOK, Workers, Outcomes
  <1>6. Written' BY DEF Written, TypeOK, Outcomes
  <1> QED BY <1>2, <1>4, <1>5, <1>6

LEMMA FinishStep == ASSUME IInv, NEW t \in Targets, Finish(t) PROVE IInv'
  <1> USE DEF IInv, Finish
  <1>1. t \in Running BY DEF Running
  <1>2. pending' = Cardinality(Running') /\ pending' \in Nat /\ AllSpawned' /\ NoLateWrites'
    BY <1>1, EndStep
  <1>3. Connected' = Connected \ {t} /\ t \in Connected BY DEF Connected, TypeOK
  <1>4. Cardinality(Connected') = Cardinality(Connected) - 1
    BY <1>3, FiniteGroups, FS_RemoveElement
  <1>5. Cardinality(Connected) # 0 BY <1>3, FiniteGroups, FS_EmptySet
  <1>6. Counted' BY <1>2, <1>4 DEF Counted
  <1>7. sem' \in 0..Concurrency BY <1>5, FiniteGroups DEF Counted, TypeOK
  <1>8. TypeOK' BY <1>2, <1>7 DEF TypeOK, Workers
  <1>9. Written' BY DEF Written, TypeOK
  <1> QED BY <1>2, <1>6, <1>8, <1>9

LEMMA NextIInv == IInv /\ [Next]_vars => IInv'
  <1> SUFFICES ASSUME IInv, [Next]_vars PROVE IInv' OBVIOUS
  <1>1. CASE UNCHANGED vars
    BY <1>1 DEF vars, IInv, TypeOK, Counted, Connected, Running, Written, AllSpawned,
                NoLateWrites
  <1>2. CASE Cancel
    BY <1>2 DEF Cancel, IInv, TypeOK, Counted, Connected, Running, Written, AllSpawned,
                NoLateWrites
  <1>3. CASE Call \/ Wait \/ Return BY <1>3, CallStep, WaitStep, ReturnStep
  <1>4. ASSUME NEW t \in Targets, Spawn(t) \/ ScanOf(t) PROVE IInv'
    BY <1>4, SpawnStep, AcquireStep, GiveUpStep, ScanStep, FinishStep DEF ScanOf
  <1> QED BY <1>1, <1>2, <1>3, <1>4 DEF Next

LEMMA AlwaysIInv == Spec => []IInv
  BY InitIInv, NextIInv, PTL DEF Spec

\* Every variable keeps its type: the token count stays within the channel, the
\* WaitGroup counter never goes below zero.
THEOREM TypeCorrect == Spec => []TypeOK
  <1>1. IInv => TypeOK BY DEF IInv
  <1> QED BY <1>1, AlwaysIInv, PTL

\* No more connections are open than the configured concurrency.
THEOREM ConnectionsAreBounded == Spec => []ConnectionsBounded
  <1>1. IInv => ConnectionsBounded BY DEF IInv, TypeOK, Counted, ConnectionsBounded
  <1> QED BY <1>1, AlwaysIInv, PTL

\* No goroutine outlives the ScanAll that started it.
THEOREM NoWritesAreLate == Spec => []NoLateWrites
  <1>1. IInv => NoLateWrites BY DEF IInv
  <1> QED BY <1>1, AlwaysIInv, PTL

LEMMA InitRefines == Init => Scanner!Init
  BY DEF Init, Scanner!Init, NotScanned, Scanner!NotScanned

\* Return is the Return of Scanner, Call its Call, and the goroutines stutter
LEMMA StepRefines == IInv /\ [Next]_vars => [Scanner!Next]_Scanner!vars
  <1> SUFFICES ASSUME IInv, [Next]_vars, ~ UNCHANGED Scanner!vars
               PROVE  Scanner!Next
    OBVIOUS
  <1> USE DEF Scanner!vars
  <1>1. CASE UNCHANGED vars BY <1>1 DEF vars
  <1>2. CASE Call BY <1>2 DEF Call, Scanner!Next, Scanner!Call
  <1>3. CASE Wait BY <1>3 DEF Wait
  <1>4. CASE Cancel BY <1>4 DEF Cancel, Scanner!Next, Scanner!Cancel
  <1>5. CASE Return
    <2> USE <1>5 DEF Return
    <2>1. Running = {} BY FiniteGroups, FS_EmptySet DEF IInv, Counted
    <2>2. \A t \in Targets : worker[t] = "done"
      BY <2>1 DEF IInv, TypeOK, Workers, AllSpawned, Running
    <2>3. \A t \in Targets : results[t] \in Outcomes /\ (results[t] = "canceled" => canceled)
      BY <2>2 DEF IInv, Written
    <2>4. lastScan' \in [Targets -> Scanner!Outcomes]
      BY <2>3 DEF IInv, TypeOK, Outcomes, Scanner!Outcomes
    <2>5. canceled \/ \A t \in Targets : lastScan'[t] # "canceled" BY <2>3
    <2> QED BY <2>4, <2>5 DEF Scanner!Next, Scanner!Return
  <1>6. ASSUME NEW t \in Targets, Spawn(t) \/ ScanOf(t) PROVE FALSE
    BY <1>6 DEF Spawn, ScanOf, Acquire, GiveUp, Scan, Finish
  <1> QED BY <1>1, <1>2, <1>3, <1>4, <1>5, <1>6 DEF Next

\* ScanAll is a Scanner: what it returns has an outcome for every target, and
\* none is canceled unless the agent is stopping (the safety part of IsScanner).
THEOREM ImplementsScanner == Spec => Scanner!Safety
  BY InitRefines, StepRefines, AlwaysIInv, PTL DEF Spec, Scanner!Safety

------------------------------------------------------------------------------
(* The agent: AgentReport *)

\* What the variables of AgentReport can be
PlaceOK ==
    /\ place \in Places
    /\ syncNext \in BOOLEAN
    /\ served \in [Targets -> Findings]
    /\ gauges \in [Targets -> Certificates \cup {"none"}]
    /\ view \in [Targets -> Entries]
    /\ late \in [Targets -> Entries]
    /\ main # "idle" <=> place = "scanning"

\* A scan has given a target up only if the signal has come, and then it is not
\* the scan of a request that was sent.
Uncut ==
    /\ \A t \in Targets : lastScan[t] = "canceled" => canceled
    /\ place = "posting" => \A t \in Targets : lastScan[t] # "canceled"

\* The gauges are those of the last scan, where it found a certificate.
Exported ==
    \A t \in Targets : lastScan[t] \in Certificates => gauges[t] = lastScan[t]

RInv == IInv /\ PlaceOK /\ Uncut /\ Exported /\ NothingCanceledReported

USE ServableAssumption

\* A step of the agent is one of its scan, or leaves the scan alone
LEMMA StepScans == [ReportNext]_allVars => [Next]_vars
  <1> SUFFICES ASSUME ReportNext PROVE Next \/ UNCHANGED vars
    BY DEF allVars
  <1>1. CASE Proceed
    BY <1>1
    DEF Proceed, FirstScan, ScanAndSync, Scanning, ScanReturns, Send, PostReturns, PostHandled,
                PostFails, PostAbandoned, Dial, Next, ScanOf
  <1>2. CASE ScanTick \/ SyncTick \/ Reregister \/ Stop \/ Signal \/ HandleLate
    BY <1>2 DEF ScanTick, SyncTick, Reregister, ScanAndSync, Stop, Signal, HandleLate, Next
  <1>3. ASSUME NEW t \in Targets, Serve(t) PROVE UNCHANGED vars
    BY <1>3 DEF Serve
  <1> QED BY <1>1, <1>2, <1>3 DEF ReportNext

\* What a scan returns: an outcome of each target, canceled only after the signal
LEMMA ReturnedScan ==
  ASSUME IInv, Return
  PROVE  /\ lastScan' \in [Targets -> Outcomes]
         /\ \A t \in Targets : lastScan'[t] = "canceled" => canceled
  <1> USE DEF Return
  <1>1. Running = {} BY FiniteGroups, FS_EmptySet DEF IInv, Counted
  <1>2. \A t \in Targets : worker[t] = "done"
    BY <1>1 DEF IInv, TypeOK, Workers, AllSpawned, Running
  <1>3. \A t \in Targets : results[t] \in Outcomes /\ (results[t] = "canceled" => canceled)
    BY <1>2 DEF IInv, Written
  <1>4. results \in [Targets -> Outcomes] BY <1>3 DEF IInv, TypeOK, Outcomes
  <1> QED BY <1>3, <1>4

LEMMA InitRInv == ReportInit => RInv
  <1> SUFFICES ASSUME ReportInit PROVE RInv OBVIOUS
  <1> USE DEF ReportInit
  <1>1. IInv BY InitIInv
  <1>2. \A t \in Targets : NotScanned[t] = "none" BY DEF NotScanned
  <1>3. PlaceOK
    BY DEF PlaceOK, Places, Init, NotScanned, NoRequest, Findings, Entries, Outcomes
  <1>4. Uncut /\ Exported BY <1>2, CertificatesAssumption DEF Uncut, Exported, Init
  <1>5. NothingCanceledReported
    BY <1>2, CertificatesAssumption DEF NothingCanceledReported, NoRequest, Findings
  <1> QED BY <1>1, <1>3, <1>4, <1>5 DEF RInv

\* A scan begins: the results of the last one stay until it returns
LEMMA CallKeeps == RInv /\ (FirstScan \/ Reregister \/ ScanTick) => RInv'
  <1> SUFFICES ASSUME RInv, FirstScan \/ Reregister \/ ScanTick PROVE RInv' OBVIOUS
  <1> USE DEF RInv, FirstScan, Reregister, ScanAndSync, ScanTick, Call
  <1>1. IInv' BY NextIInv DEF Next
  <1>2. PlaceOK' BY DEF PlaceOK, Places
  <1>3. Uncut' /\ Exported' /\ NothingCanceledReported'
    BY DEF Uncut, Exported, NothingCanceledReported
  <1> QED BY <1>1, <1>2, <1>3

\* The goroutines of a scan change none of what it is compared with
LEMMA PoolKeeps ==
  ASSUME RInv, Scanning \/ \E t \in Targets : Dial(t)
  PROVE  RInv'
  <1> USE DEF RInv
  <1>1. IInv' BY StepScans, NextIInv DEF ReportNext, Proceed
  <1>2. UNCHANGED <<lastScan, canceled, reportVars>> /\ (main = "idle" <=> main' = "idle")
    BY DEF Scanning, Wait, Spawn, Acquire, GiveUp, Finish, Dial, Scan
  <1>3. PlaceOK' /\ Uncut' /\ Exported' /\ NothingCanceledReported'
    BY <1>2 DEF PlaceOK, Uncut, Exported, NothingCanceledReported, reportVars
  <1> QED BY <1>1, <1>3

LEMMA ReturnKeeps == RInv /\ ScanReturns => RInv'
  <1> SUFFICES ASSUME RInv, ScanReturns PROVE RInv' OBVIOUS
  <1> USE DEF RInv, ScanReturns
  <1>1. IInv' BY NextIInv DEF Next
  <1>2. /\ lastScan' \in [Targets -> Outcomes]
        /\ \A t \in Targets : lastScan'[t] = "canceled" => canceled
    BY ReturnedScan
  <1>3. gauges' \in [Targets -> Certificates \cup {"none"}]
    BY <1>2 DEF Recorded, PlaceOK
  <1>4. PlaceOK' BY <1>3 DEF PlaceOK, Places, Return
  <1>5. Uncut' BY <1>2 DEF Uncut, Return
  <1>6. Exported' BY DEF Exported, Recorded
  <1>7. NothingCanceledReported' BY DEF NothingCanceledReported
  <1> QED BY <1>1, <1>4, <1>5, <1>6, <1>7

\* What the network and the API get is the scan of a request that was sent
LEMMA RequestKeeps ==
  RInv /\ (SyncTick \/ Send \/ PostReturns \/ HandleLate \/ Stop) => RInv'
  <1> SUFFICES ASSUME RInv, SyncTick \/ Send \/ PostReturns \/ HandleLate \/ Stop
               PROVE  RInv'
    OBVIOUS
  <1> USE DEF RInv
  <1>1. UNCHANGED vars /\ UNCHANGED <<gauges, served, syncNext>>
    BY DEF SyncTick, Send, PostReturns, PostHandled, PostFails, PostAbandoned, HandleLate, Stop
  <1>2. IInv' BY <1>1, NextIInv
  <1>3. Request \in [Targets -> Entries] BY DEF Request, IInv, TypeOK, Entries
  <1>4. NoRequest \in [Targets -> Entries] BY DEF NoRequest, NotScanned, Entries
  <1>5. PlaceOK'
    BY <1>1, <1>3, <1>4
    DEF PlaceOK, Places, vars, SyncTick, Send, PostReturns, PostHandled, PostFails,
        PostAbandoned, HandleLate, Stop
  <1>6. Uncut'
    BY <1>1
    DEF Uncut, vars, SyncTick, Send, PostReturns, PostHandled, PostFails, PostAbandoned,
        HandleLate, Stop
  <1>7. Exported' BY <1>1 DEF Exported, vars
  <1>8. NothingCanceledReported'
    <2>1. place = "posting" => \A t \in Targets : Request[t] # "canceled"
      BY DEF Uncut, Request
    <2>2. \A t \in Targets : NoRequest[t] # "canceled" BY DEF NoRequest, NotScanned
    <2> QED BY <2>1, <2>2
            DEF NothingCanceledReported, SyncTick, Send, PostReturns, PostHandled,
                PostFails, PostAbandoned, HandleLate, Stop
  <1> QED BY <1>2, <1>5, <1>6, <1>7, <1>8

LEMMA WorldKeeps ==
  ASSUME RInv, Signal \/ \E t \in Targets : Serve(t)
  PROVE  RInv'
  <1> USE DEF RInv
  <1>1. IInv' BY StepScans, NextIInv DEF ReportNext
  <1>2. UNCHANGED <<place, syncNext, gauges, view, late, main, lastScan>>
    BY DEF Signal, Cancel, Serve, reportVars, vars
  <1>3. canceled => canceled' BY DEF Signal, Cancel, Serve, vars
  <1>4. served' \in [Targets -> Findings]
    BY DEF Signal, Serve, PlaceOK, reportVars
  <1>5. PlaceOK' BY <1>2, <1>4 DEF PlaceOK
  <1>6. Uncut' /\ Exported' /\ NothingCanceledReported'
    BY <1>2, <1>3 DEF Uncut, Exported, NothingCanceledReported
  <1> QED BY <1>1, <1>5, <1>6

LEMMA NextRInv == RInv /\ [ReportNext]_allVars => RInv'
  <1> SUFFICES ASSUME RInv, [ReportNext]_allVars PROVE RInv' OBVIOUS
  <1>1. CASE UNCHANGED allVars
    <2>1. IInv' BY <1>1, NextIInv DEF allVars, RInv
    <2> QED BY <2>1, <1>1
            DEF allVars, vars, reportVars, RInv, PlaceOK, Uncut, Exported,
                NothingCanceledReported
  <1>2. CASE Proceed
    BY <1>2, CallKeeps, PoolKeeps, ReturnKeeps, RequestKeeps DEF Proceed
  <1>3. CASE ScanTick \/ SyncTick \/ Reregister \/ Stop BY <1>3, CallKeeps, RequestKeeps
  <1>4. CASE Signal \/ HandleLate \/ \E t \in Targets : Serve(t)
    BY <1>4, WorldKeeps, RequestKeeps
  <1> QED BY <1>1, <1>2, <1>3, <1>4 DEF ReportNext

LEMMA AlwaysRInv == ReportSpec => []RInv
  BY InitRInv, NextRInv, PTL DEF ReportSpec

\* Every variable keeps its type, and a scan is under way exactly while the
\* agent's goroutine is in ScanAll.
THEOREM ReportTypeCorrect == ReportSpec => []ReportTypeOK
  <1>1. RInv => ReportTypeOK BY DEF RInv, IInv, PlaceOK, ReportTypeOK
  <1> QED BY <1>1, AlwaysRInv, PTL

\* A scan that the signal cut short is never reported.
THEOREM CutScansUnreported == ReportSpec => []NothingCanceledReported
  <1>1. RInv => NothingCanceledReported BY DEF RInv
  <1> QED BY <1>1, AlwaysRInv, PTL

\* A step that changes what the API holds is the request of the last scan, whose
\* certificates the gauges have.
LEMMA MetricsFirstStep ==
  RInv /\ [ReportNext]_allVars =>
    [\A t \in Targets :
       /\ view'[t] # view[t] /\ view'[t] \in Certificates
       /\ late' = late
       => gauges[t] = view'[t]]_allVars
  <1> SUFFICES ASSUME RInv, ReportNext,
                      NEW t \in Targets, view'[t] # view[t], view'[t] \in Certificates,
                      late' = late
               PROVE  gauges[t] = view'[t]
    OBVIOUS
  <1>1. CASE PostHandled
    BY <1>1 DEF PostHandled, Request, RInv, Exported
  <1>2. CASE HandleLate BY <1>2 DEF HandleLate
  <1>3. CASE ~PostHandled /\ ~HandleLate
    <2>1. view' = view
      BY <1>3
      DEF ReportNext, Proceed, FirstScan, Scanning, ScanReturns, Send, PostReturns,
          PostFails, PostAbandoned, Dial, ScanTick, SyncTick, Reregister, ScanAndSync,
          Stop, Signal, Serve, reportVars
    <2> QED BY <2>1
  <1> QED BY <1>1, <1>2, <1>3

\* The metrics never learn of a renewal after the API.
THEOREM MetricsComeFirst == ReportSpec => MetricsFirst
  BY MetricsFirstStep, AlwaysRInv, PTL DEF ReportSpec, MetricsFirst

\* The bound on connections and the end of all writes hold in the agent: its steps
\* are those of ScanPool.
THEOREM AgentScans == ReportSpec => Spec
  <1>1. ReportInit => Init BY DEF ReportInit
  <1> QED BY <1>1, StepScans, PTL DEF ReportSpec, Spec

\* So the agent never has more connections than tokens, never reads the results
\* while a goroutine writes them, and gets of each scan what Scanner promises.
THEOREM AgentScansSafely ==
  ReportSpec => []ConnectionsBounded /\ []NoLateWrites /\ Scanner!Safety
  BY AgentScans, ConnectionsAreBounded, NoWritesAreLate, ImplementsScanner, PTL

=============================================================================
