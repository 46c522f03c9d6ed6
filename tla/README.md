# A verification of cw-agent

TLA+ models of the two programs of this repository, `cw-agent` (scans TLS
endpoints and reports them to the CertWatch API) and `cw-agent-certmanager`
(watches cert-manager resources in a Kubernetes cluster and reports those),
model-checked with TLC on small instances and, where it is possible, proved with
TLAPS for every value of the constants.

## 1. The system

| component | source | state | operations |
|---|---|---|---|
| agent lifecycle | `internal/cmd/start.go`, `internal/agent/agent.go` | what the one main goroutine is doing, the context, readiness | `start`, `start --reset-agent`, scan, sync and heartbeat tick, re-registration after a 404, signal |
| state file | `internal/state/state.go` | identifier, name and previous identifier, in memory and on disk | `Load`, `Save`, setters, `HasNameChanged`, `HasState` |
| sync client | `internal/sync/client.go` | none of its own: the state manager | `Sync`, `Heartbeat`, `SyncCertManager{Certificates,Requests,Events}` |
| event path | `internal/certmanager/controller/event.go`, `internal/certmanager/agent.go` | event buffer, `immediateSyncPending`, goroutines | `Reconcile`, `scheduleImmediateEventSync`, `doImmediateEventSync`, `doEventSync` |
| certificate and request reconcilers | `internal/certmanager/controller/{certificate,request}.go` | one map each, metric series | `Reconcile`, `GetCertificates`, `GetRequests` |
| cert-manager loops | `internal/certmanager/agent.go` | two goroutines that share the state manager | `syncLoop`, `heartbeatLoop` |
| controller process | `cmd/cw-agent-certmanager/main.go` | the loaded state, the signal context | start, end |
| scanner | `internal/scanner/scanner.go` | a semaphore and a wait group per `ScanAll` | `ScanAll`, `Scan`, `parseChain` |
| agent's report | `internal/agent/agent.go`, `internal/metrics/metrics.go` | `lastScan`, the gauges of each certificate | `scan`, `scanAndSync`, `buildSyncRequest`, `syncWithCloud` |
| health server | `internal/server/health.go` | ready flag, times of the last scan and sync | `/healthz`, `/readyz`, `/livez` |
| configuration | `internal/config/config.go`, `internal/cmd/root.go` | the file | `initConfig`, `Load`, `Validate` |
| init wizard | `internal/cmd/initcmd` | `WizardState`, the file | the forms, `RunNonInteractive`, `ToConfig`, `WriteConfig` |
| other commands, terminal output, charts | `internal/cmd`, `internal/ui`, `charts` | none shared | |

How they interact. `start` loads the state file into the manager, decides whether
the configured name may use it, and calls `Agent.Run`, whose single goroutine
scans, syncs and sends heartbeats in turn and writes the state file after each
answer that names an identifier. A scan starts one goroutine per target and waits
for them. The HTTP server reads flags and times the main goroutine records, and a
liveness probe ends the process when they are too old. `init` writes the file that
`validate` and `start` read, in another process and at another time. In
`cw-agent-certmanager` the controller-runtime manager runs one worker per
reconciler; `syncLoop`, `heartbeatLoop` and the goroutines the failure callbacks
start run beside them and share the maps, the event buffer and the state manager
under locks held for one access each. A signal ends the process without waiting
for them.

What is hard, and what makes each part correct:

* identity: renames, resets, lost answers, failed or torn saves and crashes in
  any order must not make an agent present an identifier of another name, nor
  lose one before the API was told that it is being replaced;
* re-registration: an agent the API has deleted must register again;
* shutdown: a signal is seen only in the select, and must be seen in the end;
* the debounce: a trigger absorbed by a pending sync relies on that sync to read
  the buffer later, and the buffer has three readers on different goroutines;
* requests fail, time out and are handled late, and some are not repeated;
* the maps: an object may change while it is reconciled, and the old status must
  not outlive the change;
* two goroutines of the controller use an identity that is set in two steps and
  saved in a third;
* the scan: tokens and the wait group are all that bounds the connections and
  keeps the results from being read half written;
* the report: what was scanned is joined to the configuration by host and port
  when it is sent; a signal may end a scan half way, a request may fail, or arrive
  after a newer one, and neither the metrics nor the API may keep what is no
  longer true;
* the configuration file: it is written in place, a command takes what it can read
  of it, and what is missing becomes a default; the two ways to fill in a form do
  not check the same things;
* the pace: one goroutine serves three tickers, and a probe ends it when scans
  are too far apart;
* days, windows and chains: rounding and boundaries.

`PROJECT.json` lists every hazard at its line with the properties that cover it.

## 2. Modules

```
StateFile <- CertWatchAPI <- AgentLifecycle <- AgentLifecycle_proofs
                          <- ControllerIdentity <- ControllerIdentity_proofs
EventDelivery <-(INSTANCE)- EventSync <- EventSync_proofs
Reconciler <- CertificateReconciler, SyncLoop <- CertSync
Reconciler <- SyncLoop <- RequestSync
CertSync, RequestSync <- SyncLoop_proofs
Scanner <-(INSTANCE)- ScanPool <- AgentReport <- AgentReport_proofs
Configuration <- Wizard <- Wizard_proofs
Health <- Health_proofs
ChainReport <- ChainReport_proofs
```

`A <- B`: B extends A. Each `MC` module extends one module for TLC; the
configuration files give the constants their values.

**StateFile** has the persisted record and the pure operations on it. `Torn` is a
file that `os.WriteFile` has truncated and not yet written.

**CertWatchAPI** is external: what the client relies on. The API issues
identifiers, remembers the name each was issued to, and answers 404 to the
heartbeat of an identifier it has deleted. A sync that presents a deleted
identifier may be answered with a new one, or with one of the same name.

**AgentLifecycle** is the main goroutine of `cw-agent`. `pc` is where it is
(before a request, with an answer under way, before or inside a save, in the
select) and `task` is why, which decides how it goes on. The guards of the three
`Start` actions are the branches of `runStart`. `Save` has two steps, since the
truncation and the write can be separated by a crash, and two ways to fail. A 2xx
answer without success (`SyncDeclined`) is no error, as in the code. `presented`
(in the API) and `gap` are history variables.

**EventDelivery** is what the event path promises for each event. **EventSync** is
the event path. `Events` are occurrences (an update of an Event is another
element); `age` replaces the clock by the two windows the code compares with,
five and thirty minutes, and by whether an event is nearer to the end of the five
minutes than the debounce takes ("closing"). An event may leave its five minutes at
any moment, also while a goroutine sleeps before it reads the buffer, and is then
skipped. Only what was accepted while it was further from their end (`early`, a
history variable) outlasts the sleep; that is what EventDelivery promises a request.
Each failure event has its own goroutine (`sched`); `drain` are the goroutines of
failed requests.

**Reconciler** is what the two reconcilers have in common: the work queue, the Get
from the informer's store, the storing into the map and what follows it, each a
step of its own, with one worker. `Possible` bounds what each object may turn to.
**CertificateReconciler** adds the metric series of a certificate. Of a status they
show the issuer, which labels `certificate_ready`, and the end of the validity, which
the status may not have: `updateMetrics` then leaves the two expiry series as they
are, and a changed issuer adds a series beside the old one. **SyncLoop** is `syncLoop`
for one of the two maps, with the requests that fail, time out, or arrive after the
client has given them up; while the other map is posted it is idle here. **CertSync** composes these for certificates, where the
API replaces what it holds by what a request names; **RequestSync** for certificate
requests, where the API adds, with the callback of failed requests (`OnFailure`,
which starts the `doEventSync` of EventSync). A status is the set of what its
conditions and its failure time show (`Marks`); `IsFailed` and `IsDenied` are what
`extractStatus` makes of them.

**ControllerIdentity** is the identity of the controller: `syncLoop` obtains and
saves it in the three steps of the code, `heartbeatLoop` reads it, and `Exit` may
come between any two. There is no name check, no reset and no re-registration: after
a rename, `SyncTick` and `HeartbeatTick` present the identifier of the old name until
a sync is accepted, and `PairConfirmed` is about the pair in the file only.

**Scanner** is what `Agent.scan` relies on, **ScanPool** is `ScanAll`: one goroutine
per target, the channel of tokens, the wait group, and the slice of results that
becomes `lastScan`.

**AgentReport** composes ScanPool with the goroutine that calls it, up to the API:
the first `scanAndSync` and that of a heartbeat answered with 404 (`Reregister`), the
branches of the select, the gauges that `scan` sets,
the request that `buildSyncRequest` makes of `lastScan` and of the configuration,
and what becomes of it: handled, failed, or handled after the client has given it
up. `served` is what a dial of a target finds, and changes at any time. A target is
a host with a port; a request is what it says of each target. The process is
modelled from its start, with whatever the API holds of an earlier one, to its end.

**Configuration** is what the file of `cw-agent` says, what a command makes of it
and what `Validate` accepts. A file is a sequence of sections in the order
`generateYAML` writes them, the last of them the list of the certificates, and
`Beginnings` are the files that remain of one that was cut and that are no syntax
error: whole sections, or a list that is cut after a certificate or in the digits of
its port. `Loaded` is what viper and `Load` make of a file, with CW_API_KEY before its
key; `Loads` is false where CW_CERTIFICATES is set, which `AutomaticEnv` puts in the
place of the list. **Wizard** is one run of `init` with its
forms (`stage` is the form on the screen) or without (`ReadEnvironment`), with an
end at any point, and another program that makes a file at the path in the
meantime. Texts are abstracted to what is asked of them: a name is its length, a
key its length and whether it has the prefix, a number one of the values at the
boundaries of its range.

**Health** is the select loop in time: tickers that keep one tick, branches that
take up to their timeout, the age of the last recorded scan, and the probe that
asks `/livez`. `Room` is what the intervals must leave so that the probe never ends
a healthy agent: a scan that is ready waits for the request that runs, and then either
for one of each kind that is ready and for what becomes ready during that wait, or, as
the select chooses at random, for at most `Passes` others. `reachAge` (history) is the
time since a scan reached a target.

**ChainReport** is `parseCertificate` and `parseChain` with the gauges
`Agent.scan` sets. A certificate is its window, whether it is self-signed and
whether it is weakly signed; whether the leaf names the host belongs to the
target. The code takes the time once in each of the two functions; the module
takes it once.

Operators named `XFault` are `X` with a plausible bug. No specification uses one;
each property is shown to fail when a fault takes the place of the operator
(`PROJECT.json`, "mutants").

## 3. Runs

| run | what it checks | bounds |
|---|---|---|
| `lifecycle` | `IdentityBound`, `FileFollowsMemory`, `PredecessorKept` over every interleaving; `ReRegisters`, `StopsAfterSignal`, `BecomesReady` under `FairSpec` | 2 identifiers, 2 names: a rename and back, a deletion and the registration after it; any number of starts, resets, crashes |
| `events` | `DebounceExact`, `NoLostWakeup`, `NothingDroppedUntried`; EventSync implements EventDelivery, fairness included | 2 failure events (one absorbs the other), one drain, one restart, each event of any age at any time; ordinary events, which start no goroutine, are in the proofs only |
| `sync_certificates` | `CacheCurrent`, `SeriesCurrent`, `CertificatesConverge` | 2 certificates (the queue has one worker for both): one is issued by one issuer, waits without a date for another, or is deleted, time and again; the other waits once it is there; 1 late request, 1 restart |
| `sync_requests` | `FailuresAlerted`, `RequestsConverge` | 1 request in 4 states (pending, issued, denied, invalid), two of them failures, 1 late request, 1 restart |
| `controller_identity` | `PairConfirmed`, `FileFollowsMemory`, `Registers` | 2 identifiers, 2 names, any number of starts and deletions |
| `agent_report` | `ConnectionsBounded`, `NoLateWrites`, ScanPool implements Scanner; `NothingCanceledReported`, `MetricsFirst`, `ReportsConverge` | 2 ports of one host for 1 token; one serves either of 2 certificates, the other a certificate or a failure; 1 late request at a time; a signal at any time |
| `health_probe` | `SurvivesProbe`: an agent whose targets are all down and whose requests all time out is not ended by the probe | the default intervals, timeout, limit and the probe of the chart in units of 30 seconds, a scan of up to one unit, and a select that passes a scan over at most 17 times in a row (it chooses at random among two or three ready branches: 18 times are less likely than one in ten thousand); the largest number that leaves `Room`, which TLC evaluates as an assumption |
| `chain_exact` | `ChainValidExact`, `IssuesExact` | chains of 1 or 2 of 4 certificates, days of 2 parts, 3 days |
| `wizard` | `SuccessMeansAccepted`, `FormsSuffice`, `AcceptedIsChosen`, `ChangedAfterConsent` | 2 hosts, ports valid, missing and out of range; at most 2 certificates accepted and 3 entered; numbers at and beyond the ends of their ranges; CW_API_KEY and CW_CERTIFICATES set or not |
| `livez_reached` | violated: see section 4 | as `health_probe` |
| `certificates_deleted` | violated: see section 4 | as `sync_certificates`, no restart |
| `chain_valid` | violated: see section 4 | 1 certificate |

Each module has one type invariant, which the first run of the module checks too. The
bounds are the smallest in which each action happens and two of a kind can meet: two goroutines that compete
for the flag of the debounce or for a token, two keys in one queue, a rename; the
probe has the values of the default configuration. The proofs of section 5 lift most of the safety properties to all bounds.

Bounds in the modules: `DeleteAgent` leaves one identifier unissued; `Crashes` is a
set of tokens, one used up by each end of the process (in EventSync and SyncLoop);
one abandoned request at a time (`GiveUp` of SyncLoop, `PostAbandoned` of
AgentReport); one certificate more than is accepted (`CertificateForm`); `MaxTime` and `MaxChain` in
ChainReport; `Possible` in Reconciler (what an object may turn to; the proofs have it for
any); `Passes` in Health, where ages are capped one above their limit. Identifiers may run
out in ControllerIdentity, hence `CanRegister` in `Registers`. Everything else
ranges over finite sets. No run turns the deadlock check off.

Fairness.

* *AgentLifecycle*: the goroutine keeps running (`WF` of `Proceed`); the select of
  `Run` picks a ready case at random, so its branches have strong fairness; the
  API and the network do not fail for ever (`SF` of an accepted sync of an agent
  the API knows or that has no identifier, of its answer, and of the 404). Nothing
  is assumed of signals, crashes, deletions and saves.
* *EventSync*: every goroutine that can run does, and a request returns, since the
  client has a timeout; requests are never assumed to succeed. No fairness is
  assumed of the clock: `GrowOld` may come at any moment, but for an event that was
  accepted further from the end of its five minutes than the two seconds of the
  debounce and the steps around it take.
* *CertSync*, *RequestSync*: `syncLoop` keeps running (`WF`); the work queue is
  first in, first out, so that a queued key gets its turn however often another is
  queued (`SF` for each key); requests do not fail for ever (`SF` of `Handled` and of
  `RequestsHandled`).
* *ControllerIdentity*: as in AgentLifecycle, for two goroutines.
* *ScanPool* and *AgentReport*: goroutines run, and a dial and a request end (both
  have a timeout; `WF` of `Proceed`). Nothing is assumed of the order in which
  tokens are handed out. The select takes its ticks at random (`SF` of `ScanTick` and
  `SyncTick`) and requests do not fail for ever (`SF` of `PostHandled`). What a
  target serves, the signal and late requests are free.
* *Wizard* and *ChainReport* have no fairness: they end or stop anywhere.

## 4. Where the code and its comments part

Three runs show a violation.

* `certificates_deleted`: `removeCertificate` deletes the series with empty issuer
  labels, `updateMetrics` sets them with the issuer, so that the
  `certificate_ready` series of a deleted certificate stays
  (`controller/certificate.go:168`: "Clean up metrics for deleted certificate").
* `chain_valid`: the days until the expiry are rounded towards zero, so that a
  certificate is reported valid during the first day after its expiry
  (`agent.go:192`: "certificate is valid if it hasn't expired").
* `livez_reached`: `RecordScan` is called at the end of every scan (`agent.go:214`),
  so that an agent that reaches no target stays live. `docs/metrics.md:205` has
  `/livez` fail after "No successful scan in the last 10 minutes", and `health.go:29`
  calls the recorded time that of the last successful scan; `docs/metrics.md:170` and
  the comment at `health.go:93` say what the code does. `SurvivesProbe` is about the
  code's meaning: it asks whether the probe ends an agent for its pace.

Other places where the code does not do what a document or a comment says, or two
of its parts differ. The
modules follow the code; no property states what it does not do.

* `docs/metrics.md:202`: `/readyz` waits until the "First sync completes".
  `agent.go:96` marks the agent ready after a failed first sync too.
* `agent.go:98`: "Set agent info metric (after first sync we have agent_id)". After
  a failed first sync the label is `unknown`, and a later periodic sync does not
  change it.
* `state.go:2`: the file "allows agent_id to survive restarts". `Save` rewrites the
  file in place; a crash between truncation and write loses it (the exception of
  `PredecessorKept`). In the controller a signal is enough, since `Run` does not
  wait for `syncLoop` (`certmanager/agent.go:176`).
* `certmanager/agent.go:297`: "The periodic sync will clear them later". No periodic
  sync touches events; the buffer is emptied by a failed CertificateRequest or
  purged when a later event comes.
* `certmanager/agent.go:272`: "this event will be included" in the pending sync. A
  `doEventSync` may drain the buffer first, and lose the event when its request
  fails; and an event accepted at an age of 4:59 is outside the five minutes when the
  debounce is over, and is skipped (`event.go:185`).
* `controller/certificate.go:66`: the metrics are updated with each status. The
  `certificate_ready` series of an issuer the certificate no longer has stays beside
  the new one, and the expiry of a certificate whose status has lost its `NotAfter`
  stays the old one (`SeriesCurrent` says how far the series follow the map).
* `docs/cert-manager.md:7`: the controller "syncs their status". The deletion of the
  last certificate of a cluster is not reported, since nothing is posted of an
  empty map (`certmanager/agent.go:223`; the premise of `CertificatesConverge`).
* `docs/cert-manager.md:116`: heartbeats are for "Agent offline detection". A
  controller without certificates obtains no identifier and sends none (the
  premise `watched` of `Registers`).
* `certmanager/metrics/metrics.go:156`: "RequestDuration tracks time to issue a
  certificate". The time of issue is taken from the clock at each reconciliation,
  and every reconciliation of an issued request observes it again.
* `docs/docker.md:59`: the container runs from `CW_AGENT_NAME` and
  `CW_CERTIFICATES`, a list of `host:port`. `root.go:63` binds CW_API_KEY, and
  `AutomaticEnv` any name that viper asks for without a dot in it: CW_AGENT_NAME is
  not read, and CW_CERTIFICATES is a text where `Unmarshal` wants a list, so that
  `start` and `validate` refuse any file with certificates where it is set (`Loads`).
  `docs/cli-reference.md:32` sets it for one command only; where it stays set, the file
  that `init --non-interactive` has just made of it is refused
  (`SuccessMeansAccepted`). And `init` takes each item as a host with the port 443
  (`wizard.go:276`; `ReadEnvironment`).
* `forms.go:184` asks before a file that exists is replaced. The
  non-interactive mode replaces it without one (`ChangedAfterConsent` has the
  premise `forms`), and a file that appears during the forms is replaced without one.
* `cmd/cw-agent-certmanager/main.go:72` loads the state without the name check of
  `start`: under another name the controller presents the old identifier until its
  first accepted sync. No document says what a rename should do there.
* A metrics port that is not a number becomes 8080 without a word, while an interval
  that is none ends `init` (`Unconvertible` and `ToConfig`).

## 5. Proofs

Assumptions are those the modules state: the empty strings and special values are
none of the data, the failure events are events, the targets are finitely many,
the concurrency is positive.

**AgentLifecycle_proofs.** `IInv == TypeOK /\ BoundInv /\ FileFollowsMemory /\
KeptInv` is inductive. `IdentityBound` alone is not: it says nothing of the answer
under way, nor of what a torn file, or the memory a save is about to write, goes
back to. `BoundInv` adds `ReplyInv` (an answer under way carries an identifier
issued to the running name, and what was presented with the request),
`Offered` for memory and file (identifier and previous identifier were issued to
some name, and a previous identifier that stands beside an identifier has been
presented), and `PlaceInv` (what the stages of a save say of the file). `KeptInv`:
while a process runs that has read the file, the identifiers of the file the API
knows are in memory or were presented. `TypeCorrect`, `IdentityIsBound` and
`FileIsCurrent` are invariants, `PredecessorIsKept` is the action property.

**EventSync_proofs.** `IInv == TypeOK /\ Flow /\ DebounceExact /\ NoLostWakeup /\
NothingDroppedUntried`; `Flow` says where an event can be (only seen events are in
the buffer, only tried ones in a request, a callback is made for a seen event).
`ImplementsDelivery` shows that each step is one of EventDelivery or a stutter: an event
that has the promise and was not tried is in the buffer by `NothingDroppedUntried` and
ahead of a reader by `NoLostWakeup`, which is what `GrowOld` waits for. An event without
it may leave its five minutes during the debounce.

**SyncLoop_proofs.** Both compositions. First the certificate reconciler alone:
`IInv == CertTypeOK /\ GotCurrent /\ StoredCurrent /\ CacheCurrent /\ SeriesCurrent`.
`CacheCurrent` is not inductive: a key whose change came after the Get is saved by
its place in the queue, which `GotCurrent` states for what was got; `StoredCurrent`
says that what is about to be turned into series is what the map has. `SeriesCurrent`
is shown certificate by certificate (`Current`, `CurrentStep`): a step for another one
leaves its series alone, the update sets its issuer's series and the expiry it has, and
the removal takes all but one. Then the composition: each step of CertSync is a step of CertificateReconciler or leaves it
alone (`ImplementsReconciler`), which carries `CacheCurrent` and `SeriesCurrent` over
(`SyncKeepsCurrent`); the type invariant, with what it says of the request under way,
is `SyncTypeCorrect`. For requests the same two facts of the map
(`RequestMapIsCurrent`) and, on top of `StoredCurrent`, that a failure the map has is
alerted or is about to be (`FailuresAreAlerted`).

**ControllerIdentity_proofs.** `PairConfirmed` needs to know what is paired where:
`MemoryPaired` says that between the two steps that set the identity the name in
memory may be an older one, and only there; answers under way are bound as in
AgentLifecycle. With it `PairIsConfirmed` and `FileIsCurrent` follow.

**AgentReport_proofs.** The scan: `Counted` (the tokens are the connected goroutines,
the counter of the wait group the running ones) is what makes `ConnectionsBounded` and
`NoLateWrites` inductive; `Written` and `AllSpawned` are needed for
`ImplementsScanner`: when the counter is back at zero every target has an outcome.
The agent: the invariant of the scan, and two facts that bind the copies of a finding
to one another: where `lastScan` has a certificate the gauges have the same
(`Exported`), and a scan with a target that was given up stands in `lastScan` only
when the context is canceled, and never when its request is under way (`Uncut`).
`MetricsComeFirst` is the action property. `AgentScans` maps each step of AgentReport
to one of ScanPool, and so carries the three results over (`AgentScansSafely`).

**Health_proofs.** `SurvivesProbe` is a bound on the time between two scans, and the
proof a response-time analysis. `Age` is the time since the last scan, counted on
through the time for which the probe has failed. `First` is the agent before its first
scan is recorded, `InScan` bounds the age in a scan, `BeforeTick` while no scan is ready
(the age is bounded by what the ticker still has to go), and `AfterTick` while one
waits: then the rest of the wait has a *budget* (`Budget`): a time `d` that fits into the
bound, in which at most `a` syncs and `b` heartbeats come due, and in which the requests
that run, are ready or come due are over. Time and the branches that are taken use it
up together; that there is one when the scan's tick comes is the arithmetic of `Room`.
Where it is the select's luck that lets the scan in (`PassedWithin`), the budget is of
the times it may still be passed over (`Luck`).
`ProbeSurvived` has `Room` as
its hypothesis, for all intervals, timeouts, limits and values of `Passes`. `Room` is a
condition on the configuration and not a fact of the code: `Validate` does not ask for
it. It holds for a scan interval of 60 s, a sync interval of 300 s, a timeout of 30 s,
the limit of 600 s and the patience of the chart, whatever the select does, if
heartbeats are 60 s apart (a wait of 240 s, with one sync and four heartbeats). With the
default of 30 s a heartbeat may take as long as the next one takes to come due, so that
only the random choice of the select lets a scan in between: there `Room` holds for
`Passes` up to 17, the instance of `health_probe`.

**ChainReport_proofs.** `Lists(s, A)`: the sequence `s` has the elements of the set `A`,
each once. Every list that parseChain makes lists a set, appending lists of disjoint
sets lists their union (`AppendedLists`), and `FlattenSeq` does it for any number of
them (`FlattenLists`). `FlattenSeq` is a recursive function, so that this is an
induction over the length of the chain; it is done by the least length for which it
would fail (`Least`, from the well-foundedness of the order of numbers), once for the
existence of the function (`Buildable`) and once for what it lists. With
`ChainIssuesListed` the issues of the last scan list the defects of the chain, from
which `IssuesAreExact` and `ChainValidIsExact` follow.

**Wizard_proofs.** `IInv`: `Filled` says what the forms that are behind have let through,
form by form, `Refused` and `Consented` what the last two stages rest on. That the
forms leave `Validate` two reasons only is arithmetic on the conversion
(`ConvertedCertificates`, `FormsAreValid`). `WInv` adds what the environment can have
filled in (`FromEnvironment`) and that a file the wizard has touched is a beginning of
what it writes, of a configuration that was checked (`FileWritten`).
`SuccessIsAccepted` then is that `Loaded` undoes `YAML` (`ReadsBack`, section by section:
no port that was checked is zero, so none comes back as the default) and that the file
has a list, which `Loads` refuses exactly where CW_CERTIFICATES is set, and
`AcceptedIsWhatWasChosen` goes through the beginnings of a file (`BeginningsOf`): only
one that reaches into the certificates is accepted, and there only the last
certificate can differ (`AcceptedBeginning`). Texts range over the samples of the
module, the hosts, the number of certificates and the place of the cut over all.

Every invariant and every action property of the passing runs is stated by a theorem.
Only model-checked is liveness, which is outside the prover's reach:
`ReportsConverge`, `ReRegisters`, `StopsAfterSignal`, `BecomesReady`,
`CertificatesConverge`, `RequestsConverge`, `Registers`, and the fairness parts of
`Promise` and `IsScanner` (their safety parts are `ImplementsDelivery` and
`ImplementsScanner`).

## 6. Not modelled

The HTTP server that serves the handlers (library code), the classification of
failures by substrings, the counters among the metrics, the configuration of the
controller (range checks of single values), tags and notes of a configuration, the
search for the file and the flags of the commands, the terminal output and the
packaging; the wording of requests and answers; the client's timeouts but as
failures. The label of the agent_info series is left out, and so is the time of issue of
a certificate request. `PROJECT.json`, "components", has the reason for each. Five
hazards have no property there, each with the reason: four follow from the divergences
above, one from what any 404 means to the client.

## 7. Plan

Done: identity, events, certificates and requests, the scan and its report, the
probe, the chain, the configuration and its wizard, with proofs of every safety
property. What is left, in this order:

1. the composition of ControllerIdentity with CertSync (the identity is obtained by
   the request that carries the certificates) and of RequestSync with EventSync
   (`OnFailure` starts the drain); the second alone multiplies two runs that take
   minutes each, so it needs an abstraction of one of them, or a proof that does
   without a run;
2. the time of issue of a certificate request, which needs a clock there, and the
   classification of a failure by the order of its tests;
3. the probe where the intervals do not leave `Room`: with which probability the
   random choice of the select starves the scan is a question for another method.
