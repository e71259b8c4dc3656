# GWatch: a TLA+ model of its alerting

GWatch watches a server: it collects host, Redis and HTTP metrics, decides which of them are
alarming, and tells people through DingTalk, once per problem, with a recovery message when the
problem is over. This directory models how it collects and
judges, what it stores, and whom it tells what and when.

## 1. Inventory

Paths are under `src/internal` unless they start with `src`.

| Part | State it keeps | Operations | What makes it correct |
|---|---|---|---|
| Alert policy (`infra/monitoring/stateful_policy*.go`), one instance for base metrics, one for HTTP | `lastAlertTimes`, `recoveryStartTimes`, a mutex; the events themselves are in Redis | `Apply`, `PeekApply` | an alert after `duration_required` of abnormal readings, once per `alert_interval`; a recovery after an alert, after `recovery_duration_required` of normal readings, and final; one event per problem |
| Coordinator (`app/usecase/monitoring/coordinator.go`, `metrics_*.go`) | `latestBase`, `latestHTTP` | two ticker cycles, cross collection, shutdown | what a policy decides to notify is notified, once; shutdown leaves nothing behind |
| Alert state storage (`infra/monitoring/alert_state_storage.go`) | a Redis client, states with a TTL, three indexes | get, set, delete, find by type and by process, `Close` | a state and its indexes agree; concurrent calls survive a reconnect |
| Disk usage enricher (`disk_usage_enricher.go`) | none; a goroutine per new disk event | scan, then read and write the state | never undoes what the policy wrote |
| Evaluator and thresholds (`simple_evaluator.go`, `threshold_config.go`, `recovery_checker.go`) | none | metrics to decisions, value to level | levels are exclusive and agree with the recovery check |
| Security monitor (`app/usecase/security_monitoring`) | `active`, `logicalEventIDs` | certificate loop, `emitAlert`, restore | one notification per problem, also after a restart |
| Scheduled push (`app/usecase/scheduled_push`, `scheduler`) | the time of the last push; client data in Redis | client upload, server aggregation | each due time pushed once; no upload lost before a report or repeated after |
| Disk scanner (`infra/filesystem`) | the memory flag of a shared monitor | recursive scan with limits | results are leaves; a scan cut by its deadline says so |
| Collectors (`infra/collector`) | last counters and times | rates, HTTP check, Redis clients | no byte is counted twice, a fault is seen as one |
| Application (`src/cmd`) | `stopCh` | start, signal, cleanup | the storage is closed after its last user |

How they interact. `App.Start` starts the schedulers and runs the coordinator. A cycle collects,
evaluates and calls a policy; the policy reads and writes Redis through the storage that both
policies, the enricher and the security monitor share; its results go to the notifier. Policies
serialise their calls by `p.mu`, the coordinator guards the latest metrics by `c.mu`, and Redis is
the only state that survives a crash. The push servers and clients meet in Redis only.

Hard behaviours: two cycles and two policies interleave with a shared storage; `PeekApply` is meant
to have no effects; times are read before a lock; states survive crashes and maps do not; every
Redis call may fail and most errors are ignored; states expire on their own. `PROJECT.json` lists
them, with their lines, under "hazards".

## 2. Modules

| Module | What it is |
|---|---|
| `AlertLifecycle` | abstract: what a policy promises about the notifications of an event |
| `AlertPolicy` | one alert type of the policy with Redis, time, crashes and failures; implements `AlertLifecycle` |
| `AlertPolicyProofs` | the proofs about it: for every configuration with failing Redis calls, then while none fails |
| `Coordinator` | both cycles and both policies; a policy call is a step of `AlertLifecycle` |
| `CoordinatorProofs` | the proofs about it |
| `AlertStateStorage` | the storage command by command, under the policy, disk scans, readers and shutdown |
| `AlertStateStorageProofs` | the proofs about it |
| `Evaluator` | pure: metrics to decisions, a decision to a judgement |
| `HostCollector` | the counters and rates of the host collector, and the kernel |
| `Metrics` | a cycle from collection to judgement: `HostCollector` and `Evaluator` |
| `MetricsProofs` | the proofs about `Metrics`, `HostCollector` and `Evaluator` |
| `HTTPCycle` | `Evaluator` on all interfaces, its decisions applied to the one event of `AlertPolicy` |
| `HTTPCycleProofs` | the policy's promises in the HTTP cycle, and why an outage may stay silent |
| `SecurityMonitor` | the certificate checks and their alerts |
| `SecurityMonitorProofs` | the proofs about it |
| `ScheduledPush` | schedulers, clients, server and what they keep in Redis |
| `ScheduledPushProofs` | the proofs about it |
| `DiskScanner` | the search for what fills a disk, its limits and the shared monitor |
| `DiskScannerProofs` | the proofs about it |
| `MC...` | the values and symmetries of a module for TLC |

### AlertPolicy

A step is one `processDecision` under `p.mu` (`ReadNormal`, `ReadHigh`, `ReadUnjudged`,
`ReadError`), the passage of time (`Tick`), a `Crash` or a `Start`. `store` is Redis: the state of
each event id; the indexes by type and by process are the states themselves here, and an index
lookup answers any of the ids the code might find first. `lastAlert`, `lastRecovery` and `recStart`
are the two maps of the policy, the first split by the suffix of its keys.

- Time. A time is kept as its age, which stops growing at `Cap`; the code only compares ages with
  durations, so nothing can tell ages beyond the longest duration apart, and the model has no bound
  on how long it runs. `Apply` reads `now` before it waits for the lock; a decision may therefore
  be up to `MaxLag` late (`lag`).
- Event ids are random; the model uses an id again once no state has it, and then clears what the
  maps hold for it, since no code path looks up an id that left the store.
- Peek. `PeekApply` differs from `Apply` only where a new state is saved before it is evaluated
  (`StartEvent`), as in the code.
- Failures. With `Faults`, a lookup may answer nothing and a write or delete may be lost.
- `reading`, `okAge`, `badAge`, `alerted` and `recovered` are history for the properties.

A reading is normal, high at a level, an HTTP collection error or a failed collection; `Evaluator`
says which. (The policy handles an HTTP collection error, though the collector the program is built
with never reports one.) Message text is left out.

### Coordinator

`pc[c]` is the place of a cycle between two points where another goroutine may come in. With two
classes of metrics, an event per class and no clock (an open event may become due at any call,
`IntervalPasses` ends a debounce), every interleaving of the cycles is explored. The failed
collection and Redis failures are in `AlertPolicy` only. `merged` keeps only what is still read.

### AlertStateStorage

What `AlertPolicy` does in one step, seen from Redis. `call[t]` is the storage call a goroutine is
in: waiting for `s.mu` (`Lock`), connecting (`Dial`, `Verify`), or at one of its commands. Only
`ensureConnected` and `Close` hold the mutex; the command after it takes `s.client` as it is then,
and a nil client ends the process (`Panic`). Above it are the policy for the type `DiskHigh`
(`job[Policy]`), the scans its enricher starts, which read a state and write it back, and readers.
`revived` and `overwritten` record what such a write undoes. Durations are left out (an event may be
due at any reading), as is the index by process, which no disk event has.

### Evaluator, HostCollector, Metrics, HTTPCycle

`Evaluator` follows a metric from `Evaluate` to the level. `HostCollector` has the counters the
kernel counts modulo a width (64 bit in the program), the readings kept as bases, and the choice of
the disk from the list of devices. `Metrics` lets both cycles collect in any order and judge what
they saw. `HTTPCycle` drives `AlertPolicy`'s handlers with the decisions of `Evaluator`, all in one
`Apply`, as the loop of `applyInternal` does: `todo` has the places of the interfaces it has not
come to.

### SecurityMonitor

`check[i]` is a goroutine of the certificate loop, between two points where another may come in: a
section under `s.mu`, a call of Redis, a fetch. `known` is `logicalEventIDs`, `active` the map of
that name, `redis` the stored states. Checks may overlap; `calm` records that they have not.

### ScheduledPush

`pending[n]` is a tick in the channel of the scheduler of process `n`; `Check` is
`executeScheduledPushIfNeeded`; `run[c]` the Run of a client, which blocks its scheduler; `job[t]`
the goroutine of the server for push time `t`, from its sleep to its last delete. Every call of
Redis and every Send is a step that may fail. `AllKeys`, `DataOf`, `Saved` and `Deleted` are the
calls of the repository. `told` and `again` record what reports had.

### DiskScanner

`scan[s].stack` is the recursion of `scanRecursively`; a step ends where the limits are asked, so a
deadline or memory may cut a scan at every place the code allows. The disk is a constant: its
entries, sizes, what is skipped and what cannot be read, and a tree: a path is in one directory, the
root in none, and no directory is below itself (links are entries, not followed). Entries of equal size may be taken
in any order, since `sort.Slice` promises none. `MaxFiles` is the limit of 1000 entries
`scanCurrentLevel` looks at in one directory: `Visible` has the first of them in the order of names,
skipped ones not counted, and the rest is left out without a report. `exceeded`, `stopped` and
`watching` are the monitor all scans share; `short` records the scans that ran while `exceeded` was set. `Complete` says of a set of results, without reference to steps, that it is what a
search without limits of time and memory may find; of a directory with more than `MaxFiles` entries that
is a search of the first of them (`In`).

## 3. Runs

| Run | Question | Instance and why it is enough |
|---|---|---|
| `policy_plain` | durations, debounce, recovery, crashes and TTL, for a type found by type; is a lasting problem alerted, an alerted one recovered | two ids (one open, one to come), `Dur` 2, `Interval` 3, `RecDur` 2, a lag of 1 and a gap of 1 between readings: every comparison is met on both sides, and each wait is interrupted by every other event; TTL 7, so that recoveries fit and can also come too late |
| `policy_process` | the same life cycle for CPU and memory events, found by process name | two PIDs with two names, an immediate and a debounced level, two ids: several open events, and a hot process that holds a recovery back |
| `policy_faults` | which promises survive failing Redis calls | one process, two ids, every call may fail |
| `policy_recovery_timer` | violation: `recovery_duration_required` with several process events | as `policy_process` |
| `http_cycle` | violation: is an interface that stays down alerted | two interfaces that need an alert, one event at a time; with one interface the property holds |
| `coordinator` | interleavings of the cycles, shutdown | the whole system: it has no parameters |
| `coordinator_peek` | violation: is an event marked as sent notified? | the same |
| `alert_state_storage` | the storage under concurrent calls | the policy and one other goroutine (a scan or a reader), two ids, one outage or restart: a second event while a scan works on the first, a reconnect between the check and the command of the other. The reader gets all states, the longest call |
| `metrics` | is every fault alerted, and nothing else; rates | four configurations (all on; levels out of order, a type off and one without thresholds, Redis and HTTP off; host and application off; the client count and one interface off and a list of codes without 200), readings in which one metric at a time is wrong or cannot be collected; counters modulo 2, so that they turn between any two readings, restart once, and change device, three readings apart |
| `security_monitor` | once per problem, stored, never silent | one domain, since domains share only the order of the loop; two checks that overlap, a minute that passes, one crash or failing call |
| `scheduled_push` | no push time missed or repeated, no upload lost or repeated | two clients and the server, one client on its host; two push times on two days, one crash or failing call; a tick every 2 of the 4 seconds of a minute, at every phase of the server, and a TTL that outlives the next report |
| `disk_scanner` | cuts by time and memory, sharing | a disk of three levels with a directory of each kind and two files of one size of which one is taken, a directory with more than `MaxFiles` (3) entries whose last is the largest, two scans, `MaxDepth` 2, deadline and memory at any step |

What they show. With one event per type the policy keeps its durations (up to the wait for the
lock), its recoveries are final and it implements `AlertLifecycle`; across crashes it never recovers
what it did not alert, not even when Redis calls fail. The cycles never alert an event twice within
an interval, and shutdown waits for them. While Redis answers, what the policy stores is found
again and no command meets a nil client. Uploads survive until they are reported or expire. A scan
that is cut still has leaves only.

Three runs show disagreements with the documentation:

1. `coordinator_peek`. `PeekApply` is documented to update nothing, but it does everything `Apply`
   does. With HTTP monitoring on, each due alert is found by `wouldTrigger`, recorded as sent in
   Redis and in the debounce map, and thrown away; the `Apply` that follows is debounced. The event
   is never notified by the cycle that found it. `HandedWithoutHTTP` shows that it is notified when
   HTTP monitoring is off.
2. `policy_recovery_timer`. A high reading stops the recovery timer of one event, that of the process
   on top. With two events of the type open, the timer of the other runs on, and the event is
   recovered at the first normal reading, whatever the time since the high one.
3. `http_cycle`. All interfaces share one event. With `duration_required` above the time between two
   cycles, a healthy interface deletes the event of the failing one in every cycle before it is due.

Where a property has an exception, the code does what is excepted:

- Disk events (`NoSilentDrop`, `OneOpenEvent`). A scan takes seconds; it may write back a state
  without `AlertSent` after the alert, and then a restarted policy drops the event without a
  recovery, or write back a state that was deleted, and the event lives again.
- Connections (`NoNilClient`). After an outage a call may have passed `ensureConnected` when another
  one's failed reconnect sets the client to nil; and a scan may meet the nil client of `Close`.
- Certificates (`AnnouncedOnce`, `LastingErrorAnnounced`). Overlapping checks may both find an alert
  not active; after a restart a problem gets a new id (its minute is part of it) and is announced
  again, although the old id was restored; a crash between the write and the notification leaves an
  alert nobody saw.
- Disk scans (`ScanIsComplete`). The monitor stops for good with the first scan. If it had seen too
  much memory by then, every later scan is cut at once and returns the fallback, without a report:
  `ScanIsComplete` excepts the scans that ran while `memoryExceeded` was set. A directory with more
  than 1000 entries that are not skipped is cut as silently; what is among the rest may be the
  largest, and `ScanIsComplete` is about the first 1000. A large directory
  whose entries are all small is opened and leaves nothing.
- HTTP (`HealthyIsQuiet`). An allowed code is handed on as 200 and looked up again: a list of
  allowed codes without 200 alerts a healthy interface.
- Counters (`NetworkAddsUp`, `DiskNotTwice`). A whole turn of a counter between two readings is seen
  by nobody, so `NetworkAddsUp` asks for the bytes received up to turns, and for no more than them. After a reset the unsigned difference is almost the
  whole range; the code's check for a negative one comes too late to see it.

Seen while modelling, and not the subject of a run: error alerts (a failed collection) look up the
debounce of an id made for this very call, so they are notified at each reading; the key of an
upload has no title, so two clients on one host that upload in the same second overwrite each other;
the HTTP cycle's own reading of the host moves the bases of the base cycle's rates; the first CPU
reading is 0 and counts as recovered; `redis_collector` leaves a client open at each failed ping.

## 4. Fairness

`AlertPolicy`: time passes, the tickers keep producing readings (`WF(Tick)`, `WF(Read)`), and a
service manager starts the process again (`WF(Start)`); a live process reads within `MaxGap`,
which is the guard of `Tick`. Crashes are not fair. `HTTPCycle` assumes the same of its cycle.
`Coordinator`: collections and calls return, since they have timeouts (`WF(Work)`), `wg.Wait`
returns (`WF(Return)`), and Go's `select` picks among ready cases at random, so that it does not
pass over a closed `stopCh` forever (`SF(Quit)`). Nothing makes a signal come. `SecurityMonitor`:
fetches and Redis calls have timeouts (`WF(Work(i))`), the ticker starts a check when one can run,
and the process is started again. The other modules state safety only: `ScheduledPush` has real time
instead, as the guard `Prompt` of `Tick` (a check runs at once, a Run takes at most `MaxRun`).

## 5. Proofs

A theorem holds for all values of the constants that satisfy the named assumptions of its module,
which TLC evaluates in every run. `TypeCorrect` of each module, `Spec => []TypeOK`, is not repeated
below. The other invariants are proved from inductive ones, named here with what they add.

`AlertPolicyProofs` (`PolicyConstants`: durations are positive, and
`Cap` exceeds them; `None` is no value):

- `RecoveryIsAfterAlert`, with failing calls too. The recovery flow does not look at what was alerted but
  at evidence of it: the sent flag in Redis or an entry in the map. `AlertInv` adds
  `NotifiedWasAlerted`: whatever open event has evidence was alerted. Writes that get lost, crashes
  that empty the map and reused ids only remove evidence, and `EvaluateEvidence` says that
  evaluation adds it only when it returns the alert.
- `OneEventHolds`. The property speaks of runs without `Faults`. `CalmInv` says that no other event
  is open for the problem of an open one (`OnePerKey`), that what memory knows as alerted is marked
  in Redis (`EvidenceIsStored`, so that a crash loses nothing), and that a recovered event is closed.
- `LifecycleIsImplemented`, under `~Faults`: the initial states map to one of `AlertLifecycle`, and
  every step of the policy to one of its steps or to a stutter. `RecoveryEndsEvent`: nothing is
  returned for a recovered event. Both fail with `Faults`: a delete that is lost leaves the event,
  which is then recovered or alerted again.
- `AlertNeedsDuration` and `RecoveryNeedsDuration`, under `~Faults` and `~ByProcess`, with the lag
  `MaxLag`. `YoungerThanOk` bounds the age of an event nobody was told of by the time since the last
  normal reading, `TimerSinceBad` a recovery timer by the time since the last abnormal one. For
  events by process the second is false: that is the run `policy_recovery_timer`.

`HTTPCycleProofs` (`HTTPPolicy`: the policy is the one for HTTPErr, and has the level p2):

- `CycleStepIsPolicyStep`: a step of the cycle is one of `AlertPolicy`, or reads the interfaces, which
  changes nothing its invariants speak of (`OpensKeeps`). So the theorems hold of the cycle:
  `CycleRecoveryAfterAlert`, and `CycleAlertNeedsDuration`, where the last normal reading is that of
  any interface.
- `HealthyInterfaceSilences`, the general form of what the run `http_cycle` shows: while the process
  stays up and no Redis call fails, an outage of interfaces that lie on one side of a healthy one in
  the configuration, if that one needs an alert too, is never alerted; an outage of one interface is a
  case of it. `Shadows` and `Well` are those conditions. `SilentInv` follows a cycle: where a failing
  interface is decided on, the event is of this cycle, since the healthy one has dropped the one of
  the last cycle or drops this one before time passes. With failing interfaces on both sides it is
  false: the one before the healthy one finds the event that the one behind left.

`CoordinatorProofs` (no constants): `AlertedOncePerInterval`, `SentIsHandedWithoutHTTP`,
`ReturnsClean`. `Inv` says which cycles hold results they have not notified yet (`CyclesInv`), that
a cycle seen to finish stays finished (`ReturnedInv`), that whoever alerted an event recorded it in
the map of its policy (`IntervalInv`), and where an alert is on its way to the notifier when HTTP
monitoring is off (`HandedInv`; with it on, the statement is what `coordinator_peek` violates).

`MetricsProofs` (`HostConstants`: any modulus, any lists of devices; `ConfigsAreConfigurations` and
`ReadingsAreReadings` fix the shape of configurations and readings, not their number or values; the
configuration without thresholds for clients is in the theorems only, no run has it):

- `NetworkRatesAddUp`, `DiskRatesAddUp`, while no counter was reset. `RateInv`: before there is a
  base nothing was told; what the network's base lacks and what was told make up what the kernel
  counted since the first reading: no more than it, and the same modulo the width, whose arithmetic
  the first lemmas of the module settle. For the disk, whose device may change, no more than it.
- `FaultsAreAlerted`, `HealthIsQuiet`. These do not follow from steps but from the judgement itself, case by
  case over the types of metrics: levels out of order, absent or equal thresholds and any list of
  codes included. The first asks for an alert of each fault, a network or Redis that cannot be read
  included; the second asks each alert for its own fault and for every switch above it.

`AlertStateStorageProofs` (`StorageConstants`, `NoneAndFailedAreNoStates`; any number of scans,
readers, ids and outages):

- `ClientIsThere`: without an outage and before `Close`, a client that answered once is not replaced
  (`LinkInv`), and only the holder of the mutex changes it (`MutexInv`).
- `StoredIsFound`: `StoredInv` follows the two commands of a write and those of a delete; no
  goroutine but the policy deletes.
- `AlertsAreRemembered`: `SentInv` says that the policy never holds a state older than what is on
  record, unless a scan wrote over it, at every command between its lookup and its write.
- `OneAtATime`: `OneInv`, the longest argument. What a lookup may still find is one event at most,
  also after the writes under way (`AtMostOne`), a lookup in any of its commands will find it
  (`LookupFinds`), and the policy works on no other (`WorksOnIt`).

`SecurityMonitorProofs` (`SecurityConstants`, `NoneIsNoEvent`; any number of domains and checks):

- `ActiveStored`. With the types it is inductive: the step after the mark is the write of the same
  check, and a failing write takes the mark back.
- `AnnouncedOnceHolds`. The property says nothing of why a second check stays silent; `OnceInv`
  does: as long as a process is calm, one check runs at a time (`OneRuns`), and what was announced
  has a known id that is active (`AnnouncedIsActive`), so the next check stops at `AskMemory`
  whatever Redis has forgotten. `Progress` says what a check has found out so far, `KnownIsOwn` that
  the ids of two problems never mix.
- `NothingSilencedUnheard`, the safety half of `LastingErrorAnnounced` and of the expiring
  certificates too, calm or not. Which problems were announced by any process is told by a history
  variable (`told`, in `ToldSpec`): `announced` is of one process. Inductive with a bound on Redis
  that is stricter than the one on memory (`StoredWasTold`): what is stored has only its notification
  left, which is why a crash loses no more than the checks at that step, and why a start may trust
  what it restores.

`ScheduledPushProofs` (`PushConstants`: a Run and a period of the ticker fit into a minute, the delay
outlasts them, the TTL outlasts the delay and both, and a job ends before the next of its time. In
the code a tick is every 10 s, the TTL is 300 s and the delay 60 s unless it is configured;
`config_example.yml`, which advises 30 to 60 s, and the repository's README have 30 s, which is
enough for Runs of up to 15 s):

- `PushedOncePerTime`, for any phase of the tickers, through crashes. `PushedInv`: a process that
  has its push to do and whose ticker fired has a tick pending (`TickInv`) and checks before the
  minute is over (`DueInv`), also when the Run of the minute before keeps its scheduler (`RunInv`);
  `lastReported` has this minute exactly if it pushed (`LastInv`).
- `UploadsAreKept`, an action property, with one client per host (`OneClientPerHost`): what a job is
  about to delete was told, or replaced by something newer (`DeletedWasTold`). Two clients of one
  host may use the same key.
- `ReportsAreComplete`, with one client per host, notification switched on and `Roomy`, that is
  `Delay >= 2 * MaxRun` and `TTL >= Delay + Minute + MaxRun`, which 30 s of delay satisfy for Runs of up
  to 15 s. `ServedInv`
  follows the upload of a minute from the check of its client to the report. Both bounds are needed,
  by counterexamples of TLC: a client that restarts at the end of a minute may begin its Run after
  another one (`Period` 1, `Minute` 5, `MaxRun` 3, `Delay` 4), and a server that restarts late in a
  minute reads late (`TTL` 8 with `Delay` 4, `Minute` 4, `MaxRun` 1; 9 is enough).
- `ReportedAtMostOnce`, with any clients, while nothing fails or crashes. Two jobs never overlap
  (`JobInv`), the uploads of a client only get newer (`OrderInv`), and `FreshInv` says, for each step
  of a job from the listing of the keys to the last delete, what Redis and the job may have: what is
  left is newer than what was told, or is about to be deleted.

`DiskScannerProofs` (`ScannerConstants`, and `DiskIsTree`: a path is in one directory, the root in
none, no directory is below itself; any finite disk, any number of scans):

- `ResultsStayLeaves`. Results are merged upwards from directories that are looked at one after the
  other, and any of them may be cut. `FrameOK` says of each frame of the recursion that what it has
  found and what it has still ahead, the directory that is open included, share nothing below them
  either (`Apart`); `StackOK` that a frame is for the directory open in the frame below. The lemmas
  about trees (`ParentIsBelow`, `EntriesApart`) show that two entries of a directory are apart; they
  hold for every disk, since `Below` is defined as a least closed set and not by recursion.
- `WholeScans`, with the silent cut of wide directories (`MaxFiles`) as part of what is searched, and
  for scans that did not run while `memoryExceeded` was set. The recursion is a stack here, so
  nothing is proved about a recursive definition:
  `Complete` asks for a set of opened directories that, with the results, is right at each of them
  (`Searched`), and `WholeInv` says that such a set exists at every step of a scan. `FrameGoes` is
  `Searched` of a directory whose loop is under way, with what is `Ahead` left out; `StackGoes` that
  every opened directory is searched or in the stack; the step to or from a directory changes what
  is known of that directory and its parent alone (`FrameKeeps`, `SearchedKeeps`), which needs that
  the depth of a frame is the level of its directory on the disk (`Levels`). A scan whose deadline
  passes while a directory is listed is not whole, but it is `Cut`: it finds nothing more, and the
  next question for the limits reports it or there are no results. Neither half is
  inductive alone.
- `MonitorClosedOnce`: the channel was closed once if `stopped`, and not before.

Only model-checked: liveness (`HighIsAlerted`, `AlertedIsRecovered`, `StopReturns`,
`LastingErrorAnnounced`) and ENABLED, which are out of the prover's reach. What `coordinator_peek`
and `policy_recovery_timer` show violated has no theorem. Nothing is claimed of the durations of events by process but what `policy_recovery_timer`
shows, nor, beyond `RecoveryIsAfterAlert`, of the policy while Redis calls fail.

## 6. Plan

The modules of the plan are written, and every invariant a passing run checks has a theorem. What
could come next:

1. The first alert of an event by process: what `AlertAfterContinuousHigh` becomes when the readings
   are those of the process of the event.
2. Both cycles with the HTTP policy: the peeks of the other cycle between the decisions of
   `HTTPCycle`, which `Coordinator` has on abstract policies.

## 7. Not modelled

Loggers, formatters, log files and the DingTalk client (text and files; whether a message is
delivered does not influence the program), configuration parsing and entities (their values are the
constants), Redis and the operating system (external: a state may expire, a call may fail, the
process may stop). `NotifyWithAlertTypes`, `AddOrUpdateProcess`, `RemoveProcess`,
`CleanupExpiredEvents`, `GetEventLifecycleInfo`, `recoverIfActive` and `deleteActive` have no
caller. Size estimates of directories are a constant of `DiskScanner`, and of the statistics of a
scan only the timeout is kept, since nothing else steers it.
