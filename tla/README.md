# Mahiron in TLA+

Mahiron is a tuner server for Japanese digital television: it shares a few
physical tuners between live viewers, recorders and its own background jobs
(service scans, EPG and logo gathering). This directory holds TLA+ modules that
model its concurrent parts, TLC configurations that check them on small
instances, and TLAPS proofs of the properties that matter most for every
instance.

Paths below are relative to the repository; `internal/...` means
`src/internal/...`.

## 1. Inventory

### Parts and how they interact

A request for a channel enters through the HTTP API (`internal/web/api`) and asks
the **stream manager** (`internal/stream`) for the session of that channel. A
session owns a **fan-out engine** (`stream/fanout`) which reads from a
**broadcast** (`stream/source`): one reception of one route, shared by every
channel that can be received on it. A broadcast owns a device it got from the
**tuner manager** (`internal/tuner`), which is either a local process or a
receiver behind an **agent** (`internal/agent`) on another machine. The **job
manager** (`internal/job`) runs the background work: the **service scan**, the
**EPG gatherer** under its **controller** (`job/defs`), the **logo gatherer**.
What they receive goes to the **programme** and **service stores** (SQLite), and
every change is published on the **event hub**. **Data broadcasting** (`bml`)
keeps carousels per session and a cache of modules.

| part | state | operations | concurrency |
|---|---|---|---|
| tuner manager | per tuner: in use, device, running/stopped/fault, priority, users; round-robin start per type; change channel | AcquireDevice (reserve, grab, wait), managedDevice Start/Stop, release, marks, KillProcess, users | one mutex; Start and Stop of devices run outside it |
| process device | process, reader, done channel, error | Start with retry and probe, Stop, copy, finish | caller, copier, context watcher |
| agent hub / client | tuners with generation and quarantine; sessions | hello, start, stop, data upload, disconnect, recovery | two machines, a connection that breaks |
| job manager | jobs with status, queue, history, active keys, resource marks and counters | Enqueue, Rerun, dispatch, run, retry, Abort, Wait, Shutdown | one mutex, a goroutine per running job and per retry |
| session registry | sessions and creations in flight per channel | acquire, completeCreate, remove, shutdown | one mutex, callers wait on creations |
| route pool, broadcast | broadcast per route, creations in flight; reference count, start and stop state | Acquire, commit, attach, detach, start, Stop, Shutdown | mutex each; start and stop outside |
| fan-out engine | subscribers with bounded queues, tail of recent packets | subscribe, dispatch, finish, stop | reader goroutine, writer per subscriber |
| multi-writer | writers with bounded queues of shared chunks | attach, detach, Write, Close | writer per subscriber |
| remote input and sync | users of a remote session; mirror of remote tuners | WithUser, refresh, apply event | event stream, periodic refresh |
| event hub | bounded log, subscribers | publish, subscribe, unsubscribe | one mutex |
| EPG controller | a deadline, failures and running job per group | refresh, reconcile | one goroutine fed by three channels |
| EPG gatherer | candidates, remaining services, collected schedule | gather, collect, flush, upsert | collector, flusher, p/f upserter |
| schedule tracker | versions, segments, sections per table | observe, complete | sequential, input in any order |
| continuity monitor | last counter and packet per PID | observe | sequential, packets lost or repeated |
| p/f and data broadcasting workers of a session | bounded section queues, fingerprints, watchers | observe, update, watch | hook of the engine, a goroutine each, watchers |
| programme stream | present event, timer | detect, end | observer, stream, copy, timer callback |
| programme store | EIT provenance per event and table, delayed event queue | upsert, present/following, replace, delete, flush | one mutex, timers |
| service store | services per channel, EPG times | replace, attempt, success | database |
| BML hub and cache | carousels, subscribers; modules within a byte budget | observe, subscribe, put, get, evict | mutexes |
| application | order of start and shutdown, hash of the channel configuration | start-up tasks, shutdown | parallel shutdown of three parts |

The list with every source file, the small parts included, is `components` in
`PROJECT.json`.

### What is hard here

* A device's Start and Stop take seconds and run without the lock. Between the
  decision and the call anything may have happened: the last viewer may leave
  during the start, another user may join before the grab, another engine may
  attach before the stop.
* Objects are replaced under the same name. A tuner is reserved again, a session
  is created again under its channel, a broadcast under its route, while the
  completion of the old one is still on its way.
* Waiting is done on channels that are closed and replaced. A waiter must capture
  the channel before it examines the state.
* Counters are kept apart from what they count: references of a broadcast, users
  of a tuner, running jobs per group and resource.
* Shutdown overlaps with everything else.
* Input is a broadcast: sections repeat, arrive late or not at all, their versions
  wrap, and what a bounded queue drops must come again or be given up knowingly.
* Between a server and its agents or remotes, connections break and processes
  restart; each side must conclude from what it hears what the other still does.

`hazards` in `PROJECT.json` lists each of these at the line where it bites, with
the properties that cover it or the reason why none does.

### What correctness means

1. A physical tuner belongs to one reservation, and what is said of it (running,
   stopped, faulty, its users) is about that reservation.
2. Nobody sleeps although what they wait for is there: requests for a tuner,
   requests for a session, queued jobs, Shutdown.
3. Jobs of one key do not overlap, topology writers exclude readers, limits hold.
4. A route is received once, shared while anyone uses it, and given back after.
5. Shutdown returns and leaves nothing registered, queued or held.
6. A subscriber that keeps up receives what was broadcast, in order; a slow one
   loses the oldest and harms nobody else.
7. What is stored is what was broadcast last: an older table does not replace a
   newer one, complete means complete, and success means stored.
8. A stop, a failure or a broken connection is followed by an end: no process,
   reader or session is left behind, and a tuner that is quiet is offered again.

## 2. Modules

| module | models | with |
|---|---|---|
| `TunerManager` | tuner manager with devices, users and the agent's availability | `MCTunerManager`; proofs `TunerManagerProofs` |
| `ProcessDevice` | the device of a local tuner and its processes | `DeviceContract`, what it promises; proofs `ReceptionProofs` |
| `AgentProtocol` | a tuner behind an agent: hub, client, connection, restarts | proofs `AgentProofs` |
| `JobManager` | job manager | `MCJobManager`; proofs `JobManagerProofs`, `JobResourceProofs` |
| `StreamSessions` | session registry, engine life, route pool, broadcasts, shutdown | `MCStreamSessions`; proofs `StreamSessionsProofs` |
| `MultiWriter` | the multi-writer of a broadcast | proofs `HubProofs` |
| `FanoutEngine` | the engine of a session and its subscribers | proofs `FanoutProofs` |
| `Delivery` | device, multi-writer and several engines of one broadcast, composed | |
| `Continuity` | the drop detector | |
| `ScheduleReception` | version gate and completeness of schedule tables | |
| `PFUpdates` | present/following sections of a session | |
| `BMLWorker` | data broadcasting sections of a session, and their watchers | proofs `ReceptionProofs` |
| `Carousel` | assembly, store and fetch of data broadcasting modules | |
| `ProgramStream` | a service stream cut down to one programme | |
| `EPGController` | when groups are gathered | |
| `GatherNetwork` | the channels of a network tried one after another | proofs `ReceptionProofs` |
| `EPGCollection` | one collection, with its workers | |
| `ProgramStore` | stored programmes and where they come from | `MCProgramStore` |
| `ProgramEvents` | delayed publication of changes, the event hub and its readers | |
| `RemoteMirror` | the mirror of another server's tuners | |
| `Startup` | service list and configuration over starts and crashes | |

`MCData`, `MCReceivers`, `MCGuide`, `MCReception`, `MCCollection` and `MCChannel`
are the instances that TLC checks (section 3).

In all of them, an action is one critical section of the code, or one call that
leaves the lock (its return being another action). Definitions marked as mutants
are altered copies of the definition that follows them; no specification uses
them. They show which mistake the properties would catch. Variables marked
`history` record what a property speaks of and influence nothing.

The modules meet where the code has an interface. `TunerManager` assumes of a
device what `DeviceContract` states for a local process and what `AgentProtocol`
is checked for behind an agent (`OfferedIsQuiet`, `SessionsEnd`);
`StreamSessions` assumes a number of tuners of the tuner manager; `Delivery`
composes what `ProcessDevice`, `MultiWriter` and `FanoutEngine` have in detail;
`EPGController` and `GatherNetwork` take the job manager and a collection with
any outcome these may have.

### TunerManager

*State.* `device`, `inUse`, `running`, `stopped`, `fault`, `priority`, `users` and
`nextByType` are `Manager.runtime`, `inUse` and `nextByType`. `pc`, `victim`,
`signalled` and `agentSignalled` are the local state of a call of `AcquireDevice`;
a closed channel is membership of the request in `signalled`, so that capturing a
channel means leaving the set, and closing it means that every request which
holds the current channel enters it. `dev`, `tunerOf`, `released`,
`releasing`, `live`, `ended` and `cut` are the managed device and the process or
receiver behind it; `avail` is the agent's side of `Tuner.Available`.
`hold` and `holdOn` are callers inside `tunerLiveSource.WithUser`.

*Actions.* `Begin`, `CaptureAgentChanged`, `TryReserve`, `TryGrab`, `TryNothing`,
`WaitDone`, `WaitCancelled`: the loop of `AcquireDevice`. `GrabStop`,
`GrabRelease`: the grab. `Start`, `StartSucceeds`, `StartFails`,
`StartedMarkRunning`, `FailedMarkFault`, `FailedRelease`, `Watch`:
`managedDevice.Start` and its goroutine. `Stop`, `StopRelease`, `KillProcess`.
`AddUser`, `RemoveUser`. `DeviceEnds`, `AgentDown`, `AgentUp`: the environment.

*Abstraction.* The device behind `managedDevice` is its contract: for a local
process, a Stop before or during Start does not prevent the process from coming
up (`device.go`); for an agent, it does, and an unconfirmed stop quarantines the
tuner (`hub.go`). A receiver behind an agent ends and closes Done in one step; that
the hub closes Done before the receiver is reaped is in `AgentProtocol`. One request makes one device. Channels other than their type,
status records and stream statistics are left out.

### JobManager

*State.* `status`, `key`, `retries`, `aborted` are the fields of `Job`, numbered in
the order of creation; `queue`, `history`, `activeKeys` and the counters are the
manager's. `lock` says which loop holds the mutex: `dispatchLocked` and the range
of `abortQueuedAndStandbyLocked` are stepped, because `shutdownCancel` runs
without the lock and may fall between two iterations. `scan` is the slice that the
shutdown ranges over together with its backing array, which `trimHistory` shifts.

*Actions.* `Enqueue` (also schedules and `EnqueueDefinition`), `Rerun`, `Dispatch`,
`DispatchEnds`, `RunReturns`, `TimerFires`, `TimerQuits`, `AbortActive`,
`AbortQueued`, `AbortStandby`, and `ShutdownCancel` to `ShutdownReturns`.

*Abstraction.* A key stands for its definition. A handler returns with success, an
error that is retried, or one that is not. Retry delays are arbitrary. Results,
events and listings are left out.

### StreamSessions

*State.* Per request: `pc`, `attempt`, `session`, `routeAt`, `busy` (the loops of
`getOrCreate` and `Pool.selectRoute`). Registry: `registry`, `creates`, `outcome`,
`shuttingDown`. Per session: `source`, `stopped`, `engine`, `subs`, and `src`, the
goroutine that runs the source. Pool: `routeSources`, `routeCreates`. Per
broadcast: `route`, `refs`, `starting`, `bStopped`, `stopping`, `late`, `device`.
Shutdown: `sd`, `sdLeft`, `sdNow`, `sdExpired`. A session and a broadcast carry
the name of the request that created them.

*Actions.* `Acquire` to `CompleteCreate`: `getOrCreate`, the registry and the pool.
`Open`, `Subscribe`, `Leave`, `EngineCloses`, `OnStop`: session and engine.
`Attach` to `DetachStopped`: `Broadcast.attach`, `wait`, `detach`. `StartReturns`,
`StopDevice`, `StopTimesOut`, `LateStop`, `RemoveRouteSource`, `DeviceEnds`:
start and stop of a broadcast. `BeginShutdown` to `ShutdownReturns`.

*Abstraction.* The tuner manager is a number of tuners: a device is granted while
one is free, and refused at any time (grabbing is `DeviceEnds`). Local routes
only. The stream's bytes are left out.

### ProcessDevice and DeviceContract

*State.* The fields of `processDevice` (`done`, `tunerProcess`, `rawReader`,
`stopping`), where `Start`, `copyRaw` and every `Stop` are, and the process and
reader of each start-up attempt. *Actions.* `StartBegin` to `StartFail` are `Start`,
`startOnce` and `startWithRetry` with the probe and the clean-up of a failed
attempt; `CopyEnds`, `CopyFinish`, `CopyClose` the copier; `StopBegin` to
`StopWaitDone` a `Stop`, also that of the context watcher; `ReapKill` and
`ProcessExits` are `Process.Stop` (SIGTERM, then SIGKILL) and the process.

`DeviceContract` is what the users of a device rely on, in four variables: the
phase of `Start`, the process that runs, whether the device is over, and the Stops
that returned without error. At most one process runs, a failed start leaves
none, a device is over only when its process is gone, and such a Stop returns only
after that. `DeviceKeepsContract` is the refinement: the contract with
the mapping at the end of `ProcessDevice`.

### AgentProtocol

*State.* Hub: connection, generation, sessions and their connection, quarantine.
Client: its place, its identity and host, recovered generation, workers,
`stopAsked`, `unclean`. Between them `toAgent`, `toHub` and `linkDown`; below them
`receiver`, the processes that really run. *Actions.* `Dial` and `HubHello` with
the quarantine that a hello lifts, `HubDisconnect`, `HubClose`, `LinkBreaks`;
the client's receive loop and shutdown (`AgentWelcome` to `AgentCloses`);
`AgentRestarts`, with or without its host; a worker from `ReceiverStarts` to
`WorkerReports`; the device of the tuner manager (`DeviceStart` to
`DeviceStopExpires`). A message sent into a broken connection is lost; one on its
way may still arrive. *Abstraction.* One tuner; the order of the welcome and the
closing of a refused connection is one step (`HubHello`).

### MultiWriter, FanoutEngine, Delivery

`MultiWriter` has a lossless and a queued writer, `Write` as a loop over its
snapshot of the subscribers, pooled chunks with their reference counts, detachers
of two kinds (the caller's and that of a failed write), `Close`, and the writer
goroutines with their drain. A broadcast attaches only lossless writers
(`source/broadcast.go`); the queued ones are used by tests. `FanoutEngine` has packet subscribers with a queue
bounded in bytes and section subscribers with a bounded channel, their calls and
writers, the reader, the source, `Stop` and `close`; a packet is its number.
`Delivery` puts two engines on one broadcast, with the copier, the pipe of each,
reference count and stop. There a failed writer is detached within the write that
found it; the code does so in a goroutine. The last detach of a source and the stop
it leads to are one step there; `StreamSessions` has them apart.

### Continuity, ScheduleReception

Both model the broadcaster beside the code. `Continuity` sends packets with a
counter that wraps, copies, announced jumps and packets without payload, loses any
of them, and compares the verdict of `continuityMonitor.observe` with what was
lost. `ScheduleReception` broadcasts tables whose version, number of segments and
number of tables change, repeats sections in any order and delivers late ones
(`ReceiveOld`); `Receive` is the whole path: the gate of `Collector.observe` with
`revisions` and `seenVersions`, the payloads, and `ScheduleTracker` with its flags,
resets and elapsed segments. `CompleteIsCurrent` and `CycleCompletes` compare
its completeness with the sections on the air.

### PFUpdates, BMLWorker, ProgramStream

`PFUpdates`: the hook of the engine (`Reserve`, `Send`, `ReleaseUnsent`) drops what
equals the last fingerprint, the pump (`Take`, `Update`, `Written`,
`ReleaseFailed`) assembles both sections of a version and stores them.
`BMLWorker`: the hook counts a section into one of two queues and the wait group,
`nextSection` chooses between them, watchers attach, take events, and when the
input ends wait for the backlog. `ProgramStream`: time in ticks; a p/f section
arms `timer`, `CloseReads` and `CloseActs` are the two halves of `closeIfStale`,
of which two calls may run at a time,
and observer, stream and copy end each other.

### Carousel

`observePMT`, `observeDII`, `observeDDB` and `ModuleVersion` are the hub's
operations, each under its lock, with the whole of `ObserveDII`, `ObserveDDB`,
`Invalidate` and the two evictions of `dsmcc_carousel.go` in them. The store is a
set from which `StoreEvicts` may take any module; it is absent, in memory or
persistent, and only a persistent one lets the carousel release its payload.

### EPGController, GatherNetwork, EPGCollection

`EPGController`: the select loop (`Refreshed`, `ResourcesChanged`, `Woken`),
`ReadJobs` and `Decide` as the two halves of `reconcile` between which jobs end,
and the jobs, tuners, scans and time beside it. A group may also meet an error of
`CheckGroup` other than the lack of a tuner, or a job manager that refuses the job
(`Troubles`), and a job that stored only the basic guide succeeds and leaves its
group due. `GatherNetwork`: one step per
candidate (`OpenFails`, `Collect`, `CopyStored`) with any outcome for each
service, and the conclusion. `EPGCollection`: the session's goroutine, the loop of
`CollectServiceSnapshots` with its timers, `partialEITSFlusher`, `eitPFUpserter`
and `persistObservedSnapshots`; a schedule is the number of its sections, and a
snapshot reads events and revisions one after the other.

### ProgramStore, ProgramEvents, RemoteMirror, Startup

`ProgramStore`: `UpsertSchedule`, `UpsertPresentFollowing`, `UpsertEvents`,
`RemovePrograms`, `ReplaceServicePrograms`, `DeleteEndedBefore` and `Restart` (the
provenance in memory is lost) over rows with time and revision. `ProgramEvents`:
`enqueueEvent`, the timer, flushes that may overlap, the hub's log and bounded
subscriber channels. `RemoteMirror`: `runRemoteEventSync` and its ticker, each with
a snapshot in hand, and tuners that change or go. `Startup`: reconciliation, hash,
updater and scans, with a crash or failure at any point and a configuration that
changes between starts; `daily` says whether its job schedules include the updater.

## 3. Runs

Parts that share no state are checked together: the MC modules above hold several
components, `part` says which of them a behaviour moves, and the others stay in
their initial state. The states of such a run are the sum, not the product, of
its parts', and every property is about one part. Where a run has fairness, no
action that fairness speaks of is enabled in a part that stays where it began.

| run | parts and instance | shows |
|---|---|---|
| `reception` | *tuners*: 3 requests of priority 0, -1 and 2, two local tuners, one serving two types | `GrabberIsWoken`, `ReservationOwned`, `StatusMatchesDevice`, `LiveAfterReleaseWasCut` |
| | *agent*: 2 further requests, a user nested twice, one tuner behind an agent | `UsersTracked`, `NoLostWakeup`, `AgentReceiverExclusive` |
| | *schedule*: 2 tables of up to 2 segments, starting with one segment of two sections, 4 versions, 2 changes | `ReportIsCurrent` (complete when, and only when, current), `NoReplay` |
| | *continuity*: counter modulo 4, 6 packets | `DropsAreLosses` |
| | *bml*: 2 watchers, queues of one, burst of one, 3 sections | `SectionsServed` |
| `data` | *jobs*: 3 executions of 5 keys (a writer, a dependent, 2 readers in an independent group, 1 free), one slot, history of one | `ReadersAndWritersExclude`, `JobsAccounted` (keys, queue, history), `LimitsHold` (counters, limits), `StartsAreAllowed` |
| | *hub*: a lossless and a queued writer, 3 writes | `ChunksSafe`, `ChunksArrive` |
| | *engine*: a packet and a section subscriber, 3 packets | `EndsAreOrderly`, `SectionsWithoutGap` |
| | *programs*: 2 programmes, two sources, 3 p/f tables | `PrecedenceKept` |
| | *agent*: 1 device, 2 connections, 1 restart | `OfferedIsQuiet` |
| `receivers` (fair) | *device*: a caller's Stop and the context's, one retry | `ReadersClosed`, `DeviceKeepsContract` (refinement), `EndingCallsReturn` |
| | *hub*, 2 writes; *delivery*, 2 engines | `EndingCallsReturn` (Detach); `DeliveryEnds` |
| | *agent*: 3 connections | `KnownQuarantineLifted`, `EndingCallsReturn` (sessions) |
| | *mirror*: 1 tuner, 3 changes and its removal, 2 failed requests | `MirrorFollows`, `EndingCallsReturn` (synchronisation) |
| | *carousel*: 2 modules of up to 3 blocks, budgets of 2, 3 changes | `CarouselSound`, `ListedIsFetchable` |
| `guide` (fair) | *jobs*: 3 executions of 2 writers and a reader | `JobsSettle` |
| | *epg*: 2 groups, one slot, 1 refresh, 1 fault | `GroupsGathered` |
| | *events*: 3 changes, 2 flushes, log and channel of 2 | `EventsArrive` |
| | *startup*: 2 channels, 3 starts, 1 failure | `ListCorrect` |
| `collection` | *sessions*: 3 requests, 2 channels sharing a route by fallback, 2 tuners | `RoutesAccounted` |
| | *collection*: an expected and another service, 2 sections each | `ProgressKept`, `CollectionOrdered` |
| | *gather*: 2 services, up to 3 candidates | `AnswerIsKept` |
| `channel` (fair) | *sessions*: 2 requests for one channel, one of them waiting, 1 tuner, Shutdown | `StreamsSettle` |
| | *pf*: 2 versions, a section missed, another table's, a failed write, queue of one | `PFArrives` |
| | *programme*: grace 1, watch 2, stale 4 ticks, p/f every 2 | `ProgramEnds` |

Each property is stated in words above its definition. Several are conjunctions of
parts that are named and commented one by one (`JobsAccounted`, `EndsAreOrderly`,
`CarouselSound`, `StreamsSettle`, ...); the texts below use the names of the parts.

Six further runs end in a counterexample: they state something the repository
says of itself and show a behaviour in which the code does otherwise. `findings`
in `PROJECT.json` quotes the statements.

| run | statement | behaviour |
|---|---|---|
| `tuner_double_process` | one reservation, one physical tuner | a Stop during Start releases the tuner, the process comes up beside the next reservation's |
| `job_shutdown_skips` | Shutdown finishes jobs in standby | the range skips a job when the history is trimmed under it |
| `stream_stale_stop` | one session per channel | the `OnStop` of a replaced session removes its successor |
| `program_pf_missed` | a complete p/f table is applied | the programme it calls present is blocked by a schedule's row and not stored |
| `delivery_hang` | an engine whose read failed returns | it closes its pipe and waits for its source, which the multi-writer drops without telling it; one engine is enough |
| `agent_cleanup` | a stopped session was cleaned up | a `stop` handled after a failed worker left the table is answered with a clean `stopped` |

Other disagreements are in the models and have no run of their own. Three of them
are properties of the modules; adding one to the configuration named shows it.

* `GrabRespectsUsers` (`Reception.cfg`): a user of equal priority protects the
  tuner, but may join between the choice of the victim and its Stop.
* `SharedRouteKept` (`Collection.cfg`): a shared route is kept while it has a
  consumer, but an engine may attach between the decision of `detach` and its Stop.
* `DependentRuns` (`JobManager` with the keys `scan1` and `after`, `MaxJobs = 2` and
  `FairSpec`): a dependent job starts when its dependency ends, but Abort of a job
  in standby does not dispatch.
* `BMLWorker` reaches `crashed`: a remote input that is reopened while an earlier
  watcher is between its wake-up and the return of `Wait` reuses the WaitGroup,
  which Go answers with a panic. A behaviour ends there.

### Bounds, and why they are enough

* *Requests and tuners.* Every race of the tuner manager is between a holder, a
  grabber and one waiter or third owner: three requests on two tuners give all
  of them and a tuner that serves two types. Two requests suffice for the
  agent's part, whose races are between one device and the connection; it shares
  the module's variables with the local tuners, whose requests do not begin there.
  `MaxRefs` is 2: nested twice is the first case in which the first removal is not
  the last. One user: the counts are kept by user, and `UsersCorrect` is proved for
  any number.
* *Jobs.* `MaxJobs` is 3: a writer, a reader and a third job that is retried or
  enqueued under the same key. `MaxHistory` is 1 where trimming matters, and as
  large as the number of jobs where it must not interfere. One retry per job:
  the second does nothing the first does not.
* *Streams.* Three requests are a session, its successor and a stranger on the
  shared route. The part with Shutdown has two: the creator and a joiner. Two
  tuners in `collection`, since one would make `OneTunerPerRoute` trivial.
* *Queues.* A queue of one or two places is full, drops and drains within three
  elements, and an element more repeats a state. Packets of three sizes meet the
  byte limit exactly, below and above.
* *Agent.* The quarantine of a connection is lifted by the next one or by the one
  after a restart: two connections with a restart, three without.
* *Versions and counters.* The code has 32 versions and 16 continuity values; the
  models take 4 of each. The continuity counter wraps, and a whole cycle of packets
  can be lost, within the 6 packets. A schedule changes twice and so does not come
  back to a version it has used: the run shows what holds between two wraps, and
  section 5 says what the code does after one. `NumVersions` and `Counters` are the
  only quantities of the protocol that are scaled.
* *Budgets.* Two blocks of budget hold one module of two or two of one, and refuse
  one of three: evicting, rejecting and fitting exactly.
* *Time.* `ProgramStream` keeps the order of the code's times (grace 1 s, watch,
  stale); `PeriodAssumption` says that p/f sections are further apart than the
  grace.
* Counters are bounded by name (`MaxJobs`, `MaxRefs`, `MaxWrites`, `MaxPackets`,
  `MaxGen`, `MaxRestarts`, `MaxChanges`, `MaxBoots`, `MaxFailures`, ...);
  `RetryMax` and `MaxAttempts` are limits of the code itself.
* Some properties depend on the instance. `ShutdownSettles` is checked with a
  history as long as the number of jobs; with a shorter one `job_shutdown_skips`
  breaks it. `QueuedJobLeaves` is checked without dependencies; with them
  `DependentRuns` shows the difference. The EPG groups are live ones
  (`StoredGroups` is empty) and the collection does not probe for extended tables.
* Deadlock is not checked: requests, jobs, packets and clients are finite in
  number, and a system that has served them all has nothing left to do.

### Fairness

Weak fairness is assumed of goroutines: a step that stays possible is taken. What
clients, operators, networks and broadcasters do is assumed only where the code
itself makes it happen.

* `JobManager`: handlers return and retry delays pass; calls of the API, aborts and
  Shutdown itself are never assumed.
* `StreamSessions`: requests, sources, starts, stops and Shutdown proceed; viewers
  need not leave, devices need not end, contexts need not expire, and a waiting
  request need not be refused: it is only assumed to take a tuner that stays free.
  The liveness properties therefore leave out a request that still waits for one.
* `ProcessDevice`: deadlines of Stop pass, the watcher of the context runs, and a
  process that was sent SIGKILL dies; one that was sent SIGTERM need not.
* `MultiWriter`, `Delivery`: the pipes of the engines are read or closed; a client
  need not leave.
* `AgentProtocol`: both ends notice a broken connection (heartbeats), the client
  dials again, a receiver that was told to stop ends or is given up, Stop expires.
* `RemoteMirror`: requests are answered or fail, finitely many fail
  (`MaxFetchFailures`), the ticker ticks. `Carousel`: blocks on the air keep being
  broadcast and a viewer who found a module missing asks again.
* `EPGController`: the loop runs, deadlines pass, jobs start and end; a refresh in
  the channel is taken even if other channels are ready again and again (strong
  fairness: Go's select picks among the ready cases at random). Only successful
  ends of jobs are assumed to happen, and `MaxFaults` bounds the failures.
* `ProgramEvents`, `Startup`: timers fire, flushes go on; after a crash the server is
  started again, and tasks that are queued run.
* `PFUpdates`: the broadcaster repeats its sections and the pump runs.
  `ProgramStream`: time passes, the programme ends, and a write to the viewer
  returns. The last is an assumption about the viewer: the code sets no deadline,
  and `Run` stays with a viewer who keeps the connection and reads no more.

The safety runs use no fairness.

## 4. Proofs

Every theorem holds for all values of the constants that satisfy the named
assumptions: any number of tuners, types, requests and users; any job
definitions, limits and number of executions; any channels, routes and sessions;
any devices behind an agent, connections and restarts; any subscribers, packets,
sizes and buffers. The assumptions (`ConstAssumption`, `JobAssumption`,
`DeviceAssumption`, `StreamAssumption`, `AgentAssumption`, `HubAssumption`,
`FanoutAssumption`, `BMLAssumption`, `GatherAssumption`) give the constants their
types and keep apart sets that are apart in the code (packet and section
subscribers, lossless and queued writers); the queued writers and the gathered
services are finite sets. TLC evaluates them in the runs.

| theorem | module | states |
|---|---|---|
| `Ownership` | `TunerManagerProofs` | `Spec => []ReservationOwned` |
| `GrabberWoken` | `TunerManagerProofs` | `Spec => []GrabberIsWoken` |
| `StatusCorrect` | `TunerManagerProofs` | `Spec => []StatusMatchesDevice` |
| `WakeupCorrect` | `TunerManagerProofs` | `Spec => []NoLostWakeup` |
| `UsersCorrect` | `TunerManagerProofs` | `Spec => []UsersTracked` |
| `ReceiversExclusive` | `TunerManagerProofs` | `Spec => []AgentReceiverExclusive` |
| `StopsAwaited` | `TunerManagerProofs` | `Spec => []LiveAfterReleaseWasCut` |
| `ResourcesCorrect` | `JobResourceProofs` | `Spec => []ReadersAndWritersExclude` |
| `LimitsCorrect` | `JobResourceProofs` | `Spec => []LimitsHold` |
| `JobsAccountedFor` | `JobResourceProofs` | `Spec => []JobsAccounted` |
| `StartsCorrect` | `JobResourceProofs` | `Spec => StartsAreAllowed` (action property) |
| `RoutesCorrect` | `StreamSessionsProofs` | `Spec => []RoutesAccounted` |
| `StoppedStays` | `StreamSessionsProofs` | `Spec => StoppedIsFinal` (action property) |
| `ShutdownLeavesNothing` | `StreamSessionsProofs` | `Spec => []ShutdownReleases` |
| `OfferCorrect` | `AgentProofs` | `AgentSpec => []OfferedIsQuiet` |
| `ChunksCorrect` | `HubProofs` | `HubSpec => []ChunksSafe` |
| `ArrivalCorrect` | `HubProofs` | `HubSpec => ChunksArrive` (action property) |
| `EndsCorrect` | `FanoutProofs` | `FanoutSpec => []EndsAreOrderly` |
| `GapsCorrect` | `FanoutProofs` | `FanoutSpec => SectionsWithoutGap` (action property) |
| `ReadersCorrect` | `ReceptionProofs` | `DeviceSpec => []ReadersClosed`, with the types |
| `DeviceRefinesContract` | `ReceptionProofs` | `DeviceSpec => DeviceKeepsContract` (refinement) |
| `SectionsCorrect` | `ReceptionProofs` | `BMLSpec => []SectionsServed` |
| `AnswerCorrect` | `ReceptionProofs` | `GatherSpec => []AnswerIsKept` |

The inductive invariants are theorems too: `OwnInvariant` and `LiveInvariant`,
`StreamInvariant`, `AgentInvariant`, `HubInvariant`, `FanoutInvariant`,
`DeviceInvariant`; type correctness (`TypeCorrect`) is part of them or their base.
Many leaves name the prover that finds them (`Zenon`, `SMTT`): the choice only
affects how long a run of the prover takes.

*Tuner manager.* `TypeInv` adds `Shape` to `TypeOK`: a request has a device exactly
when it returned one, a grabbing request has a victim that was handed out, and so
was every device that is released, recorded or held by a user.
`ReservationOwned` is inductive relative to it, because `release` runs under the
device's `once`: it ends a reservation only while the device is unreleased, and
then the tuner records that device. `GrabberIsWoken` is not inductive: a grabber
may be about to release a victim somebody else has released. `GrabSignal`
strengthens it: from the capture on, either the victim is unreleased or the
request has been signalled. `StatusMatchesDevice` needs ownership, since the
guard of the marks (`IsCurrent`) distinguishes devices only if a tuner has one.
`NoLostWakeup` is inductive relative to the same invariant: a step that frees a
tuner is the first run of a `once`, which closes the manager's channel, or the
return of an agent, which closes the hub's, and a waiting request captured both
before it looked. `UsersTracked` rests on ownership: `release` clears the users, so
a count that is not zero belongs to the current reservation. In the model a user
is inside `WithUser` of one device at a time.

What outlives a reservation is `LiveInv`. For every device it relates where its
Start and Stop are to whether its process or receiver may run: a release is
preceded by a stop that waited, except where the Stop overtook the Start of a
local process (`cut`), and except behind an agent, where the unconfirmed stop has
made the tuner unavailable. Two receivers on one tuner would need a reservation
of an available tuner while one still runs, which the second case excludes.

*Job manager.* `JInv` adds to the properties `Fresh` (the jobs not yet created are
those numbered above `made`) and `ScanShape` (while the shutdown ranges over the
history, the history fits into the slice it ranges over). The lemma `StepKinds`
reduces the steps to a few kinds by what they do to the queue and to status:
enqueue, dispatch, end, requeue, bookkeeping. `RInv` adds `CountsMatch` and
`ReadersAndWritersExclude`; the two need each other, for a writer is admitted on
the strength of the counters. The marks of exclusive keys may be removed by the
end of one job only because no other running job holds them. `LInv` adds the
limits and `SlotsMatch`: the limit of all jobs leaves out independent groups, and
the count it is read off is right because those jobs are counted slot by slot. For
the history, a trim drops nothing unfinished and stops at the limit or when no
finished job is left (`TrimLimit`, from the oldest job of a set). `StartsAreAllowed`
needs `Unaborted`: a job that may still start has not been aborted, because an
abort ends it in the same critical section.

*Sessions and routes.* `StreamInv` says where each request, create, session, route
and broadcast stands with respect to the registry and the pool: a key is being
created exactly while its creator runs the create (`CreatesOK`); a session with an
engine has a source, and every source is in the pool's care (`EnginesOK`);
who creates a broadcast owns the claim on its route until `finishCreate`, and the
route stays empty until the commit (`RoutesOK`); the pool holds a broadcast from its
commit until its stop removes it (`PoolOK`). `BroadcastsOK` orders start, stop and
late stop, `ShutdownOK` says what the phases of Shutdown have settled, and `RefsOK`
that the count of a broadcast is the number of engines attached to it, a finite
number. The accounts alone are not inductive: a route has one tuner only because the
claim keeps a second creator away, and Shutdown finds every broadcast only because
no create is left when it begins to stop them.

*Agent.* `AgentInv` is about everything that may still start: a receiver, a worker
in the client's table, or a `start` on its way (`Alive`). `CoverInv` is its core:
what is alive belongs to a session of the hub or to the connection that the tuner
is quarantined with, and to the session while there is one. The rest makes it
inductive. `LinkInv` says where the two ends of the connection are, `IdleInv` that a
device that was not started has left no trace. `BootInv` and `RecoveredInv` justify
the lifting of a quarantine: a host that booted since has no receiver of an older
connection, and neither has a connection reported as cleaned up. By `WorkerInv` a
receiver of the current connection has a worker or a failed cleanup. `SessionInv`
allows one living session at a time; `DeadInv` is about one whose `start` was never
sent. Four are about messages on their way: a `start` comes before the `stop` and
the `stopped` of its session, a worker in the table has not reported, and a failed
cleanup is on its way until the hub has read it, ahead of any clean `stopped`, but
for the receivers in `overtaken`.

*Multi-writer.* `HubInv` adds to the types `ListInv` (a writer leaves the list for good,
and Write is done with it, before its channel is closed), `OrderInv` (what is queued
is newer than what is being written, and that is newer than what was received),
`RefInv` (a chunk has one reference for each queued writer it is on its way to, and
lies in the pool only without any), `LosslessInv` (a lossless writer is on the list
until it is closed) and `QuietInv` (one off the list receives nothing more, or Detach
or Close is still to see to that). `ChunksSafe` follows from `ListInv` and `RefInv`, the
action property from the others.

*Fan-out engine.* `CallInv` ties a call, its writer and its queue together: a call
that has left its select is finished, a writer that ended has an empty queue.
`EngineInv` is the part about the engine itself; a subscription after the close is
impossible because an engine is stopped before it is done. `OrderInv` says that
the batch in hand and the queue behind it are later than what was written, in
order, whatever `push` drops. `GapInv` is what a section observer needs: every
section since the last one written is in the batch or in the queue, or came
after all of these to an observer that is finished already, so that no later one
follows the gap. Nothing is needed of `Bytes`: the proofs hold for any choice of
what `push` drops and of how much `take` takes, as long as it takes something.

*Process device.* `DeviceInv` adds to `DeviceTypeOK` what the mapping to the contract
needs. `LiveIsCurrent`: the only process that may live is that of the current
attempt, and only in the places of Start in which it was launched and not yet
reaped. `AttemptBounded`: the loop stays within `startupRetryMax`.
`CopyFollowsStart`: the copier runs only after a successful Start, and the done
channel is closed by it, with the process gone.
`StopHasProcess`: the process a Stop signals is one that was registered.
`ReaderIsCurrent`: only the current attempt's reader is open, and only where Start
or the copier will close it. Every action of `ProcessDevice` then maps to one step
of the contract or to a stutter; the steps that launch, reap and finish are the
ones that move it, and the lemma `ContractStutters` disposes of the others.

*Data broadcasting worker, gather.* By `BMLInv` the wait group counts what is left to
observe, an ordinary section that waits has been passed by no more than the current
burst, a watcher waits only while something is pending, and without restarts it
settles only behind an input that has ended. `GatherInv` relates
the counters and flags of the loop to what is stored of each service (`KeptInv`), from
which every answer can be read off.

*Left to TLC.*

* Liveness under fairness and anything about `ENABLED`, which the prover does not
  handle: `DeliveryEnds`, `KnownQuarantineLifted`, `ListedIsFetchable`,
  `MirrorFollows`, `EndingCallsReturn`, `JobsSettle`, `GroupsGathered`,
  `EventsArrive`, `ListCorrect`, `StreamsSettle` (its two safety parts are proved),
  `PFArrives`, `ProgramEnds`.
* `CarouselSound`, whose counters are sums over a sequence of modules: a fact about
  a recursive definition for every input, which needs induction over data.
* `ReportIsCurrent` and `NoReplay`, which hold only between two wraps of the version
  number, and `DropsAreLosses`, whose second half is arithmetic modulo a symbolic
  number.
* `PrecedenceKept`, `ProgressKept` and `CollectionOrdered`: no inductive invariant for
  them has been worked out.

## 5. What is not modelled

Parsing and formatting of TS, MMT and TLV packets, character sets, HTTP and its
generated code, configuration, SQLite, metrics and the front end: they either
hold no state or none that interleaves, and they are by far the largest share of
the repository's lines. The module cache of data broadcasting and the logo
gatherer are left out for the reasons given in `PROJECT.json`, and so is the order
in which the application shuts its parts down: it waits for each of them, and each
one's shutdown is modelled where it does anything. Gaps in what is modelled, and
behaviour the models have that no property states:

*Tuners and sessions*

* A user who leaves lowers the priority of a shared tuner (`status.go:293`) but
  wakes nobody; a waiting request that could grab the tuner now stays asleep until
  the next release. The code promises no more.
* `WithUser` adds the user to whatever reservation the tuner has when it runs
  (`tuner/manager.go:435`): a late caller counts itself on the next one. In the
  model a user is inside `WithUser` of one device at a time.
* Joiners of a creation receive the creator's error, the end of its context
  included, and a joiner that would not wait is held by a creator that does
  (`stream/manager.go:311`).
* A session created on a broadcast that stops before the subscription ends with
  its error; the retry in `getOrCreate` sees only errors of the creation
  (`stream/manager.go:335`).
* The error returns of a fan-out subscription do not wait for its writer.
* An agent that never read the welcome of a connection does not report that
  connection as cleaned up: a tuner quarantined with it stays out until its
  host reboots. `KnownQuarantineLifted` is about the others.
* A stale snapshot of the ticker may overwrite a newer event of a remote until
  the next refresh, at most five minutes later: `MirrorSettles` allows for it.

*Guide*

* The controller's select may take `changed` while `resources` is ready, and
  repeated refreshes can hold back groups of higher keys. A job pruned from the
  history counts as failed.
* `PrecedenceKept` is about the writes that `upsertPrograms` makes. A present or
  following programme whose write is blocked by an overlapping row is not among
  them (`program_pf_missed`). `acceptExtended` and `preferPending` are not modelled.
* Two flushes of programme events that overlap can publish them in the wrong order;
  `EventsArrive` then only says that each is published once.
* A start that fails before reconciling keeps the rows of removed channels until
  the next start. The hash of the configuration is stored before the update it asks
  for (`app.go:471`): after a crash in between, or a failed scan, only the scheduled
  updater puts the list right, and it is not scheduled when the configured jobs do
  not name it (`app.go:273`). `ListSettles` therefore assumes the schedule or an
  undisturbed start; without that assumption it fails.
* Schedule versions: sections that announce a coming table or have a version above
  31 are refused before anything changes, and left out. A late section of a version never seen is taken for new, and
  the current one is then refused until the broadcaster changes it; one that
  announces another last table resets coverage until the next cycle; after all 32
  versions were seen, replays are accepted, and a section missed for a whole cycle
  of versions keeps its old payload; payloads of sections that a smaller version
  dropped stay; elapsed segments stay ignored past midnight until a new version.
* Collection: a torn snapshot (events newer than revisions) is repaired by the
  final write when the session ended; an update may be lost if the session does
  not end within two seconds or the job is aborted; p/f upserts queued in the
  drain meet the cancelled context. Failures of the service store in the final
  write are left out.
* Gather: the job may succeed although recording the success of an earlier
  candidate failed; a store failure on an incomplete service makes the job
  non-retryable with nothing stored; a copy refused with 503 counts as
  unavailable, so that a partly copied job may be put off.

*Sections*

* `Continuity`: a loss of one counter cycle less one, followed by an identical
  packet, looks like a copy.
* `PFUpdates`: at a wrap of the version, fingerprint and collector can disagree
  until the section changes; the queue of the common logo carousel, sections still
  queued when the context ends and next-version sections are left out.
* `ProgramStream` ends only if p/f sections are further apart than the grace of a
  second, since each section of another event resets the timer. `closeIfStale`
  reads the detection time and acts on it later: a detection in between can be cut
  off, and its own reset can replace a grace.
* `Carousel`: `Invalidate` adds to the bytes in flight without asking for room. A
  DII equal to the last is skipped, so a module evicted for the budget is neither
  announced nor rebuilt until the DII changes, against the comments at
  `ts/dsmcc_carousel.go:71` and `:177`; and a component that leaves the PMT and
  returns with the same DII stays empty, because `observePMT` keeps
  `diiSections`. Subscribers, events, snapshots and status strings are left out.
* `bml/cache`: prune's last assignment of `storedBytes` can overwrite a concurrent
  Put's. `ts/demux.go`: `observePAT` deletes programmes without rebuilding the
  section PIDs. Both were seen while reading and are not modelled.

## 6. What could follow

`StreamSessions` with `TunerManager` in place of its counted tuners, and both over
`DeviceContract`, would close the remaining interfaces. Its state space is out of
TLC's reach at the bounds above; the invariants of section 4 are the ones such a
composition would start from.
