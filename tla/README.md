# A TLA+ model of llm-metrics-exporter

llm-metrics-exporter reads the telemetry of local LLM engines and exposes it as
canonical `llme_*` series, by scrape and, optionally, by durable remote write.
This directory models the parts of it where processes, goroutines, files and
crashes interleave. TLC checks small instances; TLAPS proves the central
invariants for every value of the constants.

## The system

| Part | State it keeps | Operations | Interacts with |
|---|---|---|---|
| Remote write (`internal/remotewrite`) | queue files, checkpoint and manifest on disk; `files`, `QueuedBytes`, `previous`, `timestamp` in memory | `New`/`restore`, `collect`, `enqueue`, `sendOne`, `deliver`, `Run` | gathers from the collector; posts to a receiver; owned by `serve` |
| Collector (`internal/collector`) | `arms`, `retired`, `autoArms`; per arm `busy`, `closed`, adapter, error count | `Collect` (= `sync`, `collectArm`, `report`), `closeArm`, `Close` | reads registrations; calls adapters in worker goroutines; called by scrapes and by remote write |
| Registrations (`internal/registration`) | one YAML file per backend, `.lock` | `Write`, `Remove`, `LoadDir` | written by launchers (`register`, `deregister`), read by every scrape |
| Tail reader (`internal/tail`), ds4 adapter, TensorFold request log | `offset`, `info`, `partial`, `skipping`; the counters | `Read`, `feed`, `keep`, `Collect`, `reset` | reads a log an engine is writing; called by the collector |
| Discovery (`internal/discovery`), `engines.Detect` | `previous`, `cursor` | `Observe`, `probe` | called by `Collect` next to the arms |
| Pull adapters, `promtext`, `metrics` | none; the engine's counters are on the other side | mappings of one HTTP body | called by the collector and by discovery |
| `cmd/llm-metrics-exporter` | process lifetime, exit code | `serve`, `register`, `deregister` | wires the rest; its goroutines share the collector's lock |

What is hard here, and what makes each part correct:

* **Remote write.** Two threads share a mutex that is released around every
  HTTP post; each batch is two renames and two directory syncs; the process may
  die between any two. Correct means: memory is what a restart would read; a
  series the receiver shows is never forgotten; batches go out in order, to the
  right receiver, below the cap; shutdown and delivery make progress.
* **Collector.** A worker whose adapter ignores its context outlives its
  scrape, its registration and perhaps the exporter. Correct means: never two
  `Collect` calls for one backend, every adapter closed exactly once and never
  under its worker, no result of an old run under a new registration, no scrape
  that hangs, no placeholder that stays.
* **Registrations.** Launchers race each other, are killed anywhere, and a
  reader takes no lock. Correct means: a late stop never removes a newer run,
  and a relaunch is never seen as a gap.
* **Tail.** Lines are cut by buffers, by calls and by the line limit while the
  engine appends, truncates and replaces. Correct means: each line counted
  once, and a counter exposed only when it is the count of the log.
* **Discovery.** Ports change hands between the requests of a probe, a deadline
  cuts calls off, and what is remembered is bounded. Correct means: samples
  carry the engine and model of the process they come from; only what was
  probed in this call is ready; `ChangedAt` moves whenever a delta would span
  two processes or a gap; pinned registrations win; no target starves.

* **Detection.** Compatibility layers expose other engines' counters, one body
  may match several signatures or name several models. Correct means: an engine
  and a model are named only when nothing else in the body contradicts them.
* **Pull adapters.** Ranks report one batch several times, data-parallel
  workers restart one by one, models share a body, and old builds lack
  counters. Correct means: work is exposed once, absent is not zero, and the
  increase a reader computes never exceeds the work done.
* **The process.** HTTP handlers, the remote-write goroutine and `Close` meet at
  one mutex; deferred calls run on every way out. Correct means: a clean exit
  leaves nothing open, the last snapshot is always made, and `serve` returns.

`PROJECT.json` lists every hazard at its line with the properties that cover it.

## Modules

| Module | Models | Proofs | Runs |
|---|---|---|---|
| `RemoteWrite` | `sender.go`, `encode.go` | `RemoteWriteProofs`, `QueueProofs` | `MCRemoteWrite*.cfg` |
| `Collector` | `collector.go` | `CollectorProofs` | `MCCollector*.cfg` |
| `Registration` | `registration.go` | `RegistrationProofs` | `MCRegistration*.cfg` |
| `Tail` | `tail.go`, `ds4.go` | `TailProofs` | `MCTail*.cfg` |
| `Discovery` | `discovery.go`, `detect.go` | `DiscoveryProofs` | `MCDiscovery*.cfg` |
| `Pull` | `adapter.go`, the four mappings, the selections and sums of `promtext.go`, `Validate`, `report` | `PullProofs` | `MCPull.cfg` |
| `Exporter` | `serve` around an instance of `Collector` | `ExporterProofs` | `MCExporter.cfg` |
| `Registry` | what launchers are promised; `Registration` implements it | `RegistrationProofs` | `MCRegistration.cfg` |
| `DurableQueue` | what remote write promises; `RemoteWrite` implements it | `QueueProofs` | `MCRemoteWrite.cfg` |

A `MC` module only adds symmetry sets, bounds on addresses, the initial
directories and the line-ups of engines of a run, and `MCCollector` a
specification without `Close` (`ServingSpec`, for `col_errors`).
Each module has a few operators marked *mutant*: the same definition with a
plausible mistake. A mutant stands directly before the definition it changes
and is used nowhere; `PROJECT.json` names the property each one breaks.

### RemoteWrite

* `dir` is the directory as processes see it and `images` the set of
  directories a power loss may leave. A rename or a removal adds its outcome to
  `images`; a directory sync collapses it to `{dir}`. `Crash` continues with
  any image. (A kill keeps `dir`, which is one of the images; that a killed
  process leaves changes unsynced which a later power loss takes back is left
  out. A failure to write the manifest ends the process, as a crash does.)
* `run` is the goroutine of `New` and `Run`: `Start`, `RenameManifest`,
  `SyncManifest`, `Restore`/`RestoreRefused`, then the loop `RunLoop`,
  `Gather`, `Stamp`, `Enqueue`, and the two `atomicWrite`s of an accepted
  snapshot (`RenameQueueFile`, `SyncQueueFile`, `RenameState`, `SyncState`),
  any of which may fail (`EnqueueFails`). Shutdown is `Join`, one more pass
  from `Stamp` with an empty snapshot, `Flush` and `Exit`.
* `snd` has two callers of `sendOne`: the delivery loop and the shutdown flush.
  `SendPick` takes the head under `mu`; `SendRead`, `SendPost` and the answer
  happen without it; `SendRemove` and `SendSync` hold it again. `MuFree` says
  that no thread is between two directory operations under `mu`. Sections
  without such an operation are one step.
* `mem` has `files`, `QueuedBytes`, `previous` and `timestamp`.
* `recv` is the receiver. It keeps the newest batch and refuses older samples,
  as Prometheus does. A post may be taken and its answer lost; a request given
  up by its client may arrive later (`recv.late`). `posted` and `ghosts` are
  observers.
* A snapshot is its set of series and weighs one byte per series or marker, so
  that the caps have something to bind on. `Faults` names which storage
  operations may fail, and whether a crash may fall between a queue file and
  its checkpoint ("torn").
* An encoding error, which comes after the timestamp is taken, is the failure
  of `Gather`: the timestamp is not kept, so nothing distinguishes them.

### Collector

* `heap` maps the addresses of arms to their records; `calls`, how many Collect
  calls are really inside the adapter, is an observer that `busy` is checked
  against. `arms` and `retired` are the maps; `pc`, `todo` and `cur` say where
  the scraping goroutine is.
* A step is one section under an arm's `life` mutex, with the map updates that
  follow it. In `sync` the section of `closeArm` (`SyncArm`) and the second
  look at `busy` (`SyncReplace`) are two steps, so a worker may return between
  them. `BeginScrape` loads any registrations: launchers act between scrapes.
* `WaitEnds` is the `select` in `collectArm`: the result, if the worker has
  returned, or the timeout. `WorkerReturns` is the worker's last section, in
  this scrape or in any later one, after `Close` too.
* An address is used again once nothing holds it. One with an open adapter
  keeps its record, so that `NoLeak` can see it.

### Registration

* `file` is the directory, `lock` the holder of the flock, `proc` the calls in
  progress, `load` a `LoadDir` in progress. Every system call that another
  process can observe is a step. `Fail` is any error return and any kill, at
  any point; the lock goes with the descriptor.
* A file is its run_id and its kind. `RunID` is the default both `Parse` and
  `Remove` apply. `latest`, `stopped` and `steady` are observers.

### Tail

* `files` has the bytes of every file the path has named; a byte is a newline
  or not. `rd` is the `Reader`, `call` the call in progress. `seen` has the
  bytes read since the last reset, of which the first `done` have been fed.
* `Open` is open, stat and reset decision; `ReadChunk` one `read(2)`, of any
  length the system may return; `FeedPart`, `FeedLine`, `FeedEnds` the loop of
  `feed`; `Return` the second stat and what `Collect` makes of it. The engine
  acts between any two steps.
* `HidesTruncation` marks the one thing a size cannot tell: a log that shrank
  and grew back to the offset. It is excluded by default and enabled by
  "regrow".

### Discovery

* `server` and `who` are the environment: the process on each port, and what
  each process runs. `previous` and `cursor` are the `Manager`. `obs` has the
  locals of the call of `Observe` in progress and `probes` the probe of each
  target; both are cleared when it returns, except for the targets it looked
  at, which `NoTargetStarves` speaks of.
* `Begin` is the listing, the filter and the rotation; `Take` a worker at the
  channel; `FetchMetrics`, `ModelBefore`, `FetchAgain`, `ModelAfter` the four
  requests of a probe, between which `Listen` and `Leave` act; `RequestFails`
  any of them that fails, by its timeout too; `Deadline` the end of the
  context; `Collect` the merge, expiry, eviction and return. After the deadline
  any of the results that have come may be lost to the `select`.
* An observation has the age of its last probe instead of a time; `changed`
  says whether this call set `ChangedAt`. A generation is the listener as it
  was listed and the process start time in the telemetry, if there is one.
* `BackToModel` leaves out what the bracket cannot see, as docs/discovery.md
  says: a port that serves another model and goes back during the lookup. That
  document also says that a restart is missed when there is no start time;
  `DeltasAreSafe` is checked with `HasStartTime`, because the listener is listed
  before the probe and may be another by then.
* A process is the signatures its metrics match, whether it is mlx-serve, the
  models its labels name, those `/v1/models` lists, and the engine it really is.
  `Detect` sees all but the last, which `SamplesLabelled` compares with. `Label`
  is an engine that puts its model on its metrics only once it has served a
  request, between the two snapshots of a probe for instance.
* The diagnostic entry `auto-discovery` is not modelled.

### Pull

* `count` has the work of each worker for each model since the worker started,
  by kind: prefilled, decoded and cached tokens, first tokens of streamed and
  other requests. `Family` and `Histograms` make the engine's body of it: a
  series per worker, model and reporting rank.
* `Map` is the adapter: `SelectModel`, `RankZero`, and per row of a mapping
  (`VLLMRows` ... `Patch0150Rows`) the sum of the selected series per worker.
  `Report` validates, drops duplicates and says what is available. `Scrape` is
  all of that, or a failed request.
* An arm may have any expositions, workers, ranks and missing counters that
  `ArmsAssumption` allows; `MCPull` takes nine of them. `Absent` is the empty
  string, which is what a label that is not there reads as.
* The ranks of one tensor- or pipeline-parallel group are taken to count alike.
  For pipeline parallelism that is what the comment on `rankZero` assumes, and
  docs/adapters.md says "Pipeline-parallel servers are unverified: rank 0 may not
  be the stage that counts tokens". If it is not, `RankZero` drops work, and
  `CountsOnce` does not hold of such a server.
* Between scrapes engines work, a worker restarts (its counters start again),
  leaves, comes back, and the engine is launched with other models.
* `shown` is what a reader of the series has, `since` the work it has not yet
  been told of.

### Exporter

* The collector's variables are those of `Collector`, whose actions are used as
  they are. `c.mu` is free when `pc` is "idle". A scrape belongs to the
  connection or to the `Run` goroutine that is in "scrape".
* `main` walks through `serve`: the select, `Shutdown`, the deferred join of
  `Run` ("join"), `sender.Close` ("release"), the collector's `Close`
  ("close", "return"), the exit. It starts with `Refuse` or `SenderFails` where
  the code returns early.
* When the listener fails, connections that are open stay so and may scrape
  again. `Shutdown` closes idle ones, ends keep-alive, and returns nil only
  when none is active, else an error after its ten seconds, for which any
  moment is allowed.
* After an exit with an error a scrape may follow `Close` and start adapters
  again; the process ends all the same. `CleanExit` therefore speaks of exits
  with 0.

### Registry and DurableQueue

* `Registry` has an owner per backend and the call each launcher is in. A call
  takes effect at once, or not at all. `Registration!IsRegistry` maps the
  rename of `Write` and the removal of `Remove` to these effects; every other
  step, failures and kills included, is a stutter or the refusal of a call.
* `DurableQueue` has the waiting batches, the queues a crash may leave, and the
  last batch transmitted. `RemoteWrite!IsDurableQueue` maps the files to the
  first, `images` to the second and `posted` to the third. The directory sync
  is `Commit`; everything the threads do under and around `mu` is a stutter.

## What the runs check

| Run | Bounds | Result |
|---|---|---|
| `rw_safety` | 3 series and 2 destinations (symmetric), timestamps to 3, batches of 2, cap 4 bytes; failing writes, reads, removals; crashes anywhere but between a queue file and its checkpoint (`rw_torn`) | `TypeOK`, `MemoryMatchesDisk`, `NoSilentGhost`, `CapHoldsOnDisk`, `RightReceiver`, `HeadIsSent`, `FIFO`, `IsDurableQueue` hold |
| `rw_live` | 1 series, 1 collection and the final marker per process, cap 1 byte, so that a leftover file exceeds it; every fault, crashes, a receiver that may never answer | `ShutdownEnds`, `HeadLeaves` hold |
| `col_safety` | 2 backends, 2 registrations each, 5 arms | `TypeOK`, `OneCollectInFlight`, `CloseIsSafe`, `NoLeak`, `ReportsCurrentRun` hold |
| `col_live` | 2 backends, 1 registration each (that goes and returns), workers may hang | `ScrapeEnds`, `Heals` hold |
| `reg` | 3 processes, 1 run and the default one, any initial file | `TypeOK`, `NewestLaunchKept`, `NeverBlinks`, `CallsReturn`, `IsRegistry` hold |
| `tail` | buffers of 2, calls of 3, lines of 2, 2 logs of 4 bytes | `TypeOK`, `CountsLines`, `ExposesTheLog`, `CatchesUp` hold |
| `disc_safety` | 2 ports, 2 processes, the line-ups of `MCDiscovery` (engines that have to be asked, that name their model at once or after their first request, several signatures or models in one body, mlx-serve), 1 target per call, 1 observation retained | `TypeOK`, `SamplesLabelled`, `ReadyIsFresh`, `CapSparesFresh`, `PinsWin`, `DeltasAreSafe` hold |
| `disc_live` | 2 ports, 2 processes, 2 targets per call, 1 worker, nothing remembered | `NoTargetStarves` holds |
| `pull` | 9 arms over 5 expositions (see `MCPull`), 2 models, up to 2 workers and 3 ranks, 2 pieces of work, 2 restarts | `TypeOK`, `CountsOnce`, `AbsentIsNotZero`, `RateNeverOvercounts` hold |
| `exporter` | 1 backend whose registration goes and returns, 3 arms, 2 connections, with and without remote write | `CleanExit`, `FlushesBeforeExit`, `ServeReturns` hold |

The bounds are the smallest at which the cases meet. Three batches and a cap of
two full ones make a queue that is full, drained and full again around a
crash, and three series let one stay, one vanish and one appear. Two backends
separate what is per backend from what is per scrape; with two registrations
an arm can change twice while its first worker hangs. `MCCollector` assumes
that addresses never run out. Three launchers are an old stop, a new start and
a third that waits. With buffers of 2, calls of 3 and logs of 4 bytes, a line
crosses a buffer, a call and the line limit, and the log outgrows one call.
Discovery retains 4 observations per target of a call and has 4 workers; the
runs have one of each (`Factor`, `Workers`), so that two ports are enough for
one to be evicted and for one to wait behind the other. Two pieces of work and
two restarts let a worker be counted, start again and be counted at its old
value. Two connections and `Run` are a holder of `c.mu`, a handler that waits
behind it and the goroutine that is joined. `MaxErrors` is 0 where
the counters do not matter.

### Disagreements between code and text

Two runs end in a counterexample to something the repository says of itself:

* `rw_torn`: `restore` handles a crash between a queue file and its checkpoint
  by taking the newer file, but never rewrites the checkpoint. When that file
  is delivered and the process dies again, the old checkpoint is all there is,
  and series the receiver shows are forgotten. A failed checkpoint write leads
  to the same state.
* `col_errors`: while the worker of an earlier registration hangs, a placeholder
  arm is made anew by every scrape, so its error counter never passes 1. In the
  counterexample the worker hangs in the first scrape, the registration is
  replaced, and the next two scrapes each make a placeholder. The run takes
  `ServingSpec`, which has no `Close`: what a process counts after it has
  dropped its arms on the way out is no statement about registrations.

### Known limits

Two more facts about the code are in the models, switched off in the runs:

* With `Faults = {"sync"}` in `RemoteWrite`, `FIFO`, `CapHoldsOnDisk` and
  `IsDurableQueue` fail: when the directory sync in `atomicWrite` fails, the
  queue file stays, unknown to the sender and to `QueuedBytes`, and is posted
  out of order after a restart. docs/remote-write.md says "Delivery is FIFO",
  and of storage errors only that they "may lose the affected observation".
  With `{"rmsync"}` `IsDurableQueue` fails: a file whose removal was not synced
  may be back after a power loss.
* With "regrow" in `Disturbances` of `Tail`, `ExposesTheLog` fails: a log that
  was truncated and has grown past the offset before the next call is read on
  from the offset, while the comment of `Read` says that a file that shrank
  since the last call is read from its start.

## Fairness

* `RemoteWrite!FairSpec`: weak fairness of the collection thread, the delivery
  loop and each call of `sendOne`. The scheduler runs goroutines, `Gather` is
  bounded by the adapter timeout, and the HTTP client by its own: a post always
  ends, by an answer or by `SendFails`. Nothing is assumed of the receiver or
  of the storage. `HeadLeaves` has its own premise, `ReceiverIsUp`: what is
  tried again and again succeeds one day (strong fairness of each step of a
  delivery). Without it the head may stay, as it must.
* `Collector!FairSpec`: weak fairness of the scraper alone; workers may hang.
  `Heals` has as its premise that scrapes keep coming and that no worker hangs
  for ever. That `sync` and `Close` end rests on adapters whose `Start` and
  `Close`, which run under `c.mu`, return at once. All three kinds in the
  repository do (they set fields, or do nothing); an adapter that blocked there
  would hold every scrape, and is not modelled.
* `Registration!FairSpec`: calls run unless killed, and flock is granted to
  whoever keeps waiting.
* `Tail!FairSpec`: the log is created, the exporter is scraped, and reads do
  not fail for ever. That the log stops growing is its bound; that it is no
  longer truncated is the premise of `CatchesUp`.
* `Discovery!FairSpec`: scrapes keep coming and each step of `Observe` ends, by
  the timeout of a request at the latest. `NoTargetStarves` has as its premise
  that the set of targets no longer changes and that workers get to take their
  first target before the deadline (`~Early`); it may pass at any time after.
* `Exporter!FairSpec`: weak fairness of the main goroutine, of a scrape in
  progress (bounded by the adapter timeout) and of the end of `Run` (bounded by
  the HTTP timeout: `rw_live`); strong fairness of `CloseLocks` and `RunLocks`,
  because a contended `sync.Mutex` goes to the goroutine that has waited
  longest. Nothing is assumed of clients and workers: a client may never read
  its response, which is why `Shutdown` needs its timeout.

## What is proved

All proofs are checked by TLAPS, for all values of the constants that satisfy
the named assumptions. Every invariant and every action property of a passing
run is a theorem. Each inductive invariant was an invariant of a TLC run before
it was proved. The leaves are kept small: all eight proof modules also check with
`tlapm --stretch 0.2`, a fifth of the provers' usual time.

**`RemoteWriteProofs`**, for every set of faults. Assumptions:
`SeriesAssumption`, `BoundsAssumption`, `FaultsAssumption`,
`DestinationsAssumption` (no destination is the absent one).

* `TypeCorrect` and `SendsTheHead`. The types are not inductive alone: that
  `Tail(files)` is a sequence needs `HeadIsSent`. So both are proved together,
  with the finiteness of directories (sizes are cardinalities), and `Threads`:
  the two callers of `sendOne` are never active at once, because `Run` joins
  the delivery loop first. That makes the section without `mu` safe: enqueue
  only appends, and nobody else pops.
* `RightDestination`, for `RightReceiver`. Strengthened by `Owned`: every image
  a crash may leave has queue files only under a manifest that names their
  destination.

**`QueueProofs`**, for `Harmless` faults: a file operation may fail as a whole,
and crashes fall anywhere except between a queue file and its checkpoint. The
hypothesis is what the code needs: each of the four other faults breaks one of
these properties, a failing directory sync the refinement (*Known limits*), and
a torn or failed checkpoint `NoSilentGhost` (`rw_torn`).

* `MemoryIsDisk`, `CapIsKept`, `PostsInOrder` and `ImplementsDurableQueue`
  follow from `QueueInv`. `Images`: outside the windows between a rename or
  removal and its sync, `images` is `{dir}`; inside them an image differs from
  `dir` by the one file in question; and each is `WellFormed`: timestamps are
  distinct, the checkpoint is that of the newest file, nothing is older than
  what was posted. `Remembers`: `files` is the sorted directory without the file
  whose sync is outstanding, `QueuedBytes` its size, `previous` and `timestamp`
  the checkpoint, and the batch being written is newer than all of it and fits.
  `Holds`: what `sendOne` has in its hands is the oldest file of every image. In
  the refinement the directory sync is `Commit`; the crash may take any image,
  since each of them is a queue the abstract crash allows.
* `NothingForgotten`, for `NoSilentGhost`. Strengthened by `Covered` and, in
  `WellFormed`, by `Chained`: each batch has, as value or as stale marker, every
  series active in the batch before it, and the oldest waiting one every series
  the receiver shows, or will show when a late request arrives. A snapshot that
  is dropped at the cap does not break the chain, because `previous` is then
  left as it was.

**`CollectorProofs`.**

* `Invariant`, and from it `OneCollect`, `SafeClose`, `NoAdapterLeaks`,
  `TypeCorrect`. The inductive invariant says: a call is in an adapter exactly
  when `busy` is set, and then the adapter is open (`Life`); a busy or open arm
  is in `arms`, or it is closed and in `retired` (`Located`); a backend with a
  busy retired arm has no other arm with an adapter (`Held`); between the two
  halves of a replacement the old arm is closed (`CurClosed`); the loops that
  drop arms only visit arms that exist (`TodoMapped`).
* `ReportsCurrent`, for `ReportsCurrentRun`, from `RunInv`: an arm that `sync`
  has passed was made for the registration this scrape loaded (`Fits`,
  `Synced`), one whose registration is gone is left to the drop loop
  (`Dropped`), and one that is waited for is not closed until the scrape has
  reported (`Called`).

**`ExporterProofs`**, with `CollectorAssumption`, which is what `Collector`
assumes of its constants.

* `ImplementsCollector`: a process is a collector. Every step of `serve`, of
  handlers and of `Run` is a collector's step or leaves it alone.
* `ExitsCleanly`, `FlushesFirst`: an exit with 0 leaves no adapter open, and the
  last snapshot is made before. From `Mutex` (a scrape in progress has an owner,
  and `Close` is the main goroutine's), `Order` (`Run` has returned before the
  queue is released, and that comes before `Close`) and `Stopped` (an exit with
  0 means that the server is closed and drained, so that no scrape starts
  adapters again after `Close`).

**`RegistrationProofs`.** `TypeCorrect`. `NewestLaunchIsKept`, strengthened by
`RemoverOwns`: between the comparison and the removal the file is the one
compared, since only the holder of the lock changes files.
`LoadDirNeverBlinks`, strengthened by `SteadyIsLoaded`: what was steady since
the directory was listed and has been visited is in the result.
`ImplementsRegistry`: the refinement, from the same invariant; the step that
matters is `RemoveFile`, where `RemoverOwns` makes the abstract guard true.

**`TailProofs`.** Assumption: a kept line is never shorter than a buffer
(`SizesAssumption`), as both adapters configure it. Without it, a line that lies
in one buffer would be counted however long it is.

* `TypeCorrect`, and `LinesAreCounted`, strengthened by `LineState`, which ties
  `partial` and `skipping` to the bytes after the last newline.
* `ExposesWholeLog`, for `ExposesTheLog`, where no log shrinks and grows back
  behind the reader (`"regrow"` is not among the `Disturbances`; see *Known
  limits*). From `OnDisk`: what was read is the beginning of the file the offset
  belongs to (`Begins`), or that file was truncated and is shorter than the
  offset, so that the next `Open` notices.

**`DiscoveryProofs`.** Assumption: `SetsAssumption`.

* `TypeCorrect`, `ReadyWasProbed`, `PinsAlwaysWin`, `CapAlwaysSpares`, without
  further hypotheses: whatever the bodies are and whichever processes come and
  go between the requests of a probe.
* `DeltasAlwaysSafe`, with `HasStartTime`: without a start time in the
  telemetry a restart can be missed, as docs/discovery.md says.
* `LabelsAreRight`, for `SamplesLabelled`, where every process is `Honest`:
  metrics that match one engine alone are that engine's, and labels, where there
  are any, name what is served. From `ReadyServes` and `Bracket`: after the
  second snapshot, while the port still serves the model read before it, so does
  the process whose samples are mapped.

**`PullProofs`.** Assumptions: the sets of models are finite and none is the
absent label (`ModelsAssumption`); only vLLM and SGLang have several workers,
and of the ranks that report for a worker one is to be counted
(`ArmsAssumption`): SGLang's all report and one is the first of each group, as
the comment on `rankZero` says; of the others one reports.

* Sums first. What `SumFunction` is for every finite set is an induction, done
  on a least counterexample: `WFMin` takes a set of them as its parameter, which
  the provers can instantiate, where the induction rules take a predicate. From
  `SumTake` (a sum is one of its terms plus the rest, whichever is taken) follow
  `SumSplit`, `SumLe`, `SumImage` and, for sums over workers, models and kinds
  of work (`Cube`), that they add up by worker (`CubeByWorker`).
* Then the body: `SelectModel` and `RankZero` leave one series per worker for
  each row of a mapping (`TakenIs`, from `RowsSelectOne`: a row selects one
  counter), so that `Map` yields a counter per worker and kind it has
  (`RowUnion`, `HistogramIs`), of which `report` drops none (`SampleKeys`).
  `ReportTells` puts this together: a scrape exposes all of the work, once, or
  nothing.
* `TypeCorrect`, `WorkCountsOnce`, `AbsentNeverZero` and `IncreaseIsWork` follow
  from the invariant `IInv`: models the engine no longer has have no work
  (`Engine`); there was no more work than was done (`Budget`); a fresh output is
  what a scrape tells (`Output`); and for every series ever exposed (`Tracked`)
  the worker's counter is what was exposed last plus the work since, unless the
  worker started again, and then it is at most the work since. The last makes
  each series' increase at most its worker's work, for a reset as well.

### Only model-checked

* Liveness, which with `ENABLED` is out of the prover's reach: `ShutdownEnds`,
  `HeadLeaves`, `ScrapeEnds`, `Heals`, `CallsReturn`, `CatchesUp`,
  `NoTargetStarves`, `ServeReturns`.

## What is not modelled

The `auto-discovery` entry; character-level parsing (`Parse`, `FromQueryJSON`,
`ParseLine`, `ParseFinish`, YAML) and the tables of metric names; the
measurements that go through the same `Builder` calls as those of `Pull`; the
combination of log and pull samples in TensorFold's `LogAdapter.Collect`; the
status counters of remote write, which nothing reads back; `autoArms`, which
hold no adapter and no worker. A power loss in the registration directory is
left out, since nothing there promises durability. Listener enumeration
(`listeners.go`), flags, logging, `health` and the release scripts are I/O or
have no state. A second SIGINT or SIGTERM changes nothing, because
`signal.NotifyContext` goes on catching them until `serve` returns; a SIGKILL is
the `Crash` of `RemoteWrite`. A read error inside `LoadDir`, of the directory or
of a file that is there, is left out: such a registration is missing from that
scrape, so `NeverBlinks` holds only where reads succeed.

## Plan

1. Done: `RemoteWrite`, `Collector`, `Registration`, `Tail`, `Discovery` with
   `Detect`, `Pull`, `Exporter`; `Registry` and `DurableQueue` with the
   refinements to them; the runs.
2. Done: the theorems above, for every safety property of these modules.
3. Left: the parts listed under *What is not modelled*, where they have state.
