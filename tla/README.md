# Verification of Yandex.Tank

TLA+ models of the parts of Yandex.Tank whose correctness depends on the order in which
things happen: processes that share a lock directory, a worker that can be stopped,
interrupted or killed anywhere, plugins that raise, threads that hand seconds of results
to one another, requests that are repeated after a lost answer, files that are used again
by the next run.  Every definition is translated from the source it names in
`PROJECT.json`; TLC checks the modules on small instances, and TLAPS proves what matters
most of twelve components for every instance.

Contents: [the system](#the-system), [components](#components), [modules](#modules),
[runs](#runs), [bounds](#bounds), [fairness](#fairness), [proofs](#proofs),
[simplifications](#simplifications), [what the code does otherwise](#what-the-code-does-otherwise),
[not modelled](#not-modelled).

## The system

A *tank* is one load test.  `cli.main` constructs a `TankWorker`, a process that owns a
`TankCore`.  The core loads the plugins of the configuration (a load generator, monitoring,
uploaders, reports, autostop, checks) and takes all of them through the stages of a test:
configure, prepare, start, poll until one wants to stop, end, post-process, clean up.
While the test runs, results flow like this:

    generator process --> phout file --> FileMultiReader / PhantomReader --+
    BFG processes --> results queue --> cacher, listener --> phout file ---+
                                                                           v
        DataPoller --> TimeChopper --> Aggregator --> Drain thread --> results queue
        stats reader ------------------------------> Drain thread --> stats queue
                                                                           v
             TankAggregator (in the poll of the core) joins both by second
                                                                           v
         listeners: Autostop, DataUploader, Console, reports, the generators' widgets
                                                                           v
         Autostop.is_test_finished() >= 0 ends the poll loop of the core

Four kinds of interaction make it hard:

* *processes of one host*: tanks meet in the lock directory (`TankLock`);
* *parent and child*: `cli.main` stops, polls and joins the worker; Ctrl-C reaches both, and
  the worker may be killed (`TankWorker`);
* *threads of a tank* share files, queues and events: readers, drains, the poll loop, the
  feeder and the pool of BFG (`PhoutReader`, `TankAggregator`, `BfgPool`, `BfgReader`);
* *calls in both directions*: plugins are listeners of the aggregator, which is polled and
  ended by the core that polls and ends the plugins; each may raise.

## Components

State, operations, what is hard, and what makes the component correct.  The full list with
the sources, also of what is not modelled, is in `PROJECT.json`.

**Tank lock** (`core/tankcore.py` class `Lock`, `TankWorker.get_lock`).  State: the lock
files of a directory, each with a pid.  Operations: `acquire`, `release`, `is_locked` (list,
load, check the pid, remove what is stale).  Hard: every step is a system call that other
processes interleave with; killed tanks leave files; pids come back.  Correct when a running
tank keeps its file, nobody else removes it, two tanks run together only if they raced, met a
stale file or ignore locks, and a waiting tank is served.

**Worker and command line** (`core/tankworker.py`, `core/cli.py`, `Cleanup` and `Finish` of
`common/util.py`).  State: status, return code, message, the cleanup actions registered so far,
the `interrupted` event, the artifacts.  Operations: the stages of `run`, the exits of the two
blocks, `stop`, `join`.  Hard: exceptions and KeyboardInterrupts out of any step, five places
that change the code, a parent that polls a status it does not own.  Correct when what was
acquired is released however the run breaks off, 0 means a complete test, the code that is
saved, polled and exited with is one, and a stopped tank ends.

**Plugin stages** (`core/tankcore.py`).  State: the plugins in order, how far each came.
Operations: `plugins_configure` to `plugins_cleanup`, `wait_for_finish`.  Hard: one plugin
raises after others did their part; `end_test` can change the code, raise, and is called twice
for some.  Correct when no plugin is post-processed before all were ended, and a failure shows
in the code.

**Chopper** (`aggregator/chopper.py`).  State: per source the newest second, per second the
cached rows.  Operation: `__iter__`.  Hard: sources of different speeds that end or fail in the
middle of a round.  Correct when the rows come out once, by ascending second, complete.

**Aggregator** (`aggregator/tank_aggregator.py`, `Drain` of `netort/data_processing.py`).
State: two queues, two caches, two threads.  Operations: `start_test`, `_collect_data`,
`is_test_finished`, `end_test`.  Hard: halves of a second arrive in any order; listeners raise;
threads outlive the wait for them.  Correct when each second is given once with its own
statistics, and what is missing was in hand at an exception or was warned about.

**Result files** (`FileMultiReader`, `PhantomReader`, `_data_poller`).  State: one file object
with a position, a lock flag, per reader a cursor and the start of a line.  Operations:
`read_with_lock`, `__next__`, the stop event of the generator's plugin.  Hard: several readers
move one position; the generator writes on while it is told to stop.  Correct when each reader
parses the lines of the file from its beginning, whole and once, and ends.

**BFG** (`plugins/Bfg`).  State: a bounded task queue, a pool of processes, a bounded queue of
results, `quit` and `close_event`, the list of records.  Operations: the feeder, a process's
loop, `stop`, the cacher, the listener.  Hard: killer tasks and full queues, a stop at any time,
a list that is swapped while another thread appends.  Correct when a task is shot at most once,
a result is in one place, and pool, `end_test` and threads end.

**Autostop** (`plugins/Autostop`).  State: per criterion a count or windows of values and
seconds, the cause, the second whose rate is reported.  Operations: `on_aggregated_data`,
`is_test_finished`.  Hard: long sequences of seconds, windows that are trimmed at different
points, several criteria in one second, tags that a second may lack.  Correct when the test
stops at exactly the first second that asks for it, with the right cause.

**Uploader** (`plugins/DataUploader`).  State: the job and its number, the targets that are
locked, two queues with a sender thread each, a status thread, the shared event `interrupted`,
the attempts a call has left.  Operations: the stages of the plugin, `LPJob`, `APIClient` with its
retries.  Hard: the service may do what it is asked and its answer be lost, one thread's failure
stops all, cleanup repeats what post-processing did.  Correct when each stream arrives in order
and complete unless something told it to stop, nothing is pushed to a closed job, and targets and
job are released.

**Telegraf monitoring** (`plugins/Telegraf`, with its agent and the `Drain` and pipeline of
netort).  State: the two newest seconds an agent caches, four queues on the way, `prev_check`,
the chunks the collector holds.  Operations: the stages of the plugin, the agent's loop, the
drains, the decoder, the metric criterion.  Hard: lines of a second come late, output that is not
JSON, polls that fail, threads that are no daemons.  Correct when the listeners get the seconds of
a target once, in order and exact, and the plugin ends.

**Panels** (`common/monitoring.py`, `plugins/YCMonitoring`).  State: a window of time per sensor,
the queue and buffer of a panel, the collector's buffer.  Hard: the window moves on although a
request failed or the service lags; a panel is closed while its sensor waits for an answer.
Correct when what the service had in the windows that were passed is published.

**Stepper and resources** (`stepper`, `netort/resource.py`).  State: the ammo file on its server,
the downloaded copy, the stepped file and what is known of it (`si`), all shared by the tanks of a
machine; per run its place in the file, the plan, the counters.  Operations: the load and instance
plans, the readers, loops and limits, `StepperWrapper`, the openers.  Hard: runs that are killed
between two writes, files that change on the server, caches that are named after a hash, limits at
their boundary.  Correct when a run is ready with exactly the missiles its configuration asks for.

**Generators** (`plugins/Phantom`, `Pandora`, `JMeter`, `ShootExec`).  State: the process, the files
it writes, the reader of results and the reader of statistics, the stages of the tank.  Operations:
the configuration of streams and pools, start, poll, end, the readers.  Hard: a process that fails
at once, is killed or does not obey; what it writes while it is told to stop; files of an earlier
test.  Correct when the results are those of this test, whole and once, a failure is told, and the
test ends.

**Data session** (`netort/data_manager`).  State: the metrics, the routing queue, the router's
buffers, the threads and locks of the clients.  Operations: `metric`, `put`, `update`, `close`,
`interrupt`; the router; Luna's registration and upload; the local and the Volta client.  Hard: rows
of a metric wait until it and its parent are registered, uploads are repeated in halves, threads are
stopped one after another.  Correct when the service holds every row once under a registered metric
and the session closes.

**Not modelled**: configuration and its validator, validation of ammo files, console, reports and
metric uploaders.  See [the end](#not-modelled).

## Modules

| module | models | state -> code | actions -> code |
|---|---|---|---|
| `TankLock` | the lock directory and every tank that uses it | `dir` the files, `pc`/`cur`/`pid`/`locked` the locals of `acquire` and `is_locked`, `run` the process a pid belongs to | one system call each: `ListNone`, `ListFile`, `LoadFails`, `LoadPid`, `Check`, `Sweep`, `Create`, `Write`, `Unlink`; `Start`, `Refuse`, `Launch`, `Retry` of the constructor and of `get_lock`; `Reap` the parent's join |
| `TankStatus` | what a worker promises to whoever polls it | `status`, `code` | `Prepare` ... `Finished`, `Break` |
| `TankWorker` | `TankWorker.run`, the stages of `TankCore`, `cli.main` | `pc` the place in `run`, `order` the plugins, `registered` the cleanup actions, `rc` the local code, `retcode`/`status`/`saved` what others see | one call of a plugin each: `Configure`, `Prepare`, `Starting`, `Poll...`, `EndGenerator`, `EndMonitor`, `EndPlugin`, `PostProcess`, `CleanPlugins`; `Fault`, `Sigint`, `Kill`; `Stop`, `Exit`, `PressEnter` of the command line |
| `SecondStream` | what a consumer expects of a reader | the seconds given | `Emit`, `End` |
| `TimeChopper` | the generator `TimeChopper.__iter__` | `recent`, `cache`, `live` its attributes | `ReadChunk`, `SourceOver`, `SourceFails`, `Emit`, `Flush` |
| `TankAggregator` | the aggregator with its two threads, over two instances of `SecondStream` | `results`, `statsResults` the queues, `dataCache`, `statCache` | `GunPut`, `StatsPut`, `Check` of a thread; `TakeData`, `TakeStats`, `JoinData`, `JoinStats`, `Flush` of `_collect_data`; `WaitGun`, `WaitStats` of `end_test` |
| `PhoutReader` | a file, its readers, the plugin's event | `pos` the shared position, `locked`, `cursor`, `buffer` | `Lock`, `Seek`, `Read`, `Tell`, `Over`, `Part`, `Nothing`; `Write`, `ProcessExits` the generator; `SeenGone`, `Terminate`, `Terminated` the plugin |
| `BfgPool` | feeder, processes, `stop` | `taskQueue`, `quit`, `feeder`, `worker` | `Put`, `PutKiller`, `Take`, `Shoot`, `Teardown`, `Stop`, `Empty`, ... |
| `BfgGreen` | the processes that shoot with green threads | `greenQueue`, `greenlet`, `free` | the pass of the main green thread, `Get` and `Shoot` of the others, the join |
| `BfgReader` | cacher and listener threads | `records`, `taken`, `report` | `Get`, `AppendItem`, `LookClosed`, `Swap`, `Write`, `CacherJoined` |
| `Bfg` | pool and reader together | shared `results` and `closeEvent` | a step of either |
| `Autostop` | the plugin and its criteria | `mem` the attributes of each criterion, `cause_criterion`, `imbalance`, `counting` | `OnAggregatedData`, `OnLaterData`, `IsTestFinished` |
| `ApiClient` | `APIClient` and the methods of `LPJob` that call it | `call` the attempts a thread's call has left, `taken`, `jobs`, `held` what the service has | one request each |
| `Uploader` | the plugin's stages and threads | `main` the stage, `thread`, `queue`, `locked`, `cleanups` | the stages; `Put`; a sender's loop and purge; the status thread |
| `TelegrafAgent` | telegraf, the agent, the tank's ends of it | `ag` the caches and queues of every host | writing, reading, dumping and printing lines; decoding a block |
| `MonitoringPanels` | sensors, panels and their collector | `sensor` the window, `panel` the queues and buffers | a request, a flush, a poll |
| `Monitoring` | the stages of either plugin, and the criterion | `stage`, `agents`, `collected`, `published`, `criterion` | the stages, `Poll`, `Uninstall`, ... |
| `LoadPlans` | load and instance plans | functions of a list of steps | |
| `HttpStream` | an ammo file read from its HTTP stream | `hs` buffer, pointer, what is left | `StreamLine`, `StreamRead`, `StreamSeek` |
| `Resources` | the openers and what they leave on disk | `server`, `disk.tmp` | HEAD and GET, each of which may fail; the download in two steps |
| `Stepper` | readers, loops, limits, the stepped file | `run` the place of every run | `Detect`, `Truncate`, `Step` |
| `StepperWrapper` | the cache of stepped files; runs one after another and side by side | `disk.stpd`, `disk.si` | `Begin`, `Check`, `Load`, `Make`, `OpenSi`, `WriteSi`, `Kill` |
| `GeneratorConfig` | what the options make of the streams, pools and plans | functions of the options | |
| `ResultFiles` | the file of results, its reader, the statistics and theirs | `out`, `reader`, `stat` | reads, empty reads, closes |
| `Generators` | the process, the plugin, the tank that calls it | `proc`, `tank` | configure, prepare, start, poll, end, join, after, post, for each generator |
| `MetricsRouter` | metrics and the router thread | `routing`, `router` | a pass of the router, its stop |
| `LunaClient` | registration and upload | `register`, `worker`, `lock`, `server` | one request or one queue operation each |
| `DataSession` | the session with its clients | `main` the user's calls, `local` | the constructor, the program, `close` |

`MC*` modules name the small sets the configurations use; `*Proofs` modules hold the theorems.

Composition: `TankWorker` implements `TankStatus` and `TimeChopper` implements `SecondStream`
(a refinement mapping and the abstract specification as a property, both also proved);
`TankAggregator` takes its input from two streams of `SecondStream`; `PhoutReader` is where the
sources of the chopper come from; `Bfg` runs `BfgPool` and `BfgReader` in parallel over the
variables they share; `Autostop` is a listener of `TankAggregator`, whose answer is one of the
codes a plugin's poll gives in `TankWorker`.  `Uploader` extends `ApiClient`, `Monitoring` extends
both ways of monitoring, `StepperWrapper` extends `Stepper` (over `Resources` and `LoadPlans`) and
`HttpStream`, `Generators` extends `GeneratorConfig` and `ResultFiles`, `DataSession` extends
`LunaClient`, which extends `MetricsRouter`: in each of these threads of several parts run side by
side over the state of all.

## Runs

One run for each component that has a state of its own; all pass.  A property named below is what
the configuration checks; several are conjunctions of named parts, which the comment above each
part explains.

* `TankLockSafety` (`LockSafe`, `WaiterServed`): no tank starts beside one whose lock it could have
  seen, a running tank keeps its lock file however late another tank's `os.remove` comes and whoever
  got its pid, only lost runs leave files behind; a waiting tank is served unless such a file blocks
  it.
* `WorkerSafety` (`EndsCleanly`, `Implements`, `StopReturns`): one run with four plugins (generator,
  monitoring plugin without a collector, RCAssert, an uploader that may disable itself), every two of
  them in both orders, one exception, one KeyboardInterrupt and a kill anywhere, also between the
  creation of the lock file and the registration of its release.  The lock outlives the load; what was
  prepared is cleaned up; a lock file is left only by a run that broke off in that window, which called
  no plugin and reports a failure; 0 means complete; the saved code is final; post-processing follows
  every `end_test`; the status machine is implemented; a stopped worker and its command line end.
* `ChopperSafety` (`RowsWhole`, `EverythingGiven`, `Implements`): three sources that end or fail in
  any order lose nothing, give complete seconds, and form a stream as `SecondStream` demands.
* `AggregatorSafety` (`SecondsOnce`, `SecondsTogether`, `EndReturns`): samples and statistics, with
  and without gaps, in any order; threads that hang; listeners that raise.  Each second once, its own
  statistics, ascending if gapless, and the end of the test returns.
* `ReaderSafety` (`ReadsWhole`, `ReadersEnd`): two readers of one file that is appended to in any
  portions.  Each parses the lines from the beginning; all of them if its last read began after the
  event of a plugin that waited for its process; and each ends after the event.
* `BfgSafety` (`AccountsAddUp`, `PoolEnds`): two processes, of either worker type, queues of one,
  failing guns, a stop and an interrupt at any time: where each task and each result goes, and that
  the pool, `end_test` and the threads end.
* `AutostopSafety` (`StopsAsAsked`): eight configurations over all sequences of five seconds of four
  kinds.  The criteria, which remember a few numbers, are compared with a reference that looks at all
  the seconds so far: the test stops at the first second that asks for it, the cause is the last
  criterion that asks, and the rate is the one of its interval.  What "asks" means is read as the code
  compares, not as the documentation does: see [below](#what-the-code-does-otherwise).
* `UploaderSafety` (`PushedInOrder`, `QuietRunUploadsAll`, `CleanedUp`, `NothingAfterClose`,
  `TankEnds`): two senders, two targets, one or two faults anywhere, a stop by the tank or by the
  service.  Streams arrive in order, whole if nothing stopped them, never after the job was closed;
  what the plugin knows of is released; its stages come to an end whatever the service does, unless a
  target stays locked whose lock may not be ignored: for that the plugin waits without end.
* `MonitoringSafety` (`SecondsExact`, `TriggersExactly`, `PanelsGiveAll`, `PluginEnds`): two hosts
  with late lines and trash, a poll that fails, a metric criterion that triggers, starts its count
  again, and is given seconds after a failed poll; or a panel with two series and a service that lags
  or fails.
* `StepperSafety` (`ReadyIsWhole`, `FreshAmmo`, `PlanGivesLoad`, `StreamIsFile`, `PrepareEnds`): every
  kind of reader, limit and plan; three runs over one cache with kills, failing requests and a file
  that is replaced; a stream against the file it stands for.  Every run ends, but for one that looks
  without a limit for ammo its file does not have.  Slow logs and markers that are text fail at their
  first missile, as they do in the code.
* `GeneratorsSafety` (`InfoAddsUp`, `ReadsThisWhole`, `StatsOnce`, `FailureIsTold`, `TestEnds`): the
  four generators with the failures each can meet, ended by themselves, by another plugin or by an
  interrupt, before and after the start; a command of ShootExec's shell that outlives the shell.  The
  statistics come once, in order; what is missing of them was taken by a `readline` at the end, came
  after a queue was found empty for the last time, or was left by a poller that had given up.
* `DataSessionSafety` (`QuietKeepsAll`, `SecondsWhole`, `StoredAsGiven`, `NothingAfterClose`,
  `SessionEnds`): six programs with metrics that are raw, aggregated and children of others, lost
  answers and failed requests, a close and an interrupt.

## Bounds

Every bound is a named constant in a guard or in the set an action chooses from.

| run | bounds | why they are enough |
|---|---|---|
| `TankLockSafety` | two pids, three runs, two lost runs; one pid ignores locks | three runs give a pid to a second process while its first file is still there, and let a late `os.remove` meet it; the interleaving hazards involve two tanks |
| `WorkerSafety` | four plugins, one of each role that changes the path (generator, bare monitoring, RCAssert, uploader), in four orders; one fault, one KeyboardInterrupt | the exits are nested two deep: a fault and an interrupt reach every pair of handlers; roles, not numbers of plugins, select the code path |
| `ChopperSafety` | three sources, three seconds, two chunks each | the slowest, the fastest and one that ends in the middle of a round |
| `AggregatorSafety` | three seconds, two raising listener calls | one second in a cache, one in hand, one in a queue |
| `ReaderSafety` | two readers, four characters, ends of lines after 1 and 3, reads of three, one idle wait | lines that are whole, split by a read, and without an end; a second reader between any two steps |
| `BfgSafety` | two processes; two tasks, or one and one green thread; both queues of one, two attempts at the killers, one interrupt | every queue is full and empty; one process dies while the other waits; with one green thread a second take finds none free |
| `AutostopSafety` | five seconds out of four, windows of two and three, two clock readings | windows fill, overflow and are trimmed twice; streaks break and start again |
| `UploaderSafety` | two seconds and one chunk, two targets, one or two faults, or a target that stays locked; two attempts on network errors, one on others | an item waits behind one that is repeated; the second target fails after the first was locked; the attempts run out |
| `MonitoringSafety` | four or five seconds of a host, late by one at most, one host with trash, limit of two seconds, three levels of which some are over; four seconds of a service, one failed request | the cache of two seconds overflows twice; a streak reaches the limit, breaks and starts again; a window is moved over a failure |
| `StepperSafety` | `MostMissiles` 30, one retry, three runs, two versions, two kills or faults; texts of six bytes, chunks of two | a run that finds what a killed one left, and one that finds what that one made; ammo that is filtered, empty, bad or never wanted; plans that reach their last second |
| `GeneratorsSafety` | two lines of results and half a line more, two seconds of statistics, each written in two halves, reads of one and a half lines | a read ends in the middle of a line or a block; the last read comes before and after the last write, and a `readline` between the two |
| `DataSessionSafety` | two metrics, five rows, a buffer of one second, two lines an upload, up to two faults | a table is cut in halves; a second leaves the buffer while the session closes; a child waits for its parent |

`CHECK_DEADLOCK FALSE` stands where the system stops: a test that is over, a generator that is
exhausted, bounds on seconds that were used up.

## Fairness

Liveness is checked under fairness that the scheduling of the code justifies:

* `TankLock`: a started tank is scheduled and its test ends; nothing forces anybody to start,
  stop or kill one.
* `TankWorker`: the worker and `cli.main` are scheduled and plugins return from their calls.
  No test has to end by itself and nobody presses a key: `StopTerminates` starts at `stop`.
* `TimeChopper`: the drain asks for the next item until it is told to stop; a poller gives a
  chunk or gives up.
* `TankAggregator`: only the thread of the worker.  The drains may hang in their source for
  ever; `EndReturns` holds all the same, by the timeouts of the joins.
* `PhoutReader`: each reader's thread.  The generator may stay silent or write for ever.
* `Bfg`: something of the pool goes on as long as something can, and so do the two threads of the
  reader; guns return.  Nothing forces a stop, or a killer task to find the queue full.
* `Uploader`: some thread of the plugin goes on as long as one can; every request is answered, fails
  or times out in the end.  Nobody has to interrupt, no fault has to happen.
* `Monitoring`: the tank's threads and the agents run, and a test ends.  Telegraf need not write, the
  service need not answer well, and the end does not rest on polls.
* `StepperWrapper`: each run that was begun goes on until it is ready, failed or killed.
* `Generators`: the main thread, the drains and the poller of statistics; the generator need not write
  or end, and nobody has to stop the test.
* `DataSession`: each thread; strong fairness for the thread that registers metrics, since it competes
  for a lock that the uploading thread takes and gives back again and again.
* `Autostop`: safety only.

## Proofs

Twelve components are proved about, in eight modules (some 33000 obligations).  Every theorem holds for all values of the
constants that satisfy the named assumptions of the module.  `ReaderProofs` speaks of three modules side by
side, which is why `PhoutReader` and `HttpStream` call their specifications `PhoutSpec` and `StreamSpec`;
`LoadProofs` of `TimeChopper`, of `Autostop`, whose specification is `AutostopSpec`, and of `StepperWrapper`,
whose is `StepperSpec`; `ListenerProofs` of `TankAggregator` and of `Monitoring`, whose is
`MonitoringSpec`.  Where a run
checks a conjunction of parts, its parts are theorems and so is the whole: `LockIsSafe`,
`RunEndsCleanly`, `GivesWhole`, `GivesEachOnce`, `PutsTogether`, `ReadsFileWhole`, `AddsUp`,
`StopIsAsAsked`, `FailureTold`, `TestIsRead` and `StatisticsOnce`.  The two theorems
`Refinement` are the property `Implements` of the worker and of the chopper.

| module | theorems | argument |
|---|---|---|
| `TankLockProofs` | types, `HolderSafe`, `OverlapOnlyByRace`, `LeakFree` and `LockIsSafe` of the three; `RemovalByOwner`, the action property that a live lock is removed by its owner only | that a late `os.remove` never hits a live lock rests on what was read long before: runs are distinct and their files fresh, the inspected file belongs to an owner or a finished run (`Inspected`), the pid that was read is that owner's (`ReadPid`), and once it was found dead no active run owns the file (`Condemned`); `CleanAnswer` carries what a listing meant to the moment the tank runs |
| `TankWorkerProofs` | types, `LoadUnderLock`, `LeavesNothing`, `ZeroIsComplete`, `SavedCodeFinal`, `EndBeforePost`, `RunEndsCleanly`, `Refinement` | what holds when a run breaks off depends on where it was, so the invariant says for every part of `run` what is registered (`LockInv`), which plugins were called (`StageInv`), and that a lock file without a registered release is there only in the window between the two, or after a run that broke off in it and called no plugin, whether a failure shows in the code under way (`CodeInv`, `EndInv`), and which status it has (`StatusInv`); the refinement of `TankStatus` follows action by action |
| `LoadProofs`, of `TimeChopper` | types, `LosesNothing`, `GivesAscending`, `GivesComplete`, `GivesWhole`, `Refinement` | pieces are numbered below their source's counter, so the next is new; every second given lies below what each live source and the cache still hold (`Behind`, `Below`) |
| `ListenerProofs`, of `TankAggregator` | types, `GivesOnce`, `LosesNothing`, `GivesEachOnce`; `ComesWithItsOwn`, `ComesInOrder`, `PutsTogether` | a second is in one place at a time (`Placed`, `Apart`) and in one at all (`Accounted`), and nothing enters the queue after the end emptied it unless the user was warned (`Quiet`).  No second waits in both caches, and statistics are cached no more once the flush began (`Owned`); where both streams give every second, the two caches hold what one is ahead of the other, and all before is given (`Lined`) |
| `ListenerProofs`, of `Monitoring` | `PanelsInductive`, `PanelsGave`; `TelegrafInductive`, `TriggersAsSaid`, `StepsInductive`, `SecondsAreExact` | for the panels, every second before the sensor's window was fetched, and is in the queue, in the panel's data or published (`Windows`); the panel's thread empties its queue after the sensor's last request and is joined before the plugin takes the rest (`PanelsClose`).  For Telegraf, the state of the criterion counts the end of what was published (`Counts`: the streak since the last second that was not over the limit), and what was decoded and not published is there only while the test is polled, or after a poll that met trash (`Gathered`), so that `end_test` publishes it.  That seconds come one by one is about all their places at once: the blocks in the queue and the lines in the pipe follow the last second decoded (`OnTheWay`), the cache holds only what comes after what was given out, and the two newest seconds of it (`CachedIs`: a line late by one second finds its second still there), and the published seconds of a host run without a gap from its first up to the last decoded (`Runs`); so the growth `prev_check` gives is that since the second before.  A poll is a fold over agents of a fold over blocks: `FoldPrefixes` turns a fold into the function of its prefixes, by the well-founded order of the numbers, and `OnlyKeeps`, `BlocksTaken`, `AgentsTaken`, `ChunksCounted` say what each prefix has done |
| `ReaderProofs`, of `Generators` | types, `FailureTold`, `TestIsRead`, `StatisticsOnce`, `LoadIsTold` | the invariant `TestInv` has three parts.  `Control`: what happened to the first retcode on its way to the last, and that it was 0 only of a process that ended with 0 (`Codes`); that nothing runs before the start and what the file holds by then is of an earlier run (`Begun`); that Phantom and ShootExec are over before anybody is told so (`Ending`).  `Reading`: what the reader kept and what it threw away are together the text up to its position, each once and in order (`Reads`, over the numbers of `Text`), and a reader that ended in quiet saw the end of a file nobody writes (`QuietEnd`).  `Stating`: the seconds that were given, are iterated over and wait rise, and the one the poller has in hand is above all of them; where it will append decides whether that stays so (`Lists`, `Seconds`).  The blocks of Phantom are told by where the reader is (`Kinds`) and by what `readline` took: the halves behind the last block that was given, up to the position, are those that it took (`AllBlocks`), and a reader that is over read to where the file ended at the close.  Beside them `Tally` counts the chunks of JMeter and of ShootExec: the sum of those that were given and of those that wait is what the reader gave; what a drain of ShootExec's had been given when it found the queue empty is what the reader had given by then (`stat.seen`), and one that is over without having given up looked at a reader that was closed after that.  What is told of Phantom's streams changes in no step: it is the sum of their loads by `PhantomAssumption` (streams are a sequence, their steps pairs of whole numbers, `info` is what `GetInfo` makes of them) and `LoadsAdd`, which goes through the prefixes of two folds at once: after each stream, the load told so far is the sum so far (`MergedIs`), and no shorter than any stream's |
| `ReaderProofs`, of `PhoutReader` | types, `ReadsInOrder`, `ReadsAll`, `ReadsFileWhole` | one reader at a time is at the file (`Exclusive`), so its read continues what it had (`Placed`); an empty read after the event of a plugin that waits means the end of the file (`Quiet`) |
| `ReaderProofs`, of `HttpStream` | `StreamInductive`, `StreamReadsFile` | what is buffered and what is left of the stream are together the rest of the file from the position (`StreamInv`): a step of the iterator moves bytes from the one to the other and a read takes them from the front.  A line ends in the buffer where it ends in the file, because the steps stop only when the buffer has the end of a line or the stream is over.  `StreamSpec` is the stream by itself; in `StepperWrapper` every step is one of it or leaves `hs` as it is |
| `BfgProofs` | types, `TasksOnce`, `ResultsOnce`, `FinishedShot`, `AddsUp` | the places a task is in are added up (`Once`), and so are those of a result (`ResultOnce`); what makes the sum survive a move is that the thing that moves was only once where it was: with one process or thread (`Alone`), once in the queue, in the order of the plan and before the killers (`Ordered`), once in each list (`Single`).  A green thread that takes a task has none yet because there is a free one for each task in its `green_queue` (`Room`).  A pool that is found finished exited for killers or for `quit` (`Ended`), and both come behind the last task (`Fed`) |
| `LoadProofs`, of `Autostop` | `StopsWhenAsked`, `RateIsOfInterval`, `StopIsAsAsked` | what a criterion remembers is a digest of all seconds so far (`Remembers`): the length of the streak that ends now and where it began, the newest values and their seconds.  `notify` keeps the digest, and decides by it as the reference does by the seconds |
| `LoadProofs`, of `StepperWrapper` | `StepperInductive`, `AmmoIsKnown`, `AmmoIsFresh`, `AmmoIsOneVersion`, `SourceIsWhole`; `PlanIsGiven` | the invariant `StepperInv` is about names.  Of two runs that have one name and are at its stepped file neither makes it, or `server.torn` tells so (`Sole`); so a `si` is not there while the file is made (`Knows`), and one that is whole is of the file that is there (`StpdOK`), wherever a run was killed.  A hash is a version that was there since the run began (`Keyed`), and what is kept under that name, a download or a stepped file, is of this version or a later one (`Download`, `StpdOK`), since the head is asked before the file is opened.  Nobody writes a download while another run reads it (`Reads`), so all missiles of a file are of the version that is read (`Writes`).  A download may be cut by a kill, or be read while another run writes it; `SourceIsWhole` says when no reader meets such a one: while no two runs overlap and none was killed.  `CalmInv` is why: a part of a download is there only between the two steps of the run that is saving it, which is the only one at work (by `RunsAssumption` the runs of a machine have numbers, and one without overlap begins when those before it are over), so a failed request leaves none.  What a line gives is looked into only as far as this needs (`SteppedKeeps`): one missile of that version, or none.  That the plan is the load of the schedule (`PlanAssumption`: steps are numbers without a sign) is about the functions of `LoadPlans`, for it is made before the file is (`PlanInv`).  Every fold there is the function of its prefixes (`SumFolds`, `CompositeFolds`, `BuildFolds` and the like, all by `FoldExists` and `FoldGoes`).  A constant rate and a line give their load, less at most one missile, in order and within their time (`ConstIs`; `LineIs`, where the moment of a charge is the greatest at which not more is given); the rates that a stairway goes through are those of the reference, the end only once (`StairRates`), so their number and their sum are those of a set (`SumOfMembers`); one plan after the other moves no moment across the end of what was before (`BoundsThen`), so the missiles before the end of the first steps are those of these steps (`Parted`).  A builder of instances keeps its moments in order and as many as the instances (`Built`), and each step leads to what the reference says (`AddStepLeads`) |
| `UploaderProofs` | `CleanupOrder`, `PushesBeforeClose`, `StreamsInOrder`; `QuietRuns`, `QuietRunIsWhole`, `EndsCleanedUp` | the plugin closes its job in a cleanup action, and these run in the reverse order of their registration: as long as a sender runs its join is the next (`JoinedFirst`), and once the job is closed no stage that starts a sender comes (`OnlyCleaning`).  No item in a queue was taken by the service but the first, which stays there while it is pushed (`Sorted`); every time it was taken and the push went on, there was a fault (`Counted`).  While nothing fails, what was put was taken or is in the queue, and the sentinel comes last because no item is put after `post_process` (`Fed`, `Late`); a call that ends well was served (`EndsServed`), which needs that its attempts only grow.  What is locked has an action that unlocks it, or was unlocked target by target (`LInv`); while no call for it failed there is one job, and its closing is registered, under way or done (`JInv`) |
| `DataSessionProofs` | `SessionInductive`, `WhatIsStored`, `SecondsAreWhole`, `QuietSessionKeepsAll`, `ClosedJobIsLeft` | the invariant `SessionInv` follows a row: it waits for the router (`Routing`), then in the buffer of its metric until a row comes that is newer by more than the buffer (`Buffers`), then in a line that was given out (`Emitting`), which is in the queue of Luna's client, in the data of its thread or with the service, and in one of them only (`Apart`).  The metrics of the lines that the thread took are registered, parents first (`Registered`).  Without a failure no thread dies or drops anything (`Healthy`), main has waited for the threads it is past (`Closing`, `Joined`), and every row the router took is in a buffer or was given out (`Kept`).  That a second is uploaded whole rests on the router, which gives it out when no row of it can come any more (`Buffers`) |

The theorems speak of `Spec` (or `PhoutSpec`, `StreamSpec`, `AutostopSpec`, `StepperSpec`, `MonitoringSpec`), without fairness.  Only model-checked: all liveness (the prover has
no rule for fairness here); `EverythingGiven` of the chopper;
`PoolEnds` of `Bfg`; of `StepperWrapper` that the missiles are those of `Expected` (the other half of
`ReadyIsWhole`, whose first half is `KnowsAmmo`), which is about filters of sequences and goes over many steps; the types
of `Autostop`, which need that sums over its data are numbers, by the induction over prefixes that the sums
of `Generators` and the load plans have; the arithmetic of sums, quantiles and trends, which the proofs of `Autostop` leave folded
up and which TLC evaluates.

## Simplifications

* `TankLock`: taking the lock and registering its release are one step (`TankWorker` has the window
  between the two); how long a retry waits is left out.
* `TankWorker`: the write of the code and of the status FINISHING are one step; the plugins'
  cleanup is one step; a generator's `end_test` returns the code it got; the lock is
  its file, there or not, and the other tanks are the subject of `TankLock`.
* `TimeChopper`: a chunk is the set of its seconds and its last second; the rows of one second of
  one chunk stay together.
* `TankAggregator`: a join with a timeout returns at any time; a source that ends and one that
  raises end the drain alike.
* `PhoutReader`: a character is its position; the check and the set of `_is_locked` are one step,
  because the interpreter (3.12 and later) switches threads only at calls and backward jumps and
  there is none between the two; the parser may refuse a chunk; a reader that waits longer than
  its ten seconds for the lock ends.  Production uses one reader for a file, the model several.
* `Bfg`: the look at `quit` belongs to the end of the previous pass; the lookup of the list and
  the `get` are one step, as are conversion and write.  Green threads switch only where they wait, so
  a pass of the main one is a step.
* `Autostop`: ratios are compared in integers after multiplication, where the code compares
  floats; percentages of samples are whole numbers; the two counters of `total_time` are one sum;
  one mask serves all criteria on codes; a relative level of `instances` is scaled beforehand; a
  second has at least one response (the aggregator gives none without), so branches for zero
  responses are unreachable; the clock does not go back.
* `Uploader`: period and timeouts of the status reports are untimed; the two configurations are one
  call; one monitoring chunk a call; the item a sender pushes stays the head of its queue until its
  call ends; the artifacts sent after the test are left out.
* `Monitoring`: a line is a second and one of two metrics, a counter or a level; a thread's pass over
  its queue is a step; a behaviour has one of the two plugins; a configuration names a host once
  (`MonitoringAssumption`): a YAML file must, an XML file that names one twice, whose chunks would have
  one key, is left out.
* `StepperWrapper`: a line is its kind and its marker; times are whole milliseconds, rates whole
  requests a second; a retry is a new attempt without its delay, and one bound on the attempts stands
  for the two nested retries of an HTTP opener (`open` and `download_file`, which multiply) as for the
  single ones of the others; detection of the ammo type is a table, and is done once where the code
  does it twice for Phantom's (`stepper/config.py:114`); passes over the ammo are counted up to two
  where no limit asks for more.
* `Generators`: a read of results is a step (how several readers share a file is the subject of
  `PhoutReader`, which also has the poller of results that gives up); a block of Phantom's statistics is
  two halves, and a line of it one of them;
  a text is a sequence of halves of lines; settings that are only copied into a file are left out, and so
  are the zeros Pandora's statistics are without expvar.
* `DataSession`: a row is its second and the call that brought it; a request ends in one outcome, its
  retries included.

## What the code does otherwise

Met while modelling: the models do what the code does, and no run asks for the opposite.

Lock, worker, core:

* Two tanks may look at the directory before either has made its file (`core/tankcore.py:640`), and
  both run, though `docs/config_reference.rst:31` says that without `ignore_lock` they do not.
  `LockSafe` excludes exactly this race.
* `is_locked` returns False at the first stale file it removes, without looking at the rest
  (`core/tankcore.py:691`); `NoOverlap` excludes tanks that met one.
* The constructor `TankWorker.__init__` raises `LockError` when the lock is held, also for a tank
  that is to wait; `docs/configuration.rst:26` says "Default behaviour is to wait for lock file to
  become free".
* When the worker is killed, the command line exits with 0 (`core/cli.py:136`), which
  `docs/core_and_modules.rst:114` calls "completed".
* ResourceCheck asks for the end of the test by raising from `is_test_finished`; the core catches
  that, replaces the method and goes on (`core/tankcore.py:343`), against
  `docs/core_and_modules.rst:1314`, "Test stops if minimum values are reached."
* `end_test` of a monitoring plugin that raises leaves the later plugins without `end_test`: the call
  at `core/tankcore.py:365` is outside the `try` of the loop below it, though the docstring at line
  354 says "Call end_test() on all plugins".  Post-processing is skipped then and the code is not 0.
* An interrupt between the creation of the lock file and `add_cleanup('release lock')`, or a write of it
  that fails, leaves the file behind (`core/tankcore.py:644-649`, `core/tankworker.py:116-117`).
  `plugins_cleanup` is registered after `plugins_configure` returned (`core/tankworker.py:120-121`):
  when one plugin's `configure` raises, those that were configured before it are never cleaned up.
* An uploader that disabled itself replaces its `post_process` by a function that returns None
  (`plugins/DataUploader/plugin.py:312`), which the core stores as the return code; a test that went
  well then ends with code 1.
* The filter of `plugins_end_test` compares (name, plugin) pairs with plugins
  (`core/tankcore.py:371`): the generator and the monitoring plugins are ended twice.
* A negative return code of a poll is taken for "go on" (`core/tankcore.py:333`), though
  `common/interfaces.py:53` has only -1 for that: a JMeter or a ShellExec command that was killed by
  a signal does not end the test.

Results:

* The chopper gives a second again when rows of it come after it was given
  (`aggregator/chopper.py:37`); `RowsWhole` asks for completeness of sources that never go back.
* The end of the aggregator asks the samples' thread whether the statistics' thread is finished
  (`aggregator/tank_aggregator.py:139`).
* A reader looks at the stop event after its read (`common/util.py:711`): lines written between
  the two are never read, though `docs/core_and_modules.rst:323` says of `buffered_seconds`
  "to be sure that everything were read from phout".
* BFG's cacher looks up `self.records.append` before `results.get()` (`plugins/Bfg/reader.py:40`); a
  swap in between leaves the result to a list that nobody reads.  One killer task makes every green
  process quit, and tasks in a `green_queue` that no green thread has taken are dropped; an interrupt
  may leave such a process without a thread that could take its killer.
* Autostop: `http`, `net` and their cumulative forms stop at a count that is at the level or above it
  (`criterions.py:127`, 231), where `docs/core_and_modules.rst:920` says "larger then the specified
  absolute or relative value" and `explain()` (173) "count higher than".  The model and the reference of
  `StopsAsAsked` compare as the code does.  `quantile(25, ...)`, which line 933 of the documentation
  offers, never stops a test: the 25th percentile is not computed, and the criterion only logs a warning
  (`criterions.py:326`).
* Autostop: `total_time` looks for its limit among the bins of a histogram that holds only non-empty
  bins (`cumulative_criterions.py:77`), so the slow responses of the first bin above the limit do not
  count.  `steady_cumulative` is documented and cannot be made; relative cumulative criteria average
  the percentages of the seconds, whatever their numbers of responses; a second without a tag counts
  as slow for `total_time` and as not matching for the negative criteria; seconds in which nothing was
  answered are no seconds for a streak; the cause second of `total_time` may be the one before its
  window; `http_trend` over one second raises an `IndexError` when it fires.

Uploader (`plugins/DataUploader/plugin.py`):

* Cleanup unlocks the targets a second time (517) and may release another tank's lock; a lock that
  fails midway (511) forgets the targets already locked; one failed unlock leaves the rest locked.
* A `new_job` whose answer was lost is repeated: the first job is never closed.  A configuration that
  is refused after `new_job` makes cleanup create another job and close that one (600-633).  A plugin
  that was disabled still makes a job in `end_test`.
* A test that ends with a code sets `interrupted` (369), a failed push does so for all threads (476):
  what is in the queues is dropped.  A push repeated after a lost answer stores its item twice.
* A target that answers 423 is asked for again every ten seconds for ever, unless `ignore_target_lock`
  (889-908); nothing but an exception or a kill ends `prepare_test` then.
* `core.error_log` is never set, so the thread of events has nothing to do.

Monitoring:

* The local agent's `Drain` is no daemon and `LocalhostClient.uninstall` waits for its process without
  a timeout (`client.py:137`): the tank may hang.  The last two seconds of an agent are never sent; a
  line late by two seconds makes its second come twice.
* Output that is not JSON makes the collector's poll return 0, whose `len` raises: the plugin is polled
  no more (`collector.py:92`, `plugin.py:216`), and the seconds decoded from that block are lost while
  `prev_check` has moved on.
* A start that raises leaves the agents running (`plugin.py:195`); `agents.remove` in a loop over them
  skips one.
* A sensor's window ends one second in the future, so values that lag are never asked for again
  (`YCMonitoring/sensor.py:64`), and partial data move the window for all series; the first call
  expects the builtin `ConnectionError` (129); a `TypeError` while parsing ends the thread.  The panels'
  set of sensors is computed and dropped (`monitoring.py:54`), so a timestamp is given as soon as one
  value of it is there, the rest later.

Stepper and resources:

* A slow log cannot be stepped: its reader yields text (`stepper/missile.py:160-171`), which the format of
  bytes refuses (`stepper/format.py:20`) at the first missile.  So do the markers `uri` and `uniq`, and
  with `enum_ammo` they fail when they are numbered (`stepper/mark.py:14-15`, 35, 46).
* A file that has nothing but headers or blank lines ends the reader at once, without an ammo and without
  counting a pass (`stepper/missile.py:114`, 357): the stepped file is empty and the run goes on with it.
* A limit of ammo is passed by one missile (`stepper/info.py:61`, `stepper/main.py:64`), against
  `docs/core_and_modules.rst:187`.  Cases that match nothing are looked for without end; a limit of 0,
  a ramp of one instance, a line of no duration and a step by 0 divide by zero; `start(n)` raises
  (`instance_plan.py:92`); a `line` of instances that begins where more run already fails.
* The stepped file is written in place and `si` opened before it is written (`main.py:339-368`): a run
  killed in between makes later runs fail.  A torn download is used as it is (`resource.py:344`); the
  hash of an S3 object has no version (658), nor has that of a server without HEAD.
* Headers of `uri` files accumulate over loops; an option of n
  attempts makes n + 1 calls; the rates a line tells have one second too many.

Generators:

* `tail_lines` (`common/util.py:648`) never returns on an empty log: a Pandora or ShootExec that fails
  without a word hangs the tank.  Phantom's end waits for its process without a timeout.
* Pandora sets its event without waiting for its process (`plugin.py:278`).  JMeter's reader throws away
  the line it finds after an empty read (`reader.py:196`), and once closed it reads one more chunk only;
  what is in its queue of statistics is dropped (174).  JMeter's `end_test` before a start raises
  (`plugin.py:171`), skips those of other plugins, and as it escapes the exit of `Finish`
  (`common/util.py:878`) post-processing is skipped too.
* Phantom's reader of statistics, when a read finds nothing, puts the next line into its buffer
  (`plugins/Phantom/reader.py:158-160`), where a block that this line ends stays if nothing is written
  after it: the last second is lost.  Its poller gives up when there was nothing for `max_wait`
  (`aggregator/aggregator.py:136-143`), and what comes later is not read.
* ShootExec spends ten seconds on terminating and then kills only the shell (`shell=True`): what the shell had started
  writes on, after the results were closed.  Between the `Empty` of its queue of statistics and the look at
  `closed` (`plugins/ShootExec/plugin.py:272-276`) a chunk may come that is never taken.  Its statistics
  lose a second line of the same second.  Pandora's reader of statistics gives zeros for a second again and again without
  expvar, its poller ends on bad JSON, and a second it appends to a list that was already taken may be lost; two pools with one destination read it twice.  Phantom with three streams tells the third's schedule.

Data session (`netort/data_manager`):

* Luna's registering thread releases its lock twice after a failed request and dies (`luna.py:342`);
  `close` then waits for ever (256).  The constructor of the Volta client waits for a lock it holds
  (`lunapark_volta.py:127`).
* The last `BufferSize` seconds of aggregates are lost in a normal close (`router.py:78`); rows later than
  the buffer make their second twice.  The local client writes one more piece only when it is stopped
  (`local.py:100`) and drops pieces of aggregated metrics (111).
* `interrupt` calls `close()` without its argument (`manager.py:166`), a `TypeError`: the clients are never
  told.  A table that is sent again in halves may be stored twice (`luna.py:456`).
* No plugin of the tank uses this library.

## Not modelled

* *Configuration* (validator, converter, Cerberus rules): a pure translation of dictionaries by the rules
  of a library; a model could only repeat the rules.
* *Validation of ammo files*: sequential parsing of one file, without state that outlives it; the worker's
  model has its verdict.
* *Console, reports and metric uploaders*: listeners that format, draw and send what they get, without a
  protocol between them; a listener that raises is in `TankAggregator`.
* *Numbers of a second* beyond the histogram and the quantiles: pandas and numpy over the rows of one
  second.
* Installing agents over ssh, the detection of file formats, serial devices, widgets, CPU affinity, the
  estimate of the time left, the log analyser of Phantom; processes and signals in
  `netort/process.py`.

A next step would be the other half of `ReadyIsWhole`: that a stepped file is at all times a prefix of
`Expected`, with what is known of a filter of a sequence (`SelectSeq`) stated for its prefixes as
`FoldGoes` states it for a fold.
