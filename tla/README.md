# Verification of the OpenVINO inference runtime

TLA+ specifications of the concurrent core of the inference runtime: the
asynchronous inference request every plugin derives from, the executor its
stages run on, the cache of compiled networks with its locks, the scheduler of
the multi-device plugin, and the dispatchers of the link to a Movidius device.
TLC checks them on small instances; TLAPS proves theorems about all of them for
every value of the constants. Paths below are relative to
`src/inference-engine/src/`, those of the link to
`src/inference-engine/thirdparty/movidius/XLink/shared/src/`.

## The system

An application asks `Core` for a network compiled for a device
(`inference_engine/src/ie_core.cpp`), which comes from the cache or from the
device's plugin; it creates inference requests of that network and starts them,
from its own threads or from completion callbacks. A request is a pipeline of
stages, each a task given to an executor. The plugin decides which executors:
the CPU plugin uses a pool of worker threads, the multi-device plugin is itself
an executor, which hands each task to a request of one of its devices. The
plugin of a Movidius device speaks to it by streams of packets, which a
dispatcher at each end of the link carries.

| component | state | operations | interacts with | modelled by |
|---|---|---|---|---|
| asynchronous request (`plugin_api/cpp_interfaces/impl/ie_infer_async_request_thread_safe_default.hpp`) | `_state`, `_promise`, `_futures`, `_callback`, `_pipeline` | StartAsync, Infer, Wait, Cancel, SetCallback, accessors, StopAndWait, stage tasks | calls `ITaskExecutor::run`, calls the user's callback, is called by any thread | AsyncInferRequest |
| CPU streams executor (`inference_engine/src/threading/ie_cpu_streams_executor.cpp`, `ie_itask_executor.cpp`) | task queue, condition variable, stop flag, per-thread stream queues | run, Execute, runAndWait, worker loop, destructor | executes tasks that submit further ones | CPUStreamsExecutor |
| guard of the cache (`inference_engine/src/ie_cache_guard.cpp`) | table from hash to mutex and counter | getHashLock, entry's destructor, checkForRemove | held by loads | CacheGuard |
| compiled-network cache (`ie_core.cpp`, `ie_cache_manager.hpp`, `compilation_context.cpp`) | directory, blob files, configuration | LoadNetwork, LoadNetworkFromCache, compile_model_impl, SetConfig(CACHE_DIR) | file system, guard, plugin | ModelCache |
| multi-device and AUTO execution (`multi_device/multi_device_exec_network.cpp`) | priorities, task queues, idle workers; in AUTO mode two futures, a flag, two networks | constructor and its loads, run, ScheduleToWorkerInferRequest, worker callback, SetConfig, GetMetric, destructor | requests of the user on one side, requests of the devices on the other; an executor that loads | MultiDevice |
| XLink dispatcher (`XLinkDispatcher.c`, `XLinkDispatcherImpl.c`, `XLinkData.c`, `XLinkDevice.c`) | two rings of events, semaphores, the stream's fill levels and packets, at each end | XLinkWriteData, XLinkReadData, XLinkReleaseData, XLinkResetRemote, scheduler thread, reader thread, clean-up | the application's threads, and the peer over a link that may fail | XLinkDispatcher |
| hetero plugin (`hetero_plugin/`), executor manager (`inference_engine/src/threading/ie_executor_manager.cpp`), memory solver (`plugin_api/memory_solver.hpp`) | | | | not modelled, see the end |
| plugin registry, readers, blobs, device plugins, nGraph, model optimizer, bindings | | | | not modelled, see the end |

What makes them hard: a request is restarted by one thread while the tail of its
last run is still executing in another (the state becomes Idle before the
callback is called and before the promise is set); members are used outside the
mutex that guards others; condition variables are notified after the unlock;
counters are decremented without the mutex under which they are examined; files
are written in place by a process that may die; the two sides of the scheduler's
queues never look at both queues at once; and the two threads of a dispatcher
change the same ring without a lock, while both ends keep accounts of one buffer.

What makes each correct: one run at a time and exactly one outcome for each run,
nothing left running when a destructor's wait is over (request); no lost wakeup,
each task once, the queue drained before the destructor returns (executor);
exclusive locks and an empty table (guard); no import of a blob of another
network, no writer under a reader (cache); no worker or task lost or doubled, no
task waiting next to an idle worker, no task on a device that is still loading
(scheduler); packets once and in order, never more than the peer has room for,
every call answered whatever happens to the link (dispatcher).

## Modules

* **AsyncInferRequest** is the request. A *run* is one passage through the
  pipeline. Every critical section of `_mutex` and every access outside it is an
  action: `InferImpl` is `Refused`/`Claim`/`ClaimStopped`, then `Launch` or
  `LaunchThrows` and `Unwind`; a stage task is `StageReturns`/`StageThrows`/
  `StageCanceled`; the last stage task is `TakePromise`, `GoIdle`,
  `CallbackReturns`, `RestoreCallback`, `Settle`; `Infer` is bracketed by the two
  halves of `DisableCallbackGuard`. Callers are application threads and the
  threads that execute a callback. `pos`, `stg`, `exc` and `taken` are what the
  stage tasks captured; `registered`, `cb` and `hit` are history.
* **RequestContract** is what a request promises: at most one run holds it, an
  outcome never changes, and it is seen only when the request is free again. The
  code has one exception, which the contract admits by its `StartFails`: when
  the first stage could not be launched, the error is seen before the release.
  AsyncInferRequest implements it with `active` as the run that owns `_state`.
* **CPUStreamsExecutor** is the queue, the condition variable (`waiting`, with
  spurious wakeups), the workers, `Execute`/`Defer` with its per-thread queue and
  reentrancy flag, `runAndWait`, and the three steps of the destructor.
  **TaskExecutor** is its contract: each task starts once and ends once, and
  nothing is pending when the destructor has returned.
* **CacheGuard** is the table of locks. Item identities are reused as memory is,
  so a removed item that somebody still refers to would be noticed.
* **ModelCache** extends CacheGuard and composes its steps with those of loads.
  A blob is its header's file information, the network it was exported from, and
  whether it is complete; versions stand for contents of the model file. The
  configuration is read twice, as in the code. `Crash` resets all memory and
  keeps the disk; a file may fail to open, each write may be lost and a removal
  may fail, as nobody looks at the stream's state or at the result of
  `std::remove`.
* **MultiDevice** is the executable network of the multi-device plugin, in MULTI
  mode when `selected` is empty and in AUTO mode when it holds the devices to
  load to. `Generate`, `Flag`, `SetPromise` are the task that loads one, `SeeFlag`
  and `WaitFirst` the constructor, `WaitActual` the wait that scheduling,
  `GetMetric` and the destructor share. A thread is the one that starts
  a request or the one that executes a worker's callback; `Pick`, `TryPop`, `Store`,
  `Launch` are the steps of `ScheduleToWorkerInferRequest`; `Finish`, `Call`,
  `Release`, `PopAgnostic`, `PopSpecific`, `Restore` those of the callback. What
  it needs of AsyncInferRequest is built in: the callback of a worker is swapped
  out while it runs (`callback`), and a stage that throws ends the request.
* **XLinkDispatcher** is both ends of a link with one stream between them. A
  local event is a slot of the ring with its state (`ALLOCATED`, `PENDING`,
  `BLOCKED`, `READY`, `SERVED`); `Add` and `Return` are a call before and after
  its semaphore; `SchedLocal`, `SchedRemoteRequest`, `SchedResponse`, `SchedSend`,
  `SchedReply`, `SchedNull` are what the scheduler thread does with the event
  `TakeNext` finds; `Receive`, `AddRemote` are the reader thread. When the link
  fails (`Unplug`), each of the two threads frees what waits, one event at a time
  (`SchedFind`, `ReaderFind`, `Free`), in whatever order the two take turns.
  `Join`, `Drain`, `Close` are the clean-up.
* **BoundedChannel** is what one direction of the stream promises: a queue of
  packets of limited size and number, in which packets in use take room until
  they are released, cut off when the link goes down. XLinkDispatcher implements
  it twice, once per direction. **Totals** adds up the sizes of a sequence.
* **AsyncInferRequestProofs**, **RequestCallbackProofs**, **CPUStreamsExecutorProofs**, **CacheGuardProofs**,
  **ModelCacheProofs**, **MultiDeviceProofs**, **XLinkDispatcherProofs**,
  **XLinkAccountsProofs** hold the theorems; the **MC** modules the instances for TLC.

## What the runs show

| run | instance | states | shows |
|---|---|---|---|
| RequestSafety | 2 threads, 3 runs, callbacks that restart, StartAsync and Cancel in any order | 564 000 | one run at a time, promises not stolen nor settled twice, futures tracked, cancellation precise, quiet after StopAndWait, refinement of RequestContract |
| RequestCalls | 2 runs, 2 stages, fairness; a disciplined application of 2 threads, one of which calls every method and the other StartAsync and Infer, or another one of 1 thread | 210 000 | a disciplined user's callback is called for each asynchronous run, for no Infer, and survives; Infer waits for its own run; for any user, promises are settled, methods and destructors return |
| RestartedRunOutlivesStop | 1 thread, 3 runs | violation | a callback that restarts the request outlives StopAndWait |
| Executor | 2 workers, 2 clients, 3 tasks, fairness | 49 000 | no lost wakeup, no sleep after stop, refinement of TaskExecutor, tasks, runAndWait and the destructor end |
| ExecutorInCaller | no workers, 2 clients, 4 tasks, one throws | 33 000 | nested submissions drain the thread's queue, no task twice |
| Cache | 2 threads, 2 keys, 2 file versions, 3 loads, 1 reconfiguration, 1 crash, fairness | 580 000 | exclusive locks, clean table, one compilation, fresh imports, no writer under a reader, loads return |
| StaleBlob | 1 thread, the file may change at any time | violation | a header that tells of a newer file than the one compiled |
| MultiDevice | both modes, 3 requests, 2 devices of one worker, 3 starts, 1 reconfiguration, fairness | 370 000 | workers and tasks are in one place, device-bound requests on their device, AUTO mode uses what is loaded, nothing outlives the destructor, and it returns |
| TaskStranded | MULTI mode, 2 requests, 2 devices of one worker, 4 starts | violation | a task waits in the queue with all workers idle |
| CpuLoadFails | AUTO mode on CPU and GPU | violation | a failing load ends the process instead of falling back |
| XLink | 2 threads of the host, 1 of the device, rings of 4, a stream of 2 bytes; 6 calls on a working link, or 3 and an unplugged device or a reset; fairness | 226 000 | the writer's account of the reader's room is exact, no lost wakeup, every call returns, each direction is a bounded channel |
| XLinkRecycledSlot | the same on a working link, `Recycles`: a read waits while another thread goes round the ring, 8 calls | violation | a slot that was served is used again before the scheduler has looked at it for the last time, and a request is sent that nobody served |

Bounds. Two threads and three runs give every overlap of a run with the tail of
the one before it and with the launch of the one after it; a fourth would only
repeat the second. Two workers and three tasks give a queue longer than the
waiting workers; three loads are enough for one that writes, one that dies in
the middle and one that reads, with two threads of which one waits for the lock
the other holds. There is one cache directory in the instance: the
configuration may switch between it and none (two directories exceed the time
TLC is given; the theorems hold for any number). Three
starts on two workers give a task that waits, and a worker that is reused while
its callback runs; AUTO mode is run with the CPU alone, an accelerator alone, and
both, which are its cases. A stream of two bytes and packets of one and two give
a write that fits, one that waits for room and one that waits for all of it; two
threads of one end compete for packets and wakeups; the cursors start at the
last slot, so that they come around at once.

Fairness. Weak fairness is asked of the steps of a thread that is inside a
method (the operating system runs it), of stages that were accepted by an
executor, of devices that were started, of loads, unless the process was
terminated, and of the threads of a dispatcher while their end has power. No
caller has to start anything, and no spurious wakeup, crash, reconfiguration or
failure of the link has to happen. A mutex that several
wait for is given to each of them because loads are finitely many.

`CHECK_DEADLOCK FALSE` is set in every run since each of these objects may rest:
nobody has to call a method, and a bound or a destruction ends a behaviour.

## Disagreements met

* A run that is started by a completion callback is in none of the futures
  `StopAndWait` waits for, so that it is still in flight when the destructor goes
  on (RestartedRunOutlivesStop). `QuietAfterStop` states what does hold.
* The header of a blob is computed after the compilation, from the file as it is
  then (StaleBlob). `ImportedIsFresh` is therefore checked and proved with
  `EditsWhileCompiling = FALSE`; edits at any other moment are included.
* The scheduler's lookup and push are not atomic with a worker's release and
  lookup (TaskStranded). No liveness of MULTI requests holds, not even with as
  many workers as requests.
* In AUTO mode a load that throws terminates the process: the task is no packaged
  task, so that neither the future nor the constructor's fallback sees the
  exception (CpuLoadFails).
* `postAndMarkEventServed` gives the slot of a read back to the ring, and the
  scheduler reads the slot's flags after it. If the next free slot is this one, a
  request that was just added is taken for the served one, and sent without having
  been served (XLinkRecycledSlot). The comment there says that a slot is re-cycled as
  soon as it is marked, and saves the caller's result from that, but not the
  scheduler's. The other XLink properties are about rings where the
  slot is left alone until the scheduler is done with it (`Recycles = FALSE`).

A task that throws in `Defer` stays at the front of its thread's queue, where the
next submission executes it again in place of its own; no text of the repository
says otherwise, so that it is no finding. `StreamDrained` and `StartedOnce` excuse
tasks that throw. After a failed read of the link, the reader thread frees events
while the scheduler unblocks them. The token for an event it freed leaves the
host's scheduler without an event, which it takes for a reset by the user: it
ends, waits for a reader that does not, and later requests are served by nobody
(`StoppedByNull`, which `CallsReturn` excuses). If both threads of a dispatcher free
the same slot, the second one after an event came into it, the ring has no event
left for `getNextQueueElemToProc` although its cursors differ: it sets `curProc` to
NULL, increments that, and the process can do no more (`LosesCursor`,
`Alive`). On the link, a write is acknowledged to its caller before it is
sent: one that is freed when the link fails returns success (`acked`).

Two more are part of MultiDevice as actions and excused by its properties:
`LaunchThrows` loses the worker, and `Overtake` loses the task of an inference
that ends before the last callback of its worker returned. The callback
properties of the request hold only for disciplined applications (`disciplined`), which start a run or
set a callback when the last run has settled and no thread of theirs is inside
`StartAsync`, `Infer` or `SetCallback`: without it a restart may
find the callback swapped out, which is what `Overtake` is an instance of. Such an
application may still have any number of threads, and wait, cancel and read at any time.

## What is proved

TLAPS checks every step with SMT (Z3), Zenon and LS4.

*Request* (any threads, runs, number of stages, and use). `TypeCorrect`, and
`Invariance` of `IndInv`, from which follow `OneRunAtATime`, `NoStolenPromise`,
`NoLostFuture`, `CancelIsPrecise`, `OneOutcome` and `Refinement` to
RequestContract; `StopIsQuiet` for the destructor. None of these invariants is
inductive alone: a stolen promise is excluded because only the owner of `_state`
touches `_promise`, which is true because `_state` is not Idle while a run owns
it (`OwnerNotIdle`), although StopAndWait and Cancel overwrite it at any time; so
`IndInv` says who launches, who is in the pipeline, and that the two exclude each
other. Assumptions: threads and runs are different, there is a stage.

*Callback of the request* (any threads of a disciplined application, runs and stages).
`CallbackInvariance` is of `CallbackInv`, relative to `IndInv`. The last stage
task, `Infer`'s guard and `SetCallback` write the same member, and the first two
put back what they took out before. The invariant says where the callback is: with
the Infer that swapped it out (`SwappedByInfer`), with the run that executes it
(`SwappedByRun`), or else in `_callback` (`InPlace`). These exclude each other
because one run is under way at a time (`OneUnderWay`), which is the last one: a
thread may begin the next because the last future is ready, and with it every
earlier run has put back what it took. A cancellation, a stage that throws and a
refused launch keep all of it; once StopAndWait has begun, the parts about `_callback`
are given up, and what remains is that no run is left in the pipeline that could call a
callback put back after StopAndWait cleared it. `CallbackIsCalled`,
`CallbackSurvives` and `InferWaitsForItsOwn` follow.

*Executor* (any workers, none included, clients and tasks). `Invariance` of an
invariant with one part for each place of a task (`Queued` in the workers' queue,
`Streamed` in a thread's, `Held` by a worker, `Located`: nowhere else) and for
who may still act (`Control`, `Batches` for runAndWait, `Ending` for the
destructor). From it follow `TypeCorrect`, `StreamIsDrained`, `AtMostOnce`;
`NoWakeupIsLost` needs to count, since a notification without the lock may find
the worker it was meant for awake already: while workers wait, there are at least
as many notifiers and workers about to look as queued tasks (`Served`). `Refinement`
to TaskExecutor assumes that no task throws. Assumption: workers and clients
are different and finitely many.

*Cache guard* (any threads, hashes, items). `GuardInv`: a counter is the number
of users, used items are in the table, an item nobody uses has a thread on its
way to `checkForRemove`. `LockIsExclusive` and `TableDoesNotLeak` follow, for the
guard alone (`GuardAlone`) and for the loads. Assumption: finitely many threads.

*Cache* (any threads, keys, directories, crashes). `LoadInv` says that a load past
its probe holds the lock of its key (`Placed`); nobody else then touches a file of
the key, in whichever directory (`OthersStay`), which gives `CacheTypes`,
`ReadersAreAlone` and `OneCompilation` with no assumption on the model file.
`CacheInv` adds that headers are honest (`DiskHonest`) and that what a load
compared or read is still so (`Knows`); `CacheInvariance` and `ImportsAreFresh`
assume that the file is not edited between `ReadNetwork` and the header, as
StaleBlob shows they must.

*Scheduler* (any requests, devices, workers on them, and choices of AUTO mode).
Every safety property of the run MultiDevice is a theorem. `Invariance` is of
`IndInv`: the locals of a thread agree with where it is (`Locals`); the places of
tasks and of workers exclude each other, and none is left out (`TaskInv`,
`WorkerInv`); a bound task only ever looks at its own device (`Wanted`, which
needs that a worker on its way to a task is of that device); the flag, the
futures and the workers of AUTO mode appear in an order that whoever sees one may
rely on (`Switching`); and the destructor has emptied what it waited for (`Ends`).
`TasksAreNeitherLostNorDoubled`, `WorkersAreNeitherLostNorShared`,
`BlobsStayWhereTheyAre`, `SchedulesOnLoadedDevices`, `SomeNetworkToAsk`,
`NobodyLeftBehind` and `TypeCorrect` follow. The parts need one another: a task is
not doubled only because a worker that a thread holds is not also started, and a
worker is not lost only because the task it is started for is there. Assumptions:
finitely many requests, workers and devices, one of them the CPU, and at most
one accelerator in a selection; requests and workers are different.

*Link* (any threads at each end, calls, size of the rings and of the stream).
`DispatchersAtWork` is the invariance of `IndInv`, which says `AtWork` of a link
that works. An event that is not served has one caller, whose semaphore has not
been posted, and a caller that waits has one event or a semaphore posted once
(`Awaited`, `OneEach`, `Callers`); what the scheduler holds is the event it took
(`Handled`); every event still to be taken lies in the lap from `curProc` to `cur` (`Ring`); a
thread that is to release a packet finds one (`Held`); and packets on their way
or in the peer with the releases on their way back are no more than
`remotePackets`, which `MaxPackets` bounds (`Room`, an inequality because a reader
that sees a reset drops what it has received). The parts need each other: that an
event keeps its caller needs that `Add` writes over no live slot, which is
`Ring`; that the cursors of the ring never cross needs that the lap holds at most
two slots of a thread, its event and one that `cur` has passed over, of which it
has one event by `Awaited`, and a pigeonhole argument over the slots. `EventHasItsCaller`, `WriterNeverOverruns` and `RingHasRoom` follow.
Assumptions: each end has finitely many threads, at least one, with two slots for
each; and a slot is left alone until the scheduler is done with it (`Recycles` is
FALSE).

*Accounts of the link* (the same, with any sizes and capacity). `AccountsBalance` is of
`AccInv`, which adds to `IndInv` what is on its way, by weight: each message counts for
the thread whose call it is about (`About`), for one packet, or for its bytes (`Cost`).
That the accounts are exact needs that no message is dropped, so first that the ring
of remote events never fills: `Traffic` says that at most one message, request or
response, is about a thread's call, and only while its event is `PENDING`; there are
no more of them than threads, half as many as slots. That is `RemoteRingSuffices`.
`Accounts` is then kept because each step moves a weight from one place to another
or takes it from both sides, and `Stored` because the fill level is the size of the
packets in the descriptor. `CreditsAreExact` follows. `NoWakeupIsLost` adds, for each
blocked read, that a packet nobody was told of has its event still ahead (`Wakes`). It
assumes `WritesFit`, that no write is larger than the stream:
`isStreamSpaceEnoughFor` refuses such a write also when the stream is empty, and it
then waits with nothing left whose release would wake it. `TypesAreCorrect` holds after
the link has failed as well, where the accounts are given up: what remains is that the
releases that have come are covered by what was accounted for (`Level`), so that no
level falls below zero.

The totals these proofs add up are a recursive function (Totals). Its defining equation
and the lemmas about concatenation are proved from the existence of a least element
of a set of numbers (`LeastExists`, `UpTo`), as an induction without the library's
induction theorems.

Every safety invariant of the passing runs is a theorem. Only model-checked: all
liveness (outside the prover's reach, like ENABLED), and the refinement of
BoundedChannel by the link.

## Abstractions

* Request: the accessors that only check the state and read are one method
  (`Access`); that they act after the check without the mutex is listed as a
  hazard. The callback executor accepts its tasks.
* Executor: pinning, NUMA nodes and core types cannot be told by a task.
  `runAndWait` is called from outside tasks. An exception in a worker ends the
  process, so tasks throw in callers only.
* Cache: devices that can import and export; FORCE_DISABLE_CACHE behaves as no
  directory. The file information is the version of the file: two versions with
  the same size within the same second of modification time are one to the code. A plugin
  rejects a truncated blob: this is assumed (`Import`), not shown. A load that took no lock and finds a directory
  configured afterwards writes the file of the empty id, which nobody reads; it
  is left out. One process uses a directory; the guard does not serve others.
* MultiDevice: a device's request is as AsyncInferRequest has it; blobs matter
  only by the device they are on. The queues have the semantics the header gives
  them without TBB. The maps of queues and workers are taken as built before the
  loads of AUTO mode begin, although the constructor inserts the second device's
  keys after it has submitted the first load. A request with blobs on a device
  AUTO mode did not choose ends in NotFound at once and is left out. A request
  that ends in `LaunchThrows` is restarted by its client, not by its callback in
  the same call.
* XLink: an event's caller is posted and its slot marked served in one step
  (`PostAndMarkServed`); the code marks the slot just after. In between the slot
  only looks taken a little longer: a caller that comes back passes over it, and
  a thread that frees events may still find it, as it may when it looked before
  it was served, which is modelled. One stream, created before and closed by the clean-up alone. A packet is
  its size and its origin. The remote ring is served in order. `HasRemote` keeps
  that a ring whose cursors meet looks empty. `RoomForThreads` asks for a
  thread at each end and two slots for each thread, as the code has 64 slots and 32 semaphores: with fewer, the
  ring's cursors may cross. `Add` that finds no free slot fails and still posts the token. The application releases only what it has read; the code
  releases the oldest packet, whoever has read it. The device loses its memory with
  its power, so that its threads need not go on when it is unplugged (`Alive`).
  Properties about an event's caller hold while the link works: when both threads
  of a dispatcher free the same event it is posted twice, and its result is copied
  to the stack of a call that has returned.

## Plan, and what is left of it

The order was: the request, its executor, the cache with its guard, the
scheduler, the link, and the proofs of all five. That is done. What would
come next: the refinement of BoundedChannel by the link as a theorem, for which
`AccInv` has the room of a write and what is left is the order of the packets (what
is in the descriptor, on the wire and about to be sent is one sequence); creating and closing
streams, and several streams, of the link; and the request of the hetero plugin
as a composition of AsyncInferRequests.

## Not modelled

* Hetero plugin: a pipeline of stages that requests of devices execute. The one
  new behaviour, a stage that runs in a callback which its request has swapped
  out, is that of a worker of MULTI (`Overtake`). The splitting of graphs is data.
* Executor manager: two maps, each operation a critical section. Its `clear` joins
  executors under its mutexes, which is listed as a hazard.
* Memory solver: sequential and without state between calls.
* TBB streams executor: its queues are those of a library.
* XLink: creating and closing streams, pings, more threads than semaphores (32),
  the retry of a failed wait, the platform's transports.
* Plugin registry, configuration, readers: maps under one mutex, and input.
* Device plugins, nGraph, transformations, low precision, blob conversions and the
  model optimizer are sequential numeric or graph code, most of the repository,
  that tests compare with references: there are no interleavings, failures or
  orders for a model to explore. The back ends speak to firmware and drivers that
  are not in the repository.
* Bindings, samples, tests, third-party code.

The lines the models stand for are therefore a small part of the repository: they
are its protocols, not its kernels.
