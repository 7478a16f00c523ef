----------------------------- MODULE MultiDevice -----------------------------
(***************************************************************************)
(* The scheduler of the multi-device plugin                                *)
(* (multi_device/multi_device_exec_network.cpp): the tasks of the user's   *)
(* requests, the queues they wait in, and the infer requests of the        *)
(* devices, the workers, which execute them.                               *)
(*                                                                         *)
(* A thread is named after what it is called for: the thread that starts a *)
(* request, or the one that calls a worker's callback.  The queues are     *)
(* thread-safe by themselves; nothing makes two calls of them atomic.      *)
(*                                                                         *)
(* In MULTI mode the networks of all devices are there when the executable *)
(* network is constructed.  In AUTO mode the constructor has them loaded   *)
(* by tasks of an executor, the CPU's and that of one accelerator, waits   *)
(* for the first one that is needed, and requests move to the accelerator  *)
(* when its network is there.                                              *)
(***************************************************************************)
EXTENDS Naturals, Sequences, FiniteSets

CONSTANTS
    Requests,           \* the user's requests
    Workers,            \* the requests of the devices
    Devices,
    DeviceOf,           \* the device of a worker
    Cpu,                \* the device whose name contains CPU
    Selections,         \* the sets of devices AUTO mode loads to; {} is MULTI mode
    NoDevice,                \* no preferred device
    None,               \* no request, no worker
    Throws,             \* the second stage of a pipeline may throw
    Overtakes,          \* a worker's inference may end before its last callback did
    LoadsFail,          \* a load of AUTO mode may throw
    MaxStarts, MaxConfigs   \* bounds

ASSUME MultiAssumption ==
    /\ Requests \cap Workers = {}
    /\ IsFiniteSet(Requests) /\ IsFiniteSet(Workers) /\ IsFiniteSet(Devices)
    /\ DeviceOf \in [Workers -> Devices]
    /\ NoDevice \notin Devices
    /\ None \notin Requests \cup Workers
    /\ Cpu \in Devices
    /\ \A S \in Selections : S \subseteq Devices /\ Cardinality(S \ {Cpu}) <= 1
    /\ {Throws, Overtakes, LoadsFail} \subseteq BOOLEAN
    /\ {MaxStarts, MaxConfigs} \subseteq Nat

Threads == Requests \cup Workers

VARIABLES
    priorities, \* _devicePriorities
    tasks,      \* _inferPipelineTasks (of NoDevice), _inferPipelineTasksDeviceSpecific
    idle,       \* _idleWorkerRequests of each device
    closed,     \* the devices whose idle list has no capacity any more
    work,       \* the request whose last stage a worker was started with (_task)
    callback,   \* the workers whose infer request has its callback
    at, task, preferred, devices, popped, back,
                \* of each thread: where it is, the locals of
                \* ScheduleToWorkerInferRequest, and where that returns to
    busy,       \* the requests that were started and have not ended
    failed,     \* the workers that went missing, see LaunchThrows and Overtake
    wanted,     \* the device the blobs of a request are on
    phase,      \* of the executable network
    selected,   \* the devices AUTO mode loads to (needLoadDevices), {} in MULTI mode
    load,       \* how far the loading of a device's network is
    alreadyActual,      \* _alreadyActualNetwork
    first, actual,      \* the devices of _networkFirstReady, _networkActualNeeded
    valid,      \* the accelerator, until _acceleratorFuture.get
    starts, configs     \* bounds

locals == <<at, task, preferred, devices, popped, back>>
pool == <<priorities, tasks, idle, closed>>
network == <<work, callback, failed, phase>>
user == <<busy, wanted, starts, configs>>
auto == <<selected, load, alreadyActual, first, actual, valid>>
vars == <<locals, pool, network, user, auto>>

Places == {"out", "pick", "try", "hold", "cb", "release", "agnostic", "specific", "restore"}

\* The orders in which devices may be prior.
Orders == {s \in UNION {[1..n -> Devices] : n \in 1..Cardinality(Devices)} :
            \A i, j \in DOMAIN s : s[i] = s[j] => i = j}

\* GenerateWorkers: the workers of a device, all idle.
WorkersOf(d) == {w \in Workers : DeviceOf[w] = d}
IdleOf(d) == CHOOSE s \in [1..Cardinality(WorkersOf(d)) -> WorkersOf(d)] :
                \A w \in WorkersOf(d) : \E i \in DOMAIN s : s[i] = w

\* _acceleratorDevice, which is the CPU when no other device supports the network.
Accelerator == IF selected = {Cpu} THEN Cpu ELSE CHOOSE d \in selected : d # Cpu

Init ==
    /\ priorities \in {s \in Orders : Len(s) = Cardinality(Devices)}
    /\ tasks = [d \in Devices \cup {NoDevice} |-> <<>>]
    /\ selected \in Selections
    /\ load = [d \in Devices |-> IF selected = {} THEN "ready"
                                 ELSE IF d \in selected THEN "loading" ELSE "none"]
    /\ idle = [d \in Devices |-> IF selected = {} THEN IdleOf(d) ELSE <<>>]
    /\ alreadyActual = FALSE
    /\ first = NoDevice /\ actual = NoDevice
    /\ valid = selected \ {Cpu}
    /\ phase = IF selected = {} THEN "used" ELSE "constructing"
    /\ closed = {}
    /\ work = [w \in Workers |-> None]
    /\ callback = Workers
    /\ at = [t \in Threads |-> "out"]
    /\ task = [t \in Threads |-> None]
    /\ preferred = [t \in Threads |-> NoDevice]
    /\ devices = [t \in Threads |-> <<>>]
    /\ popped = [t \in Threads |-> None]
    /\ back = [t \in Threads |-> "out"]
    /\ busy = {} /\ failed = {}
    /\ wanted = [r \in Requests |-> NoDevice]
    /\ starts = 0 /\ configs = 0
-----------------------------------------------------------------------------
(* AUTO mode: the tasks that load, and who waits for them.                  *)

\* Mutant: the flag is set before the workers are there.
GenerateFlagged(d) ==
    /\ load[d] = "loading"
    /\ \/ alreadyActual' = TRUE /\ UNCHANGED <<load, idle>>
       \/ /\ load' = [load EXCEPT ![d] = "flagged"]
          /\ idle' = [idle EXCEPT ![d] = IdleOf(d)]
          /\ UNCHANGED alreadyActual
    /\ UNCHANGED <<locals, priorities, tasks, closed, network, user, selected,
                   first, actual, valid>>

\* Core::LoadNetwork returned, and GenerateWorkers fills the idle list.
Generate(d) ==
    /\ load[d] = "loading"
    /\ load' = [load EXCEPT ![d] = IF d = Cpu THEN "flagged" ELSE "generated"]
    /\ idle' = [idle EXCEPT ![d] = IdleOf(d)]
    /\ UNCHANGED <<locals, priorities, tasks, closed, network, user, selected,
                   alreadyActual, first, actual, valid>>

\* The accelerator's task tells the scheduler.
Flag(d) ==
    /\ load[d] = "generated"
    /\ load' = [load EXCEPT ![d] = "flagged"]
    /\ alreadyActual' = TRUE
    /\ UNCHANGED <<locals, pool, network, user, selected, first, actual, valid>>

\* Mutant: the accelerator's flag is taken for its promise.
SetCpuPromise(d) ==
    /\ load[d] = "flagged" /\ d = Cpu
    /\ load' = [load EXCEPT ![d] = "ready"]
    /\ UNCHANGED <<locals, pool, network, user, selected, alreadyActual, first, actual, valid>>

\* The promise is set, and the task ends.
SetPromise(d) ==
    /\ load[d] = "flagged"
    /\ load' = [load EXCEPT ![d] = "ready"]
    /\ UNCHANGED <<locals, pool, network, user, selected, alreadyActual, first, actual, valid>>

\* LoadNetwork or GenerateWorkers throws.  The task is no std::packaged_task, and
\* nobody catches in the thread of the executor: the process is terminated.
LoadThrows(d) ==
    /\ LoadsFail
    /\ load[d] = "loading"
    /\ load' = [load EXCEPT ![d] = "failed"]
    /\ phase' = "terminated"
    /\ UNCHANGED <<locals, pool, work, callback, failed, user, selected, alreadyActual,
                   first, actual, valid>>

\* WaitFirstNetworkReady looks at the flag before it looks at the futures.
SeeFlag ==
    /\ phase = "constructing"
    /\ phase' = IF alreadyActual THEN "used" ELSE "waiting"
    /\ UNCHANGED <<locals, pool, work, callback, failed, user, auto>>

\* Mutant: the flag is left to the task of an accelerator.
SingleIsNotActual(futures) == FALSE

\* "if there is only one device", its network is the actual one.
SingleIsActual(futures) == futures = {}

\* The CPU's future is got if there is one, else the accelerator's.
WaitFirst ==
    /\ phase = "waiting"
    /\ \E d \in selected :
        /\ Cpu \in selected => d = Cpu
        /\ load[d] = "ready"
        /\ IF valid \ {d} # {} THEN first' = d /\ UNCHANGED actual
                              ELSE actual' = d /\ UNCHANGED first
        /\ valid' = valid \ {d}
    /\ alreadyActual' = (alreadyActual \/ SingleIsActual(valid'))
    /\ phase' = "used"
    /\ UNCHANGED <<locals, pool, work, callback, failed, user, selected, load>>

\* WaitActualNetworkReady gets the accelerator's future once, for all its callers.
WaitActual ==
    /\ \A d \in valid : load[d] = "ready"
    /\ actual' = IF valid = {} THEN actual ELSE Accelerator
    /\ valid' = {}

\* GetMetric of a network whose flag is set, GetContext at any time.
Ask ==
    /\ phase = "used" /\ selected # {}
    /\ WaitActual
    /\ UNCHANGED <<locals, pool, network, user, selected, load, alreadyActual, first>>

Loading(d) == Generate(d) \/ Flag(d) \/ SetPromise(d)
-----------------------------------------------------------------------------
(* ScheduleToWorkerInferRequest.                                            *)

Schedule(t, r, d, ret) ==
    /\ at' = [at EXCEPT ![t] = "pick"]
    /\ task' = [task EXCEPT ![t] = r]
    /\ preferred' = [preferred EXCEPT ![t] = d]
    /\ back' = [back EXCEPT ![t] = ret]
    /\ UNCHANGED <<devices, popped>>

\* Mutant: the preferred device is tried first, others after it.
EligibleToo(d) == priorities

\* MULTI mode: all devices, or the one with the preferred name.
Eligible(d) ==
    IF d = NoDevice THEN priorities
    ELSE IF \E i \in DOMAIN priorities : priorities[i] = d THEN <<d>> ELSE <<>>

\* The devices to try.  The priorities are copied under the mutex; a request that
\* prefers the accelerator waits for it.
Pick(t) ==
    /\ at[t] = "pick"
    /\ at' = [at EXCEPT ![t] = "try"]
    /\ \/ /\ selected = {}
          /\ devices' = [devices EXCEPT ![t] = Eligible(preferred[t])]
          /\ UNCHANGED <<actual, valid>>
       \/ /\ selected # {} /\ preferred[t] = NoDevice
          /\ devices' = [devices EXCEPT ![t] = <<IF alreadyActual THEN Accelerator ELSE Cpu>>]
          /\ UNCHANGED <<actual, valid>>
       \/ /\ selected # {} /\ preferred[t] # NoDevice
          /\ WaitActual
          /\ devices' = [devices EXCEPT ![t] = <<Accelerator>>]
    /\ UNCHANGED <<task, preferred, popped, back, pool, network, user,
                   selected, load, alreadyActual, first>>

\* The scheduler returns to its caller.
Leave(t) ==
    /\ at' = [at EXCEPT ![t] = back[t]]
    /\ task' = [task EXCEPT ![t] = None]
    /\ preferred' = [preferred EXCEPT ![t] = NoDevice]
    /\ devices' = [devices EXCEPT ![t] = <<>>]
    /\ popped' = [popped EXCEPT ![t] = None]
    /\ back' = [back EXCEPT ![t] = "out"]

\* Mutant: the worker is looked at and left in the list.
TakenNone(s) == s

Taken(s) == Tail(s)

TryPop(t) ==
    LET d == Head(devices[t]) IN
    /\ at[t] = "try" /\ devices[t] # <<>>
    /\ IF idle[d] # <<>> /\ d \notin closed
       THEN /\ at' = [at EXCEPT ![t] = "hold"]
            /\ popped' = [popped EXCEPT ![t] = Head(idle[d])]
            /\ idle' = [idle EXCEPT ![d] = Taken(@)]
            /\ devices' = [devices EXCEPT ![t] = <<>>]
       ELSE /\ devices' = [devices EXCEPT ![t] = Tail(@)]
            /\ UNCHANGED <<at, popped, idle>>
    /\ UNCHANGED <<task, preferred, back, priorities, tasks, closed, network, user, auto>>

\* Mutant: the task was moved from before.
StoreMoved(t) ==
    /\ at[t] = "try" /\ devices[t] = <<>>
    /\ tasks' = [tasks EXCEPT ![preferred[t]] = Append(@, None)]
    /\ Leave(t)
    /\ UNCHANGED <<priorities, idle, closed, network, user, auto>>

\* Nobody is idle: the task waits in a queue.
Store(t) ==
    /\ at[t] = "try" /\ devices[t] = <<>>
    /\ tasks' = [tasks EXCEPT ![preferred[t]] = Append(@, task[t])]
    /\ Leave(t)
    /\ UNCHANGED <<priorities, idle, closed, network, user, auto>>

\* RunPipelineTask: the second stage hands the blobs to the worker, the executor of
\* the third gives it the task and starts it.
Launch(t) ==
    /\ at[t] = "hold"
    /\ work' = [work EXCEPT ![popped[t]] = task[t]]
    /\ Leave(t)
    /\ UNCHANGED <<pool, callback, failed, phase, user, auto>>

\* A run of a request ended.
End(r) ==
    /\ busy' = busy \ {r}
    /\ wanted' = [wanted EXCEPT ![r] = NoDevice]

\* SetBlob or StartAsync of the worker threw: the request ends in this thread.
\* The task itself does not throw, so the guard does not bring the worker back.
LaunchThrows(t) ==
    /\ Throws
    /\ at[t] = "hold"
    /\ End(task[t])
    /\ failed' = failed \cup {popped[t]}
    /\ Leave(t)
    /\ UNCHANGED <<pool, work, callback, phase, starts, configs, auto>>
-----------------------------------------------------------------------------
(* The pipeline of a request: the first stage finds the device of its blobs. *)

MayStart == starts < MaxStarts /\ starts' = starts + 1

\* The devices the blobs of a request may be on.  AUTO mode refuses all but the
\* accelerator: such a request ends as if it had not been started.
Bound == {NoDevice} \cup IF selected = {} THEN Devices ELSE {Accelerator}

Start(r) ==
    /\ phase = "used" /\ r \notin busy /\ at[r] = "out"
    /\ MayStart
    /\ \E d \in Bound :
        /\ wanted' = [wanted EXCEPT ![r] = d]
        /\ Schedule(r, r, d, "out")
    /\ busy' = busy \cup {r}
    /\ UNCHANGED <<pool, network, configs, auto>>

\* The worker's inference ended.  Its infer request lends the callback to the
\* thread that calls it.
Finish(w) ==
    /\ work[w] # None /\ w \notin failed
    /\ w \in callback /\ at[w] = "out"
    /\ at' = [at EXCEPT ![w] = "cb"]
    /\ callback' = callback \ {w}
    /\ UNCHANGED <<task, preferred, devices, popped, back, pool, work, failed, phase, user, auto>>

\* The inference ended although the callback of the one before it has not returned:
\* there is no callback to call, and the task is never executed.
Overtake(w) ==
    /\ Overtakes
    /\ work[w] # None /\ w \notin failed
    /\ w \notin callback /\ at[w] # "cb"
    /\ failed' = failed \cup {w}
    /\ UNCHANGED <<locals, pool, work, callback, phase, user, auto>>

\* The third stage ends the request.
Call(w) ==
    /\ at[w] = "cb"
    /\ End(work[w])
    /\ work' = [work EXCEPT ![w] = None]
    /\ at' = [at EXCEPT ![w] = "release"]
    /\ UNCHANGED <<task, preferred, devices, popped, back, pool, callback, failed, phase, starts, configs, auto>>

\* The user's callback, which the third stage calls, starts the request again.
CallRestarts(w) ==
    /\ at[w] = "cb"
    /\ MayStart
    /\ work' = [work EXCEPT ![w] = None]
    /\ \E d \in Bound :
        /\ wanted' = [wanted EXCEPT ![work[w]] = d]
        /\ Schedule(w, work[w], d, "release")
    /\ UNCHANGED <<pool, callback, failed, phase, busy, configs, auto>>

\* The worker is pushed to the idle list, unless that was closed.
Release(w) ==
    /\ at[w] = "release"
    /\ IF DeviceOf[w] \in closed
       THEN /\ at' = [at EXCEPT ![w] = "restore"]
            /\ UNCHANGED idle
       ELSE /\ at' = [at EXCEPT ![w] = "agnostic"]
            /\ idle' = [idle EXCEPT ![DeviceOf[w]] = Append(@, w)]
    /\ UNCHANGED <<task, preferred, devices, popped, back, priorities, tasks, closed, network, user, auto>>

\* Mutant: the task is executed and stays in the queue.
RestAll(s) == s

Rest(s) == Tail(s)

\* A task is taken from a queue for some worker, most likely this one.
PopFrom(w, q) ==
    /\ tasks[q] # <<>>
    /\ tasks' = [tasks EXCEPT ![q] = Rest(@)]
    /\ Schedule(w, Head(tasks[q]), q, "restore")

NothingIn(w, q, to) ==
    /\ tasks[q] = <<>>
    /\ at' = [at EXCEPT ![w] = to]
    /\ UNCHANGED <<tasks, task, preferred, devices, popped, back>>

PopAgnostic(w) ==
    /\ at[w] = "agnostic"
    /\ PopFrom(w, NoDevice) \/ NothingIn(w, NoDevice, "specific")
    /\ UNCHANGED <<priorities, idle, closed, network, user, auto>>

PopSpecific(w) ==
    /\ at[w] = "specific"
    /\ PopFrom(w, DeviceOf[w]) \/ NothingIn(w, DeviceOf[w], "restore")
    /\ UNCHANGED <<priorities, idle, closed, network, user, auto>>

\* The callback returns to the infer request of the worker, which takes it back.
Restore(w) ==
    /\ at[w] = "restore"
    /\ at' = [at EXCEPT ![w] = "out"]
    /\ callback' = callback \cup {w}
    /\ UNCHANGED <<task, preferred, devices, popped, back, pool, work, failed, phase, user, auto>>
-----------------------------------------------------------------------------
(* The executable network.                                                  *)

\* SetConfig may reorder the devices and leave some out.
SetConfig(s) ==
    /\ phase = "used" /\ selected = {} /\ configs < MaxConfigs
    /\ configs' = configs + 1
    /\ priorities' = s
    /\ UNCHANGED <<locals, tasks, idle, closed, network, busy, wanted, starts, auto>>

\* The destructor runs when the last request is gone, which waits for its run.
Destroy ==
    /\ phase = "used" /\ busy = {}
    /\ \A r \in Requests : at[r] = "out"
    /\ phase' = "leaving"
    /\ UNCHANGED <<locals, pool, work, callback, failed, user, auto>>

\* Mutant: the executor is not reset, whose destructor joins its threads.
LoadsIgnored == TRUE

LoadsOver == \A d \in selected : load[d] = "ready"

\* In AUTO mode the accelerator's network and the executor's threads are waited
\* for; the priorities are cleared.
StopLoading ==
    /\ phase = "leaving"
    /\ WaitActual
    /\ LoadsOver
    /\ priorities' = <<>>
    /\ phase' = "closing"
    /\ UNCHANGED <<locals, tasks, idle, closed, work, callback, failed, user, selected,
                   load, alreadyActual, first>>

Close(d) ==
    /\ phase = "closing" /\ d \notin closed
    /\ closed' = closed \cup {d}
    /\ UNCHANGED <<locals, priorities, tasks, idle, network, user, auto>>

\* The destructor of a worker's infer request waits for its last run, whose callback
\* returns before its promise is set.
Quiet(w) == at[w] = "out"

Clear ==
    /\ phase = "closing" /\ closed = Devices
    /\ \A w \in Workers : Quiet(w)
    /\ phase' = "gone"
    /\ UNCHANGED <<locals, pool, work, callback, failed, user, auto>>

Scheduling(t) == Pick(t) \/ TryPop(t) \/ Store(t) \/ Launch(t) \/ LaunchThrows(t)
CallbackStep(w) ==
    \/ Finish(w) \/ Call(w) \/ CallRestarts(w) \/ Release(w)
    \/ PopAgnostic(w) \/ PopSpecific(w) \/ Restore(w)
Construction == SeeFlag \/ WaitFirst
Destruction == StopLoading \/ Clear \/ \E d \in Devices : Close(d)

\* Nothing happens any more in a process that was terminated.
Running == phase # "terminated"

Next ==
    /\ Running
    /\ \/ \E d \in Devices : Loading(d) \/ LoadThrows(d)
       \/ Construction \/ Ask
       \/ \E t \in Threads : Scheduling(t)
       \/ \E r \in Requests : Start(r)
       \/ \E w \in Workers : CallbackStep(w) \/ Overtake(w)
       \/ \E s \in Orders : SetConfig(s)
       \/ Destroy \/ Destruction

Spec == Init /\ [][Next]_vars

\* Threads go on, networks are loaded, a device ends its inferences, and a
\* constructor or destructor that was called does its work.
Fairness ==
    /\ \A d \in Devices : WF_vars(Running /\ Loading(d))
    /\ \A t \in Threads : WF_vars(Running /\ Scheduling(t))
    /\ \A w \in Workers : WF_vars(Running /\ CallbackStep(w))
    /\ WF_vars(Running /\ Construction)
    /\ WF_vars(Running /\ Destruction)

FairSpec == Spec /\ Fairness
-----------------------------------------------------------------------------
TypeOK ==
    /\ priorities \in Orders \cup {<<>>}
    /\ tasks \in [Devices \cup {NoDevice} -> Seq(Requests)]
    /\ idle \in [Devices -> Seq(Workers)]
    /\ closed \subseteq Devices
    /\ work \in [Workers -> Requests \cup {None}]
    /\ callback \subseteq Workers
    /\ at \in [Threads -> Places]
    /\ task \in [Threads -> Requests \cup {None}]
    /\ preferred \in [Threads -> Devices \cup {NoDevice}]
    /\ devices \in [Threads -> Orders \cup {<<>>}]
    /\ popped \in [Threads -> Workers \cup {None}]
    /\ back \in [Threads -> {"out", "release", "restore"}]
    /\ busy \subseteq Requests /\ failed \subseteq Workers
    /\ wanted \in [Requests -> Devices \cup {NoDevice}]
    /\ phase \in {"constructing", "waiting", "used", "leaving", "closing", "gone", "terminated"}
    /\ selected \in Selections
    /\ load \in [Devices -> {"none", "loading", "generated", "flagged", "ready", "failed"}]
    /\ alreadyActual \in BOOLEAN
    /\ {first, actual} \subseteq selected \cup {NoDevice}
    /\ valid \subseteq selected
    /\ {starts, configs} \subseteq Nat

\* The workers of a device have been generated.
Loaded(d) == load[d] \in {"generated", "flagged", "ready"}

\* Where a worker may be: in an idle list, in the hand of the scheduler, started,
\* or in its callback before it is released.
IdleAt(w, d) == {<<"idle", d, i>> : i \in {j \in DOMAIN idle[d] : idle[d][j] = w}}
HeldBy(w) == {<<"held", t>> : t \in {u \in Threads : popped[u] = w}}
StartedFor(w) == {<<"started", r>> : r \in {work[w]} \ {None}}
Unreleased(w) == {<<"callback", v>> : v \in {u \in {w} : at[u] = "release" \/ back[u] = "release"}}
WorkerPlaces(w) ==
    (UNION {IdleAt(w, d) : d \in Devices}) \cup HeldBy(w) \cup StartedFor(w) \cup Unreleased(w)

\* No worker is given to two requests, and none gets lost, whoever pops and pushes it,
\* unless a stage threw or its callback was overtaken.
WorkerHasOnePlace ==
    \A w \in Workers :
        /\ Cardinality(WorkerPlaces(w)) <= 1
        /\ phase = "used" /\ w \notin failed /\ Loaded(DeviceOf[w]) => WorkerPlaces(w) # {}

\* Where the task of a request may be: in a queue, with the scheduler, in a worker.
QueuedAt(r, q) == {<<"queue", q, i>> : i \in {j \in DOMAIN tasks[q] : tasks[q][j] = r}}
ScheduledBy(r) == {<<"schedule", t>> : t \in {u \in Threads : task[u] = r}}
ExecutedBy(r) == {<<"worker", w>> : w \in {v \in Workers : work[v] = r}}
TaskPlaces(r) ==
    (UNION {QueuedAt(r, q) : q \in Devices \cup {NoDevice}}) \cup ScheduledBy(r) \cup ExecutedBy(r)

\* A request that was started has its task in one place until it ends: no task is
\* dropped or executed twice, however it moves between queues and threads.
TaskHasOnePlace ==
    \A r \in Requests : Cardinality(TaskPlaces(r)) = IF r \in busy THEN 1 ELSE 0

\* A request whose blobs are on a device is executed on that device only, though it
\* waited in a queue and priorities changed.
RunsWherePreferred ==
    \A w \in Workers : work[w] # None => wanted[work[w]] \in {NoDevice, DeviceOf[w]}

\* No task waits in a queue while all workers are idle and nobody is about to look
\* for it: the device "automatically assigns inference requests to available
\* computational devices".
NoTaskIsStranded ==
    \/ tasks[NoDevice] = <<>>
    \/ \E t \in Threads : at[t] # "out"
    \/ \E w \in Workers : work[w] # None

\* Whichever network is first, tasks are offered to, and queued for, only devices
\* whose workers and queue exist: the flag and the futures the scheduler goes by
\* never run ahead of GenerateWorkers.
OnlyLoadedDevices ==
    /\ \A t \in Threads, i \in 1..Cardinality(Devices) :
            i \in DOMAIN devices[t] => Loaded(devices[t][i])
    /\ \A d \in Devices : tasks[d] # <<>> => Loaded(d)

\* GetMetric finds a network to ask, from the constructor's return on, while the
\* switch to the accelerator goes on: the first one until the flag is set, then
\* the actual one, or the future it waits for.
NetworkToAsk ==
    selected # {} /\ phase = "used" =>
        IF alreadyActual THEN actual # NoDevice \/ valid # {} ELSE first # NoDevice

\* When the destructor has returned nobody is left who would use the network: no
\* callback of a worker, no thread in the scheduler, and no load that the
\* constructor or the requests never waited for.
QuietWhenGone ==
    phase = "gone" =>
        /\ \A t \in Threads : at[t] = "out"
        /\ \A d \in selected : load[d] = "ready"

\* "Warning: load network to CPU failed": the constructor goes on with the
\* accelerator.
SurvivesCpuFailure == load[Cpu] = "failed" => Running

\* The destructor of the executable network returns, whatever callbacks and loads
\* are running when it begins, unless a load terminates the process.
DestructorReturns == phase = "leaving" ~> phase \in {"gone", "terminated"}
=============================================================================
