------------------------- MODULE AsyncInferRequest -------------------------
(***************************************************************************)
(* AsyncInferRequestThreadSafeDefault: the request object every plugin     *)
(* derives its asynchronous inference request from                         *)
(* (plugin_api/cpp_interfaces/impl/                                        *)
(*  ie_infer_async_request_thread_safe_default.hpp).                       *)
(*                                                                         *)
(* A run is one passage of the request through its pipeline: one promise,  *)
(* one future, the tasks of the stages and the last stage task.  Callers   *)
(* are the application's threads (Clients) and the threads that execute a  *)
(* completion callback; the latter are named by the run whose callback     *)
(* they execute.  Each critical section of _mutex is one action, as is     *)
(* each access to a member made outside of it.                             *)
(***************************************************************************)
EXTENDS Naturals

CONSTANTS
    Clients,            \* application threads
    Runs,               \* identities of runs; bounds how many are started
    NoRun,              \* an invalid future, a moved-from promise
    NumStages,          \* length of _pipeline
    Disciplines,        \* the applications considered: disciplined ones, others, both
    ClientOps           \* the methods each of their threads calls, by discipline

Ops == {"StartAsync", "Infer", "Wait", "Cancel", "SetCallback", "Access"}

ASSUME RequestAssumption ==
    /\ Clients \cap Runs = {}
    /\ NoRun \notin Runs
    /\ NumStages \in Nat \ {0}
    /\ ClientOps \in [BOOLEAN -> [Clients -> SUBSET Ops]]
    /\ Disciplines \subseteq BOOLEAN

VARIABLES
    disciplined,\* how the application is written, which never changes: a disciplined one
                \* starts a run, or sets the callback, only when the last run is settled,
                \* its threads one after the other; another one's callback may also call
                \* StartAsync, once
    state,      \* _state
    callback,   \* _callback: whether it holds the application's callback
    promise,    \* _promise: the run whose promise it is
    futures,    \* _futures, of which only the last one's position matters
    last,       \* _futures.back()
    fut,        \* the shared state of each run's promise and future
    pos,        \* where the pipeline of a run is
    stg,        \* the stage it is in
    exc,        \* currentException
    taken,      \* the promise its last stage task moved out of _promise
    pc,         \* where a caller is
    myrun,      \* the run a caller launches, or waits for
    sync,       \* the caller is inside Infer
    saved,      \* DisableCallbackGuard::_callback of that Infer
    life,       \* alive; the derived class's destructor is in StopAndWait; its
                \* members are released; the base class's destructor is in
                \* StopAndWait; destroyed
    waited,     \* the futures StopAndWait moved out of _futures
    registered, \* history: what the application last passed to SetCallback
    cb,         \* history: whether a run's callback is due, called, stray
    hit         \* history: the runs that were in flight when Cancel took effect

members == <<state, callback, promise, futures, last>>
pipelines == <<pos, stg, exc, taken>>
callers == <<pc, myrun, sync, saved>>
object == <<life, waited>>
history == <<registered, cb, hit>>
vars == <<disciplined, members, fut, pipelines, callers, object, history>>

Callers == Clients \cup Runs
MaybeRun == Runs \cup {NoRun}
InferState == {"Idle", "Busy", "Canceled", "Stop"}
Settled == {"value", "error"}

Positions == {"none", "stage", "last", "reset", "callback", "returned",
              "settle", "done"}
Places == {"idle", "claim", "launch", "unwind", "capture", "wait", "restore",
           "SetCallback", "Access", "over"}

(* The run owns _state: it was claimed and has not yet been set Idle again. *)
Launching(c) == pc[c] \in {"launch", "unwind"}
InPipeline(r) == pos[r] \in {"stage", "last", "reset"}
Owner(r) == InPipeline(r) \/ \E c \in Callers : Launching(c) /\ myrun[c] = r

Init ==
    /\ disciplined \in Disciplines
    /\ state = "Idle"
    /\ callback \in BOOLEAN
    /\ promise = NoRun
    /\ futures = {}
    /\ last = NoRun
    /\ fut = [r \in Runs |-> "none"]
    /\ pos = [r \in Runs |-> "none"]
    /\ stg = [r \in Runs |-> 0]
    /\ exc = [r \in Runs |-> "none"]
    /\ taken = [r \in Runs |-> NoRun]
    /\ pc = [c \in Callers |-> "idle"]
    /\ myrun = [c \in Callers |-> NoRun]
    /\ sync = [c \in Callers |-> FALSE]
    /\ saved = [c \in Callers |-> FALSE]
    /\ life = "alive"
    /\ waited = {}
    /\ registered = callback
    /\ cb = [r \in Runs |-> "off"]
    /\ hit = {}

-----------------------------------------------------------------------------
(* Entering a method.                                                       *)

\* A client may call any method of a live object; a callback only restarts.
MayCall(c, op) ==
    /\ pc[c] = "idle"
    /\ IF c \in Clients
       THEN life = "alive" /\ op \in ClientOps[disciplined][c]
       ELSE pos[c] = "callback" /\ op = "StartAsync" /\ ~disciplined

\* The thread is inside StartAsync, Infer or SetCallback.
Driving(c) ==
    \/ pc[c] \in {"claim", "launch", "unwind", "capture", "restore", "SetCallback"}
    \/ pc[c] = "wait" /\ sync[c]

\* When a disciplined application's thread may start a run or set the callback.
Calm(c) ==
    (c \in Clients /\ disciplined) =>
        /\ \A r \in Runs : last = r => fut[r] \in Settled
        /\ \A d \in Clients : ~Driving(d)

\* The method returned or threw: its local variables are gone.
Return(c) ==
    /\ pc' = [pc EXCEPT ![c] = IF c \in Clients THEN "idle" ELSE "over"]
    /\ myrun' = [myrun EXCEPT ![c] = NoRun]
    /\ sync' = [sync EXCEPT ![c] = FALSE]
    /\ saved' = [saved EXCEPT ![c] = FALSE]

\* InferImpl or Wait threw, or Wait returned: Infer still has its guard to destroy.
Leave(c) ==
    \/ sync[c] /\ pc' = [pc EXCEPT ![c] = "restore"] /\ UNCHANGED <<myrun, sync, saved>>
    \/ ~sync[c] /\ Return(c)

\* InferImpl returned: Infer goes on to Wait.
Proceed(c) ==
    \/ sync[c] /\ pc' = [pc EXCEPT ![c] = "capture"] /\ UNCHANGED <<myrun, sync, saved>>
    \/ ~sync[c] /\ Return(c)

StartAsync(c) ==
    /\ MayCall(c, "StartAsync")
    /\ Calm(c)
    /\ pc' = [pc EXCEPT ![c] = "claim"]
    /\ sync' = [sync EXCEPT ![c] = FALSE]
    /\ UNCHANGED <<members, fut, pipelines, myrun, saved, object, history>>

\* Infer begins with the constructor of DisableCallbackGuard.
Infer(c) ==
    /\ MayCall(c, "Infer")
    /\ Calm(c)
    /\ saved' = [saved EXCEPT ![c] = callback]
    /\ callback' = FALSE
    /\ pc' = [pc EXCEPT ![c] = "claim"]
    /\ sync' = [sync EXCEPT ![c] = TRUE]
    /\ UNCHANGED <<state, promise, futures, last, fut, pipelines, myrun, object, history>>

\* The last future is picked under the lock, then waited for without it.
Wait(c) ==
    /\ MayCall(c, "Wait")
    /\ last # NoRun
    /\ myrun' = [myrun EXCEPT ![c] = last]
    /\ pc' = [pc EXCEPT ![c] = "wait"]
    /\ sync' = [sync EXCEPT ![c] = FALSE]
    /\ UNCHANGED <<members, fut, pipelines, saved, object, history>>

\* Mutant: Cancel frees the request at once.
CancelFrees(c) ==
    /\ MayCall(c, "Cancel")
    /\ state = "Busy"
    /\ state' = "Idle"
    /\ hit' = hit \cup {r \in Runs : Owner(r)}
    /\ UNCHANGED <<callback, promise, futures, last, fut, pipelines, callers, object,
                   registered, cb>>

Cancel(c) ==
    /\ MayCall(c, "Cancel")
    /\ state = "Busy"
    /\ state' = "Canceled"
    /\ hit' = hit \cup {r \in Runs : Owner(r)}
    /\ UNCHANGED <<callback, promise, futures, last, fut, pipelines, callers, object,
                   registered, cb>>

\* SetCallback and the accessors of the request ("Access" stands for SetBlob,
\* GetBlob, SetBatch, QueryState, GetPerformanceCounts) first check the state.
CheckState(c, op) ==
    /\ op \in {"SetCallback", "Access"}
    /\ MayCall(c, op)
    /\ op = "SetCallback" => Calm(c)
    /\ state \notin {"Busy", "Canceled"}
    /\ pc' = [pc EXCEPT ![c] = op]
    /\ UNCHANGED <<members, fut, pipelines, myrun, sync, saved, object, history>>

SetCallback(c) ==
    /\ pc[c] = "SetCallback"
    /\ \E f \in BOOLEAN : callback' = f /\ registered' = f
    /\ pc' = [pc EXCEPT ![c] = "idle"]
    /\ UNCHANGED <<state, promise, futures, last, fut, pipelines, myrun, sync, saved,
                   object, cb, hit>>

Access(c) ==
    /\ pc[c] = "Access"
    /\ pc' = [pc EXCEPT ![c] = "idle"]
    /\ UNCHANGED <<members, fut, pipelines, myrun, sync, saved, object, history>>
-----------------------------------------------------------------------------
(* InferImpl.                                                               *)

CheckBlobsThrows(c) ==
    /\ pc[c] = "claim"
    /\ Leave(c)
    /\ UNCHANGED <<members, fut, pipelines, object, history>>

\* RequestBusy or InferCancelled is thrown.
Refused(c) ==
    /\ pc[c] = "claim"
    /\ state \in {"Busy", "Canceled"}
    /\ Leave(c)
    /\ UNCHANGED <<members, fut, pipelines, object, history>>

\* Mutant: a canceled request is taken for a free one.
FreeOrCanceled == state \in {"Idle", "Canceled"}

Free == state = "Idle"

\* Mutant: all earlier futures are dropped.
KeptNone == {}

\* The futures that are not ready stay in _futures.
Kept == {f \in futures : fut[f] = "pending"}

\* Mutant: the new future is inserted before the earlier ones.
LastStays(r) == IF last = NoRun THEN r ELSE last

\* emplace_back
Back(r) == r

\* Futures that are ready are dropped, a promise is made, the request is Busy.
Claim(c) ==
    /\ pc[c] = "claim"
    /\ Free
    /\ \E r \in Runs :
        /\ fut[r] = "none"
        /\ state' = "Busy"
        /\ promise' = r
        /\ futures' = Kept \cup {r}
        /\ last' = Back(r)
        /\ fut' = [fut EXCEPT ![r] = "pending"]
        /\ myrun' = [myrun EXCEPT ![c] = r]
    /\ pc' = [pc EXCEPT ![c] = "launch"]
    /\ UNCHANGED <<callback, pipelines, sync, saved, object, history>>

\* After StopAndWait nothing is started, but the state becomes Busy all the same.
ClaimStopped(c) ==
    /\ pc[c] = "claim"
    /\ state = "Stop"
    /\ state' = "Busy"
    /\ Proceed(c)
    /\ UNCHANGED <<callback, promise, futures, last, fut, pipelines, object, history>>

\* RunFirstStage: the executor of the first stage accepted the task.
Launch(c) ==
    /\ pc[c] = "launch"
    /\ pos' = [pos EXCEPT ![myrun[c]] = "stage"]
    /\ stg' = [stg EXCEPT ![myrun[c]] = 1]
    /\ cb' = [cb EXCEPT ![myrun[c]] = IF registered /\ ~sync[c] THEN "due" ELSE "off"]
    /\ Proceed(c)
    /\ UNCHANGED <<members, fut, exc, taken, object, registered, hit>>

\* It threw: the promise is settled first, then the state is reset.
LaunchThrows(c) ==
    /\ pc[c] = "launch"
    /\ fut' = [fut EXCEPT ![promise] = "error"]
    /\ pc' = [pc EXCEPT ![c] = "unwind"]
    /\ UNCHANGED <<members, pipelines, myrun, sync, saved, object, history>>

Unwind(c) ==
    /\ pc[c] = "unwind"
    /\ state' = "Idle"
    /\ Leave(c)
    /\ UNCHANGED <<callback, promise, futures, last, fut, pipelines, object, history>>
-----------------------------------------------------------------------------
(* Wait, and the end of Infer.                                              *)

Capture(c) ==
    /\ pc[c] = "capture"
    /\ myrun' = [myrun EXCEPT ![c] = last]
    /\ pc' = [pc EXCEPT ![c] = IF last = NoRun THEN "restore" ELSE "wait"]
    /\ UNCHANGED <<members, fut, pipelines, sync, saved, object, history>>

WaitReturns(c) ==
    /\ pc[c] = "wait"
    /\ fut[myrun[c]] \in Settled
    /\ Leave(c)
    /\ UNCHANGED <<members, fut, pipelines, object, history>>

\* STATUS_ONLY, or a timeout in milliseconds: RESULT_NOT_READY.
WaitTimesOut(c) ==
    /\ pc[c] = "wait"
    /\ ~sync[c]
    /\ fut[myrun[c]] = "pending"
    /\ Leave(c)
    /\ UNCHANGED <<members, fut, pipelines, object, history>>

\* Mutant: the destructor of DisableCallbackGuard forgets to give the callback back.
RestoreNothing(c) ==
    /\ pc[c] = "restore"
    /\ Return(c)
    /\ UNCHANGED <<members, fut, pipelines, object, history>>

\* The destructor of DisableCallbackGuard.
RestoreSaved(c) ==
    /\ pc[c] = "restore"
    /\ callback' = saved[c]
    /\ Return(c)
    /\ UNCHANGED <<state, promise, futures, last, fut, pipelines, object, history>>
-----------------------------------------------------------------------------
(* MakeNextStageTask: the tasks the executors run.                          *)

\* Mutant: the end of the pipeline is noticed one stage late.
IsLastStageLate(r) == stg[r] > NumStages

\* itEndStage == itNextStage
IsLastStage(r) == stg[r] = NumStages

StageReturns(r) ==
    /\ pos[r] = "stage"
    /\ IF IsLastStage(r)
       THEN pos' = [pos EXCEPT ![r] = "last"] /\ UNCHANGED stg
       ELSE stg' = [stg EXCEPT ![r] = @ + 1] /\ UNCHANGED pos
    /\ UNCHANGED <<members, fut, exc, taken, callers, object, history>>

\* The stage's task threw, or the executor of the next stage did.
StageThrows(r) ==
    /\ pos[r] = "stage"
    /\ exc' = [exc EXCEPT ![r] = "failed"]
    /\ pos' = [pos EXCEPT ![r] = "last"]
    /\ UNCHANGED <<members, fut, stg, taken, callers, object, history>>

\* Mutant: ThrowIfCanceled throws in every state but Busy.
StageCanceledWhenStopped(r) ==
    /\ pos[r] = "stage"
    /\ state # "Busy"
    /\ exc' = [exc EXCEPT ![r] = "canceled"]
    /\ pos' = [pos EXCEPT ![r] = "last"]
    /\ UNCHANGED <<members, fut, stg, taken, callers, object, history>>

\* The stage's task called ThrowIfCanceled.
StageCanceled(r) ==
    /\ pos[r] = "stage"
    /\ state = "Canceled"
    /\ exc' = [exc EXCEPT ![r] = "canceled"]
    /\ pos' = [pos EXCEPT ![r] = "last"]
    /\ UNCHANGED <<members, fut, stg, taken, callers, object, history>>

\* Mutant: a run that failed leaves its promise alone.
OutcomeOfSuccess(r) == IF exc[r] = "none" THEN "value" ELSE "pending"

\* set_value or set_exception
Outcome(r) == IF exc[r] = "none" THEN "value" ELSE "error"

\* Mutant: the outcome is handed over while the request is still Busy.
TakePromiseSettles(r) ==
    /\ pos[r] = "last"
    /\ taken' = [taken EXCEPT ![r] = promise]
    /\ fut' = [fut EXCEPT ![promise] = Outcome(r)]
    /\ promise' = NoRun
    /\ pos' = [pos EXCEPT ![r] = "reset"]
    /\ UNCHANGED <<state, callback, futures, last, stg, exc, callers, object, history>>

\* The run's promise leaves the shared member before _mutex is taken.
TakePromise(r) ==
    /\ pos[r] = "last"
    /\ taken' = [taken EXCEPT ![r] = promise]
    /\ promise' = NoRun
    /\ pos' = [pos EXCEPT ![r] = "reset"]
    /\ UNCHANGED <<state, callback, futures, last, fut, stg, exc, callers, object, history>>

GoIdle(r) ==
    /\ pos[r] = "reset"
    /\ state' = "Idle"
    /\ callback' = FALSE
    /\ pos' = [pos EXCEPT ![r] = IF callback THEN "callback" ELSE "settle"]
    /\ cb' = [cb EXCEPT ![r] = IF ~callback THEN @ ELSE IF @ = "due" THEN "called" ELSE "stray"]
    /\ UNCHANGED <<promise, futures, last, fut, stg, exc, taken, callers, object,
                   registered, hit>>

CallbackReturns(r) ==
    /\ pos[r] = "callback"
    /\ pc[r] \in {"idle", "over"}
    /\ exc' \in {exc, [exc EXCEPT ![r] = "failed"]}     \* it may throw
    /\ pos' = [pos EXCEPT ![r] = "returned"]
    /\ UNCHANGED <<members, fut, stg, taken, callers, object, history>>

\* Mutant: the callback is not put back.
RestoreNoCallback(r) ==
    /\ pos[r] = "returned"
    /\ pos' = [pos EXCEPT ![r] = "settle"]
    /\ UNCHANGED <<members, fut, stg, exc, taken, callers, object, history>>

\* if (!_callback) std::swap(callback, _callback)
RestoreCallback(r) ==
    /\ pos[r] = "returned"
    /\ callback' = TRUE
    /\ pos' = [pos EXCEPT ![r] = "settle"]
    /\ UNCHANGED <<state, promise, futures, last, fut, stg, exc, taken, callers, object,
                   history>>

Taken(r) == taken[r]

Settle(r) ==
    /\ pos[r] = "settle"
    /\ fut' = [fut EXCEPT ![Taken(r)] = Outcome(r)]
    /\ pos' = [pos EXCEPT ![r] = "done"]
    /\ stg' = [stg EXCEPT ![r] = 0]
    /\ UNCHANGED <<members, exc, taken, callers, object, history>>
-----------------------------------------------------------------------------
(* The destructors; the application has left every other method.            *)

\* Mutant: only the last future is waited for.
LastFuture == {last} \cap Runs

\* futures = std::move(_futures)
AllFutures == futures

\* The derived class's destructor calls StopAndWait, then the base class's does.
StopAndWait ==
    /\ life \in {"alive", "released"}
    /\ \A c \in Clients : pc[c] = "idle"
    /\ life' = IF life = "alive" THEN "stopping" ELSE "rejoining"
    /\ \/ /\ state # "Stop"
          /\ callback' = FALSE
          /\ state' = "Stop"
          /\ waited' = waited \cup AllFutures
          /\ futures' = {}
          /\ last' = NoRun
       \/ /\ state = "Stop"
          /\ UNCHANGED <<callback, state, waited, futures, last>>
    /\ UNCHANGED <<promise, fut, pipelines, callers, history>>

StopReturns ==
    /\ life \in {"stopping", "rejoining"}
    /\ \A r \in waited : fut[r] \in Settled
    /\ life' = IF life = "stopping" THEN "released" ELSE "destroyed"
    /\ UNCHANGED <<members, fut, pipelines, callers, waited, history>>
-----------------------------------------------------------------------------
RunStep(r) ==
    \/ StageReturns(r) \/ StageThrows(r) \/ StageCanceled(r)
    \/ TakePromise(r) \/ GoIdle(r)
    \/ CallbackReturns(r) \/ RestoreCallback(r) \/ Settle(r)

Call(c) ==
    \/ StartAsync(c) \/ Infer(c) \/ Wait(c) \/ Cancel(c)
    \/ \E op \in Ops : CheckState(c, op)

CallerStep(c) ==
    \/ CheckBlobsThrows(c) \/ Refused(c) \/ Claim(c) \/ ClaimStopped(c)
    \/ Launch(c) \/ LaunchThrows(c) \/ Unwind(c)
    \/ Capture(c) \/ WaitReturns(c) \/ WaitTimesOut(c) \/ RestoreSaved(c)
    \/ SetCallback(c) \/ Access(c)

Next ==
    /\ \/ \E r \in Runs : RunStep(r)
       \/ \E c \in Callers : Call(c) \/ CallerStep(c)
       \/ StopAndWait
       \/ StopReturns
    /\ UNCHANGED disciplined

Spec == Init /\ [][Next]_vars

\* Executors run the tasks they accept, threads inside a method go on, a
\* callback returns.  Nobody has to call a method.
FairSpec ==
    /\ Spec
    /\ \A r \in Runs : WF_vars(RunStep(r) /\ UNCHANGED disciplined)
    /\ \A c \in Callers : WF_vars(CallerStep(c) /\ UNCHANGED disciplined)
    /\ WF_vars(StopReturns /\ UNCHANGED disciplined)
-----------------------------------------------------------------------------
TypeOK ==
    /\ disciplined \in BOOLEAN
    /\ state \in InferState
    /\ callback \in BOOLEAN
    /\ promise \in MaybeRun
    /\ futures \subseteq Runs
    /\ last \in MaybeRun
    /\ fut \in [Runs -> {"none", "pending"} \cup Settled]
    /\ pos \in [Runs -> Positions]
    /\ stg \in [Runs -> 0 .. NumStages]
    /\ exc \in [Runs -> {"none", "failed", "canceled"}]
    /\ taken \in [Runs -> MaybeRun]
    /\ pc \in [Callers -> Places]
    /\ myrun \in [Callers -> MaybeRun]
    /\ sync \in [Callers -> BOOLEAN]
    /\ saved \in [Callers -> BOOLEAN]
    /\ life \in {"alive", "stopping", "released", "rejoining", "destroyed"}
    /\ waited \subseteq Runs
    /\ registered \in BOOLEAN
    /\ cb \in [Runs -> {"off", "due", "called", "stray"}]
    /\ hit \subseteq Runs

\* Two runs of one request are never in the pipeline together, whatever mix of
\* StartAsync, Infer, Cancel, failing executors and callbacks that restart.
PipelineExclusive == \A r, s \in Runs : Owner(r) /\ Owner(s) => r = s

\* The promise a last stage task moved out of the shared member _promise is the
\* one made for its own run, and it has not been settled yet.
PromiseIsOwn ==
    \A r \in Runs : pos[r] \in {"reset", "callback", "returned", "settle"} =>
        taken[r] = r /\ fut[r] = "pending"

\* A future that is not ready is still held where Wait or StopAndWait finds it:
\* InferImpl's pruning of _futures never drops a run in flight.
PendingIsTracked == \A r \in Runs : fut[r] = "pending" => r \in futures \cup waited

\* InferCancelled reaches only a run that was in flight when Cancel was called;
\* it never leaks into a later run of the same request.
CancelHitsItsRun == \A r \in Runs : exc[r] = "canceled" => r \in hit

\* A settled promise is never settled again (std::future_error otherwise).
SettlesOnce ==
    [][\A r \in Runs : fut[r] \in Settled => fut'[r] = fut[r]]_fut

\* The run that holds the request.
Active == IF \E r \in Runs : Owner(r) THEN CHOOSE r \in Runs : Owner(r) ELSE NoRun

\* The request implements its contract: it is held by the run that owns _state,
\* and the outcome of a run is that of its future.
Contract == INSTANCE RequestContract WITH active <- Active, outcome <- fut
ImplementsContract == Contract!Spec

\* When StopAndWait returned, no task and no callback of a run that was started
\* before it is left that could use what the tasks captured.  The runs a callback
\* started since are in _futures.
QuietAfterStop ==
    life \in {"released", "destroyed"} =>
        \A r \in Runs \ futures : pos[r] \in {"none", "done"}

\* StopAndWait "Forbids pipeline start and wait for all started pipelines".
StopAndWaitStopsAll ==
    life \in {"released", "destroyed"} => \A r \in Runs : pos[r] \in {"none", "done"}

\* In a disciplined application an asynchronous run that was started with a callback
\* registered ends with that callback called, on success and on failure; no run of
\* Infer calls it, and none that was started while no callback was registered.
CallbackExactlyWhenDue ==
    disciplined =>
        /\ \A r \in Runs : cb[r] # "stray"
        /\ life = "alive" => \A r \in Runs : pos[r] \in {"settle", "done"} => cb[r] # "due"

\* When the request of a disciplined application is at rest its callback is the one the
\* application set: the swaps of Infer and of the last stage tasks cancel out.
CallbackKept ==
    /\ disciplined
    /\ life = "alive"
    /\ \A c \in Callers : pc[c] \in {"idle", "over"}
    /\ \A r \in Runs : pos[r] \in {"none", "done"}
    => callback = registered

\* In a disciplined application Infer waits for, and reports the status of, the run it started itself.
InferReportsOwnRun ==
    [][\A c \in Callers :
        disciplined /\ pc[c] = "capture" /\ pc'[c] = "wait" => myrun'[c] = myrun[c]]_callers

\* Whatever fails, is canceled or restarts, a promise that was made is settled; Infer
\* and the other methods return, and StopAndWait returns to the destructor.
MethodsReturn ==
    /\ \A r \in Runs : fut[r] = "pending" ~> fut[r] \in Settled
    /\ \A c \in Clients : pc[c] # "idle" ~> pc[c] = "idle"
    /\ life = "stopping" ~> life = "released"
-----------------------------------------------------------------------------
(* The inductive invariant behind the safety properties.                    *)

\* A caller that launches a run is the only one, and the shared promise is its.
OneLauncher == \A c, d \in Callers : Launching(c) /\ Launching(d) => c = d

LauncherHoldsPromise ==
    \A c \in Callers : Launching(c) =>
        /\ myrun[c] \in Runs
        /\ pos[myrun[c]] = "none"
        /\ promise = myrun[c]
        /\ fut[myrun[c]] = IF pc[c] = "launch" THEN "pending" ELSE "error"

\* So is a run in the pipeline.
OneInPipeline == \A r, s \in Runs : InPipeline(r) /\ InPipeline(s) => r = s

PipelineHoldsPromise ==
    \A r \in Runs : pos[r] \in {"stage", "last"} => promise = r /\ fut[r] = "pending"

LaunchOrPipeline == \A c \in Callers, r \in Runs : ~(Launching(c) /\ InPipeline(r))

\* Whatever StopAndWait, Cancel and the callbacks do to _state, it is not Idle
\* while a run owns it.
OwnerNotIdle == \A r \in Runs : Owner(r) => state # "Idle"

FreshIsUnused == \A r \in Runs : fut[r] = "none" => pos[r] = "none"

CanceledWasHit == state = "Canceled" => \A r \in Runs : Owner(r) => r \in hit

IndInv ==
    /\ TypeOK
    /\ OneLauncher
    /\ LauncherHoldsPromise
    /\ OneInPipeline
    /\ PipelineHoldsPromise
    /\ LaunchOrPipeline
    /\ OwnerNotIdle
    /\ PromiseIsOwn
    /\ FreshIsUnused
    /\ PendingIsTracked
    /\ CanceledWasHit
    /\ CancelHitsItsRun

=============================================================================
