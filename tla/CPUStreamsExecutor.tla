------------------------- MODULE CPUStreamsExecutor -------------------------
(***************************************************************************)
(* CPUStreamsExecutor: worker threads that take tasks from one queue       *)
(* (inference_engine/src/threading/ie_cpu_streams_executor.cpp), and       *)
(* ITaskExecutor::runAndWait.                                              *)
(*                                                                         *)
(* run appends a task to the queue of the workers; without workers, and in *)
(* Execute, the task is deferred: it is appended to the queue of the       *)
(* calling thread's stream and executed there, unless that thread is       *)
(* executing its queue already.  A task may itself submit tasks.           *)
(***************************************************************************)
EXTENDS Naturals, Sequences, FiniteSets

CONSTANTS
    Workers,        \* _threads; none when the number of streams is 0
    Clients,        \* the threads that use the executor
    Tasks,          \* identities of tasks; bounds how many are submitted
    NoTask,         \* an empty std::function
    Throwing        \* the tasks that throw when they are executed by Defer

ASSUME ExecutorAssumption ==
    /\ Workers \cap Clients = {}
    /\ IsFiniteSet(Workers)
    /\ IsFiniteSet(Clients)
    /\ NoTask \notin Tasks
    /\ Throwing \subseteq Tasks

VARIABLES
    taskQueue,  \* _taskQueue
    isStopped,  \* _isStopped
    waiting,    \* the workers blocked in _queueCondVar
    wpc,        \* where a worker is
    task,       \* the worker's local variable of that name
    streamQueue,\* Stream::_taskQueue of each thread
    execute,    \* Stream::_execute
    current,    \* the task Defer is executing in a thread
    notifying,  \* the thread is between unlock and notify_one in Enqueue
    todo,       \* the tasks runAndWait has yet to run
    futures,    \* the tasks runAndWait waits for
    life,       \* of the executor
    submitted,  \* history: the tasks given to the executor
    starts,     \* history: how often each was started
    ended       \* history: the tasks that returned

shared == <<taskQueue, isStopped, waiting>>
worker == <<wpc, task>>
stream == <<streamQueue, execute, current>>
client == <<notifying, todo, futures>>
history == <<submitted, starts, ended>>
vars == <<shared, worker, stream, client, life, history>>

Threads == Workers \cup Clients
MaybeTask == Tasks \cup {NoTask}

Init ==
    /\ taskQueue = <<>>
    /\ isStopped = FALSE
    /\ waiting = {}
    /\ wpc = [w \in Workers |-> "check"]
    /\ task = [w \in Workers |-> NoTask]
    /\ streamQueue = [h \in Threads |-> <<>>]
    /\ execute = [h \in Threads |-> FALSE]
    /\ current = [h \in Threads |-> NoTask]
    /\ notifying = [h \in Threads |-> FALSE]
    /\ todo = [c \in Clients |-> {}]
    /\ futures = [c \in Clients |-> {}]
    /\ life = "alive"
    /\ submitted = {}
    /\ starts = [t \in Tasks |-> 0]
    /\ ended = {}

-----------------------------------------------------------------------------
(* Submitting tasks.                                                        *)

\* The thread is in the body of a task, or is a client outside the executor.
InTask(h) ==
    \/ current[h] # NoTask
    \/ h \in Workers /\ wpc[h] = "run" /\ ~execute[h]
Outside(c) ==
    c \in Clients /\ life = "alive" /\ ~execute[c] /\ futures[c] = {}
MayCall(h) == ~notifying[h] /\ (InTask(h) \/ Outside(h))

\* Mutant: a notification is sent only when the queue was empty.
EnqueueNotifiesFirst(h, t) ==
    /\ Workers # {}
    /\ taskQueue' = Append(taskQueue, t)
    /\ notifying' = [notifying EXCEPT ![h] = taskQueue = <<>>]
    /\ submitted' = submitted \cup {t}
    /\ UNCHANGED <<isStopped, waiting, stream>>

\* Mutant: no notification is sent.
EnqueueSilent(h, t) ==
    /\ Workers # {}
    /\ taskQueue' = Append(taskQueue, t)
    /\ submitted' = submitted \cup {t}
    /\ UNCHANGED <<isStopped, waiting, stream, notifying>>

Enqueue(h, t) ==
    /\ Workers # {}
    /\ taskQueue' = Append(taskQueue, t)
    /\ notifying' = [notifying EXCEPT ![h] = TRUE]
    /\ submitted' = submitted \cup {t}
    /\ UNCHANGED <<isStopped, waiting, stream>>

\* Mutant: the task was moved from before it is pushed.
DeferMoved(h, t) ==
    /\ streamQueue' = [streamQueue EXCEPT ![h] = Append(@, NoTask)]
    /\ execute' = [execute EXCEPT ![h] = TRUE]
    /\ submitted' = submitted \cup {t}
    /\ UNCHANGED <<shared, current, notifying>>

Defer(h, t) ==
    /\ streamQueue' = [streamQueue EXCEPT ![h] = Append(@, t)]
    /\ execute' = [execute EXCEPT ![h] = TRUE]
    /\ submitted' = submitted \cup {t}
    /\ UNCHANGED <<shared, current, notifying>>

run(h, t) ==
    \/ Enqueue(h, t)
    \/ Workers = {} /\ Defer(h, t)

Run(h, t) ==
    /\ MayCall(h)
    /\ t \notin submitted
    /\ \A c \in Clients : t \notin futures[c]
    /\ run(h, t)
    /\ UNCHANGED <<worker, todo, futures, life, starts, ended>>

Execute(h, t) ==
    /\ MayCall(h)
    /\ t \notin submitted
    /\ \A c \in Clients : t \notin futures[c]
    /\ Defer(h, t)
    /\ UNCHANGED <<worker, todo, futures, life, starts, ended>>

\* The second half of Enqueue, without the lock.
NotifyOne(h) ==
    /\ notifying[h]
    /\ notifying' = [notifying EXCEPT ![h] = FALSE]
    /\ \/ waiting = {} /\ UNCHANGED <<waiting, wpc>>
       \/ \E w \in waiting :
            /\ waiting' = waiting \ {w}
            /\ wpc' = [wpc EXCEPT ![w] = "check"]
    /\ UNCHANGED <<taskQueue, isStopped, task, stream, todo, futures, life, history>>

\* runAndWait: all tasks are run, then all futures are waited for.
RunAndWait(c, ts) ==
    /\ MayCall(c) /\ Outside(c)
    /\ ts # {} /\ ts \cap submitted = {}
    /\ \A d \in Clients : ts \cap futures[d] = {}
    /\ todo' = [todo EXCEPT ![c] = ts]
    /\ futures' = [futures EXCEPT ![c] = ts]
    /\ UNCHANGED <<shared, worker, stream, notifying, life, history>>

RunNext(c) ==
    /\ ~notifying[c] /\ ~execute[c]
    /\ \E t \in todo[c] :
        /\ run(c, t)
        /\ todo' = [todo EXCEPT ![c] = @ \ {t}]
    /\ UNCHANGED <<worker, futures, life, starts, ended>>

WaitFutures(c) ==
    /\ ~notifying[c] /\ ~execute[c]
    /\ futures[c] # {} /\ todo[c] = {}
    /\ futures[c] \subseteq ended
    /\ futures' = [futures EXCEPT ![c] = {}]
    /\ UNCHANGED <<shared, worker, stream, notifying, todo, life, history>>
-----------------------------------------------------------------------------
(* The loop of a worker.                                                    *)

\* With the lock held: the predicate of the wait, and what follows it.
Take(w) ==
    /\ wpc[w] = "check"
    /\ taskQueue # <<>>
    /\ task' = [task EXCEPT ![w] = Head(taskQueue)]
    /\ taskQueue' = Tail(taskQueue)
    /\ wpc' = [wpc EXCEPT ![w] = "run"]
    /\ starts' = [starts EXCEPT ![Head(taskQueue)] = @ + 1]
    /\ UNCHANGED <<isStopped, waiting, stream, client, life, submitted, ended>>

Block(w) ==
    /\ wpc[w] = "check"
    /\ taskQueue = <<>>
    /\ ~isStopped
    /\ waiting' = waiting \cup {w}
    /\ wpc' = [wpc EXCEPT ![w] = "wait"]
    /\ UNCHANGED <<taskQueue, isStopped, task, stream, client, life, history>>

Exit(w) ==
    /\ wpc[w] = "check"
    /\ taskQueue = <<>>
    /\ isStopped
    /\ wpc' = [wpc EXCEPT ![w] = "exited"]
    /\ UNCHANGED <<shared, task, stream, client, life, history>>

\* A condition variable may wake its waiters for no reason.
WakeSpuriously(w) ==
    /\ w \in waiting
    /\ waiting' = waiting \ {w}
    /\ wpc' = [wpc EXCEPT ![w] = "check"]
    /\ UNCHANGED <<taskQueue, isStopped, task, stream, client, life, history>>

TaskReturns(w) ==
    /\ wpc[w] = "run"
    /\ ~execute[w] /\ ~notifying[w]
    /\ ended' = ended \cup {task[w]}
    /\ task' = [task EXCEPT ![w] = NoTask]
    /\ wpc' = [wpc EXCEPT ![w] = "check"]
    /\ UNCHANGED <<shared, stream, client, life, submitted, starts>>
-----------------------------------------------------------------------------
(* The loop of Defer.                                                       *)

StartFront(h) ==
    /\ execute[h] /\ current[h] = NoTask
    /\ streamQueue[h] # <<>>
    /\ current' = [current EXCEPT ![h] = Head(streamQueue[h])]
    /\ starts' = [starts EXCEPT ![Head(streamQueue[h])] = @ + 1]
    /\ UNCHANGED <<shared, worker, streamQueue, execute, client, life, submitted, ended>>

\* The exception leaves the task: runAndWait's tasks are packaged and let none out.
Escapes(t) == t \in Throwing /\ \A c \in Clients : t \notin futures[c]

\* Mutant: the front of the queue is not popped.
FrontStays(h) ==
    /\ current[h] # NoTask /\ ~notifying[h]
    /\ ~Escapes(current[h])
    /\ ended' = ended \cup {current[h]}
    /\ current' = [current EXCEPT ![h] = NoTask]
    /\ UNCHANGED <<shared, worker, streamQueue, execute, client, life, submitted, starts>>

FrontReturns(h) ==
    /\ current[h] # NoTask /\ ~notifying[h]
    /\ ~Escapes(current[h])
    /\ ended' = ended \cup {current[h]}
    /\ streamQueue' = [streamQueue EXCEPT ![h] = Tail(@)]
    /\ current' = [current EXCEPT ![h] = NoTask]
    /\ UNCHANGED <<shared, worker, execute, client, life, submitted, starts>>

\* catch (...): the queue stays as it is, the task that threw at its front.
FrontThrows(h) ==
    /\ current[h] # NoTask /\ ~notifying[h]
    /\ Escapes(current[h])
    /\ current' = [current EXCEPT ![h] = NoTask]
    /\ execute' = [execute EXCEPT ![h] = FALSE]
    /\ UNCHANGED <<shared, worker, streamQueue, client, life, history>>

\* Mutant: Defer executes one task only.
LoopEndsEarly(h) ==
    /\ execute[h] /\ current[h] = NoTask
    /\ execute' = [execute EXCEPT ![h] = FALSE]
    /\ UNCHANGED <<shared, worker, streamQueue, current, client, life, history>>

LoopEnds(h) ==
    /\ execute[h] /\ current[h] = NoTask
    /\ streamQueue[h] = <<>>
    /\ execute' = [execute EXCEPT ![h] = FALSE]
    /\ UNCHANGED <<shared, worker, streamQueue, current, client, life, history>>
-----------------------------------------------------------------------------
(* The destructor, called when no client uses the executor any more.        *)

Stop ==
    /\ life = "alive"
    /\ \A c \in Clients : ~notifying[c] /\ ~execute[c] /\ futures[c] = {}
    /\ life' = "stopping"
    /\ isStopped' = TRUE
    /\ UNCHANGED <<taskQueue, waiting, worker, stream, client, history>>

\* Mutant: one worker is told to stop.
NotifyAnyone ==
    /\ life = "stopping"
    /\ life' = "joining"
    /\ \/ waiting = {} /\ UNCHANGED <<waiting, wpc>>
       \/ \E w \in waiting :
            /\ waiting' = waiting \ {w}
            /\ wpc' = [wpc EXCEPT ![w] = "check"]
    /\ UNCHANGED <<taskQueue, isStopped, task, stream, client, history>>

NotifyAll ==
    /\ life = "stopping"
    /\ life' = "joining"
    /\ wpc' = [w \in Workers |-> IF w \in waiting THEN "check" ELSE wpc[w]]
    /\ waiting' = {}
    /\ UNCHANGED <<taskQueue, isStopped, task, stream, client, history>>

\* Mutant: the threads are detached.
JoinNobody ==
    /\ life = "joining"
    /\ life' = "released"
    /\ UNCHANGED <<shared, worker, stream, client, history>>

Join ==
    /\ life = "joining"
    /\ \A w \in Workers : wpc[w] = "exited"
    /\ life' = "released"
    /\ UNCHANGED <<shared, worker, stream, client, history>>
-----------------------------------------------------------------------------
Submission(h) ==
    \/ \E t \in Tasks : Run(h, t) \/ Execute(h, t)
    \/ h \in Clients /\ \E ts \in SUBSET Tasks : RunAndWait(h, ts)

ThreadStep(h) ==
    \/ NotifyOne(h)
    \/ StartFront(h) \/ FrontReturns(h) \/ FrontThrows(h) \/ LoopEnds(h)
    \/ h \in Clients /\ (RunNext(h) \/ WaitFutures(h))
    \/ h \in Workers /\ (Take(h) \/ Block(h) \/ Exit(h) \/ TaskReturns(h))

Next ==
    \/ \E h \in Threads : Submission(h) \/ ThreadStep(h)
    \/ \E w \in Workers : WakeSpuriously(w)
    \/ Stop \/ NotifyAll \/ Join

Spec == Init /\ [][Next]_vars

\* A thread that is not blocked goes on, and a task that runs returns.  Nobody
\* has to submit a task, and no wakeup is spurious for sure.
FairSpec ==
    /\ Spec
    /\ \A h \in Threads : WF_vars(ThreadStep(h))
    /\ WF_vars(NotifyAll)
    /\ WF_vars(Join)
-----------------------------------------------------------------------------
TypeOK ==
    /\ taskQueue \in Seq(Tasks)
    /\ isStopped \in BOOLEAN
    /\ waiting \subseteq Workers
    /\ wpc \in [Workers -> {"check", "wait", "run", "exited"}]
    /\ task \in [Workers -> MaybeTask]
    /\ streamQueue \in [Threads -> Seq(Tasks)]
    /\ execute \in [Threads -> BOOLEAN]
    /\ current \in [Threads -> MaybeTask]
    /\ notifying \in [Threads -> BOOLEAN]
    /\ todo \in [Clients -> SUBSET Tasks]
    /\ futures \in [Clients -> SUBSET Tasks]
    /\ life \in {"alive", "stopping", "joining", "released"}
    /\ submitted \subseteq Tasks
    /\ starts \in [Tasks -> Nat]
    /\ ended \subseteq Tasks

\* While a worker sleeps, there is for every queued task a notification still to
\* be sent or a worker about to look at the queue: notifying after the unlock
\* loses no wakeup, and a task never waits behind a busy worker only.  Nobody
\* falls asleep, or stays asleep, after the destructor's notify_all.
NoLostWakeup ==
    /\ waiting # {} =>
         Len(taskQueue) <= Cardinality({h \in Threads : notifying[h]})
                             + Cardinality({w \in Workers : wpc[w] = "check"})
    /\ life \in {"joining", "released"} => waiting = {}

\* When Execute returned, the thread's stream has nothing left to execute, unless a
\* task threw: then that task, and all behind it, are left.
StreamDrained ==
    \A h \in Threads : ~execute[h] =>
        streamQueue[h] = <<>> \/ Head(streamQueue[h]) \in Throwing

\* A task that does not throw is executed at most once, wherever it was submitted.
StartedOnce == \A t \in Tasks \ Throwing : starts[t] <= 1

\* The executor implements its contract: a task is started once and ends once, and
\* the destructor returns only when every task ever submitted was executed.
phase == [t \in Tasks |->
            IF t \in ended THEN "done"
            ELSE IF starts[t] > 0 THEN "running"
            ELSE IF t \in submitted THEN "queued" ELSE "new"]
Contract == INSTANCE TaskExecutor WITH phase <- phase, released <- (life = "released")
ImplementsContract == Contract!Spec

\* Every task that was submitted is executed, and runAndWait returns.
TasksEnd ==
    /\ \A t \in Tasks : t \in submitted ~> t \in ended
    /\ \A c \in Clients : futures[c] # {} ~> futures[c] = {}

\* The destructor returns.
DestructorReturns == life = "stopping" ~> life = "released"
=============================================================================
