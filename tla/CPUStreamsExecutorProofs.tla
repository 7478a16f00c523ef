---------------------- MODULE CPUStreamsExecutorProofs ----------------------
(***************************************************************************)
(* Theorems about CPUStreamsExecutor, for any number of workers, clients   *)
(* and tasks.                                                              *)
(***************************************************************************)
EXTENDS CPUStreamsExecutor, FiniteSetTheorems, TLAPS

USE DEF shared, worker, stream, client, history, Threads, MaybeTask

(***************************************************************************)
(* The inductive invariant.                                                *)
(***************************************************************************)

\* Where a thread is agrees with its local variables.
Control ==
    /\ \A w \in Workers : wpc[w] = "run" <=> task[w] # NoTask
    /\ \A w \in Workers : wpc[w] = "wait" <=> w \in waiting
    /\ \A w \in Workers : execute[w] \/ notifying[w] => wpc[w] = "run"
    /\ \A h \in Threads : current[h] # NoTask =>
            /\ execute[h]
            /\ Len(streamQueue[h]) > 0
            /\ current[h] = streamQueue[h][1]

\* Who may still do something when the executor is destroyed.
Ending ==
    /\ isStopped <=> life # "alive"
    /\ life # "alive" => \A c \in Clients : ~notifying[c] /\ ~execute[c] /\ futures[c] = {}
    /\ \A w \in Workers : wpc[w] = "exited" => isStopped
    /\ life \in {"joining", "released"} => waiting = {}
    /\ life = "released" => \A w \in Workers : wpc[w] = "exited"
    /\ (\A w \in Workers : wpc[w] = "exited") => taskQueue = <<>>

\* The tasks of runAndWait that were not submitted yet are nobody else's.
Batches ==
    /\ \A c \in Clients : todo[c] \subseteq futures[c] /\ todo[c] \cap submitted = {}
    /\ \A c, d \in Clients : c # d => futures[c] \cap futures[d] = {}

\* A task in the queue of the workers was not started.
Queued ==
    /\ \A i, j \in 1..Len(taskQueue) : taskQueue[i] = taskQueue[j] => i = j
    /\ \A i \in 1..Len(taskQueue) : taskQueue[i] \in submitted /\ starts[taskQueue[i]] = 0

\* A task in a stream was started only if it is being executed there, or threw.
Streamed ==
    /\ \A h, k \in Threads : \A i \in 1..Len(streamQueue[h]), j \in 1..Len(streamQueue[k]) :
            streamQueue[h][i] = streamQueue[k][j] => h = k /\ i = j
    /\ \A h \in Threads : \A i \in 1..Len(streamQueue[h]) :
            /\ streamQueue[h][i] \in submitted \ ended
            /\ \/ starts[streamQueue[h][i]] = 0
               \/ streamQueue[h][i] \in Throwing
               \/ i = 1 /\ current[h] # NoTask
    /\ \A h \in Threads : \A i \in 1..Len(streamQueue[h]), j \in 1..Len(taskQueue) :
            streamQueue[h][i] # taskQueue[j]
    /\ \A h \in Threads : current[h] # NoTask => starts[current[h]] > 0

\* A worker's task is its own.
Held ==
    /\ \A w \in Workers : task[w] # NoTask =>
            task[w] \in submitted \ ended /\ starts[task[w]] > 0
    /\ \A v, w \in Workers : task[v] # NoTask /\ task[v] = task[w] => v = w
    /\ \A w \in Workers, h \in Threads : \A i \in 1..Len(streamQueue[h]) :
            streamQueue[h][i] # task[w]

\* What was started was submitted, what ended was started, and no task is started
\* twice unless it threw.
Counted ==
    /\ \A t \in Tasks : t \notin submitted => starts[t] = 0
    /\ \A t \in ended : t \in submitted /\ starts[t] > 0
    /\ StartedOnce

\* No task is lost on its way.
Somewhere(t) ==
    \/ \E i \in 1..Len(taskQueue) : taskQueue[i] = t
    \/ \E w \in Workers : task[w] = t
    \/ \E h \in Threads : \E i \in 1..Len(streamQueue[h]) : streamQueue[h][i] = t
Located == \A t \in submitted \ ended : Somewhere(t)

IndInv ==
    /\ TypeOK /\ Control /\ Ending /\ Batches
    /\ Queued /\ Streamed /\ Held /\ Counted /\ Located /\ StreamDrained

(***************************************************************************)
(* The type invariant.                                                     *)
(***************************************************************************)

\* A new executor satisfies the invariant.
LEMMA InitInv == ASSUME Init PROVE IndInv
<1> USE ExecutorAssumption DEF Init
<1>1. TypeOK
  <2>1. taskQueue \in Seq(Tasks) /\ streamQueue \in [Threads -> Seq(Tasks)] OBVIOUS
  <2>2. starts \in [Tasks -> Nat] OBVIOUS
  <2> QED BY <2>1, <2>2 DEF TypeOK
<1>2. Control /\ Ending /\ Batches BY DEF Control, Ending, Batches
<1>3. Queued /\ Streamed /\ Held BY DEF Queued, Streamed, Held
<1>4. Counted /\ Located /\ StreamDrained BY DEF Counted, StartedOnce, Located, StreamDrained
<1> QED BY <1>1, <1>2, <1>3, <1>4 DEF IndInv

\* A thread h submits t, which nobody has submitted: run, Execute or a step of
\* runAndWait.
Submits(h, t) ==
    /\ Enqueue(h, t) \/ Defer(h, t)
    /\ t \in Tasks \ submitted
    /\ ~notifying[h]
    /\ h \in Workers => wpc[h] = "run"
    /\ h \in Clients => life = "alive"
    /\ \A c \in Clients : todo'[c] \subseteq todo[c] \ {t}
    /\ todo' \in [Clients -> SUBSET Tasks]
    /\ UNCHANGED <<worker, futures, life, starts, ended>>

\* A call of run or Execute submits one task that nobody has submitted.
LEMMA RunSubmits ==
    ASSUME IndInv, NEW h \in Threads, NEW t \in Tasks, Run(h, t) \/ Execute(h, t)
    PROVE  Submits(h, t)
<1> USE DEF IndInv, TypeOK, Control, Ending, Batches, Run, Execute, run, MayCall, InTask, Outside
<1>1. Enqueue(h, t) \/ Defer(h, t) OBVIOUS
<1>2. h \in Workers => wpc[h] = "run" BY ExecutorAssumption
<1>3. h \in Clients => life = "alive" BY ExecutorAssumption
<1>4. \A c \in Clients : t \notin todo[c] OBVIOUS
<1> QED BY <1>1, <1>2, <1>3, <1>4 DEF Submits

\* runAndWait submits one of the tasks it was given, which nobody else submits.
LEMMA RunNextSubmits ==
    ASSUME IndInv, NEW c \in Clients, RunNext(c)
    PROVE  \E t \in Tasks : Submits(c, t)
<1> USE DEF IndInv, TypeOK, Control, Ending, Batches
<1>1. PICK t \in todo[c] : run(c, t) /\ todo' = [todo EXCEPT ![c] = @ \ {t}]
  BY DEF RunNext
<1>2. t \in Tasks \ submitted OBVIOUS
<1>3. Enqueue(c, t) \/ Defer(c, t) BY <1>1 DEF run
<1>4. c \notin Workers BY ExecutorAssumption
<1>5. life = "alive" OBVIOUS
<1>6. \A d \in Clients : todo'[d] \subseteq todo[d] \ {t} BY <1>1
<1>7. todo' \in [Clients -> SUBSET Tasks] BY <1>1
<1> QED BY <1>2, <1>3, <1>4, <1>5, <1>6, <1>7 DEF Submits, RunNext

\* Tasks keep their types in a submission.
LEMMA SubmitsTypes ==
    ASSUME IndInv, NEW h \in Threads, NEW t \in Tasks, Submits(h, t)
    PROVE  TypeOK'
<1> USE DEF IndInv, TypeOK, Submits
<1>1. CASE Enqueue(h, t) BY <1>1 DEF Enqueue
<1>2. CASE Defer(h, t) BY <1>2 DEF Defer
<1> QED BY <1>1, <1>2

\* A submission leaves the threads where they may be.
LEMMA SubmitsControl ==
    ASSUME IndInv, NEW h \in Threads, NEW t \in Tasks, Submits(h, t)
    PROVE  Control' /\ Ending' /\ Batches'
<1> USE ExecutorAssumption DEF IndInv, TypeOK, Submits, Control, Ending, Batches
<1>1. CASE Enqueue(h, t)
  <2>1. Control' BY <1>1 DEF Enqueue
  <2>2. Ending' BY <1>1 DEF Enqueue
  <2>3. Batches' BY <1>1 DEF Enqueue
  <2> QED BY <2>1, <2>2, <2>3
<1>2. CASE Defer(h, t)
  <2>1. Control' BY <1>2 DEF Defer
  <2>2. Ending' BY <1>2 DEF Defer
  <2>3. Batches' BY <1>2 DEF Defer
  <2> QED BY <2>1, <2>2, <2>3
<1> QED BY <1>1, <1>2

\* A submitted task gets its one place: the queue, or the stream of its thread.
LEMMA SubmitsPlaces ==
    ASSUME IndInv, NEW h \in Threads, NEW t \in Tasks, Submits(h, t)
    PROVE  Queued' /\ Streamed' /\ Held' /\ Counted' /\ Located' /\ StreamDrained'
<1> USE ExecutorAssumption DEF IndInv, TypeOK, Submits, Control
<1>1. CASE Enqueue(h, t)
  <2> USE <1>1 DEF Enqueue
  <2>1. Queued' BY DEF Queued, Counted
  <2>2. Streamed' BY DEF Streamed
  <2>3. Held' BY DEF Held
  <2>4. Counted' BY DEF Counted, StartedOnce
  <2>5. Located'
    <3>1. taskQueue'[Len(taskQueue')] = t /\ Len(taskQueue') \in 1..Len(taskQueue') OBVIOUS
    <3>2. \A i \in 1..Len(taskQueue) : taskQueue'[i] = taskQueue[i] /\ i \in 1..Len(taskQueue')
      OBVIOUS
    <3>3. ASSUME NEW u \in submitted \ ended
          PROVE  Somewhere(u)'
      <4>1. CASE \E i \in 1..Len(taskQueue) : taskQueue[i] = u BY <4>1, <3>2 DEF Somewhere
      <4>2. CASE \E w \in Workers : task[w] = u BY <4>2 DEF Somewhere
      <4>3. CASE \E k \in Threads : \E i \in 1..Len(streamQueue[k]) : streamQueue[k][i] = u
        BY <4>3, <3>2 DEF Somewhere
      <4> QED BY <4>1, <4>2, <4>3 DEF Located, Somewhere
    <3>4. Somewhere(t)' BY <3>1 DEF Somewhere
    <3>5. (submitted \ ended)' \subseteq (submitted \ ended) \cup {t} OBVIOUS
    <3> QED BY <3>3, <3>4, <3>5 DEF Located
  <2>6. StreamDrained' BY DEF StreamDrained
  <2> QED BY <2>1, <2>2, <2>3, <2>4, <2>5, <2>6
<1>2. CASE Defer(h, t)
  <2> USE <1>2 DEF Defer
  <2>1. Queued' BY DEF Queued, Counted
  <2>2. Streamed' BY DEF Streamed, Queued, Counted
  <2>3. Held' BY DEF Held
  <2>4. Counted' BY DEF Counted, StartedOnce
  <2>5. Located'
    <3>1. streamQueue'[h][Len(streamQueue'[h])] = t
          /\ Len(streamQueue'[h]) \in 1..Len(streamQueue'[h]) OBVIOUS
    <3>2. \A k \in Threads : \A i \in 1..Len(streamQueue[k]) :
            streamQueue'[k][i] = streamQueue[k][i] /\ i \in 1..Len(streamQueue'[k])
      OBVIOUS
    <3>3. ASSUME NEW u \in submitted \ ended
          PROVE  Somewhere(u)'
      <4>1. CASE \E i \in 1..Len(taskQueue) : taskQueue[i] = u BY <4>1, <3>2 DEF Somewhere
      <4>2. CASE \E w \in Workers : task[w] = u BY <4>2 DEF Somewhere
      <4>3. CASE \E k \in Threads : \E i \in 1..Len(streamQueue[k]) : streamQueue[k][i] = u
        BY <4>3, <3>2 DEF Somewhere
      <4> QED BY <4>1, <4>2, <4>3 DEF Located, Somewhere
    <3>4. \E i \in 1..Len(streamQueue'[h]) : streamQueue'[h][i] = t BY <3>1
    <3>5. (submitted \ ended)' \subseteq (submitted \ ended) \cup {t} OBVIOUS
    <3>6. ASSUME NEW u \in (submitted \ ended)'
          PROVE  Somewhere(u)'
      <4>1. CASE u = t BY <4>1, <3>4 DEF Somewhere
      <4>2. CASE u # t BY <4>2, <3>3, <3>5
      <4> QED BY <4>1, <4>2
    <3> QED BY <3>6 DEF Located
  <2>6. StreamDrained' BY DEF StreamDrained
  <2> QED BY <2>1, <2>2, <2>3, <2>4, <2>5, <2>6
<1> QED BY <1>1, <1>2

\* A submission keeps the invariant.
LEMMA SubmitsInv ==
    ASSUME IndInv, NEW h \in Threads, NEW t \in Tasks, Submits(h, t)
    PROVE  IndInv'
BY SubmitsTypes, SubmitsControl, SubmitsPlaces DEF IndInv

\* A step that moves no task leaves each where it is.
LEMMA LocatedStays ==
    ASSUME Located, UNCHANGED <<taskQueue, task, streamQueue, submitted, ended>>
    PROVE  Located'
<1>1. ASSUME NEW t, Somewhere(t) PROVE Somewhere(t)' BY <1>1 DEF Somewhere
<1> QED BY <1>1 DEF Located

(* The steps that move no task.                                             *)
LEMMA QuietPlaces ==
    ASSUME IndInv,
           UNCHANGED <<taskQueue, task, streamQueue, current, submitted, starts, ended>>
    PROVE  Queued' /\ Streamed' /\ Held' /\ Counted' /\ Located'
<1>1. Queued' BY DEF IndInv, Queued
<1>2. Streamed' BY DEF IndInv, Streamed
<1>3. Held' BY DEF IndInv, Held
<1>4. Counted' BY DEF IndInv, Counted, StartedOnce
<1>5. Located' BY LocatedStays DEF IndInv
<1> QED BY <1>1, <1>2, <1>3, <1>4, <1>5

\* The steps that only notify, wait, wake up or stop keep the invariant.
LEMMA QuietInv ==
    ASSUME IndInv,
           \/ \E h \in Threads : NotifyOne(h) \/ LoopEnds(h)
           \/ \E c \in Clients : WaitFutures(c) \/ \E ts \in SUBSET Tasks : RunAndWait(c, ts)
           \/ \E w \in Workers : Block(w) \/ Exit(w) \/ WakeSpuriously(w)
           \/ Stop \/ NotifyAll \/ Join
    PROVE  IndInv'
<1> USE ExecutorAssumption DEF TypeOK, Control, Ending, Batches
<1>0. /\ UNCHANGED <<taskQueue, task, streamQueue, current, submitted, starts, ended>>
  BY DEF NotifyOne, LoopEnds, WaitFutures, RunAndWait, Block, Exit, WakeSpuriously, Stop,
         NotifyAll, Join
<1>1. ASSUME NEW h \in Threads, NotifyOne(h)
      PROVE  TypeOK' /\ Control' /\ Ending' /\ Batches' /\ StreamDrained'
  <2> USE <1>1 DEF IndInv, NotifyOne, StreamDrained
  <2>0. /\ notifying' \in [Threads -> BOOLEAN] /\ waiting' \subseteq Workers
        /\ wpc' \in [Workers -> {"check", "wait", "run", "exited"}]
    <3>1. notifying' \in [Threads -> BOOLEAN] OBVIOUS
    <3>2. CASE waiting = {} /\ UNCHANGED <<waiting, wpc>> BY <3>1, <3>2
    <3>3. CASE \E w \in waiting : /\ waiting' = waiting \ {w}
                                  /\ wpc' = [wpc EXCEPT ![w] = "check"]
      BY <3>1, <3>3
    <3> QED BY <3>2, <3>3
  <2>1. TypeOK' BY <2>0
  <2>2. Control' OBVIOUS
  <2>3. Ending' OBVIOUS
  <2>4. Batches' /\ StreamDrained' OBVIOUS
  <2> QED BY <2>1, <2>2, <2>3, <2>4
<1>2. ASSUME NEW h \in Threads, LoopEnds(h)
      PROVE  TypeOK' /\ Control' /\ Ending' /\ Batches' /\ StreamDrained'
  <2> USE <1>2 DEF IndInv, LoopEnds, StreamDrained
  <2>0. execute' \in [Threads -> BOOLEAN] OBVIOUS
  <2>1. TypeOK' BY <2>0
  <2>2. Control' OBVIOUS
  <2>3. Ending' OBVIOUS
  <2>4. Batches' /\ StreamDrained' OBVIOUS
  <2> QED BY <2>1, <2>2, <2>3, <2>4
<1>3. ASSUME NEW c \in Clients, WaitFutures(c)
      PROVE  TypeOK' /\ Control' /\ Ending' /\ Batches' /\ StreamDrained'
  <2> USE <1>3 DEF IndInv, WaitFutures, StreamDrained
  <2>1. TypeOK' OBVIOUS
  <2>2. Control' OBVIOUS
  <2>3. Ending' OBVIOUS
  <2>4. Batches' /\ StreamDrained' OBVIOUS
  <2> QED BY <2>1, <2>2, <2>3, <2>4
<1>4. ASSUME NEW c \in Clients, NEW ts \in SUBSET Tasks, RunAndWait(c, ts)
      PROVE  TypeOK' /\ Control' /\ Ending' /\ Batches' /\ StreamDrained'
  <2> USE <1>4 DEF IndInv, RunAndWait, StreamDrained, Outside
  <2>1. TypeOK' OBVIOUS
  <2>2. Control' OBVIOUS
  <2>3. Ending' OBVIOUS
  <2>4. Batches' /\ StreamDrained' OBVIOUS
  <2> QED BY <2>1, <2>2, <2>3, <2>4
<1>5. ASSUME NEW w \in Workers, Block(w)
      PROVE  TypeOK' /\ Control' /\ Ending' /\ Batches' /\ StreamDrained'
  <2> USE <1>5 DEF IndInv, Block, StreamDrained
  <2>1. TypeOK' OBVIOUS
  <2>2. Control' OBVIOUS
  <2>3. Ending' OBVIOUS
  <2>4. Batches' /\ StreamDrained' OBVIOUS
  <2> QED BY <2>1, <2>2, <2>3, <2>4
<1>6. ASSUME NEW w \in Workers, Exit(w)
      PROVE  TypeOK' /\ Control' /\ Ending' /\ Batches' /\ StreamDrained'
  <2> USE <1>6 DEF IndInv, Exit, StreamDrained
  <2>1. TypeOK' OBVIOUS
  <2>2. Control' OBVIOUS
  <2>3. Ending' OBVIOUS
  <2>4. Batches' /\ StreamDrained' OBVIOUS
  <2> QED BY <2>1, <2>2, <2>3, <2>4
<1>7. ASSUME NEW w \in Workers, WakeSpuriously(w)
      PROVE  TypeOK' /\ Control' /\ Ending' /\ Batches' /\ StreamDrained'
  <2> USE <1>7 DEF IndInv, WakeSpuriously, StreamDrained
  <2>1. TypeOK' OBVIOUS
  <2>2. Control' OBVIOUS
  <2>3. Ending' OBVIOUS
  <2>4. Batches' /\ StreamDrained' OBVIOUS
  <2> QED BY <2>1, <2>2, <2>3, <2>4
<1>8. CASE Stop
  <2> USE <1>8 DEF IndInv, Stop, StreamDrained
  <2>1. TypeOK' OBVIOUS
  <2>2. Control' OBVIOUS
  <2>3. Ending' OBVIOUS
  <2>4. Batches' /\ StreamDrained' OBVIOUS
  <2> QED BY <2>1, <2>2, <2>3, <2>4, <1>0, QuietPlaces
<1>9. CASE NotifyAll
  <2> USE <1>9 DEF IndInv, NotifyAll, StreamDrained
  <2>1. TypeOK' OBVIOUS
  <2>2. Control' OBVIOUS
  <2>3. Ending' OBVIOUS
  <2>4. Batches' /\ StreamDrained' OBVIOUS
  <2> QED BY <2>1, <2>2, <2>3, <2>4, <1>0, QuietPlaces
<1>10. CASE Join
  <2> USE <1>10 DEF IndInv, Join, StreamDrained
  <2>1. TypeOK' OBVIOUS
  <2>2. Control' OBVIOUS
  <2>3. Ending' OBVIOUS
  <2>4. Batches' /\ StreamDrained' OBVIOUS
  <2> QED BY <2>1, <2>2, <2>3, <2>4, <1>0, QuietPlaces
<1> QED BY <1>0, <1>1, <1>2, <1>3, <1>4, <1>5, <1>6, <1>7, <1>8, <1>9, <1>10, QuietPlaces DEF IndInv

(* The steps that move a task.                                              *)
LEMMA TakeInv == ASSUME IndInv, NEW w \in Workers, Take(w) PROVE IndInv'
<1> USE ExecutorAssumption DEF IndInv, TypeOK, Control, Take
<1> PICK t : t = taskQueue[1] OBVIOUS
<1>0. /\ Len(taskQueue) > 0 /\ Head(taskQueue) = t /\ t \in Tasks
      /\ \A i \in 1..Len(taskQueue') : taskQueue'[i] = taskQueue[i + 1] /\ i + 1 \in 1..Len(taskQueue)
      /\ Len(taskQueue') = Len(taskQueue) - 1
      /\ taskQueue' \in Seq(Tasks)
  OBVIOUS
<1>1. TypeOK'
  <2>1. /\ task' \in [Workers -> MaybeTask] /\ starts' \in [Tasks -> Nat]
        /\ wpc' \in [Workers -> {"check", "wait", "run", "exited"}]
    BY <1>0
  <2> QED BY <1>0, <2>1
<1>2. Control' BY <1>0
<1>3. Ending'
  <2>1. wpc'[w] = "run" OBVIOUS
  <2>2. \A v \in Workers : wpc'[v] = "exited" => wpc[v] = "exited" OBVIOUS
  <2>3. life # "released" BY DEF Ending
  <2> QED BY <2>1, <2>2, <2>3 DEF Ending
<1>4. Batches' BY DEF Batches
<1>5. /\ t \in submitted /\ starts[t] = 0 /\ t \notin ended /\ task[w] = NoTask
      /\ \A i \in 1..Len(taskQueue') : taskQueue'[i] # t
      /\ \A h \in Threads : \A i \in 1..Len(streamQueue[h]) : streamQueue[h][i] # t
      /\ \A v \in Workers : task[v] # t
      /\ \A u \in Tasks : u # t => starts'[u] = starts[u]
      /\ starts'[t] = 1
      /\ \A v \in Workers : v # w => task'[v] = task[v]
      /\ task'[w] = t
  BY <1>0 DEF Queued, Streamed, Held, Counted
<1>6. Queued' BY <1>0, <1>5 DEF Queued
<1>7. Streamed' BY <1>0, <1>5 DEF Streamed
<1>8. Held' BY <1>0, <1>5 DEF Held
<1>9. Counted' BY <1>0, <1>5 DEF Counted, StartedOnce
<1>10. Located'
  <2>1. Somewhere(t)' BY <1>5 DEF Somewhere
  <2>2. ASSUME NEW u \in submitted \ ended, u # t PROVE Somewhere(u)'
    <3>1. ASSUME NEW i \in 1..Len(taskQueue), taskQueue[i] = u PROVE Somewhere(u)'
      <4>1. i # 1 BY <2>2, <3>1
      <4>2. i - 1 \in 1..Len(taskQueue') BY <1>0, <4>1
      <4>3. (i - 1) + 1 = i OBVIOUS
      <4>4. taskQueue'[i - 1] = u BY <1>0, <3>1, <4>2, <4>3
      <4> QED BY <4>2, <4>4 DEF Somewhere
    <3>2. ASSUME NEW v \in Workers, task[v] = u PROVE Somewhere(u)'
      <4>1. v # w BY <1>5, <2>2, <3>2, u # NoTask
      <4> QED BY <1>5, <3>2, <4>1 DEF Somewhere
    <3>3. ASSUME NEW h \in Threads, NEW i \in 1..Len(streamQueue[h]), streamQueue[h][i] = u
          PROVE  Somewhere(u)'
      BY <3>3 DEF Somewhere
    <3>4. Somewhere(u) BY DEF Located
    <3> QED BY <3>1, <3>2, <3>3, <3>4 DEF Somewhere
  <2> QED BY <2>1, <2>2 DEF Located
<1>11. StreamDrained' BY DEF StreamDrained
<1> QED BY <1>1, <1>2, <1>3, <1>4, <1>6, <1>7, <1>8, <1>9, <1>10, <1>11

\* A worker whose task returned keeps the invariant.
LEMMA TaskReturnsInv == ASSUME IndInv, NEW w \in Workers, TaskReturns(w) PROVE IndInv'
<1> USE ExecutorAssumption DEF IndInv, TypeOK, Control, TaskReturns
<1> PICK t : t = task[w] OBVIOUS
<1>0. /\ t \in Tasks /\ task'[w] = NoTask
      /\ \A v \in Workers : v # w => task'[v] = task[v] /\ wpc'[v] = wpc[v]
      /\ ended' = ended \cup {t} /\ wpc'[w] = "check"
  OBVIOUS
<1>1. TypeOK' BY <1>0
<1>2. Control' BY <1>0
<1>3. Ending'
  <2>1. wpc'[w] = "check" OBVIOUS
  <2>2. \A v \in Workers : wpc'[v] = "exited" => wpc[v] = "exited" OBVIOUS
  <2>3. life # "released" BY DEF Ending
  <2> QED BY <2>1, <2>2, <2>3 DEF Ending
<1>4. Batches' BY DEF Batches
<1>5. /\ t \in submitted /\ starts[t] > 0
      /\ \A h \in Threads : \A i \in 1..Len(streamQueue[h]) : streamQueue[h][i] # t
      /\ \A v \in Workers : v # w => task[v] # t
  BY <1>0 DEF Held
<1>6. Queued' BY DEF Queued
<1>7. Streamed' BY <1>0, <1>5 DEF Streamed
<1>8. Held' BY <1>0, <1>5 DEF Held
<1>9. Counted' BY <1>0, <1>5 DEF Counted, StartedOnce
<1>10. Located'
  <2> SUFFICES ASSUME NEW u \in submitted \ ended, u # t PROVE Somewhere(u)'
    BY <1>0 DEF Located
  <2>1. Somewhere(u) BY DEF Located
  <2>2. \A v \in Workers : task[v] = u => task'[v] = u BY <1>0
  <2> QED BY <2>1, <2>2 DEF Somewhere
<1>11. StreamDrained' BY DEF StreamDrained
<1> QED BY <1>1, <1>2, <1>3, <1>4, <1>6, <1>7, <1>8, <1>9, <1>10, <1>11

\* Defer starting the task at the front of its queue keeps the invariant.
LEMMA StartFrontInv == ASSUME IndInv, NEW h \in Threads, StartFront(h) PROVE IndInv'
<1> USE ExecutorAssumption DEF IndInv, TypeOK, Control, StartFront
<1> PICK t : t = streamQueue[h][1] OBVIOUS
<1>0. /\ Len(streamQueue[h]) > 0 /\ Head(streamQueue[h]) = t /\ t \in Tasks
      /\ current'[h] = t
      /\ \A k \in Threads : k # h => current'[k] = current[k]
      /\ \A u \in Tasks : u # t => starts'[u] = starts[u]
      /\ starts'[t] = starts[t] + 1
      /\ starts' \in [Tasks -> Nat] /\ current' \in [Threads -> MaybeTask]
  OBVIOUS
<1>1. TypeOK' BY <1>0
<1>2. Control' BY <1>0
<1>3. Ending' BY DEF Ending
<1>4. Batches' BY DEF Batches
<1>5. /\ t \in submitted \ ended
      /\ t \in Throwing \/ starts[t] = 0
      /\ \A i \in 1..Len(taskQueue) : taskQueue[i] # t
      /\ \A v \in Workers : task[v] # t
      /\ \A k \in Threads : \A i \in 1..Len(streamQueue[k]) :
            streamQueue[k][i] = t => k = h /\ i = 1
  BY <1>0 DEF Streamed, Held
<1>6. Queued' BY <1>0, <1>5 DEF Queued
<1>7. Streamed' BY <1>0, <1>5 DEF Streamed
<1>8. Held' BY <1>0, <1>5 DEF Held
<1>9. Counted' BY <1>0, <1>5 DEF Counted, StartedOnce
<1>10. Located' BY LocatedStays
<1>11. StreamDrained' BY DEF StreamDrained
<1> QED BY <1>1, <1>2, <1>3, <1>4, <1>6, <1>7, <1>8, <1>9, <1>10, <1>11

\* A task that throws in Defer keeps the invariant: it stays at the front of its queue.
LEMMA FrontThrowsInv == ASSUME IndInv, NEW h \in Threads, FrontThrows(h) PROVE IndInv'
<1> USE ExecutorAssumption DEF IndInv, TypeOK, Control, FrontThrows, Escapes
<1>0. /\ current'[h] = NoTask /\ streamQueue[h][1] \in Throwing /\ streamQueue[h] # <<>>
      /\ \A k \in Threads : k # h => current'[k] = current[k] /\ execute'[k] = execute[k]
  OBVIOUS
<1>1. TypeOK' OBVIOUS
<1>2. Control' OBVIOUS
<1>3. Ending' BY DEF Ending
<1>4. Batches' BY DEF Batches
<1>6. Queued' BY DEF Queued
<1>7. Streamed' BY <1>0 DEF Streamed
<1>8. Held' BY DEF Held
<1>9. Counted' BY DEF Counted, StartedOnce
<1>10. Located' BY LocatedStays
<1>11. StreamDrained' BY <1>0 DEF StreamDrained
<1> QED BY <1>1, <1>2, <1>3, <1>4, <1>6, <1>7, <1>8, <1>9, <1>10, <1>11

\* A task that returns in Defer, and is popped, keeps the invariant.
LEMMA FrontReturnsInv == ASSUME IndInv, NEW h \in Threads, FrontReturns(h) PROVE IndInv'
<1> USE ExecutorAssumption DEF IndInv, TypeOK, Control, FrontReturns
<1> PICK t : t = streamQueue[h][1] OBVIOUS
<1>0. /\ Len(streamQueue[h]) > 0 /\ current[h] = t /\ t \in Tasks /\ execute[h]
      /\ current'[h] = NoTask
      /\ \A k \in Threads : k # h => current'[k] = current[k] /\ streamQueue'[k] = streamQueue[k]
      /\ Len(streamQueue'[h]) = Len(streamQueue[h]) - 1
      /\ \A i \in 1..Len(streamQueue'[h]) :
            streamQueue'[h][i] = streamQueue[h][i + 1] /\ i + 1 \in 1..Len(streamQueue[h])
      /\ ended' = ended \cup {t}
      /\ streamQueue' \in [Threads -> Seq(Tasks)] /\ current' \in [Threads -> MaybeTask]
  OBVIOUS
<1>1. TypeOK' BY <1>0
<1>2. Control' BY <1>0
<1>3. Ending' BY DEF Ending
<1>4. Batches' BY DEF Batches
<1>5. /\ t \in submitted /\ starts[t] > 0
      /\ \A i \in 1..Len(taskQueue) : taskQueue[i] # t
      /\ \A v \in Workers : task[v] # t
      /\ \A k \in Threads : \A i \in 1..Len(streamQueue'[k]) : streamQueue'[k][i] # t
  BY <1>0 DEF Streamed, Held
<1>6. Queued' BY DEF Queued
<1>7. Streamed'
  <2> DEFINE old(g, i) == IF g = h THEN i + 1 ELSE i
  <2>0. \A g \in Threads : \A i \in 1..Len(streamQueue'[g]) :
            /\ old(g, i) \in 1..Len(streamQueue[g])
            /\ streamQueue'[g][i] = streamQueue[g][old(g, i)]
    BY <1>0
  <2>1. \A g, k \in Threads : \A i \in 1..Len(streamQueue'[g]), j \in 1..Len(streamQueue'[k]) :
            streamQueue'[g][i] = streamQueue'[k][j] => g = k /\ i = j
    <3> SUFFICES ASSUME NEW g \in Threads, NEW k \in Threads,
                        NEW i \in 1..Len(streamQueue'[g]), NEW j \in 1..Len(streamQueue'[k]),
                        streamQueue'[g][i] = streamQueue'[k][j]
                 PROVE  g = k /\ i = j
      OBVIOUS
    <3>1. g = k /\ old(g, i) = old(k, j)
      <4>1. streamQueue[g][old(g, i)] = streamQueue[k][old(k, j)] BY <2>0
      <4>2. old(g, i) \in 1..Len(streamQueue[g]) /\ old(k, j) \in 1..Len(streamQueue[k]) BY <2>0
      <4> HIDE DEF old, TypeOK, Control, FrontReturns
      <4> QED BY <4>1, <4>2 DEF Streamed
    <3> QED BY <3>1
  <2>2. \A k \in Threads : \A i \in 1..Len(streamQueue'[k]) :
            /\ streamQueue'[k][i] \in submitted \ ended'
            /\ \/ starts[streamQueue'[k][i]] = 0
               \/ streamQueue'[k][i] \in Throwing
               \/ i = 1 /\ current'[k] # NoTask
    <3> SUFFICES ASSUME NEW k \in Threads, NEW i \in 1..Len(streamQueue'[k])
                 PROVE  /\ streamQueue'[k][i] \in submitted \ ended
                        /\ \/ starts[streamQueue'[k][i]] = 0
                           \/ streamQueue'[k][i] \in Throwing
                           \/ i = 1 /\ current'[k] # NoTask
      <4>1. \A k \in Threads : \A i \in 1..Len(streamQueue'[k]) : streamQueue'[k][i] # t BY <1>5
      <4>2. ended' = ended \cup {t} BY <1>0
      <4> HIDE DEF IndInv, TypeOK, Control, FrontReturns
      <4> QED BY <4>1, <4>2
    <3>1. CASE k # h BY <1>0, <3>1 DEF Streamed
    <3>2. CASE k = h
      <4>1. i + 1 # 1 OBVIOUS
      <4> QED BY <1>0, <3>2, <4>1 DEF Streamed
    <3> QED BY <3>1, <3>2
  <2>3. \A k \in Threads : \A i \in 1..Len(streamQueue'[k]), j \in 1..Len(taskQueue) :
            streamQueue'[k][i] # taskQueue[j]
    BY <1>0 DEF Streamed
  <2>4. \A k \in Threads : current'[k] # NoTask => starts[current'[k]] > 0
    BY <1>0 DEF Streamed
  <2>5. UNCHANGED <<taskQueue, submitted, starts>> OBVIOUS
  <2> HIDE DEF IndInv, TypeOK, Control, FrontReturns
  <2> QED BY <2>1, <2>2, <2>3, <2>4, <2>5 DEF Streamed
<1>8. Held' BY <1>0, <1>5 DEF Held
<1>9. Counted' BY <1>0, <1>5 DEF Counted, StartedOnce
<1>10. Located'
  <2> SUFFICES ASSUME NEW u \in submitted \ ended, u # t PROVE Somewhere(u)'
    BY <1>0 DEF Located
  <2>1. ASSUME NEW k \in Threads, NEW i \in 1..Len(streamQueue[k]), streamQueue[k][i] = u
        PROVE  Somewhere(u)'
    <3>1. CASE k # h BY <1>0, <2>1, <3>1 DEF Somewhere
    <3>2. CASE k = h
      <4>1. i # 1 BY <2>1, <3>2
      <4>2. i - 1 \in 1..Len(streamQueue'[h]) BY <1>0, <3>2, <4>1
      <4>3. streamQueue'[h][i - 1] = streamQueue[h][(i - 1) + 1] BY <1>0, <4>2
      <4>4. streamQueue'[h][i - 1] = u BY <2>1, <3>2, <4>3
      <4> QED BY <4>2, <4>4 DEF Somewhere
    <3> QED BY <3>1, <3>2
  <2>2. Somewhere(u) BY DEF Located
  <2>3. UNCHANGED <<taskQueue, task>> OBVIOUS
  <2> HIDE DEF IndInv, TypeOK, Control, FrontReturns
  <2> QED BY <2>1, <2>2, <2>3 DEF Somewhere
<1>11. StreamDrained' BY <1>0 DEF StreamDrained
<1> QED BY <1>1, <1>2, <1>3, <1>4, <1>6, <1>7, <1>8, <1>9, <1>10, <1>11

\* Every step keeps the invariant.
LEMMA NextInv == ASSUME IndInv, [Next]_vars PROVE IndInv'
<1>1. CASE UNCHANGED vars
  <2>1. TypeOK' /\ Control' /\ Ending' /\ Batches' /\ StreamDrained'
    BY <1>1 DEF vars, IndInv, TypeOK, Control, Ending, Batches, StreamDrained
  <2> QED BY <1>1, <2>1, QuietPlaces DEF vars, IndInv
<1>2. ASSUME NEW h \in Threads, Submission(h) PROVE IndInv'
  <2>1. ASSUME NEW t \in Tasks, Run(h, t) \/ Execute(h, t) PROVE IndInv'
    BY <2>1, RunSubmits, SubmitsInv
  <2> QED BY <1>2, <2>1, QuietInv DEF Submission
<1>3. ASSUME NEW h \in Threads, ThreadStep(h) PROVE IndInv'
  <2>1. ASSUME h \in Clients, RunNext(h) PROVE IndInv'
    BY <2>1, RunNextSubmits, SubmitsInv
  <2> QED BY <1>3, <2>1, QuietInv, TakeInv, TaskReturnsInv, StartFrontInv, FrontThrowsInv,
             FrontReturnsInv DEF ThreadStep
<1> QED BY <1>1, <1>2, <1>3, QuietInv DEF Next

\* The inductive invariant holds in every behaviour of the executor, for any workers,
\* clients and tasks.
THEOREM Invariance == Spec => []IndInv
BY InitInv, NextInv, PTL DEF Spec

(***************************************************************************)
(* What the runs check, for every value of the constants.                  *)
(***************************************************************************)

\* The types of all variables.
THEOREM TypeCorrect == Spec => []TypeOK
BY Invariance, PTL DEF IndInv

\* When Execute returned, nothing is left in the stream of its thread, unless a task
\* threw.
THEOREM StreamIsDrained == Spec => []StreamDrained
BY Invariance, PTL DEF IndInv

\* No task is executed twice, whether it was queued, deferred or nested in another, by
\* any number of workers and clients.
THEOREM AtMostOnce == Spec => []StartedOnce
BY Invariance, PTL DEF IndInv, Counted

(* Wakeups.                                                                 *)
Notifiers == {h \in Threads : notifying[h]}
Lookers == {w \in Workers : wpc[w] = "check"}

\* The two sets are finite, in this state and the next.
LEMMA WakersFinite ==
    /\ IsFiniteSet(Notifiers) /\ Cardinality(Notifiers) \in Nat
    /\ IsFiniteSet(Lookers) /\ Cardinality(Lookers) \in Nat
    /\ IsFiniteSet(Notifiers') /\ Cardinality(Notifiers') \in Nat
    /\ IsFiniteSet(Lookers') /\ Cardinality(Lookers') \in Nat
<1>1. IsFiniteSet(Threads) BY ExecutorAssumption, FS_Union
<1>2. Notifiers \subseteq Threads /\ Notifiers' \subseteq Threads BY DEF Notifiers
<1>3. Lookers \subseteq Workers /\ Lookers' \subseteq Workers BY DEF Lookers
<1> QED BY <1>1, <1>2, <1>3, ExecutorAssumption, FS_Subset, FS_CardinalityType

\* For every queued task there is somebody who wakes a worker or looks at the queue.
Served == waiting # {} => Len(taskQueue) <= Cardinality(Notifiers) + Cardinality(Lookers)

\* A worker begins to look, or one thread notified it: the sum grows or stays.
LEMMA LookerAdded ==
    ASSUME NEW w, w \notin Lookers, Lookers' = Lookers \cup {w}
    PROVE  Cardinality(Lookers') = Cardinality(Lookers) + 1
BY WakersFinite, FS_AddElement

\* No step leaves a queued task without a notifier or a worker about to look, while workers wait.
LEMMA ServedNext ==
    ASSUME IndInv, IndInv', Served, [Next]_vars
    PROVE  Served'
<1> USE WakersFinite, ExecutorAssumption
<1>0. taskQueue \in Seq(Tasks) /\ Len(taskQueue) \in Nat
  <2>1. taskQueue \in Seq(Tasks) BY DEF IndInv, TypeOK
  <2> QED BY <2>1
<1>1. CASE UNCHANGED <<waiting, taskQueue, notifying, wpc>>
  BY <1>1 DEF Served, Notifiers, Lookers
<1>2. ASSUME NEW h \in Threads, NEW t \in Tasks, Submits(h, t) PROVE Served'
  <2>1. CASE Defer(h, t) BY <2>1, <1>1, <1>2 DEF Submits, Defer
  <2>2. CASE Enqueue(h, t)
    <3>1. Notifiers' = Notifiers \cup {h} /\ h \notin Notifiers /\ Lookers' = Lookers
      BY <1>2, <2>2 DEF Submits, Enqueue, Notifiers, Lookers, IndInv, TypeOK
    <3>2. Cardinality(Notifiers') = Cardinality(Notifiers) + 1 BY <3>1, FS_AddElement
    <3>3. Len(taskQueue') = Len(taskQueue) + 1 /\ waiting' = waiting BY <1>0, <2>2 DEF Enqueue
    <3> QED BY <1>0, <3>1, <3>2, <3>3 DEF Served
  <2> QED BY <1>2, <2>1, <2>2 DEF Submits
<1>3. ASSUME NEW h \in Threads, NotifyOne(h) PROVE Served'
  <2>1. CASE waiting = {}
    <3>1. waiting' = {} BY <1>3, <2>1 DEF NotifyOne
    <3> QED BY <3>1 DEF Served
  <2>2. ASSUME NEW w \in waiting, waiting' = waiting \ {w}, wpc' = [wpc EXCEPT ![w] = "check"]
        PROVE  Served'
    <3>1. Notifiers' = Notifiers \ {h} /\ h \in Notifiers
      BY <1>3 DEF NotifyOne, Notifiers, IndInv, TypeOK
    <3>2. w \notin Lookers /\ Lookers' = Lookers \cup {w}
      BY <2>2 DEF Lookers, IndInv, TypeOK, Control
    <3>3. Cardinality(Notifiers') = Cardinality(Notifiers) - 1 BY <3>1, FS_RemoveElement
    <3>4. Cardinality(Lookers') = Cardinality(Lookers) + 1 BY <3>2, LookerAdded
    <3>5. taskQueue' = taskQueue BY <1>3 DEF NotifyOne
    <3> QED BY <1>0, <2>2, <3>3, <3>4, <3>5 DEF Served
  <2> QED BY <1>3, <2>1, <2>2 DEF NotifyOne
<1>4. ASSUME NEW w \in Workers, Take(w) PROVE Served'
  <2>1. Lookers' = Lookers \ {w} /\ w \in Lookers
    BY <1>4 DEF Take, Lookers, IndInv, TypeOK
  <2>2. Cardinality(Lookers') = Cardinality(Lookers) - 1 BY <2>1, FS_RemoveElement
  <2>3. Len(taskQueue') = Len(taskQueue) - 1 BY <1>0, <1>4 DEF Take
  <2>4. UNCHANGED <<waiting, notifying>> BY <1>4 DEF Take
  <2>5. Notifiers' = Notifiers BY <2>4 DEF Notifiers
  <2> QED BY <1>0, <2>2, <2>3, <2>4, <2>5 DEF Served
<1>5. ASSUME NEW w \in Workers, Block(w) \/ Exit(w) PROVE Served'
  <2>1. taskQueue' = <<>> BY <1>5 DEF Block, Exit
  <2>2. Len(taskQueue') = 0 BY <2>1
  <2> QED BY <2>2 DEF Served
<1>6. ASSUME NEW w \in Workers, WakeSpuriously(w) \/ TaskReturns(w) PROVE Served'
  <2>1. w \notin Lookers /\ Lookers' = Lookers \cup {w}
    BY <1>6 DEF WakeSpuriously, TaskReturns, Lookers, IndInv, TypeOK, Control
  <2>2. UNCHANGED <<taskQueue, notifying>> /\ waiting' \subseteq waiting
    BY <1>6 DEF WakeSpuriously, TaskReturns
  <2>3. Notifiers' = Notifiers BY <2>2 DEF Notifiers
  <2>4. Cardinality(Lookers') = Cardinality(Lookers) + 1 BY <2>1, LookerAdded
  <2>5. Len(taskQueue') = Len(taskQueue) /\ (waiting' # {} => waiting # {}) BY <2>2
  <2> QED BY <1>0, <2>3, <2>4, <2>5 DEF Served
<1>7. CASE NotifyAll BY <1>7 DEF NotifyAll, Served
<1>8. ASSUME NEW h \in Threads, Submission(h) PROVE Served'
  <2>1. ASSUME NEW t \in Tasks, Run(h, t) \/ Execute(h, t) PROVE Served'
    BY <2>1, <1>2, RunSubmits
  <2>2. ASSUME NEW ts \in SUBSET Tasks, RunAndWait(h, ts) PROVE Served'
    BY <2>2, <1>1 DEF RunAndWait
  <2> QED BY <1>8, <2>1, <2>2 DEF Submission
<1>9. ASSUME NEW h \in Threads, ThreadStep(h) PROVE Served'
  <2>1. CASE h \in Clients /\ RunNext(h) BY <2>1, <1>2, RunNextSubmits
  <2>2. CASE StartFront(h) \/ FrontReturns(h) \/ FrontThrows(h) \/ LoopEnds(h)
    BY <2>2, <1>1 DEF StartFront, FrontReturns, FrontThrows, LoopEnds
  <2>3. CASE h \in Clients /\ WaitFutures(h) BY <2>3, <1>1 DEF WaitFutures
  <2> QED BY <1>9, <1>3, <1>4, <1>5, <1>6, <2>1, <2>2, <2>3 DEF ThreadStep
<1>10. CASE Stop \/ Join BY <1>10, <1>1 DEF Stop, Join
<1>11. CASE UNCHANGED vars BY <1>11, <1>1 DEF vars
<1> QED BY <1>6, <1>7, <1>8, <1>9, <1>10, <1>11 DEF Next

\* No wakeup is lost, although Enqueue notifies without the lock, and nobody sleeps on
\* after the destructor's notify_all.
THEOREM NoWakeupIsLost == Spec => []NoLostWakeup
<1>1. Init => Served BY DEF Init, Served
<1>2. IndInv /\ IndInv' /\ Served /\ [Next]_vars => Served' BY ServedNext
<1>3. IndInv /\ Served => NoLostWakeup
  BY DEF IndInv, Ending, Served, NoLostWakeup, Notifiers, Lookers
<1> QED BY <1>1, <1>2, <1>3, Invariance, PTL DEF Spec

(***************************************************************************)
(* The refinement of TaskExecutor, if no task throws out of Execute: such  *)
(* a task would stay in its stream for good.                               *)
(***************************************************************************)

\* A new executor is a new executor of the contract.
LEMMA ContractInit == ASSUME Init PROVE Contract!Init
BY DEF Init, Contract!Init, phase

\* A submission is the contract's.
LEMMA ContractSubmit ==
    ASSUME IndInv, NEW h \in Threads, NEW t \in Tasks, Submits(h, t)
    PROVE  Contract!Next
<1>1. submitted' = submitted \cup {t} /\ UNCHANGED <<starts, ended, life>>
  BY DEF Submits, Enqueue, Defer
<1>2. starts[t] = 0 /\ t \notin ended /\ t \notin submitted
  BY DEF Submits, IndInv, Counted
<1>3. phase[t] = "new" BY <1>2 DEF phase
<1>4. phase' = [phase EXCEPT ![t] = "queued"]
  <2>1. \A u \in Tasks : phase'[u] = IF u = t THEN "queued" ELSE phase[u]
    <3>1. ASSUME NEW u \in Tasks, u # t PROVE u \in submitted' <=> u \in submitted BY <1>1, <3>1
    <3>2. starts'[t] = 0 /\ t \notin ended' /\ t \in submitted' BY <1>1, <1>2
    <3> QED BY <1>1, <3>1, <3>2 DEF phase
  <2> QED BY <2>1 DEF phase
<1>5. life # "released"
  BY ExecutorAssumption DEF Submits, IndInv, Ending
<1> QED BY <1>1, <1>3, <1>4, <1>5 DEF Contract!Next, Contract!Submit

\* A task that leaves a queue for a thread starts, unless it threw before.
LEMMA ContractStart ==
    ASSUME IndInv, NEW t \in Tasks, t \in submitted, t \notin ended, life # "released",
           starts' = [starts EXCEPT ![t] = @ + 1], UNCHANGED <<submitted, ended, life>>
    PROVE  Contract!Next \/ UNCHANGED Contract!vars
<1>1. starts \in [Tasks -> Nat] BY DEF IndInv, TypeOK
<1>2. CASE starts[t] = 0
  <2>1. phase[t] = "queued" BY <1>2 DEF phase
  <2>2. starts'[t] > 0 /\ \A u \in Tasks : u # t => starts'[u] = starts[u] BY <1>1, <1>2
  <2>3. \A u \in Tasks : phase'[u] = IF u = t THEN "running" ELSE phase[u] BY <2>2 DEF phase
  <2>4. phase' = [phase EXCEPT ![t] = "running"] BY <2>3 DEF phase
  <2> QED BY <2>1, <2>4 DEF Contract!Next, Contract!Start
<1>3. CASE starts[t] # 0
  <2>1. \A u \in Tasks : starts'[u] > 0 <=> starts[u] > 0 BY <1>1, <1>3
  <2>2. phase' = phase BY <2>1 DEF phase
  <2> QED BY <2>2 DEF Contract!vars
<1> QED BY <1>2, <1>3

\* The end of a task is its end in the contract.
LEMMA ContractEnd ==
    ASSUME IndInv, NEW t \in Tasks, t \notin ended, starts[t] > 0, life # "released",
           ended' = ended \cup {t}, UNCHANGED <<submitted, starts, life>>
    PROVE  Contract!Next
<1>1. phase[t] = "running" BY DEF phase
<1>2. phase' = [phase EXCEPT ![t] = "done"] BY DEF phase
<1> QED BY <1>1, <1>2 DEF Contract!Next, Contract!End

\* When the workers are joined nothing is left anywhere.
LEMMA ContractRelease ==
    ASSUME IndInv, Join, Throwing = {}
    PROVE  Contract!Next
<1> USE ExecutorAssumption DEF IndInv
<1>1. life # "alive" /\ \A w \in Workers : wpc[w] = "exited" BY DEF Join
<1>2. taskQueue = <<>> BY <1>1 DEF Ending
<1>3. \A w \in Workers : task[w] = NoTask BY <1>1 DEF Control
<1>4. \A h \in Threads : ~execute[h] BY <1>1 DEF Control, Ending
<1>5. \A h \in Threads : streamQueue[h] = <<>> BY <1>4 DEF StreamDrained
<1>6. \A t \in Tasks : ~Somewhere(t) BY <1>2, <1>3, <1>5 DEF Somewhere
<1>7. \A t \in Tasks : t \in submitted => t \in ended BY <1>6 DEF Located
<1>8. \A t \in Tasks : phase[t] \in {"new", "done"} BY <1>7 DEF phase, Counted
<1>9. UNCHANGED phase /\ life' = "released" BY DEF Join, phase
<1> QED BY <1>8, <1>9 DEF Contract!Next, Contract!Release

\* Every step is a step of the contract, or none.
LEMMA ContractNext ==
    ASSUME IndInv, [Next]_vars, Throwing = {}
    PROVE  [Contract!Next]_Contract!vars
<1>1. CASE UNCHANGED <<submitted, starts, ended, life>> BY <1>1 DEF Contract!vars, phase
<1>2. CASE Stop \/ NotifyAll
  <2>1. UNCHANGED <<submitted, starts, ended>> /\ (life' = "released") = (life = "released")
    BY <1>2 DEF Stop, NotifyAll
  <2> QED BY <2>1 DEF Contract!vars, phase
<1>3. ASSUME NEW h \in Threads, Submission(h) PROVE [Contract!Next]_Contract!vars
  <2>1. ASSUME NEW t \in Tasks, Run(h, t) \/ Execute(h, t) PROVE [Contract!Next]_Contract!vars
    BY <2>1, RunSubmits, ContractSubmit
  <2>2. ASSUME NEW ts \in SUBSET Tasks, RunAndWait(h, ts) PROVE [Contract!Next]_Contract!vars
    BY <2>2, <1>1 DEF RunAndWait
  <2> QED BY <1>3, <2>1, <2>2 DEF Submission
<1>4. ASSUME NEW h \in Threads, ThreadStep(h) PROVE [Contract!Next]_Contract!vars
  <2>1. CASE h \in Clients /\ RunNext(h) BY <2>1, RunNextSubmits, ContractSubmit
  <2>2. CASE NotifyOne(h) \/ FrontThrows(h) \/ LoopEnds(h)
    BY <2>2, <1>1 DEF NotifyOne, FrontThrows, LoopEnds
  <2>3. CASE h \in Clients /\ WaitFutures(h) BY <2>3, <1>1 DEF WaitFutures
  <2>4. CASE h \in Workers /\ (Block(h) \/ Exit(h)) BY <2>4, <1>1 DEF Block, Exit
  <2>5. CASE h \in Workers /\ Take(h)
    <3>1. taskQueue \in Seq(Tasks) /\ taskQueue # <<>> /\ life # "released" /\ wpc[h] = "check"
      BY <2>5 DEF Take, IndInv, TypeOK, Ending
    <3>2. PICK t \in Tasks : t = Head(taskQueue) BY <3>1
    <3>3. t \in submitted /\ starts[t] = 0 BY <3>1, <3>2 DEF IndInv, Queued
    <3>4. t \notin ended BY <3>3 DEF IndInv, Counted
    <3> QED BY <2>5, <3>1, <3>2, <3>3, <3>4, ContractStart DEF Take
  <2>6. CASE h \in Workers /\ TaskReturns(h)
    <3>1. PICK t \in Tasks : t = task[h]
      BY <2>6 DEF TaskReturns, IndInv, TypeOK, Control
    <3>2. t \notin ended /\ starts[t] > 0
      <4>1. task[h] # NoTask BY <3>1, ExecutorAssumption
      <4> QED BY <2>6, <3>1, <4>1 DEF IndInv, Held
    <3>3. life # "released" BY <2>6 DEF TaskReturns, IndInv, Ending
    <3> QED BY <2>6, <3>1, <3>2, <3>3, ContractEnd DEF TaskReturns
  <2>7. ASSUME execute[h] PROVE life # "released"
    BY <2>7, ExecutorAssumption DEF IndInv, Control, Ending
  <2>8. CASE StartFront(h)
    <3>1. streamQueue[h] \in Seq(Tasks) /\ streamQueue[h] # <<>> /\ life # "released"
      BY <2>7, <2>8 DEF StartFront, IndInv, TypeOK
    <3>2. PICK t \in Tasks : t = Head(streamQueue[h]) /\ t = streamQueue[h][1] BY <3>1
    <3>3. Len(streamQueue[h]) > 0 BY <3>1
    <3>4. t \in submitted \ ended BY <3>2, <3>3 DEF IndInv, Streamed
    <3> QED BY <2>8, <3>1, <3>2, <3>4, ContractStart DEF StartFront
  <2>9. CASE FrontReturns(h)
    <3>1. PICK t \in Tasks : t = current[h] BY <2>9 DEF FrontReturns, IndInv, TypeOK
    <3>2. Len(streamQueue[h]) > 0 /\ t = streamQueue[h][1] /\ execute[h]
      BY <2>9, <3>1 DEF FrontReturns, IndInv, Control
    <3>3. t \notin ended BY <3>2 DEF IndInv, TypeOK, Streamed
    <3>4. starts[t] > 0 BY <2>9, <3>1 DEF FrontReturns, IndInv, Streamed
    <3> QED BY <2>7, <2>9, <3>1, <3>2, <3>3, <3>4, ContractEnd DEF FrontReturns
  <2> QED BY <1>4, <2>1, <2>2, <2>3, <2>4, <2>5, <2>6, <2>8, <2>9 DEF ThreadStep
<1>5. ASSUME NEW w \in Workers, WakeSpuriously(w) PROVE [Contract!Next]_Contract!vars
  BY <1>5, <1>1 DEF WakeSpuriously
<1>6. CASE Join BY <1>6, ContractRelease
<1>7. CASE UNCHANGED vars BY <1>7, <1>1 DEF vars
<1> QED BY <1>2, <1>3, <1>4, <1>5, <1>6, <1>7 DEF Next

\* The executor implements TaskExecutor: no task is lost between the queues, started
\* twice, or left behind by the destructor.
THEOREM Refinement == ASSUME Throwing = {} PROVE Spec => ImplementsContract
<1>1. Init => Contract!Init BY ContractInit
<1>2. IndInv /\ [Next]_vars => [Contract!Next]_Contract!vars BY ContractNext
<1> QED BY <1>1, <1>2, Invariance, PTL DEF Spec, ImplementsContract, Contract!Spec
=============================================================================
