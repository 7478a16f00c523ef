----------------------- MODULE RequestCallbackProofs -----------------------
(***************************************************************************)
(* Theorems about the callback of an AsyncInferRequest in a disciplined    *)
(* application, for any number of its threads, runs and stages.            *)
(*                                                                         *)
(* The destructor of DisableCallbackGuard, the last stage task and         *)
(* SetCallback all write _callback, and two of them put back what they     *)
(* took out of it earlier.  CallbackInv says who has it at every moment.   *)
(***************************************************************************)
EXTENDS AsyncInferRequestProofs

USE DEF members, pipelines, callers, object, history, Callers, MaybeRun,
        InferState, Settled, Positions, Places

\* The pipeline of a run was started and the promise of the run is not settled yet.
Unfinished(r) == pos[r] \notin {"none", "done"}

\* Its threads start runs and set the callback one after the other, callbacks start
\* nothing, and a thread is in a method only while the request is alive.
TurnsTaken ==
    /\ \A c, d \in Clients : Driving(c) /\ Driving(d) => c = d
    /\ \A r \in Runs : pc[r] = "idle"
    /\ \A c \in Clients : pc[c] # "idle" => life = "alive"
    /\ life = "alive" => state # "Stop"

\* Infer is where a thread is that has swapped the callback out.
InferIs ==
    \A c \in Callers :
        /\ sync[c] => pc[c] \in {"claim", "launch", "unwind", "capture", "wait", "restore"}
        /\ pc[c] \in {"capture", "restore"} => sync[c]
        /\ pc[c] = "capture" \/ (pc[c] = "wait" /\ sync[c]) => myrun[c] = last

\* One run is under way at a time, which is the last one that was started; it is over when
\* a thread is about to start the next one or to set the callback.
OneUnderWay ==
    /\ \A r, s \in Runs : Unfinished(r) /\ Unfinished(s) => r = s
    /\ life = "alive" => \A r \in Runs : Unfinished(r) => last = r
    /\ \A c \in Callers : Launching(c) => last = myrun[c]
    /\ \A c \in Callers : pc[c] \in {"claim", "launch", "unwind", "restore", "SetCallback"} =>
          \A r \in Runs : ~Unfinished(r)

\* Infer has taken the callback out of _callback, and its run calls none.
SwappedByInfer ==
    \A c \in Callers : sync[c] =>
        /\ ~callback
        /\ saved[c] = registered
        /\ \A r \in Runs : Unfinished(r) =>
              cb[r] = "off" /\ pos[r] \notin {"callback", "returned"}

\* While a run executes the callback it has taken it out of _callback.
SwappedByRun ==
    \A r \in Runs : pos[r] \in {"callback", "returned"} =>
        ~callback /\ registered /\ cb[r] = "called"

\* Otherwise the callback is in _callback, and the run under way is going to call it.
InPlace ==
    (\A c \in Callers : ~sync[c]) =>
        /\ (\A r \in Runs : pos[r] \notin {"callback", "returned"}) => callback = registered
        /\ \A r \in Runs : InPipeline(r) => cb[r] = IF registered THEN "due" ELSE "off"

\* Once StopAndWait began the swaps may put the callback back, but no run is left to call it.
CallbackInv ==
    /\ TurnsTaken /\ InferIs /\ OneUnderWay
    /\ life = "alive" => SwappedByInfer /\ SwappedByRun /\ InPlace
    /\ life # "alive" => (callback => \A r \in Runs : ~InPipeline(r))
    /\ CallbackExactlyWhenDue

\* What is claimed of disciplined applications only.
WhenDisciplined == disciplined => CallbackInv

-----------------------------------------------------------------------------
\* The threads of a disciplined application are its clients, and the request is alive
\* while one of them is in a method.
LEMMA ClientsOnly ==
    ASSUME IndInv, disciplined, CallbackInv, NEW c \in Callers, Call(c) \/ CallerStep(c)
    PROVE  c \in Clients /\ life = "alive"
<1> USE DEF IndInv, TypeOK
<1>1. CASE Call(c)
  BY <1>1 DEF Call, StartAsync, Infer, Wait, Cancel, CheckState, MayCall
<1>2. CASE CallerStep(c)
  <2>1. pc[c] \notin {"idle", "over"}
    BY <1>2 DEF CallerStep, CheckBlobsThrows, Refused, Claim, ClaimStopped, Launch,
      LaunchThrows, Unwind, Capture, WaitReturns, WaitTimesOut, RestoreSaved, SetCallback, Access
  <2> QED BY <2>1 DEF CallbackInv, TurnsTaken
<1> QED BY <1>1, <1>2

\* A run that is under way has a promise to settle.
LEMMA UnfinishedIsPending ==
    ASSUME IndInv, NEW r \in Runs, Unfinished(r) PROVE fut[r] = "pending"
BY DEF IndInv, TypeOK, Unfinished, PipelineHoldsPromise, PromiseIsOwn

\* When a disciplined application may start the next run, the last one is over.
LEMMA CalmIsQuiet ==
    ASSUME IndInv, disciplined, CallbackInv, NEW c \in Clients, life = "alive", Calm(c)
    PROVE  /\ \A r \in Runs : ~Unfinished(r)
           /\ \A d \in Clients : ~Driving(d)
           /\ \A d \in Callers : ~sync[d]
<1>1. \A r \in Runs : ~Unfinished(r)
  BY UnfinishedIsPending DEF Calm, CallbackInv, OneUnderWay
<1>2. \A d \in Clients : ~Driving(d)
  BY DEF Calm
<1>3. \A d \in Callers : ~sync[d]
  BY <1>2 DEF CallbackInv, TurnsTaken, InferIs, Driving, IndInv, TypeOK
<1> QED BY <1>1, <1>2, <1>3

\* What the steps of a run leave alone.
LEMMA RunLeaves ==
    ASSUME NEW r \in Runs, RunStep(r)
    PROVE  UNCHANGED <<pc, myrun, sync, saved, life, last, registered>>
BY DEF RunStep, StageReturns, StageThrows, StageCanceled, TakePromise, GoIdle,
       CallbackReturns, RestoreCallback, Settle

\* A step of a run that is under way keeps the callback where it has to be.
LEMMA RunKeepsCallback ==
    ASSUME IndInv, disciplined, CallbackInv, disciplined' = disciplined,
           NEW r \in Runs, RunStep(r)
    PROVE  CallbackInv'
<1> USE DEF IndInv, TypeOK
<1>1. UNCHANGED <<pc, myrun, sync, saved, life, last, registered>>
  BY RunLeaves
<1>2. /\ state' = state \/ state' = "Idle"
      /\ Unfinished(r)
      /\ \A s \in Runs : s # r => pos'[s] = pos[s] /\ cb'[s] = cb[s]
  BY DEF RunStep, StageReturns, StageThrows, StageCanceled, TakePromise, GoIdle,
         CallbackReturns, RestoreCallback, Settle, Unfinished
<1>3. \A s \in Runs : Unfinished(s)' => Unfinished(s)
  BY <1>2 DEF Unfinished
<1>4. TurnsTaken'
  BY <1>1, <1>2 DEF CallbackInv, TurnsTaken, Driving
<1>5. InferIs'
  BY <1>1 DEF CallbackInv, InferIs
<1>6. OneUnderWay'
  BY <1>1, <1>3 DEF CallbackInv, OneUnderWay, Launching
<1>7. \A s \in Runs : s # r => ~Unfinished(s)
  BY <1>2 DEF CallbackInv, OneUnderWay
<1>8. CASE UNCHANGED <<callback, cb>> /\ (InPipeline(r)' <=> InPipeline(r))
           /\ (pos'[r] = "settle" => pos[r] = "settle")
           /\ (pos'[r] \in {"callback", "returned"} <=> pos[r] \in {"callback", "returned"})
           /\ (pos'[r] = "done" => pos[r] = "settle")
  <2>1. \A s \in Runs : /\ (InPipeline(s)' <=> InPipeline(s))
                        /\ (pos'[s] \in {"callback", "returned"} <=> pos[s] \in {"callback", "returned"})
    BY <1>2, <1>8 DEF InPipeline
  <2>2. life = "alive" => SwappedByInfer' /\ SwappedByRun' /\ InPlace'
    BY <1>1, <1>3, <1>8, <2>1 DEF CallbackInv, SwappedByInfer, SwappedByRun, InPlace, InPipeline
  <2>3. CallbackExactlyWhenDue'
    BY <1>1, <1>2, <1>8 DEF CallbackInv, CallbackExactlyWhenDue
  <2> QED BY <1>1, <1>4, <1>5, <1>6, <1>8, <2>1, <2>2, <2>3 DEF CallbackInv
<1>9. CASE GoIdle(r)
  <2>1. /\ pos[r] = "reset" /\ callback' = FALSE
        /\ pos'[r] = IF callback THEN "callback" ELSE "settle"
        /\ cb'[r] = IF ~callback THEN cb[r] ELSE IF cb[r] = "due" THEN "called" ELSE "stray"
    BY <1>9 DEF GoIdle
  <2>2. InPipeline(r) /\ \A s \in Runs : ~InPipeline(s)'
    BY <1>2, <1>7, <2>1 DEF InPipeline, Unfinished
  <2>3. CASE life = "alive"
    <3>1. SwappedByInfer'
      BY <1>1, <1>2, <1>3, <1>7, <2>1, <2>3 DEF CallbackInv, SwappedByInfer, Unfinished
    <3>2. callback => cb[r] = "due" /\ registered
      <4> SUFFICES ASSUME callback PROVE cb[r] = "due" /\ registered
        OBVIOUS
      <4>1. \A c \in Callers : ~sync[c]
        BY <2>3 DEF CallbackInv, SwappedByInfer
      <4>2. \A s \in Runs : pos[s] \notin {"callback", "returned"}
        BY <1>7, <2>1 DEF Unfinished
      <4>3. registered
        BY <2>3, <4>1, <4>2 DEF CallbackInv, InPlace
      <4> QED BY <2>2, <2>3, <4>1, <4>3 DEF CallbackInv, InPlace
    <3>3. SwappedByRun'
      BY <1>1, <1>2, <1>7, <2>1, <2>3, <3>2 DEF CallbackInv, SwappedByRun, Unfinished
    <3>4. InPlace'
      BY <1>1, <1>2, <1>7, <2>1, <2>2, <2>3 DEF CallbackInv, InPlace, Unfinished
    <3>5. ~callback => cb[r] # "due"
      BY <2>2, <2>3, <2>1, <1>2, <1>7 DEF CallbackInv, SwappedByInfer, InPlace, Unfinished
    <3>6. CallbackExactlyWhenDue'
      BY <1>1, <1>2, <1>7, <2>1, <3>2, <3>5 DEF CallbackInv, CallbackExactlyWhenDue, Unfinished
    <3> QED BY <1>1, <1>4, <1>5, <1>6, <2>1, <2>3, <3>1, <3>3, <3>4, <3>6 DEF CallbackInv
  <2>4. CASE life # "alive"
    <3>1. ~callback
      BY <2>2, <2>4 DEF CallbackInv
    <3>2. CallbackExactlyWhenDue'
      BY <1>1, <1>2, <2>1, <2>4, <3>1 DEF CallbackInv, CallbackExactlyWhenDue
    <3> QED BY <1>1, <1>4, <1>5, <1>6, <2>1, <2>4, <3>2 DEF CallbackInv
  <2> QED BY <2>3, <2>4
<1>10. CASE RestoreCallback(r)
  <2>1. pos[r] = "returned" /\ callback' = TRUE /\ pos'[r] = "settle" /\ cb' = cb
    BY <1>10 DEF RestoreCallback
  <2>2. \A s \in Runs : ~InPipeline(s)' /\ pos'[s] \notin {"callback", "returned"}
    BY <1>2, <1>7, <2>1 DEF InPipeline, Unfinished
  <2>3. CASE life = "alive"
    <3>1. (\A c \in Callers : ~sync[c]) /\ registered /\ cb[r] = "called"
      BY <1>2, <2>1, <2>3 DEF CallbackInv, SwappedByInfer, SwappedByRun, Unfinished
    <3>2. SwappedByInfer' /\ SwappedByRun' /\ InPlace'
      BY <1>1, <2>1, <2>2, <3>1 DEF SwappedByInfer, SwappedByRun, InPlace
    <3>3. CallbackExactlyWhenDue'
      BY <1>1, <1>2, <2>1, <3>1 DEF CallbackInv, CallbackExactlyWhenDue
    <3> QED BY <1>1, <1>4, <1>5, <1>6, <2>3, <3>2, <3>3 DEF CallbackInv
  <2>4. CASE life # "alive"
    <3>1. CallbackExactlyWhenDue'
      BY <1>1, <1>2, <2>1, <2>4 DEF CallbackInv, CallbackExactlyWhenDue
    <3> QED BY <1>1, <1>4, <1>5, <1>6, <2>2, <2>4, <3>1 DEF CallbackInv
  <2> QED BY <2>3, <2>4
<1>11. CASE StageReturns(r)
  BY <1>8, <1>11 DEF StageReturns, IsLastStage, InPipeline
<1>12. CASE StageThrows(r)
  BY <1>8, <1>12 DEF StageThrows, InPipeline
<1>13. CASE StageCanceled(r)
  BY <1>8, <1>13 DEF StageCanceled, InPipeline
<1>14. CASE TakePromise(r)
  BY <1>8, <1>14 DEF TakePromise, InPipeline
<1>15. CASE CallbackReturns(r)
  BY <1>8, <1>15 DEF CallbackReturns, InPipeline
<1>16. CASE Settle(r)
  BY <1>8, <1>16 DEF Settle, InPipeline
<1> QED BY <1>9, <1>10, <1>11, <1>12, <1>13, <1>14, <1>15, <1>16 DEF RunStep

\* A step of a thread leaves the other threads' local variables alone.
Alone(c) == \A d \in Callers \ {c} :
    pc'[d] = pc[d] /\ myrun'[d] = myrun[d] /\ sync'[d] = sync[d] /\ saved'[d] = saved[d]

\* How a thread leaves a method, or goes on to the rest of Infer.
LEMMA LeaveIs ==
    ASSUME IndInv, NEW c \in Clients, NEW where \in {"restore", "capture"},
           \/ sync[c] /\ pc' = [pc EXCEPT ![c] = where] /\ UNCHANGED <<myrun, sync, saved>>
           \/ ~sync[c] /\ Return(c)
    PROVE  /\ Alone(c)
           /\ \/ sync[c] /\ pc'[c] = where /\ myrun'[c] = myrun[c] /\ sync'[c] /\ saved'[c] = saved[c]
              \/ ~sync[c] /\ pc'[c] = "idle" /\ ~sync'[c]
<1> USE DEF IndInv, TypeOK
<1>1. CASE sync[c] /\ pc' = [pc EXCEPT ![c] = where] /\ UNCHANGED <<myrun, sync, saved>>
  BY <1>1 DEF Alone
<1>2. CASE ~sync[c] /\ Return(c)
  <2>1. /\ pc' = [pc EXCEPT ![c] = "idle"]
        /\ myrun' = [myrun EXCEPT ![c] = NoRun]
        /\ sync' = [sync EXCEPT ![c] = FALSE]
        /\ saved' = [saved EXCEPT ![c] = FALSE]
    BY <1>2 DEF Return
  <2> QED BY <1>2, <2>1 DEF Alone
<1> QED BY <1>1, <1>2

\* A thread that enters, waits in, or leaves a method keeps the callback in its place
\* while it neither swaps it nor launches a run.
LEMMA MoveKeepsCallback ==
    ASSUME IndInv, disciplined, CallbackInv, disciplined' = disciplined,
           NEW c \in Clients, Alone(c), life = "alive",
           UNCHANGED <<callback, last, pos, cb, life, registered>>,
           state' # "Stop", sync'[c] = sync[c], saved'[c] = saved[c] \/ ~sync'[c],
           sync'[c] => pc'[c] \in {"claim", "launch", "unwind", "capture", "wait", "restore"},
           pc'[c] \in {"capture", "restore"} => sync'[c],
           pc'[c] = "capture" \/ (pc'[c] = "wait" /\ sync'[c]) => myrun'[c] = last,
           pc'[c] \in {"launch", "unwind"} => myrun'[c] = last,
           pc'[c] \in {"claim", "launch", "unwind", "restore", "SetCallback"} =>
               \A r \in Runs : ~Unfinished(r),
           Driving(c)' => Driving(c) \/ \A d \in Clients : ~Driving(d)
    PROVE  CallbackInv'
<1> USE DEF IndInv, TypeOK
<1>1. \A d \in Callers : d # c => pc'[d] = pc[d] /\ myrun'[d] = myrun[d] /\ sync'[d] = sync[d]
                                  /\ saved'[d] = saved[d]
  BY DEF Alone
<1>2. \A d \in Callers : sync'[d] = sync[d]
  BY <1>1
<1>3. TurnsTaken'
  <2>1. \A d \in Clients : d # c => (Driving(d)' <=> Driving(d))
    BY <1>1 DEF Driving
  <2>2. \A d, e \in Clients : Driving(d)' /\ Driving(e)' => d = e
    BY <2>1 DEF CallbackInv, TurnsTaken
  <2>3. \A r \in Runs : pc'[r] = "idle"
    <3>1. \A r \in Runs : r # c /\ r \in Callers /\ pc[r] = "idle"
      BY RequestAssumption DEF CallbackInv, TurnsTaken
    <3> QED BY <1>1, <3>1
  <2> QED BY <2>2, <2>3 DEF TurnsTaken
<1>4. InferIs'
  BY <1>1 DEF CallbackInv, InferIs
<1>5. \A r \in Runs : Unfinished(r)' <=> Unfinished(r)
  BY DEF Unfinished
<1>6. OneUnderWay'
  BY <1>1, <1>5 DEF CallbackInv, OneUnderWay, Launching
<1>7. SwappedByInfer'
  BY <1>1, <1>2, <1>5 DEF CallbackInv, SwappedByInfer
<1>8. SwappedByRun'
  BY DEF CallbackInv, SwappedByRun
<1>9. InPlace'
  BY <1>2 DEF CallbackInv, InPlace, InPipeline
<1>10. CallbackExactlyWhenDue'
  BY DEF CallbackInv, CallbackExactlyWhenDue
<1> QED BY <1>3, <1>4, <1>6, <1>7, <1>8, <1>9, <1>10 DEF CallbackInv

\* Calling a method keeps the callback where it has to be.
LEMMA CallKeepsCallback ==
    ASSUME IndInv, disciplined, CallbackInv, disciplined' = disciplined,
           NEW c \in Callers, Call(c)
    PROVE  CallbackInv'
<1> USE DEF IndInv, TypeOK
<1>1. c \in Clients /\ life = "alive" /\ state # "Stop"
  BY ClientsOnly DEF CallbackInv, TurnsTaken
<1>2. (pc[c] = "idle" /\ ~sync[c]) \/ Cancel(c)
  BY <1>1 DEF Call, StartAsync, Infer, Wait, CheckState, MayCall, CallbackInv, InferIs
<1>3. CASE StartAsync(c)
  <2>1. Alone(c) /\ pc'[c] = "claim" /\ sync'[c] = sync[c] /\ ~sync[c] /\ saved'[c] = saved[c] /\ Calm(c)
        /\ state' = state
    BY <1>1, <1>2, <1>3 DEF StartAsync, Alone, MayCall, CallbackInv, InferIs
  <2>2. UNCHANGED <<callback, last, pos, cb, life, registered>>
    BY <1>3 DEF StartAsync
  <2> QED BY <1>1, <2>1, <2>2, CalmIsQuiet, MoveKeepsCallback
<1>4. CASE Wait(c)
  <2>1. Alone(c) /\ pc'[c] = "wait" /\ sync'[c] = sync[c] /\ ~sync[c] /\ saved'[c] = saved[c] /\ state' = state
    BY <1>1, <1>2, <1>4 DEF Wait, Alone, MayCall, CallbackInv, InferIs
  <2>2. UNCHANGED <<callback, last, pos, cb, life, registered>>
    BY <1>4 DEF Wait
  <2>3. ~Driving(c)'
    BY <2>1 DEF Driving
  <2> QED BY <1>1, <2>1, <2>2, <2>3, MoveKeepsCallback
<1>5. CASE Cancel(c)
  <2>1. UNCHANGED <<pc, myrun, sync, saved, callback, last, pos, cb, life, registered>>
        /\ pc[c] = "idle" /\ state' = "Canceled"
    BY <1>5 DEF Cancel, MayCall
  <2>2. Alone(c)
    BY <2>1 DEF Alone
  <2>3. ~Driving(c)' /\ ~sync[c]
    BY <2>1 DEF Driving, CallbackInv, InferIs
  <2> QED BY <1>1, <2>1, <2>2, <2>3, MoveKeepsCallback
<1>6. ASSUME NEW op \in Ops, CheckState(c, op) PROVE CallbackInv'
  <2>1. Alone(c) /\ pc'[c] = op /\ sync'[c] = sync[c] /\ ~sync[c] /\ saved'[c] = saved[c] /\ state' = state
        /\ op \in {"SetCallback", "Access"} /\ (op = "SetCallback" => Calm(c))
    BY <1>1, <1>2, <1>6 DEF CheckState, Alone, MayCall, CallbackInv, InferIs
  <2>2. UNCHANGED <<callback, last, pos, cb, life, registered>>
    BY <1>6 DEF CheckState
  <2>3. CASE op = "SetCallback"
    BY <1>1, <2>1, <2>2, <2>3, CalmIsQuiet, MoveKeepsCallback
  <2>4. CASE op = "Access"
    <3>1. ~Driving(c)'
      BY <2>1, <2>4 DEF Driving
    <3> QED BY <1>1, <2>1, <2>2, <2>4, <3>1, MoveKeepsCallback
  <2> QED BY <2>1, <2>3, <2>4
<1>7. CASE Infer(c)
  <2>1. /\ Alone(c) /\ pc'[c] = "claim" /\ sync'[c] /\ ~sync[c] /\ saved'[c] = callback
        /\ callback' = FALSE /\ Calm(c)
        /\ UNCHANGED <<state, last, pos, cb, life, registered>>
    BY <1>1, <1>2, <1>7 DEF Infer, Alone, MayCall, CallbackInv, InferIs
  <2>2. /\ \A r \in Runs : ~Unfinished(r)
        /\ \A d \in Clients : ~Driving(d)
        /\ \A d \in Callers : ~sync[d]
    BY <1>1, <2>1, CalmIsQuiet
  <2>3. \A d \in Callers : d # c => pc'[d] = pc[d] /\ myrun'[d] = myrun[d] /\ ~sync'[d]
    BY <2>1, <2>2 DEF Alone
  <2>4. \A r \in Runs : ~Unfinished(r)' /\ ~InPipeline(r)' /\ pos'[r] \notin {"callback", "returned"}
    BY <2>1, <2>2 DEF Unfinished, InPipeline
  <2>5. TurnsTaken'
    <3>1. \A d \in Clients : d # c => ~Driving(d)'
      BY <2>2, <2>3 DEF Driving
    <3>2. \A r \in Runs : r # c /\ r \in Callers /\ pc[r] = "idle"
      BY <1>1, RequestAssumption DEF CallbackInv, TurnsTaken
    <3>3. \A r \in Runs : pc'[r] = "idle"
      BY <2>3, <3>2
    <3>4. \A d \in Clients : pc'[d] # "idle" => life' = "alive"
      BY <1>1, <2>1
    <3> QED BY <1>1, <2>1, <3>1, <3>3, <3>4 DEF TurnsTaken
  <2>6. InferIs'
    BY <2>1, <2>2, <2>3 DEF CallbackInv, InferIs
  <2>7. OneUnderWay'
    BY <2>1, <2>3, <2>4 DEF CallbackInv, OneUnderWay, Launching
  <2>8. callback = registered
    BY <1>1, <2>2 DEF CallbackInv, InPlace, Unfinished
  <2>9. SwappedByInfer'
    BY <2>1, <2>3, <2>4, <2>8 DEF SwappedByInfer
  <2>10. SwappedByRun' /\ InPlace'
    BY <2>1, <2>4 DEF SwappedByRun, InPlace
  <2>11. CallbackExactlyWhenDue'
    BY <2>1 DEF CallbackInv, CallbackExactlyWhenDue
  <2> QED BY <1>1, <2>1, <2>5, <2>6, <2>7, <2>9, <2>10, <2>11 DEF CallbackInv
<1> QED BY <1>3, <1>4, <1>5, <1>6, <1>7 DEF Call

\* The steps inside the methods keep the callback where it has to be.
LEMMA CallerKeepsCallback ==
    ASSUME IndInv, IndInv', disciplined, CallbackInv, disciplined' = disciplined,
           NEW c \in Callers, CallerStep(c)
    PROVE  CallbackInv'
<1> USE DEF IndInv, TypeOK
<1>1. c \in Clients /\ life = "alive" /\ state # "Stop"
  BY ClientsOnly DEF CallbackInv, TurnsTaken
<1>2. ASSUME UNCHANGED <<callback, last, pos, cb, life, registered>>, state' # "Stop",
             NEW where \in {"restore", "capture"}, pc[c] # "idle",
             \/ sync[c] /\ pc' = [pc EXCEPT ![c] = where] /\ UNCHANGED <<myrun, sync, saved>>
             \/ ~sync[c] /\ Return(c),
             sync[c] /\ where = "restore" => \A r \in Runs : ~Unfinished(r),
             sync[c] /\ where = "capture" => myrun[c] = last
      PROVE  CallbackInv'
  <2>1. /\ Alone(c)
        /\ \/ sync[c] /\ pc'[c] = where /\ myrun'[c] = myrun[c] /\ sync'[c] /\ saved'[c] = saved[c]
           \/ ~sync[c] /\ pc'[c] = "idle" /\ ~sync'[c]
    BY <1>1, <1>2, LeaveIs
  <2>2. sync'[c] = sync[c]
    BY <2>1
  <2>3. CASE sync[c]
    <3>1. Driving(c)
      BY <1>2, <2>3 DEF CallbackInv, InferIs, Driving
    <3> QED BY <1>1, <1>2, <2>1, <2>2, <2>3, <3>1, MoveKeepsCallback
  <2>4. CASE ~sync[c]
    <3>1. pc'[c] = "idle" /\ ~sync'[c] /\ ~Driving(c)'
      BY <2>1, <2>4 DEF Driving
    <3> QED BY <1>1, <1>2, <2>1, <2>2, <2>4, <3>1, MoveKeepsCallback
  <2> QED BY <2>3, <2>4
<1>3. CASE CheckBlobsThrows(c)
  <2>1. \A r \in Runs : ~Unfinished(r)
    BY <1>3 DEF CheckBlobsThrows, CallbackInv, OneUnderWay
  <2> QED BY <1>1, <1>2, <1>3, <2>1 DEF CheckBlobsThrows, Leave
<1>4. CASE Refused(c)
  <2>1. \A r \in Runs : ~Unfinished(r)
    BY <1>4 DEF Refused, CallbackInv, OneUnderWay
  <2> QED BY <1>1, <1>2, <1>4, <2>1 DEF Refused, Leave
<1>5. CASE Claim(c)
  <2>1. PICK r \in Runs : /\ fut[r] = "none" /\ last' = r
                          /\ myrun' = [myrun EXCEPT ![c] = r]
    BY <1>5 DEF Claim, Back
  <2>2. /\ pc[c] = "claim" /\ pc' = [pc EXCEPT ![c] = "launch"] /\ state' = "Busy"
        /\ UNCHANGED <<callback, pos, cb, life, registered, sync, saved>>
    BY <1>5 DEF Claim
  <2>3. pc'[c] = "launch" /\ myrun'[c] = last' /\ Driving(c)
        /\ \A d \in Callers : d # c => pc'[d] = pc[d] /\ myrun'[d] = myrun[d]
    BY <1>1, <2>1, <2>2 DEF Driving
  <2>4. \A s \in Runs : ~Unfinished(s) /\ ~Unfinished(s)'
    BY <1>1, <2>2 DEF CallbackInv, OneUnderWay, Unfinished
  <2>5. \A d \in Clients : d # c => ~Driving(d) /\ ~Driving(d)'
    BY <1>1, <2>2, <2>3 DEF CallbackInv, TurnsTaken, Driving
  <2>6. TurnsTaken'
    <3>1. \A s \in Runs : s # c /\ s \in Callers /\ pc[s] = "idle"
      BY <1>1, RequestAssumption DEF CallbackInv, TurnsTaken
    <3>2. \A s \in Runs : pc'[s] = "idle"
      BY <2>3, <3>1
    <3> QED BY <1>1, <2>2, <2>5, <3>2 DEF TurnsTaken
  <2>7. \A d \in Callers : d # c => pc[d] \notin {"capture", "launch", "unwind"}
                                    /\ ~(pc[d] = "wait" /\ sync[d])
    <3>1. \A s \in Runs : pc[s] = "idle"
      BY DEF CallbackInv, TurnsTaken
    <3> QED BY <2>5, <3>1 DEF Driving
  <2>8. InferIs'
    BY <2>2, <2>3, <2>7 DEF CallbackInv, InferIs
  <2>9. OneUnderWay'
    BY <2>3, <2>4, <2>7 DEF OneUnderWay, Launching
  <2>10. SwappedByInfer' /\ SwappedByRun' /\ InPlace' /\ CallbackExactlyWhenDue'
    BY <1>1, <2>2, <2>4
    DEF CallbackInv, SwappedByInfer, SwappedByRun, InPlace, InPipeline, CallbackExactlyWhenDue
  <2> QED BY <1>1, <2>2, <2>6, <2>8, <2>9, <2>10 DEF CallbackInv
<1>6. CASE ClaimStopped(c)
  BY <1>1, <1>6 DEF ClaimStopped
<1>7. CASE LaunchThrows(c)
  <2>1. /\ Alone(c) /\ pc'[c] = "unwind" /\ pc[c] = "launch" /\ sync'[c] = sync[c]
        /\ saved'[c] = saved[c] /\ myrun'[c] = myrun[c] /\ state' = state
        /\ UNCHANGED <<callback, last, pos, cb, life, registered>>
    BY <1>1, <1>7 DEF LaunchThrows, Alone
  <2>2. myrun[c] = last /\ (\A r \in Runs : ~Unfinished(r)) /\ Driving(c)
    BY <2>1 DEF CallbackInv, OneUnderWay, Launching, Driving
  <2> QED BY <1>1, <2>1, <2>2, MoveKeepsCallback
<1>8. CASE Unwind(c)
  <2>1. \A r \in Runs : ~Unfinished(r)
    BY <1>8 DEF Unwind, CallbackInv, OneUnderWay
  <2> QED BY <1>1, <1>2, <1>8, <2>1 DEF Unwind, Leave
<1>9. CASE Capture(c)
  <2>1. /\ Alone(c) /\ pc'[c] = (IF last = NoRun THEN "restore" ELSE "wait") /\ pc[c] = "capture"
        /\ sync'[c] = sync[c] /\ saved'[c] = saved[c] /\ myrun'[c] = last /\ state' = state
        /\ UNCHANGED <<callback, last, pos, cb, life, registered>>
    BY <1>1, <1>9 DEF Capture, Alone
  <2>2. sync[c] /\ Driving(c)
    BY <2>1 DEF CallbackInv, InferIs, Driving
  <2>3. last = NoRun => \A r \in Runs : ~Unfinished(r)
    BY <1>1, RequestAssumption DEF CallbackInv, OneUnderWay
  <2> QED BY <1>1, <2>1, <2>2, <2>3, MoveKeepsCallback
<1>10. CASE WaitReturns(c)
  <2>1. sync[c] => \A r \in Runs : ~Unfinished(r)
    BY <1>1, <1>10, UnfinishedIsPending DEF WaitReturns, CallbackInv, OneUnderWay, InferIs
  <2> QED BY <1>1, <1>2, <1>10, <2>1 DEF WaitReturns, Leave
<1>11. CASE WaitTimesOut(c)
  BY <1>1, <1>2, <1>11 DEF WaitTimesOut, Leave
<1>12. CASE Access(c)
  <2>1. /\ Alone(c) /\ pc'[c] = "idle" /\ pc[c] = "Access" /\ sync'[c] = sync[c]
        /\ saved'[c] = saved[c] /\ state' = state
        /\ UNCHANGED <<callback, last, pos, cb, life, registered>>
    BY <1>1, <1>12 DEF Access, Alone
  <2>2. ~sync[c] /\ ~Driving(c)'
    BY <2>1 DEF CallbackInv, InferIs, Driving
  <2> QED BY <1>1, <2>1, <2>2, MoveKeepsCallback
<1>13. \A s \in Runs : s # c /\ s \in Callers /\ pc[s] = "idle"
  BY <1>1, RequestAssumption DEF CallbackInv, TurnsTaken
<1>14. CASE Launch(c)
  <2> DEFINE r == myrun[c]
  <2>1. /\ r \in Runs /\ pos[r] = "none" /\ last = r
        /\ \A s \in Runs : ~Unfinished(s)
        /\ pc[c] = "launch" /\ Driving(c)
    BY <1>14 DEF Launch, LauncherHoldsPromise, Launching, CallbackInv, OneUnderWay, Driving
  <2>2. /\ pos' = [pos EXCEPT ![r] = "stage"]
        /\ cb' = [cb EXCEPT ![r] = IF registered /\ ~sync[c] THEN "due" ELSE "off"]
        /\ UNCHANGED <<state, callback, last, registered, life>>
    BY <1>14 DEF Launch
  <2>3. /\ Alone(c)
        /\ \/ sync[c] /\ pc'[c] = "capture" /\ myrun'[c] = r /\ sync'[c] /\ saved'[c] = saved[c]
           \/ ~sync[c] /\ pc'[c] = "idle" /\ ~sync'[c]
    BY <1>1, <1>14, LeaveIs DEF Launch, Proceed
  <2>4. \A d \in Callers : d # c => pc'[d] = pc[d] /\ myrun'[d] = myrun[d] /\ sync'[d] = sync[d]
                                    /\ saved'[d] = saved[d]
    BY <2>3 DEF Alone
  <2> HIDE DEF r
  <2>5. \A s \in Runs : /\ s # r => pos'[s] = pos[s] /\ cb'[s] = cb[s]
                        /\ Unfinished(s)' <=> s = r
    BY <2>1, <2>2 DEF Unfinished
  <2>6. pos'[r] = "stage" /\ cb'[r] = IF registered /\ ~sync[c] THEN "due" ELSE "off"
    BY <2>1, <2>2
  <2>7. \A d \in Callers : d # c => pc'[d] \in {"idle", "wait", "Access", "over"} /\ ~sync'[d]
    <3>1. \A d \in Clients : d # c => ~Driving(d)
      BY <1>1, <2>1 DEF CallbackInv, TurnsTaken
    <3>2. \A d \in Clients : d # c => pc[d] \in {"idle", "wait", "Access", "over"} /\ ~sync[d]
      BY <3>1 DEF Driving, CallbackInv, InferIs
    <3>3. \A s \in Runs : ~sync[s]
      BY <1>13 DEF CallbackInv, InferIs
    <3> QED BY <1>13, <2>4, <3>2, <3>3
  <2>8. TurnsTaken'
    <3>1. \A d, e \in Clients : Driving(d)' /\ Driving(e)' => d = e
      BY <2>7 DEF Driving
    <3>2. \A s \in Runs : pc'[s] = "idle"
      BY <1>13, <2>4
    <3> QED BY <1>1, <2>2, <3>1, <3>2 DEF TurnsTaken
  <2>9. InferIs'
    BY <2>1, <2>2, <2>3, <2>7 DEF InferIs
  <2>10. OneUnderWay'
    BY <2>1, <2>2, <2>3, <2>5, <2>7 DEF OneUnderWay, Launching
  <2>11. SwappedByInfer'
    <3>1. CASE sync[c]
      <4>1. ~callback /\ saved[c] = registered
        BY <1>1, <3>1 DEF CallbackInv, SwappedByInfer
      <4> QED BY <2>2, <2>3, <2>5, <2>6, <2>7, <3>1, <4>1 DEF SwappedByInfer
    <3>2. CASE ~sync[c]
      BY <2>3, <2>7, <3>2 DEF SwappedByInfer
    <3> QED BY <3>1, <3>2
  <2>12. \A s \in Runs : pos'[s] \notin {"callback", "returned"}
    BY <2>1, <2>5, <2>6 DEF Unfinished
  <2>13. SwappedByRun'
    BY <2>12 DEF SwappedByRun
  <2>14. InPlace'
    <3>1. CASE sync[c]
      <4>1. sync'[c]
        BY <2>3, <3>1
      <4> QED BY <4>1 DEF InPlace
    <3>2. CASE ~sync[c]
      <4>1. \A d \in Callers : ~sync[d]
        BY <2>4, <2>7, <3>2
      <4>2. callback = registered
        BY <1>1, <2>1, <4>1 DEF CallbackInv, InPlace, Unfinished
      <4>3. \A s \in Runs : InPipeline(s)' => s = r
        BY <2>5 DEF InPipeline, Unfinished
      <4>4. cb'[r] = IF registered THEN "due" ELSE "off"
        BY <2>6, <3>2
      <4> QED BY <2>2, <4>2, <4>3, <4>4 DEF InPlace
    <3> QED BY <3>1, <3>2
  <2>15. CallbackExactlyWhenDue'
    BY <2>2, <2>5, <2>6 DEF CallbackInv, CallbackExactlyWhenDue
  <2> QED BY <1>1, <2>2, <2>8, <2>9, <2>10, <2>11, <2>13, <2>14, <2>15 DEF CallbackInv
<1>15. ASSUME pc[c] \in {"restore", "SetCallback"}, pc'[c] = "idle", ~sync'[c], Alone(c),
              callback' = registered',
              UNCHANGED <<state, last, pos, cb, life>>
       PROVE  CallbackInv'
  <2>1. Driving(c) /\ \A r \in Runs : ~Unfinished(r) /\ ~Unfinished(r)'
    BY <1>15 DEF CallbackInv, OneUnderWay, Driving, Unfinished
  <2>2. \A d \in Callers : d # c => pc'[d] = pc[d] /\ myrun'[d] = myrun[d] /\ sync'[d] = sync[d]
                                    /\ saved'[d] = saved[d]
    BY <1>15 DEF Alone
  <2>3. \A d \in Callers : d # c => pc'[d] \in {"idle", "wait", "Access", "over"} /\ ~sync'[d]
    <3>1. \A d \in Clients : d # c => ~Driving(d)
      BY <1>1, <2>1 DEF CallbackInv, TurnsTaken
    <3>2. \A d \in Clients : d # c => pc[d] \in {"idle", "wait", "Access", "over"} /\ ~sync[d]
      BY <3>1 DEF Driving, CallbackInv, InferIs
    <3>3. \A s \in Runs : ~sync[s]
      BY <1>13 DEF CallbackInv, InferIs
    <3> QED BY <1>13, <2>2, <3>2, <3>3
  <2>4. TurnsTaken'
    <3>1. \A d, e \in Clients : Driving(d)' /\ Driving(e)' => d = e
      BY <1>15, <2>3 DEF Driving
    <3>2. \A s \in Runs : pc'[s] = "idle"
      BY <1>13, <2>2
    <3> QED BY <1>1, <1>15, <3>1, <3>2 DEF TurnsTaken
  <2>5. \A d \in Callers : ~sync'[d] /\ pc'[d] \in {"idle", "wait", "Access", "over"}
    BY <1>15, <2>3
  <2>6. InferIs' /\ OneUnderWay' /\ SwappedByInfer'
    BY <2>1, <2>5 DEF InferIs, OneUnderWay, SwappedByInfer, Launching
  <2>7. SwappedByRun' /\ InPlace'
    BY <1>15, <2>1 DEF SwappedByRun, InPlace, Unfinished, InPipeline
  <2>8. CallbackExactlyWhenDue'
    BY <1>15 DEF CallbackInv, CallbackExactlyWhenDue
  <2> QED BY <1>1, <1>15, <2>4, <2>6, <2>7, <2>8 DEF CallbackInv
<1>16. CASE RestoreSaved(c)
  <2>1. pc[c] = "restore" /\ sync[c] /\ callback' = saved[c]
        /\ UNCHANGED <<state, last, pos, cb, life, registered>>
    BY <1>16 DEF RestoreSaved, CallbackInv, InferIs
  <2>2. pc'[c] = "idle" /\ ~sync'[c] /\ Alone(c)
    BY <1>1, <1>16 DEF RestoreSaved, Return, Alone
  <2>3. saved[c] = registered
    BY <1>1, <2>1 DEF CallbackInv, SwappedByInfer
  <2> QED BY <1>15, <2>1, <2>2, <2>3
<1>17. CASE SetCallback(c)
  <2>1. pc[c] = "SetCallback" /\ callback' = registered' /\ UNCHANGED <<state, last, pos, cb, life>>
    BY <1>17 DEF SetCallback
  <2>2. pc'[c] = "idle" /\ Alone(c) /\ sync' = sync
    BY <1>1, <1>17 DEF SetCallback, Alone
  <2>3. ~sync'[c]
    BY <2>1, <2>2 DEF CallbackInv, InferIs
  <2> QED BY <1>15, <2>1, <2>2, <2>3
<1> QED BY <1>3, <1>4, <1>5, <1>6, <1>7, <1>8, <1>9, <1>10, <1>11, <1>12, <1>14, <1>16, <1>17
        DEF CallerStep

\* So do the destructors, which begin when every method has returned.
LEMMA StopKeepsCallback ==
    ASSUME IndInv, disciplined, CallbackInv, disciplined' = disciplined,
           StopAndWait \/ StopReturns
    PROVE  CallbackInv'
<1> USE DEF IndInv, TypeOK
<1>1. UNCHANGED <<pc, myrun, sync, saved, pos, cb, registered>>
  BY DEF StopAndWait, StopReturns
<1>2. CASE StopReturns
  <2>1. life # "alive" /\ life' # "alive" /\ UNCHANGED <<state, callback, last>>
    BY <1>2 DEF StopReturns
  <2>2. TurnsTaken'
    BY <1>1, <2>1 DEF CallbackInv, TurnsTaken, Driving
  <2>3. InferIs' /\ OneUnderWay'
    BY <1>1, <2>1 DEF CallbackInv, InferIs, OneUnderWay, Unfinished, Launching
  <2>4. CallbackExactlyWhenDue' /\ (callback' => \A r \in Runs : ~InPipeline(r)')
    BY <1>1, <2>1 DEF CallbackInv, CallbackExactlyWhenDue, InPipeline
  <2> QED BY <2>1, <2>2, <2>3, <2>4 DEF CallbackInv
<1>3. CASE StopAndWait
  <2>1. life' # "alive" /\ \A c \in Callers : pc[c] = "idle"
    BY <1>3 DEF StopAndWait, CallbackInv, TurnsTaken
  <2>2. TurnsTaken'
    BY <1>1, <2>1 DEF TurnsTaken, Driving
  <2>3. InferIs' /\ OneUnderWay'
    BY <1>1, <2>1 DEF CallbackInv, InferIs, OneUnderWay, Unfinished, Launching
  <2>4. callback' => \A r \in Runs : ~InPipeline(r)'
    <3>1. CASE state # "Stop"
      <4>1. ~callback'
        BY <1>3, <3>1 DEF StopAndWait
      <4> QED BY <4>1
    <3>2. CASE state = "Stop"
      <4>1. callback' = callback /\ life # "alive"
        BY <1>3, <3>2 DEF StopAndWait, CallbackInv, TurnsTaken
      <4> QED BY <1>1, <4>1 DEF CallbackInv, InPipeline
    <3> QED BY <3>1, <3>2
  <2>5. CallbackExactlyWhenDue'
    BY <1>1, <2>1 DEF CallbackInv, CallbackExactlyWhenDue
  <2> QED BY <2>1, <2>2, <2>3, <2>4, <2>5 DEF CallbackInv
<1> QED BY <1>2, <1>3

\* A disciplined application's requests keep the invariant.
LEMMA CallbackNext ==
    ASSUME IndInv, IndInv', WhenDisciplined, [Next]_vars PROVE WhenDisciplined'
<1>1. disciplined' = disciplined
  BY DEF Next, vars
<1>2. CASE ~disciplined
  BY <1>1, <1>2 DEF WhenDisciplined
<1>3. CASE disciplined /\ UNCHANGED vars
  BY <1>3 DEF WhenDisciplined, CallbackInv, TurnsTaken, InferIs, OneUnderWay, SwappedByInfer,
    SwappedByRun, InPlace, CallbackExactlyWhenDue, Unfinished, Driving, Launching, InPipeline, vars
<1>4. CASE disciplined /\ Next
  BY <1>1, <1>4, RunKeepsCallback, CallKeepsCallback, CallerKeepsCallback, StopKeepsCallback
  DEF Next, WhenDisciplined
<1> QED BY <1>2, <1>3, <1>4

\* The invariant holds of a request that was just made.
LEMMA CallbackInit == ASSUME Init PROVE WhenDisciplined
BY RequestAssumption
DEF Init, WhenDisciplined, CallbackInv, TurnsTaken, InferIs, OneUnderWay, SwappedByInfer,
    SwappedByRun, InPlace, CallbackExactlyWhenDue, Unfinished, Driving, Launching, InPipeline

\* In a disciplined application the callback is in exactly one place at a time, whatever
\* fails, is canceled or is waited for while the last stage task and Infer swap it.
THEOREM CallbackInvariance == Spec => []WhenDisciplined
<1>1. Init => WhenDisciplined BY CallbackInit
<1>2. WhenDisciplined /\ IndInv /\ IndInv' /\ [Next]_vars => WhenDisciplined' BY CallbackNext
<1> QED BY <1>1, <1>2, Invariance, PTL DEF Spec

\* The last stage task calls the callback of every asynchronous run that was started with
\* one, and of no run of Infer.
THEOREM CallbackIsCalled == Spec => []CallbackExactlyWhenDue
<1>1. WhenDisciplined => CallbackExactlyWhenDue
  BY DEF WhenDisciplined, CallbackInv, CallbackExactlyWhenDue
<1> QED BY <1>1, CallbackInvariance, PTL

\* When nothing is under way _callback holds what the application last passed to SetCallback.
THEOREM CallbackSurvives == Spec => []CallbackKept
<1>1. WhenDisciplined /\ IndInv => CallbackKept
  <2> SUFFICES ASSUME CallbackInv, IndInv, life = "alive",
                      \A c \in Callers : pc[c] \in {"idle", "over"},
                      \A r \in Runs : pos[r] \in {"none", "done"}
               PROVE  callback = registered
    BY DEF WhenDisciplined, CallbackKept
  <2>1. \A c \in Callers : ~sync[c]
    BY DEF CallbackInv, InferIs
  <2> QED BY <2>1 DEF CallbackInv, InPlace
<1> QED BY <1>1, CallbackInvariance, Invariance, PTL

\* The future Infer picks from _futures, under a second lock, is the one of the run it
\* started under the first.
THEOREM InferWaitsForItsOwn == Spec => InferReportsOwnRun
<1>1. WhenDisciplined /\ IndInv /\ [Next]_vars
      => [\A c \in Callers : disciplined /\ pc[c] = "capture" /\ pc'[c] = "wait"
                               => myrun'[c] = myrun[c]]_callers
  <2> SUFFICES ASSUME WhenDisciplined, IndInv, Next, NEW c \in Callers, disciplined,
                      pc[c] = "capture", pc'[c] = "wait"
               PROVE  myrun'[c] = myrun[c]
    BY DEF vars
  <2> USE DEF IndInv, TypeOK
  <2>1. myrun[c] = last
    BY DEF WhenDisciplined, CallbackInv, InferIs
  <2>2. ASSUME NEW r \in Runs, RunStep(r) PROVE FALSE
    BY <2>2, RunLeaves
  <2>3. ASSUME NEW d \in Callers, Call(d) PROVE FALSE
    BY <2>3 DEF Call, StartAsync, Infer, Wait, Cancel, CheckState, MayCall
  <2>4. ASSUME NEW d \in Callers, CallerStep(d) PROVE myrun'[c] = myrun[c]
    <3>1. CASE d # c
      BY <2>4, <3>1
      DEF CallerStep, CheckBlobsThrows, Refused, Claim, ClaimStopped, Launch, LaunchThrows,
        Unwind, Capture, WaitReturns, WaitTimesOut, RestoreSaved, SetCallback, Access,
        Leave, Proceed, Return
    <3>2. CASE d = c
      BY <2>1, <2>4, <3>2
      DEF CallerStep, CheckBlobsThrows, Refused, Claim, ClaimStopped, Launch, LaunchThrows,
        Unwind, Capture, WaitReturns, WaitTimesOut, RestoreSaved, SetCallback, Access
    <3> QED BY <3>1, <3>2
  <2>5. ~StopAndWait /\ ~StopReturns
    BY DEF StopAndWait, StopReturns
  <2> QED BY <2>2, <2>3, <2>4, <2>5 DEF Next
<1> QED BY <1>1, CallbackInvariance, Invariance, PTL DEF Spec, InferReportsOwnRun
=============================================================================
