---------------------- MODULE AsyncInferRequestProofs ----------------------
(***************************************************************************)
(* Theorems about AsyncInferRequest, for any number of application threads *)
(* and runs, any pipeline and any use of the request.                      *)
(***************************************************************************)
EXTENDS AsyncInferRequest, TLAPS

USE DEF members, pipelines, callers, object, history, Callers, MaybeRun,
        InferState, Settled, Positions, Places

(* The type invariant holds initially and is kept by every step.            *)
LEMMA TypeInit == ASSUME Init PROVE TypeOK
BY RequestAssumption DEF Init, TypeOK

\* What a caller's local variables are after it returned, left, or went on.
LocalsOK ==
    /\ pc \in [Callers -> Places]
    /\ myrun \in [Callers -> MaybeRun]
    /\ sync \in [Callers -> BOOLEAN]
    /\ saved \in [Callers -> BOOLEAN]

\* Leaving a method keeps the types of the caller's local variables.
LEMMA LocalsNext ==
    ASSUME NEW c \in Callers, LocalsOK, Leave(c) \/ Proceed(c) \/ Return(c)
    PROVE  LocalsOK'
<1>1. CASE Return(c)
  <2>1. pc' \in [Callers -> Places] BY <1>1 DEF Return, LocalsOK
  <2>2. myrun' \in [Callers -> MaybeRun] BY <1>1 DEF Return, LocalsOK
  <2>3. sync' \in [Callers -> BOOLEAN] BY <1>1 DEF Return, LocalsOK
  <2>4. saved' \in [Callers -> BOOLEAN] BY <1>1 DEF Return, LocalsOK
  <2> QED BY <2>1, <2>2, <2>3, <2>4 DEF LocalsOK
<1>2. CASE Leave(c) /\ ~Return(c)
  <2>1. pc' = [pc EXCEPT ![c] = "restore"] /\ UNCHANGED <<myrun, sync, saved>>
    BY <1>2 DEF Leave
  <2> QED BY <2>1 DEF LocalsOK
<1>3. CASE Proceed(c) /\ ~Return(c)
  <2>1. pc' = [pc EXCEPT ![c] = "capture"] /\ UNCHANGED <<myrun, sync, saved>>
    BY <1>3 DEF Proceed
  <2> QED BY <2>1 DEF LocalsOK
<1> QED BY <1>1, <1>2, <1>3

\* A stage that is not the last has another one after it.
LEMMA StageAfter == ASSUME NEW n \in 0 .. NumStages, n # NumStages PROVE n + 1 \in 0 .. NumStages
BY RequestAssumption

\* Every step keeps the types.
LEMMA TypeNext == ASSUME TypeOK, [Next]_vars PROVE TypeOK'
<1> USE RequestAssumption DEF TypeOK
<1> disciplined' = disciplined BY DEF Next, vars
<1> LocalsOK BY DEF LocalsOK
<1> 0 \in 0 .. NumStages OBVIOUS
<1>1. ASSUME NEW r \in Runs, RunStep(r) PROVE TypeOK'
  <2>1. CASE StageReturns(r)
    <3>1. pos' \in [Runs -> Positions]
      <4>1. pos' = [pos EXCEPT ![r] = "last"] \/ pos' = pos
        BY <2>1, Zenon DEF StageReturns
      <4> QED BY <4>1, ZenonT(60)
    <3>2. stg' \in [Runs -> 0 .. NumStages]
      <4>1. \/ stg' = stg
            \/ stg[r] # NumStages /\ stg' = [stg EXCEPT ![r] = @ + 1]
        BY <2>1, Zenon DEF StageReturns, IsLastStage
      <4>2. stg[r] \in 0 .. NumStages OBVIOUS
      <4>3. stg[r] # NumStages => stg[r] + 1 \in 0 .. NumStages BY <4>2, StageAfter, Zenon
      <4> QED BY <4>1, <4>3, ZenonT(60)
    <3>3. UNCHANGED <<members, fut, exc, taken, callers, object, history>>
      BY <2>1, Zenon DEF StageReturns
    <3> QED BY <3>1, <3>2, <3>3, ZenonT(60)
  <2>2. CASE StageThrows(r) BY <2>2, ZenonT(60) DEF StageThrows
  <2>3. CASE StageCanceled(r) BY <2>3, ZenonT(60) DEF StageCanceled
  <2>4. CASE TakePromise(r) BY <2>4, ZenonT(60) DEF TakePromise
  <2>5. CASE GoIdle(r) BY <2>5, ZenonT(60) DEF GoIdle
  <2>6. CASE CallbackReturns(r) BY <2>6, ZenonT(60) DEF CallbackReturns
  <2>7. CASE RestoreCallback(r) BY <2>7, ZenonT(60) DEF RestoreCallback
  <2>8. CASE Settle(r) BY <2>8, ZenonT(60) DEF Settle, Outcome, Taken
  <2> QED BY <1>1, <2>1, <2>2, <2>3, <2>4, <2>5, <2>6, <2>7, <2>8 DEF RunStep
<1>2. ASSUME NEW c \in Callers, Call(c) PROVE TypeOK'
  <2>1. CASE StartAsync(c) BY <1>2, <2>1, SMTT(60) DEF StartAsync
  <2>2. CASE Infer(c) BY <1>2, <2>2, ZenonT(60) DEF Infer
  <2>3. CASE Wait(c) BY <1>2, <2>3, SMTT(60) DEF Wait
  <2>4. CASE Cancel(c) BY <1>2, <2>4, SMTT(60) DEF Cancel
  <2>5. ASSUME NEW op \in Ops, CheckState(c, op) PROVE TypeOK'
    BY <1>2, <2>5 DEF CheckState
  <2> QED BY <1>2, <2>1, <2>2, <2>3, <2>4, <2>5 DEF Call
<1>3. ASSUME NEW c \in Callers, CallerStep(c) PROVE TypeOK'
  <2>1. CASE CheckBlobsThrows(c)
    <3> LocalsOK' BY <1>3, <2>1, LocalsNext DEF CheckBlobsThrows
    <3> QED BY <1>3, <2>1, SMTT(60) DEF CheckBlobsThrows, LocalsOK
  <2>2. CASE Refused(c)
    <3> LocalsOK' BY <1>3, <2>2, LocalsNext DEF Refused
    <3> QED BY <1>3, <2>2, SMTT(60) DEF Refused, LocalsOK
  <2>3. CASE Claim(c) BY <1>3, <2>3, SMTT(60) DEF Claim, Free, Kept, Back
  <2>4. CASE ClaimStopped(c)
    <3> LocalsOK' BY <1>3, <2>4, LocalsNext DEF ClaimStopped
    <3> QED BY <1>3, <2>4, SMTT(60) DEF ClaimStopped, LocalsOK
  <2>5. CASE Launch(c)
    <3>1. LocalsOK' BY <1>3, <2>5, LocalsNext DEF Launch
    <3>2. stg' \in [Runs -> 0 .. NumStages] /\ pos' \in [Runs -> Positions]
      <4> 1 \in 0 .. NumStages OBVIOUS
      <4> QED BY <2>5 DEF Launch
    <3>3. cb' \in [Runs -> {"off", "due", "called", "stray"}] BY <2>5 DEF Launch
    <3> QED BY <2>5, <3>1, <3>2, <3>3, SMTT(60) DEF Launch, LocalsOK
  <2>6. CASE LaunchThrows(c) BY <1>3, <2>6, ZenonT(60) DEF LaunchThrows
  <2>7. CASE Unwind(c)
    <3> LocalsOK' BY <1>3, <2>7, LocalsNext DEF Unwind
    <3> QED BY <1>3, <2>7, SMTT(60) DEF Unwind, LocalsOK
  <2>8. CASE Capture(c) BY <1>3, <2>8, SMTT(60) DEF Capture
  <2>9. CASE WaitReturns(c)
    <3> LocalsOK' BY <1>3, <2>9, LocalsNext DEF WaitReturns
    <3> QED BY <1>3, <2>9, SMTT(60) DEF WaitReturns, LocalsOK
  <2>10. CASE WaitTimesOut(c)
    <3> LocalsOK' BY <1>3, <2>10, LocalsNext DEF WaitTimesOut
    <3> QED BY <1>3, <2>10, SMTT(60) DEF WaitTimesOut, LocalsOK
  <2>11. CASE RestoreSaved(c)
    <3> LocalsOK' BY <1>3, <2>11, LocalsNext DEF RestoreSaved
    <3> QED BY <1>3, <2>11, SMTT(60) DEF RestoreSaved, LocalsOK
  <2>12. CASE SetCallback(c) BY <1>3, <2>12, SMTT(60) DEF SetCallback
  <2>13. CASE Access(c) BY <1>3, <2>13, SMTT(60) DEF Access
  <2> QED BY <1>3, <2>1, <2>2, <2>3, <2>4, <2>5, <2>6, <2>7, <2>8, <2>9, <2>10,
             <2>11, <2>12, <2>13 DEF CallerStep
<1>4. CASE StopAndWait BY <1>4, ZenonT(60) DEF StopAndWait, AllFutures
<1>5. CASE StopReturns BY <1>5, SMTT(60) DEF StopReturns
<1>6. CASE UNCHANGED vars BY <1>6 DEF vars
<1> QED BY <1>1, <1>2, <1>3, <1>4, <1>5, <1>6 DEF Next
-----------------------------------------------------------------------------
\* A step that leaves the run's data alone, and lets no caller enter or leave the
\* section where it launches a run, keeps the inductive invariant.
LEMMA QuietStep ==
    ASSUME IndInv, TypeOK',
           UNCHANGED <<state, promise, futures, fut, pos, exc, taken, waited, hit>>,
           \A c \in Callers : /\ Launching(c)' <=> Launching(c)
                              /\ Launching(c) => pc'[c] = pc[c] /\ myrun'[c] = myrun[c]
    PROVE  IndInv'
<1>1. \A r \in Runs : (InPipeline(r))' <=> InPipeline(r) BY DEF InPipeline
<1>2. \A r \in Runs : (Owner(r))' <=> Owner(r) BY <1>1 DEF Owner, Launching
<1>3. OneLauncher' BY DEF IndInv, OneLauncher, Launching
<1>4. LauncherHoldsPromise' BY DEF IndInv, LauncherHoldsPromise, Launching
<1>5. OneInPipeline' BY <1>1 DEF IndInv, OneInPipeline
<1>6. PipelineHoldsPromise' BY DEF IndInv, PipelineHoldsPromise
<1>7. LaunchOrPipeline' BY <1>1 DEF IndInv, LaunchOrPipeline, Launching
<1>8. OwnerNotIdle' BY <1>2 DEF IndInv, OwnerNotIdle
<1>9. PromiseIsOwn' BY DEF IndInv, PromiseIsOwn
<1>10. FreshIsUnused' BY DEF IndInv, FreshIsUnused
<1>11. PendingIsTracked' BY DEF IndInv, PendingIsTracked
<1>12. CanceledWasHit' BY <1>2 DEF IndInv, CanceledWasHit
<1>13. CancelHitsItsRun' BY DEF IndInv, CancelHitsItsRun
<1> QED BY <1>3, <1>4, <1>5, <1>6, <1>7, <1>8, <1>9, <1>10, <1>11, <1>12, <1>13 DEF IndInv

\* A caller that leaves a method launches nothing, and disturbs no other caller.
LEMMA LeaveQuiet ==
    ASSUME NEW c \in Callers, TypeOK, Leave(c) \/ Proceed(c) \/ Return(c)
    PROVE  /\ pc'[c] \notin {"launch", "unwind"}
           /\ \A d \in Callers \ {c} : pc'[d] = pc[d] /\ myrun'[d] = myrun[d]
<1> LocalsOK BY DEF TypeOK, LocalsOK
<1>1. CASE Return(c) BY <1>1 DEF Return, LocalsOK
<1>2. CASE Leave(c) /\ ~Return(c)
  <2>1. pc' = [pc EXCEPT ![c] = "restore"] /\ UNCHANGED myrun BY <1>2 DEF Leave
  <2> QED BY <2>1 DEF LocalsOK
<1>3. CASE Proceed(c) /\ ~Return(c)
  <2>1. pc' = [pc EXCEPT ![c] = "capture"] /\ UNCHANGED myrun BY <1>3 DEF Proceed
  <2> QED BY <2>1 DEF LocalsOK
<1> QED BY <1>1, <1>2, <1>3

\* The steps that call a method, wait, or work on the request keep it.
LEMMA CallKeepsInv ==
    ASSUME IndInv, TypeOK', NEW c \in Callers,
           \/ StartAsync(c) \/ Infer(c) \/ Wait(c) \/ SetCallback(c) \/ Access(c) \/ Capture(c)
           \/ \E op \in Ops : CheckState(c, op)
    PROVE  IndInv'
<1> USE DEF IndInv
<1>1. TypeOK OBVIOUS
<1>2. ASSUME ~Launching(c), ~Launching(c)',
             UNCHANGED <<state, promise, futures, fut, pos, exc, taken, waited, hit>>,
             \A d \in Callers \ {c} : pc'[d] = pc[d] /\ myrun'[d] = myrun[d]
      PROVE  IndInv'
  BY <1>2, QuietStep DEF Launching
<1>3. CASE StartAsync(c) BY <1>1, <1>2, <1>3 DEF StartAsync, MayCall, Launching, TypeOK
<1>4. CASE Infer(c) BY <1>1, <1>2, <1>4 DEF Infer, MayCall, Launching, TypeOK
<1>5. CASE Wait(c) BY <1>1, <1>2, <1>5 DEF Wait, MayCall, Launching, TypeOK
<1>6. CASE SetCallback(c) BY <1>1, <1>2, <1>6 DEF SetCallback, Launching, TypeOK
<1>7. CASE Access(c) BY <1>1, <1>2, <1>7 DEF Access, Launching, TypeOK
<1>8. CASE Capture(c) BY <1>1, <1>2, <1>8 DEF Capture, Launching, TypeOK
<1>9. ASSUME NEW op \in Ops, CheckState(c, op) PROVE IndInv'
  BY <1>1, <1>2, <1>9 DEF CheckState, MayCall, Launching, TypeOK
<1> QED BY <1>3, <1>4, <1>5, <1>6, <1>7, <1>8, <1>9

\* So do those that leave a method without having launched a run.
LEMMA LeaveKeepsInv ==
    ASSUME IndInv, TypeOK', NEW c \in Callers,
           \/ CheckBlobsThrows(c) \/ Refused(c) \/ WaitReturns(c) \/ WaitTimesOut(c)
           \/ RestoreSaved(c)
    PROVE  IndInv'
<1> USE DEF IndInv
<1>1. Leave(c) \/ Return(c)
  BY DEF CheckBlobsThrows, Refused, WaitReturns, WaitTimesOut, RestoreSaved
<1>2. pc[c] \in {"claim", "wait", "restore"}
  BY DEF CheckBlobsThrows, Refused, WaitReturns, WaitTimesOut, RestoreSaved
<1>3. UNCHANGED <<state, promise, futures, fut, pos, exc, taken, waited, hit>>
  BY DEF CheckBlobsThrows, Refused, WaitReturns, WaitTimesOut, RestoreSaved
<1> QED BY <1>1, <1>2, <1>3, LeaveQuiet, QuietStep DEF Launching

\* The last stage task is about to run, with or without an exception.
LEMMA StageKeepsInv ==
    ASSUME IndInv, TypeOK', NEW r \in Runs, pos[r] = "stage",
           pos' = [pos EXCEPT ![r] = "last"],
           \A s \in Runs : exc'[s] = "canceled" => s \in hit,
           UNCHANGED <<state, promise, futures, fut, taken, waited, hit, pc, myrun>>
    PROVE  IndInv'
<1> USE DEF IndInv, TypeOK
<1>1. \A s \in Runs : (InPipeline(s))' <=> InPipeline(s) BY DEF InPipeline
<1>2. \A s \in Runs : (Owner(s))' <=> Owner(s) BY <1>1 DEF Owner, Launching
<1>3. OneLauncher' BY DEF OneLauncher, Launching
<1>4. LauncherHoldsPromise' BY DEF LauncherHoldsPromise, Launching
<1>5. OneInPipeline' BY <1>1 DEF OneInPipeline
<1>6. PipelineHoldsPromise' BY DEF PipelineHoldsPromise
<1>7. LaunchOrPipeline' BY <1>1 DEF LaunchOrPipeline, Launching
<1>8. OwnerNotIdle' BY <1>2 DEF OwnerNotIdle
<1>9. PromiseIsOwn' BY DEF PromiseIsOwn
<1>10. FreshIsUnused' BY DEF FreshIsUnused
<1>11. PendingIsTracked' BY DEF PendingIsTracked
<1>12. CanceledWasHit' BY <1>2 DEF CanceledWasHit
<1>13. CancelHitsItsRun' BY DEF CancelHitsItsRun
<1> QED BY <1>3, <1>4, <1>5, <1>6, <1>7, <1>8, <1>9, <1>10, <1>11, <1>12, <1>13

\* A run that gave up _state calls its callback, and puts it back.
LEMMA CallbackKeepsInv ==
    ASSUME IndInv, TypeOK', NEW r \in Runs, CallbackReturns(r) \/ RestoreCallback(r)
    PROVE  IndInv'
<1> USE DEF IndInv, TypeOK
<1>0. /\ pos[r] \in {"callback", "returned"}
      /\ pos'[r] \in {"returned", "settle"}
      /\ \A s \in Runs \ {r} : pos'[s] = pos[s]
      /\ \A s \in Runs : exc'[s] = "canceled" => exc[s] = "canceled"
      /\ UNCHANGED <<state, promise, futures, fut, taken, waited, hit, pc, myrun>>
  BY DEF CallbackReturns, RestoreCallback
<1>1. \A s \in Runs : (InPipeline(s))' <=> InPipeline(s) BY <1>0 DEF InPipeline
<1>2. \A s \in Runs : (Owner(s))' <=> Owner(s) BY <1>0, <1>1 DEF Owner, Launching
<1>3. OneLauncher' BY <1>0 DEF OneLauncher, Launching
<1>4. LauncherHoldsPromise' BY <1>0 DEF LauncherHoldsPromise, Launching
<1>5. OneInPipeline' BY <1>1 DEF OneInPipeline
<1>6. PipelineHoldsPromise' BY <1>0 DEF PipelineHoldsPromise
<1>7. LaunchOrPipeline' BY <1>0, <1>1 DEF LaunchOrPipeline, Launching
<1>8. OwnerNotIdle' BY <1>0, <1>2 DEF OwnerNotIdle
<1>9. PromiseIsOwn' BY <1>0 DEF PromiseIsOwn
<1>10. FreshIsUnused' BY <1>0 DEF FreshIsUnused, PromiseIsOwn
<1>11. PendingIsTracked' BY <1>0 DEF PendingIsTracked
<1>12. CanceledWasHit' BY <1>0, <1>2 DEF CanceledWasHit
<1>13. CancelHitsItsRun' BY <1>0 DEF CancelHitsItsRun
<1> QED BY <1>3, <1>4, <1>5, <1>6, <1>7, <1>8, <1>9, <1>10, <1>11, <1>12, <1>13

\* The last stage task takes the promise out of the shared member: it is its own.
LEMMA TakePromiseKeepsInv ==
    ASSUME IndInv, TypeOK', NEW r \in Runs, TakePromise(r)
    PROVE  IndInv'
<1> USE DEF IndInv, TypeOK, TakePromise
<1>1. \A s \in Runs : (InPipeline(s))' <=> InPipeline(s) BY DEF InPipeline
<1>2. \A s \in Runs : (Owner(s))' <=> Owner(s) BY <1>1 DEF Owner, Launching
<1>3. InPipeline(r) BY DEF InPipeline
<1>4. \A c \in Callers : ~Launching(c) BY <1>3 DEF LaunchOrPipeline
<1>5. OneLauncher' BY DEF OneLauncher, Launching
<1>6. LauncherHoldsPromise' BY <1>4 DEF LauncherHoldsPromise, Launching
<1>7. OneInPipeline' BY <1>1 DEF OneInPipeline
<1>8. PipelineHoldsPromise' BY <1>3 DEF PipelineHoldsPromise, OneInPipeline, InPipeline
<1>9. LaunchOrPipeline' BY <1>1 DEF LaunchOrPipeline, Launching
<1>10. OwnerNotIdle' BY <1>2 DEF OwnerNotIdle
<1>11. PromiseIsOwn' BY DEF PromiseIsOwn, PipelineHoldsPromise
<1>12. FreshIsUnused' BY DEF FreshIsUnused
<1>13. PendingIsTracked' BY DEF PendingIsTracked
<1>14. CanceledWasHit' BY <1>2 DEF CanceledWasHit
<1>15. CancelHitsItsRun' BY DEF CancelHitsItsRun
<1> QED BY <1>5, <1>6, <1>7, <1>8, <1>9, <1>10, <1>11, <1>12, <1>13, <1>14, <1>15

\* The request is Idle again: the run that was in the pipeline was the only owner.
LEMMA GoIdleKeepsInv ==
    ASSUME IndInv, TypeOK', NEW r \in Runs, GoIdle(r)
    PROVE  IndInv'
<1> USE DEF IndInv, TypeOK, GoIdle
<1>1. InPipeline(r) BY DEF InPipeline
<1>2. \A c \in Callers : ~Launching(c) BY <1>1 DEF LaunchOrPipeline
<1>3. \A s \in Runs : ~(InPipeline(s))' BY <1>1 DEF OneInPipeline, InPipeline
<1>4. \A s \in Runs : ~(Owner(s))' BY <1>2, <1>3 DEF Owner, Launching
<1>5. OneLauncher' BY DEF OneLauncher, Launching
<1>6. LauncherHoldsPromise' BY <1>2 DEF LauncherHoldsPromise, Launching
<1>7. OneInPipeline' BY <1>3 DEF OneInPipeline
<1>8. PipelineHoldsPromise' BY DEF PipelineHoldsPromise
<1>9. LaunchOrPipeline' BY <1>3 DEF LaunchOrPipeline
<1>10. OwnerNotIdle' BY <1>4 DEF OwnerNotIdle
<1>11. PromiseIsOwn' BY DEF PromiseIsOwn
<1>12. FreshIsUnused' BY DEF FreshIsUnused
<1>13. PendingIsTracked' BY DEF PendingIsTracked
<1>14. CanceledWasHit' BY <1>4 DEF CanceledWasHit
<1>15. CancelHitsItsRun' BY DEF CancelHitsItsRun
<1> QED BY <1>5, <1>6, <1>7, <1>8, <1>9, <1>10, <1>11, <1>12, <1>13, <1>14, <1>15

\* The promise a run settles is its own, so no other run's future changes.
LEMMA SettleKeepsInv ==
    ASSUME IndInv, TypeOK', NEW r \in Runs, Settle(r)
    PROVE  IndInv'
<1> USE DEF IndInv, TypeOK, Settle, Outcome, Taken
<1>0. /\ taken[r] = r
      /\ fut[r] = "pending"
      /\ fut'[r] \in Settled
      /\ \A s \in Runs \ {r} : fut'[s] = fut[s] /\ pos'[s] = pos[s]
  BY DEF PromiseIsOwn
<1>1. \A s \in Runs : (InPipeline(s))' <=> InPipeline(s) BY DEF InPipeline
<1>2. \A s \in Runs : (Owner(s))' <=> Owner(s) BY <1>1 DEF Owner, Launching
<1>3. OneLauncher' BY DEF OneLauncher, Launching
<1>4. LauncherHoldsPromise' BY <1>0 DEF LauncherHoldsPromise, Launching
<1>5. OneInPipeline' BY <1>1 DEF OneInPipeline
<1>6. PipelineHoldsPromise' BY <1>0 DEF PipelineHoldsPromise
<1>7. LaunchOrPipeline' BY <1>1 DEF LaunchOrPipeline, Launching
<1>8. OwnerNotIdle' BY <1>2 DEF OwnerNotIdle
<1>9. PromiseIsOwn' BY <1>0 DEF PromiseIsOwn
<1>10. FreshIsUnused' BY <1>0 DEF FreshIsUnused
<1>11. PendingIsTracked' BY <1>0 DEF PendingIsTracked
<1>12. CanceledWasHit' BY <1>2 DEF CanceledWasHit
<1>13. CancelHitsItsRun' BY DEF CancelHitsItsRun
<1> QED BY <1>3, <1>4, <1>5, <1>6, <1>7, <1>8, <1>9, <1>10, <1>11, <1>12, <1>13

\* Cancel remembers every owner; it frees nothing.
LEMMA CancelKeepsInv ==
    ASSUME IndInv, TypeOK', NEW c \in Callers, Cancel(c)
    PROVE  IndInv'
<1> USE DEF IndInv, TypeOK, Cancel
<1>1. \A s \in Runs : (InPipeline(s))' <=> InPipeline(s) BY DEF InPipeline
<1>2. \A s \in Runs : (Owner(s))' <=> Owner(s) BY <1>1 DEF Owner, Launching
<1>3. OneLauncher' BY DEF OneLauncher, Launching
<1>4. LauncherHoldsPromise' BY DEF LauncherHoldsPromise, Launching
<1>5. OneInPipeline' BY <1>1 DEF OneInPipeline
<1>6. PipelineHoldsPromise' BY DEF PipelineHoldsPromise
<1>7. LaunchOrPipeline' BY <1>1 DEF LaunchOrPipeline, Launching
<1>8. OwnerNotIdle' BY <1>2 DEF OwnerNotIdle
<1>9. PromiseIsOwn' BY DEF PromiseIsOwn
<1>10. FreshIsUnused' BY DEF FreshIsUnused
<1>11. PendingIsTracked' BY DEF PendingIsTracked
<1>12. CanceledWasHit' BY <1>2 DEF CanceledWasHit
<1>13. CancelHitsItsRun' BY DEF CancelHitsItsRun
<1> QED BY <1>3, <1>4, <1>5, <1>6, <1>7, <1>8, <1>9, <1>10, <1>11, <1>12, <1>13

\* InferImpl claims an Idle request: no run owned it, and its run is a new one.
LEMMA ClaimKeepsInv ==
    ASSUME IndInv, TypeOK', NEW c \in Callers, Claim(c)
    PROVE  IndInv'
<1> USE DEF IndInv, TypeOK
<1>1. PICK r \in Runs :
        /\ fut[r] = "none"
        /\ state' = "Busy"
        /\ promise' = r
        /\ futures' = {f \in futures : fut[f] = "pending"} \cup {r}
        /\ fut' = [fut EXCEPT ![r] = "pending"]
        /\ myrun' = [myrun EXCEPT ![c] = r]
  BY DEF Claim, Free, Kept, Back
<1>2. /\ state = "Idle"
      /\ pc' = [pc EXCEPT ![c] = "launch"]
      /\ UNCHANGED <<pos, exc, taken, waited, hit>>
  BY DEF Claim, Free
<1>3. \A s \in Runs : ~Owner(s) BY <1>2 DEF OwnerNotIdle
<1>4. \A s \in Runs : ~InPipeline(s) /\ ~(InPipeline(s))'
  BY <1>2, <1>3 DEF Owner, InPipeline
<1>5. \A d \in Callers : ~Launching(d) BY <1>3 DEF Owner, LauncherHoldsPromise
<1>6. \A d \in Callers : pc'[d] \in {"launch", "unwind"} <=> d = c
  BY <1>2, <1>5 DEF Launching
<1>7. pos[r] = "none" BY <1>1 DEF FreshIsUnused
<1>8. OneLauncher' BY <1>6 DEF OneLauncher, Launching
<1>9. LauncherHoldsPromise' BY <1>1, <1>2, <1>6, <1>7 DEF LauncherHoldsPromise, Launching
<1>10. OneInPipeline' BY <1>4 DEF OneInPipeline
<1>11. PipelineHoldsPromise' BY <1>2, <1>4 DEF PipelineHoldsPromise, InPipeline
<1>12. LaunchOrPipeline' BY <1>4 DEF LaunchOrPipeline
<1>13. OwnerNotIdle' BY <1>1 DEF OwnerNotIdle
<1>14. PromiseIsOwn' BY <1>1, <1>2, <1>7 DEF PromiseIsOwn
<1>15. FreshIsUnused' BY <1>1, <1>2 DEF FreshIsUnused
<1>16. PendingIsTracked' BY <1>1, <1>2 DEF PendingIsTracked
<1>17. CanceledWasHit' BY <1>1 DEF CanceledWasHit
<1>18. CancelHitsItsRun' BY <1>2 DEF CancelHitsItsRun
<1> QED BY <1>8, <1>9, <1>10, <1>11, <1>12, <1>13, <1>14, <1>15, <1>16, <1>17, <1>18

\* After StopAndWait InferImpl only overwrites the state.
LEMMA ClaimStoppedKeepsInv ==
    ASSUME IndInv, TypeOK', NEW c \in Callers, ClaimStopped(c)
    PROVE  IndInv'
<1> USE DEF IndInv, TypeOK
<1>1. /\ state' = "Busy"
      /\ UNCHANGED <<promise, futures, fut, pos, exc, taken, waited, hit>>
      /\ pc[c] = "claim"
      /\ Proceed(c)
  BY DEF ClaimStopped
<1>2. \A d \in Callers : pc'[d] \in {"launch", "unwind"} =>
        pc'[d] = pc[d] /\ myrun'[d] = myrun[d]
  BY <1>1, LeaveQuiet DEF Launching
<1>3. \A s \in Runs : (InPipeline(s))' <=> InPipeline(s) BY <1>1 DEF InPipeline
<1>4. OneLauncher' BY <1>2 DEF OneLauncher, Launching
<1>5. LauncherHoldsPromise' BY <1>1, <1>2 DEF LauncherHoldsPromise, Launching
<1>6. OneInPipeline' BY <1>3 DEF OneInPipeline
<1>7. PipelineHoldsPromise' BY <1>1 DEF PipelineHoldsPromise
<1>8. LaunchOrPipeline' BY <1>2, <1>3 DEF LaunchOrPipeline, Launching
<1>9. OwnerNotIdle' BY <1>1 DEF OwnerNotIdle
<1>10. PromiseIsOwn' BY <1>1 DEF PromiseIsOwn
<1>11. FreshIsUnused' BY <1>1 DEF FreshIsUnused
<1>12. PendingIsTracked' BY <1>1 DEF PendingIsTracked
<1>13. CanceledWasHit' BY <1>1 DEF CanceledWasHit
<1>14. CancelHitsItsRun' BY <1>1 DEF CancelHitsItsRun
<1> QED BY <1>4, <1>5, <1>6, <1>7, <1>8, <1>9, <1>10, <1>11, <1>12, <1>13, <1>14

\* The first stage was accepted: ownership passes from the caller to the pipeline.
LEMMA LaunchKeepsInv ==
    ASSUME IndInv, TypeOK', NEW c \in Callers, Launch(c)
    PROVE  IndInv'
<1> USE DEF IndInv, TypeOK
<1>1. /\ pc[c] = "launch"
      /\ pos' = [pos EXCEPT ![myrun[c]] = "stage"]
      /\ UNCHANGED <<state, promise, futures, fut, exc, taken, waited, hit>>
      /\ Proceed(c)
  BY DEF Launch
<1>2. /\ Launching(c)
      /\ myrun[c] \in Runs
      /\ promise = myrun[c]
      /\ fut[myrun[c]] = "pending"
  BY <1>1 DEF Launching, LauncherHoldsPromise
<1>3. \A d \in Callers : pc'[d] \notin {"launch", "unwind"}
  BY <1>1, <1>2, LeaveQuiet DEF OneLauncher, Launching
<1>4. \A s \in Runs : (InPipeline(s))' <=> s = myrun[c]
  BY <1>1, <1>2 DEF InPipeline, LaunchOrPipeline
<1>5. \A s \in Runs : (Owner(s))' => Owner(s)
  BY <1>2, <1>3, <1>4 DEF Owner, Launching
<1>6. OneLauncher' BY <1>3 DEF OneLauncher, Launching
<1>7. LauncherHoldsPromise' BY <1>3 DEF LauncherHoldsPromise, Launching
<1>8. OneInPipeline' BY <1>4 DEF OneInPipeline
<1>9. PipelineHoldsPromise' BY <1>1, <1>2 DEF PipelineHoldsPromise, LaunchOrPipeline, InPipeline
<1>10. LaunchOrPipeline' BY <1>3 DEF LaunchOrPipeline, Launching
<1>11. OwnerNotIdle' BY <1>1, <1>5 DEF OwnerNotIdle
<1>12. PromiseIsOwn' BY <1>1 DEF PromiseIsOwn
<1>13. FreshIsUnused' BY <1>1, <1>2 DEF FreshIsUnused
<1>14. PendingIsTracked' BY <1>1 DEF PendingIsTracked
<1>15. CanceledWasHit' BY <1>1, <1>5 DEF CanceledWasHit
<1>16. CancelHitsItsRun' BY <1>1 DEF CancelHitsItsRun
<1> QED BY <1>6, <1>7, <1>8, <1>9, <1>10, <1>11, <1>12, <1>13, <1>14, <1>15, <1>16

\* It was not: the promise that is settled with the error is the caller's.
LEMMA LaunchThrowsKeepsInv ==
    ASSUME IndInv, TypeOK', NEW c \in Callers, LaunchThrows(c)
    PROVE  IndInv'
<1> USE DEF IndInv, TypeOK
<1>1. /\ pc[c] = "launch"
      /\ fut' = [fut EXCEPT ![promise] = "error"]
      /\ pc' = [pc EXCEPT ![c] = "unwind"]
      /\ UNCHANGED <<state, promise, futures, pos, exc, taken, waited, hit, myrun>>
  BY DEF LaunchThrows
<1>2. /\ Launching(c)
      /\ myrun[c] \in Runs
      /\ promise = myrun[c]
      /\ pos[promise] = "none"
      /\ fut[promise] = "pending"
  BY <1>1 DEF Launching, LauncherHoldsPromise
<1>3. \A d \in Callers : pc'[d] \in {"launch", "unwind"} <=> d = c
  BY <1>1, <1>2 DEF OneLauncher, Launching
<1>4. \A s \in Runs : (InPipeline(s))' <=> InPipeline(s) BY <1>1 DEF InPipeline
<1>5. \A s \in Runs : (Owner(s))' => Owner(s)
  BY <1>1, <1>2, <1>3, <1>4 DEF Owner, Launching
<1>6. OneLauncher' BY <1>3 DEF OneLauncher, Launching
<1>7. LauncherHoldsPromise' BY <1>1, <1>2, <1>3 DEF LauncherHoldsPromise, Launching
<1>8. OneInPipeline' BY <1>4 DEF OneInPipeline
<1>9. PipelineHoldsPromise' BY <1>1, <1>2 DEF PipelineHoldsPromise
<1>10. LaunchOrPipeline' BY <1>2, <1>3, <1>4 DEF LaunchOrPipeline, Launching
<1>11. OwnerNotIdle' BY <1>1, <1>5 DEF OwnerNotIdle
<1>12. PromiseIsOwn' BY <1>1, <1>2 DEF PromiseIsOwn
<1>13. FreshIsUnused' BY <1>1, <1>2 DEF FreshIsUnused
<1>14. PendingIsTracked' BY <1>1, <1>2 DEF PendingIsTracked
<1>15. CanceledWasHit' BY <1>1, <1>5 DEF CanceledWasHit
<1>16. CancelHitsItsRun' BY <1>1 DEF CancelHitsItsRun
<1> QED BY <1>6, <1>7, <1>8, <1>9, <1>10, <1>11, <1>12, <1>13, <1>14, <1>15, <1>16

\* The request is Idle again, and its only owner is gone.
LEMMA UnwindKeepsInv ==
    ASSUME IndInv, TypeOK', NEW c \in Callers, Unwind(c)
    PROVE  IndInv'
<1> USE DEF IndInv, TypeOK
<1>1. /\ pc[c] = "unwind"
      /\ state' = "Idle"
      /\ Leave(c)
      /\ UNCHANGED <<promise, futures, fut, pos, exc, taken, waited, hit>>
  BY DEF Unwind
<1>2. Launching(c) BY <1>1 DEF Launching
<1>3. \A d \in Callers : pc'[d] \notin {"launch", "unwind"}
  BY <1>1, <1>2, LeaveQuiet DEF OneLauncher, Launching
<1>4. \A s \in Runs : ~(InPipeline(s))' BY <1>1, <1>2 DEF InPipeline, LaunchOrPipeline
<1>5. \A s \in Runs : ~(Owner(s))' BY <1>3, <1>4 DEF Owner, Launching
<1>6. OneLauncher' BY <1>3 DEF OneLauncher, Launching
<1>7. LauncherHoldsPromise' BY <1>3 DEF LauncherHoldsPromise, Launching
<1>8. OneInPipeline' BY <1>4 DEF OneInPipeline
<1>9. PipelineHoldsPromise' BY <1>1 DEF PipelineHoldsPromise
<1>10. LaunchOrPipeline' BY <1>4 DEF LaunchOrPipeline
<1>11. OwnerNotIdle' BY <1>5 DEF OwnerNotIdle
<1>12. PromiseIsOwn' BY <1>1 DEF PromiseIsOwn
<1>13. FreshIsUnused' BY <1>1 DEF FreshIsUnused
<1>14. PendingIsTracked' BY <1>1 DEF PendingIsTracked
<1>15. CanceledWasHit' BY <1>5 DEF CanceledWasHit
<1>16. CancelHitsItsRun' BY <1>1 DEF CancelHitsItsRun
<1> QED BY <1>6, <1>7, <1>8, <1>9, <1>10, <1>11, <1>12, <1>13, <1>14, <1>15, <1>16

\* StopAndWait moves the futures to where it waits for them.
LEMMA StopKeepsInv ==
    ASSUME IndInv, TypeOK', StopAndWait
    PROVE  IndInv'
<1> USE DEF IndInv, TypeOK
<1>1. /\ state' = "Stop"
      /\ waited' \cup futures' = waited \cup futures
      /\ UNCHANGED <<promise, fut, pos, exc, taken, hit, pc, myrun>>
  BY DEF StopAndWait, AllFutures
<1>2. \A s \in Runs : (InPipeline(s))' <=> InPipeline(s) BY <1>1 DEF InPipeline
<1>3. OneLauncher' BY <1>1 DEF OneLauncher, Launching
<1>4. LauncherHoldsPromise' BY <1>1 DEF LauncherHoldsPromise, Launching
<1>5. OneInPipeline' BY <1>2 DEF OneInPipeline
<1>6. PipelineHoldsPromise' BY <1>1 DEF PipelineHoldsPromise
<1>7. LaunchOrPipeline' BY <1>1, <1>2 DEF LaunchOrPipeline, Launching
<1>8. OwnerNotIdle' BY <1>1 DEF OwnerNotIdle
<1>9. PromiseIsOwn' BY <1>1 DEF PromiseIsOwn
<1>10. FreshIsUnused' BY <1>1 DEF FreshIsUnused
<1>11. PendingIsTracked' BY <1>1 DEF PendingIsTracked
<1>12. CanceledWasHit' BY <1>1 DEF CanceledWasHit
<1>13. CancelHitsItsRun' BY <1>1 DEF CancelHitsItsRun
<1> QED BY <1>3, <1>4, <1>5, <1>6, <1>7, <1>8, <1>9, <1>10, <1>11, <1>12, <1>13

\* Every part of the inductive invariant holds when the request was constructed.
LEMMA IndInvInit == ASSUME Init PROVE IndInv
<1>1. TypeOK BY TypeInit
<1>2. \A c \in Callers : ~Launching(c) BY DEF Init, Launching
<1>3. \A r \in Runs : pos[r] = "none" /\ fut[r] = "none" /\ exc[r] = "none" BY DEF Init
<1>4. \A r \in Runs : ~InPipeline(r) /\ ~Owner(r) BY <1>2, <1>3 DEF InPipeline, Owner
<1> QED
  BY <1>1, <1>2, <1>3, <1>4
  DEF IndInv, OneLauncher, LauncherHoldsPromise, OneInPipeline, PipelineHoldsPromise,
      LaunchOrPipeline, OwnerNotIdle, PromiseIsOwn, FreshIsUnused, PendingIsTracked,
      CanceledWasHit, CancelHitsItsRun

\* Every step of the request keeps it.
LEMMA IndInvNext == ASSUME IndInv, [Next]_vars PROVE IndInv'
<1>1. TypeOK /\ TypeOK' BY TypeNext DEF IndInv
<1>2. ASSUME NEW r \in Runs, RunStep(r) PROVE IndInv'
  <2>1. CASE StageReturns(r)
    <3>1. CASE ~IsLastStage(r)
      BY <1>1, <2>1, <3>1, QuietStep DEF StageReturns, Launching
    <3>2. CASE IsLastStage(r)
      BY <1>1, <2>1, <3>2, StageKeepsInv DEF StageReturns, IndInv, CancelHitsItsRun
    <3> HIDE DEF Positions, InferState
    <3> QED BY <3>1, <3>2, ZenonT(30)
  <2>2. CASE StageThrows(r)
    <3>1. \A s \in Runs : exc'[s] = "canceled" => s \in hit
      BY <2>2, <1>1 DEF StageThrows, IndInv, CancelHitsItsRun, TypeOK
    <3> QED BY <1>1, <2>2, <3>1, StageKeepsInv DEF StageThrows
  <2>3. CASE StageCanceled(r)
    <3>1. r \in hit BY <2>3 DEF StageCanceled, IndInv, CanceledWasHit, Owner, InPipeline
    <3>2. \A s \in Runs : exc'[s] = "canceled" => s \in hit
      BY <2>3, <1>1, <3>1 DEF StageCanceled, IndInv, CancelHitsItsRun, TypeOK
    <3> QED BY <1>1, <2>3, <3>2, StageKeepsInv DEF StageCanceled
  <2> QED
    BY <1>1, <1>2, <2>1, <2>2, <2>3, TakePromiseKeepsInv, GoIdleKeepsInv, CallbackKeepsInv,
       SettleKeepsInv
    DEF RunStep
<1>3. ASSUME NEW c \in Callers, Call(c) PROVE IndInv'
  BY <1>1, <1>3, CallKeepsInv, CancelKeepsInv DEF Call
<1>4. ASSUME NEW c \in Callers, CallerStep(c) PROVE IndInv'
  BY <1>1, <1>4, CallKeepsInv, LeaveKeepsInv, ClaimKeepsInv, ClaimStoppedKeepsInv,
     LaunchKeepsInv, LaunchThrowsKeepsInv, UnwindKeepsInv
  DEF CallerStep
<1>5. CASE StopAndWait BY <1>1, <1>5, StopKeepsInv
<1>6. CASE StopReturns BY <1>1, <1>6, QuietStep DEF StopReturns, Launching
<1>7. CASE UNCHANGED vars BY <1>1, <1>7, QuietStep DEF vars, Launching
<1> QED BY <1>2, <1>3, <1>4, <1>5, <1>6, <1>7 DEF Next

\* The members, the locals of the callers and of the tasks keep their types.
THEOREM TypeCorrect == Spec => []TypeOK
<1>1. Init => TypeOK BY TypeInit
<1>2. TypeOK /\ [Next]_vars => TypeOK' BY TypeNext
<1> QED BY <1>1, <1>2, PTL DEF Spec

\* The inductive invariant: whoever launches a run or carries it through the
\* pipeline is alone, holds the shared promise, and keeps _state away from Idle.
THEOREM Invariance == Spec => []IndInv
<1>1. Init => IndInv BY IndInvInit
<1>2. IndInv /\ [Next]_vars => IndInv' BY IndInvNext
<1> QED BY <1>1, <1>2, PTL DEF Spec

\* At most one run is in the pipeline of a request, whatever StartAsync, Infer,
\* Cancel, StopAndWait, failing executors and restarting callbacks do together.
THEOREM OneRunAtATime == Spec => []PipelineExclusive
<1>1. IndInv => PipelineExclusive
  BY DEF IndInv, TypeOK, PipelineExclusive, Owner, OneInPipeline, LaunchOrPipeline, OneLauncher
<1> QED BY <1>1, Invariance, PTL

\* The promise a last stage task took out of _promise is the one of its own run.
THEOREM NoStolenPromise == Spec => []PromiseIsOwn
<1>1. IndInv => PromiseIsOwn BY DEF IndInv
<1> QED BY <1>1, Invariance, PTL

\* InferImpl's pruning of _futures never loses the future of a run in flight.
THEOREM NoLostFuture == Spec => []PendingIsTracked
<1>1. IndInv => PendingIsTracked BY DEF IndInv
<1> QED BY <1>1, Invariance, PTL

\* InferCancelled reaches only runs that were in flight when Cancel was called.
THEOREM CancelIsPrecise == Spec => []CancelHitsItsRun
<1>1. IndInv => CancelHitsItsRun BY DEF IndInv
<1> QED BY <1>1, Invariance, PTL

\* No step changes the future of a run that is settled.
LEMMA SettledStays ==
    ASSUME IndInv, [Next]_vars, NEW r \in Runs, fut[r] \in Settled
    PROVE  fut'[r] = fut[r]
<1> USE DEF IndInv, TypeOK
<1>1. ASSUME NEW s \in Runs, RunStep(s) PROVE fut'[r] = fut[r]
  <2>1. CASE Settle(s) BY <2>1 DEF Settle, Outcome, Taken, PromiseIsOwn
  <2> QED
    BY <1>1, <2>1
    DEF RunStep, StageReturns, IsLastStage, StageThrows, StageCanceled, TakePromise, GoIdle,
        CallbackReturns, RestoreCallback
<1>2. ASSUME NEW c \in Callers, Call(c) PROVE fut'[r] = fut[r]
  BY <1>2 DEF Call, StartAsync, Infer, Wait, Cancel, CheckState
<1>3. ASSUME NEW c \in Callers, CallerStep(c) PROVE fut'[r] = fut[r]
  <2>1. CASE Claim(c) BY <2>1 DEF Claim
  <2>2. CASE LaunchThrows(c) BY <2>2 DEF LaunchThrows, LauncherHoldsPromise, Launching
  <2> QED
    BY <1>3, <2>1, <2>2
    DEF CallerStep, CheckBlobsThrows, Refused, ClaimStopped, Launch, Unwind, Capture,
        WaitReturns, WaitTimesOut, RestoreSaved, SetCallback, Access
<1>4. CASE StopAndWait BY <1>4 DEF StopAndWait
<1>5. CASE StopReturns BY <1>5 DEF StopReturns
<1>6. CASE UNCHANGED vars BY <1>6 DEF vars
<1> QED BY <1>1, <1>2, <1>3, <1>4, <1>5, <1>6 DEF Next

\* No promise is settled twice: neither by two runs, nor by a caller whose first
\* stage failed and a last stage task.
THEOREM OneOutcome == Spec => SettlesOnce
<1>1. IndInv /\ [Next]_vars => [\A r \in Runs : fut[r] \in Settled => fut'[r] = fut[r]]_fut
  BY SettledStays
<1> QED BY <1>1, Invariance, PTL DEF Spec, SettlesOnce
-----------------------------------------------------------------------------
\* StopAndWait returns when the futures it took are settled, and they stay so.
WaitedIsSettled ==
    life \in {"released", "destroyed"} => \A r \in waited : fut[r] \in Settled

\* Only the two destructors change life and the futures waited for.
LEMMA WaitedNext ==
    ASSUME IndInv, WaitedIsSettled, [Next]_vars
    PROVE  WaitedIsSettled'
<1> USE DEF IndInv, TypeOK
<1>1. ASSUME UNCHANGED <<life, waited>> PROVE WaitedIsSettled'
  BY <1>1, SettledStays DEF WaitedIsSettled
<1>2. ASSUME NEW r \in Runs, RunStep(r) PROVE UNCHANGED <<life, waited>>
  BY <1>2
  DEF RunStep, StageReturns, StageThrows, StageCanceled, TakePromise, GoIdle,
      CallbackReturns, RestoreCallback, Settle
<1>3. ASSUME NEW c \in Callers, Call(c) \/ CallerStep(c) PROVE UNCHANGED <<life, waited>>
  BY <1>3
  DEF Call, CallerStep, StartAsync, Infer, Wait, Cancel, CheckState, CheckBlobsThrows,
      Refused, Claim, ClaimStopped, Launch, LaunchThrows, Unwind, Capture, WaitReturns,
      WaitTimesOut, RestoreSaved, SetCallback, Access
<1>4. CASE StopAndWait BY <1>4 DEF StopAndWait, WaitedIsSettled
<1>5. CASE StopReturns BY <1>5 DEF StopReturns, WaitedIsSettled
<1>6. CASE UNCHANGED vars BY <1>1, <1>6 DEF vars
<1> QED BY <1>1, <1>2, <1>3, <1>4, <1>5, <1>6 DEF Next

\* When StopAndWait returned, no task and no callback of a run started before it
\* is left.
THEOREM StopIsQuiet == Spec => []QuietAfterStop
<1>1. Init => WaitedIsSettled BY DEF Init, WaitedIsSettled
<1>2. WaitedIsSettled /\ IndInv /\ [Next]_vars => WaitedIsSettled' BY WaitedNext
<1>3. WaitedIsSettled /\ IndInv => QuietAfterStop
  <2> SUFFICES ASSUME WaitedIsSettled, IndInv, life \in {"released", "destroyed"},
                      NEW r \in Runs \ futures
               PROVE  pos[r] \in {"none", "done"}
    BY DEF QuietAfterStop
  <2>1. fut[r] # "pending" BY DEF WaitedIsSettled, IndInv, PendingIsTracked
  <2> QED BY <2>1 DEF IndInv, TypeOK, PipelineHoldsPromise, PromiseIsOwn
<1> QED BY <1>1, <1>2, <1>3, Invariance, PTL DEF Spec
-----------------------------------------------------------------------------
(* The request implements RequestContract.                                  *)

\* Active is the owner, which is unique.
LEMMA OwnerUnique ==
    ASSUME IndInv, NEW r \in Runs, NEW s \in Runs, Owner(r), Owner(s) PROVE r = s
BY DEF IndInv, TypeOK, Owner, OneInPipeline, LaunchOrPipeline, OneLauncher

\* A run that owns _state is the one the contract calls active.
LEMMA ActiveIsOwner == ASSUME IndInv, NEW r \in Runs, Owner(r) PROVE Active = r
<1>1. \A s \in Runs : Owner(s) => s = r BY OwnerUnique
<1> QED BY <1>1 DEF Active

\* A request nobody owns is free.
LEMMA NoOwnerNoActive == ASSUME \A r \in Runs : ~Owner(r) PROVE Active = NoRun
BY DEF Active

\* A step that changes neither the owner nor a future is not seen.
LEMMA SameOwnerStutters ==
    ASSUME IndInv, UNCHANGED fut, \A r \in Runs : (Owner(r))' <=> Owner(r)
    PROVE  UNCHANGED <<Active, fut>>
<1>1. CASE \E r \in Runs : Owner(r)
  <2> PICK r \in Runs : Owner(r) BY <1>1
  <2>1. Active = r BY ActiveIsOwner
  <2>2. \A s \in Runs : (Owner(s))' <=> s = r BY OwnerUnique
  <2>3. Active' = r BY <2>2 DEF Active
  <2> QED BY <2>1, <2>3
<1>2. CASE \A r \in Runs : ~Owner(r)
  <2>1. Active = NoRun BY <1>2, NoOwnerNoActive
  <2>2. \A r \in Runs : ~(Owner(r))' BY <1>2
  <2>3. Active' = NoRun BY <2>2 DEF Active
  <2> QED BY <2>1, <2>3
<1> QED BY <1>1, <1>2

\* Claim starts a run of the contract.
LEMMA ClaimStarts ==
    ASSUME IndInv, NEW c \in Callers, Claim(c)
    PROVE  \E r \in Runs : Contract!Start(r)
<1> USE DEF IndInv, TypeOK
<1>1. PICK r \in Runs :
        /\ fut[r] = "none"
        /\ fut' = [fut EXCEPT ![r] = "pending"]
        /\ myrun' = [myrun EXCEPT ![c] = r]
  BY DEF Claim, Free, Kept, Back
<1>2. state = "Idle" /\ pc' = [pc EXCEPT ![c] = "launch"] /\ UNCHANGED pos BY DEF Claim, Free
<1>3. \A s \in Runs : ~Owner(s) BY <1>2 DEF OwnerNotIdle
<1>4. Active = NoRun BY <1>3, NoOwnerNoActive
<1>5. \A d \in Callers : pc'[d] \in {"launch", "unwind"} <=> d = c
  BY <1>2, <1>3 DEF Launching, Owner, LauncherHoldsPromise
<1>6. \A s \in Runs : (InPipeline(s))' <=> InPipeline(s) BY <1>2 DEF InPipeline
<1>7. \A s \in Runs : (Owner(s))' <=> s = r
  BY <1>1, <1>3, <1>5, <1>6 DEF Owner, Launching
<1>8. Active' = r BY <1>7 DEF Active
<1> QED BY <1>1, <1>4, <1>8 DEF Contract!Start

\* A step after which the only owner is gone frees the request.
LEMMA OwnerGoneFrees ==
    ASSUME IndInv, UNCHANGED fut, NEW r \in Runs, Owner(r), \A s \in Runs : ~(Owner(s))'
    PROVE  Contract!Free
<1>1. Active = r BY ActiveIsOwner
<1>2. Active' = NoRun BY DEF Active
<1>3. r # NoRun BY RequestAssumption
<1> QED BY <1>1, <1>2, <1>3 DEF Contract!Free

\* The steps of a run: only GoIdle and Settle are seen.
LEMMA RunStepSimulates ==
    ASSUME IndInv, NEW r \in Runs, RunStep(r)
    PROVE  [Contract!Next]_(Contract!vars)
<1> USE DEF IndInv, TypeOK
<1>1. ASSUME UNCHANGED <<fut, pc, myrun>>, \A s \in Runs : (InPipeline(s))' <=> InPipeline(s)
      PROVE  UNCHANGED Contract!vars
  <2>1. \A s \in Runs : (Owner(s))' <=> Owner(s) BY <1>1 DEF Owner, Launching
  <2> QED BY <1>1, <2>1, SameOwnerStutters DEF Contract!vars
<1>2. CASE StageReturns(r) BY <1>1, <1>2 DEF StageReturns, IsLastStage, InPipeline
<1>3. CASE StageThrows(r) BY <1>1, <1>3 DEF StageThrows, InPipeline
<1>4. CASE StageCanceled(r) BY <1>1, <1>4 DEF StageCanceled, InPipeline
<1>5. CASE TakePromise(r) BY <1>1, <1>5 DEF TakePromise, InPipeline
<1>6. CASE CallbackReturns(r) BY <1>1, <1>6 DEF CallbackReturns, InPipeline
<1>7. CASE RestoreCallback(r) BY <1>1, <1>7 DEF RestoreCallback, InPipeline
<1>8. CASE GoIdle(r)
  <2>1. InPipeline(r) /\ Owner(r) BY <1>8 DEF GoIdle, InPipeline, Owner
  <2>2. \A c \in Callers : ~Launching(c) BY <2>1 DEF LaunchOrPipeline
  <2>3. \A s \in Runs : ~(InPipeline(s))' BY <1>8, <2>1 DEF OneInPipeline, InPipeline, GoIdle
  <2>4. \A s \in Runs : ~(Owner(s))' BY <1>8, <2>2, <2>3 DEF Owner, Launching, GoIdle
  <2>5. Contract!Free BY <1>8, <2>1, <2>4, OwnerGoneFrees DEF GoIdle
  <2> QED BY <2>5 DEF Contract!Next
<1>9. CASE Settle(r)
  <2>1. taken[r] = r /\ fut[r] = "pending" BY <1>9 DEF Settle, Outcome, Taken, PromiseIsOwn
  <2>2. ~Owner(r)
    <3>1. ~InPipeline(r) BY <1>9 DEF Settle, Outcome, Taken, InPipeline
    <3>2. \A c \in Callers : ~(Launching(c) /\ myrun[c] = r)
      BY <1>9 DEF Settle, Outcome, Taken, LauncherHoldsPromise
    <3> QED BY <3>1, <3>2 DEF Owner
  <2>3. Active # r
    <3>1. CASE \E s \in Runs : Owner(s)
      <4> PICK s \in Runs : Owner(s) BY <3>1
      <4>1. Active = s BY ActiveIsOwner
      <4> QED BY <4>1, <2>2
    <3>2. CASE \A s \in Runs : ~Owner(s) BY <3>2, NoOwnerNoActive, RequestAssumption
    <3> HIDE DEF Positions, InferState
    <3> QED BY <3>1, <3>2, ZenonT(30)
  <2>4. \A s \in Runs : (Owner(s))' <=> Owner(s)
    <3>1. \A s \in Runs : (InPipeline(s))' <=> InPipeline(s) BY <1>9 DEF Settle, Outcome, Taken, InPipeline
    <3> QED BY <1>9, <3>1 DEF Settle, Outcome, Taken, Owner, Launching
  <2>5. UNCHANGED Active BY <2>4 DEF Active
  <2>6. \E o \in {"value", "error"} : fut' = [fut EXCEPT ![r] = o] BY <1>9, <2>1 DEF Settle, Outcome, Taken
  <2>7. Contract!Deliver(r) BY <2>1, <2>3, <2>5, <2>6 DEF Contract!Deliver
  <2> QED BY <2>7 DEF Contract!Next
<1> QED BY <1>2, <1>3, <1>4, <1>5, <1>6, <1>7, <1>8, <1>9 DEF RunStep

\* The steps of a caller: only Claim, LaunchThrows and Unwind are seen.
LEMMA CallerSimulates ==
    ASSUME IndInv, NEW c \in Callers, Call(c) \/ CallerStep(c)
    PROVE  [Contract!Next]_(Contract!vars)
<1> USE DEF IndInv, TypeOK
<1>1. ASSUME \A s \in Runs : (InPipeline(s))' <=> InPipeline(s),
             \A d \in Callers : /\ Launching(d)' <=> Launching(d)
                                /\ Launching(d) => myrun'[d] = myrun[d],
             UNCHANGED fut
      PROVE  UNCHANGED Contract!vars
  <2>1. \A s \in Runs : (Owner(s))' <=> Owner(s) BY <1>1 DEF Owner, Launching
  <2> QED BY <1>1, <2>1, SameOwnerStutters DEF Contract!vars
<1>2. ASSUME UNCHANGED <<fut, pos>>, pc[c] \notin {"launch", "unwind"},
             \/ Leave(c) \/ Proceed(c) \/ Return(c)
             \/ /\ pc'[c] \notin {"launch", "unwind"}
                /\ \A d \in Callers \ {c} : pc'[d] = pc[d] /\ myrun'[d] = myrun[d]
      PROVE  UNCHANGED Contract!vars
  <2>1. /\ pc'[c] \notin {"launch", "unwind"}
        /\ \A d \in Callers \ {c} : pc'[d] = pc[d] /\ myrun'[d] = myrun[d]
    BY <1>2, LeaveQuiet
  <2> QED BY <1>1, <1>2, <2>1 DEF InPipeline, Launching
<1>3. CASE Call(c)
  <2>1. UNCHANGED <<fut, pos>> /\ pc'[c] \notin {"launch", "unwind"}
    BY <1>3 DEF Call, StartAsync, Infer, Wait, Cancel, CheckState, MayCall
  <2>2. pc[c] \notin {"launch", "unwind"}
    BY <1>3 DEF Call, StartAsync, Infer, Wait, Cancel, CheckState, MayCall
  <2>3. \A d \in Callers \ {c} : pc'[d] = pc[d] /\ myrun'[d] = myrun[d]
    BY <1>3 DEF Call, StartAsync, Infer, Wait, Cancel, CheckState
  <2> QED BY <1>2, <2>1, <2>2, <2>3
<1>4. CASE CheckBlobsThrows(c) BY <1>2, <1>4 DEF CheckBlobsThrows
<1>5. CASE Refused(c) BY <1>2, <1>5 DEF Refused
<1>6. CASE ClaimStopped(c) BY <1>2, <1>6 DEF ClaimStopped
<1>7. CASE Capture(c) BY <1>2, <1>7 DEF Capture
<1>8. CASE WaitReturns(c) BY <1>2, <1>8 DEF WaitReturns
<1>9. CASE WaitTimesOut(c) BY <1>2, <1>9 DEF WaitTimesOut
<1>10. CASE RestoreSaved(c) BY <1>2, <1>10 DEF RestoreSaved
<1>11. CASE SetCallback(c) BY <1>2, <1>11 DEF SetCallback
<1>12. CASE Access(c) BY <1>2, <1>12 DEF Access
<1>13. CASE Claim(c) BY <1>13, ClaimStarts DEF Contract!Next
<1>14. CASE Launch(c)
  <2>1. /\ Launching(c)
        /\ myrun[c] \in Runs
        /\ pos' = [pos EXCEPT ![myrun[c]] = "stage"]
        /\ UNCHANGED fut
        /\ Proceed(c)
    BY <1>14 DEF Launch, Launching, LauncherHoldsPromise
  <2>2. \A d \in Callers : pc'[d] \notin {"launch", "unwind"}
    BY <2>1, LeaveQuiet DEF OneLauncher, Launching
  <2>3. \A s \in Runs : (InPipeline(s))' <=> s = myrun[c]
    BY <2>1 DEF InPipeline, LaunchOrPipeline
  <2>4. \A s \in Runs : (Owner(s))' <=> s = myrun[c]
    BY <2>2, <2>3 DEF Owner, Launching
  <2>5. \A s \in Runs : Owner(s) <=> s = myrun[c]
    BY <2>1, OwnerUnique DEF Owner
  <2>6. UNCHANGED <<Active, fut>> BY <2>1, <2>4, <2>5, SameOwnerStutters
  <2> QED BY <2>6 DEF Contract!vars
<1>15. CASE LaunchThrows(c)
  <2>1. /\ Launching(c)
        /\ promise \in Runs
        /\ promise = myrun[c]
        /\ fut[promise] = "pending"
        /\ fut' = [fut EXCEPT ![promise] = "error"]
    BY <1>15 DEF LaunchThrows, Launching, LauncherHoldsPromise
  <2>2. Active = promise BY <2>1, ActiveIsOwner DEF Owner
  <2>3. \A d \in Callers : pc'[d] \in {"launch", "unwind"} <=> pc[d] \in {"launch", "unwind"}
    BY <1>15 DEF LaunchThrows
  <2>4. \A s \in Runs : (InPipeline(s))' <=> InPipeline(s)
    BY <1>15 DEF LaunchThrows, InPipeline
  <2>5. \A s \in Runs : (Owner(s))' <=> Owner(s)
    BY <1>15, <2>3, <2>4 DEF LaunchThrows, Owner, Launching
  <2>6. UNCHANGED Active BY <2>5 DEF Active
  <2>7. Contract!StartFails(promise) BY <2>1, <2>2, <2>6 DEF Contract!StartFails
  <2> QED BY <2>1, <2>7 DEF Contract!Next
<1>16. CASE Unwind(c)
  <2>1. Launching(c) /\ myrun[c] \in Runs /\ Leave(c) /\ UNCHANGED <<fut, pos>>
    BY <1>16 DEF Unwind, Launching, LauncherHoldsPromise
  <2>2. \A d \in Callers : pc'[d] \notin {"launch", "unwind"}
    BY <2>1, LeaveQuiet DEF OneLauncher, Launching
  <2>3. \A s \in Runs : ~(InPipeline(s))' BY <2>1 DEF InPipeline, LaunchOrPipeline
  <2>4. \A s \in Runs : ~(Owner(s))' BY <2>2, <2>3 DEF Owner, Launching
  <2>5. Owner(myrun[c]) BY <2>1 DEF Owner
  <2>6. Contract!Free BY <2>1, <2>4, <2>5, OwnerGoneFrees
  <2> QED BY <2>6 DEF Contract!Next
<1> QED BY <1>3, <1>4, <1>5, <1>6, <1>7, <1>8, <1>9, <1>10, <1>11, <1>12, <1>13, <1>14,
           <1>15, <1>16 DEF CallerStep

\* The request serves one run at a time, gives every run one outcome, and is free
\* again before that outcome can be seen, unless the run could not be started.
THEOREM Refinement == Spec => ImplementsContract
<1>1. Init => Contract!Init
  <2> SUFFICES ASSUME Init PROVE Contract!Init OBVIOUS
  <2>1. \A r \in Runs : ~Owner(r) BY DEF Init, Owner, InPipeline, Launching
  <2> QED BY <2>1, NoOwnerNoActive DEF Init, Contract!Init
<1>2. IndInv /\ [Next]_vars => [Contract!Next]_(Contract!vars)
  <2> SUFFICES ASSUME IndInv, [Next]_vars PROVE [Contract!Next]_(Contract!vars) OBVIOUS
  <2>1. ASSUME UNCHANGED <<fut, pos, pc, myrun>> PROVE UNCHANGED Contract!vars
    <3>1. \A r \in Runs : (Owner(r))' <=> Owner(r) BY <2>1 DEF Owner, InPipeline, Launching
    <3> QED BY <2>1, <3>1, SameOwnerStutters DEF Contract!vars
  <2>2. CASE StopAndWait BY <2>1, <2>2 DEF StopAndWait
  <2>3. CASE StopReturns BY <2>1, <2>3 DEF StopReturns
  <2>4. CASE UNCHANGED vars BY <2>1, <2>4 DEF vars
  <2> QED BY <2>2, <2>3, <2>4, RunStepSimulates, CallerSimulates DEF Next
<1> QED BY <1>1, <1>2, Invariance, PTL DEF Spec, ImplementsContract, Contract!Spec
=============================================================================
