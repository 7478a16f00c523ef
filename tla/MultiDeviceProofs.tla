------------------------- MODULE MultiDeviceProofs -------------------------
(***************************************************************************)
(* Theorems about MultiDevice, for any requests, devices and workers, in   *)
(* MULTI mode and in AUTO mode.                                            *)
(***************************************************************************)
EXTENDS MultiDevice, FiniteSetTheorems, SequenceTheorems, TLAPS

USE DEF locals, pool, network, user, auto, Threads

(***************************************************************************)
(* The inductive invariant.                                                *)
(***************************************************************************)

Scheduled == {"pick", "try", "hold"}
Queues == Devices \cup {NoDevice}
Before == {"constructing", "waiting"}
Leaving == {"leaving", "closing", "gone"}

\* Where a thread is agrees with its local variables.
Local(t) ==
    /\ at[t] \in Scheduled <=> task[t] # None
    /\ at[t] = "hold" <=> popped[t] # None
    /\ at[t] \notin Scheduled =>
            preferred[t] = NoDevice /\ devices[t] = <<>> /\ back[t] = "out"
    /\ t \in Requests => at[t] \in Scheduled \cup {"out"} /\ back[t] = "out"
    /\ t \in Workers =>
            /\ at[t] \in Scheduled => back[t] \in {"release", "restore"}
            /\ t \in callback <=> at[t] = "out"
            /\ at[t] = "cb" => work[t] # None
Locals == \A t \in Threads : Local(t)

\* A task is in one place, and belongs to a request that was started.
TaskUnique ==
    /\ \A p, q \in Queues : \A i \in 1..Len(tasks[p]), j \in 1..Len(tasks[q]) :
            tasks[p][i] = tasks[q][j] => p = q /\ i = j
    /\ \A t, u \in Threads : task[t] # None /\ task[t] = task[u] => t = u
    /\ \A v, w \in Workers : work[v] # None /\ work[v] = work[w] => v = w
    /\ \A q \in Queues : \A i \in 1..Len(tasks[q]) :
            /\ \A t \in Threads : task[t] # tasks[q][i]
            /\ \A w \in Workers : work[w] # tasks[q][i]
    /\ \A t \in Threads, w \in Workers : task[t] # None => work[w] # task[t]

TaskOfBusy ==
    /\ \A q \in Queues : \A i \in 1..Len(tasks[q]) : tasks[q][i] \in busy
    /\ \A t \in Threads : task[t] # None => task[t] \in busy
    /\ \A w \in Workers : work[w] # None => work[w] \in busy

InQueue(r) == \E q \in Queues : \E i \in 1..Len(tasks[q]) : tasks[q][i] = r
InThread(r) == \E t \in Threads : task[t] = r
InWorker(r) == \E w \in Workers : work[w] = r
HasTask(r) == InQueue(r) \/ InThread(r) \/ InWorker(r)
BusyHasTask == \A r \in busy : HasTask(r)

TaskInv == TaskUnique /\ TaskOfBusy /\ BusyHasTask

\* A worker is in one place, and idle on its own device.
InCallback(w) == at[w] = "release" \/ back[w] = "release"
IsIdle(w) == \E d \in Devices : \E i \in 1..Len(idle[d]) : idle[d][i] = w
IsHeld(w) == \E t \in Threads : popped[t] = w

WorkerUnique ==
    /\ \A d \in Devices : \A i \in 1..Len(idle[d]) : DeviceOf[idle[d][i]] = d
    /\ \A d \in Devices : \A i, j \in 1..Len(idle[d]) : idle[d][i] = idle[d][j] => i = j
    /\ \A t, u \in Threads : popped[t] # None /\ popped[t] = popped[u] => t = u
    /\ \A w \in Workers : IsIdle(w) => ~IsHeld(w) /\ work[w] = None /\ ~InCallback(w)
    /\ \A w \in Workers : IsHeld(w) => work[w] = None /\ ~InCallback(w)
    /\ \A w \in Workers : InCallback(w) => work[w] = None

WorkerSomewhere ==
    \A w \in Workers : closed = {} /\ w \notin failed /\ Loaded(DeviceOf[w]) =>
        IsIdle(w) \/ IsHeld(w) \/ work[w] # None \/ InCallback(w)

\* The workers of a network that is not there yet are nowhere.
Unloaded ==
    \A w \in Workers : ~Loaded(DeviceOf[w]) =>
        ~IsIdle(w) /\ ~IsHeld(w) /\ work[w] = None /\ ~InCallback(w)

WorkerInv == WorkerUnique /\ WorkerSomewhere /\ Unloaded

\* A task goes where its request's blobs are.
Wanted ==
    /\ \A q \in Queues : \A i \in 1..Len(tasks[q]) : wanted[tasks[q][i]] = q
    /\ \A t \in Threads : task[t] # None => wanted[task[t]] = preferred[t]
    /\ \A t \in Threads : preferred[t] # NoDevice =>
            \A i \in 1..Len(devices[t]) : devices[t][i] = preferred[t]
    /\ \A t \in Threads : popped[t] # None => preferred[t] \in {NoDevice, DeviceOf[popped[t]]}
    /\ RunsWherePreferred
    /\ selected # {} => \A r \in Requests : wanted[r] \in {NoDevice, Accelerator}

\* What the flag and the futures of AUTO mode tell.
Loads ==
    /\ selected = {} => \A d \in Devices : load[d] = "ready"
    /\ \A d \in Devices : load[d] # "none" => selected = {} \/ d \in selected
    /\ load[Cpu] # "generated"
    /\ selected # {} /\ alreadyActual => Loaded(Accelerator)
    /\ phase \in Before => /\ selected # {} /\ valid = selected \ {Cpu}
                           /\ alreadyActual => Accelerator # Cpu
    /\ selected # {} /\ phase \notin Before \cup {"terminated"} =>
            /\ ~alreadyActual => Cpu \in selected /\ Loaded(Cpu) /\ first # NoDevice
            /\ valid # {} \/ (load[Accelerator] = "ready" /\ actual # NoDevice)
            /\ valid \subseteq {Accelerator}

\* The scheduler goes by them: the devices it tries have workers.
ThreadsSwitch ==
    /\ \A t \in Threads : at[t] \in {"try", "hold"} /\ preferred[t] # NoDevice =>
            Loaded(preferred[t])
    /\ OnlyLoadedDevices

Switching == Loads /\ ThreadsSwitch

\* What is over when the network is constructed, left, and gone.
Ends ==
    /\ phase \in Before => busy = {} /\ \A t \in Threads : at[t] = "out"
    /\ phase \in Leaving => busy = {} /\ \A r \in Requests : at[r] = "out"
    /\ phase \in {"closing", "gone"} => \A d \in selected : load[d] = "ready"
    /\ phase = "gone" => \A w \in Workers : at[w] = "out"
    /\ closed # {} => phase \in {"closing", "gone", "terminated"}

IndInv == TypeOK /\ Locals /\ TaskInv /\ WorkerInv /\ Wanted /\ Switching /\ Ends
-----------------------------------------------------------------------------
(***************************************************************************)
(* The values of the constants.                                            *)
(***************************************************************************)

\* An order of devices is a sequence of them, as are what is left of it when the
\* first one was tried, and a single device.
LEMMA OrdersAreSequences ==
    /\ Orders \subseteq Seq(Devices)
    /\ \A s \in Orders : Len(s) \in 1..Cardinality(Devices)
<1>1. Cardinality(Devices) \in Nat BY MultiAssumption, FS_CardinalityType
<1> QED BY <1>1 DEF Orders

\* Going on to the next device in the order leaves an order, or nothing.
LEMMA TailOfOrder ==
    ASSUME NEW s \in Orders
    PROVE  Tail(s) \in Orders \cup {<<>>}
<1>1. Cardinality(Devices) \in Nat BY MultiAssumption, FS_CardinalityType
<1>2. PICK n \in 1..Cardinality(Devices) : s \in [1..n -> Devices] BY DEF Orders
<1>3. \A i, j \in 1..n : s[i] = s[j] => i = j BY <1>2 DEF Orders
<1>4. n \in Nat /\ s \in Seq(Devices) /\ Len(s) = n BY <1>1, <1>2
<1>5. /\ Tail(s) \in Seq(Devices) /\ Len(Tail(s)) = n - 1
      /\ \A i \in 1..(n - 1) : Tail(s)[i] = s[i + 1]
  BY <1>4
<1>6. CASE n = 1
  <2>1. \A q \in Seq(Devices) : q # <<>> => Len(q) # 0 BY EmptySeq
  <2>2. Len(Tail(s)) = 0 BY <1>6, <1>5
  <2>3. Tail(s) \in Seq(Devices) BY <1>5
  <2>4. Tail(s) = <<>> BY <2>1, <2>2, <2>3, Zenon
  <2> QED BY <2>4
<1>7. CASE n # 1
  <2>1. n - 1 \in 1..Cardinality(Devices) BY <1>1, <1>7
  <2>2. Tail(s) \in [1..(n - 1) -> Devices] BY <1>5, LenProperties
  <2>3. \A i, j \in 1..(n - 1) : Tail(s)[i] = Tail(s)[j] => i = j
    BY <1>1, <1>3, <1>4, <1>5
  <2> QED BY <2>1, <2>2, <2>3 DEF Orders
<1> QED BY <1>6, <1>7

\* A single device is an order of devices.
LEMMA OneIsAnOrder ==
    ASSUME NEW d \in Devices
    PROVE  <<d>> \in Orders
<1>1. Cardinality(Devices) \in Nat /\ Cardinality(Devices) # 0
  BY MultiAssumption, FS_CardinalityType, FS_EmptySet
<1>2. 1 \in 1..Cardinality(Devices) BY <1>1
<1>3. <<d>> \in [1..1 -> Devices] OBVIOUS
<1>4. \A i, j \in 1..1 : <<d>>[i] = <<d>>[j] => i = j OBVIOUS
<1> QED BY <1>2, <1>3, <1>4 DEF Orders

\* The accelerator is the CPU or the one other device the networks are loaded to.
LEMMA AcceleratorIsSelected ==
    ASSUME selected \in Selections, selected # {}
    PROVE  /\ Accelerator \in selected /\ Accelerator \in Devices
           /\ Accelerator = Cpu => selected = {Cpu}
           /\ \A d \in selected : d = Cpu \/ d = Accelerator
<1>1. selected \subseteq Devices /\ Cardinality(selected \ {Cpu}) <= 1
  BY MultiAssumption
<1>2. CASE selected = {Cpu} BY <1>1, <1>2 DEF Accelerator
<1>3. CASE selected # {Cpu}
  <2>1. \E d \in selected : d # Cpu BY <1>3
  <2>2. Accelerator \in selected /\ Accelerator # Cpu BY <1>3, <2>1 DEF Accelerator
  <2>3. ASSUME NEW d \in selected, d # Cpu PROVE d = Accelerator
    <3>1. IsFiniteSet(selected \ {Cpu}) BY <1>1, MultiAssumption, FS_Subset
    <3>2. {d, Accelerator} \subseteq selected \ {Cpu} BY <2>2, <2>3
    <3>3. Cardinality(selected \ {Cpu}) \in Nat BY <3>1, FS_CardinalityType
    <3>4. selected \ {Cpu} # {} BY <3>2
    <3>5. Cardinality(selected \ {Cpu}) # 0 BY <3>1, <3>4, FS_EmptySet
    <3>6. Cardinality(selected \ {Cpu}) = 1 BY <1>1, <3>3, <3>5
    <3>7. \E x : selected \ {Cpu} = {x} BY <3>1, <3>6, FS_Singleton
    <3> QED BY <3>2, <3>7
  <2> QED BY <1>1, <2>2, <2>3
<1> QED BY <1>2, <1>3

\* GenerateWorkers makes each worker of a device idle, once.
LEMMA IdleOfDevice ==
    ASSUME NEW d \in Devices
    PROVE  /\ IdleOf(d) \in Seq(Workers)
           /\ \A i \in 1..Len(IdleOf(d)) : DeviceOf[IdleOf(d)[i]] = d
           /\ \A i, j \in 1..Len(IdleOf(d)) : IdleOf(d)[i] = IdleOf(d)[j] => i = j
           /\ \A w \in Workers : DeviceOf[w] = d =>
                    \E i \in 1..Len(IdleOf(d)) : IdleOf(d)[i] = w
<1> DEFINE W == WorkersOf(d)
           n == Cardinality(W)
           Lists == {s \in [1..n -> W] : \A w \in W : \E i \in DOMAIN s : s[i] = w}
<1>1. W \subseteq Workers /\ IsFiniteSet(W)
  BY MultiAssumption, FS_Subset DEF WorkersOf
<1>2. n \in Nat BY <1>1, FS_CardinalityType
<1>3. PICK f \in Bijection(1..n, W) : TRUE
  BY <1>1, FS_CardinalityType DEF ExistsBijection
<1>4. f \in Lists BY <1>3 DEF Bijection, Injection, Surjection
<1>5. IdleOf(d) \in Lists BY <1>4 DEF IdleOf
<1>6. PICK s : s = IdleOf(d) OBVIOUS
<1>7. s \in [1..n -> W] /\ \A w \in W : \E i \in 1..n : s[i] = w BY <1>5, <1>6
<1>8. s \in Surjection(1..n, W) BY <1>7 DEF Surjection
<1>9. IsFiniteSet(1..n) /\ Cardinality(1..n) = n BY <1>2, FS_Interval
<1>10. s \in Injection(1..n, W) BY <1>8, <1>9, FS_SurjSameCardinalityImpliesInj
<1>11. s \in Seq(Workers) /\ Len(s) = n BY <1>1, <1>2, <1>7
<1>12. \A i \in 1..n : s[i] \in W BY <1>7
<1>13. \A i \in 1..n : DeviceOf[s[i]] = d BY <1>12 DEF WorkersOf
<1>14. \A w \in Workers : DeviceOf[w] = d => \E i \in 1..n : s[i] = w
  BY <1>7 DEF WorkersOf
<1>15. \A i, j \in 1..n : s[i] = s[j] => i = j BY <1>10 DEF Injection, IsInjective
<1> QED BY <1>6, <1>11, <1>13, <1>14, <1>15

(***************************************************************************)
(* Types and local variables.                                              *)
(***************************************************************************)

\* The scheduler's steps leave every thread with devices of the right type.
LEMMA WaitActualTypes ==
    ASSUME TypeOK, WaitActual, selected # {}
    PROVE  {first, actual'} \subseteq selected \cup {NoDevice} /\ valid' \subseteq selected
BY AcceleratorIsSelected DEF TypeOK, WaitActual

\* ScheduleToWorkerInferRequest keeps the types.
LEMMA SchedulingTypes ==
    ASSUME TypeOK, Locals, NEW t \in Threads, Scheduling(t)
    PROVE  TypeOK'
<1> USE DEF TypeOK
<1>0. at[t] \in Scheduled => task[t] \in Requests
  BY DEF Locals, Local
<1>1. CASE Pick(t)
  <2> USE <1>1 DEF Pick
  <2>1. at' \in [Threads -> Places] BY DEF Places
  <2>2. devices' \in [Threads -> Orders \cup {<<>>}]
    <3>1. priorities \in Orders \cup {<<>>} OBVIOUS
    <3>2. preferred[t] \in Devices \cup {NoDevice} OBVIOUS
    <3>3. Eligible(preferred[t]) \in Orders \cup {<<>>}
      BY <3>1, <3>2, OneIsAnOrder DEF Eligible
    <3>4. Cpu \in Devices BY MultiAssumption
    <3>5. selected # {} => Accelerator \in Devices BY AcceleratorIsSelected
    <3>6. CASE selected = {} BY <3>3, <3>6
    <3>7. CASE selected # {} /\ preferred[t] = NoDevice
      <4>1. <<IF alreadyActual THEN Accelerator ELSE Cpu>> \in Orders
        BY <3>4, <3>5, <3>7, OneIsAnOrder
      <4> QED BY <3>7, <4>1
    <3>8. CASE selected # {} /\ preferred[t] # NoDevice
      <4>1. <<Accelerator>> \in Orders BY <3>5, <3>8, OneIsAnOrder
      <4> QED BY <3>8, <4>1
    <3> QED BY <3>6, <3>7, <3>8
  <2>3. {first, actual'} \subseteq selected \cup {NoDevice} /\ valid' \subseteq selected
    BY WaitActualTypes
  <2> QED BY <2>1, <2>2, <2>3
<1>2. CASE TryPop(t)
  <2> USE <1>2 DEF TryPop, Taken
  <2>1. devices[t] \in Orders OBVIOUS
  <2>2. devices[t] \in Seq(Devices) BY <2>1, OrdersAreSequences
  <2>3. Head(devices[t]) \in Devices BY <2>2
  <2>4. Tail(devices[t]) \in Orders \cup {<<>>} BY <2>1, TailOfOrder
  <2>5. CASE idle[Head(devices[t])] # <<>> /\ Head(devices[t]) \notin closed
    <3>0. PICK d : d = Head(devices[t]) OBVIOUS
    <3>1. /\ at' = [at EXCEPT ![t] = "hold"]
          /\ popped' = [popped EXCEPT ![t] = Head(idle[d])]
          /\ idle' = [idle EXCEPT ![d] = Tail(idle[d])]
          /\ devices' = [devices EXCEPT ![t] = <<>>]
      BY <2>5, <3>0
    <3>2. at' \in [Threads -> Places] BY <3>1 DEF Places
    <3>3. devices' \in [Threads -> Orders \cup {<<>>}] BY <3>1
    <3>4. idle[d] \in Seq(Workers) /\ idle[d] # <<>> BY <2>3, <2>5, <3>0
    <3>5. popped' \in [Threads -> Workers \cup {None}] BY <3>4, <3>1
    <3>6. Tail(idle[d]) \in Seq(Workers) BY <3>4
    <3>7. idle' \in [Devices -> Seq(Workers)] BY <3>1, <3>6
    <3> QED BY <3>2, <3>3, <3>5, <3>7
  <2>6. CASE ~(idle[Head(devices[t])] # <<>> /\ Head(devices[t]) \notin closed)
    <3>1. devices' \in [Threads -> Orders \cup {<<>>}] BY <2>4, <2>6
    <3> QED BY <2>6, <3>1
  <2> QED BY <2>5, <2>6
<1>3. CASE Store(t)
  <2> USE <1>3 DEF Store, Leave
  <2>1. tasks' \in [Devices \cup {NoDevice} -> Seq(Requests)]
    BY <1>0 DEF Scheduled
  <2>2. at' \in [Threads -> Places] BY DEF Places
  <2> QED BY <2>1, <2>2
<1>4. CASE Launch(t)
  <2> USE <1>4 DEF Launch, Leave
  <2>1. work' \in [Workers -> Requests \cup {None}] BY <1>0 DEF Scheduled
  <2>2. at' \in [Threads -> Places] BY DEF Places
  <2> QED BY <2>1, <2>2
<1>5. CASE LaunchThrows(t)
  <2> USE <1>5 DEF LaunchThrows, Leave, End
  <2>1. popped[t] \in Workers BY DEF Locals, Local
  <2>2. at' \in [Threads -> Places] BY DEF Places
  <2>3. wanted' \in [Requests -> Devices \cup {NoDevice}] OBVIOUS
  <2> QED BY <2>1, <2>2, <2>3
<1> QED BY <1>1, <1>2, <1>3, <1>4, <1>5 DEF Scheduling

\* A worker's callback keeps the types.
LEMMA CallbackTypes ==
    ASSUME TypeOK, Locals, NEW w \in Workers, CallbackStep(w) \/ Overtake(w)
    PROVE  TypeOK'
<1> USE DEF TypeOK
<1>1. CASE Finish(w) BY <1>1 DEF Finish, Places
<1>2. CASE Overtake(w) BY <1>2 DEF Overtake
<1>3. CASE Call(w) BY <1>3 DEF Call, End, Places
<1>4. CASE CallRestarts(w)
  <2> USE <1>4 DEF CallRestarts, Schedule, MayStart
  <2>1. work[w] \in Requests BY DEF Locals, Local
  <2>2. Bound \subseteq Devices \cup {NoDevice} BY AcceleratorIsSelected DEF Bound
  <2>3. at' \in [Threads -> Places] BY DEF Places
  <2>4. work' \in [Workers -> Requests \cup {None}] OBVIOUS
  <2>5. PICK d \in Bound : /\ wanted' = [wanted EXCEPT ![work[w]] = d]
                           /\ Schedule(w, work[w], d, "release")
    OBVIOUS
  <2>6. wanted' \in [Requests -> Devices \cup {NoDevice}] BY <2>2, <2>5
  <2>7. preferred' \in [Threads -> Devices \cup {NoDevice}] BY <2>2, <2>5
  <2>8. /\ task' \in [Threads -> Requests \cup {None}]
        /\ back' \in [Threads -> {"out", "release", "restore"}]
    BY <2>1, <2>5
  <2> QED BY <2>3, <2>4, <2>6, <2>7, <2>8
<1>5. CASE Release(w)
  <2> USE <1>5 DEF Release
  <2>1. DeviceOf[w] \in Devices BY MultiAssumption
  <2>2. CASE DeviceOf[w] \in closed BY <2>2 DEF Places
  <2>3. CASE DeviceOf[w] \notin closed
    <3>0. PICK d : d = DeviceOf[w] OBVIOUS
    <3>3. /\ at' = [at EXCEPT ![w] = "agnostic"]
          /\ idle' = [idle EXCEPT ![d] = Append(idle[d], w)]
      BY <2>3, <3>0
    <3>1. at' \in [Threads -> Places] BY <3>3 DEF Places
    <3>2. idle' \in [Devices -> Seq(Workers)] BY <2>1, <3>0, <3>3
    <3> QED BY <2>3, <3>1, <3>2
  <2> QED BY <2>2, <2>3
<1>6. ASSUME NEW q \in Devices \cup {NoDevice}, PopFrom(w, q)
      PROVE  /\ tasks' \in [Devices \cup {NoDevice} -> Seq(Requests)]
             /\ at' \in [Threads -> Places] /\ task' \in [Threads -> Requests \cup {None}]
             /\ preferred' \in [Threads -> Devices \cup {NoDevice}]
             /\ back' \in [Threads -> {"out", "release", "restore"}]
             /\ UNCHANGED <<devices, popped>>
  BY <1>6 DEF PopFrom, Schedule, Rest, Places
<1>7. ASSUME NEW q, NEW to \in Places, NothingIn(w, q, to)
      PROVE  /\ at' \in [Threads -> Places]
             /\ UNCHANGED <<tasks, task, preferred, devices, popped, back>>
  BY <1>7 DEF NothingIn
<1>8. CASE PopAgnostic(w)
  <2>1. CASE PopFrom(w, NoDevice) BY <1>6, <1>8, <2>1 DEF PopAgnostic
  <2>2. CASE NothingIn(w, NoDevice, "specific") BY <1>7, <1>8, <2>2 DEF PopAgnostic, Places
  <2> QED BY <1>8, <2>1, <2>2 DEF PopAgnostic
<1>9. CASE PopSpecific(w)
  <2>0. DeviceOf[w] \in Devices BY MultiAssumption
  <2>1. CASE PopFrom(w, DeviceOf[w]) BY <1>6, <1>9, <2>0, <2>1 DEF PopSpecific
  <2>2. CASE NothingIn(w, DeviceOf[w], "restore") BY <1>7, <1>9, <2>2 DEF PopSpecific, Places
  <2> QED BY <1>9, <2>1, <2>2 DEF PopSpecific
<1>10. CASE Restore(w) BY <1>10 DEF Restore, Places
<1> QED BY <1>1, <1>2, <1>3, <1>4, <1>5, <1>8, <1>9, <1>10 DEF CallbackStep

\* Construction, loads, SetConfig and destruction keep the types.
LEMMA NetworkTypes ==
    ASSUME TypeOK,
           \/ \E d \in Devices : Loading(d) \/ LoadThrows(d) \/ Close(d)
           \/ Construction \/ Ask \/ Destroy \/ StopLoading \/ Clear
           \/ \E s \in Orders : SetConfig(s)
    PROVE  TypeOK'
<1> USE DEF TypeOK
<1>1. ASSUME NEW d \in Devices, Generate(d) PROVE TypeOK'
  <2>1. IdleOf(d) \in Seq(Workers) BY IdleOfDevice
  <2> QED BY <1>1, <2>1 DEF Generate
<1>2. ASSUME NEW d \in Devices, Flag(d) PROVE TypeOK' BY <1>2 DEF Flag
<1>3. ASSUME NEW d \in Devices, SetPromise(d) PROVE TypeOK' BY <1>3 DEF SetPromise
<1>4. ASSUME NEW d \in Devices, LoadThrows(d) PROVE TypeOK' BY <1>4 DEF LoadThrows
<1>5. ASSUME NEW d \in Devices, Close(d) PROVE TypeOK' BY <1>5 DEF Close
<1>6. CASE SeeFlag BY <1>6 DEF SeeFlag
<1>7. CASE WaitFirst
  <2> USE <1>7 DEF WaitFirst
  <2>1. PICK d \in selected :
            /\ IF valid \ {d} # {} THEN first' = d /\ UNCHANGED actual
                                   ELSE actual' = d /\ UNCHANGED first
            /\ valid' = valid \ {d}
    OBVIOUS
  <2>2. {first', actual'} \subseteq selected \cup {NoDevice} BY <2>1
  <2>3. alreadyActual' \in BOOLEAN BY DEF SingleIsActual
  <2>4. valid' \subseteq selected BY <2>1
  <2> QED BY <2>2, <2>3, <2>4
<1>8. CASE Ask BY <1>8, WaitActualTypes DEF Ask
<1>9. CASE Destroy BY <1>9 DEF Destroy
<1>10. CASE StopLoading
  <2>1. {first, actual'} \subseteq selected \cup {NoDevice} /\ valid' \subseteq selected
    <3>1. CASE selected # {} BY <1>10, <3>1, WaitActualTypes DEF StopLoading
    <3>2. CASE selected = {} BY <1>10, <3>2 DEF StopLoading, WaitActual
    <3> QED BY <3>1, <3>2
  <2> QED BY <1>10, <2>1 DEF StopLoading
<1>11. CASE Clear BY <1>11 DEF Clear
<1>12. ASSUME NEW s \in Orders, SetConfig(s) PROVE TypeOK' BY <1>12 DEF SetConfig
<1> QED BY <1>1, <1>2, <1>3, <1>4, <1>5, <1>6, <1>7, <1>8, <1>9, <1>10, <1>11, <1>12
        DEF Loading, Construction

\* Starting a request keeps the types.
LEMMA StartTypes ==
    ASSUME TypeOK, NEW r \in Requests, Start(r)
    PROVE  TypeOK'
<1> USE DEF TypeOK, Start, MayStart
<1>1. Bound \subseteq Devices \cup {NoDevice} BY AcceleratorIsSelected DEF Bound
<1>2. PICK d \in Bound : wanted' = [wanted EXCEPT ![r] = d] /\ Schedule(r, r, d, "out")
  OBVIOUS
<1>3. at' \in [Threads -> Places] BY <1>2 DEF Schedule, Places
<1>4. wanted' \in [Requests -> Devices \cup {NoDevice}] BY <1>1, <1>2
<1>5. preferred' \in [Threads -> Devices \cup {NoDevice}] BY <1>1, <1>2 DEF Schedule
<1>6. /\ task' \in [Threads -> Requests \cup {None}]
      /\ back' \in [Threads -> {"out", "release", "restore"}]
  BY <1>2 DEF Schedule
<1>7. UNCHANGED <<devices, popped>> BY <1>2 DEF Schedule
<1> QED BY <1>3, <1>4, <1>5, <1>6, <1>7

\* A step of the specification, by who takes it.
LEMMA Steps ==
    ASSUME [Next]_vars
    PROVE  \/ \E t \in Threads : Scheduling(t)
           \/ \E r \in Requests : Start(r)
           \/ \E w \in Workers : CallbackStep(w) \/ Overtake(w)
           \/ \/ \E d \in Devices : Loading(d) \/ LoadThrows(d) \/ Close(d)
              \/ Construction \/ Ask \/ Destroy \/ StopLoading \/ Clear
              \/ \E s \in Orders : SetConfig(s)
           \/ UNCHANGED vars
BY DEF Next, Destruction

\* Every step keeps the types.
LEMMA TypesInv ==
    ASSUME TypeOK, Locals, [Next]_vars
    PROVE  TypeOK'
<1>1. CASE UNCHANGED vars BY <1>1 DEF TypeOK, vars
<1> QED BY <1>1, Steps, SchedulingTypes, StartTypes, CallbackTypes, NetworkTypes

\* The steps of one thread leave the local variables of the others alone.
LEMMA SchedulingLocals ==
    ASSUME TypeOK, Locals, NEW t \in Threads, Scheduling(t)
    PROVE  Locals'
<1> SUFFICES ASSUME NEW u \in Threads PROVE Local(u)'
  BY DEF Locals
<1>0. Local(t) /\ Local(u) BY DEF Locals
<1>a. None \notin Requests /\ None \notin Workers /\ Requests \cap Workers = {}
  BY MultiAssumption
<1> USE DEF TypeOK, Local, Scheduled
<1>1. CASE Pick(t)
  <2>1. /\ at' = [at EXCEPT ![t] = "try"]
        /\ \A v \in Threads : v # t => devices'[v] = devices[v]
    BY <1>1 DEF Pick
  <2> QED BY <1>0, <1>a, <1>1, <2>1 DEF Pick
<1>2. CASE TryPop(t)
  <2> PICK d : d = Head(devices[t]) OBVIOUS
  <2>1. CASE idle[d] # <<>> /\ d \notin closed
    <3>1. /\ at' = [at EXCEPT ![t] = "hold"]
          /\ popped' = [popped EXCEPT ![t] = Head(idle[d])]
          /\ devices' = [devices EXCEPT ![t] = <<>>]
          /\ UNCHANGED <<task, preferred, back, callback, work>>
      BY <1>2, <2>1 DEF TryPop
    <3>2. devices[t] \in Orders /\ at[t] = "try" BY <1>2 DEF TryPop
    <3>3. devices[t] \in Seq(Devices) BY <3>2, OrdersAreSequences
    <3>6. d \in Devices BY <1>2, <3>3 DEF TryPop
    <3>4. Head(idle[d]) \in Workers BY <2>1, <3>6
    <3>5. CASE u = t BY <1>0, <1>a, <3>1, <3>2, <3>4, <3>5
    <3>7. CASE u # t BY <1>0, <1>a, <3>1, <3>7
    <3> QED BY <3>5, <3>7
  <2>2. CASE ~(idle[d] # <<>> /\ d \notin closed)
    <3>1. /\ devices' = [devices EXCEPT ![t] = Tail(devices[t])]
          /\ UNCHANGED <<at, popped, task, preferred, back, callback, work>>
      BY <1>2, <2>2 DEF TryPop
    <3>2. at[t] = "try" BY <1>2 DEF TryPop
    <3>3. CASE u = t BY <1>0, <1>a, <3>1, <3>2, <3>3
    <3>4. CASE u # t BY <1>0, <1>a, <3>1, <3>4
    <3> QED BY <3>3, <3>4
  <2> QED BY <2>1, <2>2
<1>3. CASE Store(t)
  <2> USE <1>3 DEF Store, Leave
  <2>1. CASE u = t BY <1>0, <1>a, <2>1
  <2>2. CASE u # t BY <1>0, <1>a, <2>2
  <2> QED BY <2>1, <2>2
<1>4. CASE Launch(t)
  <2> USE <1>4 DEF Launch, Leave
  <2>1. CASE u = t BY <1>0, <1>a, <2>1
  <2>2. CASE u # t BY <1>0, <1>a, <2>2
  <2> QED BY <2>1, <2>2
<1>5. CASE LaunchThrows(t)
  <2> USE <1>5 DEF LaunchThrows, Leave
  <2>1. CASE u = t BY <1>0, <1>a, <2>1
  <2>2. CASE u # t BY <1>0, <1>a, <2>2
  <2> QED BY <2>1, <2>2
<1> QED BY <1>1, <1>2, <1>3, <1>4, <1>5 DEF Scheduling

\* A worker's callback agrees with its local variables.
LEMMA CallbackLocals ==
    ASSUME TypeOK, Locals, NEW w \in Workers, CallbackStep(w) \/ Overtake(w)
    PROVE  Locals'
<1> SUFFICES ASSUME NEW u \in Threads PROVE Local(u)'
  BY DEF Locals
<1>0. Local(w) /\ Local(u) BY DEF Locals
<1>a. None \notin Requests /\ None \notin Workers /\ Requests \cap Workers = {}
  BY MultiAssumption
<1> USE DEF TypeOK, Local, Scheduled
<1>1. CASE Finish(w) BY <1>0, <1>a, <1>1 DEF Finish
<1>2. CASE Overtake(w) BY <1>0, <1>2 DEF Overtake
<1>3. CASE Call(w)
  <2>1. CASE u = w BY <1>0, <1>a, <1>3, <2>1 DEF Call
  <2>2. CASE u # w BY <1>0, <1>a, <1>3, <2>2 DEF Call
  <2> QED BY <2>1, <2>2
<1>4. CASE CallRestarts(w)
  <2> USE <1>4 DEF CallRestarts
  <2>1. PICK d \in Bound : Schedule(w, work[w], d, "release") OBVIOUS
  <2>2. CASE u = w BY <1>0, <1>a, <2>1, <2>2 DEF Schedule
  <2>3. CASE u # w BY <1>0, <1>a, <2>1, <2>3 DEF Schedule
  <2> QED BY <2>2, <2>3
<1>5. CASE Release(w)
  <2>1. at'[w] \in {"restore", "agnostic"} /\ \A v \in Threads : v # w => at'[v] = at[v]
    BY <1>5 DEF Release
  <2> QED BY <1>0, <1>a, <1>5, <2>1 DEF Release
<1>6. ASSUME NEW q \in Devices \cup {NoDevice}, PopFrom(w, q), at[w] \in {"agnostic", "specific"},
             UNCHANGED <<work, callback>>
      PROVE  Local(u)'
  <2>1. Head(tasks[q]) \in Requests BY <1>6 DEF PopFrom
  <2>2. CASE u = w BY <1>0, <1>a, <1>6, <2>1, <2>2 DEF PopFrom, Schedule
  <2>3. CASE u # w BY <1>0, <1>a, <1>6, <2>3 DEF PopFrom, Schedule
  <2> QED BY <2>2, <2>3
<1>7. ASSUME NEW q, NEW to \in {"specific", "restore"}, NothingIn(w, q, to),
             at[w] \in {"agnostic", "specific"}, UNCHANGED <<work, callback>>
      PROVE  Local(u)'
  BY <1>0, <1>a, <1>7 DEF NothingIn
<1>8. CASE PopAgnostic(w)
  <2>1. UNCHANGED <<work, callback>> /\ at[w] = "agnostic" BY <1>8 DEF PopAgnostic
  <2> QED BY <1>6, <1>7, <1>8, <2>1 DEF PopAgnostic
<1>9. CASE PopSpecific(w)
  <2>1. UNCHANGED <<work, callback>> /\ at[w] = "specific" BY <1>9 DEF PopSpecific
  <2>2. DeviceOf[w] \in Devices BY MultiAssumption
  <2> QED BY <1>6, <1>7, <1>9, <2>1, <2>2 DEF PopSpecific
<1>10. CASE Restore(w) BY <1>0, <1>a, <1>10 DEF Restore
<1> QED BY <1>1, <1>2, <1>3, <1>4, <1>5, <1>8, <1>9, <1>10 DEF CallbackStep

\* A thread that starts a request agrees with its local variables.
LEMMA StartLocals ==
    ASSUME TypeOK, Locals, NEW r \in Requests, Start(r)
    PROVE  Locals'
<1> SUFFICES ASSUME NEW u \in Threads PROVE Local(u)'
  BY DEF Locals
<1>0. Local(r) /\ Local(u) BY DEF Locals
<1>a. None \notin Requests /\ None \notin Workers /\ Requests \cap Workers = {}
  BY MultiAssumption
<1> USE DEF TypeOK, Local, Scheduled, Start
<1>1. PICK d \in Bound : Schedule(r, r, d, "out") OBVIOUS
<1>2. CASE u = r BY <1>0, <1>a, <1>1, <1>2 DEF Schedule
<1>3. CASE u # r BY <1>0, <1>a, <1>1, <1>3 DEF Schedule
<1> QED BY <1>2, <1>3

\* The steps of the network, which no thread takes in the scheduler.
LEMMA NetworkKeeps ==
    ASSUME \/ \E d \in Devices : Loading(d) \/ LoadThrows(d) \/ Close(d)
           \/ Construction \/ Ask \/ Destroy \/ StopLoading \/ Clear
           \/ \E s \in Orders : SetConfig(s)
           \/ UNCHANGED vars
    PROVE  UNCHANGED <<at, task, preferred, devices, popped, back, tasks, work,
                       callback, failed, busy, wanted, selected, starts>>
<1>1. \A d \in Devices : Loading(d) \/ LoadThrows(d) \/ Close(d) =>
        UNCHANGED <<at, task, preferred, devices, popped, back, tasks, work,
                    callback, failed, busy, wanted, selected, starts>>
  BY DEF Loading, Generate, Flag, SetPromise, LoadThrows, Close
<1> QED BY <1>1 DEF Construction, SeeFlag, WaitFirst, Ask, Destroy, StopLoading, Clear,
                    SetConfig, vars

\* Every step leaves every thread in agreement with its local variables.
LEMMA LocalsInv ==
    ASSUME TypeOK, Locals, [Next]_vars
    PROVE  Locals'
<1>1. CASE \/ \E d \in Devices : Loading(d) \/ LoadThrows(d) \/ Close(d)
           \/ Construction \/ Ask \/ Destroy \/ StopLoading \/ Clear
           \/ \E s \in Orders : SetConfig(s)
           \/ UNCHANGED vars
  BY <1>1, NetworkKeeps DEF Locals, Local
<1> QED BY <1>1, Steps, SchedulingLocals, StartLocals, CallbackLocals

(***************************************************************************)
(* The tasks.                                                              *)
(***************************************************************************)

\* The accelerator is chosen once, by the constructor.
LEMMA AcceleratorStays ==
    ASSUME UNCHANGED selected
    PROVE  Accelerator' = Accelerator
BY DEF Accelerator

\* A task goes from a thread to the end of a queue.
LEMMA StoreTasks ==
    ASSUME TypeOK, Locals, TaskInv, NEW t \in Threads, Store(t)
    PROVE  TaskInv'
<1>a. None \notin Requests BY MultiAssumption
<1>b. PICK r, q : r = task[t] /\ q = preferred[t] OBVIOUS
<1>c. r \in Requests /\ q \in Queues
  BY <1>a, <1>b DEF TypeOK, Locals, Local, Scheduled, Store, Queues
<1>d. /\ tasks \in [Queues -> Seq(Requests)] /\ task \in [Threads -> Requests \cup {None}]
      /\ work \in [Workers -> Requests \cup {None}]
  BY DEF TypeOK, Queues
<1>e. /\ tasks' = [tasks EXCEPT ![q] = Append(tasks[q], r)]
      /\ task' = [task EXCEPT ![t] = None]
      /\ UNCHANGED <<work, busy>>
  BY <1>b DEF Store, Leave
<1>f. /\ \A p \in Queues : p # q => tasks'[p] = tasks[p]
      /\ Len(tasks'[q]) = Len(tasks[q]) + 1 /\ Len(tasks[q]) \in Nat
      /\ \A i \in 1..Len(tasks[q]) : tasks'[q][i] = tasks[q][i]
      /\ tasks'[q][Len(tasks[q]) + 1] = r
  BY <1>c, <1>d, <1>e
<1>g. \A p \in Queues : \A i \in 1..Len(tasks'[p]) :
            \/ p = q /\ i = Len(tasks[q]) + 1 /\ tasks'[p][i] = r
            \/ i \in 1..Len(tasks[p]) /\ tasks'[p][i] = tasks[p][i]
  BY <1>c, <1>d, <1>f
<1>h. \A u \in Threads : task'[u] = IF u = t THEN None ELSE task[u] BY <1>d, <1>e
<1>i. /\ \A p \in Queues : \A i \in 1..Len(tasks[p]) : tasks[p][i] # r
      /\ \A w \in Workers : work[w] # r
      /\ \A u \in Threads : u # t => task[u] # r
      /\ r # None /\ r \in busy
  BY <1>a, <1>b, <1>c DEF TaskInv, TaskUnique, TaskOfBusy
<1>k. \A p, s \in Queues : \A i \in 1..Len(tasks[p]), j \in 1..Len(tasks[s]) :
        tasks[p][i] = tasks[s][j] => p = s /\ i = j
  BY DEF TaskInv, TaskUnique
<1>1. TaskUnique'
  <2>1. (\A p, s \in Queues : \A i \in 1..Len(tasks[p]), j \in 1..Len(tasks[s]) :
            tasks[p][i] = tasks[s][j] => p = s /\ i = j)'
    <3> SUFFICES ASSUME NEW p \in Queues, NEW s \in Queues,
                        NEW i \in 1..Len(tasks'[p]), NEW j \in 1..Len(tasks'[s]),
                        tasks'[p][i] = tasks'[s][j]
                 PROVE  p = s /\ i = j
      OBVIOUS
    <3>1. CASE p = q /\ i = Len(tasks[q]) + 1 /\ tasks'[p][i] = r
      <4>1. tasks'[s][j] = r BY <3>1
      <4>2. s = q /\ j = Len(tasks[q]) + 1 BY <1>g, <1>i, <4>1
      <4> QED BY <3>1, <4>2
    <3>2. CASE i \in 1..Len(tasks[p]) /\ tasks'[p][i] = tasks[p][i]
      <4>1. j \in 1..Len(tasks[s]) /\ tasks'[s][j] = tasks[s][j] BY <1>g, <1>i, <3>2
      <4>2. tasks[p][i] = tasks[s][j] BY <3>2, <4>1
      <4> QED BY <1>k, <3>2, <4>1, <4>2
    <3> QED BY <1>g, <3>1, <3>2
  <2>2. (\A u, v \in Threads : task[u] # None /\ task[u] = task[v] => u = v)'
    BY <1>h DEF TaskInv, TaskUnique
  <2>3. (\A v, w \in Workers : work[v] # None /\ work[v] = work[w] => v = w)'
    BY <1>e DEF TaskInv, TaskUnique
  <2>4. (\A p \in Queues : \A i \in 1..Len(tasks[p]) :
            /\ \A u \in Threads : task[u] # tasks[p][i]
            /\ \A w \in Workers : work[w] # tasks[p][i])'
    <3>1. \A p \in Queues : \A i \in 1..Len(tasks[p]) : tasks[p][i] # None
      BY <1>a, <1>d
    <3> QED BY <1>e, <1>g, <1>h, <1>i, <3>1 DEF TaskInv, TaskUnique
  <2>5. (\A u \in Threads, w \in Workers : task[u] # None => work[w] # task[u])'
    BY <1>e, <1>h DEF TaskInv, TaskUnique
  <2> QED BY <2>1, <2>2, <2>3, <2>4, <2>5 DEF TaskUnique, Queues
<1>2. TaskOfBusy' BY <1>e, <1>g, <1>h, <1>i DEF TaskInv, TaskOfBusy, Queues
<1>3. BusyHasTask'
  <2>1. HasTask(r)'
    <3>1. Len(tasks[q]) + 1 \in 1..Len(tasks'[q]) BY <1>f
    <3> QED BY <1>c, <1>f, <3>1 DEF HasTask, InQueue, Queues
  <2>2. ASSUME NEW x \in busy, x # r, HasTask(x) PROVE HasTask(x)'
    <3>1. CASE InQueue(x)
      <4>1. \A p \in Queues : \A i \in 1..Len(tasks[p]) :
                tasks'[p][i] = tasks[p][i] /\ i \in 1..Len(tasks'[p])
        BY <1>d, <1>f
      <4> QED BY <3>1, <4>1 DEF HasTask, InQueue, Queues
    <3>2. CASE InThread(x) BY <1>b, <1>h, <2>2, <3>2 DEF HasTask, InThread
    <3>3. CASE InWorker(x) BY <1>e, <3>3 DEF HasTask, InWorker
    <3> QED BY <2>2, <3>1, <3>2, <3>3 DEF HasTask
  <2> QED BY <1>e, <2>1, <2>2 DEF TaskInv, BusyHasTask
<1> QED BY <1>1, <1>2, <1>3 DEF TaskInv

\* A task goes from a queue to the thread of a callback.
LEMMA PopTasks ==
    ASSUME TypeOK, Locals, TaskInv, NEW w \in Workers, NEW q \in Queues, PopFrom(w, q),
           at[w] \in {"agnostic", "specific"}, UNCHANGED <<work, busy>>
    PROVE  TaskInv'
<1>a. None \notin Requests BY MultiAssumption
<1>d. /\ tasks \in [Queues -> Seq(Requests)] /\ task \in [Threads -> Requests \cup {None}]
      /\ work \in [Workers -> Requests \cup {None}]
  BY DEF TypeOK, Queues
<1>b. PICK r : r = Head(tasks[q]) OBVIOUS
<1>e. /\ tasks' = [tasks EXCEPT ![q] = Tail(tasks[q])] /\ tasks[q] # <<>>
      /\ task' = [task EXCEPT ![w] = r]
      /\ UNCHANGED <<work, busy>>
  BY <1>b DEF PopFrom, Rest, Schedule
<1>c. /\ r \in Requests /\ r = tasks[q][1] /\ 1 \in 1..Len(tasks[q]) /\ r # None
  BY <1>a, <1>b, <1>d, <1>e
<1>f. /\ \A p \in Queues : p # q => tasks'[p] = tasks[p]
      /\ Len(tasks'[q]) = Len(tasks[q]) - 1 /\ Len(tasks[q]) \in Nat
      /\ \A i \in 1..Len(tasks'[q]) : tasks'[q][i] = tasks[q][i + 1]
  BY <1>d, <1>e
<1>g. \A p \in Queues : \A i \in 1..Len(tasks'[p]) :
        \E j \in 1..Len(tasks[p]) :
            /\ tasks'[p][i] = tasks[p][j]
            /\ j = IF p = q THEN i + 1 ELSE i
  BY <1>d, <1>f
<1>h. \A u \in Threads : task'[u] = IF u = w THEN r ELSE task[u] BY <1>d, <1>e
<1>i. /\ \A v \in Workers : work[v] # r
      /\ \A u \in Threads : task[u] # r
      /\ r \in busy
      /\ \A p \in Queues : \A i \in 1..Len(tasks[p]) : tasks[p][i] = r => p = q /\ i = 1
      /\ task[w] = None
  BY <1>c DEF TaskInv, TaskUnique, TaskOfBusy, Locals, Local, Scheduled
<1>j. \A p \in Queues : \A i \in 1..Len(tasks'[p]) : tasks'[p][i] # r
  BY <1>g, <1>i
<1>k. \A p, s \in Queues : \A i \in 1..Len(tasks[p]), j \in 1..Len(tasks[s]) :
        tasks[p][i] = tasks[s][j] => p = s /\ i = j
  BY DEF TaskInv, TaskUnique
<1>1. TaskUnique'
  <2>1. (\A p, s \in Queues : \A i \in 1..Len(tasks[p]), j \in 1..Len(tasks[s]) :
            tasks[p][i] = tasks[s][j] => p = s /\ i = j)'
    <3> SUFFICES ASSUME NEW p \in Queues, NEW s \in Queues,
                        NEW i \in 1..Len(tasks'[p]), NEW j \in 1..Len(tasks'[s]),
                        tasks'[p][i] = tasks'[s][j]
                 PROVE  p = s /\ i = j
      OBVIOUS
    <3>1. PICK k \in 1..Len(tasks[p]) : tasks'[p][i] = tasks[p][k] /\ k = IF p = q THEN i + 1 ELSE i
      BY <1>g
    <3>2. PICK l \in 1..Len(tasks[s]) : tasks'[s][j] = tasks[s][l] /\ l = IF s = q THEN j + 1 ELSE j
      BY <1>g
    <3>4. tasks[p][k] = tasks[s][l] BY <3>1, <3>2
    <3>3. p = s /\ k = l BY <1>k, <3>4
    <3> QED BY <3>1, <3>2, <3>3
  <2>2. (\A u, v \in Threads : task[u] # None /\ task[u] = task[v] => u = v)'
    BY <1>h, <1>i DEF TaskInv, TaskUnique
  <2>3. (\A u, v \in Workers : work[u] # None /\ work[u] = work[v] => u = v)'
    BY <1>e DEF TaskInv, TaskUnique
  <2>4. (\A p \in Queues : \A i \in 1..Len(tasks[p]) :
            /\ \A u \in Threads : task[u] # tasks[p][i]
            /\ \A v \in Workers : work[v] # tasks[p][i])'
    <3> SUFFICES ASSUME NEW p \in Queues, NEW i \in 1..Len(tasks'[p])
                 PROVE  /\ \A u \in Threads : task'[u] # tasks'[p][i]
                        /\ \A v \in Workers : work'[v] # tasks'[p][i]
      OBVIOUS
    <3>1. PICK k \in 1..Len(tasks[p]) : tasks'[p][i] = tasks[p][k] BY <1>g
    <3>2. /\ \A u \in Threads : task[u] # tasks[p][k]
          /\ \A v \in Workers : work[v] # tasks[p][k]
      BY DEF TaskInv, TaskUnique
    <3> QED BY <1>e, <1>h, <1>j, <3>1, <3>2
  <2>5. (\A u \in Threads, v \in Workers : task[u] # None => work[v] # task[u])'
    BY <1>e, <1>h, <1>i DEF TaskInv, TaskUnique
  <2> QED BY <2>1, <2>2, <2>3, <2>4, <2>5 DEF TaskUnique, Queues
<1>2. TaskOfBusy'
  <2>1. \A p \in Queues : \A i \in 1..Len(tasks'[p]) : tasks'[p][i] \in busy
    BY <1>g DEF TaskInv, TaskOfBusy
  <2> QED BY <1>e, <1>h, <1>i, <2>1 DEF TaskInv, TaskOfBusy, Queues
<1>3. BusyHasTask'
  <2>1. HasTask(r)' BY <1>h DEF HasTask, InThread
  <2>2. ASSUME NEW x \in busy, x # r, HasTask(x) PROVE HasTask(x)'
    <3>1. CASE InQueue(x)
      <4>0. PICK p \in Queues : \E i \in 1..Len(tasks[p]) : tasks[p][i] = x
        BY <3>1 DEF InQueue
      <4>1. PICK i \in 1..Len(tasks[p]) : tasks[p][i] = x BY <4>0
      <4>2. CASE p # q BY <1>f, <4>1, <4>2 DEF HasTask, InQueue, Queues
      <4>3. CASE p = q
        <5>1. i # 1 BY <1>c, <2>2, <4>1, <4>3
        <5>2. i - 1 \in 1..Len(tasks'[q]) /\ (i - 1) + 1 = i BY <1>f, <4>1, <4>3, <5>1
        <5>3. tasks'[q][i - 1] = x BY <1>f, <4>1, <4>3, <5>2
        <5> QED BY <5>2, <5>3 DEF HasTask, InQueue, Queues
      <4> QED BY <4>2, <4>3
    <3>2. CASE InThread(x)
      <4>1. PICK u \in Threads : task[u] = x BY <3>2 DEF InThread
      <4>2. x # None BY <1>a, <2>2 DEF TypeOK
      <4>3. task'[u] = x BY <1>h, <1>i, <4>1, <4>2
      <4> QED BY <4>3 DEF HasTask, InThread
    <3>3. CASE InWorker(x) BY <1>e, <3>3 DEF HasTask, InWorker
    <3> QED BY <2>2, <3>1, <3>2, <3>3 DEF HasTask
  <2> QED BY <1>e, <2>1, <2>2 DEF TaskInv, BusyHasTask
<1> QED BY <1>1, <1>2, <1>3 DEF TaskInv

\* A task goes from a thread to a worker.
LEMMA LaunchTasks ==
    ASSUME TypeOK, Locals, TaskInv, NEW t \in Threads, Launch(t), work[popped[t]] = None
    PROVE  TaskInv'
<1>a. None \notin Requests BY MultiAssumption
<1>b. PICK r, v : r = task[t] /\ v = popped[t] OBVIOUS
<1>c. r \in Requests /\ v \in Workers
  BY <1>a, <1>b, MultiAssumption DEF TypeOK, Locals, Local, Scheduled, Launch
<1>d. /\ tasks \in [Queues -> Seq(Requests)] /\ task \in [Threads -> Requests \cup {None}]
      /\ work \in [Workers -> Requests \cup {None}]
  BY DEF TypeOK, Queues
<1>e. /\ work' = [work EXCEPT ![v] = r]
      /\ task' = [task EXCEPT ![t] = None]
      /\ UNCHANGED <<tasks, busy>>
  BY <1>b DEF Launch, Leave
<1>f. work[v] = None BY <1>b
<1>h. /\ \A u \in Threads : task'[u] = IF u = t THEN None ELSE task[u]
      /\ \A w \in Workers : work'[w] = IF w = v THEN r ELSE work[w]
  BY <1>d, <1>e
<1>i. /\ \A p \in Queues : \A i \in 1..Len(tasks[p]) : tasks[p][i] # r /\ tasks[p][i] # None
      /\ \A w \in Workers : work[w] # r
      /\ \A u \in Threads : u # t => task[u] # r
      /\ r # None /\ r \in busy
  BY <1>a, <1>b, <1>c, <1>d DEF TaskInv, TaskUnique, TaskOfBusy
<1>1. TaskUnique'
  BY <1>e, <1>h, <1>i DEF TaskInv, TaskUnique, Queues
<1>2. TaskOfBusy' BY <1>e, <1>h, <1>i DEF TaskInv, TaskOfBusy, Queues
<1>3. BusyHasTask'
  <2>1. HasTask(r)' BY <1>c, <1>h DEF HasTask, InWorker
  <2>2. ASSUME NEW x \in busy, x # r, HasTask(x) PROVE HasTask(x)'
    <3>0. x # None BY <1>a DEF TypeOK
    <3>1. CASE InQueue(x) BY <1>e, <3>1 DEF HasTask, InQueue, Queues
    <3>2. CASE InThread(x) BY <1>b, <1>h, <2>2, <3>2 DEF HasTask, InThread
    <3>3. CASE InWorker(x) BY <1>f, <1>h, <3>0, <3>3 DEF HasTask, InWorker
    <3> QED BY <2>2, <3>1, <3>2, <3>3 DEF HasTask
  <2> QED BY <1>e, <2>1, <2>2 DEF TaskInv, BusyHasTask
<1> QED BY <1>1, <1>2, <1>3 DEF TaskInv

\* The request of a thread or of a worker ends, and its task with it.
LEMMA EndTasks ==
    ASSUME TypeOK, TaskInv, NEW r \in Requests,
           busy' = busy \ {r}, UNCHANGED tasks,
           \/ /\ \E t \in Threads : task[t] = r /\ task' = [task EXCEPT ![t] = None]
              /\ UNCHANGED work
           \/ /\ \E w \in Workers : work[w] = r /\ work' = [work EXCEPT ![w] = None]
              /\ UNCHANGED task
    PROVE  TaskInv'
<1>a. None \notin Requests BY MultiAssumption
<1>d. /\ tasks \in [Queues -> Seq(Requests)] /\ task \in [Threads -> Requests \cup {None}]
      /\ work \in [Workers -> Requests \cup {None}]
  BY DEF TypeOK, Queues
<1>h. /\ \A u \in Threads : task'[u] = IF task[u] = r THEN None ELSE task[u]
      /\ \A w \in Workers : work'[w] = IF work[w] = r THEN None ELSE work[w]
  BY <1>a, <1>d DEF TaskInv, TaskUnique
<1>i. \A p \in Queues : \A i \in 1..Len(tasks[p]) : tasks[p][i] # r /\ tasks[p][i] # None
  BY <1>a, <1>d DEF TaskInv, TaskUnique
<1>1. TaskUnique'
  BY <1>h, <1>i DEF TaskInv, TaskUnique, Queues
<1>2. TaskOfBusy' BY <1>h, <1>i DEF TaskInv, TaskOfBusy, Queues
<1>3. BusyHasTask'
  <2>1. ASSUME NEW x \in busy, x # r, HasTask(x) PROVE HasTask(x)'
    <3>1. CASE InQueue(x) BY <3>1 DEF HasTask, InQueue, Queues
    <3>2. CASE InThread(x) BY <1>h, <2>1, <3>2 DEF HasTask, InThread
    <3>3. CASE InWorker(x) BY <1>h, <2>1, <3>3 DEF HasTask, InWorker
    <3> QED BY <2>1, <3>1, <3>2, <3>3 DEF HasTask
  <2> QED BY <2>1 DEF TaskInv, BusyHasTask
<1> QED BY <1>1, <1>2, <1>3 DEF TaskInv

\* A request is started, or started again by the callback its run ends in.
LEMMA StartTasks ==
    ASSUME TypeOK, TaskInv, NEW r \in Requests, NEW t \in Threads, task[t] = None,
           busy' = busy \cup {r}, task' = [task EXCEPT ![t] = r], UNCHANGED tasks,
           \/ r \notin busy /\ UNCHANGED work
           \/ \E w \in Workers : work[w] = r /\ work' = [work EXCEPT ![w] = None]
    PROVE  TaskInv'
<1>a. None \notin Requests BY MultiAssumption
<1>d. /\ tasks \in [Queues -> Seq(Requests)] /\ task \in [Threads -> Requests \cup {None}]
      /\ work \in [Workers -> Requests \cup {None}]
  BY DEF TypeOK, Queues
<1>h. /\ \A u \in Threads : task'[u] = IF u = t THEN r ELSE task[u]
      /\ \A w \in Workers : work'[w] = IF work[w] = r THEN None ELSE work[w]
  BY <1>a, <1>d DEF TaskInv, TaskUnique, TaskOfBusy
<1>i. /\ \A p \in Queues : \A i \in 1..Len(tasks[p]) : tasks[p][i] # r /\ tasks[p][i] # None
      /\ \A u \in Threads : task[u] # r
      /\ r # None
  BY <1>a, <1>d DEF TaskInv, TaskUnique, TaskOfBusy
<1>1. TaskUnique'
  BY <1>h, <1>i DEF TaskInv, TaskUnique, Queues
<1>2. TaskOfBusy' BY <1>h, <1>i DEF TaskInv, TaskOfBusy, Queues
<1>3. BusyHasTask'
  <2>1. HasTask(r)' BY <1>h DEF HasTask, InThread
  <2>2. ASSUME NEW x \in busy, x # r, HasTask(x) PROVE HasTask(x)'
    <3>0. x # None BY <1>a DEF TypeOK
    <3>1. CASE InQueue(x) BY <3>1 DEF HasTask, InQueue, Queues
    <3>2. CASE InThread(x) BY <1>h, <3>0, <3>2 DEF HasTask, InThread
    <3>3. CASE InWorker(x) BY <1>h, <2>2, <3>3 DEF HasTask, InWorker
    <3> QED BY <2>2, <3>1, <3>2, <3>3 DEF HasTask
  <2> QED BY <2>1, <2>2 DEF TaskInv, BusyHasTask
<1> QED BY <1>1, <1>2, <1>3 DEF TaskInv

\* A step that moves no task leaves each where it is.
LEMMA TasksStay ==
    ASSUME TaskInv, UNCHANGED <<tasks, task, work, busy>>
    PROVE  TaskInv'
<1>1. \A r : HasTask(r) => HasTask(r)' BY DEF HasTask, InQueue, InThread, InWorker, Queues
<1> QED BY <1>1 DEF TaskInv, TaskUnique, TaskOfBusy, BusyHasTask, Queues

\* Every step leaves each task of a busy request in one place.
LEMMA TasksInv ==
    ASSUME TypeOK, Locals, TaskInv, WorkerUnique, [Next]_vars
    PROVE  TaskInv'
<1>a. None \notin Requests BY MultiAssumption
<1>1. ASSUME NEW t \in Threads, Scheduling(t) PROVE TaskInv'
  <2>1. CASE Pick(t) BY <2>1, TasksStay DEF Pick
  <2>2. CASE TryPop(t) BY <2>2, TasksStay DEF TryPop
  <2>3. CASE Store(t) BY <2>3, StoreTasks
  <2>4. CASE Launch(t)
    <3>1. popped[t] \in Workers /\ IsHeld(popped[t])
      BY <2>4 DEF Launch, Locals, Local, TypeOK, IsHeld
    <3> QED BY <2>4, <3>1, LaunchTasks DEF WorkerUnique
  <2>5. CASE LaunchThrows(t)
    <3>1. task[t] \in Requests BY <2>5 DEF LaunchThrows, Locals, Local, TypeOK, Scheduled
    <3>2. /\ busy' = busy \ {task[t]} /\ task' = [task EXCEPT ![t] = None]
          /\ UNCHANGED <<tasks, work>>
      BY <2>5 DEF LaunchThrows, End, Leave
    <3> QED BY <3>1, <3>2, EndTasks
  <2> QED BY <1>1, <2>1, <2>2, <2>3, <2>4, <2>5 DEF Scheduling
<1>2. ASSUME NEW r \in Requests, Start(r) PROVE TaskInv'
  <2>1. /\ task[r] = None /\ r \notin busy /\ UNCHANGED <<tasks, work>>
        /\ busy' = busy \cup {r} /\ task' = [task EXCEPT ![r] = r]
    BY <1>2 DEF Start, Schedule, Locals, Local, Scheduled
  <2> QED BY <2>1, StartTasks
<1>3. ASSUME NEW w \in Workers, CallbackStep(w) \/ Overtake(w) PROVE TaskInv'
  <2>1. CASE Finish(w) \/ Overtake(w) \/ Release(w) \/ Restore(w)
    BY <2>1, TasksStay DEF Finish, Overtake, Release, Restore
  <2>2. at[w] = "cb" => work[w] \in Requests /\ work[w] \in busy /\ task[w] = None
    BY DEF Locals, Local, TypeOK, Scheduled, TaskInv, TaskOfBusy
  <2>3. CASE Call(w)
    <3>1. /\ busy' = busy \ {work[w]} /\ work' = [work EXCEPT ![w] = None]
          /\ UNCHANGED <<tasks, task>> /\ work[w] \in Requests
      BY <2>2, <2>3 DEF Call, End
    <3> QED BY <3>1, EndTasks
  <2>4. CASE CallRestarts(w)
    <3>1. /\ busy' = busy \cup {work[w]} /\ work' = [work EXCEPT ![w] = None]
          /\ task' = [task EXCEPT ![w] = work[w]]
          /\ UNCHANGED tasks /\ work[w] \in Requests /\ task[w] = None
      BY <2>2, <2>4 DEF CallRestarts, Schedule
    <3> QED BY <3>1, StartTasks
  <2>5. CASE PopAgnostic(w)
    <3>1. CASE PopFrom(w, NoDevice) BY <2>5, <3>1, PopTasks DEF PopAgnostic, Queues
    <3>2. CASE NothingIn(w, NoDevice, "specific")
      BY <2>5, <3>2, TasksStay DEF PopAgnostic, NothingIn
    <3> QED BY <2>5, <3>1, <3>2 DEF PopAgnostic
  <2>6. CASE PopSpecific(w)
    <3>0. DeviceOf[w] \in Queues BY MultiAssumption DEF Queues
    <3>1. CASE PopFrom(w, DeviceOf[w]) BY <2>6, <3>0, <3>1, PopTasks DEF PopSpecific
    <3>2. CASE NothingIn(w, DeviceOf[w], "restore")
      BY <2>6, <3>2, TasksStay DEF PopSpecific, NothingIn
    <3> QED BY <2>6, <3>1, <3>2 DEF PopSpecific
  <2> QED BY <1>3, <2>1, <2>3, <2>4, <2>5, <2>6 DEF CallbackStep
<1>4. UNCHANGED <<tasks, task, work, busy>> => TaskInv' BY TasksStay
<1> QED BY <1>1, <1>2, <1>3, <1>4, Steps, NetworkKeeps

(***************************************************************************)
(* The workers.                                                            *)
(***************************************************************************)

\* A step that moves no worker leaves each where it is.
LEMMA WorkersStay ==
    ASSUME WorkerInv, UNCHANGED <<idle, popped, work>>,
           failed \subseteq failed', closed \subseteq closed',
           \A w \in Workers : InCallback(w)' <=> InCallback(w),
           \A d \in Devices : Loaded(d)' <=> Loaded(d)
    PROVE  WorkerInv'
<1>1. \A w : (IsIdle(w)' <=> IsIdle(w)) /\ (IsHeld(w)' <=> IsHeld(w)) BY DEF IsIdle, IsHeld
<1>2. \A w \in Workers : DeviceOf[w] \in Devices BY MultiAssumption
<1>3. WorkerUnique' BY <1>1 DEF WorkerInv, WorkerUnique
<1>4. WorkerSomewhere' BY <1>1, <1>2 DEF WorkerInv, WorkerSomewhere
<1>5. Unloaded' BY <1>1, <1>2 DEF WorkerInv, Unloaded
<1> QED BY <1>3, <1>4, <1>5 DEF WorkerInv

\* The scheduler takes the first worker of an idle list.
LEMMA TakeWorker ==
    ASSUME TypeOK, WorkerInv, NEW t \in Threads, NEW d \in Devices, idle[d] # <<>>,
           popped[t] = None,
           idle' = [idle EXCEPT ![d] = Tail(idle[d])],
           popped' = [popped EXCEPT ![t] = Head(idle[d])],
           UNCHANGED <<work, failed, closed, load>>,
           \A w \in Workers : InCallback(w)' <=> InCallback(w)
    PROVE  WorkerInv'
<1>a. None \notin Workers /\ \A w \in Workers : DeviceOf[w] \in Devices BY MultiAssumption
<1>b. PICK v : v = Head(idle[d]) OBVIOUS
<1>c. /\ idle \in [Devices -> Seq(Workers)] /\ popped \in [Threads -> Workers \cup {None}]
  BY DEF TypeOK
<1>d. v \in Workers /\ v = idle[d][1] /\ 1 \in 1..Len(idle[d]) /\ v # None
  BY <1>a, <1>b, <1>c
<1>e. /\ \A e \in Devices : e # d => idle'[e] = idle[e]
      /\ Len(idle'[d]) = Len(idle[d]) - 1 /\ Len(idle[d]) \in Nat
      /\ \A i \in 1..Len(idle'[d]) : idle'[d][i] = idle[d][i + 1]
  BY <1>c
<1>f. \A e \in Devices : \A i \in 1..Len(idle'[e]) :
        \E j \in 1..Len(idle[e]) :
            idle'[e][i] = idle[e][j] /\ j = IF e = d THEN i + 1 ELSE i
  BY <1>c, <1>e
<1>g. \A u \in Threads : popped'[u] = IF u = t THEN v ELSE popped[u] BY <1>b, <1>c
<1>h. IsIdle(v) BY <1>d DEF IsIdle
<1>i. ~IsHeld(v) /\ work[v] = None /\ ~InCallback(v)
  BY <1>d, <1>h DEF WorkerInv, WorkerUnique
<1>j. DeviceOf[v] = d BY <1>d DEF WorkerInv, WorkerUnique
<1>k. ~IsIdle(v)'
  <2> SUFFICES ASSUME NEW e \in Devices, NEW i \in 1..Len(idle'[e]), idle'[e][i] = v
               PROVE  FALSE
    BY DEF IsIdle
  <2>1. PICK j \in 1..Len(idle[e]) : /\ idle'[e][i] = idle[e][j]
                                     /\ j = IF e = d THEN i + 1 ELSE i
    BY <1>f
  <2>2. idle[e][j] = v BY <2>1
  <2>3. e = d BY <1>j, <2>2 DEF WorkerInv, WorkerUnique
  <2>4. j = 1 BY <1>d, <2>2, <2>3 DEF WorkerInv, WorkerUnique
  <2> QED BY <2>1, <2>3, <2>4
<1>l. \A w \in Workers : w # v => (IsIdle(w)' <=> IsIdle(w))
  <2> SUFFICES ASSUME NEW w \in Workers, w # v PROVE IsIdle(w)' <=> IsIdle(w)
    OBVIOUS
  <2>1. ASSUME IsIdle(w)' PROVE IsIdle(w) BY <1>f, <2>1 DEF IsIdle
  <2>2. ASSUME IsIdle(w) PROVE IsIdle(w)'
    <3>1. PICK e \in Devices : \E i \in 1..Len(idle[e]) : idle[e][i] = w BY <2>2 DEF IsIdle
    <3>2. PICK i \in 1..Len(idle[e]) : idle[e][i] = w BY <3>1
    <3>3. CASE e # d BY <1>e, <3>2, <3>3 DEF IsIdle
    <3>4. CASE e = d
      <4>1. i # 1 BY <1>d, <3>2, <3>4
      <4>2. i - 1 \in 1..Len(idle'[d]) /\ (i - 1) + 1 = i BY <1>e, <3>4, <4>1
      <4>3. idle'[d][i - 1] = w BY <1>e, <3>2, <3>4, <4>2
      <4> QED BY <4>2, <4>3 DEF IsIdle
    <3> QED BY <3>3, <3>4
  <2> QED BY <2>1, <2>2
<1>m. /\ IsHeld(v)'
      /\ \A w \in Workers : w # v => (IsHeld(w)' <=> IsHeld(w))
  BY <1>a, <1>g DEF IsHeld
<1>1. WorkerUnique'
  <2>1. (\A e \in Devices : \A i \in 1..Len(idle[e]) : DeviceOf[idle[e][i]] = e)'
    <3> SUFFICES ASSUME NEW e \in Devices, NEW i \in 1..Len(idle'[e])
                 PROVE  DeviceOf[idle'[e][i]] = e
      OBVIOUS
    <3>1. PICK j \in 1..Len(idle[e]) : idle'[e][i] = idle[e][j] BY <1>f
    <3> QED BY <3>1 DEF WorkerInv, WorkerUnique
  <2>2. (\A e \in Devices : \A i, j \in 1..Len(idle[e]) : idle[e][i] = idle[e][j] => i = j)'
    <3> SUFFICES ASSUME NEW e \in Devices, NEW i \in 1..Len(idle'[e]),
                        NEW j \in 1..Len(idle'[e]), idle'[e][i] = idle'[e][j]
                 PROVE  i = j
      OBVIOUS
    <3>1. PICK k \in 1..Len(idle[e]) : idle'[e][i] = idle[e][k] /\ k = IF e = d THEN i + 1 ELSE i
      BY <1>f
    <3>2. PICK l \in 1..Len(idle[e]) : idle'[e][j] = idle[e][l] /\ l = IF e = d THEN j + 1 ELSE j
      BY <1>f
    <3>3. idle[e][k] = idle[e][l] BY <3>1, <3>2
    <3>4. k = l BY <3>3 DEF WorkerInv, WorkerUnique
    <3> QED BY <3>1, <3>2, <3>4
  <2>3. (\A u, x \in Threads : popped[u] # None /\ popped[u] = popped[x] => u = x)'
    BY <1>g, <1>i DEF WorkerInv, WorkerUnique, IsHeld
  <2>4. (\A w \in Workers : IsIdle(w) => ~IsHeld(w) /\ work[w] = None /\ ~InCallback(w))'
    BY <1>k, <1>l, <1>m DEF WorkerInv, WorkerUnique
  <2>5. (\A w \in Workers : IsHeld(w) => work[w] = None /\ ~InCallback(w))'
    BY <1>i, <1>m DEF WorkerInv, WorkerUnique
  <2>6. (\A w \in Workers : InCallback(w) => work[w] = None)'
    BY DEF WorkerInv, WorkerUnique
  <2> QED BY <2>1, <2>2, <2>3, <2>4, <2>5, <2>6 DEF WorkerUnique
<1>n. \A e : Loaded(e)' <=> Loaded(e) BY DEF Loaded
<1>2. WorkerSomewhere' BY <1>l, <1>m, <1>n DEF WorkerInv, WorkerSomewhere
<1>3. Unloaded' BY <1>d, <1>h, <1>k, <1>l, <1>m, <1>n DEF WorkerInv, Unloaded
<1> QED BY <1>1, <1>2, <1>3 DEF WorkerInv

\* A worker that is held is started with a task, or goes missing.
LEMMA StartWorker ==
    ASSUME TypeOK, WorkerInv, NEW t \in Threads, popped[t] \in Workers,
           popped' = [popped EXCEPT ![t] = None],
           UNCHANGED <<idle, closed, load>>,
           \/ /\ \E r \in Requests : work' = [work EXCEPT ![popped[t]] = r]
              /\ UNCHANGED failed
           \/ UNCHANGED work /\ failed' = failed \cup {popped[t]},
           \A w \in Workers : InCallback(w)' <=> InCallback(w)
    PROVE  WorkerInv'
<1>a. /\ None \notin Workers /\ None \notin Requests
      /\ \A w \in Workers : DeviceOf[w] \in Devices
  BY MultiAssumption
<1>b. PICK v \in Workers : v = popped[t] OBVIOUS
<1>c. /\ popped \in [Threads -> Workers \cup {None}] /\ work \in [Workers -> Requests \cup {None}]
  BY DEF TypeOK
<1>d. \A u \in Threads : popped'[u] = IF u = t THEN None ELSE popped[u] BY <1>c
<1>e. IsHeld(v) BY <1>b DEF IsHeld
<1>f. ~IsIdle(v) /\ work[v] = None /\ ~InCallback(v)
  BY <1>e DEF WorkerInv, WorkerUnique
<1>g. \A w : IsIdle(w)' <=> IsIdle(w) BY DEF IsIdle
<1>h. ~IsHeld(v)' BY <1>a, <1>b, <1>d DEF IsHeld, WorkerInv, WorkerUnique
<1>i. \A w \in Workers : w # v => (IsHeld(w)' <=> IsHeld(w)) /\ work'[w] = work[w]
  BY <1>a, <1>b, <1>c, <1>d DEF IsHeld
<1>j. work'[v] # None \/ v \in failed' BY <1>a, <1>b, <1>c
<1>k. failed' \subseteq failed \cup {v} /\ failed \subseteq failed' BY <1>b
<1>n. \A e : Loaded(e)' <=> Loaded(e) BY DEF Loaded
<1>1. WorkerUnique'
  <2>1. (\A u, x \in Threads : popped[u] # None /\ popped[u] = popped[x] => u = x)'
    BY <1>d DEF WorkerInv, WorkerUnique
  <2>2. (\A w \in Workers : IsIdle(w) => ~IsHeld(w) /\ work[w] = None /\ ~InCallback(w))'
    BY <1>f, <1>g, <1>i DEF WorkerInv, WorkerUnique
  <2>3. (\A w \in Workers : IsHeld(w) => work[w] = None /\ ~InCallback(w))'
    BY <1>h, <1>i DEF WorkerInv, WorkerUnique
  <2>4. (\A w \in Workers : InCallback(w) => work[w] = None)'
    BY <1>f, <1>i DEF WorkerInv, WorkerUnique
  <2>5. (/\ \A d \in Devices : \A i \in 1..Len(idle[d]) : DeviceOf[idle[d][i]] = d
         /\ \A d \in Devices : \A i, j \in 1..Len(idle[d]) : idle[d][i] = idle[d][j] => i = j)'
    BY DEF WorkerInv, WorkerUnique
  <2> QED BY <2>1, <2>2, <2>3, <2>4, <2>5 DEF WorkerUnique
<1>2. WorkerSomewhere' BY <1>g, <1>i, <1>j, <1>k, <1>n DEF WorkerInv, WorkerSomewhere
<1>3. Unloaded' BY <1>e, <1>g, <1>h, <1>i, <1>n DEF WorkerInv, Unloaded
<1> QED BY <1>1, <1>2, <1>3 DEF WorkerInv

\* The last stage ends a worker's work, and its callback goes on.
LEMMA EndWorker ==
    ASSUME TypeOK, WorkerInv, NEW w \in Workers, work[w] # None,
           work' = [work EXCEPT ![w] = None],
           UNCHANGED <<idle, popped, failed, closed, load>>,
           InCallback(w)', \A v \in Workers : v # w => (InCallback(v)' <=> InCallback(v))
    PROVE  WorkerInv'
<1>a. \A v \in Workers : work'[v] = IF v = w THEN None ELSE work[v] BY DEF TypeOK
<1>b. \A v : (IsIdle(v)' <=> IsIdle(v)) /\ (IsHeld(v)' <=> IsHeld(v)) BY DEF IsIdle, IsHeld
<1>c. ~IsIdle(w) /\ ~IsHeld(w) /\ ~InCallback(w) BY DEF WorkerInv, WorkerUnique
<1>n. \A e : Loaded(e)' <=> Loaded(e) BY DEF Loaded
<1>1. WorkerUnique' BY <1>a, <1>b, <1>c DEF WorkerInv, WorkerUnique
<1>2. WorkerSomewhere' BY <1>a, <1>b, <1>n DEF WorkerInv, WorkerSomewhere
<1>3. Unloaded' BY <1>a, <1>b, <1>n DEF WorkerInv, Unloaded
<1> QED BY <1>1, <1>2, <1>3 DEF WorkerInv

\* The callback puts its worker at the end of the idle list.
LEMMA PushWorker ==
    ASSUME TypeOK, WorkerInv, NEW w \in Workers, InCallback(w), ~InCallback(w)',
           idle' = [idle EXCEPT ![DeviceOf[w]] = Append(idle[DeviceOf[w]], w)],
           UNCHANGED <<popped, work, failed, closed, load>>,
           \A v \in Workers : v # w => (InCallback(v)' <=> InCallback(v))
    PROVE  WorkerInv'
<1>a. \A v \in Workers : DeviceOf[v] \in Devices BY MultiAssumption
<1>b. PICK d \in Devices : d = DeviceOf[w] BY <1>a
<1>c. idle \in [Devices -> Seq(Workers)] BY DEF TypeOK
<1>e. /\ \A e \in Devices : e # d => idle'[e] = idle[e]
      /\ Len(idle'[d]) = Len(idle[d]) + 1 /\ Len(idle[d]) \in Nat
      /\ \A i \in 1..Len(idle[d]) : idle'[d][i] = idle[d][i]
      /\ idle'[d][Len(idle[d]) + 1] = w
  BY <1>b, <1>c
<1>f. \A e \in Devices : \A i \in 1..Len(idle'[e]) :
        \/ e = d /\ i = Len(idle[d]) + 1 /\ idle'[e][i] = w
        \/ i \in 1..Len(idle[e]) /\ idle'[e][i] = idle[e][i]
  BY <1>c, <1>e
<1>g. \A e \in Devices : \A i \in 1..Len(idle[e]) :
        i \in 1..Len(idle'[e]) /\ idle'[e][i] = idle[e][i]
  BY <1>c, <1>e
<1>h. work[w] = None /\ ~IsIdle(w) /\ ~IsHeld(w) BY DEF WorkerInv, WorkerUnique
<1>i. \A e \in Devices : \A i \in 1..Len(idle[e]) : idle[e][i] # w BY <1>h DEF IsIdle
<1>j. \A v : IsHeld(v)' <=> IsHeld(v) BY DEF IsHeld
<1>k. IsIdle(w)'
  <2>1. Len(idle[d]) + 1 \in 1..Len(idle'[d]) BY <1>e
  <2> QED BY <1>e, <2>1 DEF IsIdle
<1>l. \A v : v # w => (IsIdle(v)' <=> IsIdle(v))
  <2>1. ASSUME NEW v, IsIdle(v)', v # w PROVE IsIdle(v) BY <1>f, <2>1 DEF IsIdle
  <2>2. ASSUME NEW v, IsIdle(v) PROVE IsIdle(v)' BY <1>g, <2>2 DEF IsIdle
  <2> QED BY <2>1, <2>2
<1>n. \A e : Loaded(e)' <=> Loaded(e) BY DEF Loaded
<1>1. WorkerUnique'
  <2>1. (\A e \in Devices : \A i \in 1..Len(idle[e]) : DeviceOf[idle[e][i]] = e)'
    <3> SUFFICES ASSUME NEW e \in Devices, NEW i \in 1..Len(idle'[e])
                 PROVE  DeviceOf[idle'[e][i]] = e
      OBVIOUS
    <3> QED BY <1>b, <1>f DEF WorkerInv, WorkerUnique
  <2>2. (\A e \in Devices : \A i, j \in 1..Len(idle[e]) : idle[e][i] = idle[e][j] => i = j)'
    <3> SUFFICES ASSUME NEW e \in Devices, NEW i \in 1..Len(idle'[e]),
                        NEW j \in 1..Len(idle'[e]), idle'[e][i] = idle'[e][j]
                 PROVE  i = j
      OBVIOUS
    <3>1. CASE idle'[e][i] = w BY <1>f, <1>i, <3>1
    <3>2. CASE idle'[e][i] # w
      <4>1. i \in 1..Len(idle[e]) /\ idle'[e][i] = idle[e][i] BY <1>f, <3>2
      <4>2. j \in 1..Len(idle[e]) /\ idle'[e][j] = idle[e][j] BY <1>f, <3>2
      <4>3. idle[e][i] = idle[e][j] BY <4>1, <4>2
      <4> QED BY <4>1, <4>2, <4>3 DEF WorkerInv, WorkerUnique
    <3> QED BY <3>1, <3>2
  <2>3. (\A u, x \in Threads : popped[u] # None /\ popped[u] = popped[x] => u = x)'
    BY DEF WorkerInv, WorkerUnique
  <2>4. (\A v \in Workers : IsIdle(v) => ~IsHeld(v) /\ work[v] = None /\ ~InCallback(v))'
    BY <1>h, <1>j, <1>l DEF WorkerInv, WorkerUnique
  <2>5. (\A v \in Workers : IsHeld(v) => work[v] = None /\ ~InCallback(v))'
    BY <1>j DEF WorkerInv, WorkerUnique
  <2>6. (\A v \in Workers : InCallback(v) => work[v] = None)'
    BY DEF WorkerInv, WorkerUnique
  <2> QED BY <2>1, <2>2, <2>3, <2>4, <2>5, <2>6 DEF WorkerUnique
<1>2. WorkerSomewhere' BY <1>j, <1>k, <1>l, <1>n DEF WorkerInv, WorkerSomewhere
<1>3. Unloaded' BY <1>j, <1>l, <1>n DEF WorkerInv, Unloaded
<1> QED BY <1>1, <1>2, <1>3 DEF WorkerInv

\* The workers of a device are generated.
LEMMA GenerateWorkers ==
    ASSUME TypeOK, WorkerInv, NEW d \in Devices, Generate(d)
    PROVE  WorkerInv'
<1>a. \A w \in Workers : DeviceOf[w] \in Devices BY MultiAssumption
<1>b. /\ idle \in [Devices -> Seq(Workers)]
      /\ load \in [Devices -> {"none", "loading", "generated", "flagged", "ready", "failed"}]
  BY DEF TypeOK
<1>c. /\ idle' = [idle EXCEPT ![d] = IdleOf(d)] /\ load[d] = "loading"
      /\ \A e \in Devices : load'[e] = IF e # d THEN load[e]
                                       ELSE IF d = Cpu THEN "flagged" ELSE "generated"
      /\ UNCHANGED <<popped, work, failed, closed, at, back>>
  BY <1>b DEF Generate
<1>d. PICK s : s = IdleOf(d) OBVIOUS
<1>e. /\ \A i \in 1..Len(s) : DeviceOf[s[i]] = d
      /\ \A i, j \in 1..Len(s) : s[i] = s[j] => i = j
      /\ \A w \in Workers : DeviceOf[w] = d => \E i \in 1..Len(s) : s[i] = w
  BY <1>d, IdleOfDevice
<1>f. \A e \in Devices : idle'[e] = IF e = d THEN s ELSE idle[e] BY <1>b, <1>c, <1>d
<1>g. ~Loaded(d) BY <1>c DEF Loaded
<1>h. Loaded(d)' BY <1>c DEF Loaded
<1>i. \A e \in Devices : e # d => (Loaded(e)' <=> Loaded(e)) BY <1>c DEF Loaded
<1>j. \A w \in Workers : DeviceOf[w] = d => IsIdle(w)'
  <2> SUFFICES ASSUME NEW w \in Workers, DeviceOf[w] = d PROVE IsIdle(w)'
    OBVIOUS
  <2>1. \E i \in 1..Len(idle'[d]) : idle'[d][i] = w BY <1>e, <1>f
  <2> QED BY <2>1 DEF IsIdle
<1>k. \A w \in Workers : DeviceOf[w] # d => (IsIdle(w)' <=> IsIdle(w))
  <2> SUFFICES ASSUME NEW w \in Workers, DeviceOf[w] # d PROVE IsIdle(w)' <=> IsIdle(w)
    OBVIOUS
  <2>1. ASSUME IsIdle(w)' PROVE IsIdle(w) BY <1>e, <1>f, <2>1 DEF IsIdle
  <2>2. ASSUME IsIdle(w) PROVE IsIdle(w)'
    <3>1. PICK e \in Devices : \E i \in 1..Len(idle[e]) : idle[e][i] = w BY <2>2 DEF IsIdle
    <3>2. e # d BY <3>1 DEF WorkerInv, WorkerUnique
    <3> QED BY <1>f, <3>1, <3>2 DEF IsIdle
  <2> QED BY <2>1, <2>2
<1>l. \A w : (IsHeld(w)' <=> IsHeld(w)) /\ (InCallback(w)' <=> InCallback(w))
  BY <1>c DEF IsHeld, InCallback
<1>m. \A w \in Workers : DeviceOf[w] = d => ~IsHeld(w) /\ work[w] = None /\ ~InCallback(w)
  BY <1>g DEF WorkerInv, Unloaded
<1>1. WorkerUnique'
  <2>1. (\A e \in Devices : \A i \in 1..Len(idle[e]) : DeviceOf[idle[e][i]] = e)'
    BY <1>e, <1>f DEF WorkerInv, WorkerUnique
  <2>2. (\A e \in Devices : \A i, j \in 1..Len(idle[e]) : idle[e][i] = idle[e][j] => i = j)'
    BY <1>e, <1>f DEF WorkerInv, WorkerUnique
  <2>3. (\A u, x \in Threads : popped[u] # None /\ popped[u] = popped[x] => u = x)'
    BY <1>c DEF WorkerInv, WorkerUnique
  <2>4. (\A w \in Workers : IsIdle(w) => ~IsHeld(w) /\ work[w] = None /\ ~InCallback(w))'
    BY <1>c, <1>k, <1>l, <1>m DEF WorkerInv, WorkerUnique
  <2>5. (\A w \in Workers : IsHeld(w) => work[w] = None /\ ~InCallback(w))'
    BY <1>c, <1>l DEF WorkerInv, WorkerUnique
  <2>6. (\A w \in Workers : InCallback(w) => work[w] = None)'
    BY <1>c, <1>l DEF WorkerInv, WorkerUnique
  <2> QED BY <2>1, <2>2, <2>3, <2>4, <2>5, <2>6 DEF WorkerUnique
<1>2. WorkerSomewhere' BY <1>a, <1>c, <1>i, <1>j, <1>k, <1>l DEF WorkerInv, WorkerSomewhere
<1>3. Unloaded' BY <1>a, <1>c, <1>h, <1>i, <1>k, <1>l DEF WorkerInv, Unloaded
<1> QED BY <1>1, <1>2, <1>3 DEF WorkerInv

\* ScheduleToWorkerInferRequest takes one idle worker, and starts it or gives it back.
LEMMA SchedulingWorkers ==
    ASSUME TypeOK, Locals, WorkerInv, NEW t \in Threads, Scheduling(t)
    PROVE  WorkerInv'
<1>a. None \notin Workers /\ None \notin Requests /\ Requests \cap Workers = {}
  BY MultiAssumption
<1>b. Local(t) BY DEF Locals
<1>n. UNCHANGED load => \A e : Loaded(e)' <=> Loaded(e) BY DEF Loaded
<1>1. CASE Pick(t)
  <2>1. \A w \in Workers : InCallback(w)' <=> InCallback(w)
    BY <1>1 DEF Pick, InCallback, TypeOK
  <2> QED BY <1>1, <1>n, <2>1, WorkersStay DEF Pick
<1>2. CASE TryPop(t)
  <2> PICK d : d = Head(devices[t]) OBVIOUS
  <2>1. \A w \in Workers : InCallback(w)' <=> InCallback(w)
    BY <1>2 DEF TryPop, InCallback, TypeOK
  <2>2. CASE idle[d] # <<>> /\ d \notin closed
    <3>1. devices[t] \in Orders /\ devices[t] # <<>> BY <1>2 DEF TryPop, TypeOK
    <3>2. devices[t] \in Seq(Devices) BY <3>1, OrdersAreSequences
    <3>3. d \in Devices BY <3>1, <3>2
    <3>4. popped[t] = None BY <1>2, <1>b DEF TryPop, Local
    <3>5. /\ idle' = [idle EXCEPT ![d] = Tail(idle[d])]
          /\ popped' = [popped EXCEPT ![t] = Head(idle[d])]
          /\ UNCHANGED <<work, failed, closed, load>>
      BY <1>2, <2>2 DEF TryPop, Taken
    <3> QED BY <2>1, <2>2, <3>3, <3>4, <3>5, TakeWorker
  <2>3. CASE ~(idle[d] # <<>> /\ d \notin closed)
    <3>1. UNCHANGED <<idle, popped, work, failed, closed, load>> BY <1>2, <2>3 DEF TryPop
    <3> QED BY <1>n, <2>1, <3>1, WorkersStay
  <2> QED BY <2>2, <2>3
<1>3. ASSUME Leave(t), at[t] \in Scheduled
      PROVE  \A w \in Workers : InCallback(w)' <=> InCallback(w)
  <2> SUFFICES ASSUME NEW w \in Workers PROVE InCallback(w)' <=> InCallback(w)
    OBVIOUS
  <2>1. CASE w # t BY <1>3, <2>1 DEF Leave, InCallback, TypeOK
  <2>2. CASE w = t
    <3>1. back[w] \in {"release", "restore"} BY <1>3, <1>b, <2>2 DEF Local
    <3>2. at'[w] = back[w] /\ back'[w] = "out" BY <1>3, <2>2 DEF Leave, TypeOK
    <3>3. at[w] # "release" BY <1>3, <2>2 DEF Scheduled
    <3> QED BY <3>1, <3>2, <3>3 DEF InCallback
  <2> QED BY <2>1, <2>2
<1>4. CASE Store(t)
  <2>1. popped[t] = None BY <1>4, <1>b DEF Store, Local
  <2>2. popped' = popped BY <1>4, <2>1 DEF Store, Leave, TypeOK
  <2>3. \A w \in Workers : InCallback(w)' <=> InCallback(w)
    BY <1>3, <1>4 DEF Store, Scheduled
  <2> QED BY <1>4, <1>n, <2>2, <2>3, WorkersStay DEF Store
<1>5. CASE Launch(t)
  <2>1. popped[t] \in Workers /\ task[t] \in Requests
    BY <1>5, <1>b DEF Launch, Local, TypeOK, Scheduled
  <2>2. \A w \in Workers : InCallback(w)' <=> InCallback(w)
    BY <1>3, <1>5 DEF Launch, Scheduled
  <2>3. /\ popped' = [popped EXCEPT ![t] = None]
        /\ work' = [work EXCEPT ![popped[t]] = task[t]]
        /\ UNCHANGED <<idle, closed, load, failed>>
    BY <1>5 DEF Launch, Leave
  <2> QED BY <2>1, <2>2, <2>3, StartWorker
<1>6. CASE LaunchThrows(t)
  <2>1. popped[t] \in Workers
    BY <1>6, <1>b DEF LaunchThrows, Local, TypeOK
  <2>2. \A w \in Workers : InCallback(w)' <=> InCallback(w)
    BY <1>3, <1>6 DEF LaunchThrows, Scheduled
  <2>3. /\ popped' = [popped EXCEPT ![t] = None]
        /\ failed' = failed \cup {popped[t]}
        /\ UNCHANGED <<idle, closed, load, work>>
    BY <1>6 DEF LaunchThrows, Leave
  <2> QED BY <2>1, <2>2, <2>3, StartWorker
<1> QED BY <1>1, <1>2, <1>4, <1>5, <1>6 DEF Scheduling

\* A callback releases its own worker, and no other.
LEMMA CallbackWorkers ==
    ASSUME TypeOK, Locals, WorkerInv, NEW w \in Workers, CallbackStep(w) \/ Overtake(w)
    PROVE  WorkerInv'
<1>b. Local(w) BY DEF Locals
<1>n. UNCHANGED load => \A e : Loaded(e)' <=> Loaded(e) BY DEF Loaded
<1>1. CASE Finish(w)
  <2>1. \A v \in Workers : InCallback(v)' <=> InCallback(v)
    BY <1>1 DEF Finish, InCallback, TypeOK
  <2> QED BY <1>1, <1>n, <2>1, WorkersStay DEF Finish
<1>2. CASE Overtake(w)
  <2>1. \A v \in Workers : InCallback(v)' <=> InCallback(v)
    BY <1>2 DEF Overtake, InCallback
  <2> QED BY <1>2, <1>n, <2>1, WorkersStay DEF Overtake
<1>3. CASE Call(w)
  <2>1. work[w] # None BY <1>3, <1>b DEF Call, Local
  <2>2. InCallback(w)' /\ \A v \in Workers : v # w => (InCallback(v)' <=> InCallback(v))
    BY <1>3 DEF Call, InCallback, TypeOK
  <2>3. /\ work' = [work EXCEPT ![w] = None]
        /\ UNCHANGED <<idle, popped, failed, closed, load>>
    BY <1>3 DEF Call
  <2> QED BY <2>1, <2>2, <2>3, EndWorker
<1>4. CASE CallRestarts(w)
  <2>1. work[w] # None BY <1>4, <1>b DEF CallRestarts, Local
  <2>2. InCallback(w)' /\ \A v \in Workers : v # w => (InCallback(v)' <=> InCallback(v))
    BY <1>4 DEF CallRestarts, Schedule, InCallback, TypeOK
  <2>3. /\ work' = [work EXCEPT ![w] = None]
        /\ UNCHANGED <<idle, popped, failed, closed, load>>
    BY <1>4 DEF CallRestarts, Schedule
  <2> QED BY <2>1, <2>2, <2>3, EndWorker
<1>5. CASE Release(w)
  <2>0. InCallback(w) /\ back[w] = "out" BY <1>5, <1>b DEF Release, InCallback, Local, Scheduled
  <2>1. ~InCallback(w)' /\ \A v \in Workers : v # w => (InCallback(v)' <=> InCallback(v))
    BY <1>5, <2>0 DEF Release, InCallback, TypeOK
  <2>2. CASE DeviceOf[w] \notin closed
    <3>1. /\ idle' = [idle EXCEPT ![DeviceOf[w]] = Append(idle[DeviceOf[w]], w)]
          /\ UNCHANGED <<popped, work, failed, closed, load>>
      BY <1>5, <2>2 DEF Release
    <3> QED BY <2>0, <2>1, <3>1, PushWorker
  <2>3. CASE DeviceOf[w] \in closed
    <3>1. UNCHANGED <<idle, popped, work, failed, closed, load>> BY <1>5, <2>3 DEF Release
    <3>2. \A v : (IsIdle(v)' <=> IsIdle(v)) /\ (IsHeld(v)' <=> IsHeld(v))
      BY <3>1 DEF IsIdle, IsHeld
    <3>3. WorkerUnique' BY <2>1, <3>1, <3>2 DEF WorkerInv, WorkerUnique
    <3>4. WorkerSomewhere' BY <2>3, <3>1 DEF WorkerSomewhere
    <3>5. Unloaded' BY <1>n, <2>1, <3>1, <3>2 DEF WorkerInv, Unloaded
    <3> QED BY <3>3, <3>4, <3>5 DEF WorkerInv
  <2> QED BY <2>2, <2>3
<1>6. ASSUME NEW q, PopFrom(w, q), at[w] \in {"agnostic", "specific"}
      PROVE  \A v \in Workers : InCallback(v)' <=> InCallback(v)
  BY <1>6, <1>b DEF PopFrom, Schedule, InCallback, TypeOK, Local, Scheduled
<1>7. ASSUME NEW q, NEW to \in {"specific", "restore"}, NothingIn(w, q, to),
             at[w] \in {"agnostic", "specific"}
      PROVE  \A v \in Workers : InCallback(v)' <=> InCallback(v)
  BY <1>7, <1>b DEF NothingIn, InCallback, TypeOK, Local, Scheduled
<1>8. CASE PopAgnostic(w) \/ PopSpecific(w)
  <2>1. \A v \in Workers : InCallback(v)' <=> InCallback(v)
    BY <1>6, <1>7, <1>8 DEF PopAgnostic, PopSpecific
  <2>2. UNCHANGED <<idle, popped, work, failed, closed, load>>
    BY <1>8 DEF PopAgnostic, PopSpecific, PopFrom, NothingIn, Schedule
  <2> QED BY <1>n, <2>1, <2>2, WorkersStay
<1>9. CASE Restore(w)
  <2>1. \A v \in Workers : InCallback(v)' <=> InCallback(v)
    BY <1>9 DEF Restore, InCallback, TypeOK
  <2> QED BY <1>9, <1>n, <2>1, WorkersStay DEF Restore
<1> QED BY <1>1, <1>2, <1>3, <1>4, <1>5, <1>8, <1>9 DEF CallbackStep

\* Every step leaves each worker in one place.
LEMMA WorkersInv ==
    ASSUME TypeOK, Locals, WorkerInv, [Next]_vars
    PROVE  WorkerInv'
<1>n. UNCHANGED load => \A e : Loaded(e)' <=> Loaded(e) BY DEF Loaded
<1>1. ASSUME NEW r \in Requests, Start(r) PROVE WorkerInv'
  <2>1. r \notin Workers BY MultiAssumption
  <2>2. \A v \in Workers : InCallback(v)' <=> InCallback(v)
    BY <1>1, <2>1 DEF Start, Schedule, InCallback, TypeOK
  <2> QED BY <1>1, <1>n, <2>2, WorkersStay DEF Start, Schedule
<1>2. ASSUME UNCHANGED <<at, back, idle, popped, work, failed>>, closed \subseteq closed',
             \A d \in Devices : Loaded(d)' <=> Loaded(d)
      PROVE  WorkerInv'
  <2>1. \A v : InCallback(v)' <=> InCallback(v) BY <1>2 DEF InCallback
  <2> QED BY <1>2, <2>1, WorkersStay
<1>3. ASSUME NEW d \in Devices, Flag(d) \/ SetPromise(d) \/ LoadThrows(d)
      PROVE  WorkerInv'
  <2>1. \A e \in Devices : Loaded(e)' <=> Loaded(e)
    BY <1>3 DEF Flag, SetPromise, LoadThrows, Loaded, TypeOK
  <2> QED BY <1>2, <1>3, <2>1 DEF Flag, SetPromise, LoadThrows
<1>4. ASSUME NEW d \in Devices, Close(d) PROVE WorkerInv' BY <1>2, <1>4, <1>n DEF Close
<1>5. CASE Construction \/ Ask \/ Destroy \/ StopLoading \/ Clear
           \/ \E s \in Orders : SetConfig(s)
  BY <1>2, <1>5, <1>n DEF Construction, SeeFlag, WaitFirst, Ask, Destroy, StopLoading, Clear, SetConfig
<1>6. CASE UNCHANGED vars BY <1>2, <1>6, <1>n DEF vars
<1> QED BY <1>1, <1>3, <1>4, <1>5, <1>6, Steps, SchedulingWorkers, CallbackWorkers,
           GenerateWorkers DEF Loading

(***************************************************************************)
(* The devices of the requests' blobs.                                     *)
(***************************************************************************)

\* A step that moves no task leaves it bound for the same device.
LEMMA WantedStays ==
    ASSUME Wanted, UNCHANGED <<tasks, task, preferred, devices, popped, work, wanted, selected>>
    PROVE  Wanted'
BY AcceleratorStays DEF Wanted, RunsWherePreferred, Queues

\* ScheduleToWorkerInferRequest gives a bound task to a worker of its device only.
LEMMA SchedulingWanted ==
    ASSUME TypeOK, Locals, TaskInv, WorkerInv, Wanted, NEW t \in Threads, Scheduling(t)
    PROVE  Wanted'
<1>a. None \notin Workers /\ None \notin Requests /\ NoDevice \notin Devices
  BY MultiAssumption
<1>b. Local(t) BY DEF Locals
<1>c. at[t] \in Scheduled => task[t] \in Requests BY <1>b DEF Local, TypeOK
<1>d. UNCHANGED selected /\ Accelerator' = Accelerator
  BY AcceleratorStays DEF Scheduling, Pick, TryPop, Store, Launch, LaunchThrows
<1>1. CASE Pick(t)
  <2>0. PICK s : devices' = [devices EXCEPT ![t] = s] /\
                 (preferred[t] # NoDevice => \A i \in 1..Len(s) : s[i] = preferred[t])
    <3>1. CASE selected = {}
      <4>1. devices' = [devices EXCEPT ![t] = Eligible(preferred[t])] BY <1>1, <3>1 DEF Pick
      <4>2. preferred[t] # NoDevice => \A i \in 1..Len(Eligible(preferred[t])) :
                                            Eligible(preferred[t])[i] = preferred[t]
        BY DEF Eligible
      <4> QED BY <4>1, <4>2
    <3>2. CASE selected # {} /\ preferred[t] = NoDevice BY <1>1, <3>2 DEF Pick
    <3>3. CASE selected # {} /\ preferred[t] # NoDevice
      <4>1. devices' = [devices EXCEPT ![t] = <<Accelerator>>] BY <1>1, <3>3 DEF Pick
      <4>2. task[t] \in Requests BY <1>1, <1>c DEF Pick, Scheduled
      <4>3. preferred[t] = Accelerator BY <1>a, <3>3, <4>2 DEF Wanted
      <4>4. \A i \in 1..Len(<<Accelerator>>) : <<Accelerator>>[i] = preferred[t]
        BY <4>3
      <4> QED BY <4>1, <4>4
    <3> QED BY <3>1, <3>2, <3>3
  <2>1. \A u \in Threads : devices'[u] = IF u = t THEN s ELSE devices[u]
    BY <2>0 DEF TypeOK
  <2>2. UNCHANGED <<tasks, task, preferred, popped, work, wanted>> BY <1>1 DEF Pick
  <2> QED BY <1>d, <2>0, <2>1, <2>2 DEF Wanted, RunsWherePreferred, Queues
<1>2. CASE TryPop(t)
  <2> PICK d : d = Head(devices[t]) OBVIOUS
  <2>0. UNCHANGED <<tasks, task, preferred, work, wanted>> BY <1>2 DEF TryPop
  <2>1. devices[t] \in Orders /\ devices[t] # <<>> BY <1>2 DEF TryPop, TypeOK
  <2>2. devices[t] \in Seq(Devices) BY <2>1, OrdersAreSequences
  <2>3. d \in Devices /\ d = devices[t][1] /\ 1 \in 1..Len(devices[t]) BY <2>1, <2>2
  <2>4. preferred[t] # NoDevice => d = preferred[t] BY <2>3 DEF Wanted
  <2>5. CASE idle[d] # <<>> /\ d \notin closed
    <3>0. /\ devices' = [devices EXCEPT ![t] = <<>>]
          /\ popped' = [popped EXCEPT ![t] = Head(idle[d])]
      BY <1>2, <2>5 DEF TryPop
    <3>1. PICK v : v = Head(idle[d]) OBVIOUS
    <3>2. v = idle[d][1] /\ 1 \in 1..Len(idle[d]) BY <2>3, <2>5, <3>1 DEF TypeOK
    <3>3. DeviceOf[v] = d BY <2>3, <3>2 DEF WorkerInv, WorkerUnique
    <3>4. /\ \A u \in Threads : devices'[u] = IF u = t THEN <<>> ELSE devices[u]
          /\ \A u \in Threads : popped'[u] = IF u = t THEN v ELSE popped[u]
      BY <3>0, <3>1 DEF TypeOK
    <3> QED BY <1>d, <2>0, <2>4, <3>3, <3>4 DEF Wanted, RunsWherePreferred, Queues
  <2>6. CASE ~(idle[d] # <<>> /\ d \notin closed)
    <3>0. /\ devices' = [devices EXCEPT ![t] = Tail(devices[t])]
          /\ UNCHANGED popped
      BY <1>2, <2>6 DEF TryPop
    <3>1. PICK s : s = Tail(devices[t]) OBVIOUS
    <3>2. \A i \in 1..Len(s) : i + 1 \in 1..Len(devices[t]) /\ s[i] = devices[t][i + 1]
      BY <2>1, <2>2, <3>1
    <3>3. preferred[t] # NoDevice => \A i \in 1..Len(s) : s[i] = preferred[t]
      BY <3>2 DEF Wanted
    <3>4. \A u \in Threads : devices'[u] = IF u = t THEN s ELSE devices[u]
      BY <3>0, <3>1 DEF TypeOK
    <3> QED BY <1>d, <2>0, <3>0, <3>3, <3>4 DEF Wanted, RunsWherePreferred, Queues
  <2> QED BY <2>5, <2>6
<1>3. ASSUME Leave(t)
      PROVE  /\ \A u \in Threads : task'[u] = IF u = t THEN None ELSE task[u]
             /\ \A u \in Threads : preferred'[u] = IF u = t THEN NoDevice ELSE preferred[u]
             /\ \A u \in Threads : devices'[u] = IF u = t THEN <<>> ELSE devices[u]
             /\ \A u \in Threads : popped'[u] = IF u = t THEN None ELSE popped[u]
  <2>1. \A u \in Threads : task'[u] = IF u = t THEN None ELSE task[u]
    BY <1>3 DEF Leave, TypeOK
  <2>2. \A u \in Threads : preferred'[u] = IF u = t THEN NoDevice ELSE preferred[u]
    BY <1>3 DEF Leave, TypeOK
  <2>3. \A u \in Threads : devices'[u] = IF u = t THEN <<>> ELSE devices[u]
    BY <1>3 DEF Leave, TypeOK
  <2>4. \A u \in Threads : popped'[u] = IF u = t THEN None ELSE popped[u]
    BY <1>3 DEF Leave, TypeOK
  <2> QED BY <2>1, <2>2, <2>3, <2>4
<1>4. CASE Store(t)
  <2>1. Leave(t) /\ UNCHANGED <<work, wanted>> /\ task[t] \in Requests
    BY <1>4, <1>c DEF Store, Scheduled
  <2>2. PICK r \in Requests, q \in Queues : r = task[t] /\ q = preferred[t]
    BY <2>1 DEF TypeOK, Queues
  <2>3. wanted[r] = q BY <1>a, <2>2 DEF Wanted
  <2>4. tasks' = [tasks EXCEPT ![q] = Append(tasks[q], r)] BY <1>4, <2>2 DEF Store
  <2>5. tasks \in [Queues -> Seq(Requests)] BY DEF TypeOK, Queues
  <2>6. \A p \in Queues : \A i \in 1..Len(tasks'[p]) :
            \/ p = q /\ tasks'[p][i] = r
            \/ i \in 1..Len(tasks[p]) /\ tasks'[p][i] = tasks[p][i]
    BY <2>2, <2>4, <2>5
  <2>7. \A p \in Queues : \A i \in 1..Len(tasks'[p]) : wanted[tasks'[p][i]] = p
    BY <2>3, <2>6 DEF Wanted
  <2> QED BY <1>d, <1>3, <2>1, <2>7 DEF Wanted, RunsWherePreferred, Queues
<1>5. CASE Launch(t)
  <2>1. Leave(t) /\ UNCHANGED <<tasks, wanted>> /\ work' = [work EXCEPT ![popped[t]] = task[t]]
    BY <1>5 DEF Launch
  <2>2. popped[t] # None /\ task[t] # None BY <1>5, <1>b DEF Launch, Local, Scheduled
  <2>3. wanted[task[t]] \in {NoDevice, DeviceOf[popped[t]]} BY <2>2 DEF Wanted
  <2>4. \A w \in Workers : work'[w] = IF w = popped[t] THEN task[t] ELSE work[w]
    BY <2>1 DEF TypeOK
  <2> QED BY <1>d, <1>3, <2>1, <2>3, <2>4 DEF Wanted, RunsWherePreferred, Queues
<1>6. CASE LaunchThrows(t)
  <2>1. /\ Leave(t) /\ UNCHANGED <<tasks, work>> /\ task[t] \in Requests
        /\ wanted' = [wanted EXCEPT ![task[t]] = NoDevice]
    BY <1>6, <1>c DEF LaunchThrows, End, Scheduled
  <2>2. PICK r \in Requests : r = task[t] BY <2>1
  <2>3. \A x \in Requests : wanted'[x] = IF x = r THEN NoDevice ELSE wanted[x]
    BY <2>1, <2>2 DEF TypeOK
  <2>4. /\ \A u \in Threads : u # t => task[u] # r
        /\ \A p \in Queues : \A i \in 1..Len(tasks[p]) : tasks[p][i] # r /\ tasks[p][i] \in Requests
    BY <1>a, <2>2 DEF TaskInv, TaskUnique, TypeOK, Queues
  <2>5. (\A p \in Queues : \A i \in 1..Len(tasks[p]) : wanted[tasks[p][i]] = p)'
    BY <2>1, <2>3, <2>4 DEF Wanted, Queues
  <2>6. (\A u \in Threads : task[u] # None => wanted[task[u]] = preferred[u])'
    BY <1>3, <2>1, <2>3, <2>4 DEF Wanted, TypeOK
  <2>7. RunsWherePreferred' BY <2>1, <2>3 DEF Wanted, RunsWherePreferred, TypeOK
  <2> QED BY <1>d, <1>3, <2>1, <2>3, <2>5, <2>6, <2>7 DEF Wanted
<1> QED BY <1>1, <1>2, <1>4, <1>5, <1>6 DEF Scheduling

\* The run of a request ends, or a run is bound to a device.
LEMMA BindWanted ==
    ASSUME TypeOK, Locals, TaskInv, Wanted, NEW r \in Requests, NEW d \in Bound \cup {NoDevice},
           wanted' = [wanted EXCEPT ![r] = d],
           UNCHANGED <<tasks, devices, popped, selected>>,
           \A p \in Queues : \A i \in 1..Len(tasks[p]) : tasks[p][i] # r,
           \A u \in Threads : task[u] # r,
           \/ UNCHANGED <<task, preferred>>
           \/ \E t \in Threads : /\ devices[t] = <<>> /\ popped[t] = None
                                 /\ task' = [task EXCEPT ![t] = r]
                                 /\ preferred' = [preferred EXCEPT ![t] = d],
           \A w \in Workers : work'[w] # r /\ (work'[w] # None => work'[w] = work[w])
    PROVE  Wanted'
<1>a. None \notin Requests BY MultiAssumption
<1>d. Accelerator' = Accelerator BY AcceleratorStays
<1>1. \A x \in Requests : wanted'[x] = IF x = r THEN d ELSE wanted[x] BY DEF TypeOK
<1>2. (\A p \in Queues : \A i \in 1..Len(tasks[p]) : wanted[tasks[p][i]] = p)'
  <2>1. \A p \in Queues : \A i \in 1..Len(tasks[p]) : tasks[p][i] \in Requests
    BY DEF TypeOK, Queues
  <2> QED BY <1>1, <2>1 DEF Wanted, Queues
<1>3. CASE UNCHANGED <<task, preferred>>
  <2>1. (\A u \in Threads : task[u] # None => wanted[task[u]] = preferred[u])'
    BY <1>1, <1>3 DEF Wanted, TypeOK
  <2>2. RunsWherePreferred' BY <1>1 DEF Wanted, RunsWherePreferred, TypeOK
  <2>3. (selected # {} => \A x \in Requests : wanted[x] \in {NoDevice, Accelerator})'
    BY <1>1, <1>d DEF Wanted, Bound
  <2> QED BY <1>2, <1>3, <2>1, <2>2, <2>3 DEF Wanted
<1>4. ASSUME NEW t \in Threads, devices[t] = <<>>, popped[t] = None,
             task' = [task EXCEPT ![t] = r], preferred' = [preferred EXCEPT ![t] = d]
      PROVE  Wanted'
  <2>0. \A u \in Threads : /\ task'[u] = IF u = t THEN r ELSE task[u]
                           /\ preferred'[u] = IF u = t THEN d ELSE preferred[u]
    BY <1>4 DEF TypeOK
  <2>1. (\A u \in Threads : task[u] # None => wanted[task[u]] = preferred[u])'
    BY <1>1, <2>0 DEF Wanted, TypeOK
  <2>2. RunsWherePreferred' BY <1>1 DEF Wanted, RunsWherePreferred, TypeOK
  <2>3. (selected # {} => \A x \in Requests : wanted[x] \in {NoDevice, Accelerator})'
    BY <1>1, <1>d DEF Wanted, Bound
  <2>4. (\A u \in Threads : preferred[u] # NoDevice =>
            \A i \in 1..Len(devices[u]) : devices[u][i] = preferred[u])'
    BY <1>4, <2>0 DEF Wanted
  <2>5. (\A u \in Threads : popped[u] # None => preferred[u] \in {NoDevice, DeviceOf[popped[u]]})'
    BY <1>4, <2>0 DEF Wanted
  <2> QED BY <1>2, <2>1, <2>2, <2>3, <2>4, <2>5 DEF Wanted
<1> QED BY <1>3, <1>4

\* Every step leaves each bound task on its way to its device.
LEMMA WantedInv ==
    ASSUME TypeOK, Locals, TaskInv, WorkerInv, Wanted, [Next]_vars
    PROVE  Wanted'
<1>a. None \notin Requests /\ Requests \cap Workers = {} BY MultiAssumption
<1>1. ASSUME NEW r \in Requests, Start(r) PROVE Wanted'
  <2>1. PICK d \in Bound : wanted' = [wanted EXCEPT ![r] = d] /\ Schedule(r, r, d, "out")
    BY <1>1 DEF Start
  <2>2. r \notin busy /\ at[r] = "out" /\ UNCHANGED <<tasks, work, selected>> BY <1>1 DEF Start
  <2>3. devices[r] = <<>> /\ popped[r] = None BY <2>2 DEF Locals, Local, Scheduled
  <2>4. /\ \A p \in Queues : \A i \in 1..Len(tasks[p]) : tasks[p][i] # r
        /\ \A u \in Threads : task[u] # r
        /\ \A w \in Workers : work[w] # r
    BY <1>a, <2>2 DEF TaskInv, TaskOfBusy
  <2> QED BY <2>1, <2>2, <2>3, <2>4, BindWanted DEF Schedule
<1>2. ASSUME NEW w \in Workers, CallbackStep(w) \/ Overtake(w) PROVE Wanted'
  <2>b. Local(w) BY DEF Locals
  <2>1. CASE Finish(w) \/ Overtake(w) \/ Release(w) \/ Restore(w)
    BY <2>1, WantedStays DEF Finish, Overtake, Release, Restore
  <2>2. CASE Call(w) \/ CallRestarts(w)
    <3>1. PICK r \in Requests : r = work[w]
      BY <2>2, <2>b DEF Call, CallRestarts, Local, TypeOK
    <3>2. /\ \A p \in Queues : \A i \in 1..Len(tasks[p]) : tasks[p][i] # r
          /\ \A u \in Threads : task[u] # r
          /\ \A v \in Workers : v # w => work[v] # r
      BY <1>a, <3>1 DEF TaskInv, TaskUnique
    <3>3. work' = [work EXCEPT ![w] = None] /\ UNCHANGED <<tasks, devices, popped, selected>>
      BY <2>2 DEF Call, CallRestarts, Schedule
    <3>4. \A v \in Workers : work'[v] # r /\ (work'[v] # None => work'[v] = work[v])
      BY <1>a, <3>2, <3>3 DEF TypeOK
    <3>5. CASE Call(w)
      <4>1. wanted' = [wanted EXCEPT ![r] = NoDevice] /\ UNCHANGED <<task, preferred>>
        BY <3>1, <3>5 DEF Call, End
      <4> QED BY <3>2, <3>3, <3>4, <4>1, BindWanted
    <3>6. CASE CallRestarts(w)
      <4>1. PICK d \in Bound : wanted' = [wanted EXCEPT ![r] = d] /\ Schedule(w, r, d, "release")
        BY <3>1, <3>6 DEF CallRestarts
      <4>2. devices[w] = <<>> /\ popped[w] = None
        BY <3>6, <2>b DEF CallRestarts, Local, Scheduled
      <4>3. task' = [task EXCEPT ![w] = r] /\ preferred' = [preferred EXCEPT ![w] = d]
        BY <4>1 DEF Schedule
      <4> QED BY <3>2, <3>3, <3>4, <4>1, <4>2, <4>3, BindWanted
    <3> QED BY <2>2, <3>5, <3>6
  <2>3. ASSUME NEW q \in Queues, PopFrom(w, q), at[w] \in {"agnostic", "specific"},
               UNCHANGED <<work, wanted, selected>>
        PROVE  Wanted'
    <3>1. PICK r : r = Head(tasks[q]) OBVIOUS
    <3>0. tasks \in [Queues -> Seq(Requests)] BY DEF TypeOK, Queues
    <3>2. tasks' = [tasks EXCEPT ![q] = Tail(tasks[q])] /\ tasks[q] # <<>>
      BY <2>3 DEF PopFrom, Rest
    <3>3. /\ r = tasks[q][1] /\ 1 \in 1..Len(tasks[q])
          /\ Len(tasks'[q]) = Len(tasks[q]) - 1 /\ Len(tasks[q]) \in Nat
          /\ \A i \in 1..Len(tasks'[q]) : tasks'[q][i] = tasks[q][i + 1] /\ i + 1 \in 1..Len(tasks[q])
          /\ \A p \in Queues : p # q => tasks'[p] = tasks[p]
      BY <3>0, <3>1, <3>2
    <3>4. wanted[r] = q BY <3>3 DEF Wanted
    <3>5. \A p \in Queues : \A i \in 1..Len(tasks'[p]) : wanted[tasks'[p][i]] = p
      <4>0. \A p \in Queues : \A i \in 1..Len(tasks[p]) : wanted[tasks[p][i]] = p
        BY DEF Wanted
      <4> TAKE p \in Queues
      <4>1. CASE p = q
        <5> TAKE i \in 1..Len(tasks'[p])
        <5>1. tasks'[q][i] = tasks[q][i + 1] /\ i + 1 \in 1..Len(tasks[q]) BY <3>3, <4>1
        <5> QED BY <4>0, <4>1, <5>1
      <4>2. CASE p # q BY <3>3, <4>0, <4>2
      <4> QED BY <4>1, <4>2
    <3>6. \A u \in Threads : /\ task'[u] = IF u = w THEN r ELSE task[u]
                             /\ preferred'[u] = IF u = w THEN q ELSE preferred[u]
      BY <2>3, <3>1 DEF PopFrom, Schedule, TypeOK
    <3>7. devices[w] = <<>> /\ popped[w] = None /\ UNCHANGED <<devices, popped>>
      BY <2>3, <2>b DEF PopFrom, Schedule, Local, Scheduled
    <3>8. Accelerator' = Accelerator BY <2>3, AcceleratorStays
    <3> QED BY <2>3, <3>4, <3>5, <3>6, <3>7, <3>8 DEF Wanted, RunsWherePreferred, Queues
  <2>4. CASE PopAgnostic(w)
    <3>1. CASE PopFrom(w, NoDevice) BY <2>3, <2>4, <3>1 DEF PopAgnostic, Queues
    <3>2. CASE NothingIn(w, NoDevice, "specific")
      BY <2>4, <3>2, WantedStays DEF PopAgnostic, NothingIn
    <3> QED BY <2>4, <3>1, <3>2 DEF PopAgnostic
  <2>5. CASE PopSpecific(w)
    <3>0. DeviceOf[w] \in Queues BY MultiAssumption DEF Queues
    <3>1. CASE PopFrom(w, DeviceOf[w]) BY <2>3, <2>5, <3>0, <3>1 DEF PopSpecific
    <3>2. CASE NothingIn(w, DeviceOf[w], "restore")
      BY <2>5, <3>2, WantedStays DEF PopSpecific, NothingIn
    <3> QED BY <2>5, <3>1, <3>2 DEF PopSpecific
  <2> QED BY <1>2, <2>1, <2>2, <2>4, <2>5 DEF CallbackStep
<1>3. UNCHANGED <<tasks, task, preferred, devices, popped, work, wanted, selected>> => Wanted'
  BY WantedStays
<1> QED BY <1>1, <1>2, <1>3, Steps, SchedulingWanted, NetworkKeeps

(***************************************************************************)
(* Loading.                                                                *)
(***************************************************************************)

\* The networks that are there stay.
LEMMA LoadedStays ==
    ASSUME TypeOK, [Next]_vars
    PROVE  /\ UNCHANGED selected /\ Accelerator' = Accelerator
           /\ \A d \in Devices : /\ Loaded(d) => Loaded(d)'
                                 /\ load[d] = "ready" => load'[d] = "ready"
<1>1. ASSUME NEW t \in Threads, Scheduling(t) PROVE UNCHANGED <<selected, load>>
  BY <1>1 DEF Scheduling, Pick, TryPop, Store, Launch, LaunchThrows
<1>2. ASSUME NEW r \in Requests, Start(r) PROVE UNCHANGED <<selected, load>>
  BY <1>2 DEF Start
<1>3. ASSUME NEW w \in Workers, CallbackStep(w) \/ Overtake(w) PROVE UNCHANGED <<selected, load>>
  BY <1>3 DEF CallbackStep, Overtake, Finish, Call, CallRestarts, Release, PopAgnostic,
              PopSpecific, Restore
<1>4. ASSUME NEW d \in Devices, Loading(d) \/ LoadThrows(d)
      PROVE  /\ UNCHANGED selected
             /\ \A e \in Devices : /\ Loaded(e) => Loaded(e)'
                                   /\ load[e] = "ready" => load'[e] = "ready"
  BY <1>4 DEF Loading, Generate, Flag, SetPromise, LoadThrows, Loaded, TypeOK
<1>5. ASSUME NEW d \in Devices, Close(d) PROVE UNCHANGED <<selected, load>>
  BY <1>5 DEF Close
<1>6. CASE Construction \/ Ask \/ Destroy \/ StopLoading \/ Clear
           \/ (\E s \in Orders : SetConfig(s)) \/ UNCHANGED vars
  <2>1. UNCHANGED <<selected, load>>
    BY <1>6 DEF Construction, SeeFlag, WaitFirst, Ask, Destroy, StopLoading, Clear, SetConfig, vars
  <2>2. \A e : Loaded(e)' <=> Loaded(e) BY <2>1 DEF Loaded
  <2> QED BY <2>1, <2>2, AcceleratorStays
<1>7. UNCHANGED load => \A e : Loaded(e)' <=> Loaded(e) BY DEF Loaded
<1> QED BY <1>1, <1>2, <1>3, <1>4, <1>5, <1>6, <1>7, Steps, AcceleratorStays

\* After the accelerator was waited for its network is there.
LEMMA WaitActualWaits ==
    ASSUME TypeOK, Switching, WaitActual, selected # {},
           phase \notin Before \cup {"terminated"}
    PROVE  /\ load[Accelerator] = "ready" /\ Loaded(Accelerator)
           /\ valid' = {} /\ actual' # NoDevice
<1>1. Accelerator # NoDevice BY AcceleratorIsSelected, MultiAssumption DEF TypeOK
<1> QED BY <1>1 DEF Switching, Loads, WaitActual, Loaded

\* The devices the scheduler is about to try.
LEMMA PickSwitches ==
    ASSUME IndInv, [Next]_vars, NEW t \in Threads, Pick(t), phase # "terminated"
    PROVE  ThreadsSwitch'
<1> USE DEF IndInv
<1>a. NoDevice \notin Devices BY MultiAssumption
<1>b. UNCHANGED load /\ \A e : Loaded(e)' <=> Loaded(e) BY DEF Pick, Loaded
<1>c. task[t] \in Requests /\ at[t] = "pick" BY DEF Pick, Locals, Local, Scheduled, TypeOK
<1>d. phase \notin Before BY <1>c DEF Ends
<1>1. PICK s : /\ devices' = [devices EXCEPT ![t] = s]
               /\ \A i \in DOMAIN s : Loaded(s[i])
               /\ preferred[t] # NoDevice => Loaded(preferred[t])
  <2>1. CASE selected = {}
    <3>1. \A d \in Devices : Loaded(d) BY <2>1 DEF Switching, Loads, Loaded
    <3>2. devices'[t] \in Orders \cup {<<>>} /\ devices' = [devices EXCEPT ![t] = Eligible(preferred[t])]
      BY <2>1, TypesInv DEF Pick, TypeOK
    <3>5. devices'[t] = Eligible(preferred[t]) BY <3>2 DEF TypeOK
    <3>3. Eligible(preferred[t]) \in Seq(Devices)
      <4>1. Eligible(preferred[t]) \in Orders \/ Eligible(preferred[t]) = <<>>
        BY <3>2, <3>5
      <4>2. <<>> \in Seq(Devices) OBVIOUS
      <4> QED BY <4>1, <4>2, OrdersAreSequences
    <3>4. \A i \in DOMAIN Eligible(preferred[t]) : Eligible(preferred[t])[i] \in Devices
      BY <3>3
    <3> QED BY <3>1, <3>2, <3>4 DEF TypeOK
  <2>2. CASE selected # {} /\ preferred[t] = NoDevice
    <3>1. devices' = [devices EXCEPT ![t] = <<IF alreadyActual THEN Accelerator ELSE Cpu>>]
      BY <2>2 DEF Pick
    <3>2. Loaded(IF alreadyActual THEN Accelerator ELSE Cpu) BY <1>d, <2>2 DEF Switching, Loads
    <3>3. \A i \in DOMAIN <<IF alreadyActual THEN Accelerator ELSE Cpu>> :
            <<IF alreadyActual THEN Accelerator ELSE Cpu>>[i] = IF alreadyActual THEN Accelerator ELSE Cpu
      OBVIOUS
    <3> QED BY <2>2, <3>1, <3>2, <3>3
  <2>3. CASE selected # {} /\ preferred[t] # NoDevice
    <3>1. devices' = [devices EXCEPT ![t] = <<Accelerator>>] /\ WaitActual BY <2>3 DEF Pick
    <3>2. Loaded(Accelerator) BY <1>d, <2>3, <3>1, WaitActualWaits
    <3>3. preferred[t] = Accelerator
      BY <1>c, <2>3, MultiAssumption DEF Wanted
    <3>4. \A i \in DOMAIN <<Accelerator>> : <<Accelerator>>[i] = Accelerator OBVIOUS
    <3> QED BY <3>1, <3>2, <3>3, <3>4
  <2> QED BY <2>1, <2>2, <2>3
<1>2. \A u \in Threads : devices'[u] = IF u = t THEN s ELSE devices[u] BY <1>1 DEF TypeOK
<1>3. UNCHANGED <<tasks, preferred>> /\ \A u \in Threads : u # t => at'[u] = at[u]
  BY DEF Pick
<1>6. preferred[t] # NoDevice => Loaded(preferred[t]) BY <1>1
<1>7. \A i \in DOMAIN s : Loaded(s[i]) BY <1>1
<1>4. OnlyLoadedDevices'
  <2>1. ASSUME NEW u \in Threads, NEW i \in 1..Cardinality(Devices), i \in DOMAIN devices'[u]
        PROVE  Loaded(devices'[u][i])
    <3>1. CASE u = t
      <4>1. devices'[u] = s BY <1>2, <3>1
      <4> QED BY <1>7, <2>1, <4>1
    <3>2. CASE u # t BY <1>2, <2>1, <3>2 DEF Switching, ThreadsSwitch, OnlyLoadedDevices
    <3> QED BY <3>1, <3>2
  <2>2. \A d \in Devices : tasks'[d] # <<>> => Loaded(d)
    BY <1>3 DEF Switching, ThreadsSwitch, OnlyLoadedDevices
  <2> QED BY <1>b, <2>1, <2>2 DEF OnlyLoadedDevices
<1>5. \A u \in Threads : at'[u] \in {"try", "hold"} /\ preferred'[u] # NoDevice => Loaded(preferred'[u])
  <2> TAKE u \in Threads
  <2>1. CASE u = t BY <1>6, <1>3, <2>1
  <2>2. CASE u # t BY <1>3, <2>2 DEF Switching, ThreadsSwitch
  <2> QED BY <2>1, <2>2
<1> QED BY <1>4, <1>5, <1>b DEF ThreadsSwitch

\* Nobody else chooses devices, and a queue grows only with the task of a thread
\* that tried the device.
LEMMA ThreadsSwitchInv ==
    ASSUME IndInv, [Next]_vars
    PROVE  ThreadsSwitch'
<1> USE DEF IndInv
<1>a. \A d \in Devices : Loaded(d) => Loaded(d)'
  <2>1. TypeOK OBVIOUS
  <2> HIDE DEF IndInv
  <2> QED BY <2>1, LoadedStays
<1>b. /\ \A t \in Threads : preferred[t] # NoDevice => preferred[t] \in Devices
      /\ \A t \in Threads : \A i \in DOMAIN devices[t] : devices[t][i] \in Devices
      /\ \A t \in Threads : devices[t] \in Seq(Devices)
  <2>1. \A t \in Threads : devices[t] \in Seq(Devices)
    <3> TAKE t \in Threads
    <3>1. devices[t] \in Orders \/ devices[t] = <<>> BY DEF TypeOK
    <3>2. <<>> \in Seq(Devices) OBVIOUS
    <3> QED BY <3>1, <3>2, OrdersAreSequences
  <2> QED BY <2>1 DEF TypeOK
<1>c. \A t \in Threads : at[t] \in {"try", "hold"} /\ preferred[t] # NoDevice =>
        Loaded(preferred[t])
  BY DEF Switching, ThreadsSwitch
<1>d. OnlyLoadedDevices BY DEF Switching, ThreadsSwitch
\* What a step that only takes from sequences does.
<1>1. ASSUME \A t \in Threads : at'[t] \in {"try", "hold"} =>
                at[t] \in {"try", "hold"} /\ preferred'[t] = preferred[t],
             UNCHANGED devices,
             \A d \in Devices : tasks'[d] # <<>> => tasks[d] # <<>>
      PROVE  ThreadsSwitch'
  <2>1. (\A t \in Threads : at[t] \in {"try", "hold"} /\ preferred[t] # NoDevice =>
            Loaded(preferred[t]))'
    BY <1>1, <1>a, <1>b, <1>c
  <2>2. ASSUME NEW u \in Threads, NEW i \in 1..Cardinality(Devices), i \in DOMAIN devices[u]
        PROVE  Loaded(devices[u][i])'
    <3>1. Loaded(devices[u][i]) /\ devices[u][i] \in Devices
      BY <1>b, <1>d, <2>2 DEF OnlyLoadedDevices
    <3>2. devices'[u][i] = devices[u][i] BY <1>1
    <3> QED BY <1>a, <3>1, <3>2
  <2>3. \A d \in Devices : tasks'[d] # <<>> => Loaded(d)'
    BY <1>1, <1>a, <1>d DEF OnlyLoadedDevices
  <2> QED BY <1>1, <2>1, <2>2, <2>3 DEF ThreadsSwitch, OnlyLoadedDevices
<1>2. ASSUME NEW t \in Threads, Scheduling(t), phase # "terminated" PROVE ThreadsSwitch'
  <2>1. CASE Pick(t) BY <1>2, <2>1, PickSwitches
  <2>2. CASE TryPop(t)
    <3> PICK d : d = Head(devices[t]) OBVIOUS
    <3>1. UNCHANGED <<tasks, preferred, load>> /\ at[t] = "try" BY <2>2 DEF TryPop
    <3>2. \A u \in Threads : at'[u] \in {"try", "hold"} => at[u] \in {"try", "hold"}
      BY <2>2 DEF TryPop, TypeOK
    <3>3. (\A u \in Threads : at[u] \in {"try", "hold"} /\ preferred[u] # NoDevice =>
              Loaded(preferred[u]))'
      BY <1>a, <1>b, <1>c, <3>1, <3>2
    <3>4. devices[t] \in Orders /\ devices[t] # <<>> BY <2>2 DEF TryPop, TypeOK
    <3>5. /\ devices[t] \in Seq(Devices) /\ Len(devices[t]) \in 1..Cardinality(Devices)
          /\ Cardinality(Devices) \in Nat
      BY <3>4, OrdersAreSequences, MultiAssumption, FS_CardinalityType
    <3>6. devices' = [devices EXCEPT ![t] = <<>>] \/ devices' = [devices EXCEPT ![t] = Tail(devices[t])]
      BY <2>2 DEF TryPop
    <3>7. ASSUME NEW u \in Threads, NEW i \in 1..Cardinality(Devices), i \in DOMAIN devices'[u]
          PROVE  Loaded(devices'[u][i])
      <4>1. CASE u # t
        <5>1. devices'[u] = devices[u] BY <3>6, <4>1 DEF TypeOK
        <5> QED BY <1>d, <3>7, <5>1 DEF OnlyLoadedDevices
      <4>2. CASE u = t
        <5>1. devices'[t] = <<>> \/ devices'[t] = Tail(devices[t]) BY <3>6 DEF TypeOK
        <5>2. devices'[t] # <<>> BY <3>7, <4>2
        <5>3. devices'[t] = Tail(devices[t]) BY <5>1, <5>2
        <5>4. /\ i + 1 \in 1..Cardinality(Devices) /\ i + 1 \in DOMAIN devices[t]
              /\ devices'[t][i] = devices[t][i + 1]
          BY <3>4, <3>5, <3>7, <4>2, <5>3
        <5> QED BY <1>d, <4>2, <5>4 DEF OnlyLoadedDevices
      <4> QED BY <4>1, <4>2
    <3>8. \A e : Loaded(e)' <=> Loaded(e) BY <3>1 DEF Loaded
    <3>9. \A e \in Devices : tasks'[e] # <<>> => Loaded(e)
      BY <1>d, <3>1 DEF OnlyLoadedDevices
    <3> QED BY <3>3, <3>7, <3>8, <3>9 DEF ThreadsSwitch, OnlyLoadedDevices
  <2>3. ASSUME Leave(t), at[t] \in Scheduled
        PROVE  /\ \A u \in Threads : at'[u] \in {"try", "hold"} =>
                        u # t /\ at[u] \in {"try", "hold"} /\ preferred'[u] = preferred[u]
               /\ \A u \in Threads : devices'[u] = IF u = t THEN <<>> ELSE devices[u]
    <3>1. back[t] \in {"out", "release", "restore"} BY DEF TypeOK
    <3>2. /\ at' = [at EXCEPT ![t] = back[t]] /\ preferred' = [preferred EXCEPT ![t] = NoDevice]
          /\ devices' = [devices EXCEPT ![t] = <<>>]
      BY <2>3 DEF Leave
    <3>3. \A u \in Threads : devices'[u] = IF u = t THEN <<>> ELSE devices[u]
      BY <3>2 DEF TypeOK
    <3>4. at'[t] = back[t] BY <3>2 DEF TypeOK
    <3>5. \A u \in Threads : u # t => at'[u] = at[u] /\ preferred'[u] = preferred[u] BY <3>2
    <3> QED BY <3>1, <3>3, <3>4, <3>5
  <2>4. CASE Store(t) \/ Launch(t) \/ LaunchThrows(t)
    <3>1. Leave(t) /\ at[t] \in {"try", "hold"} /\ UNCHANGED load
      BY <2>4 DEF Store, Launch, LaunchThrows
    <3>2. \A e : Loaded(e)' <=> Loaded(e) BY <3>1 DEF Loaded
    <3>3. (\A u \in Threads : at[u] \in {"try", "hold"} /\ preferred[u] # NoDevice =>
              Loaded(preferred[u]))'
      BY <1>c, <2>3, <3>1, <3>2 DEF Scheduled
    <3>4. ASSUME NEW u \in Threads, NEW i \in 1..Cardinality(Devices), i \in DOMAIN devices'[u]
          PROVE  Loaded(devices'[u][i])
      <4>1. devices'[u] = IF u = t THEN <<>> ELSE devices[u] BY <2>3, <3>1 DEF Scheduled
      <4>2. u # t BY <3>4, <4>1
      <4> QED BY <1>d, <3>4, <4>1, <4>2 DEF OnlyLoadedDevices
    <3>5. ASSUME NEW d \in Devices, tasks'[d] # <<>> PROVE Loaded(d)
      <4>1. CASE UNCHANGED tasks BY <1>d, <3>5, <4>1 DEF OnlyLoadedDevices
      <4>2. CASE Store(t)
        <5>1. CASE preferred[t] # d BY <1>d, <3>5, <4>2, <5>1 DEF Store, OnlyLoadedDevices
        <5>2. CASE preferred[t] = d BY <1>c, <3>1, <5>2, MultiAssumption
        <5> QED BY <5>1, <5>2
      <4> QED BY <2>4, <4>1, <4>2 DEF Launch, LaunchThrows
    <3> QED BY <3>2, <3>3, <3>4, <3>5 DEF ThreadsSwitch, OnlyLoadedDevices
  <2> QED BY <1>2, <2>1, <2>2, <2>4 DEF Scheduling
<1>3. ASSUME NEW r \in Requests, Start(r) PROVE ThreadsSwitch'
  <2>1. PICK d \in Bound : Schedule(r, r, d, "out") /\ UNCHANGED tasks BY <1>3 DEF Start
  <2> QED BY <1>1, <2>1 DEF Schedule, TypeOK
<1>4. ASSUME NEW w \in Workers, CallbackStep(w) \/ Overtake(w) PROVE ThreadsSwitch'
  <2>1. CASE Finish(w) \/ Overtake(w) \/ Call(w) \/ Release(w) \/ Restore(w)
    BY <1>1, <2>1 DEF Finish, Overtake, Call, Release, Restore, TypeOK
  <2>2. CASE CallRestarts(w)
    <3>1. PICK d \in Bound : Schedule(w, work[w], d, "release") /\ UNCHANGED tasks
      BY <2>2 DEF CallRestarts
    <3> QED BY <1>1, <3>1 DEF Schedule, TypeOK
  <2>3. ASSUME NEW q, PopFrom(w, q) PROVE ThreadsSwitch'
    <3>1. \A d \in Devices : tasks'[d] # <<>> => tasks[d] # <<>>
      BY <2>3 DEF PopFrom, TypeOK
    <3>2. /\ \A t \in Threads : at'[t] \in {"try", "hold"} =>
                at[t] \in {"try", "hold"} /\ preferred'[t] = preferred[t]
          /\ UNCHANGED devices
      BY <2>3 DEF PopFrom, Schedule, TypeOK
    <3> QED BY <1>1, <3>1, <3>2
  <2>4. ASSUME NEW q, NEW to \in {"specific", "restore"}, NothingIn(w, q, to) PROVE ThreadsSwitch'
    BY <1>1, <2>4 DEF NothingIn, TypeOK
  <2> QED BY <1>4, <2>1, <2>2, <2>3, <2>4 DEF CallbackStep, PopAgnostic, PopSpecific
<1>5. UNCHANGED <<at, preferred, devices, tasks>> => ThreadsSwitch' BY <1>1
<1>6. CASE UNCHANGED vars BY <1>5, <1>6, NetworkKeeps
<1>7. CASE Next
  <2>1. phase # "terminated" BY <1>7 DEF Next, Running
  <2> QED BY <1>2, <1>3, <1>4, <1>5, <2>1, Steps, NetworkKeeps
<1> QED BY <1>6, <1>7

\* Every step of a load, the constructor or a wait keeps flag, promise and workers in order.
LEMMA LoadsInv ==
    ASSUME IndInv, [Next]_vars
    PROVE  Loads'
<1> USE DEF IndInv
<1>a. /\ UNCHANGED selected /\ Accelerator' = Accelerator
      /\ \A d \in Devices : Loaded(d) => Loaded(d)'
      /\ \A d \in Devices : load[d] = "ready" => load'[d] = "ready"
  <2>1. TypeOK OBVIOUS
  <2> HIDE DEF IndInv
  <2> QED BY <2>1, LoadedStays
<1>b. /\ Cpu \in Devices /\ NoDevice \notin Devices
      /\ selected \in Selections /\ selected \subseteq Devices
  BY MultiAssumption DEF TypeOK
<1>c. selected # {} => /\ Accelerator \in selected /\ Accelerator \in Devices
                       /\ Accelerator = Cpu => selected = {Cpu}
                       /\ \A d \in selected : d = Cpu \/ d = Accelerator
  BY <1>b, AcceleratorIsSelected
\* What a step that loads nothing and changes neither flag nor futures does.
<1>1. ASSUME UNCHANGED <<load, alreadyActual, first, actual, valid>>,
             phase' \in Before => phase \in Before,
             phase' \notin Before \cup {"terminated"} => phase \notin Before \cup {"terminated"}
      PROVE  Loads'
  <2>1. \A e : Loaded(e)' <=> Loaded(e) BY <1>1 DEF Loaded
  <2> QED BY <1>1, <1>a, <2>1 DEF Switching, Loads
\* What a step that waits for the accelerator does.
<1>2. ASSUME WaitActual, UNCHANGED <<load, alreadyActual, first>>,
             phase \notin Before \cup {"terminated"}, phase' \notin Before \cup {"terminated"}
      PROVE  Loads'
  <2>1. \A e : Loaded(e)' <=> Loaded(e) BY <1>2 DEF Loaded
  <2>2. CASE selected # {}
    <3>1. load[Accelerator] = "ready" /\ valid' = {} /\ actual' # NoDevice
      BY <1>2, <2>2, WaitActualWaits
    <3> QED BY <1>2, <1>a, <2>1, <2>2, <3>1 DEF Switching, Loads
  <2>3. CASE selected = {} BY <1>2, <1>a, <2>1, <2>3 DEF Switching, Loads
  <2> QED BY <2>2, <2>3
<1>3. ASSUME NEW t \in Threads, Scheduling(t), phase # "terminated" PROVE Loads'
  <2>1. CASE Pick(t)
    <3>1. /\ UNCHANGED <<load, alreadyActual, first, phase>>
          /\ UNCHANGED <<actual, valid>> \/ WaitActual
          /\ at[t] = "pick"
      BY <2>1 DEF Pick
    <3>2. phase \notin Before BY <3>1 DEF Ends
    <3> QED BY <1>1, <1>2, <1>3, <3>1, <3>2
  <2>2. CASE TryPop(t) \/ Store(t) \/ Launch(t) \/ LaunchThrows(t)
    BY <1>1, <2>2 DEF TryPop, Store, Launch, LaunchThrows
  <2> QED BY <1>3, <2>1, <2>2 DEF Scheduling
<1>4. ASSUME NEW r \in Requests, Start(r) PROVE Loads'
  BY <1>1, <1>4 DEF Start
<1>5. ASSUME NEW w \in Workers, CallbackStep(w) \/ Overtake(w) PROVE Loads'
  BY <1>1, <1>5 DEF CallbackStep, Overtake, Finish, Call, CallRestarts, Release,
              PopAgnostic, PopSpecific, Restore
<1>6. ASSUME NEW d \in Devices, Generate(d) PROVE Loads'
  <2>1. /\ load' = [load EXCEPT ![d] = IF d = Cpu THEN "flagged" ELSE "generated"]
        /\ load[d] = "loading"
        /\ UNCHANGED <<alreadyActual, first, actual, valid, phase>>
    BY <1>6 DEF Generate
  <2>2. \A e \in Devices : load'[e] = IF e # d THEN load[e]
                                     ELSE IF d = Cpu THEN "flagged" ELSE "generated"
    BY <2>1 DEF TypeOK
  <2>3. selected # {} /\ d \in selected BY <2>1 DEF Switching, Loads
  <2> QED BY <1>a, <1>b, <1>c, <2>1, <2>2, <2>3 DEF Switching, Loads
<1>7. ASSUME NEW d \in Devices, Flag(d) PROVE Loads'
  <2>1. /\ load' = [load EXCEPT ![d] = "flagged"]
        /\ load[d] = "generated" /\ alreadyActual' = TRUE
        /\ UNCHANGED <<first, actual, valid, phase>>
    BY <1>7 DEF Flag
  <2>2. \A e \in Devices : load'[e] = IF e # d THEN load[e] ELSE "flagged"
    BY <2>1 DEF TypeOK
  <2>3. selected # {} /\ d \in selected /\ d # Cpu BY <2>1 DEF Switching, Loads
  <2>4. d = Accelerator BY <1>c, <2>3
  <2>5. Loaded(Accelerator)' BY <1>a, <2>2, <2>4 DEF Loaded
  <2> QED BY <1>a, <1>b, <1>c, <2>1, <2>2, <2>3, <2>4, <2>5 DEF Switching, Loads
<1>8. ASSUME NEW d \in Devices, SetPromise(d) PROVE Loads'
  <2>1. /\ load' = [load EXCEPT ![d] = "ready"] /\ load[d] = "flagged"
        /\ UNCHANGED <<alreadyActual, first, actual, valid, phase>>
    BY <1>8 DEF SetPromise
  <2>2. \A e \in Devices : load'[e] = IF e # d THEN load[e] ELSE "ready"
    BY <2>1 DEF TypeOK
  <2> QED BY <1>a, <1>b, <1>c, <2>1, <2>2 DEF Switching, Loads
<1>9. ASSUME NEW d \in Devices, LoadThrows(d) PROVE Loads'
  <2>1. /\ load' = [load EXCEPT ![d] = "failed"] /\ load[d] = "loading"
        /\ phase' = "terminated"
        /\ UNCHANGED <<alreadyActual, first, actual, valid>>
    BY <1>9 DEF LoadThrows
  <2>2. \A e \in Devices : load'[e] = IF e # d THEN load[e] ELSE "failed"
    BY <2>1 DEF TypeOK
  <2>3. selected # {} /\ d \in selected BY <2>1 DEF Switching, Loads
  <2> QED BY <1>a, <1>b, <1>c, <2>1, <2>2, <2>3 DEF Switching, Loads, Before
<1>10. CASE SeeFlag
  <2>1. /\ phase = "constructing" /\ phase' = IF alreadyActual THEN "used" ELSE "waiting"
        /\ UNCHANGED <<load, alreadyActual, first, actual, valid>>
    BY <1>10 DEF SeeFlag
  <2>2. \A e : Loaded(e)' <=> Loaded(e) BY <2>1 DEF Loaded
  <2>3. selected # {} /\ valid = selected \ {Cpu} /\ (alreadyActual => Accelerator # Cpu)
    BY <2>1 DEF Switching, Loads, Before
  <2>4. alreadyActual => valid # {} /\ valid \subseteq {Accelerator} BY <1>c, <2>3
  <2> QED BY <1>a, <2>1, <2>2, <2>3, <2>4 DEF Switching, Loads, Before
<1>11. CASE WaitFirst
  <2>1. /\ phase = "waiting" /\ phase' = "used" /\ UNCHANGED load
        /\ alreadyActual' = (alreadyActual \/ valid' = {})
    BY <1>11 DEF WaitFirst, SingleIsActual
  <2>2. PICK d \in selected :
            /\ Cpu \in selected => d = Cpu
            /\ load[d] = "ready"
            /\ IF valid \ {d} # {} THEN first' = d /\ UNCHANGED actual
                                   ELSE actual' = d /\ UNCHANGED first
            /\ valid' = valid \ {d}
    BY <1>11 DEF WaitFirst
  <2>3. \A e : Loaded(e)' <=> Loaded(e) BY <2>1 DEF Loaded
  <2>4. selected # {} /\ valid = selected \ {Cpu} BY <2>1 DEF Switching, Loads, Before
  <2>5. Loaded(d) /\ d # NoDevice BY <1>b, <2>2 DEF Loaded
  <2>6. valid' \subseteq {Accelerator} BY <1>c, <2>2, <2>4
  <2>7. CASE valid' = {}
    <3>1. d = Accelerator /\ actual' = d BY <1>c, <2>2, <2>4, <2>7
    <3> QED BY <1>a, <2>1, <2>2, <2>3, <2>4, <2>5, <2>6, <2>7, <3>1 DEF Switching, Loads, Before
  <2>8. CASE valid' # {}
    <3>1. d = Cpu /\ Cpu \in selected /\ first' = d BY <1>c, <2>2, <2>4, <2>8
    <3> QED BY <1>a, <2>1, <2>2, <2>3, <2>4, <2>5, <2>6, <2>8, <3>1 DEF Switching, Loads, Before
  <2> QED BY <2>7, <2>8
<1>12. CASE Ask BY <1>2, <1>12 DEF Ask, Before
<1>13. CASE StopLoading BY <1>2, <1>13 DEF StopLoading, Before
<1>14. CASE Destroy \/ Clear \/ (\E s \in Orders : SetConfig(s)) \/ (\E d \in Devices : Close(d))
  BY <1>1, <1>14 DEF Destroy, Clear, SetConfig, Close, Before
<1>15. CASE UNCHANGED vars BY <1>1, <1>15 DEF vars
<1>16. CASE Next
  <2>1. phase # "terminated" BY <1>16 DEF Next, Running
  <2> QED BY <1>3, <1>4, <1>5, <1>6, <1>7, <1>8, <1>9, <1>10, <1>11, <1>12, <1>13, <1>14, <1>15,
             <2>1, Steps DEF Loading, Construction
<1> QED BY <1>15, <1>16

(***************************************************************************)
(* The end of the executable network.                                      *)
(***************************************************************************)

\* Without a request that was started there is no task, nobody is in the scheduler,
\* and no worker has anything to do.
LEMMA NothingToDo ==
    ASSUME IndInv, busy = {}
    PROVE  /\ \A t \in Threads : at[t] \notin Scheduled \cup {"cb"}
           /\ \A w \in Workers : work[w] = None
           /\ \A q \in Queues : tasks[q] = <<>>
<1> USE DEF IndInv
<1>a. None \notin Requests /\ Requests \cap Workers = {} BY MultiAssumption
<1>1. \A w \in Workers : work[w] = None BY DEF TaskInv, TaskOfBusy
<1>2. \A q \in Queues : tasks[q] = <<>>
  <2> TAKE q \in Queues
  <2>1. tasks[q] \in Seq(Requests) BY DEF TypeOK, Queues
  <2>2. tasks[q] # <<>> => 1 \in 1..Len(tasks[q]) BY <2>1
  <2> QED BY <2>2 DEF TaskInv, TaskOfBusy
<1>3. \A t \in Threads : at[t] \notin Scheduled
  BY DEF TaskInv, TaskOfBusy, Locals, Local
<1>4. \A t \in Threads : at[t] # "cb" BY <1>1 DEF Locals, Local, Scheduled
<1> QED BY <1>1, <1>2, <1>3, <1>4

\* Every step of the destructor keeps what it has waited for over.
LEMMA EndsInv ==
    ASSUME IndInv, [Next]_vars
    PROVE  Ends'
<1> USE DEF IndInv
<1>a. UNCHANGED selected /\ \A d \in Devices : load[d] = "ready" => load'[d] = "ready"
  <2>1. TypeOK OBVIOUS
  <2> HIDE DEF IndInv
  <2> QED BY <2>1, LoadedStays
<1>b. /\ selected \subseteq Devices /\ Requests \cap Workers = {}
      /\ \A w \in Workers : DeviceOf[w] \in Devices
  BY MultiAssumption DEF TypeOK
<1>c. phase \in Before \cup Leaving => busy = {} BY DEF Ends
<1>d. phase \in Before \cup Leaving =>
        /\ \A t \in Threads : at[t] \notin Scheduled \cup {"cb"}
        /\ \A w \in Workers : work[w] = None
        /\ \A q \in Queues : tasks[q] = <<>>
  BY <1>c, NothingToDo
\* A step of a thread leaves the phase and the loads as they are.
<1>1. ASSUME phase \in {"used", "terminated"}, UNCHANGED <<phase, closed>> PROVE Ends'
  BY <1>1 DEF Ends, Before, Leaving
<1>2. ASSUME NEW t \in Threads, Scheduling(t) PROVE Ends'
  <2>1. UNCHANGED <<phase, closed>> /\ at[t] \in Scheduled
    BY <1>2 DEF Scheduling, Pick, TryPop, Store, Launch, LaunchThrows, Scheduled
  <2>2. phase \notin Before \cup Leaving BY <1>d, <2>1
  <2>3. phase \in {"used", "terminated"} BY <2>2 DEF TypeOK, Before, Leaving
  <2> QED BY <1>1, <2>1, <2>3
<1>3. ASSUME NEW r \in Requests, Start(r) PROVE Ends'
  BY <1>1, <1>3 DEF Start
<1>4. ASSUME NEW w \in Workers, Finish(w) \/ Overtake(w) \/ Call(w) \/ CallRestarts(w) PROVE Ends'
  <2>1. UNCHANGED <<phase, closed>> /\ (work[w] # None \/ at[w] = "cb")
    BY <1>4 DEF Finish, Overtake, Call, CallRestarts
  <2>2. phase \notin Before \cup Leaving BY <1>d, <2>1
  <2>3. phase \in {"used", "terminated"} BY <2>2 DEF TypeOK, Before, Leaving
  <2> QED BY <1>1, <2>1, <2>3
<1>5. ASSUME NEW w \in Workers, Release(w) \/ PopAgnostic(w) \/ PopSpecific(w) \/ Restore(w)
      PROVE  Ends'
  <2>1. /\ UNCHANGED <<phase, closed, busy, load>>
        /\ at[w] \in {"release", "agnostic", "specific", "restore"}
        /\ \A t \in Threads : t # w => at'[t] = at[t]
    <3>1. CASE Release(w) BY <3>1 DEF Release, TypeOK
    <3>2. CASE PopAgnostic(w) BY <3>2 DEF PopAgnostic, PopFrom, NothingIn, Schedule, TypeOK
    <3>3. CASE PopSpecific(w) BY <3>3 DEF PopSpecific, PopFrom, NothingIn, Schedule, TypeOK
    <3>4. CASE Restore(w) BY <3>4 DEF Restore
    <3> QED BY <1>5, <3>1, <3>2, <3>3, <3>4
  <2>2. phase \notin Before /\ phase # "gone" BY <2>1 DEF Ends
  <2>3. \A r \in Requests : at'[r] = at[r] BY <1>b, <2>1
  <2> QED BY <1>a, <2>1, <2>2, <2>3 DEF Ends
<1>6. ASSUME NEW d \in Devices, Generate(d) \/ Flag(d) \/ SetPromise(d) PROVE Ends'
  <2>1. UNCHANGED <<phase, closed, busy, at>>
    BY <1>6 DEF Generate, Flag, SetPromise
  <2> QED BY <1>a, <1>b, <2>1 DEF Ends
<1>7. ASSUME NEW d \in Devices, LoadThrows(d) PROVE Ends'
  BY <1>7 DEF LoadThrows, Ends, Before, Leaving
<1>8. ASSUME NEW d \in Devices, Close(d) PROVE Ends'
  <2>1. UNCHANGED <<phase, busy, at, load>> /\ phase = "closing"
    BY <1>8 DEF Close
  <2> QED BY <1>a, <2>1 DEF Ends
<1>9. CASE SeeFlag
  <2>1. UNCHANGED <<closed, busy, at>> /\ phase' \in {"used", "waiting"} /\ phase = "constructing"
    BY <1>9 DEF SeeFlag
  <2> QED BY <2>1 DEF Ends, Before, Leaving
<1>10. CASE WaitFirst
  <2>1. UNCHANGED <<closed, busy, at>> /\ phase' = "used" /\ phase = "waiting"
    BY <1>10 DEF WaitFirst
  <2> QED BY <2>1 DEF Ends, Before, Leaving
<1>11. CASE Ask \/ \E s \in Orders : SetConfig(s)
  BY <1>1, <1>11 DEF Ask, SetConfig
<1>12. CASE Destroy
  <2>1. /\ UNCHANGED <<closed, busy, at>> /\ phase' = "leaving" /\ phase = "used"
        /\ busy = {} /\ \A r \in Requests : at[r] = "out"
    BY <1>12 DEF Destroy
  <2> QED BY <2>1 DEF Ends, Before, Leaving
<1>13. CASE StopLoading
  <2>1. /\ UNCHANGED <<closed, busy, at, load>> /\ phase' = "closing" /\ phase = "leaving"
        /\ \A d \in selected : load[d] = "ready"
    BY <1>13 DEF StopLoading, LoadsOver
  <2> QED BY <1>a, <2>1 DEF Ends, Before, Leaving
<1>14. CASE Clear
  <2>1. /\ UNCHANGED <<closed, busy, at, load>> /\ phase' = "gone" /\ phase = "closing"
        /\ \A w \in Workers : at[w] = "out"
    BY <1>14 DEF Clear, Quiet
  <2> QED BY <1>a, <2>1 DEF Ends, Before, Leaving
<1>15. CASE UNCHANGED vars BY <1>15 DEF vars, Ends
<1> QED BY <1>2, <1>3, <1>4, <1>5, <1>6, <1>7, <1>8, <1>9, <1>10, <1>11, <1>12, <1>13, <1>14,
           <1>15, Steps DEF Loading, Construction, CallbackStep

(***************************************************************************)
(* The theorems.                                                           *)
(***************************************************************************)

\* A network under construction satisfies the invariant.
LEMMA InitInv ==
    ASSUME Init
    PROVE  IndInv
<1> USE DEF Init
<1>a. /\ None \notin Requests /\ None \notin Workers /\ NoDevice \notin Devices
      /\ Requests \cap Workers = {} /\ Cpu \in Devices
      /\ \A w \in Workers : DeviceOf[w] \in Devices
      /\ selected \in Selections /\ selected \subseteq Devices
  BY MultiAssumption
<1>1. \A d \in Devices : idle[d] = IF selected = {} THEN IdleOf(d) ELSE <<>> OBVIOUS
<1>2. TypeOK
  <2>1. idle \in [Devices -> Seq(Workers)]
    <3>1. \A d \in Devices : idle[d] \in Seq(Workers) BY <1>1, IdleOfDevice
    <3> QED BY <3>1
  <2>2. load \in [Devices -> {"none", "loading", "generated", "flagged", "ready", "failed"}]
    OBVIOUS
  <2>3. tasks \in [Devices \cup {NoDevice} -> Seq(Requests)] OBVIOUS
  <2>4. /\ at \in [Threads -> Places] /\ task \in [Threads -> Requests \cup {None}]
        /\ preferred \in [Threads -> Devices \cup {NoDevice}]
        /\ devices \in [Threads -> Orders \cup {<<>>}]
        /\ popped \in [Threads -> Workers \cup {None}]
        /\ back \in [Threads -> {"out", "release", "restore"}]
    BY DEF Places
  <2>5. /\ closed \subseteq Devices
        /\ callback \subseteq Workers /\ busy \subseteq Requests /\ failed \subseteq Workers
    OBVIOUS
  <2>6. priorities \in Orders OBVIOUS
  <2>7. work \in [Workers -> Requests \cup {None}] OBVIOUS
  <2>8. wanted \in [Requests -> Devices \cup {NoDevice}] OBVIOUS
  <2>9. /\ phase \in {"constructing", "waiting", "used", "leaving", "closing", "gone", "terminated"}
        /\ alreadyActual \in BOOLEAN
    OBVIOUS
  <2>10. {first, actual} \subseteq selected \cup {NoDevice} /\ valid \subseteq selected
    OBVIOUS
  <2>11. {starts, configs} \subseteq Nat OBVIOUS
  <2> QED BY <1>a, <2>1, <2>2, <2>3, <2>4, <2>5, <2>9, <2>7, <2>8, <2>6, <2>10,
           <2>11
        DEF TypeOK
<1>3. Locals BY <1>a DEF Locals, Local, Scheduled
<1>4. TaskInv BY <1>a DEF TaskInv, TaskUnique, TaskOfBusy, BusyHasTask, Queues
<1>5. WorkerInv
  <2>1. \A w : ~IsHeld(w) \/ w = None BY DEF IsHeld
  <2>2. \A w \in Workers : work[w] = None /\ ~InCallback(w) BY DEF InCallback
  <2>3. WorkerUnique
    <3>1. /\ \A d \in Devices : \A i \in 1..Len(idle[d]) : DeviceOf[idle[d][i]] = d
          /\ \A d \in Devices : \A i, j \in 1..Len(idle[d]) : idle[d][i] = idle[d][j] => i = j
      BY <1>1, IdleOfDevice
    <3>2. \A t, u \in Threads : popped[t] # None /\ popped[t] = popped[u] => t = u OBVIOUS
    <3> QED BY <1>a, <2>1, <2>2, <3>1, <3>2 DEF WorkerUnique
  <2>4. WorkerSomewhere
    <3> SUFFICES ASSUME NEW w \in Workers, Loaded(DeviceOf[w]) PROVE IsIdle(w)
      BY DEF WorkerSomewhere
    <3>1. PICK d \in Devices : d = DeviceOf[w] BY <1>a
    <3>2. selected = {} BY <3>1 DEF Loaded
    <3>3. idle[d] = IdleOf(d) BY <1>1, <3>2
    <3> QED BY <3>1, <3>3, IdleOfDevice DEF IsIdle
  <2>5. Unloaded
    <3> SUFFICES ASSUME NEW w \in Workers, ~Loaded(DeviceOf[w])
                 PROVE  ~IsIdle(w) /\ ~IsHeld(w) /\ work[w] = None /\ ~InCallback(w)
      BY DEF Unloaded
    <3>1. selected # {} BY <1>a DEF Loaded
    <3>2. ~IsIdle(w) BY <1>1, <3>1 DEF IsIdle
    <3> QED BY <1>a, <2>1, <2>2, <3>2
  <2> QED BY <2>3, <2>4, <2>5 DEF WorkerInv
<1>6. Wanted BY <1>a DEF Wanted, RunsWherePreferred, Queues
<1>7. Switching
  <2>1. Loads BY <1>a DEF Loads, Before, Loaded
  <2>2. ThreadsSwitch BY DEF ThreadsSwitch, OnlyLoadedDevices
  <2> QED BY <2>1, <2>2 DEF Switching
<1>8. Ends BY DEF Ends, Before, Leaving
<1> QED BY <1>2, <1>3, <1>4, <1>5, <1>6, <1>7, <1>8 DEF IndInv

\* Every step keeps the invariant.
LEMMA NextInv ==
    ASSUME IndInv, [Next]_vars
    PROVE  IndInv'
<1>1. TypeOK' /\ Locals' BY TypesInv, LocalsInv DEF IndInv
<1>2. TaskInv' BY TasksInv DEF IndInv, WorkerInv
<1>3. WorkerInv' BY WorkersInv DEF IndInv
<1>4. Wanted' BY WantedInv DEF IndInv
<1>5. Switching' BY LoadsInv, ThreadsSwitchInv DEF Switching
<1>6. Ends' BY EndsInv
<1> QED BY <1>1, <1>2, <1>3, <1>4, <1>5, <1>6 DEF IndInv

\* The invariant holds in every behaviour of the scheduler, however many requests,
\* devices and workers there are.
THEOREM Invariance == Spec => []IndInv
<1>1. Init => IndInv BY InitInv
<1>2. IndInv /\ [Next]_vars => IndInv' BY NextInv
<1> QED BY <1>1, <1>2, PTL DEF Spec

\* Every variable keeps its type.
THEOREM TypeCorrect == Spec => []TypeOK
<1>1. IndInv => TypeOK BY DEF IndInv
<1> QED BY <1>1, Invariance, PTL

\* A request whose blobs are on a device is executed on that device, whatever queue
\* it waited in and however SetConfig changed the priorities meanwhile.
THEOREM BlobsStayWhereTheyAre == Spec => []RunsWherePreferred
<1>1. IndInv => RunsWherePreferred BY DEF IndInv, Wanted
<1> QED BY <1>1, Invariance, PTL

\* The scheduler offers and queues tasks for devices with workers only.
THEOREM SchedulesOnLoadedDevices == Spec => []OnlyLoadedDevices
<1>1. IndInv => OnlyLoadedDevices BY DEF IndInv, Switching, ThreadsSwitch
<1> QED BY <1>1, Invariance, PTL

\* There is a network to ask for a metric as long as the executable network is used.
THEOREM SomeNetworkToAsk == Spec => []NetworkToAsk
<1>1. IndInv => NetworkToAsk
  BY DEF IndInv, Switching, Loads, NetworkToAsk, Before
<1> QED BY <1>1, Invariance, PTL

\* When the destructor has returned no thread and no load is left behind.
THEOREM NobodyLeftBehind == Spec => []QuietWhenGone
<1>1. IndInv => QuietWhenGone BY DEF IndInv, Ends, QuietWhenGone, Leaving
<1> QED BY <1>1, Invariance, PTL

\* A set of places is empty, or has one element, when any two of them are the same.
LEMMA OnePlace ==
    ASSUME NEW S, \A x, y \in S : x = y
    PROVE  /\ S = {} => Cardinality(S) = 0
           /\ S # {} => Cardinality(S) = 1
           /\ Cardinality(S) <= 1
<1>1. CASE S = {} BY <1>1, FS_EmptySet
<1>2. CASE S # {}
  <2>1. PICK x : S = {x} BY <1>2
  <2>2. Cardinality(S) = 1 BY <2>1, FS_Singleton
  <2> QED BY <1>2, <2>2
<1> QED BY <1>1, <1>2

\* From the moment a request is started until its run ends its task is in one queue,
\* with one thread of the scheduler, or in one worker; otherwise it is nowhere.
THEOREM TasksAreNeitherLostNorDoubled == Spec => []TaskHasOnePlace
<1>1. ASSUME IndInv PROVE TaskHasOnePlace
  <2> SUFFICES ASSUME NEW r \in Requests
               PROVE  Cardinality(TaskPlaces(r)) = IF r \in busy THEN 1 ELSE 0
    BY DEF TaskHasOnePlace
  <2> USE <1>1 DEF IndInv
  <2>a. r # None BY MultiAssumption
  <2>b. \A q \in Queues : DOMAIN tasks[q] = 1..Len(tasks[q])
    <3>1. \A q \in Queues : tasks[q] \in Seq(Requests) BY DEF TypeOK, Queues
    <3> QED BY <3>1
  <2>1. \A x : x \in TaskPlaces(r) <=>
            \/ \E q \in Queues : \E i \in 1..Len(tasks[q]) : x = <<"queue", q, i>> /\ tasks[q][i] = r
            \/ \E t \in Threads : x = <<"schedule", t>> /\ task[t] = r
            \/ \E w \in Workers : x = <<"worker", w>> /\ work[w] = r
    <3>1. \A x, q : x \in QueuedAt(r, q) <=>
            \E i \in DOMAIN tasks[q] : x = <<"queue", q, i>> /\ tasks[q][i] = r
      BY Zenon DEF QueuedAt
    <3>2. \A x : x \in ScheduledBy(r) <=> \E t \in Threads : x = <<"schedule", t>> /\ task[t] = r
      BY Zenon DEF ScheduledBy
    <3>3. \A x : x \in ExecutedBy(r) <=> \E w \in Workers : x = <<"worker", w>> /\ work[w] = r
      BY Zenon DEF ExecutedBy
    <3>4. \A x : x \in TaskPlaces(r) <=> (\E q \in Queues : x \in QueuedAt(r, q))
                                        \/ x \in ScheduledBy(r) \/ x \in ExecutedBy(r)
      BY DEF TaskPlaces, Queues
    <3> QED BY <2>b, <3>1, <3>2, <3>3, <3>4
  <2>2. ASSUME NEW x \in TaskPlaces(r), NEW y \in TaskPlaces(r) PROVE x = y
    <3>1. CASE \E q \in Queues : \E i \in 1..Len(tasks[q]) : x = <<"queue", q, i>> /\ tasks[q][i] = r
      <4>1. PICK q \in Queues : \E i \in 1..Len(tasks[q]) : x = <<"queue", q, i>> /\ tasks[q][i] = r
        BY <3>1
      <4>2. PICK i \in 1..Len(tasks[q]) : x = <<"queue", q, i>> /\ tasks[q][i] = r BY <4>1
      <4>3. /\ \A t \in Threads : task[t] # r
            /\ \A w \in Workers : work[w] # r
        BY <4>2 DEF TaskInv, TaskUnique
      <4>4. PICK p \in Queues : \E j \in 1..Len(tasks[p]) : y = <<"queue", p, j>> /\ tasks[p][j] = r
        BY <2>1, <4>3
      <4>5. PICK j \in 1..Len(tasks[p]) : y = <<"queue", p, j>> /\ tasks[p][j] = r BY <4>4
      <4>6. tasks[q][i] = tasks[p][j] BY <4>2, <4>5
      <4>7. q = p /\ i = j BY <4>6 DEF TaskInv, TaskUnique
      <4> QED BY <4>2, <4>5, <4>7
    <3>2. CASE \E t \in Threads : x = <<"schedule", t>> /\ task[t] = r
      <4>1. PICK t \in Threads : x = <<"schedule", t>> /\ task[t] = r BY <3>2
      <4>2. /\ \A q \in Queues : \A i \in 1..Len(tasks[q]) : tasks[q][i] # r
            /\ \A w \in Workers : work[w] # r
        BY <2>a, <4>1 DEF TaskInv, TaskUnique
      <4>3. PICK u \in Threads : y = <<"schedule", u>> /\ task[u] = r BY <2>1, <4>2
      <4>4. t = u BY <2>a, <4>1, <4>3 DEF TaskInv, TaskUnique
      <4> QED BY <4>1, <4>3, <4>4
    <3>3. CASE \E w \in Workers : x = <<"worker", w>> /\ work[w] = r
      <4>1. PICK w \in Workers : x = <<"worker", w>> /\ work[w] = r BY <3>3
      <4>2. /\ \A q \in Queues : \A i \in 1..Len(tasks[q]) : tasks[q][i] # r
            /\ \A t \in Threads : task[t] # r
        BY <2>a, <4>1 DEF TaskInv, TaskUnique
      <4>3. PICK v \in Workers : y = <<"worker", v>> /\ work[v] = r BY <2>1, <4>2
      <4>4. w = v BY <2>a, <4>1, <4>3 DEF TaskInv, TaskUnique
      <4> QED BY <4>1, <4>3, <4>4
    <3> QED BY <2>1, <3>1, <3>2, <3>3
  <2>3. TaskPlaces(r) # {} <=> HasTask(r)
    BY <2>1 DEF HasTask, InQueue, InThread, InWorker
  <2>4. HasTask(r) <=> r \in busy
    BY <2>a DEF TaskInv, BusyHasTask, TaskOfBusy, HasTask, InQueue, InThread, InWorker
  <2> QED BY <2>2, <2>3, <2>4, OnePlace
<1> QED BY <1>1, Invariance, PTL

\* A worker is never given to two requests, however the threads that release and take
\* workers interleave, and none is lost unless a stage threw or a callback was overtaken.
THEOREM WorkersAreNeitherLostNorShared == Spec => []WorkerHasOnePlace
<1>1. ASSUME IndInv PROVE WorkerHasOnePlace
  <2> SUFFICES ASSUME NEW w \in Workers
               PROVE  /\ Cardinality(WorkerPlaces(w)) <= 1
                      /\ phase = "used" /\ w \notin failed /\ Loaded(DeviceOf[w]) =>
                            WorkerPlaces(w) # {}
    BY DEF WorkerHasOnePlace
  <2> USE <1>1 DEF IndInv
  <2>a. w # None BY MultiAssumption
  <2>b. \A d \in Devices : DOMAIN idle[d] = 1..Len(idle[d])
    <3>1. \A d \in Devices : idle[d] \in Seq(Workers) BY DEF TypeOK
    <3> QED BY <3>1
  <2>1. \A x : x \in WorkerPlaces(w) <=>
            \/ \E d \in Devices : \E i \in 1..Len(idle[d]) : x = <<"idle", d, i>> /\ idle[d][i] = w
            \/ \E t \in Threads : x = <<"held", t>> /\ popped[t] = w
            \/ x = <<"started", work[w]>> /\ work[w] # None
            \/ x = <<"callback", w>> /\ InCallback(w)
    <3>1. \A x, d : x \in IdleAt(w, d) <=>
            \E i \in DOMAIN idle[d] : x = <<"idle", d, i>> /\ idle[d][i] = w
      BY Zenon DEF IdleAt
    <3>2. \A x : x \in HeldBy(w) <=> \E t \in Threads : x = <<"held", t>> /\ popped[t] = w
      BY Zenon DEF HeldBy
    <3>3. \A x : x \in StartedFor(w) <=> x = <<"started", work[w]>> /\ work[w] # None
      BY Zenon DEF StartedFor
    <3>4. \A x : x \in Unreleased(w) <=> x = <<"callback", w>> /\ InCallback(w)
      BY Zenon DEF Unreleased, InCallback
    <3>5. \A x : x \in WorkerPlaces(w) <=> (\E d \in Devices : x \in IdleAt(w, d))
                                          \/ x \in HeldBy(w) \/ x \in StartedFor(w)
                                          \/ x \in Unreleased(w)
      BY DEF WorkerPlaces
    <3> QED BY <2>b, <3>1, <3>2, <3>3, <3>4, <3>5
  <2>2. ASSUME NEW x \in WorkerPlaces(w), NEW y \in WorkerPlaces(w) PROVE x = y
    <3>1. CASE \E d \in Devices : \E i \in 1..Len(idle[d]) : x = <<"idle", d, i>> /\ idle[d][i] = w
      <4>1. PICK d \in Devices : \E i \in 1..Len(idle[d]) : x = <<"idle", d, i>> /\ idle[d][i] = w
        BY <3>1
      <4>2. PICK i \in 1..Len(idle[d]) : x = <<"idle", d, i>> /\ idle[d][i] = w BY <4>1
      <4>3. ~IsHeld(w) /\ work[w] = None /\ ~InCallback(w)
        BY <4>2 DEF WorkerInv, WorkerUnique, IsIdle
      <4>4. PICK e \in Devices : \E j \in 1..Len(idle[e]) : y = <<"idle", e, j>> /\ idle[e][j] = w
        BY <2>1, <4>3 DEF IsHeld
      <4>5. PICK j \in 1..Len(idle[e]) : y = <<"idle", e, j>> /\ idle[e][j] = w BY <4>4
      <4>6. d = DeviceOf[w] /\ e = DeviceOf[w] BY <4>2, <4>5 DEF WorkerInv, WorkerUnique
      <4>7. i = j BY <4>2, <4>5, <4>6 DEF WorkerInv, WorkerUnique
      <4> QED BY <4>2, <4>5, <4>6, <4>7
    <3>2. CASE \E t \in Threads : x = <<"held", t>> /\ popped[t] = w
      <4>1. PICK t \in Threads : x = <<"held", t>> /\ popped[t] = w BY <3>2
      <4>2. IsHeld(w) BY <4>1 DEF IsHeld
      <4>3. ~IsIdle(w) /\ work[w] = None /\ ~InCallback(w)
        BY <4>2 DEF WorkerInv, WorkerUnique
      <4>4. PICK u \in Threads : y = <<"held", u>> /\ popped[u] = w BY <2>1, <4>3 DEF IsIdle
      <4>5. t = u BY <2>a, <4>1, <4>4 DEF WorkerInv, WorkerUnique
      <4> QED BY <4>1, <4>4, <4>5
    <3>3. CASE x = <<"started", work[w]>> /\ work[w] # None
      <4>1. ~IsIdle(w) /\ ~IsHeld(w) /\ ~InCallback(w) BY <3>3 DEF WorkerInv, WorkerUnique
      <4> QED BY <2>1, <3>3, <4>1 DEF IsIdle, IsHeld
    <3>4. CASE x = <<"callback", w>> /\ InCallback(w)
      <4>1. ~IsIdle(w) /\ ~IsHeld(w) /\ work[w] = None BY <3>4 DEF WorkerInv, WorkerUnique
      <4> QED BY <2>1, <3>4, <4>1 DEF IsIdle, IsHeld
    <3> QED BY <2>1, <3>1, <3>2, <3>3, <3>4
  <2>3. ASSUME phase = "used", w \notin failed, Loaded(DeviceOf[w])
        PROVE  WorkerPlaces(w) # {}
    <3>1. closed = {} BY <2>3 DEF Ends
    <3>2. IsIdle(w) \/ IsHeld(w) \/ work[w] # None \/ InCallback(w)
      BY <2>3, <3>1 DEF WorkerInv, WorkerSomewhere
    <3> QED BY <2>1, <3>2 DEF IsIdle, IsHeld
  <2> QED BY <2>2, <2>3, OnePlace
<1> QED BY <1>1, Invariance, PTL
=============================================================================
