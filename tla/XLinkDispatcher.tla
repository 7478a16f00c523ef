---------------------------- MODULE XLinkDispatcher ----------------------------
(***************************************************************************)
(* The XLink dispatchers at the two ends of a link to a Movidius device    *)
(* (XLinkDispatcher.c, XLinkDispatcherImpl.c), one stream between them.    *)
(*                                                                         *)
(* At each end the application's threads put local requests in a ring of   *)
(* slots and wait, each on a semaphore of its own; a reader thread puts    *)
(* what the peer sends in a second ring; a scheduler thread, woken by a    *)
(* counting semaphore, serves both. A write waits (BLOCKED) until the peer *)
(* has room, which the writer accounts for itself (remoteFillLevel); a     *)
(* read waits until a packet is there. When the link fails, the thread     *)
(* that sees it frees every request that waits. A reset request of the     *)
(* host makes both ends stop and clean up.                                 *)
(***************************************************************************)
EXTENDS Naturals, Sequences, FiniteSetsExt, Totals

CONSTANTS Host, Device,     \* the two ends
          HostThreads, DeviceThreads,
          FaultModels,      \* subset of BOOLEAN: the values of mayFail
          Ops,              \* [mayFail -> [thread -> requests it may make]]
          Budget,           \* [mayFail -> [thread -> how many of them]], bounds the model
          Recycles,         \* a slot may be used again while the scheduler still reads it
          MaxEvents,        \* slots of a ring (MAX_EVENTS)
          MaxPackets,       \* XLINK_MAX_PACKETS_PER_STREAM
          Capacity          \* bytes of the stream: writeSize here, readSize there

Peers   == {Host, Device}
Threads == HostThreads \cup DeviceThreads
Slots   == 1..MaxEvents
Other(p) == IF p = Host THEN Device ELSE Host
PeerOf(t) == IF t \in HostThreads THEN Host ELSE Device

Requests  == {"WRITE", "READ", "RELEASE", "RESET"}
Responses == [WRITE |-> "WRITE_RESP", RELEASE |-> "RELEASE_RESP", RESET |-> "RESET_RESP"]

\* A ring has two slots for each thread of its end, as MAX_EVENTS is twice
\* MAXIMUM_SEMAPHORES: with fewer, the cursors may cross (see Add).
ASSUME RoomForThreads ==
    /\ MaxEvents \in Nat \ {0}
    /\ \A T \in {HostThreads, DeviceThreads} :
          T # {} /\ IsFiniteSet(T) /\ 2 * Cardinality(T) <= MaxEvents

ASSUME DispatcherAssumption ==
    /\ Host # Device
    /\ HostThreads \cap DeviceThreads = {}
    /\ FaultModels \subseteq BOOLEAN
    /\ Ops \in [BOOLEAN -> [Threads -> SUBSET [type : Requests, size : Nat]]]
    /\ Budget \in [BOOLEAN -> [Threads -> Nat]]
    /\ MaxPackets \in Nat \ {0} /\ Capacity \in Nat
    /\ Recycles \in BOOLEAN

VARIABLES
    mayFail,     \* the device may be unplugged; never changes
    lQueue,      \* [peer -> [slot -> local event]]
    cur,         \* [peer -> slot where the search for a free one starts]
    curProc,     \* [peer -> slot where the search for the next event starts, 0 for NULL]
    rQueue,      \* [peer -> Seq(message)]: the remote ring, served in order
    notify,      \* [peer -> count of notifyDispatcherSem]
    localFirst,  \* [peer -> queueProcPriority]
    sched,       \* [peer -> where the scheduler thread is]
    reader,      \* [peer -> where the reader thread is]
    freeing,     \* [peer -> [its thread -> slot dispatcherFreeEvents has found, or 0]]
    resetXLink,  \* [peer -> the flag that stops both loops]
    stream,      \* [peer -> the stream's descriptor]
    wire,        \* [peer -> Seq(message)]: sent by the peer, not yet received
    up,          \* the link works
    pc,          \* [thread -> "idle", "add", "wait"]
    call,        \* [thread -> its request], with the id of its event
    sem,         \* [thread -> count of its semaphore]
    acked,       \* [thread -> the ack flag copied back to it]
    got,         \* [thread -> packets it has read and not yet released]
    left         \* [thread -> calls it may still make]

queues  == <<lQueue, cur, curProc, rQueue, notify, localFirst>>
threads == <<pc, call, sem, acked, got, left>>
vars == <<mayFail, queues, sched, reader, freeing, resetXLink, stream, wire, up, threads>>

-------------------------------------------------------------------------------
(* The ring of local events. *)

NoRequest == [type |-> "NONE", size |-> 0, id |-> <<>>]

FreeSlot(t) == [state |-> "SERVED", type |-> "NONE", id |-> <<>>, size |-> 0,
                thread |-> t, localServe |-> FALSE, ack |-> FALSE]

\* Mutant: the cursor does not come back to the base of the ring.
AfterUnwrapped(s) == s % MaxEvents

After(s) == (s % MaxEvents) + 1

InState(p, st) == {s \in Slots : lQueue[p][s].state = st}

\* The first slot of S met when going round the ring from slot start.
FirstFrom(S, start) ==
    LET distance(s) == (s + MaxEvents - start) % MaxEvents
    IN  CHOOSE s \in S : \A r \in S : distance(s) <= distance(r)

\* What a free slot keeps is what the code may still read there: type, flags and semaphore.
Served(e) == [e EXCEPT !.state = "SERVED", !.id = <<>>, !.size = 0]

\* Mutant: the slot is not given back.
PostOnly(p, s, e) ==
    /\ acked' = [acked EXCEPT ![e.thread] = e.ack]
    /\ sem' = [sem EXCEPT ![e.thread] = @ + 1]
    /\ UNCHANGED lQueue

\* postAndMarkEventServed: the result goes to the caller's buffer, its semaphore is posted.
PostAndMarkServed(p, s, e) ==
    /\ lQueue' = [lQueue EXCEPT ![p][s] = Served(e)]
    /\ acked' = [acked EXCEPT ![e.thread] = e.ack]
    /\ sem' = [sem EXCEPT ![e.thread] = @ + 1]

-------------------------------------------------------------------------------
(* The application's threads. *)

\* The link is open and at rest. Its rings have been in use: the next event goes to the
\* last slot, the one after it to the first.
Init ==
    /\ lQueue = [p \in Peers |-> [s \in Slots |->
            FreeSlot(CHOOSE t \in Threads : PeerOf(t) = p)]]
    /\ cur = [p \in Peers |-> MaxEvents]
    /\ curProc = [p \in Peers |-> MaxEvents]
    /\ rQueue = [p \in Peers |-> <<>>]
    /\ notify = [p \in Peers |-> 0]
    /\ localFirst = [p \in Peers |-> FALSE]
    /\ sched = [p \in Peers |-> [at |-> "get", slot |-> 1, msg |-> NoRequest]]
    /\ reader = [p \in Peers |-> [at |-> "recv", msg |-> NoRequest]]
    /\ freeing = [p \in Peers |-> [w \in {"sched", "reader"} |-> 0]]
    /\ resetXLink = [p \in Peers |-> FALSE]
    /\ stream = [p \in Peers |-> [remoteFill |-> 0, remotePackets |-> 0, localFill |-> 0,
                                  available |-> <<>>, blocked |-> <<>>]]
    /\ wire = [p \in Peers |-> <<>>]
    /\ up = TRUE
    /\ pc = [t \in Threads |-> "idle"]
    /\ call = [t \in Threads |-> NoRequest]
    /\ sem = [t \in Threads |-> 0]
    /\ acked = [t \in Threads |-> FALSE]
    /\ got = [t \in Threads |-> 0]
    /\ mayFail \in FaultModels
    /\ left = Budget[mayFail]

\* XLinkWriteData, XLinkReadData, XLinkReleaseData, XLinkResetRemote up to the check of
\* resetXLink in DispatcherAddEvent; a call made after it fails at once.
\* The application releases only what it has read.
Call(t, op) ==
    /\ pc[t] = "idle" /\ left[t] > 0
    /\ ~resetXLink[PeerOf(t)]
    /\ op.type = "RELEASE" => got[t] > 0
    /\ pc' = [pc EXCEPT ![t] = "add"]
    /\ call' = [call EXCEPT ![t] = [type |-> op.type, size |-> op.size,
                                id |-> <<t, left[t]>>]]
    /\ left' = [left EXCEPT ![t] = @ - 1]
    /\ got' = IF op.type = "RELEASE" THEN [got EXCEPT ![t] = @ - 1] ELSE got
    /\ UNCHANGED <<queues, sched, reader, freeing, resetXLink, stream, wire, up,
                   sem, acked>>

\* The rest of DispatcherAddEvent: the event goes to the first free slot, then the
\* scheduler is notified. After the clean-up the semaphore addEventSem is gone.
\* The slot may be the one of a read that the scheduler has just served and looks at
\* again before it goes on. A search that starts at cur never gets round to curProc: the
\* slots it passes are those of threads that wait, or waited when they were passed.
Add(t) ==
    LET p == PeerOf(t)
        s == FirstFrom(InState(p, "SERVED"), cur[p])
    IN
    /\ pc[t] = "add"
    /\ Recycles \/ sched[p].at # "send" \/ s # sched[p].slot
    /\ IF sched[p].at = "closed" \/ InState(p, "SERVED") = {}
       THEN /\ pc' = [pc EXCEPT ![t] = "idle"]
            /\ call' = [call EXCEPT ![t] = NoRequest]
            /\ notify' = [notify EXCEPT ![p] = @ + (IF sched[p].at = "closed" THEN 0 ELSE 1)]
            /\ UNCHANGED <<lQueue, cur, curProc, rQueue, localFirst, acked>>
       ELSE /\ pc' = [pc EXCEPT ![t] = "wait"]
            /\ lQueue' = [lQueue EXCEPT ![p][s] =
                   [state |-> "ALLOCATED", type |-> call[t].type, id |-> call[t].id,
                    size |-> call[t].size, thread |-> t, localServe |-> FALSE, ack |-> FALSE]]
            /\ cur' = [cur EXCEPT ![p] = After(s)]
            /\ notify' = [notify EXCEPT ![p] = @ + 1]
            /\ acked' = [acked EXCEPT ![t] = FALSE]
            /\ UNCHANGED <<curProc, rQueue, localFirst, call>>
    /\ UNCHANGED <<sched, reader, freeing, resetXLink, stream, wire, up, sem, got, left>>

\* DispatcherWaitEventComplete and what the call returns. The clean-up posts and destroys
\* every semaphore, so a call that waits then returns as well. XLinkResetRemote waits for
\* the end of the dispatcher too (dispatcherClosedSem).
Return(t) ==
    /\ pc[t] = "wait"
    /\ call[t].type = "RESET" => sched[PeerOf(t)].at = "closed"
    /\ \/ /\ sem[t] > 0
          /\ sem' = [sem EXCEPT ![t] = @ - 1]
       \/ /\ sched[PeerOf(t)].at = "closed"
          /\ UNCHANGED sem
    /\ got' = IF call[t].type = "READ" /\ acked[t] THEN [got EXCEPT ![t] = @ + 1] ELSE got
    /\ pc' = [pc EXCEPT ![t] = "idle"]
    /\ call' = [call EXCEPT ![t] = NoRequest]
    /\ acked' = [acked EXCEPT ![t] = FALSE]
    /\ UNCHANGED <<queues, sched, reader, freeing, resetXLink, stream, wire, up, left>>

-------------------------------------------------------------------------------
(* The scheduler thread: the next event, dispatcherGetNextEvent. *)

HasLocal(p)  == cur[p] # curProc[p] /\ InState(p, "ALLOCATED") # {}
HasRemote(p) == Len(rQueue[p]) \notin {0, MaxEvents}   \* the cursors of a full ring meet

\* An unblocked event first, then the two rings in turns.
NextEvent(p) ==
    CASE InState(p, "READY") # {} -> "ready"
      [] InState(p, "READY") = {} /\ HasRemote(p) /\ ~(localFirst[p] /\ HasLocal(p)) -> "remote"
      [] InState(p, "READY") = {} /\ HasLocal(p) /\ ~(~localFirst[p] /\ HasRemote(p)) -> "local"
      [] OTHER -> "none"

\* The ring is searched and holds no event to be served: both threads have freed the same
\* slot, the second one after an event had come into it.
LosesCursor(p) ==
    /\ InState(p, "READY") = {}
    /\ cur[p] # curProc[p] /\ InState(p, "ALLOCATED") = {}
    /\ localFirst[p] \/ ~HasRemote(p)

NextSlot(p) ==
    IF NextEvent(p) = "ready" THEN Min(InState(p, "READY"))
                              ELSE FirstFrom(InState(p, "ALLOCATED"), curProc[p])

\* What taking the next event does to the cursors.
TakeNext(p) ==
    /\ localFirst' = [localFirst EXCEPT ![p] = IF NextEvent(p) = "ready" THEN @ ELSE ~@]
    /\ curProc' = [curProc EXCEPT ![p] = IF NextEvent(p) = "local" THEN After(NextSlot(p))
                                         ELSE IF LosesCursor(p) THEN 0 ELSE @]
    /\ rQueue' = [rQueue EXCEPT ![p] = IF NextEvent(p) = "remote" THEN Tail(@) ELSE @]
    /\ UNCHANGED cur

GoTo(p, where) == sched' = [sched EXCEPT ![p].at = where]

-------------------------------------------------------------------------------
(* The scheduler thread: sendEvents. *)

\* Mutant: any room is enough.
HasSomeRoom(p, size) ==
    /\ stream[p].remotePackets < MaxPackets
    /\ stream[p].remoteFill < Capacity

HasRoom(p, size) ==      \* isStreamSpaceEnoughFor
    /\ stream[p].remotePackets < MaxPackets
    /\ stream[p].remoteFill + size <= Capacity

GetPacket(p) ==          \* getPacketFromStream
    stream' = [stream EXCEPT ![p].available = Tail(@),
                             ![p].blocked = Append(@, Head(stream[p].available))]

\* Mutant: the fill level stays.
ReleaseSlotOnly(p) ==
    stream' = [stream EXCEPT ![p].blocked = Tail(@)]

ReleasedSize(p) == IF stream[p].blocked = <<>> THEN 0 ELSE Head(stream[p].blocked).size

ReleasePacket(p) ==      \* releasePacketFromStream: the oldest one, whoever read it
    stream' = IF stream[p].blocked = <<>> THEN stream
              ELSE [stream EXCEPT ![p].localFill = @ - ReleasedSize(p), ![p].blocked = Tail(@)]

Block(e) == [e EXCEPT !.state = "BLOCKED", !.localServe = TRUE]
Pend(e)  == [e EXCEPT !.state = "PENDING", !.localServe = FALSE, !.ack = TRUE]

\* dispatcherLocalEventGetResponse and dispatcherRequestServe for the local event in slot s.
ServeLocal(p, s) ==
    LET e == lQueue[p][s]
        put(f) == lQueue' = [lQueue EXCEPT ![p][s] = f]
    IN
    /\ sched' = [sched EXCEPT ![p].at = "send", ![p].slot = s]
    /\ \/ /\ e.type = "WRITE" /\ HasRoom(p, e.size)
          /\ stream' = [stream EXCEPT ![p].remoteFill = @ + e.size, ![p].remotePackets = @ + 1]
          /\ put(Pend(e))
          /\ UNCHANGED <<acked, sem>>
       \/ /\ e.type = "WRITE" /\ ~HasRoom(p, e.size)
          /\ put([Block(e) EXCEPT !.ack = TRUE])
          /\ UNCHANGED <<stream, acked, sem>>
       \/ /\ e.type = "READ" /\ stream[p].available # <<>>
          /\ GetPacket(p)
          /\ PostAndMarkServed(p, s, [e EXCEPT !.ack = TRUE, !.localServe = TRUE])
       \/ /\ e.type = "READ" /\ stream[p].available = <<>>
          /\ put(Block(e))
          /\ UNCHANGED <<stream, acked, sem>>
       \/ /\ e.type = "RELEASE"
          /\ ReleasePacket(p)
          /\ put([Pend(e) EXCEPT !.size = ReleasedSize(p)])
          /\ UNCHANGED <<acked, sem>>
       \/ /\ e.type = "RESET"
          /\ put(Pend(e))
          /\ UNCHANGED <<stream, acked, sem>>

Running(p) == sched[p].at = "get" /\ notify[p] > 0

\* The end of an iteration, with the condition of the loop.
LoopUnless(reset) == IF reset THEN "join" ELSE "get"

\* The condition, evaluated later: whoever sets resetXLink may come first. A scheduler that
\* passed it before waits for an event and serves it.
SchedStop(p) ==
    /\ sched[p].at = "get" /\ resetXLink[p]
    /\ GoTo(p, "join")
    /\ UNCHANGED <<queues, reader, freeing, resetXLink, stream, wire, up, threads>>

SchedLocal(p) ==
    /\ Running(p) /\ NextEvent(p) \in {"ready", "local"}
    /\ ServeLocal(p, NextSlot(p))
    /\ TakeNext(p)
    /\ notify' = [notify EXCEPT ![p] = @ - 1]
    /\ UNCHANGED <<reader, freeing, resetXLink, wire, up, pc, call, got, left>>

\* Mutant: the event is made ready and nobody is told.
UnblockSilently(p, type) ==
    LET S == {s \in InState(p, "BLOCKED") : lQueue[p][s].type = type}
    IN  /\ notify' = [notify EXCEPT ![p] = @ - 1]
        /\ lQueue' = IF S = {} THEN lQueue
                     ELSE [lQueue EXCEPT ![p][Min(S)].state = "READY"]

\* Mutant: only the first of the blocked requests is looked at.
UnblockIfFirst(p, type) ==
    LET S == InState(p, "BLOCKED")
    IN  IF S = {} \/ lQueue[p][Min(S)].type # type
        THEN /\ notify' = [notify EXCEPT ![p] = @ - 1]
             /\ UNCHANGED lQueue
        ELSE /\ lQueue' = [lQueue EXCEPT ![p][Min(S)].state = "READY"]
             /\ UNCHANGED notify

\* DispatcherUnblockEvent: the first blocked request of the type, in the order of the
\* slots; the scheduler has just taken one token.
UnblockFirst(p, type) ==
    LET S == {s \in InState(p, "BLOCKED") : lQueue[p][s].type = type}
    IN  IF S = {}
        THEN /\ notify' = [notify EXCEPT ![p] = @ - 1]
             /\ UNCHANGED lQueue
        ELSE /\ lQueue' = [lQueue EXCEPT ![p][Min(S)].state = "READY"]
             /\ UNCHANGED notify

\* dispatcherRemoteEventGetResponse for a request of the peer.
SchedRemoteRequest(p) ==
    LET m == Head(rQueue[p]) IN
    /\ Running(p) /\ NextEvent(p) = "remote"
    /\ m.type \in Requests
    /\ \/ /\ m.type = "WRITE"
          /\ UnblockFirst(p, "READ")
          /\ UNCHANGED stream
       \/ /\ m.type = "RELEASE"
          /\ stream' = [stream EXCEPT ![p].remoteFill = @ - m.size, ![p].remotePackets = @ - 1]
          /\ UnblockFirst(p, "WRITE")
       \/ /\ m.type = "RESET"
          /\ notify' = [notify EXCEPT ![p] = @ - 1]
          /\ UNCHANGED <<lQueue, stream>>
    /\ TakeNext(p)
    /\ sched' = [sched EXCEPT ![p].at = "reply", ![p].msg =
                    [type |-> Responses[m.type], size |-> m.size, id |-> m.id]]
    /\ UNCHANGED <<reader, freeing, resetXLink, wire, up, threads>>

\* dispatcherResponseServe: the pending request with the id and the type of the response.
SchedResponse(p) ==
    LET m == Head(rQueue[p])
        asked == {s \in InState(p, "PENDING") :
                     lQueue[p][s].id = m.id /\ Responses[lQueue[p][s].type] = m.type}
    IN
    /\ Running(p) /\ NextEvent(p) = "remote"
    /\ m.type \notin Requests
    /\ IF asked = {} THEN UNCHANGED <<lQueue, acked, sem>>
       ELSE PostAndMarkServed(p, Min(asked), [lQueue[p][Min(asked)] EXCEPT !.ack = TRUE])
    /\ TakeNext(p)
    /\ notify' = [notify EXCEPT ![p] = @ - 1]
    /\ GoTo(p, LoopUnless(resetXLink[p]))
    /\ UNCHANGED <<reader, freeing, resetXLink, stream, wire, up, pc, call, got, left>>

\* "Dispatcher received NULL event!": the host leaves the loop, the device goes on.
SchedNull(p) ==
    /\ Running(p) /\ NextEvent(p) = "none"
    /\ TakeNext(p)
    /\ notify' = [notify EXCEPT ![p] = @ - 1]
    /\ GoTo(p, IF p = Host THEN "join" ELSE LoopUnless(resetXLink[p]))
    /\ UNCHANGED <<lQueue, reader, freeing, resetXLink, stream, wire, up, threads>>

\* The end of the loop's body for a local event: what the slot holds NOW is sent. The host
\* stops after a reset request. If eventSend fails, all that waits is freed.
SchedSend(p) ==
    LET e == lQueue[p][sched[p].slot] IN
    /\ sched[p].at = "send"
    /\ resetXLink' = [resetXLink EXCEPT ![p] =
            @ \/ (p = Host /\ ~e.localServe /\ e.type = "RESET")]
    /\ wire' = IF up /\ ~e.localServe
               THEN [wire EXCEPT ![p] = Append(@, [type |-> e.type, size |-> e.size, id |-> e.id])]
               ELSE wire
    /\ sched' = [sched EXCEPT ![p].slot = 1, ![p].at =
            IF up \/ e.localServe THEN LoopUnless(resetXLink'[p]) ELSE "free"]
    /\ UNCHANGED <<queues, reader, freeing, stream, up, threads>>

SchedReply(p) ==
    /\ sched[p].at = "reply"
    /\ wire' = IF up THEN [wire EXCEPT ![p] = Append(@, sched[p].msg)] ELSE wire
    /\ sched' = [sched EXCEPT ![p].msg = IF up THEN NoRequest ELSE @,
                              ![p].at = IF up THEN LoopUnless(resetXLink[p]) ELSE "free"]
    /\ UNCHANGED <<queues, reader, freeing, resetXLink, stream, up, threads>>

-------------------------------------------------------------------------------
(* dispatcherFreeEvents, by either thread of the dispatcher: an event that waits, the      *)
(* pending ones first, is found in one step and served in the next.                        *)

Waiting(p) == IF InState(p, "PENDING") # {} THEN InState(p, "PENDING") ELSE InState(p, "BLOCKED")

Find(p, w) ==
    /\ freeing[p][w] = 0
    /\ Waiting(p) # {}
    /\ freeing' = [freeing EXCEPT ![p][w] = Min(Waiting(p))]

\* The event is found; the thread goes on when there is none left.
SchedFind(p) ==
    /\ sched[p].at \in {"free", "clean"} /\ Find(p, "sched")
    /\ UNCHANGED <<queues, sched, reader, resetXLink, stream, wire, up, threads>>

ReaderFind(p) ==
    /\ reader[p].at = "fail" /\ Find(p, "reader")
    /\ UNCHANGED <<queues, sched, reader, resetXLink, stream, wire, up, threads>>

Free(p, w) ==
    LET s == freeing[p][w] IN
    /\ s # 0
    /\ PostAndMarkServed(p, s, lQueue[p][s])
    /\ freeing' = [freeing EXCEPT ![p][w] = 0]
    /\ UNCHANGED <<cur, curProc, rQueue, notify, localFirst, sched, reader, resetXLink,
                   stream, wire, up, pc, call, got, left>>

AllFree(p, w) == freeing[p][w] = 0 /\ Waiting(p) = {}

SchedFreed(p) ==
    /\ sched[p].at = "free" /\ AllFree(p, "sched")
    /\ sched' = [sched EXCEPT ![p].msg = NoRequest, ![p].at = LoopUnless(resetXLink[p])]
    /\ UNCHANGED <<queues, reader, freeing, resetXLink, stream, wire, up, threads>>

-------------------------------------------------------------------------------
(* The reader thread: eventReader. *)

\* dispatcherEventReceive and handleIncomingEvent: a packet goes to the stream before its
\* event is queued; one that finds no place is dropped like a failed read.
Receive(p) ==
    LET m == Head(wire[Other(p)])
        held == Len(stream[p].available) + Len(stream[p].blocked)
    IN
    /\ reader[p].at = "recv"
    /\ up /\ wire[Other(p)] # <<>>
    /\ wire' = [wire EXCEPT ![Other(p)] = Tail(@)]
    /\ stream' = IF m.type # "WRITE" THEN stream ELSE
                 [stream EXCEPT ![p].localFill = @ + m.size,
                    ![p].available = IF held < MaxPackets
                                     THEN Append(@, [id |-> m.id, size |-> m.size]) ELSE @]
    /\ reader' = [reader EXCEPT ![p] =
                    IF m.type = "WRITE" /\ held >= MaxPackets
                    THEN [at |-> "fail", msg |-> NoRequest] ELSE [at |-> "add", msg |-> m]]
    /\ UNCHANGED <<queues, sched, freeing, resetXLink, up, threads>>

\* The read fails: all that waits is freed. While there is nothing to free and no reset,
\* the loop turns without effect.
ReceiveFails(p) ==
    /\ reader[p].at = "recv" /\ ~up
    /\ Waiting(p) # {} \/ resetXLink[p]
    /\ reader' = [reader EXCEPT ![p].at = "fail"]
    /\ UNCHANGED <<queues, sched, freeing, resetXLink, stream, wire, up, threads>>

\* DispatcherAddEvent for a remote event. The token is posted even if the ring is full.
AddRemote(p) ==
    LET m == reader[p].msg
        used == Len(rQueue[p]) + (IF sched[p].msg # NoRequest THEN 1 ELSE 0)
    IN
    /\ reader[p].at = "add"
    /\ IF resetXLink[p] THEN UNCHANGED <<rQueue, notify>>
       ELSE /\ rQueue' = [rQueue EXCEPT ![p] = IF used < MaxEvents THEN Append(@, m) ELSE @]
            /\ notify' = [notify EXCEPT ![p] = @ + 1]
    /\ resetXLink' = [resetXLink EXCEPT ![p] = @ \/ m.type = "RESET"]
    /\ reader' = [reader EXCEPT ![p] =
                    [at |-> IF resetXLink'[p] THEN "exit" ELSE "recv", msg |-> NoRequest]]
    /\ UNCHANGED <<lQueue, cur, curProc, localFirst, sched, freeing, stream, wire, up,
                   threads>>

\* The condition of the reader's loop after a read that failed.
ReaderLoop(p) ==
    /\ reader[p].at = "fail" /\ AllFree(p, "reader")
    /\ reader' = [reader EXCEPT ![p].at = IF resetXLink[p] THEN "exit" ELSE "recv"]
    /\ UNCHANGED <<queues, sched, freeing, resetXLink, stream, wire, up, threads>>

\* The condition, evaluated later; a reader that passed it before waits for a message.
ReaderStop(p) ==
    /\ reader[p].at = "recv" /\ resetXLink[p]
    /\ reader' = [reader EXCEPT ![p].at = "exit"]
    /\ UNCHANGED <<queues, sched, freeing, resetXLink, stream, wire, up, threads>>

-------------------------------------------------------------------------------
(* The end of a dispatcher: dispatcherReset and dispatcherClean. *)

\* The reader is joined, the device's handle is closed, a token is posted "to get a NULL event".
Join(p) ==
    /\ sched[p].at = "join"
    /\ reader[p].at = "exit"
    /\ up' = FALSE
    /\ wire' = [q \in Peers |-> <<>>]
    /\ notify' = [notify EXCEPT ![p] = @ + 1]
    /\ GoTo(p, "drain")
    /\ UNCHANGED <<lQueue, cur, curProc, rQueue, localFirst, reader, freeing, resetXLink,
                   stream, threads>>

\* Drops the events that are queued, then frees those that wait.
Drain(p) ==
    /\ sched[p].at = "drain" /\ notify[p] > 0
    /\ TakeNext(p)
    /\ notify' = [notify EXCEPT ![p] = @ - 1]
    /\ IF NextEvent(p) \in {"ready", "local"}
       THEN PostAndMarkServed(p, NextSlot(p), lQueue[p][NextSlot(p)])
       ELSE UNCHANGED <<lQueue, acked, sem>>
    /\ IF NextEvent(p) = "none"
       THEN GoTo(p, "clean") ELSE UNCHANGED sched
    /\ UNCHANGED <<reader, freeing, resetXLink, stream, wire, up, pc, call, got, left>>

\* The semaphores are posted and destroyed, the link is closed with its stream.
Close(p) ==
    /\ sched[p].at = "clean" /\ AllFree(p, "sched")
    /\ GoTo(p, "closed")
    /\ resetXLink' = [resetXLink EXCEPT ![p] = TRUE]
    /\ stream' = [stream EXCEPT ![p] = [remoteFill |-> 0, remotePackets |-> 0, localFill |-> 0,
                                        available |-> <<>>, blocked |-> <<>>]]
    /\ UNCHANGED <<queues, reader, freeing, wire, up, threads>>

\* The device is unplugged: what is on its way is lost.
Unplug ==
    /\ mayFail /\ up
    /\ up' = FALSE
    /\ wire' = [p \in Peers |-> <<>>]
    /\ UNCHANGED <<queues, sched, reader, freeing, resetXLink, stream, threads>>

-------------------------------------------------------------------------------
Scheduler(p) ==
    \/ SchedLocal(p) \/ SchedRemoteRequest(p) \/ SchedResponse(p) \/ SchedNull(p)
    \/ SchedSend(p) \/ SchedReply(p) \/ SchedFind(p) \/ Free(p, "sched") \/ SchedFreed(p)
    \/ Join(p) \/ Drain(p) \/ Close(p)

Reader(p) ==
    \/ Receive(p) \/ ReceiveFails(p) \/ AddRemote(p)
    \/ ReaderFind(p) \/ Free(p, "reader") \/ ReaderLoop(p)

\* A device that was unplugged or reset is gone, with its memory. So is a process that has
\* only a NULL cursor to go on from.
Alive(p) == (p = Host \/ up) /\ curProc[p] # 0

Next ==
    /\ \/ \E t \in Threads :
             /\ Alive(PeerOf(t))
             /\ (\E op \in Ops[mayFail][t] : Call(t, op)) \/ Add(t) \/ Return(t)
       \/ \E p \in Peers :
             /\ Alive(p)
             /\ Scheduler(p) \/ Reader(p) \/ SchedStop(p) \/ ReaderStop(p)
       \/ Unplug
    /\ UNCHANGED mayFail

\* The threads of the system get to run. The application decides itself when it calls.
Fairness ==
    /\ \A t \in Threads :
          WF_vars(Alive(PeerOf(t)) /\ (Add(t) \/ Return(t)) /\ UNCHANGED mayFail)
    /\ \A p \in Peers : /\ WF_vars(Alive(p) /\ Scheduler(p) /\ UNCHANGED mayFail)
                        /\ WF_vars(Alive(p) /\ Reader(p) /\ UNCHANGED mayFail)

Spec == Init /\ [][Next]_vars /\ Fairness

-------------------------------------------------------------------------------
(* Properties. *)

Message == [type : {"WRITE", "RELEASE", "RESET", "NONE", "WRITE_RESP", "RELEASE_RESP", "RESET_RESP"},
            size : Nat, id : {<<>>} \cup (Threads \X Nat)]

\* Types, and the positions the two threads of a dispatcher go through.
TypeOK ==
    /\ mayFail \in FaultModels
    /\ \A p \in Peers, s \in Slots :
          /\ lQueue[p][s].state \in {"ALLOCATED", "PENDING", "BLOCKED", "READY", "SERVED"}
          /\ lQueue[p][s].type \in Requests \cup {"NONE"}
          /\ PeerOf(lQueue[p][s].thread) = p
    /\ cur \in [Peers -> Slots] /\ curProc \in [Peers -> Slots \cup {0}]
    /\ \A p \in Peers : /\ rQueue[p] \in Seq(Message) /\ Len(rQueue[p]) <= MaxEvents
                        /\ wire[p] \in Seq(Message)
                        /\ sched[p].at \in {"get", "send", "reply", "free", "join", "drain",
                                            "clean", "closed"}
                        /\ reader[p].at \in {"recv", "add", "fail", "exit"}
                        /\ freeing[p] \in [{"sched", "reader"} -> Slots \cup {0}]
                        /\ stream[p].remoteFill \in Nat /\ stream[p].remotePackets \in Nat
                        /\ stream[p].localFill \in Nat
    /\ notify \in [Peers -> Nat]
    /\ localFirst \in [Peers -> BOOLEAN] /\ resetXLink \in [Peers -> BOOLEAN]
    /\ pc \in [Threads -> {"idle", "add", "wait"}]
    /\ sem \in [Threads -> Nat] /\ got \in [Threads -> Nat] /\ left \in [Threads -> Nat]
    /\ acked \in [Threads -> BOOLEAN] /\ up \in BOOLEAN

SizeOf(q, type) == Total([i \in DOMAIN q |-> IF q[i].type = type THEN q[i].size ELSE 0])
CountOf(q, type) == Cardinality({i \in DOMAIN q : q[i].type = type})

\* The event the scheduler has served and is about to send.
Sending(p) ==
    IF sched[p].at = "send" /\ ~lQueue[p][sched[p].slot].localServe
    THEN <<lQueue[p][sched[p].slot]>> ELSE <<>>

\* What the reader has received and not yet queued.
Adding(p) == IF reader[p].at = "add" THEN <<reader[p].msg>> ELSE <<>>

Working == up /\ \A p \in Peers : ~resetXLink[p]

\* While the link works, what a writer believes its peer holds (remoteFillLevel and
\* remoteFillPacketLevel) is exactly what the peer holds, plus the packets on their way
\* there, plus the releases on their way back: no credit is lost and none is given twice,
\* whatever the two dispatchers are doing.
CreditsAccountedFor ==
    Working => \A p \in Peers :
        LET q == Other(p)
            there == Sending(p) \o wire[p]
            back  == Sending(q) \o wire[q] \o Adding(p) \o rQueue[p]
        IN  /\ stream[p].remoteFill = SizeOf(there, "WRITE") + stream[q].localFill
                                      + SizeOf(back, "RELEASE")
            /\ stream[p].remotePackets =
                  CountOf(there, "WRITE") + Len(stream[q].available) + Len(stream[q].blocked)
                  + CountOf(back, "RELEASE")

Blocked(p, type) == {s \in InState(p, "BLOCKED") : lQueue[p][s].type = type}
Woken(p, type)   == {s \in InState(p, "READY") : lQueue[p][s].type = type}

\* No lost wakeup: while a read is blocked, each packet that is there has an event or a
\* woken read that will take it; while a write is blocked, a packet of this end is still
\* to be released, or a write is awake.
NoLostWakeup ==
    Working => \A p \in Peers :
        /\ Blocked(p, "READ") # {} =>
              Len(stream[p].available) <= CountOf(Adding(p) \o rQueue[p], "WRITE")
                                          + Cardinality(Woken(p, "READ"))
        /\ Blocked(p, "WRITE") # {} => stream[p].remotePackets > 0 \/ Woken(p, "WRITE") # {}

\* While the link works, an event that is not served has its caller waiting for it: the
\* buffer the result is copied to still exists.
CallerWaitsForItsEvent ==
    Working => \A s \in Slots : LET e == lQueue[Host][s] IN
        e.state # "SERVED" => pc[e.thread] = "wait" /\ call[e.thread].id = e.id

\* A slot is "re-cycled as soon as we mark it as EVENT_SERVED": what the scheduler goes on
\* to send is a request it has served, not one that has come into the slot since.
SendsWhatItServed ==
    \A p \in Peers : sched[p].at = "send" => lQueue[p][sched[p].slot].state # "ALLOCATED"

\* What a call may wait for: a packet to read, or the peer to release what it was sent.
Starved(t) ==
    /\ Working /\ pc[t] = "wait"
    /\ \E s \in InState(PeerOf(t), "BLOCKED") :
          /\ lQueue[PeerOf(t)][s].thread = t
          /\ CASE call[t].type = "READ"  -> stream[PeerOf(t)].available = <<>>
               [] call[t].type = "WRITE" -> stream[PeerOf(t)].remotePackets > 0
               [] OTHER -> FALSE

\* A host's scheduler that left its loop because of a NULL event serves nobody any more.
\* That happens when the reader has freed an event the scheduler had just made ready.
StoppedByNull == sched[Host].at = "join" /\ ~resetXLink[Host]

\* Every call returns, also when the link fails or the host resets the device, unless it
\* waits for what only the application at the other end can give.
CallsReturn ==
    \A t \in Threads :
        []<>(pc[t] = "idle" \/ Starved(t) \/ ~Alive(PeerOf(t)) \/ StoppedByNull)

\* Each direction of the stream is a bounded channel: the packets the peer holds, then
\* those on the wire, then the one about to be sent.
InChannel(p) ==
    LET q == Other(p)
        onTheWay == SelectSeq(wire[p] \o Sending(p), LAMBDA m : m.type = "WRITE")
    IN  stream[q].blocked \o stream[q].available \o
        (IF up THEN [i \in DOMAIN onTheWay |-> [id |-> onTheWay[i].id, size |-> onTheWay[i].size]]
               ELSE <<>>)

AllPackets == [id : {<<t, n>> : t \in Threads, n \in 1..Max({Budget[b][u] : b \in FaultModels, u \in Threads})}, size : 1..Capacity]

ToDevice == INSTANCE BoundedChannel WITH
    Packets <- AllPackets,
    queue <- InChannel(Host), inUse <- Len(stream[Device].blocked), open <- up

ToHost == INSTANCE BoundedChannel WITH
    Packets <- AllPackets,
    queue <- InChannel(Device), inUse <- Len(stream[Host].blocked), open <- up

\* The two dispatchers implement a bounded channel in each direction: no packet is lost,
\* doubled or overtaken while the link works, none arrives without room.
ImplementsChannel == ToDevice!Spec /\ ToHost!Spec
===============================================================================
