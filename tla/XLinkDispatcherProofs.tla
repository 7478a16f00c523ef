------------------------- MODULE XLinkDispatcherProofs -------------------------
(***************************************************************************)
(* Theorems about XLinkDispatcher, for any number of threads at each end,  *)
(* any ring with two slots for each of them and any capacity of the        *)
(* stream, as long as a slot is not used again while the scheduler still   *)
(* looks at it (~Recycles; XLinkRecycledSlot.cfg shows what happens else). *)
(*                                                                         *)
(* They are about a link that is up: the invariant is AtWork while it is,  *)
(* also while a reset is under way; nothing is claimed of an end that      *)
(* cleans up.                                                              *)
(***************************************************************************)
EXTENDS XLinkDispatcher, FiniteSetTheorems, SequenceTheorems, WellFoundedInduction, TLAPS

-------------------------------------------------------------------------------
(* The types of what the two ends keep. *)

Ids    == {<<>>} \cup (Threads \X Nat)
Packet == [id : Ids, size : Nat]
Mail   == [type : {"WRITE", "RELEASE", "RESET", "NONE", "WRITE_RESP", "RELEASE_RESP", "RESET_RESP"},
           size : Nat, id : Ids]
Request == [type : Requests \cup {"NONE"}, size : Nat, id : Ids]
Event  == [state : {"ALLOCATED", "PENDING", "BLOCKED", "READY", "SERVED"},
           type : Requests \cup {"NONE"}, id : Ids, size : Nat, thread : Threads,
           localServe : BOOLEAN, ack : BOOLEAN]
Stream == [remoteFill : Int, remotePackets : Int, localFill : Int,
           available : Seq(Packet), blocked : Seq(Packet)]
Steps  == {"get", "send", "reply", "free", "join", "drain", "clean", "closed"}
Places == [at : Steps, slot : Slots, msg : Mail]

EndTypes ==
    /\ lQueue \in [Peers -> [Slots -> Event]]
    /\ cur \in [Peers -> Slots] /\ curProc \in [Peers -> Slots \cup {0}]
    /\ rQueue \in [Peers -> Seq(Mail)] /\ wire \in [Peers -> Seq(Mail)]
    /\ sched \in [Peers -> Places]
    /\ reader \in [Peers -> [at : {"recv", "add", "fail", "exit"}, msg : Mail]]
    /\ freeing \in [Peers -> [{"sched", "reader"} -> Slots \cup {0}]]
    /\ stream \in [Peers -> Stream]

CallTypes ==
    /\ mayFail \in BOOLEAN
    /\ pc \in [Threads -> {"idle", "add", "wait"}]
    /\ call \in [Threads -> Request]
    /\ sem \in [Threads -> Nat]
    /\ acked \in [Threads -> BOOLEAN]
    /\ got \in [Threads -> Nat]
    /\ left \in [Threads -> Nat]

\* Where the threads of a dispatcher are while the link works: nobody frees what waits.
Control ==
    \A p \in Peers :
        /\ sched[p].at \in {"get", "send", "reply", "join"}
        /\ reader[p].at \in {"recv", "add", "exit"}
        /\ freeing[p]["sched"] = 0 /\ freeing[p]["reader"] = 0

\* The events of an end whose callers wait.
Unserved(p) == {s \in Slots : lQueue[p][s].state # "SERVED"}

\* An event that is not served has a caller that waits and was not posted; what the
\* scheduler has made of it agrees with its type.
Awaited(p) ==
    \A s \in Slots : LET e == lQueue[p][s] IN
        /\ PeerOf(e.thread) = p
        /\ e.state # "SERVED" =>
              /\ pc[e.thread] = "wait" /\ sem[e.thread] = 0 /\ ~acked[e.thread]
              /\ call[e.thread].id = e.id /\ call[e.thread].type = e.type
        /\ e.state = "PENDING" => e.type \in {"WRITE", "RELEASE", "RESET"} /\ ~e.localServe
        /\ e.state \in {"BLOCKED", "READY"} => e.type \in {"WRITE", "READ"}
        /\ e.state = "BLOCKED" => e.localServe

\* A thread has one event at a time.
OneEach(p) ==
    \A r \in Unserved(p), s \in Unserved(p) : r # s => lQueue[p][r].thread # lQueue[p][s].thread

\* A semaphore is posted once, and only for a thread that waits.
Callers ==
    \A t \in Threads : sem[t] <= 1 /\ (pc[t] # "wait" => sem[t] = 0)

\* What the scheduler is about to send was served; what it replies is a response.
Handled(p) ==
    /\ sched[p].at = "send" =>
          LET e == lQueue[p][sched[p].slot] IN
          e.state \in {"PENDING", "BLOCKED", "SERVED"} /\ (e.state = "SERVED" => e.localServe)
    /\ sched[p].at = "reply" => sched[p].msg.type \in {"WRITE_RESP", "RELEASE_RESP", "RESET_RESP"}

\* The ring, seen from curProc: the lap up to cur holds every event still to be served,
\* the newest one last; two slots of the lap that were passed over are of two threads, and
\* a thread whose slot was passed over has its next event behind another's.
Gap(a, b) == IF b >= a THEN b - a ELSE b - a + MaxEvents
Lap(p) == {s \in Slots : Gap(curProc[p], s) < Gap(curProc[p], cur[p])}
Passed(p) == Lap(p) \ InState(p, "ALLOCATED")

Ring(p) ==
    /\ curProc[p] \in Slots
    /\ InState(p, "ALLOCATED") \subseteq Lap(p)
    /\ cur[p] # curProc[p] => \E l \in InState(p, "ALLOCATED") : cur[p] = After(l)
    /\ \A x \in Passed(p), y \in Passed(p) \cup (Unserved(p) \ InState(p, "ALLOCATED")) :
          x # y => lQueue[p][x].thread # lQueue[p][y].thread
    /\ \A x \in Passed(p), s \in InState(p, "ALLOCATED") :
          lQueue[p][x].thread = lQueue[p][s].thread =>
            \E r \in InState(p, "ALLOCATED") : /\ Gap(curProc[p], x) < Gap(curProc[p], r)
                                               /\ Gap(curProc[p], r) < Gap(curProc[p], s)

\* The packets a thread has read, or reads, and has still to release: an end holds a
\* packet for each, so a release finds one.
Owed(t) ==
    got[t] + (IF \/ pc[t] = "wait" /\ call[t].type = "READ" /\ acked[t]
                 \/ pc[t] = "add" /\ call[t].type = "RELEASE"
                 \/ \E s \in InState(PeerOf(t), "ALLOCATED") :
                       lQueue[PeerOf(t)][s].thread = t /\ lQueue[PeerOf(t)][s].type = "RELEASE"
              THEN 1 ELSE 0)

Claims(p) == {c \in Threads \X Nat : PeerOf(c[1]) = p /\ c[2] < Owed(c[1])}

Held(p) == IsFiniteSet(Claims(p)) /\ Cardinality(Claims(p)) <= Len(stream[p].blocked)

SendingOne(p, type) ==
    IF /\ sched[p].at = "send" /\ ~lQueue[p][sched[p].slot].localServe
       /\ lQueue[p][sched[p].slot].type = type
    THEN 1 ELSE 0
AddingOne(p, type) == IF reader[p].at = "add" /\ reader[p].msg.type = type THEN 1 ELSE 0

\* The packets of p that are not released, and the releases on their way back, are within
\* what p believes, and that within the limit of the stream.
PacketsOut(p) == SendingOne(p, "WRITE") + CountOf(wire[p], "WRITE")
                 + Len(stream[Other(p)].available) + Len(stream[Other(p)].blocked)
Returning(p)  == SendingOne(Other(p), "RELEASE") + CountOf(wire[Other(p)], "RELEASE")
                 + AddingOne(p, "RELEASE") + CountOf(rQueue[p], "RELEASE")

Room(p) ==
    /\ PacketsOut(p) + Returning(p) <= stream[p].remotePackets
    /\ stream[p].remotePackets <= MaxPackets

AtWork ==
    /\ EndTypes /\ CallTypes /\ Control /\ Callers
    /\ \A p \in Peers : Awaited(p) /\ OneEach(p) /\ Handled(p) /\ Ring(p) /\ Held(p) /\ Room(p)

\* The inductive invariant. A link that has failed never works again.
IndInv == resetXLink \in [Peers -> BOOLEAN] /\ (up => AtWork)

-------------------------------------------------------------------------------
(* Numbers and rings. *)

\* A set of natural numbers has a least element: the sets 1..x are well-founded.
LEMMA LeastExists == ASSUME NEW S, S # {}, S \subseteq Nat PROVE \E x \in S : \A y \in S : x <= y
<1> DEFINE T == {1..x : x \in S}
<1>1. IsWellFoundedOn(StrictSubsetOrdering(Nat), FiniteSubsetsOf(Nat))
  BY FS_StrictSubsetOrderingWellFounded
<1>2. T \subseteq FiniteSubsetsOf(Nat)
  <2>1. \A x \in S : 1..x \subseteq Nat /\ IsFiniteSet(1..x)
    BY FS_Interval
  <2> QED BY <2>1 DEF FiniteSubsetsOf
<1>3. T # {}
  OBVIOUS
<1> HIDE DEF T
<1>4. PICK X \in T : \A Y \in T : ~ (<<Y, X>> \in StrictSubsetOrdering(Nat))
  BY <1>1, <1>2, <1>3, WFMin, Zenon
<1>5. PICK x \in S : X = 1..x
  BY DEF T
<1>6. ASSUME NEW y \in S, y < x PROVE FALSE
  <2>1. 1..y \subseteq 1..x /\ 1..y # 1..x
    <3>1. x \in 1..x /\ x \notin 1..y
      BY <1>6
    <3> QED BY <3>1, <1>6
  <2>2. <<1..y, 1..x>> \in StrictSubsetOrdering(Nat)
    BY <2>1 DEF StrictSubsetOrdering
  <2> QED BY <1>4, <1>5, <2>2 DEF T
<1> QED BY <1>6

\* The least slot of a set of slots is one of them.
LEMMA MinIs == ASSUME NEW S, S # {}, S \subseteq Slots
               PROVE  Min(S) \in S /\ Min(S) \in Slots
<1>1. S \subseteq Nat
  BY RoomForThreads DEF Slots
<1>2. \E x \in S : \A y \in S : x <= y
  BY <1>1, LeastExists
<1> QED BY <1>2 DEF Min

\* The remainder of a number below the size of the ring, or below twice its size.
LEMMA Remainder == ASSUME NEW x \in 0..(MaxEvents - 1)
                   PROVE  x % MaxEvents = x /\ (x + MaxEvents) % MaxEvents = x
  BY RoomForThreads

\* The slot after another (CIRCULAR_INCREMENT_BASE), with the wrap-around.
LEMMA AfterIs == ASSUME NEW s \in Slots
                 PROVE  /\ After(s) = IF s = MaxEvents THEN 1 ELSE s + 1
                        /\ After(s) \in Slots
<1>1. CASE s = MaxEvents
  BY <1>1, RoomForThreads DEF Slots, After
<1>2. CASE s < MaxEvents
  BY <1>2, Remainder, RoomForThreads DEF Slots, After
<1> QED BY <1>1, <1>2, RoomForThreads DEF Slots

\* The distance FirstFrom goes by is the gap between two slots.
LEMMA GapIs == ASSUME NEW a \in Slots, NEW b \in Slots
               PROVE  /\ (b + MaxEvents - a) % MaxEvents = Gap(a, b)
                      /\ Gap(a, b) \in 0..(MaxEvents - 1)
  BY Remainder, RoomForThreads DEF Slots, Gap

\* The search that goes round the ring (getNextElementWithState) finds the nearest slot.
LEMMA FirstFromIs ==
    ASSUME NEW S, S # {}, S \subseteq Slots, NEW a \in Slots
    PROVE  /\ FirstFrom(S, a) \in S /\ FirstFrom(S, a) \in Slots
           /\ \A r \in S : Gap(a, FirstFrom(S, a)) <= Gap(a, r)
<1> DEFINE D == {Gap(a, s) : s \in S}
<1>1. D # {} /\ D \subseteq Nat
  BY GapIs
<1>2. PICK d \in D : \A e \in D : d <= e
  BY <1>1, LeastExists
<1>3. \E s \in S : \A r \in S : Gap(a, s) <= Gap(a, r)
  BY <1>2
<1>4. \E s \in S : \A r \in S : (s + MaxEvents - a) % MaxEvents <= (r + MaxEvents - a) % MaxEvents
  BY <1>3, GapIs
<1> DEFINE f == FirstFrom(S, a)
<1>5. f \in S /\ \A r \in S : (f + MaxEvents - a) % MaxEvents <= (r + MaxEvents - a) % MaxEvents
  BY <1>4 DEF FirstFrom
<1>6. f \in Slots /\ \A r \in S : Gap(a, f) <= Gap(a, r)
  BY <1>5, GapIs
<1> QED BY <1>5, <1>6

\* The two ends are each other's peer, and each thread belongs to one of them.
LEMMA Ends ==
    /\ Peers = {Host, Device} /\ Other(Host) = Device /\ Other(Device) = Host
    /\ \A p \in Peers : Other(p) \in Peers /\ Other(p) # p /\ Other(Other(p)) = p
    /\ \A t \in Threads : PeerOf(t) \in Peers
  BY DispatcherAssumption DEF Peers, Other, PeerOf

\* The threads of an end are finitely many, at least one, and have two slots each.
LEMMA ThreadsOfEnd ==
    ASSUME NEW p \in Peers
    PROVE  /\ {t \in Threads : PeerOf(t) = p} = IF p = Host THEN HostThreads ELSE DeviceThreads
           /\ \E t \in Threads : PeerOf(t) = p
           /\ IsFiniteSet({t \in Threads : PeerOf(t) = p})
           /\ 2 * Cardinality({t \in Threads : PeerOf(t) = p}) <= MaxEvents
<1>1. {t \in Threads : PeerOf(t) = p} = IF p = Host THEN HostThreads ELSE DeviceThreads
  BY DispatcherAssumption DEF Threads, Peers, PeerOf
<1> QED BY <1>1, RoomForThreads

-------------------------------------------------------------------------------
(* Counting messages. *)

\* The messages of a type in a queue are finitely many.
LEMMA CountIs ==
    ASSUME NEW q \in Seq(Mail), NEW type
    PROVE  /\ IsFiniteSet({i \in DOMAIN q : q[i].type = type})
           /\ CountOf(q, type) \in Nat
<1>1. IsFiniteSet(DOMAIN q)
  BY LenProperties, FS_Interval
<1>2. IsFiniteSet({i \in DOMAIN q : q[i].type = type})
  BY <1>1, FS_Subset
<1> QED BY <1>2, FS_CardinalityType DEF CountOf

\* An empty queue has no message.
LEMMA CountEmpty == ASSUME NEW type PROVE CountOf(<<>>, type) = 0
<1>1. {i \in DOMAIN <<>> : <<>>[i].type = type} = {}
  OBVIOUS
<1> QED BY <1>1, FS_EmptySet DEF CountOf

\* One message more counts once, under its type.
LEMMA CountAppend ==
    ASSUME NEW q \in Seq(Mail), NEW m \in Mail, NEW type
    PROVE  CountOf(Append(q, m), type) = CountOf(q, type) + (IF m.type = type THEN 1 ELSE 0)
<1> DEFINE r == Append(q, m)
           A == {i \in DOMAIN q : q[i].type = type}
           B == {i \in DOMAIN r : r[i].type = type}
<1>1. DOMAIN q = 1..Len(q) /\ DOMAIN r = 1..(Len(q) + 1) /\ Len(q) \in Nat
      /\ r[Len(q) + 1] = m /\ \A i \in 1..Len(q) : r[i] = q[i]
  BY AppendProperties, LenProperties
<1>2. B = A \cup (IF m.type = type THEN {Len(q) + 1} ELSE {}) /\ Len(q) + 1 \notin A
  BY <1>1
<1>3. IsFiniteSet(A) /\ Cardinality(A) \in Nat
  BY CountIs DEF CountOf
<1> HIDE DEF A, B
<1>4. Cardinality(B) = Cardinality(A) + (IF m.type = type THEN 1 ELSE 0)
  <2>1. CASE m.type = type
    BY <2>1, <1>2, <1>3, FS_AddElement
  <2>2. CASE m.type # type
    BY <2>2, <1>2, <1>3
  <2> QED BY <2>1, <2>2
<1> QED BY <1>4 DEF CountOf, A, B

\* The first message of a queue counts once, under its type.
LEMMA CountTail ==
    ASSUME NEW q \in Seq(Mail), q # <<>>, NEW type
    PROVE  CountOf(q, type) = CountOf(Tail(q), type) + (IF Head(q).type = type THEN 1 ELSE 0)
<1> DEFINE r == Tail(q)
           A == {i \in DOMAIN q : q[i].type = type}
           B == {i \in DOMAIN r : r[i].type = type}
           C == A \ {1}
<1>1. DOMAIN q = 1..Len(q) /\ Len(q) \in Nat \ {0} /\ DOMAIN r = 1..(Len(q) - 1)
      /\ Head(q) = q[1] /\ \A i \in 1..(Len(q) - 1) : r[i] = q[i + 1]
  BY HeadTailProperties, EmptySeq, LenProperties
<1>2. IsFiniteSet(A) /\ Cardinality(A) \in Nat
  BY CountIs DEF CountOf
<1>5. IsFiniteSet(C) /\ Cardinality(C) = IF 1 \in A THEN Cardinality(A) - 1 ELSE Cardinality(A)
  BY <1>2, FS_RemoveElement
<1>6. 1 \in A <=> Head(q).type = type
  BY <1>1
<1>3. Cardinality(B) = Cardinality(C)
  <2> DEFINE f == [i \in C |-> i - 1]
  <2>1. f \in Bijection(C, B)
    <3>1. \A i \in C : f[i] \in B
      BY <1>1
    <3>2. \A i \in C, j \in C : f[i] = f[j] => i = j
      BY <1>1
    <3>3. \A j \in B : \E i \in C : f[i] = j
      <4> SUFFICES ASSUME NEW j \in B PROVE j + 1 \in C /\ f[j + 1] = j
        OBVIOUS
      <4> QED BY <1>1
    <3>4. f \in [C -> B]
      BY <3>1
    <3> QED BY <3>2, <3>3, <3>4 DEF Bijection, Injection, IsInjective, Surjection
  <2>2. ExistsBijection(C, B)
    BY <2>1 DEF ExistsBijection
  <2> HIDE DEF B, C
  <2> QED BY <2>2, <1>5, FS_Bijection
<1> HIDE DEF A, B, C
<1>4. Cardinality(A) = Cardinality(B) + (IF Head(q).type = type THEN 1 ELSE 0)
  BY <1>2, <1>3, <1>5, <1>6
<1> QED BY <1>4 DEF CountOf, A, B

-------------------------------------------------------------------------------
(* The ring. *)

\* The gaps seen from the slot after f, by the gaps seen from a.
LEMMA GapShift ==
    ASSUME NEW a \in Slots, NEW f \in Slots, NEW x \in Slots
    PROVE  Gap(After(f), x) = IF Gap(a, x) > Gap(a, f) THEN Gap(a, x) - Gap(a, f) - 1
                              ELSE Gap(a, x) - Gap(a, f) - 1 + MaxEvents
<1>1. After(f) = IF f = MaxEvents THEN 1 ELSE f + 1
  BY AfterIs
<1> QED BY <1>1, RoomForThreads DEF Slots, Gap

\* The gaps seen from c, by the gaps seen from a.
LEMMA GapFrom ==
    ASSUME NEW a \in Slots, NEW c \in Slots, NEW x \in Slots
    PROVE  Gap(c, x) = IF Gap(a, x) >= Gap(a, c) THEN Gap(a, x) - Gap(a, c)
                       ELSE Gap(a, x) - Gap(a, c) + MaxEvents
  BY RoomForThreads DEF Slots, Gap

\* The slot after x is one further away, unless the lap is complete.
LEMMA GapAfter ==
    ASSUME NEW a \in Slots, NEW x \in Slots
    PROVE  IF After(x) = a THEN Gap(a, x) = MaxEvents - 1 ELSE Gap(a, After(x)) = Gap(a, x) + 1
<1>1. After(x) = IF x = MaxEvents THEN 1 ELSE x + 1
  BY AfterIs
<1> QED BY <1>1, RoomForThreads DEF Slots, Gap

\* A search of the ring that has something to find never loses its cursor.
LEMMA RingStands ==
    ASSUME NEW p \in Peers, Ring(p)
    PROVE  curProc[p] \in Slots /\ curProc[p] # 0 /\ ~LosesCursor(p)
  BY RoomForThreads DEF Ring, LosesCursor, Slots

\* A slot is known by its gap.
LEMMA GapTells ==
    ASSUME NEW a \in Slots, NEW x \in Slots, NEW y \in Slots, Gap(a, x) = Gap(a, y)
    PROVE  x = y
  BY RoomForThreads DEF Slots, Gap

\* Of the slots but the last of a lap two have the same thread and the same label, when
\* each thread has two slots and two of the pairs of a thread and a label do not occur.
LEMMA PigeonHole ==
    ASSUME NEW T, IsFiniteSet(T), 2 * Cardinality(T) <= MaxEvents, NEW t \in T, NEW v \in T,
           NEW a \in Slots,
           NEW h \in [{g \in Slots : After(g) # a} -> (T \X (0..1)) \ {<<t, 1>>, <<v, 0>>}]
    PROVE  \E x, y \in {g \in Slots : After(g) # a} : x # y /\ h[x] = h[y]
<1> DEFINE B == {g \in Slots : After(g) # a}
           b == IF a = 1 THEN MaxEvents ELSE a - 1
           P == T \X (0..1)
           R == P \ {<<t, 1>>, <<v, 0>>}
<1>1. B = (1..MaxEvents) \ {b} /\ b \in 1..MaxEvents
  <2>1. \A g \in Slots : After(g) = a <=> g = b
    BY AfterIs, RoomForThreads DEF Slots
  <2> QED BY <2>1, RoomForThreads DEF Slots
<1>2. IsFiniteSet(B) /\ Cardinality(B) = MaxEvents - 1
  <2>1. IsFiniteSet(1..MaxEvents) /\ Cardinality(1..MaxEvents) = MaxEvents
    BY FS_Interval, RoomForThreads
  <2> HIDE DEF B, b
  <2> QED BY <2>1, <1>1, FS_RemoveElement
<1>3. IsFiniteSet(0..1) /\ Cardinality(0..1) = 2
  <2>1. IsFiniteSet({0}) /\ Cardinality({0}) = 1
    BY FS_Singleton
  <2>2. IsFiniteSet({0} \cup {1}) /\ Cardinality({0} \cup {1}) = 2
    BY <2>1, FS_AddElement, SMTT(60)
  <2>3. 0..1 = {0} \cup {1}
    OBVIOUS
  <2> QED BY <2>2, <2>3
<1>4. Cardinality(T) \in Nat /\ IsFiniteSet(P) /\ Cardinality(P) = Cardinality(T) * 2
  BY <1>3, FS_Product, FS_CardinalityType
<1>5. <<t, 1>> \in P /\ <<v, 0>> \in P
  OBVIOUS
<1> DEFINE Q == P \ {<<t, 1>>}
<1>6. IsFiniteSet(Q) /\ Cardinality(Q) = Cardinality(T) * 2 - 1 /\ <<v, 0>> \in Q
  <2>1. <<v, 0>> \in Q
    BY <1>5
  <2> HIDE DEF P
  <2> QED BY <2>1, <1>4, <1>5, FS_RemoveElement
<1>7. R = Q \ {<<v, 0>>}
  OBVIOUS
<1>8. IsFiniteSet(R) /\ Cardinality(R) = Cardinality(T) * 2 - 2
  <2> HIDE DEF P, Q, R
  <2>1. IsFiniteSet(R) /\ Cardinality(R) = Cardinality(Q) - 1
    BY <1>6, <1>7, FS_RemoveElement
  <2> QED BY <2>1, <1>4, <1>6
<1>9. Cardinality(R) < Cardinality(B)
  BY <1>2, <1>4, <1>8, RoomForThreads
<1> HIDE DEF B, R
<1>10. \E x, y \in B : x # y /\ h[x] = h[y]
  <2>1. h \in [B -> R]
    BY DEF B, R
  <2> QED BY <2>1, <1>2, <1>8, <1>9, FS_PigeonHole
<1> QED BY <1>10 DEF B

\* A thread that adds an event finds a free slot before it gets round to the events that
\* are still to be served.
LEMMA FreeSlotAhead ==
    ASSUME NEW p \in Peers, EndTypes, Awaited(p), OneEach(p), Ring(p),
           NEW t \in Threads, PeerOf(t) = p, \A s \in Unserved(p) : lQueue[p][s].thread # t
    PROVE  \E g \in InState(p, "SERVED") :
              /\ After(g) # curProc[p]
              /\ Gap(curProc[p], g) >= Gap(curProc[p], cur[p])
<1> DEFINE a == curProc[p]
           A == InState(p, "ALLOCATED")
           T == {u \in Threads : PeerOf(u) = p}
           B == {g \in Slots : After(g) # a}
           h == [g \in B |-> <<lQueue[p][g].thread, IF g \in A THEN 1 ELSE 0>>]
<1>1. a \in Slots /\ A \subseteq Slots /\ cur[p] \in Slots
  BY DEF EndTypes, InState, Ring
<1>2. t \in T /\ IsFiniteSet(T) /\ 2 * Cardinality(T) <= MaxEvents
  BY ThreadsOfEnd
<1>3. \A g \in Slots : lQueue[p][g].thread \in T
  BY DEF EndTypes, Event, Awaited
<1>4. PICK v \in T : \A g \in (Passed(p) \cup Unserved(p)) \ A : lQueue[p][g].thread # v
  <2>1. CASE A = {}
    <3>1. cur[p] = a
      BY <2>1, <1>1 DEF Ring
    <3>2. Gap(a, a) = 0 /\ \A s \in Slots : Gap(a, s) \in Nat
      BY <1>1, GapIs DEF Gap, Slots
    <3>3. Passed(p) = {}
      BY <3>1, <3>2 DEF Passed, Lap
    <3> QED BY <3>3, <1>2
  <2>2. CASE A # {}
    <3> DEFINE f == FirstFrom(A, a)
    <3>1. f \in A /\ \A r \in A : Gap(a, f) <= Gap(a, r)
      BY <2>2, <1>1, FirstFromIs
    <3> HIDE DEF f
    <3>2. f \in Unserved(p) /\ f \in Slots
      BY <3>1 DEF InState, Unserved
    <3>3. ASSUME NEW g \in (Passed(p) \cup Unserved(p)) \ A, lQueue[p][g].thread = lQueue[p][f].thread
          PROVE  FALSE
      <4>1. CASE g \in Passed(p)
        <5>1. PICK r \in A : Gap(a, r) < Gap(a, f)
          BY <4>1, <3>1, <3>3 DEF Ring
        <5> QED BY <5>1, <3>1, <3>2, <1>1, GapIs
      <4>2. CASE g \in Unserved(p)
        BY <4>2, <3>1, <3>2, <3>3 DEF OneEach
      <4> QED BY <4>1, <4>2
    <3> QED BY <3>2, <3>3, <1>3
  <2> QED BY <2>1, <2>2
<1> SUFFICES ASSUME \A g \in InState(p, "SERVED") : After(g) # a => Gap(a, g) < Gap(a, cur[p])
             PROVE  FALSE
  BY <1>1, GapIs DEF InState
<1>5. \A g \in B : g \notin A => g \in (Passed(p) \cup Unserved(p)) \ A
  BY DEF InState, Unserved, Passed, Lap
<1>6. A \subseteq Unserved(p)
  BY DEF InState, Unserved
<1>7. \A g \in B : h[g] \in (T \X (0..1)) \ {<<t, 1>>, <<v, 0>>}
  <2> SUFFICES ASSUME NEW g \in B
               PROVE  /\ lQueue[p][g].thread \in T
                      /\ g \in A => lQueue[p][g].thread # t
                      /\ g \notin A => lQueue[p][g].thread # v
    OBVIOUS
  <2> QED BY <1>3, <1>4, <1>5, <1>6
<1>8. h \in [B -> (T \X (0..1)) \ {<<t, 1>>, <<v, 0>>}]
  BY <1>7
<1> HIDE DEF T, h
<1>9. PICK x \in B, y \in B : x # y /\ h[x] = h[y]
  BY <1>1, <1>2, <1>4, <1>8, PigeonHole
<1>10. lQueue[p][x].thread = lQueue[p][y].thread /\ (x \in A <=> y \in A)
  BY <1>9 DEF h
<1> QED BY <1>5, <1>6, <1>9, <1>10 DEF OneEach, Ring

\* An event that is blocked, woken, answered or freed leaves the ring as it is.
LEMMA RingKeeps ==
    ASSUME NEW p \in Peers, Ring(p), cur'[p] = cur[p], curProc'[p] = curProc[p],
           \A s \in Slots :
              /\ lQueue'[p][s].thread = lQueue[p][s].thread
              /\ lQueue'[p][s].state = "ALLOCATED" <=> lQueue[p][s].state = "ALLOCATED"
              /\ lQueue[p][s].state = "SERVED" => lQueue'[p][s].state = "SERVED"
    PROVE  Ring(p)'
<1>1. InState(p, "ALLOCATED")' = InState(p, "ALLOCATED")
  BY DEF InState
<1>2. Passed(p)' = Passed(p) /\ Lap(p)' = Lap(p)
  BY <1>1 DEF Passed, Lap
<1>3. Unserved(p)' \subseteq Unserved(p)
  BY DEF Unserved
<1>4. InState(p, "ALLOCATED") \subseteq Slots /\ Passed(p) \subseteq Slots /\ Unserved(p) \subseteq Slots
  BY DEF InState, Passed, Lap, Unserved
<1> QED BY <1>1, <1>2, <1>3, <1>4 DEF Ring

\* The scheduler takes the first event that is still to be served.
LEMMA RingAfterTake ==
    ASSUME NEW p \in Peers, EndTypes, EndTypes', OneEach(p), Ring(p),
           NEW f \in InState(p, "ALLOCATED"),
           \A r \in InState(p, "ALLOCATED") : Gap(curProc[p], f) <= Gap(curProc[p], r),
           cur'[p] = cur[p], curProc'[p] = After(f),
           \A s \in Slots :
              /\ lQueue'[p][s].thread = lQueue[p][s].thread
              /\ s # f => lQueue'[p][s].state = lQueue[p][s].state,
           lQueue'[p][f].state # "ALLOCATED"
    PROVE  Ring(p)'
<1> DEFINE a == curProc[p]
           A == InState(p, "ALLOCATED")
<1>1. a \in Slots /\ cur[p] \in Slots /\ A \subseteq Slots /\ Passed(p) \subseteq Slots /\ f \in Slots
  BY DEF EndTypes, InState, Passed, Lap, Ring
<1>2. A' = A \ {f}
  BY DEF InState
<1>3. \A x \in Slots : Gap(After(f), x) = IF Gap(a, x) > Gap(a, f) THEN Gap(a, x) - Gap(a, f) - 1
                                          ELSE Gap(a, x) - Gap(a, f) - 1 + MaxEvents
  BY <1>1, GapShift
<1>4. \A x \in Slots : Gap(a, x) \in 0..(MaxEvents - 1)
  BY <1>1, GapIs
<1>5. Gap(a, f) < Gap(a, cur[p])
  BY DEF Ring, Lap
<1>6. Lap(p)' = {x \in Lap(p) : Gap(a, x) > Gap(a, f)}
  <2>1. \A x \in Slots : Gap(After(f), x) < Gap(After(f), cur[p])
                        <=> Gap(a, x) > Gap(a, f) /\ Gap(a, x) < Gap(a, cur[p])
    BY <1>1, <1>3, <1>4, <1>5, RoomForThreads
  <2>2. Lap(p)' = {x \in Slots : Gap(After(f), x) < Gap(After(f), cur[p])}
    BY DEF Lap
  <2> QED BY <2>1, <2>2 DEF Lap
<1>7. \A r \in A' : Gap(a, r) > Gap(a, f)
  BY <1>1, <1>2, <1>4, GapTells
<1>8. A' \subseteq Lap(p)'
  BY <1>2, <1>6, <1>7 DEF Ring
<1>9. cur'[p] # curProc'[p] => \E l \in A' : cur'[p] = After(l)
  <2>1. cur[p] # a
    BY <1>4, <1>5, <1>1 DEF Gap, Slots
  <2> QED BY <2>1, <1>2 DEF Ring
<1>10. Passed(p)' = {x \in Passed(p) : Gap(a, x) > Gap(a, f)}
  <2>1. \A x \in Slots : Gap(a, x) > Gap(a, f) => x # f
    BY <1>1, <1>4
  <2>2. \A x : x \in Passed(p)' <=> x \in Lap(p)' /\ x \notin A'
    BY DEF Passed
  <2>3. \A x : x \in Passed(p) <=> x \in Lap(p) /\ x \notin A
    BY DEF Passed
  <2>4. Lap(p) \subseteq Slots
    BY DEF Lap
  <2> QED BY <2>1, <2>2, <2>3, <2>4, <1>2, <1>6
<1>11. ASSUME NEW x \in Passed(p)', NEW y \in Passed(p)' \cup (Unserved(p)' \ A'), x # y
       PROVE  lQueue'[p][x].thread # lQueue'[p][y].thread
  <2>1. y = f \/ y \in Passed(p) \cup (Unserved(p) \ A)
    BY <1>2, <1>10 DEF Unserved
  <2>2. x \in Passed(p) /\ x \in Slots /\ y \in Slots /\ Gap(a, x) > Gap(a, f)
    BY <1>1, <1>10, <2>1 DEF Unserved
  <2>3. ASSUME y = f, lQueue[p][x].thread = lQueue[p][f].thread PROVE FALSE
    <3>1. PICK r \in A : Gap(a, x) < Gap(a, r) /\ Gap(a, r) < Gap(a, f)
      BY <2>2, <2>3 DEF Ring
    <3> QED BY <3>1, <1>1, <1>4
  <2>4. ASSUME y # f PROVE lQueue[p][x].thread # lQueue[p][y].thread
    BY <2>1, <2>2, <2>4, <1>11 DEF Ring
  <2> QED BY <2>2, <2>3, <2>4
<1>12. ASSUME NEW x \in Passed(p)', NEW s \in A', lQueue'[p][x].thread = lQueue'[p][s].thread
       PROVE  \E r \in A' : /\ Gap(After(f), x) < Gap(After(f), r)
                             /\ Gap(After(f), r) < Gap(After(f), s)
  <2>1. x \in Passed(p) /\ x \in Slots /\ s \in A /\ s \in Slots /\ Gap(a, x) > Gap(a, f)
    BY <1>1, <1>2, <1>10
  <2>2. PICK r \in A : Gap(a, x) < Gap(a, r) /\ Gap(a, r) < Gap(a, s)
    BY <2>1, <1>12 DEF Ring
  <2>3. r \in Slots /\ r # f
    BY <2>1, <2>2, <1>1, <1>4
  <2>4. Gap(After(f), x) < Gap(After(f), r) /\ Gap(After(f), r) < Gap(After(f), s)
    BY <2>1, <2>2, <2>3, <1>1, <1>3, <1>4
  <2> QED BY <2>2, <2>3, <2>4, <1>2
<1>13. curProc'[p] \in Slots
  BY <1>1, AfterIs
<1> QED BY <1>8, <1>9, <1>11, <1>12, <1>13 DEF Ring

\* A thread adds an event.
LEMMA RingAfterAdd ==
    ASSUME NEW p \in Peers, EndTypes, EndTypes', Awaited(p), OneEach(p), Ring(p),
           NEW t \in Threads, PeerOf(t) = p, \A s \in Unserved(p) : lQueue[p][s].thread # t,
           NEW n, n = FirstFrom(InState(p, "SERVED"), cur[p]),
           cur'[p] = After(n), curProc'[p] = curProc[p],
           \A s \in Slots : s # n => lQueue'[p][s] = lQueue[p][s],
           lQueue'[p][n].state = "ALLOCATED", lQueue'[p][n].thread = t
    PROVE  Ring(p)' /\ n \in InState(p, "SERVED")
<1> DEFINE a == curProc[p]
           c == cur[p]
           A == InState(p, "ALLOCATED")
           F == InState(p, "SERVED")
<1>1. a \in Slots /\ c \in Slots /\ A \subseteq Slots /\ F \subseteq Slots
      /\ Passed(p) \subseteq Slots /\ Unserved(p) \subseteq Slots
  BY DEF EndTypes, InState, Passed, Lap, Unserved, Ring
<1>2. \A x \in Slots : Gap(a, x) \in 0..(MaxEvents - 1)
  BY <1>1, GapIs
<1>3. PICK g \in F : After(g) # a /\ Gap(a, g) >= Gap(a, c)
  BY FreeSlotAhead
<1>4. n \in F /\ n \in Slots /\ \A r \in F : Gap(c, n) <= Gap(c, r)
  BY <1>1, <1>3, FirstFromIs
<1>5. \A x \in Slots : Gap(c, x) = IF Gap(a, x) >= Gap(a, c) THEN Gap(a, x) - Gap(a, c)
                                   ELSE Gap(a, x) - Gap(a, c) + MaxEvents
  BY <1>1, GapFrom
<1>6. Gap(a, n) >= Gap(a, c) /\ Gap(a, n) <= Gap(a, g)
  <2>1. g \in Slots /\ Gap(c, n) <= Gap(c, g) /\ Gap(c, g) = Gap(a, g) - Gap(a, c)
    BY <1>1, <1>3, <1>4, <1>5
  <2>2. Gap(c, n) = IF Gap(a, n) >= Gap(a, c) THEN Gap(a, n) - Gap(a, c)
                    ELSE Gap(a, n) - Gap(a, c) + MaxEvents
    BY <1>4, <1>5
  <2>3. Gap(a, n) \in 0..(MaxEvents - 1) /\ Gap(a, g) \in 0..(MaxEvents - 1)
        /\ Gap(a, c) \in 0..(MaxEvents - 1)
    BY <1>1, <1>2, <1>4, <2>1
  <2> QED BY <2>1, <2>2, <2>3, RoomForThreads
<1>7. Gap(a, g) < MaxEvents - 1
  <2>1. Gap(a, After(g)) = Gap(a, g) + 1 /\ After(g) \in Slots
    BY <1>1, <1>3, GapAfter, AfterIs
  <2> QED BY <2>1, <1>2, <1>3, <1>1, RoomForThreads
<1>8. After(n) # a /\ Gap(a, After(n)) = Gap(a, n) + 1
  BY <1>1, <1>2, <1>3, <1>4, <1>6, <1>7, GapAfter, RoomForThreads
<1>9. Lap(p)' = {x \in Slots : Gap(a, x) <= Gap(a, n)}
  BY <1>2, <1>4, <1>8 DEF Lap
<1>10. A' = A \cup {n} /\ n \notin A /\ n \notin Unserved(p)
  BY <1>4 DEF InState, Unserved
<1>11. A' \subseteq Lap(p)'
  <2>1. \A x \in A : Gap(a, x) < Gap(a, c)
    BY DEF Ring, Lap
  <2> QED BY <2>1, <1>1, <1>2, <1>4, <1>6, <1>9, <1>10
<1>12. n \in A' /\ cur'[p] = After(n)
  BY <1>10
<1>13. Passed(p)' \subseteq Passed(p) \cup (Unserved(p) \ A)
  <2> SUFFICES ASSUME NEW x \in Passed(p)', x \notin Passed(p) PROVE x \in Unserved(p) \ A
    OBVIOUS
  <2>1. x \in Slots /\ x \notin A /\ x # n /\ Gap(a, x) <= Gap(a, n)
    BY <1>9, <1>10 DEF Passed
  <2>2. Gap(a, x) >= Gap(a, c) /\ Gap(a, x) < Gap(a, n)
    BY <2>1, <1>1, <1>2, <1>4, GapTells DEF Passed, Lap
  <2>3. Gap(c, x) < Gap(c, n)
    BY <2>1, <2>2, <1>1, <1>2, <1>4, <1>5
  <2>4. x \notin F
    BY <2>1, <2>3, <1>1, <1>4, GapIs
  <2> QED BY <2>1, <2>4 DEF InState, Unserved
<1>14. (Unserved(p)' \ A') \subseteq Unserved(p) \ A
  BY <1>10 DEF Unserved
<1>15. \A x \in Slots : x # n => lQueue'[p][x].thread = lQueue[p][x].thread
  OBVIOUS
<1>16. A \subseteq Unserved(p)
  BY DEF InState, Unserved
<1>17. ASSUME NEW x \in Passed(p)', NEW y \in Passed(p)' \cup (Unserved(p)' \ A'), x # y
       PROVE  lQueue'[p][x].thread # lQueue'[p][y].thread
  <2>1. x \in Passed(p) \cup (Unserved(p) \ A) /\ y \in Passed(p) \cup (Unserved(p) \ A)
    BY <1>13, <1>14
  <2>2. x # n /\ y # n /\ x \in Slots /\ y \in Slots
    BY <2>1, <1>1, <1>10 DEF Passed
  <2>3. lQueue[p][x].thread # lQueue[p][y].thread
    BY <2>1, <1>17 DEF Ring, OneEach
  <2> QED BY <2>2, <2>3, <1>15
<1>18. ASSUME NEW x \in Passed(p)', NEW s \in A', lQueue'[p][x].thread = lQueue'[p][s].thread
       PROVE  \E r \in A' : Gap(a, x) < Gap(a, r) /\ Gap(a, r) < Gap(a, s)
  <2>1. x \in Slots /\ x # n /\ x \in Passed(p) \cup (Unserved(p) \ A)
    BY <1>1, <1>10, <1>13 DEF Passed
  <2>2. lQueue[p][x].thread = lQueue'[p][s].thread
    BY <2>1, <1>15, <1>18
  <2>3. CASE s = n
    <3>1. x \in Passed(p)
      BY <2>1, <2>2, <2>3
    <3>2. Gap(a, x) < Gap(a, c) /\ x \notin A
      BY <3>1 DEF Passed, Lap
    <3>3. c # a
      BY <3>2, <2>1, <1>1, <1>2 DEF Gap, Slots
    <3>4. PICK l \in A : c = After(l)
      BY <3>3 DEF Ring
    <3>5. l \in Slots /\ l # x /\ Gap(a, c) = Gap(a, l) + 1
      BY <3>2, <3>3, <3>4, <1>1, GapAfter
    <3>6. Gap(a, x) < Gap(a, l)
      BY <3>2, <3>5, <2>1, <1>1, <1>2, GapTells
    <3>7. Gap(a, l) < Gap(a, n)
      BY <3>5, <1>1, <1>2, <1>4, <1>6
    <3> QED BY <3>4, <3>6, <3>7, <2>3, <1>10
  <2>4. CASE s # n
    <3>1. s \in A /\ s \in Slots /\ lQueue[p][x].thread = lQueue[p][s].thread
      BY <2>2, <2>4, <1>1, <1>10, <1>15
    <3>2. x \in Passed(p)
      BY <3>1, <2>1, <1>16 DEF OneEach
    <3>3. \E r \in A : Gap(a, x) < Gap(a, r) /\ Gap(a, r) < Gap(a, s)
      BY <3>1, <3>2 DEF Ring
    <3> QED BY <3>3, <1>10
  <2> QED BY <2>3, <2>4
<1> QED BY <1>4, <1>11, <1>12, <1>17, <1>18 DEF Ring

-------------------------------------------------------------------------------
(* The packets an end holds are those its threads have read or will release. *)

\* A thread owes at least what it has read and not released.
LEMMA OwedIs == ASSUME CallTypes, NEW t \in Threads PROVE Owed(t) \in Nat /\ Owed(t) >= got[t]
  BY DEF CallTypes, Owed

\* The claims are kept when nobody owes more or less.
LEMMA ClaimsKeep ==
    ASSUME NEW p \in Peers, Held(p), Len(stream'[p].blocked) = Len(stream[p].blocked),
           \A t \in Threads : PeerOf(t) = p => Owed(t)' = Owed(t)
    PROVE  Held(p)'
<1>1. Claims(p)' = Claims(p)
  BY DEF Claims
<1> QED BY <1>1 DEF Held

\* A thread that owes one packet more claims the packet just taken.
LEMMA ClaimMore ==
    ASSUME NEW p \in Peers, EndTypes, CallTypes, Held(p), NEW t \in Threads, PeerOf(t) = p,
           Owed(t)' = Owed(t) + 1,
           \A u \in Threads : PeerOf(u) = p /\ u # t => Owed(u)' = Owed(u),
           Len(stream'[p].blocked) = Len(stream[p].blocked) + 1
    PROVE  Held(p)'
<1>1. Owed(t) \in Nat
  BY OwedIs
<1>2. Claims(p)' = Claims(p) \cup {<<t, Owed(t)>>}
  BY <1>1 DEF Claims
<1>3. <<t, Owed(t)>> \notin Claims(p)
  BY <1>1 DEF Claims
<1>4. Len(stream[p].blocked) \in Nat
  BY LenProperties DEF EndTypes, Stream
<1>5. Cardinality(Claims(p)) \in Nat
  BY FS_CardinalityType DEF Held
<1>6. IsFiniteSet(Claims(p)') /\ Cardinality(Claims(p)') = Cardinality(Claims(p)) + 1
  BY <1>2, <1>3, FS_AddElement, ZenonT(60) DEF Held
<1> QED BY <1>4, <1>5, <1>6 DEF Held

\* A thread that owes one packet less gives up the packet just released.
LEMMA ClaimLess ==
    ASSUME NEW p \in Peers, EndTypes, CallTypes, Held(p), NEW t \in Threads, PeerOf(t) = p,
           Owed(t) > 0, Owed(t)' = Owed(t) - 1,
           \A u \in Threads : PeerOf(u) = p /\ u # t => Owed(u)' = Owed(u),
           Len(stream'[p].blocked) = Len(stream[p].blocked) - 1
    PROVE  Held(p)'
<1>1. Owed(t) \in Nat
  BY OwedIs
<1>2. Claims(p)' = Claims(p) \ {<<t, Owed(t) - 1>>}
  BY <1>1 DEF Claims
<1>3. <<t, Owed(t) - 1>> \in Claims(p)
  BY <1>1 DEF Claims
<1>4. Len(stream[p].blocked) \in Nat
  BY LenProperties DEF EndTypes, Stream
<1>5. Cardinality(Claims(p)) \in Nat
  BY FS_CardinalityType DEF Held
<1>6. IsFiniteSet(Claims(p)') /\ Cardinality(Claims(p)') = Cardinality(Claims(p)) - 1
  BY <1>2, <1>3, FS_RemoveElement DEF Held
<1> QED BY <1>4, <1>5, <1>6 DEF Held

\* A release finds a packet to release.
LEMMA ClaimsFound ==
    ASSUME NEW p \in Peers, EndTypes, CallTypes, Held(p), NEW t \in Threads, PeerOf(t) = p, Owed(t) > 0
    PROVE  stream[p].blocked # <<>>
<1>1. <<t, 0>> \in Claims(p)
  BY OwedIs DEF Claims
<1>2. Cardinality(Claims(p)) \in Nat \ {0}
  BY <1>1, FS_CardinalityType, FS_EmptySet DEF Held
<1>3. Len(stream[p].blocked) # 0
  BY <1>2 DEF Held
<1> QED BY <1>3

-------------------------------------------------------------------------------
(* What the scheduler takes. *)

\* What dispatcherGetNextEvent takes: a request that was woken, the nearest request that
\* was added, or the first message of the peer.
LEMMA NextIs ==
    ASSUME NEW p \in Peers, EndTypes, curProc[p] # 0
    PROVE  /\ NextEvent(p) = "ready" => /\ NextSlot(p) \in InState(p, "READY")
                                        /\ NextSlot(p) \in Slots
           /\ NextEvent(p) = "local" =>
                 /\ NextSlot(p) \in InState(p, "ALLOCATED") /\ NextSlot(p) \in Slots
                 /\ \A r \in InState(p, "ALLOCATED") :
                       Gap(curProc[p], NextSlot(p)) <= Gap(curProc[p], r)
           /\ NextEvent(p) = "remote" => rQueue[p] # <<>>
<1>1. ASSUME NextEvent(p) = "ready"
      PROVE  NextSlot(p) \in InState(p, "READY") /\ NextSlot(p) \in Slots
  <2>1. InState(p, "READY") # {} /\ InState(p, "READY") \subseteq Slots
    BY <1>1 DEF NextEvent, InState
  <2> QED BY <2>1, <1>1, MinIs DEF NextSlot
<1>2. ASSUME NextEvent(p) = "local"
      PROVE  /\ NextSlot(p) \in InState(p, "ALLOCATED") /\ NextSlot(p) \in Slots
             /\ \A r \in InState(p, "ALLOCATED") : Gap(curProc[p], NextSlot(p)) <= Gap(curProc[p], r)
  <2>1. HasLocal(p)
    BY <1>2 DEF NextEvent
  <2>2. InState(p, "ALLOCATED") # {} /\ InState(p, "ALLOCATED") \subseteq Slots /\ curProc[p] \in Slots
    BY <2>1 DEF HasLocal, InState, EndTypes
  <2> QED BY <2>2, <1>2, FirstFromIs DEF NextSlot
<1>3. ASSUME NextEvent(p) = "remote" PROVE rQueue[p] # <<>>
  <2>1. HasRemote(p)
    BY <1>3 DEF NextEvent
  <2> QED BY <2>1 DEF HasRemote
<1> QED BY <1>1, <1>2, <1>3

-------------------------------------------------------------------------------
(* Types. *)

\* The empty message is a message.
LEMMA NoRequestIs == NoRequest \in Mail
  BY DEF NoRequest, Mail, Ids

\* The first element of a sequence and the rest.
LEMMA HeadIs == ASSUME NEW S, NEW q \in Seq(S), q # <<>>
                PROVE  Head(q) \in S /\ Tail(q) \in Seq(S) /\ Len(Tail(q)) = Len(q) - 1
                       /\ Len(q) \in Nat \ {0}
  BY HeadTailProperties, EmptySeq, LenProperties

\* What a slot holds is an event, also after the changes the scheduler makes to it.
LEMMA EventIs ==
    ASSUME EndTypes, NEW p \in Peers, NEW s \in Slots
    PROVE  /\ lQueue[p][s] \in Event
           /\ \A e \in Event : /\ Served(e) \in Event
                               /\ [e EXCEPT !.ack = TRUE] \in Event
                               /\ [e EXCEPT !.ack = TRUE, !.localServe = TRUE] \in Event
                               /\ Block(e) \in Event /\ Pend(e) \in Event
                               /\ [Block(e) EXCEPT !.ack = TRUE] \in Event
                               /\ \A n \in Nat : [Pend(e) EXCEPT !.size = n] \in Event
<1>1. lQueue[p][s] \in Event
  BY DEF EndTypes
<1>2. SUFFICES ASSUME NEW e \in Event
               PROVE  /\ Served(e) \in Event
                      /\ [e EXCEPT !.ack = TRUE] \in Event
                      /\ [e EXCEPT !.ack = TRUE, !.localServe = TRUE] \in Event
                      /\ Block(e) \in Event /\ Pend(e) \in Event
                      /\ [Block(e) EXCEPT !.ack = TRUE] \in Event
                      /\ \A n \in Nat : [Pend(e) EXCEPT !.size = n] \in Event
  BY <1>1
<1>3. Served(e) \in Event
  BY DEF Event, Served, Ids
<1>4. [e EXCEPT !.ack = TRUE] \in Event /\ [e EXCEPT !.ack = TRUE, !.localServe = TRUE] \in Event
  BY DEF Event
<1>5. Block(e) \in Event /\ Pend(e) \in Event
  BY DEF Event, Block, Pend
<1>6. [Block(e) EXCEPT !.ack = TRUE] \in Event
  BY DEF Event, Block
<1>7. \A n \in Nat : [Pend(e) EXCEPT !.size = n] \in Event
  BY DEF Event, Pend
<1> QED BY <1>3, <1>4, <1>5, <1>6, <1>7

\* A slot that is changed in place.
LEMMA PutTypes ==
    ASSUME EndTypes, NEW p \in Peers, NEW s \in Slots, NEW f \in Event,
           lQueue' = [lQueue EXCEPT ![p][s] = f]
    PROVE  /\ lQueue' \in [Peers -> [Slots -> Event]]
           /\ lQueue'[p][s] = f
           /\ \A r \in Slots : r # s => lQueue'[p][r] = lQueue[p][r]
           /\ \A q \in Peers : q # p => lQueue'[q] = lQueue[q]
  BY DEF EndTypes

\* Taking the next event keeps the types of the cursors and of the second ring.
LEMMA TakeTypes ==
    ASSUME EndTypes, NEW p \in Peers, curProc[p] # 0, TakeNext(p)
    PROVE  cur' \in [Peers -> Slots] /\ curProc' \in [Peers -> Slots \cup {0}] /\ rQueue' \in [Peers -> Seq(Mail)]
<1>1. NextEvent(p) = "local" => After(NextSlot(p)) \in Slots
  BY NextIs, AfterIs
<1>2. NextEvent(p) = "remote" => Tail(rQueue[p]) \in Seq(Mail)
  BY NextIs, HeadIs DEF EndTypes
<1> QED BY <1>1, <1>2 DEF TakeNext, EndTypes

\* A call keeps the types.
LEMMA CallTypesKeep ==
    ASSUME EndTypes, CallTypes, NEW t \in Threads, NEW op \in Ops[mayFail][t], Call(t, op), mayFail' = mayFail
    PROVE  EndTypes' /\ CallTypes'
<1>1. op \in [type : Requests, size : Nat]
  BY DispatcherAssumption DEF CallTypes
<1>2. [type |-> op.type, size |-> op.size, id |-> <<t, left[t]>>] \in Request
  BY <1>1 DEF Request, Ids, CallTypes
<1>3. EndTypes'
  BY DEF EndTypes, Call, queues
<1>4. CallTypes'
  <2>1. op.type = "RELEASE" => got[t] - 1 \in Nat
    BY DEF CallTypes, Call
  <2>2. left[t] - 1 \in Nat
    BY DEF CallTypes, Call
  <2> QED BY <1>2, <2>1, <2>2 DEF CallTypes, Call
<1> QED BY <1>3, <1>4

\* Adding an event keeps the types.
LEMMA AddTypes ==
    ASSUME EndTypes, CallTypes, NEW t \in Threads, Add(t), mayFail' = mayFail
    PROVE  EndTypes' /\ CallTypes'
<1> DEFINE p == PeerOf(t)
           S == InState(p, "SERVED")
           s == FirstFrom(S, cur[p])
           f == [state |-> "ALLOCATED", type |-> call[t].type, id |-> call[t].id,
                 size |-> call[t].size, thread |-> t, localServe |-> FALSE, ack |-> FALSE]
<1>1. p \in Peers /\ NoRequest \in Request
  BY Ends DEF NoRequest, Request, Ids
<1>2. f \in Event
  BY DEF CallTypes, Request, Event
<1>3. CASE sched[p].at = "closed" \/ S = {}
  <2>1. /\ pc' = [pc EXCEPT ![t] = "idle"] /\ call' = [call EXCEPT ![t] = NoRequest]
        /\ UNCHANGED <<lQueue, cur, curProc, rQueue, sched, reader, freeing, stream, wire,
                       sem, acked, got, left>>
    BY <1>3 DEF Add
  <2>2. EndTypes'
    BY <2>1 DEF EndTypes
  <2>3. CallTypes'
    BY <2>1, <1>1 DEF CallTypes
  <2> QED BY <2>2, <2>3
<1>4. CASE sched[p].at # "closed" /\ S # {}
  <2>1. s \in Slots /\ After(s) \in Slots
    <3>1. S \subseteq Slots /\ cur[p] \in Slots
      BY <1>1 DEF InState, EndTypes
    <3> QED BY <3>1, <1>4, FirstFromIs, AfterIs
  <2>2. /\ lQueue' = [lQueue EXCEPT ![p][s] = f] /\ cur' = [cur EXCEPT ![p] = After(s)]
        /\ pc' = [pc EXCEPT ![t] = "wait"] /\ acked' = [acked EXCEPT ![t] = FALSE]
        /\ UNCHANGED <<curProc, rQueue, call, sched, reader, freeing, stream, wire, sem, got, left>>
    BY <1>4 DEF Add
  <2> HIDE DEF p, s, f, S
  <2>3. lQueue' \in [Peers -> [Slots -> Event]] /\ cur' \in [Peers -> Slots]
    BY <1>1, <1>2, <2>1, <2>2, PutTypes DEF EndTypes
  <2>4. EndTypes'
    BY <2>2, <2>3 DEF EndTypes
  <2>5. CallTypes'
    BY <2>2 DEF CallTypes
  <2> QED BY <2>4, <2>5
<1> QED BY <1>3, <1>4

\* A return keeps the types.
LEMMA ReturnTypes ==
    ASSUME EndTypes, CallTypes, NEW t \in Threads, Return(t), mayFail' = mayFail
    PROVE  EndTypes' /\ CallTypes'
<1>1. EndTypes'
  BY DEF EndTypes, Return, queues
<1>2. NoRequest \in Request
  BY DEF NoRequest, Request, Ids
<1>3. sem' \in [Threads -> Nat]
  BY DEF CallTypes, Return
<1>4. got' \in [Threads -> Nat]
  BY DEF CallTypes, Return
<1>5. CallTypes'
  BY <1>2, <1>3, <1>4 DEF CallTypes, Return
<1> QED BY <1>1, <1>5

\* Serving a local request keeps the types.
LEMMA SchedLocalTypes ==
    ASSUME EndTypes, CallTypes, NEW p \in Peers, curProc[p] # 0, SchedLocal(p), mayFail' = mayFail
    PROVE  EndTypes' /\ CallTypes'
<1> DEFINE s == NextSlot(p)
           e == lQueue[p][s]
<1>1. s \in Slots
  BY NextIs DEF SchedLocal
<1>2. /\ TakeNext(p) /\ ServeLocal(p, s)
      /\ UNCHANGED <<reader, freeing, wire, pc, call, got, left>>
  BY DEF SchedLocal
<1>3. cur' \in [Peers -> Slots] /\ curProc' \in [Peers -> Slots \cup {0}] /\ rQueue' \in [Peers -> Seq(Mail)]
  BY <1>2, TakeTypes
<1> HIDE DEF s
<1>4. e \in Event /\ e.thread \in Threads /\ e.size \in Nat
  BY <1>1, EventIs DEF Event
<1>5. stream[p] \in Stream
  BY DEF EndTypes
<1>6. sched' \in [Peers -> Places]
  <2>1. sched' = [sched EXCEPT ![p].at = "send", ![p].slot = s]
    BY <1>2 DEF ServeLocal
  <2>2. sched \in [Peers -> Places]
    BY DEF EndTypes
  <2> QED BY <2>1, <2>2, <1>1 DEF Places, Steps
<1>7. /\ lQueue' \in [Peers -> [Slots -> Event]] /\ stream' \in [Peers -> Stream]
      /\ sem' \in [Threads -> Nat] /\ acked' \in [Threads -> BOOLEAN]
  <2>1. CASE e.type = "WRITE" /\ HasRoom(p, e.size)
    <3>1. /\ lQueue' = [lQueue EXCEPT ![p][s] = Pend(e)] /\ UNCHANGED <<acked, sem>>
          /\ stream' = [stream EXCEPT ![p].remoteFill = @ + e.size, ![p].remotePackets = @ + 1]
      BY <1>2, <2>1 DEF ServeLocal
    <3>2. lQueue' \in [Peers -> [Slots -> Event]]
      BY <3>1, <1>1, <1>4, EventIs, PutTypes
    <3>3. stream' \in [Peers -> Stream]
      <4>1. stream[p].remoteFill + e.size \in Int /\ stream[p].remotePackets + 1 \in Int
        BY <1>4, <1>5 DEF Stream
      <4> QED BY <4>1, <3>1, <1>5 DEF EndTypes, Stream
    <3> QED BY <3>1, <3>2, <3>3 DEF CallTypes
  <2>2. CASE e.type = "WRITE" /\ ~HasRoom(p, e.size)
    <3>1. lQueue' = [lQueue EXCEPT ![p][s] = [Block(e) EXCEPT !.ack = TRUE]] /\ UNCHANGED <<stream, acked, sem>>
      BY <1>2, <2>2 DEF ServeLocal
    <3>2. lQueue' \in [Peers -> [Slots -> Event]]
      BY <3>1, <1>1, <1>4, EventIs, PutTypes
    <3> QED BY <3>1, <3>2 DEF CallTypes, EndTypes
  <2>3. CASE e.type = "READ" /\ stream[p].available # <<>>
    <3> DEFINE f == [e EXCEPT !.ack = TRUE, !.localServe = TRUE]
    <3>1. GetPacket(p) /\ PostAndMarkServed(p, s, f)
      BY <1>2, <2>3 DEF ServeLocal
    <3>2. f \in Event /\ Served(f) \in Event /\ f.thread \in Threads /\ f.ack \in BOOLEAN
      BY <1>1, <1>4, EventIs DEF Event
    <3> HIDE DEF f
    <3>3. lQueue' \in [Peers -> [Slots -> Event]]
      BY <3>1, <3>2, <1>1, PutTypes DEF PostAndMarkServed
    <3>4. sem' \in [Threads -> Nat] /\ acked' \in [Threads -> BOOLEAN]
      BY <3>1, <3>2 DEF PostAndMarkServed, CallTypes
    <3>5. /\ Tail(stream[p].available) \in Seq(Packet)
          /\ Append(stream[p].blocked, Head(stream[p].available)) \in Seq(Packet)
      BY <2>3, <1>5, HeadIs, AppendProperties DEF Stream
    <3>6. stream' \in [Peers -> Stream]
      BY <3>1, <3>5 DEF GetPacket, EndTypes, Stream
    <3> QED BY <3>3, <3>4, <3>6
  <2>4. CASE e.type = "READ" /\ stream[p].available = <<>>
    <3>1. lQueue' = [lQueue EXCEPT ![p][s] = Block(e)] /\ UNCHANGED <<stream, acked, sem>>
      BY <1>2, <2>4 DEF ServeLocal
    <3>2. lQueue' \in [Peers -> [Slots -> Event]]
      BY <3>1, <1>1, <1>4, EventIs, PutTypes
    <3> QED BY <3>1, <3>2 DEF CallTypes, EndTypes
  <2>5. CASE e.type = "RELEASE"
    <3>1. /\ lQueue' = [lQueue EXCEPT ![p][s] = [Pend(e) EXCEPT !.size = ReleasedSize(p)]]
          /\ ReleasePacket(p) /\ UNCHANGED <<acked, sem>>
      BY <1>2, <2>5 DEF ServeLocal
    <3>2. stream[p].blocked # <<>> =>
              Head(stream[p].blocked) \in Packet /\ Tail(stream[p].blocked) \in Seq(Packet)
      BY <1>5, HeadIs DEF Stream
    <3>3. ReleasedSize(p) \in Nat
      BY <3>2 DEF Packet, ReleasedSize
    <3>4. lQueue' \in [Peers -> [Slots -> Event]]
      BY <3>1, <3>3, <1>1, <1>4, EventIs, PutTypes
    <3>5. stream' \in [Peers -> Stream]
      <4>1. stream \in [Peers -> Stream] /\ stream[p].localFill - ReleasedSize(p) \in Int
        BY <1>5, <3>3 DEF EndTypes, Stream
      <4>2. CASE stream[p].blocked = <<>>
        BY <3>1, <4>1, <4>2 DEF ReleasePacket
      <4>3. CASE stream[p].blocked # <<>>
        BY <3>1, <3>2, <4>1, <4>3 DEF ReleasePacket, Stream
      <4> QED BY <4>2, <4>3
    <3> QED BY <3>1, <3>4, <3>5 DEF CallTypes
  <2>6. CASE e.type = "RESET"
    <3>1. lQueue' = [lQueue EXCEPT ![p][s] = Pend(e)] /\ UNCHANGED <<stream, acked, sem>>
      BY <1>2, <2>6 DEF ServeLocal
    <3>2. lQueue' \in [Peers -> [Slots -> Event]]
      BY <3>1, <1>1, <1>4, EventIs, PutTypes
    <3> QED BY <3>1, <3>2 DEF CallTypes, EndTypes
  <2> QED BY <1>2, <2>1, <2>2, <2>3, <2>4, <2>5, <2>6 DEF ServeLocal
<1>8. EndTypes'
  BY <1>2, <1>3, <1>6, <1>7 DEF EndTypes
<1>9. CallTypes'
  BY <1>2, <1>7 DEF CallTypes
<1> QED BY <1>8, <1>9

\* A request that is unblocked keeps everything but its state.
LEMMA UnblockIs ==
    ASSUME EndTypes, NEW p \in Peers, NEW type, UnblockFirst(p, type)
    PROVE  \/ Blocked(p, type) = {} /\ lQueue' = lQueue
           \/ \E s \in Blocked(p, type) :
                 /\ s \in Slots /\ [lQueue[p][s] EXCEPT !.state = "READY"] \in Event
                 /\ lQueue' = [lQueue EXCEPT ![p][s] = [lQueue[p][s] EXCEPT !.state = "READY"]]
<1> DEFINE S == Blocked(p, type)
<1>1. S \subseteq Slots
  BY DEF Blocked, InState
<1>2. CASE S = {}
  BY <1>2 DEF UnblockFirst, Blocked
<1>3. CASE S # {}
  <2>1. Min(S) \in S /\ Min(S) \in Slots
    BY <1>1, <1>3, MinIs
  <2>2. lQueue' = [lQueue EXCEPT ![p][Min(S)].state = "READY"]
    BY <1>3 DEF UnblockFirst, Blocked
  <2> HIDE DEF S
  <2>3. lQueue' = [lQueue EXCEPT ![p][Min(S)] = [lQueue[p][Min(S)] EXCEPT !.state = "READY"]]
    BY <2>1, <2>2 DEF EndTypes
  <2>4. lQueue[p][Min(S)] \in Event
    BY <2>1, EventIs
  <2>5. [lQueue[p][Min(S)] EXCEPT !.state = "READY"] \in Event
    BY <2>4 DEF Event
  <2> QED BY <2>1, <2>3, <2>5 DEF S
<1> QED BY <1>2, <1>3

\* Serving a request of the peer keeps the types.
LEMMA SchedRemoteRequestTypes ==
    ASSUME EndTypes, CallTypes, NEW p \in Peers, curProc[p] # 0, SchedRemoteRequest(p), mayFail' = mayFail
    PROVE  EndTypes' /\ CallTypes'
<1> DEFINE m == Head(rQueue[p])
<1>1. m \in Mail /\ m.type \in Requests /\ m.size \in Nat /\ m.id \in Ids
  <2>1. rQueue[p] # <<>> /\ rQueue[p] \in Seq(Mail)
    BY NextIs DEF SchedRemoteRequest, EndTypes
  <2>2. m \in Mail
    BY <2>1, HeadIs
  <2> QED BY <2>2 DEF SchedRemoteRequest, Mail
<1>2. cur' \in [Peers -> Slots] /\ curProc' \in [Peers -> Slots \cup {0}] /\ rQueue' \in [Peers -> Seq(Mail)]
  BY TakeTypes DEF SchedRemoteRequest
<1> HIDE DEF m
<1>3. lQueue' \in [Peers -> [Slots -> Event]]
  <2>1. lQueue' = lQueue \/ UnblockFirst(p, "READ") \/ UnblockFirst(p, "WRITE")
    BY DEF SchedRemoteRequest
  <2> QED BY <2>1, UnblockIs, PutTypes DEF EndTypes
<1>4. stream' \in [Peers -> Stream]
  <2>1. \/ stream' = stream
        \/ stream' = [stream EXCEPT ![p].remoteFill = @ - m.size, ![p].remotePackets = @ - 1]
    BY DEF SchedRemoteRequest, m
  <2>2. stream[p] \in Stream
    BY DEF EndTypes
  <2>3. stream[p].remoteFill - m.size \in Int /\ stream[p].remotePackets - 1 \in Int
    BY <1>1, <2>2 DEF Stream
  <2>4. [stream[p] EXCEPT !.remoteFill = @ - m.size, !.remotePackets = @ - 1] \in Stream
    BY <2>2, <2>3 DEF Stream
  <2>5. stream \in [Peers -> Stream]
    BY DEF EndTypes
  <2>6. ASSUME stream' = [stream EXCEPT ![p].remoteFill = @ - m.size, ![p].remotePackets = @ - 1]
        PROVE  stream' = [stream EXCEPT ![p] =
                   [stream[p] EXCEPT !.remoteFill = @ - m.size, !.remotePackets = @ - 1]]
    BY <2>2, <2>5, <2>6 DEF Stream
  <2> QED BY <2>1, <2>4, <2>5, <2>6
<1>5. sched' \in [Peers -> Places]
  <2>1. [type |-> Responses[m.type], size |-> m.size, id |-> m.id] \in Mail
    <3>1. m.type \in {"WRITE", "RELEASE", "RESET"}
      BY DEF SchedRemoteRequest, m
    <3> QED BY <3>1, <1>1 DEF Mail, Responses
  <2>2. sched' = [sched EXCEPT ![p].at = "reply", ![p].msg =
                    [type |-> Responses[m.type], size |-> m.size, id |-> m.id]]
    BY DEF SchedRemoteRequest, m
  <2>3. sched \in [Peers -> Places]
    BY DEF EndTypes
  <2> QED BY <2>1, <2>2, <2>3 DEF Places, Steps
<1>6. EndTypes'
  BY <1>2, <1>3, <1>4, <1>5 DEF EndTypes, SchedRemoteRequest
<1>7. CallTypes'
  BY DEF CallTypes, SchedRemoteRequest, threads
<1> QED BY <1>6, <1>7

\* The request a response answers.
LEMMA ResponseIs ==
    ASSUME EndTypes, CallTypes, NEW p \in Peers, SchedResponse(p)
    PROVE  \/ UNCHANGED <<lQueue, acked, sem>>
           \/ \E s \in InState(p, "PENDING") :
                 /\ s \in Slots /\ Served([lQueue[p][s] EXCEPT !.ack = TRUE]) \in Event
                 /\ lQueue' = [lQueue EXCEPT ![p][s] = Served([lQueue[p][s] EXCEPT !.ack = TRUE])]
                 /\ acked' = [acked EXCEPT ![lQueue[p][s].thread] = TRUE]
                 /\ sem' = [sem EXCEPT ![lQueue[p][s].thread] = @ + 1]
<1> DEFINE m == Head(rQueue[p])
           S == {s \in InState(p, "PENDING") :
                    lQueue[p][s].id = m.id /\ Responses[lQueue[p][s].type] = m.type}
<1>1. S \subseteq Slots /\ S \subseteq InState(p, "PENDING")
  BY SMTT(60) DEF InState
<1>2. CASE S = {}
  BY <1>2 DEF SchedResponse
<1>3. CASE S # {}
  <2>1. Min(S) \in S /\ Min(S) \in Slots
    BY <1>1, <1>3, MinIs, ZenonT(60)
  <2>2. PostAndMarkServed(p, Min(S), [lQueue[p][Min(S)] EXCEPT !.ack = TRUE])
    BY <1>3, SMTT(60) DEF SchedResponse
  <2> DEFINE s == Min(S)
  <2>3. s \in InState(p, "PENDING") /\ s \in Slots
    BY <1>1, <2>1, ZenonT(60)
  <2> HIDE DEF S, s
  <2>4. PostAndMarkServed(p, s, [lQueue[p][s] EXCEPT !.ack = TRUE])
    BY <2>2 DEF s, S
  <2>5. lQueue[p][s] \in Event
    BY <2>3, EventIs
  <2>6. Served([lQueue[p][s] EXCEPT !.ack = TRUE]) \in Event
    BY <2>3, <2>5, EventIs
  <2>7. /\ [lQueue[p][s] EXCEPT !.ack = TRUE].thread = lQueue[p][s].thread
        /\ [lQueue[p][s] EXCEPT !.ack = TRUE].ack = TRUE
    BY <2>5, SMTT(60) DEF Event
  <2> QED BY <2>3, <2>4, <2>6, <2>7, ZenonT(60) DEF PostAndMarkServed
<1> QED BY <1>2, <1>3

\* Serving a response keeps the types.
LEMMA SchedResponseTypes ==
    ASSUME EndTypes, CallTypes, NEW p \in Peers, curProc[p] # 0, SchedResponse(p), mayFail' = mayFail
    PROVE  EndTypes' /\ CallTypes'
<1>1. cur' \in [Peers -> Slots] /\ curProc' \in [Peers -> Slots \cup {0}] /\ rQueue' \in [Peers -> Seq(Mail)]
  BY TakeTypes DEF SchedResponse
<1>2. /\ lQueue' \in [Peers -> [Slots -> Event]]
      /\ acked' \in [Threads -> BOOLEAN] /\ sem' \in [Threads -> Nat]
  <2>1. CASE UNCHANGED <<lQueue, acked, sem>>
    BY <2>1 DEF EndTypes, CallTypes
  <2>2. CASE ~ UNCHANGED <<lQueue, acked, sem>>
    <3>1. PICK s \in InState(p, "PENDING") :
                 /\ s \in Slots /\ Served([lQueue[p][s] EXCEPT !.ack = TRUE]) \in Event
                 /\ lQueue' = [lQueue EXCEPT ![p][s] = Served([lQueue[p][s] EXCEPT !.ack = TRUE])]
                 /\ acked' = [acked EXCEPT ![lQueue[p][s].thread] = TRUE]
                 /\ sem' = [sem EXCEPT ![lQueue[p][s].thread] = @ + 1]
      BY <2>2, ResponseIs, Zenon
    <3>2. lQueue' \in [Peers -> [Slots -> Event]]
      BY <3>1, PutTypes
    <3>3. acked' \in [Threads -> BOOLEAN] /\ sem' \in [Threads -> Nat]
      <4>1. sem \in [Threads -> Nat] /\ acked \in [Threads -> BOOLEAN]
        BY DEF CallTypes
      <4>2. lQueue[p][s].thread \in Threads
        BY <3>1, EventIs, ZenonT(60) DEF Event
      <4> QED BY <4>1, <4>2, <3>1
    <3> QED BY <3>2, <3>3
  <2> QED BY <2>1, <2>2
<1>5. sched' \in [Peers -> Places]
  <2>1. sched \in [Peers -> Places]
    BY DEF EndTypes
  <2>2. sched' = [sched EXCEPT ![p].at = "join"] \/ sched' = [sched EXCEPT ![p].at = "get"]
    BY DEF SchedResponse, GoTo, LoopUnless
  <2> QED BY <2>1, <2>2 DEF Places, Steps
<1>3. EndTypes'
  BY <1>1, <1>2, <1>5, SMTT(60) DEF EndTypes, SchedResponse
<1>4. CallTypes'
  BY <1>2 DEF CallTypes, SchedResponse
<1> QED BY <1>3, <1>4

\* A NULL event keeps the types.
LEMMA SchedNullTypes ==
    ASSUME EndTypes, CallTypes, NEW p \in Peers, curProc[p] # 0, SchedNull(p), mayFail' = mayFail
    PROVE  EndTypes' /\ CallTypes'
<1>1. cur' \in [Peers -> Slots] /\ curProc' \in [Peers -> Slots \cup {0}] /\ rQueue' \in [Peers -> Seq(Mail)]
  BY TakeTypes DEF SchedNull
<1>4. sched' \in [Peers -> Places]
  <2>1. sched \in [Peers -> Places]
    BY DEF EndTypes
  <2>2. sched' = [sched EXCEPT ![p].at = "join"] \/ sched' = [sched EXCEPT ![p].at = "get"]
    BY DEF SchedNull, GoTo, LoopUnless
  <2> QED BY <2>1, <2>2 DEF Places, Steps
<1>2. EndTypes'
  BY <1>1, <1>4 DEF EndTypes, SchedNull
<1>3. CallTypes'
  BY DEF CallTypes, SchedNull, threads
<1> QED BY <1>2, <1>3

\* Sending a request keeps the types.
LEMMA SchedSendTypes ==
    ASSUME EndTypes, CallTypes, NEW p \in Peers, SchedSend(p), mayFail' = mayFail,
           up /\ ~lQueue[p][sched[p].slot].localServe =>
               lQueue[p][sched[p].slot].type \in {"WRITE", "RELEASE", "RESET"}
    PROVE  EndTypes' /\ CallTypes'
<1> DEFINE e == lQueue[p][sched[p].slot]
<1>1. sched[p].slot \in Slots
  BY DEF EndTypes, Places
<1>2. e \in Event
  BY <1>1, EventIs
<1>3. up /\ ~e.localServe => [type |-> e.type, size |-> e.size, id |-> e.id] \in Mail
  BY <1>2 DEF Event, Mail
<1>4. wire' \in [Peers -> Seq(Mail)]
  BY <1>3, AppendProperties DEF EndTypes, SchedSend
<1>5. sched' \in [Peers -> Places]
  <2>1. sched' = [sched EXCEPT ![p].slot = 1, ![p].at =
            IF up \/ e.localServe THEN LoopUnless(resetXLink'[p]) ELSE "free"]
    BY DEF SchedSend
  <2>2. 1 \in Slots
    BY RoomForThreads DEF Slots
  <2>3. sched \in [Peers -> Places]
    BY DEF EndTypes
  <2> QED BY <2>1, <2>2, <2>3, NoRequestIs, ZenonT(60) DEF LoopUnless, Places, Steps
<1>6. EndTypes'
  BY <1>4, <1>5 DEF EndTypes, SchedSend, queues
<1>7. CallTypes'
  BY DEF CallTypes, SchedSend, threads
<1> QED BY <1>6, <1>7

\* Sending a response keeps the types.
LEMMA SchedReplyTypes ==
    ASSUME EndTypes, CallTypes, NEW p \in Peers, SchedReply(p), mayFail' = mayFail
    PROVE  EndTypes' /\ CallTypes'
<1>1. wire' \in [Peers -> Seq(Mail)]
  <2>1. sched[p].msg \in Mail /\ wire \in [Peers -> Seq(Mail)]
    BY DEF EndTypes, Places
  <2>2. Append(wire[p], sched[p].msg) \in Seq(Mail)
    BY <2>1, AppendProperties
  <2> QED BY <2>1, <2>2 DEF SchedReply
<1>2. sched' \in [Peers -> Places]
  <2>1. sched' = [sched EXCEPT ![p].msg = IF up THEN NoRequest ELSE @,
                              ![p].at = IF up THEN LoopUnless(resetXLink[p]) ELSE "free"]
    BY DEF SchedReply
  <2>2. sched[p].msg \in Mail
    BY DEF EndTypes, Places
  <2>3. sched \in [Peers -> Places]
    BY DEF EndTypes
  <2> QED BY <2>1, <2>2, <2>3, NoRequestIs, ZenonT(60) DEF LoopUnless, Places, Steps
<1>3. EndTypes'
  BY <1>1, <1>2 DEF EndTypes, SchedReply, queues
<1>4. CallTypes'
  BY DEF CallTypes, SchedReply, threads
<1> QED BY <1>3, <1>4

\* Receiving a message keeps the types.
LEMMA ReceiveTypes ==
    ASSUME EndTypes, CallTypes, NEW p \in Peers, Receive(p), mayFail' = mayFail
    PROVE  EndTypes' /\ CallTypes'
<1> DEFINE m == Head(wire[Other(p)])
<1>1. m \in Mail /\ Tail(wire[Other(p)]) \in Seq(Mail)
  BY Ends, HeadIs DEF EndTypes, Receive
<1>2. m.size \in Nat /\ [id |-> m.id, size |-> m.size] \in Packet
  BY <1>1 DEF Mail, Packet
<1>3. stream[p] \in Stream
  BY DEF EndTypes
<1>4. /\ stream[p].localFill + m.size \in Int
      /\ Append(stream[p].available, [id |-> m.id, size |-> m.size]) \in Seq(Packet)
  BY <1>2, <1>3, AppendProperties DEF Stream
<1>5. stream' \in [Peers -> Stream]
  BY <1>3, <1>4 DEF Receive, EndTypes, Stream
<1>6. reader' \in [Peers -> [at : {"recv", "add", "fail", "exit"}, msg : Mail]]
  BY <1>1, NoRequestIs DEF Receive, EndTypes
<1>7. EndTypes'
  BY <1>1, <1>5, <1>6 DEF EndTypes, Receive, queues
<1>8. CallTypes'
  BY DEF CallTypes, Receive, threads
<1> QED BY <1>7, <1>8

\* Queueing a message of the peer keeps the types.
LEMMA AddRemoteTypes ==
    ASSUME EndTypes, CallTypes, NEW p \in Peers, AddRemote(p), mayFail' = mayFail
    PROVE  EndTypes' /\ CallTypes'
<1>1. reader[p].msg \in Mail /\ rQueue[p] \in Seq(Mail)
  BY DEF EndTypes
<1>2. rQueue' \in [Peers -> Seq(Mail)]
  <2>1. Append(rQueue[p], reader[p].msg) \in Seq(Mail)
    BY <1>1, AppendProperties
  <2> DEFINE n == IF Len(rQueue[p]) + (IF sched[p].msg # NoRequest THEN 1 ELSE 0) < MaxEvents
                  THEN Append(rQueue[p], reader[p].msg) ELSE rQueue[p]
  <2>2. rQueue' = rQueue \/ rQueue' = [rQueue EXCEPT ![p] = n]
    BY DEF AddRemote
  <2>3. n \in Seq(Mail)
    BY <2>1, <1>1
  <2> HIDE DEF n
  <2> QED BY <2>2, <2>3 DEF EndTypes
<1>3. reader' \in [Peers -> [at : {"recv", "add", "fail", "exit"}, msg : Mail]]
  BY NoRequestIs DEF AddRemote, EndTypes
<1>4. EndTypes'
  BY <1>2, <1>3 DEF EndTypes, AddRemote
<1>5. CallTypes'
  BY DEF CallTypes, AddRemote, threads
<1> QED BY <1>4, <1>5

-------------------------------------------------------------------------------
(* What a step leaves alone. *)

\* What PacketsOut and Returning are sums of are numbers.
LEMMA CountsAre ==
    ASSUME EndTypes, NEW p \in Peers, NEW type
    PROVE  /\ SendingOne(p, type) \in {0, 1} /\ AddingOne(p, type) \in {0, 1}
           /\ CountOf(wire[p], type) \in Nat /\ CountOf(rQueue[p], type) \in Nat
           /\ Len(stream[p].available) \in Nat /\ Len(stream[p].blocked) \in Nat
           /\ stream[p].remotePackets \in Int
  BY CountIs, LenProperties DEF EndTypes, Stream, SendingOne, AddingOne

\* A thread that does not wait, or that has been woken, has no event.
LEMMA NoEvent ==
    ASSUME NEW p \in Peers, Awaited(p), NEW t \in Threads, pc[t] # "wait" \/ sem[t] # 0
    PROVE  \A s \in Unserved(p) : lQueue[p][s].thread # t
  BY DEF Awaited, Unserved

\* The events of an end that are not touched, when no thread that has one is either.
LEMMA QuietEvents ==
    ASSUME NEW p \in Peers, EndTypes, Awaited(p), OneEach(p), Ring(p),
           lQueue'[p] = lQueue[p], cur'[p] = cur[p], curProc'[p] = curProc[p],
           \A t \in Threads : (\E s \in Unserved(p) : lQueue[p][s].thread = t) =>
              pc'[t] = pc[t] /\ call'[t] = call[t] /\ sem'[t] = sem[t] /\ acked'[t] = acked[t]
    PROVE  Awaited(p)' /\ OneEach(p)' /\ Ring(p)'
<1>1. Unserved(p)' = Unserved(p)
  BY DEF Unserved
<1>2. OneEach(p)'
  BY <1>1 DEF OneEach
<1>3. Ring(p)'
  BY RingKeeps
<1>4. Awaited(p)'
  <2> SUFFICES ASSUME NEW s \in Slots
               PROVE  LET e == lQueue[p][s] IN
        /\ PeerOf(e.thread) = p
        /\ e.state # "SERVED" =>
              /\ pc'[e.thread] = "wait" /\ sem'[e.thread] = 0 /\ ~acked'[e.thread]
              /\ call'[e.thread].id = e.id /\ call'[e.thread].type = e.type
        /\ e.state = "PENDING" => e.type \in {"WRITE", "RELEASE", "RESET"} /\ ~e.localServe
        /\ e.state \in {"BLOCKED", "READY"} => e.type \in {"WRITE", "READ"}
        /\ e.state = "BLOCKED" => e.localServe
    BY DEF Awaited
  <2>1. lQueue[p][s].thread \in Threads
    BY EventIs DEF Event
  <2>2. lQueue[p][s].state # "SERVED" => s \in Unserved(p)
    BY DEF Unserved
  <2> QED BY <2>1, <2>2 DEF Awaited
<1> QED BY <1>2, <1>3, <1>4

\* An end that is not touched.
LEMMA QuietEnd ==
    ASSUME NEW p \in Peers, EndTypes, Awaited(p), OneEach(p), Ring(p), Handled(p), Held(p),
           lQueue'[p] = lQueue[p], cur'[p] = cur[p], curProc'[p] = curProc[p],
           sched'[p] = sched[p], stream'[p].blocked = stream[p].blocked,
           \A t \in Threads : PeerOf(t) = p =>
              /\ pc'[t] = pc[t] /\ call'[t] = call[t] /\ sem'[t] = sem[t]
              /\ acked'[t] = acked[t] /\ got'[t] = got[t]
    PROVE  Awaited(p)' /\ OneEach(p)' /\ Ring(p)' /\ Handled(p)' /\ Held(p)'
<1>1. \A s \in Unserved(p) : lQueue[p][s].thread \in Threads /\ PeerOf(lQueue[p][s].thread) = p
  BY EventIs DEF Unserved, Event, Awaited
<1>2. Awaited(p)' /\ OneEach(p)' /\ Ring(p)'
  BY <1>1, QuietEvents
<1>3. Handled(p)'
  BY DEF Handled
<1>4. \A t \in Threads : PeerOf(t) = p => Owed(t)' = Owed(t)
  BY DEF Owed, InState
<1>5. Held(p)'
  BY <1>4, ClaimsKeep
<1> QED BY <1>2, <1>3, <1>5

\* The account of an end that sends, receives and serves nothing that counts.
LEMMA QuietRoom ==
    ASSUME NEW p \in Peers, Room(p), wire' = wire, stream' = stream,
           reader'[p] = reader[p], rQueue'[p] = rQueue[p],
           SendingOne(p, "WRITE")' = SendingOne(p, "WRITE"),
           SendingOne(Other(p), "RELEASE")' = SendingOne(Other(p), "RELEASE")
    PROVE  Room(p)'
<1>1. PacketsOut(p)' = PacketsOut(p)
  BY DEF PacketsOut
<1>2. AddingOne(p, "RELEASE")' = AddingOne(p, "RELEASE")
  BY DEF AddingOne
<1>3. Returning(p)' = Returning(p)
  BY <1>2 DEF Returning
<1> QED BY <1>1, <1>3 DEF Room

-------------------------------------------------------------------------------
(* The steps of the application's threads. *)

\* What a thread owes when it has no event to be served.
LEMMA OwedWithoutEvent ==
    ASSUME NEW t \in Threads, \A s \in Unserved(PeerOf(t)) : lQueue[PeerOf(t)][s].thread # t
    PROVE  Owed(t) = got[t] + (IF \/ pc[t] = "wait" /\ call[t].type = "READ" /\ acked[t]
                                  \/ pc[t] = "add" /\ call[t].type = "RELEASE"
                               THEN 1 ELSE 0)
  BY DEF Owed, InState, Unserved

\* A call keeps AtWork: a thread that will release a packet has read it.
LEMMA CallKeeps ==
    ASSUME AtWork, NEW t \in Threads, NEW op \in Ops[mayFail][t], Call(t, op), mayFail' = mayFail
    PROVE  AtWork'
<1>1. EndTypes /\ CallTypes /\ Control /\ Callers
      /\ \A p \in Peers : Awaited(p) /\ OneEach(p) /\ Handled(p) /\ Ring(p) /\ Held(p) /\ Room(p)
  BY DEF AtWork
<1>2. EndTypes' /\ CallTypes'
  BY <1>1, CallTypesKeep
<1>3. /\ pc[t] = "idle" /\ pc' = [pc EXCEPT ![t] = "add"]
      /\ \A u \in Threads : u # t => pc'[u] = pc[u] /\ call'[u] = call[u] /\ got'[u] = got[u]
      /\ call'[t].type = op.type
      /\ got'[t] = IF op.type = "RELEASE" THEN got[t] - 1 ELSE got[t]
      /\ UNCHANGED <<queues, sched, reader, freeing, stream, wire, sem, acked>>
  BY <1>1 DEF Call, CallTypes
<1>4. UNCHANGED <<lQueue, cur, curProc, rQueue>>
  BY <1>3 DEF queues
<1>5. Control' /\ Callers'
  BY <1>1, <1>3 DEF Control, Callers, CallTypes
<1>6. \A p \in Peers : \A s \in Unserved(p) : lQueue[p][s].thread # t
  BY <1>1, <1>3, NoEvent
<1>7. ASSUME NEW p \in Peers PROVE Awaited(p)' /\ OneEach(p)' /\ Ring(p)'
  BY <1>1, <1>3, <1>4, <1>6, QuietEvents
<1>8. ASSUME NEW p \in Peers PROVE Handled(p)'
  BY <1>1, <1>3, <1>4 DEF Handled
<1>9. \A u \in Threads : Owed(u)' = Owed(u)
  <2>1. ASSUME NEW u \in Threads, u # t PROVE Owed(u)' = Owed(u)
    BY <2>1, <1>3, <1>4 DEF Owed, InState
  <2>2. Owed(t) = got[t] + 0
    BY <1>3, <1>6, Ends, OwedWithoutEvent
  <2>3. \A s \in Unserved(PeerOf(t))' : lQueue'[PeerOf(t)][s].thread # t
    BY <1>4, <1>6, Ends DEF Unserved
  <2>4. Owed(t)' = got'[t] + (IF op.type = "RELEASE" THEN 1 ELSE 0)
    BY <1>1, <1>3, <2>3, Ends DEF Owed, InState, Unserved, CallTypes
  <2>5. Owed(t)' = Owed(t)
    BY <1>1, <1>3, <2>2, <2>4 DEF CallTypes
  <2> QED BY <2>1, <2>5
<1>10. ASSUME NEW p \in Peers PROVE Held(p)'
  BY <1>1, <1>3, <1>9, ClaimsKeep
<1>11. ASSUME NEW p \in Peers PROVE Room(p)'
  BY <1>1, <1>3, <1>4, QuietRoom DEF SendingOne
<1> QED BY <1>2, <1>5, <1>7, <1>8, <1>10, <1>11 DEF AtWork

\* A return keeps AtWork: the event was served, the packet that was read is now the thread's.
LEMMA ReturnKeeps ==
    ASSUME AtWork, NEW t \in Threads, Return(t), mayFail' = mayFail
    PROVE  AtWork'
<1>1. EndTypes /\ CallTypes /\ Control /\ Callers
      /\ \A p \in Peers : Awaited(p) /\ OneEach(p) /\ Handled(p) /\ Ring(p) /\ Held(p) /\ Room(p)
  BY DEF AtWork
<1>2. EndTypes' /\ CallTypes'
  BY <1>1, ReturnTypes
<1>3. sem[t] = 1 /\ sem' = [sem EXCEPT ![t] = 0]
  <2>1. sched[PeerOf(t)].at # "closed"
    BY <1>1, Ends DEF Control
  <2>2. sem[t] > 0 /\ sem' = [sem EXCEPT ![t] = @ - 1]
    BY <2>1 DEF Return
  <2>3. sem[t] = 1
    BY <1>1, <2>2 DEF Callers, CallTypes
  <2> QED BY <2>2, <2>3
<1>4. /\ pc[t] = "wait" /\ pc' = [pc EXCEPT ![t] = "idle"]
      /\ \A u \in Threads : u # t => /\ pc'[u] = pc[u] /\ call'[u] = call[u] /\ got'[u] = got[u]
                                      /\ sem'[u] = sem[u] /\ acked'[u] = acked[u]
      /\ got'[t] = IF call[t].type = "READ" /\ acked[t] THEN got[t] + 1 ELSE got[t]
      /\ UNCHANGED <<queues, sched, reader, freeing, stream, wire>>
  BY <1>1, <1>3 DEF Return, CallTypes
<1>5. UNCHANGED <<lQueue, cur, curProc, rQueue>>
  BY <1>4 DEF queues
<1>6. Control' /\ Callers'
  BY <1>1, <1>3, <1>4 DEF Control, Callers, CallTypes
<1>7. \A p \in Peers : \A s \in Unserved(p) : lQueue[p][s].thread # t
  BY <1>1, <1>3, NoEvent
<1>8. ASSUME NEW p \in Peers PROVE Awaited(p)' /\ OneEach(p)' /\ Ring(p)'
  BY <1>1, <1>4, <1>5, <1>7, QuietEvents
<1>9. ASSUME NEW p \in Peers PROVE Handled(p)'
  BY <1>1, <1>4, <1>5 DEF Handled
<1>10. \A u \in Threads : Owed(u)' = Owed(u)
  <2>1. ASSUME NEW u \in Threads, u # t PROVE Owed(u)' = Owed(u)
    BY <2>1, <1>4, <1>5 DEF Owed, InState
  <2>2. Owed(t) = got[t] + (IF call[t].type = "READ" /\ acked[t] THEN 1 ELSE 0)
    BY <1>4, <1>7, Ends, OwedWithoutEvent
  <2>3. \A s \in Unserved(PeerOf(t))' : lQueue'[PeerOf(t)][s].thread # t
    BY <1>5, <1>7, Ends DEF Unserved
  <2>4. Owed(t)' = got'[t] + 0
    BY <1>1, <1>4, <2>3, Ends DEF Owed, InState, Unserved, CallTypes
  <2>5. Owed(t)' = Owed(t)
    BY <1>1, <1>4, <2>2, <2>4 DEF CallTypes
  <2> QED BY <2>1, <2>5
<1>11. ASSUME NEW p \in Peers PROVE Held(p)'
  BY <1>1, <1>4, <1>10, ClaimsKeep
<1>12. ASSUME NEW p \in Peers PROVE Room(p)'
  BY <1>1, <1>4, <1>5, QuietRoom DEF SendingOne
<1> QED BY <1>2, <1>6, <1>8, <1>9, <1>11, <1>12 DEF AtWork

\* Adding an event keeps AtWork: the slot is free and not the one the scheduler looks at.
LEMMA AddKeeps ==
    ASSUME AtWork, ~Recycles, NEW t \in Threads, Add(t), mayFail' = mayFail
    PROVE  AtWork'
<1> DEFINE p == PeerOf(t)
           q == Other(p)
           n == FirstFrom(InState(p, "SERVED"), cur[p])
           f == [state |-> "ALLOCATED", type |-> call[t].type, id |-> call[t].id,
                 size |-> call[t].size, thread |-> t, localServe |-> FALSE, ack |-> FALSE]
<1>1. EndTypes /\ CallTypes /\ Control /\ Callers
      /\ \A r \in Peers : Awaited(r) /\ OneEach(r) /\ Handled(r) /\ Ring(r) /\ Held(r) /\ Room(r)
  BY DEF AtWork
<1>2. p \in Peers /\ q \in Peers /\ q # p /\ \A r \in Peers : r = p \/ r = q
  BY Ends
<1>3. pc[t] = "add" /\ sem[t] = 0
  BY <1>1 DEF Add, Callers
<1>5. \A s \in Unserved(p) : lQueue[p][s].thread # t
  BY <1>1, <1>2, <1>3, NoEvent
<1>6. n \in InState(p, "SERVED") /\ n \in Slots
  <2>1. \E g \in InState(p, "SERVED") : After(g) # curProc[p]
    BY <1>1, <1>2, <1>5, FreeSlotAhead
  <2>2. InState(p, "SERVED") # {} /\ InState(p, "SERVED") \subseteq Slots /\ cur[p] \in Slots
    BY <2>1, <1>1, <1>2 DEF InState, EndTypes
  <2> QED BY <2>2, FirstFromIs
<1>4. /\ lQueue' = [lQueue EXCEPT ![p][n] = f] /\ cur' = [cur EXCEPT ![p] = After(n)]
      /\ pc' = [pc EXCEPT ![t] = "wait"] /\ acked' = [acked EXCEPT ![t] = FALSE]
      /\ UNCHANGED <<curProc, rQueue, call, sched, reader, freeing, stream, wire, sem, got, left>>
      /\ sched[p].at = "send" => n # sched[p].slot
  BY <1>1, <1>2, <1>6 DEF Add, Control
<1>7. f \in Event
  BY <1>1 DEF CallTypes, Request, Event
<1>8. EndTypes' /\ CallTypes'
  BY <1>1, AddTypes
<1>9. /\ lQueue'[p][n] = f /\ \A s \in Slots : s # n => lQueue'[p][s] = lQueue[p][s]
      /\ lQueue'[q] = lQueue[q] /\ cur'[p] = After(n) /\ cur'[q] = cur[q]
  BY <1>1, <1>2, <1>4, <1>6, <1>7, PutTypes DEF EndTypes
<1>10. Ring(p)'
  <2>1. n = FirstFrom(InState(p, "SERVED"), cur[p])
    OBVIOUS
  <2>2. curProc'[p] = curProc[p] /\ lQueue'[p][n].state = "ALLOCATED" /\ lQueue'[p][n].thread = t
    BY <1>4, <1>9
  <2> HIDE DEF n
  <2> QED BY <2>1, <2>2, <1>1, <1>2, <1>5, <1>8, <1>9, RingAfterAdd
<1> HIDE DEF n
<1>11. Control' /\ Callers'
  BY <1>1, <1>3, <1>4 DEF Control, Callers, CallTypes
<1>12. Unserved(p)' = Unserved(p) \cup {n}
  BY <1>6, <1>9 DEF Unserved
<1>13. OneEach(p)'
  <2>1. \A s \in Unserved(p) : s \in Slots /\ s # n /\ lQueue'[p][s] = lQueue[p][s]
    BY <1>6, <1>9 DEF Unserved, InState
  <2> QED BY <2>1, <1>1, <1>2, <1>5, <1>9, <1>12 DEF OneEach
<1>14. Awaited(p)'
  <2>1. ASSUME NEW s \in Slots, s # n, lQueue[p][s].state # "SERVED"
        PROVE  LET e == lQueue[p][s] IN
                 /\ pc'[e.thread] = "wait" /\ sem'[e.thread] = 0 /\ ~acked'[e.thread]
                 /\ call'[e.thread].id = e.id /\ call'[e.thread].type = e.type
    <3>1. lQueue[p][s].thread # t /\ lQueue[p][s].thread \in Threads
      <4>1. s \in Unserved(p)
        BY <2>1 DEF Unserved
      <4>2. lQueue[p][s] \in Event
        BY <1>1, <1>2, EventIs
      <4> QED BY <4>1, <4>2, <1>5 DEF Event
    <3> QED BY <2>1, <3>1, <1>1, <1>2, <1>4 DEF Awaited, CallTypes
  <2>2. pc'[t] = "wait" /\ sem'[t] = 0 /\ ~acked'[t] /\ call'[t] = call[t]
    BY <1>1, <1>3, <1>4 DEF CallTypes
  <2> QED BY <2>1, <2>2, <1>1, <1>2, <1>9 DEF Awaited
<1>15. Handled(p)'
  BY <1>1, <1>2, <1>4, <1>9 DEF Handled, EndTypes, Places
<1>16. \A u \in Threads : Owed(u)' = Owed(u)
  <2>1. ASSUME NEW u \in Threads, PeerOf(u) = q PROVE Owed(u)' = Owed(u)
    BY <2>1, <1>1, <1>2, <1>4, <1>9 DEF Owed, InState, CallTypes
  <2>2. InState(p, "ALLOCATED")' = InState(p, "ALLOCATED") \cup {n} /\ n \notin InState(p, "ALLOCATED")
    BY <1>6, <1>9 DEF InState
  <2>3. ASSUME NEW u \in Threads, PeerOf(u) = p, u # t PROVE Owed(u)' = Owed(u)
    <3>1. pc'[u] = pc[u] /\ call'[u] = call[u] /\ acked'[u] = acked[u] /\ got'[u] = got[u]
      BY <2>3, <1>1, <1>4 DEF CallTypes
    <3>2. (\E s \in InState(p, "ALLOCATED")' : lQueue'[p][s].thread = u /\ lQueue'[p][s].type = "RELEASE")
          <=> (\E s \in InState(p, "ALLOCATED") : lQueue[p][s].thread = u /\ lQueue[p][s].type = "RELEASE")
      BY <2>2, <2>3, <1>9 DEF InState
    <3> QED BY <2>3, <3>1, <3>2 DEF Owed
  <2>4. Owed(t) = got[t] + (IF call[t].type = "RELEASE" THEN 1 ELSE 0)
    BY <1>3, <1>5, OwedWithoutEvent
  <2>5. (\E s \in InState(p, "ALLOCATED")' : lQueue'[p][s].thread = t /\ lQueue'[p][s].type = "RELEASE")
        <=> call[t].type = "RELEASE"
    <3>1. \A s \in InState(p, "ALLOCATED") : lQueue'[p][s].thread # t
      BY <2>2, <1>5, <1>9 DEF InState, Unserved
    <3> QED BY <2>2, <3>1, <1>9
  <2>6. pc'[t] = "wait" /\ ~acked'[t] /\ call'[t] = call[t] /\ got'[t] = got[t]
    BY <1>1, <1>4 DEF CallTypes
  <2>7. Owed(t)' = Owed(t)
    BY <2>4, <2>5, <2>6 DEF Owed
  <2> QED BY <2>1, <2>3, <2>7, <1>2, Ends
<1>17. ASSUME NEW r \in Peers PROVE Held(r)'
  BY <1>1, <1>4, <1>16, ClaimsKeep
<1>18. Awaited(q)' /\ OneEach(q)' /\ Ring(q)' /\ Handled(q)'
  <2>1. \A u \in Threads : PeerOf(u) = q =>
              /\ pc'[u] = pc[u] /\ call'[u] = call[u] /\ sem'[u] = sem[u]
              /\ acked'[u] = acked[u] /\ got'[u] = got[u]
    BY <1>1, <1>2, <1>4 DEF CallTypes
  <2> HIDE DEF q, p
  <2> QED BY <2>1, <1>1, <1>2, <1>4, <1>9, QuietEnd
<1>19. ASSUME NEW r \in Peers, NEW type PROVE SendingOne(r, type)' = SendingOne(r, type)
  <2>1. CASE r = q
    BY <2>1, <1>4, <1>9 DEF SendingOne
  <2>2. CASE r = p
    <3>1. sched[p].slot \in Slots
      BY <1>1, <1>2 DEF EndTypes, Places
    <3> QED BY <3>1, <2>2, <1>4, <1>9 DEF SendingOne
  <2> QED BY <2>1, <2>2, <1>2
<1>20. ASSUME NEW r \in Peers PROVE Room(r)'
  BY <1>1, <1>4, <1>19, Ends, QuietRoom, SMTT(60)
<1> QED BY <1>2, <1>8, <1>10, <1>11, <1>13, <1>14, <1>15, <1>17, <1>18, <1>20 DEF AtWork

-------------------------------------------------------------------------------
(* The steps of the scheduler. *)

\* What serving a local event does to it, to its caller and to the stream.
LEMMA ServeIs ==
    ASSUME EndTypes, CallTypes, NEW p \in Peers, NEW s \in Slots, ServeLocal(p, s),
           lQueue[p][s].type = "RELEASE" => stream[p].blocked # <<>>
    PROVE  \E f \in Event :
              LET e == lQueue[p][s] IN
              /\ lQueue' = [lQueue EXCEPT ![p][s] = f]
              /\ f.thread = e.thread /\ f.type = e.type
              /\ \/ /\ f.state = "PENDING" /\ f.type \in {"WRITE", "RELEASE", "RESET"}
                    /\ ~f.localServe /\ f.id = e.id
                 \/ /\ f.state = "BLOCKED" /\ f.type \in {"WRITE", "READ"}
                    /\ f.localServe /\ f.id = e.id
                 \/ f.state = "SERVED" /\ f.type = "READ" /\ f.localServe
              /\ IF f.state = "SERVED"
                 THEN /\ acked' = [acked EXCEPT ![e.thread] = TRUE]
                      /\ sem' = [sem EXCEPT ![e.thread] = @ + 1]
                 ELSE UNCHANGED <<acked, sem>>
              /\ Len(stream'[p].blocked) = IF f.state = "SERVED" THEN Len(stream[p].blocked) + 1
                                           ELSE IF f.type = "RELEASE" THEN Len(stream[p].blocked) - 1
                                           ELSE Len(stream[p].blocked)
              /\ Len(stream'[p].available) = IF f.state = "SERVED" THEN Len(stream[p].available) - 1
                                             ELSE Len(stream[p].available)
              /\ IF f.state = "PENDING" /\ f.type = "WRITE"
                 THEN /\ stream'[p].remotePackets = stream[p].remotePackets + 1
                      /\ stream[p].remotePackets < MaxPackets
                 ELSE stream'[p].remotePackets = stream[p].remotePackets
              /\ \A q \in Peers : q # p => stream'[q] = stream[q]
<1> DEFINE e == lQueue[p][s]
<1>1. e \in Event /\ stream[p] \in Stream /\ stream \in [Peers -> Stream]
  BY EventIs DEF EndTypes
<1>2. CASE e.type = "WRITE" /\ HasRoom(p, e.size)
  <2> DEFINE f == Pend(e)
  <2>1. f \in Event
    BY <1>1, EventIs
  <2>2. f.thread = e.thread /\ f.type = e.type /\ f.state = "PENDING" /\ ~f.localServe /\ f.id = e.id
    BY <1>1 DEF Pend, Event
  <2>3. /\ lQueue' = [lQueue EXCEPT ![p][s] = f] /\ UNCHANGED <<acked, sem>>
        /\ stream' = [stream EXCEPT ![p].remoteFill = @ + e.size, ![p].remotePackets = @ + 1]
    BY <1>2 DEF ServeLocal
  <2>4. /\ stream'[p].blocked = stream[p].blocked /\ stream'[p].available = stream[p].available
        /\ stream'[p].remotePackets = stream[p].remotePackets + 1
        /\ \A q \in Peers : q # p => stream'[q] = stream[q]
    BY <1>1, <2>3 DEF Stream
  <2>5. stream[p].remotePackets < MaxPackets
    BY <1>2 DEF HasRoom
  <2>6. lQueue' = [lQueue EXCEPT ![p][s] = f] /\ UNCHANGED <<acked, sem>>
    BY <2>3
  <2>7. f.type = "WRITE"
    BY <1>2, <2>2
  <2> HIDE DEF f
  <2> QED BY <2>1, <2>2, <2>4, <2>5, <2>6, <2>7
<1>3. CASE e.type = "WRITE" /\ ~HasRoom(p, e.size)
  <2> DEFINE f == [Block(e) EXCEPT !.ack = TRUE]
  <2>1. f \in Event
    BY <1>1, EventIs
  <2>2. f.thread = e.thread /\ f.type = e.type /\ f.state = "BLOCKED" /\ f.localServe /\ f.id = e.id
    BY <1>1 DEF Block, Event
  <2>3. lQueue' = [lQueue EXCEPT ![p][s] = f] /\ UNCHANGED <<stream, acked, sem>>
    BY <1>3 DEF ServeLocal
  <2> HIDE DEF f
  <2> QED BY <1>3, <2>1, <2>2, <2>3
<1>4. CASE e.type = "READ" /\ stream[p].available # <<>>
  <2> DEFINE g == [e EXCEPT !.ack = TRUE, !.localServe = TRUE]
             f == Served(g)
  <2>1. g \in Event /\ g.thread = e.thread /\ g.type = e.type /\ g.localServe /\ g.ack = TRUE
    BY <1>1, EventIs DEF Event
  <2>2. GetPacket(p) /\ PostAndMarkServed(p, s, g)
    BY <1>4 DEF ServeLocal
  <2> HIDE DEF g
  <2>3. f \in Event
    BY <1>1, <2>1, EventIs
  <2>4. f.thread = e.thread /\ f.type = e.type /\ f.state = "SERVED" /\ f.localServe
    BY <2>1 DEF Served, Event
  <2>5. /\ lQueue' = [lQueue EXCEPT ![p][s] = f]
        /\ acked' = [acked EXCEPT ![e.thread] = TRUE]
        /\ sem' = [sem EXCEPT ![e.thread] = @ + 1]
    BY <2>1, <2>2 DEF PostAndMarkServed
  <2>6. /\ stream'[p].available = Tail(stream[p].available)
        /\ stream'[p].blocked = Append(stream[p].blocked, Head(stream[p].available))
        /\ stream'[p].remotePackets = stream[p].remotePackets
        /\ \A q \in Peers : q # p => stream'[q] = stream[q]
    BY <1>1, <2>2 DEF GetPacket, Stream
  <2>7. /\ Len(stream'[p].available) = Len(stream[p].available) - 1
        /\ Len(stream'[p].blocked) = Len(stream[p].blocked) + 1
    <3>1. stream[p].available \in Seq(Packet) /\ stream[p].blocked \in Seq(Packet)
      BY <1>1 DEF Stream
    <3> QED BY <3>1, <1>4, <2>6, HeadIs, AppendProperties
  <2> HIDE DEF f
  <2> QED BY <1>4, <2>3, <2>4, <2>5, <2>6, <2>7
<1>5. CASE e.type = "READ" /\ stream[p].available = <<>>
  <2> DEFINE f == Block(e)
  <2>1. f \in Event
    BY <1>1, EventIs
  <2>2. f.thread = e.thread /\ f.type = e.type /\ f.state = "BLOCKED" /\ f.localServe /\ f.id = e.id
    BY <1>1 DEF Block, Event
  <2>3. lQueue' = [lQueue EXCEPT ![p][s] = f] /\ UNCHANGED <<stream, acked, sem>>
    BY <1>5 DEF ServeLocal
  <2> HIDE DEF f
  <2> QED BY <1>5, <2>1, <2>2, <2>3
<1>6. CASE e.type = "RELEASE"
  <2> DEFINE n == ReleasedSize(p)
             f == [Pend(e) EXCEPT !.size = n]
  <2>1. stream[p].blocked \in Seq(Packet) /\ stream[p].blocked # <<>>
    BY <1>1, <1>6 DEF Stream
  <2>2. n \in Nat
    <3>1. Head(stream[p].blocked) \in Packet
      BY <2>1, HeadIs
    <3> QED BY <3>1, <2>1 DEF Packet, ReleasedSize
  <2>3. f \in Event
    BY <1>1, <2>2, EventIs
  <2>4. f.thread = e.thread /\ f.type = e.type /\ f.state = "PENDING" /\ ~f.localServe /\ f.id = e.id
    BY <1>1 DEF Pend, Event
  <2>5. lQueue' = [lQueue EXCEPT ![p][s] = f] /\ ReleasePacket(p) /\ UNCHANGED <<acked, sem>>
    BY <1>6 DEF ServeLocal
  <2>6. /\ stream'[p].blocked = Tail(stream[p].blocked) /\ stream'[p].available = stream[p].available
        /\ stream'[p].remotePackets = stream[p].remotePackets
        /\ \A q \in Peers : q # p => stream'[q] = stream[q]
    BY <1>1, <2>1, <2>5 DEF ReleasePacket, Stream
  <2>7. Len(stream'[p].blocked) = Len(stream[p].blocked) - 1
    BY <2>1, <2>6, HeadIs
  <2> HIDE DEF f
  <2> QED BY <1>6, <2>3, <2>4, <2>5, <2>6, <2>7
<1>7. CASE e.type = "RESET"
  <2> DEFINE f == Pend(e)
  <2>1. f \in Event
    BY <1>1, EventIs
  <2>2. f.thread = e.thread /\ f.type = e.type /\ f.state = "PENDING" /\ ~f.localServe /\ f.id = e.id
    BY <1>1 DEF Pend, Event
  <2>3. lQueue' = [lQueue EXCEPT ![p][s] = f] /\ UNCHANGED <<stream, acked, sem>>
    BY <1>7 DEF ServeLocal
  <2> HIDE DEF f
  <2> QED BY <1>7, <2>1, <2>2, <2>3
<1> QED BY <1>2, <1>3, <1>4, <1>5, <1>6, <1>7 DEF ServeLocal

\* An event that is served, woken or answered stays its caller's, until it is served.
LEMMA SlotMoves ==
    ASSUME NEW p \in Peers, EndTypes, CallTypes, Awaited(p), OneEach(p),
           NEW s \in Unserved(p), NEW f \in Event, lQueue' = [lQueue EXCEPT ![p][s] = f],
           f.thread = lQueue[p][s].thread, f.type = lQueue[p][s].type,
           f.state # "SERVED" => /\ f.id = lQueue[p][s].id
                                 /\ acked'[f.thread] = acked[f.thread] /\ sem'[f.thread] = sem[f.thread],
           f.state = "PENDING" => f.type \in {"WRITE", "RELEASE", "RESET"} /\ ~f.localServe,
           f.state \in {"BLOCKED", "READY"} => f.type \in {"WRITE", "READ"},
           f.state = "BLOCKED" => f.localServe,
           pc' = pc, call' = call,
           \A u \in Threads : u # f.thread => acked'[u] = acked[u] /\ sem'[u] = sem[u]
    PROVE  Awaited(p)' /\ OneEach(p)'
<1>1. s \in Slots /\ lQueue[p][s].state # "SERVED"
  BY DEF Unserved
<1>7. lQueue \in [Peers -> [Slots -> Event]] /\ lQueue' = [lQueue EXCEPT ![p][s] = f]
  BY DEF EndTypes
<1>2. lQueue'[p][s] = f /\ \A r \in Slots : r # s => lQueue'[p][r] = lQueue[p][r]
  BY <1>1, <1>7
<1>3. Unserved(p)' \subseteq Unserved(p) /\ Unserved(p) \subseteq Slots
  BY <1>1, <1>2 DEF Unserved
<1>4. \A r \in Slots : lQueue'[p][r].thread = lQueue[p][r].thread
  BY <1>2
<1>5. OneEach(p)'
  BY <1>3, <1>4 DEF OneEach
<1>6. ASSUME NEW r \in Slots
      PROVE  LET e == lQueue'[p][r] IN
        /\ PeerOf(e.thread) = p
        /\ e.state # "SERVED" =>
              /\ pc[e.thread] = "wait" /\ sem'[e.thread] = 0 /\ ~acked'[e.thread]
              /\ call[e.thread].id = e.id /\ call[e.thread].type = e.type
        /\ e.state = "PENDING" => e.type \in {"WRITE", "RELEASE", "RESET"} /\ ~e.localServe
        /\ e.state \in {"BLOCKED", "READY"} => e.type \in {"WRITE", "READ"}
        /\ e.state = "BLOCKED" => e.localServe
  <2>1. CASE r = s
    BY <2>1, <1>1, <1>2 DEF Awaited
  <2>2. CASE r # s
    <3>1. lQueue'[p][r] = lQueue[p][r]
      BY <2>2, <1>2
    <3>3. lQueue[p][r] \in Event /\ lQueue[p][r].thread \in Threads
      BY <1>7 DEF Event
    <3>2. lQueue[p][r].state # "SERVED" => lQueue[p][r].thread # f.thread
      BY <2>2, <1>1 DEF OneEach, Unserved
    <3> QED BY <3>1, <3>2, <3>3 DEF Awaited
  <2> QED BY <2>1, <2>2
<1> QED BY <1>5, <1>6 DEF Awaited

\* What a thread owes depends on its own events only.
LEMMA OwedElsewhere ==
    ASSUME NEW p \in Peers, NEW s \in Slots, EndTypes, NEW f \in Event,
           lQueue' = [lQueue EXCEPT ![p][s] = f], f.thread = lQueue[p][s].thread,
           pc' = pc, call' = call, got' = got,
           NEW u \in Threads, PeerOf(u) = p, u # f.thread, acked'[u] = acked[u]
    PROVE  Owed(u)' = Owed(u)
<1>1. lQueue'[p][s] = f /\ \A r \in Slots : r # s => lQueue'[p][r] = lQueue[p][r]
  BY DEF EndTypes
<1>2. \A r \in Slots : (/\ lQueue'[p][r].state = "ALLOCATED" /\ lQueue'[p][r].thread = u
                        /\ lQueue'[p][r].type = "RELEASE")
                   <=> (/\ lQueue[p][r].state = "ALLOCATED" /\ lQueue[p][r].thread = u
                        /\ lQueue[p][r].type = "RELEASE")
  BY <1>1
<1>3. (\E r \in InState(p, "ALLOCATED")' : lQueue'[p][r].thread = u /\ lQueue'[p][r].type = "RELEASE")
      <=> (\E r \in InState(p, "ALLOCATED") : lQueue[p][r].thread = u /\ lQueue[p][r].type = "RELEASE")
  BY <1>2 DEF InState
<1> QED BY <1>3 DEF Owed

\* Serving a local request keeps AtWork: it is sent, blocked or, a read, answered.
LEMMA SchedLocalKeeps ==
    ASSUME AtWork, NEW p \in Peers, SchedLocal(p), mayFail' = mayFail
    PROVE  AtWork'
<1>1. EndTypes /\ CallTypes /\ Control /\ Callers
      /\ \A r \in Peers : Awaited(r) /\ OneEach(r) /\ Handled(r) /\ Ring(r) /\ Held(r) /\ Room(r)
  BY DEF AtWork
<1>2. PICK q \in Peers : q = Other(p) /\ q # p /\ Other(q) = p /\ \A r \in Peers : r = p \/ r = q
  BY Ends
<1>31. PICK s \in Slots : s = NextSlot(p) /\ lQueue[p][s].state \in {"READY", "ALLOCATED"}
  BY <1>1, NextIs, RingStands DEF SchedLocal, InState
<1> DEFINE e == lQueue[p][s]
<1>3. /\ sched[p].at = "get" /\ TakeNext(p) /\ ServeLocal(p, s)
      /\ sched' = [sched EXCEPT ![p].at = "send", ![p].slot = s]
      /\ UNCHANGED <<cur, reader, freeing, wire, pc, call, got, left>>
  BY <1>31 DEF SchedLocal, Running, ServeLocal, TakeNext
<1>4. e.state \in {"READY", "ALLOCATED"} /\ s \in Unserved(p) /\ e \in Event
  BY <1>1, <1>31, EventIs DEF Unserved
<1>5. PICK t \in Threads :
         /\ t = e.thread /\ PeerOf(t) = p /\ pc[t] = "wait" /\ sem[t] = 0 /\ ~acked[t]
         /\ call[t].type = e.type /\ call[t].id = e.id
  <2>1. e.thread \in Threads
    BY <1>4 DEF Event
  <2> QED BY <2>1, <1>1, <1>4 DEF Awaited
<1>6. e.type = "RELEASE" => e.state = "ALLOCATED"
  BY <1>1, <1>4 DEF Awaited
<1>7. \A r \in Unserved(p) : r # s => lQueue[p][r].thread # t
  BY <1>1, <1>4, <1>5 DEF OneEach
<1>8. Owed(t) = got[t] + (IF e.type = "RELEASE" THEN 1 ELSE 0)
  <2>1. (\E r \in InState(p, "ALLOCATED") : lQueue[p][r].thread = t /\ lQueue[p][r].type = "RELEASE")
        <=> e.type = "RELEASE"
    BY <1>4, <1>5, <1>6, <1>7 DEF InState, Unserved
  <2> QED BY <2>1, <1>5 DEF Owed
<1>9. e.type = "RELEASE" => stream[p].blocked # <<>>
  <2>1. e.type = "RELEASE" => Owed(t) > 0
    BY <1>1, <1>5, <1>8 DEF CallTypes
  <2> QED BY <2>1, <1>1, <1>5, ClaimsFound
<1>10. EndTypes' /\ CallTypes'
  BY <1>1, SchedLocalTypes, RingStands
<1>11. rQueue'[p] = rQueue[p] /\ rQueue'[q] = rQueue[q] /\ curProc'[q] = curProc[q]
  BY <1>1, <1>2, SMTT(60) DEF SchedLocal, TakeNext, EndTypes
<1>12. PICK f \in Event :
              /\ lQueue' = [lQueue EXCEPT ![p][s] = f]
              /\ f.thread = t /\ f.type = e.type
              /\ \/ /\ f.state = "PENDING" /\ f.type \in {"WRITE", "RELEASE", "RESET"}
                    /\ ~f.localServe /\ f.id = e.id
                 \/ /\ f.state = "BLOCKED" /\ f.type \in {"WRITE", "READ"}
                    /\ f.localServe /\ f.id = e.id
                 \/ f.state = "SERVED" /\ f.type = "READ" /\ f.localServe
              /\ IF f.state = "SERVED"
                 THEN acked' = [acked EXCEPT ![t] = TRUE] /\ sem' = [sem EXCEPT ![t] = @ + 1]
                 ELSE UNCHANGED <<acked, sem>>
              /\ Len(stream'[p].blocked) = IF f.state = "SERVED" THEN Len(stream[p].blocked) + 1
                                           ELSE IF f.type = "RELEASE" THEN Len(stream[p].blocked) - 1
                                           ELSE Len(stream[p].blocked)
              /\ Len(stream'[p].available) = IF f.state = "SERVED" THEN Len(stream[p].available) - 1
                                             ELSE Len(stream[p].available)
              /\ IF f.state = "PENDING" /\ f.type = "WRITE"
                 THEN /\ stream'[p].remotePackets = stream[p].remotePackets + 1
                      /\ stream[p].remotePackets < MaxPackets
                 ELSE stream'[p].remotePackets = stream[p].remotePackets
              /\ \A r \in Peers : r # p => stream'[r] = stream[r]
  BY <1>1, <1>3, <1>4, <1>5, <1>9, ServeIs
<1>13. lQueue' = [lQueue EXCEPT ![p][s] = f] /\ f.thread = t /\ f.type = e.type
  BY <1>12
<1>28. /\ f.state \in {"PENDING", "BLOCKED", "SERVED"}
       /\ f.state = "SERVED" => f.type = "READ" /\ f.localServe
       /\ f.state = "BLOCKED" => f.type \in {"WRITE", "READ"} /\ f.localServe
       /\ f.state = "PENDING" => f.type \in {"WRITE", "RELEASE", "RESET"} /\ ~f.localServe
       /\ f.state # "SERVED" => f.id = e.id
  BY <1>12
<1>32. IF f.state = "SERVED"
       THEN acked' = [acked EXCEPT ![t] = TRUE] /\ sem' = [sem EXCEPT ![t] = @ + 1]
       ELSE UNCHANGED <<acked, sem>>
  BY <1>12
<1>33. /\ Len(stream'[p].blocked) = IF f.state = "SERVED" THEN Len(stream[p].blocked) + 1
                                    ELSE IF f.type = "RELEASE" THEN Len(stream[p].blocked) - 1
                                    ELSE Len(stream[p].blocked)
       /\ Len(stream'[p].available) = IF f.state = "SERVED" THEN Len(stream[p].available) - 1
                                      ELSE Len(stream[p].available)
  BY <1>12
<1>34. IF f.state = "PENDING" /\ f.type = "WRITE"
       THEN /\ stream'[p].remotePackets = stream[p].remotePackets + 1
            /\ stream[p].remotePackets < MaxPackets
       ELSE stream'[p].remotePackets = stream[p].remotePackets
  BY <1>12
<1>35. stream'[q] = stream[q]
  BY <1>2, <1>12
<1>36. EndTypes /\ CallTypes /\ Control /\ Callers
  BY <1>1
<1>37. Awaited(p) /\ OneEach(p) /\ Handled(p) /\ Ring(p) /\ Held(p) /\ Room(p)
  BY <1>1
<1>38. Awaited(q) /\ OneEach(q) /\ Handled(q) /\ Ring(q) /\ Held(q) /\ Room(q) /\ q \in Peers
  BY <1>1, <1>2
<1>39. lQueue'[p][s] = f /\ lQueue'[q] = lQueue[q]
       /\ \A r \in Slots : r # s => lQueue'[p][r] = lQueue[p][r]
  BY <1>2, <1>13, <1>36, PutTypes, ZenonT(60)
<1>14. Ring(p)'
  <2>1. \A r \in Slots : /\ lQueue'[p][r].thread = lQueue[p][r].thread
                         /\ r # s => lQueue'[p][r].state = lQueue[p][r].state
    BY <1>5, <1>13, <1>39
  <2>2. cur'[p] = cur[p] /\ lQueue'[p][s].state # "ALLOCATED"
    BY <1>3, <1>28, <1>39
  <2>3. CASE NextEvent(p) = "local"
    <3>1. s \in InState(p, "ALLOCATED")
          /\ \A r \in InState(p, "ALLOCATED") : Gap(curProc[p], s) <= Gap(curProc[p], r)
      BY <2>3, <1>36, <1>37, NextIs, RingStands, <1>31
    <3>2. curProc'[p] = After(s)
      BY <2>3, <1>36, <1>3, <1>31 DEF TakeNext, EndTypes
    <3>3. EndTypes'
      BY <1>10
    <3> QED BY <2>1, <2>2, <3>1, <3>2, <3>3, <1>36, <1>37, RingAfterTake
  <2>4. CASE NextEvent(p) = "ready"
    <3>1. e.state = "READY"
      BY <2>4, <1>36, <1>37, NextIs, RingStands, <1>31 DEF InState
    <3>2. curProc'[p] = curProc[p]
      BY <2>4, <1>36, <1>37, <1>3, RingStands DEF TakeNext, EndTypes
    <3>3. \A r \in Slots :
              /\ lQueue'[p][r].thread = lQueue[p][r].thread
              /\ lQueue'[p][r].state = "ALLOCATED" <=> lQueue[p][r].state = "ALLOCATED"
              /\ lQueue[p][r].state = "SERVED" => lQueue'[p][r].state = "SERVED"
      BY <2>1, <2>2, <3>1
    <3> QED BY <2>2, <3>2, <3>3, <1>37, RingKeeps
  <2> QED BY <2>3, <2>4 DEF SchedLocal
<1>29. /\ acked'[t] <=> f.state = "SERVED"
       /\ sem'[t] = IF f.state = "SERVED" THEN 1 ELSE 0
       /\ \A u \in Threads : u # t => acked'[u] = acked[u] /\ sem'[u] = sem[u]
  <2>1. acked \in [Threads -> BOOLEAN] /\ sem \in [Threads -> Nat]
    BY <1>36 DEF CallTypes
  <2> QED BY <2>1, <1>32, <1>5
<1>15. Control'
  BY <1>36, <1>3 DEF Control, EndTypes, Places
<1>16. Callers'
  <2> SUFFICES ASSUME NEW u \in Threads PROVE sem'[u] <= 1 /\ (pc'[u] # "wait" => sem'[u] = 0)
    BY DEF Callers
  <2>1. CASE u = t
    BY <2>1, <1>3, <1>5, <1>29
  <2>2. CASE u # t
    BY <2>2, <1>36, <1>3, <1>29 DEF Callers
  <2> QED BY <2>1, <2>2
<1>17. s \in Slots /\ pc' = pc /\ call' = call /\ got' = got
  BY <1>3, <1>31
<1>18. Awaited(p)' /\ OneEach(p)'
  <2>1. f.state # "SERVED" => acked'[f.thread] = acked[f.thread] /\ sem'[f.thread] = sem[f.thread]
    BY <1>32
  <2>2. \A u \in Threads : u # f.thread => acked'[u] = acked[u] /\ sem'[u] = sem[u]
    BY <1>13, <1>29
  <2>3. f.thread = lQueue[p][s].thread /\ f.type = lQueue[p][s].type
    BY <1>5, <1>13
  <2> QED BY <2>1, <2>2, <2>3, <1>4, <1>13, <1>17, <1>28, <1>36, <1>37, SlotMoves
<1>20. sched'[p].at = "send" /\ sched'[p].slot = s /\ sched'[q] = sched[q]
  BY <1>36, <1>2, <1>3 DEF EndTypes, Places
<1>21. Handled(p)'
  BY <1>28, <1>39, <1>20 DEF Handled
<1>22. Held(p)'
  <2>1. ASSUME NEW u \in Threads, PeerOf(u) = p, u # t PROVE Owed(u)' = Owed(u)
    BY <2>1, <1>5, <1>13, <1>17, <1>29, <1>36, OwedElsewhere, ZenonT(60)
  <2>2. Owed(t)' = got[t] + (IF f.state = "SERVED" THEN 1 ELSE 0)
    <3>1. \A r \in Slots : lQueue'[p][r].state = "ALLOCATED" => lQueue'[p][r].thread # t
      BY <1>7, <1>28, <1>39 DEF Unserved
    <3>2. ~ \E r \in InState(p, "ALLOCATED")' :
               lQueue'[p][r].thread = t /\ lQueue'[p][r].type = "RELEASE"
      BY <3>1 DEF InState
    <3>3. pc'[t] = "wait" /\ call'[t] = call[t] /\ got'[t] = got[t]
      BY <1>17, <1>5
    <3>4. call[t].type = "READ" /\ acked'[t] <=> f.state = "SERVED"
      BY <1>5, <1>13, <1>28, <1>29
    <3> QED BY <3>2, <3>3, <3>4, <1>5 DEF Owed
  <2>3. got[t] \in Nat
    BY <1>36, <1>5 DEF CallTypes
  <2>4. CASE f.state = "SERVED"
    <3>1. Owed(t)' = Owed(t) + 1
      BY <2>2, <2>3, <2>4, <1>8, <1>13, <1>28
    <3>2. Len(stream'[p].blocked) = Len(stream[p].blocked) + 1
      BY <2>4, <1>33
    <3> QED BY <2>1, <3>1, <3>2, <1>5, <1>36, <1>37, ClaimMore
  <2>5. CASE f.state # "SERVED" /\ f.type = "RELEASE"
    <3>1. Owed(t)' = Owed(t) - 1 /\ Owed(t) > 0
      BY <2>2, <2>3, <2>5, <1>8, <1>13
    <3>2. Len(stream'[p].blocked) = Len(stream[p].blocked) - 1
      BY <2>5, <1>33
    <3> QED BY <2>1, <3>1, <3>2, <1>5, <1>36, <1>37, ClaimLess
  <2>6. CASE f.state # "SERVED" /\ f.type # "RELEASE"
    <3>1. Owed(t)' = Owed(t)
      BY <2>2, <2>3, <2>6, <1>8, <1>13
    <3>2. \A u \in Threads : PeerOf(u) = p => Owed(u)' = Owed(u)
      BY <2>1, <3>1
    <3>3. Len(stream'[p].blocked) = Len(stream[p].blocked)
      BY <2>6, <1>33
    <3> QED BY <3>2, <3>3, <1>37, ClaimsKeep
  <2> QED BY <2>4, <2>5, <2>6
<1>23. Awaited(q)' /\ OneEach(q)' /\ Ring(q)' /\ Handled(q)' /\ Held(q)'
  <2>1. \A u \in Threads : PeerOf(u) = q => /\ pc'[u] = pc[u] /\ call'[u] = call[u] /\ sem'[u] = sem[u]
                                            /\ acked'[u] = acked[u] /\ got'[u] = got[u]
    BY <1>2, <1>5, <1>17, <1>29
  <2>2. stream'[q].blocked = stream[q].blocked /\ cur'[q] = cur[q]
    BY <1>3, <1>35
  <2> QED BY <2>1, <2>2, <1>11, <1>20, <1>36, <1>38, <1>39, QuietEnd
<1>24. /\ \A type : SendingOne(q, type)' = SendingOne(q, type)
       /\ SendingOne(p, "WRITE")' = IF f.state = "PENDING" /\ f.type = "WRITE" THEN 1 ELSE 0
       /\ SendingOne(p, "RELEASE")' = IF f.type = "RELEASE" THEN 1 ELSE 0
       /\ SendingOne(p, "WRITE") = 0 /\ SendingOne(p, "RELEASE") = 0
  <2>1. \A type : SendingOne(q, type)' = SendingOne(q, type)
    BY <1>20, <1>39 DEF SendingOne
  <2>2. SendingOne(p, "WRITE") = 0 /\ SendingOne(p, "RELEASE") = 0
    BY <1>3 DEF SendingOne
  <2>3. \A type : SendingOne(p, type)' = IF ~f.localServe /\ f.type = type THEN 1 ELSE 0
    BY <1>20, <1>39 DEF SendingOne
  <2> QED BY <2>1, <2>2, <2>3, <1>28
<1>25. \A r \in Peers : AddingOne(r, "RELEASE")' = AddingOne(r, "RELEASE")
  BY <1>3 DEF AddingOne
<1>40. wire' = wire
  BY <1>3
<1>26. /\ CountOf(wire[p], "WRITE") \in Nat /\ CountOf(wire[p], "RELEASE") \in Nat
       /\ CountOf(rQueue[p], "RELEASE") \in Nat /\ AddingOne(p, "RELEASE") \in {0, 1}
       /\ Len(stream[p].available) \in Nat /\ Len(stream[p].blocked) \in Nat
       /\ stream[p].remotePackets \in Int
  BY <1>36, CountsAre
<1>41. /\ CountOf(wire[q], "WRITE") \in Nat /\ CountOf(wire[q], "RELEASE") \in Nat
       /\ CountOf(rQueue[q], "RELEASE") \in Nat /\ AddingOne(q, "RELEASE") \in {0, 1}
       /\ SendingOne(q, "WRITE") \in {0, 1} /\ SendingOne(q, "RELEASE") \in {0, 1}
       /\ Len(stream[q].available) \in Nat /\ Len(stream[q].blocked) \in Nat
       /\ stream[q].remotePackets \in Int
  BY <1>36, <1>38, CountsAre
<1>27. Room(p)'
  <2> DEFINE n == IF f.state = "PENDING" /\ f.type = "WRITE" THEN 1 ELSE 0
             w == CountOf(wire[p], "WRITE")
             a == Len(stream[q].available)
             b == Len(stream[q].blocked)
  <2>1. PacketsOut(p)' = n + w + a + b
    BY <1>2, <1>24, <1>35, <1>40 DEF PacketsOut
  <2>2. PacketsOut(p) = 0 + w + a + b
    BY <1>2, <1>24 DEF PacketsOut
  <2>3. Returning(p)' = Returning(p) /\ Returning(p) \in Nat
    BY <1>2, <1>11, <1>24, <1>25, <1>26, <1>40, <1>41 DEF Returning
  <2>4. stream'[p].remotePackets = stream[p].remotePackets + n
        /\ (n = 1 => stream[p].remotePackets < MaxPackets)
    BY <1>26, <1>34
  <2>5. PacketsOut(p) + Returning(p) <= stream[p].remotePackets /\ stream[p].remotePackets <= MaxPackets
    BY <1>37 DEF Room
  <2>6. n \in {0, 1} /\ MaxPackets \in Nat
    BY DispatcherAssumption
  <2>7. w \in Nat /\ a \in Nat /\ b \in Nat /\ stream[p].remotePackets \in Int
    BY <1>26, <1>41
  <2> HIDE DEF n, w, a, b
  <2>8. PacketsOut(p)' = PacketsOut(p) + n /\ PacketsOut(p) \in Nat
    BY <2>1, <2>2, <2>6, <2>7
  <2>9. /\ PacketsOut(p)' + Returning(p)' <= stream'[p].remotePackets
        /\ stream'[p].remotePackets <= MaxPackets
    BY <2>3, <2>4, <2>5, <2>6, <2>7, <2>8
  <2> QED BY <2>9 DEF Room
<1>30. Room(q)'
  <2> DEFINE n == IF f.type = "RELEASE" THEN 1 ELSE 0
             x == SendingOne(q, "WRITE")
             w == CountOf(wire[q], "WRITE")
             a == Len(stream[p].available)
             b == Len(stream[p].blocked)
             c == Len(stream'[p].available)
             d == Len(stream'[p].blocked)
             y == CountOf(wire[p], "RELEASE")
             z == AddingOne(q, "RELEASE")
             u == CountOf(rQueue[q], "RELEASE")
  <2>1. \/ d = b + 1 /\ c = a - 1 /\ n = 0
        \/ d = b - 1 /\ c = a /\ n = 1
        \/ d = b /\ c = a /\ n = 0
    <3>1. CASE f.state = "SERVED"
      BY <3>1, <1>28, <1>33
    <3>2. CASE f.state # "SERVED" /\ f.type = "RELEASE"
      BY <3>2, <1>33
    <3>3. CASE f.state # "SERVED" /\ f.type # "RELEASE"
      BY <3>3, <1>33
    <3> QED BY <3>1, <3>2, <3>3
  <2>2. /\ PacketsOut(q)' = x + w + c + d
        /\ PacketsOut(q) = x + w + a + b
    BY <1>2, <1>24, <1>40 DEF PacketsOut
  <2>3. /\ Returning(q)' = n + y + z + u
        /\ Returning(q) = 0 + y + z + u
    BY <1>2, <1>11, <1>24, <1>25, <1>38, <1>40 DEF Returning
  <2>4. /\ x \in {0, 1} /\ w \in Nat /\ a \in Nat /\ b \in Nat
        /\ y \in Nat /\ z \in {0, 1} /\ u \in Nat
    BY <1>26, <1>41
  <2>5. PacketsOut(q) + Returning(q) <= stream[q].remotePackets /\ stream[q].remotePackets <= MaxPackets
    BY <1>38 DEF Room
  <2> HIDE DEF n, x, w, a, b, c, d, y, z, u
  <2>6. PacketsOut(q)' + Returning(q)' = PacketsOut(q) + Returning(q)
    BY <2>1, <2>2, <2>3, <2>4
  <2> QED BY <2>5, <2>6, <1>35 DEF Room
<1>42. Control' /\ Callers' /\ EndTypes' /\ CallTypes'
  BY <1>10, <1>15, <1>16
<1>43. Awaited(p)' /\ OneEach(p)' /\ Handled(p)' /\ Ring(p)' /\ Held(p)' /\ Room(p)'
  BY <1>14, <1>18, <1>21, <1>22, <1>27
<1>44. Awaited(q)' /\ OneEach(q)' /\ Handled(q)' /\ Ring(q)' /\ Held(q)' /\ Room(q)'
  BY <1>23, <1>30
<1> QED BY <1>2, <1>42, <1>43, <1>44 DEF AtWork

\* An event the scheduler has served before is woken, or answered.
LEMMA EventMoves ==
    ASSUME NEW p \in Peers, EndTypes, CallTypes, Awaited(p), OneEach(p), Ring(p), Held(p),
           NEW s \in Unserved(p), lQueue[p][s].state # "ALLOCATED",
           NEW f \in Event, lQueue' = [lQueue EXCEPT ![p][s] = f],
           f.thread = lQueue[p][s].thread, f.type = lQueue[p][s].type,
           \/ /\ f.state = "READY" /\ f.id = lQueue[p][s].id /\ f.type \in {"WRITE", "READ"}
              /\ acked'[f.thread] = acked[f.thread] /\ sem'[f.thread] = sem[f.thread]
           \/ f.state = "SERVED" /\ f.type # "READ",
           pc' = pc, call' = call, got' = got,
           \A u \in Threads : u # f.thread => acked'[u] = acked[u] /\ sem'[u] = sem[u],
           cur'[p] = cur[p], curProc'[p] = curProc[p],
           Len(stream'[p].blocked) = Len(stream[p].blocked)
    PROVE  Awaited(p)' /\ OneEach(p)' /\ Ring(p)' /\ Held(p)'
<1>1. s \in Slots /\ lQueue[p][s].state # "SERVED"
  BY DEF Unserved
<1>2. lQueue'[p][s] = f /\ \A r \in Slots : r # s => lQueue'[p][r] = lQueue[p][r]
  BY <1>1, PutTypes, ZenonT(60)
<1>3. Awaited(p)' /\ OneEach(p)'
  BY SlotMoves
<1>4. Ring(p)'
  <2>1. \A r \in Slots :
           /\ lQueue'[p][r].thread = lQueue[p][r].thread
           /\ lQueue'[p][r].state = "ALLOCATED" <=> lQueue[p][r].state = "ALLOCATED"
           /\ lQueue[p][r].state = "SERVED" => lQueue'[p][r].state = "SERVED"
    BY <1>1, <1>2
  <2> QED BY <2>1, RingKeeps
<1>5. ASSUME NEW u \in Threads, PeerOf(u) = p PROVE Owed(u)' = Owed(u)
  <2>1. CASE u # f.thread
    BY <2>1, <1>1, <1>5, OwedElsewhere
  <2>2. CASE u = f.thread
    <3>1. call[u].type = f.type
      BY <2>2, <1>1 DEF Awaited
    <3>2. (call[u].type = "READ" /\ acked'[u]) <=> (call[u].type = "READ" /\ acked[u])
      BY <2>2, <3>1
    <3>3. \A r \in Slots : lQueue'[p][r].state = "ALLOCATED" => lQueue'[p][r] = lQueue[p][r]
      BY <1>2
    <3>4. \A r \in Slots : lQueue[p][r].state = "ALLOCATED" => lQueue'[p][r] = lQueue[p][r]
      BY <1>2
    <3>5. (\E r \in InState(p, "ALLOCATED")' : lQueue'[p][r].thread = u /\ lQueue'[p][r].type = "RELEASE")
          <=> (\E r \in InState(p, "ALLOCATED") : lQueue[p][r].thread = u /\ lQueue[p][r].type = "RELEASE")
      BY <3>3, <3>4 DEF InState
    <3> QED BY <3>2, <3>5, <1>5 DEF Owed
  <2> QED BY <2>1, <2>2
<1>6. Held(p)'
  BY <1>5, ClaimsKeep
<1> QED BY <1>3, <1>4, <1>6

\* Taking an event of the peer.
LEMMA TakeRemote ==
    ASSUME EndTypes, NEW p \in Peers, NextEvent(p) = "remote", TakeNext(p), Ring(p)
    PROVE  /\ cur' = cur /\ curProc' = curProc
           /\ rQueue[p] # <<>> /\ rQueue'[p] = Tail(rQueue[p]) /\ rQueue'[Other(p)] = rQueue[Other(p)]
           /\ \A type : /\ CountOf(rQueue'[p], type) \in Nat
                        /\ CountOf(rQueue[p], type) = CountOf(rQueue'[p], type)
                               + (IF Head(rQueue[p]).type = type THEN 1 ELSE 0)
<1>1. /\ cur' = cur /\ curProc' = curProc
      /\ rQueue'[p] = Tail(rQueue[p]) /\ rQueue'[Other(p)] = rQueue[Other(p)]
  BY Ends, RingStands DEF TakeNext, EndTypes
<1>2. rQueue[p] \in Seq(Mail) /\ rQueue[p] # <<>>
  BY NextIs, RingStands DEF EndTypes
<1>3. Tail(rQueue[p]) \in Seq(Mail)
  BY <1>2, HeadIs
<1> QED BY <1>1, <1>2, <1>3, CountTail, CountIs

\* Serving a request of the peer keeps AtWork: a packet wakes a read, a release gives its
\* credit back and wakes a write.
LEMMA SchedRemoteRequestKeeps ==
    ASSUME AtWork, NEW p \in Peers, SchedRemoteRequest(p), mayFail' = mayFail
    PROVE  AtWork'
<1>1. EndTypes /\ CallTypes /\ Control /\ Callers
      /\ \A r \in Peers : Awaited(r) /\ OneEach(r) /\ Handled(r) /\ Ring(r) /\ Held(r) /\ Room(r)
  BY DEF AtWork
<1>2. PICK q \in Peers : q = Other(p) /\ q # p /\ Other(q) = p /\ \A r \in Peers : r = p \/ r = q
  BY Ends
<1>3. EndTypes /\ CallTypes /\ Control /\ Callers
  BY <1>1
<1>4. Awaited(p) /\ OneEach(p) /\ Handled(p) /\ Ring(p) /\ Held(p) /\ Room(p)
  BY <1>1
<1>5. Awaited(q) /\ OneEach(q) /\ Handled(q) /\ Ring(q) /\ Held(q) /\ Room(q)
  BY <1>1, <1>2
<1>6. EndTypes' /\ CallTypes'
  BY <1>3, <1>4, SchedRemoteRequestTypes, RingStands
<1> DEFINE m == Head(rQueue[p])
<1>7. /\ sched[p].at = "get" /\ NextEvent(p) = "remote" /\ TakeNext(p)
      /\ m.type \in {"WRITE", "RELEASE", "RESET"}
      /\ sched' = [sched EXCEPT ![p].at = "reply", ![p].msg =
                    [type |-> Responses[m.type], size |-> m.size, id |-> m.id]]
      /\ reader' = reader /\ freeing' = freeing /\ wire' = wire
      /\ pc' = pc /\ call' = call /\ sem' = sem /\ acked' = acked /\ got' = got
  BY DEF SchedRemoteRequest, Running, threads
<1>8. /\ cur' = cur /\ curProc' = curProc /\ rQueue'[q] = rQueue[q]
      /\ \A type : /\ CountOf(rQueue'[p], type) \in Nat
                   /\ CountOf(rQueue[p], type) = CountOf(rQueue'[p], type) + (IF m.type = type THEN 1 ELSE 0)
  BY <1>2, <1>3, <1>4, <1>7, TakeRemote
<1>9. /\ stream'[q] = stream[q]
      /\ stream'[p].available = stream[p].available /\ stream'[p].blocked = stream[p].blocked
      /\ stream'[p].remotePackets = stream[p].remotePackets - (IF m.type = "RELEASE" THEN 1 ELSE 0)
  <2>1. IF m.type = "RELEASE"
        THEN stream' = [stream EXCEPT ![p].remoteFill = @ - m.size, ![p].remotePackets = @ - 1]
        ELSE stream' = stream
    BY DEF SchedRemoteRequest
  <2>2. stream \in [Peers -> Stream] /\ stream[p] \in Stream
    BY <1>3 DEF EndTypes
  <2> HIDE DEF m
  <2> QED BY <2>1, <2>2, <1>2 DEF Stream
<1>10. \/ lQueue' = lQueue
       \/ \E type \in {"READ", "WRITE"} : UnblockFirst(p, type)
  BY DEF SchedRemoteRequest
<1> HIDE DEF m
<1>11. /\ lQueue'[q] = lQueue[q]
       /\ Awaited(p)' /\ OneEach(p)' /\ Ring(p)' /\ Held(p)'
  <2>1. CASE lQueue' = lQueue
    <3>1. Awaited(p)' /\ OneEach(p)' /\ Ring(p)'
      BY <2>1, <1>3, <1>4, <1>7, <1>8, QuietEvents
    <3>2. \A u \in Threads : PeerOf(u) = p => Owed(u)' = Owed(u)
      BY <2>1, <1>7 DEF Owed, InState
    <3>3. Held(p)'
      BY <3>2, <1>4, <1>9, ClaimsKeep
    <3> QED BY <2>1, <3>1, <3>3
  <2>2. CASE lQueue' # lQueue
    <3>1. PICK type \in {"READ", "WRITE"} : UnblockFirst(p, type)
      BY <2>2, <1>10
    <3>2. PICK s \in Blocked(p, type) :
             /\ s \in Slots /\ [lQueue[p][s] EXCEPT !.state = "READY"] \in Event
             /\ lQueue' = [lQueue EXCEPT ![p][s] = [lQueue[p][s] EXCEPT !.state = "READY"]]
      BY <2>2, <3>1, <1>3, UnblockIs
    <3> DEFINE f == [lQueue[p][s] EXCEPT !.state = "READY"]
    <3>3. s \in Unserved(p) /\ lQueue[p][s].state = "BLOCKED" /\ lQueue[p][s].type = type
      BY DEF Blocked, InState, Unserved
    <3>4. lQueue[p][s] \in Event
      BY <3>2, <1>3, EventIs
    <3>5. /\ f.state = "READY" /\ f.id = lQueue[p][s].id /\ f.type = lQueue[p][s].type
          /\ f.thread = lQueue[p][s].thread /\ f.type \in {"WRITE", "READ"}
      BY <3>3, <3>4 DEF Event
    <3>6. f \in Event /\ lQueue' = [lQueue EXCEPT ![p][s] = f]
      BY <3>2
    <3> HIDE DEF f
    <3>7. acked'[f.thread] = acked[f.thread] /\ sem'[f.thread] = sem[f.thread]
          /\ \A u \in Threads : u # f.thread => acked'[u] = acked[u] /\ sem'[u] = sem[u]
      BY <1>7
    <3>8. Len(stream'[p].blocked) = Len(stream[p].blocked) /\ cur'[p] = cur[p] /\ curProc'[p] = curProc[p]
      BY <1>8, <1>9
    <3>9. lQueue[p][s].state # "ALLOCATED"
      BY <3>3
    <3>10. Awaited(p)' /\ OneEach(p)' /\ Ring(p)' /\ Held(p)'
      BY <3>3, <3>5, <3>6, <3>7, <3>8, <3>9, <1>3, <1>4, <1>7, EventMoves
    <3>11. lQueue'[q] = lQueue[q]
      BY <3>2, <3>6, <1>2, <1>3, PutTypes
    <3> QED BY <3>10, <3>11
  <2> QED BY <2>1, <2>2
<1>12. sched'[p].at = "reply" /\ sched'[p].msg.type = Responses[m.type] /\ sched'[q] = sched[q]
  BY <1>2, <1>3, <1>7 DEF EndTypes, Places
<1>13. Handled(p)'
  BY <1>7, <1>12 DEF Handled, Responses
<1>14. Awaited(q)' /\ OneEach(q)' /\ Ring(q)' /\ Handled(q)' /\ Held(q)'
  <2>1. \A u \in Threads : PeerOf(u) = q => /\ pc'[u] = pc[u] /\ call'[u] = call[u] /\ sem'[u] = sem[u]
                                            /\ acked'[u] = acked[u] /\ got'[u] = got[u]
    BY <1>7
  <2>2. stream'[q].blocked = stream[q].blocked /\ cur'[q] = cur[q] /\ curProc'[q] = curProc[q]
    BY <1>8, <1>9
  <2> QED BY <2>1, <2>2, <1>3, <1>5, <1>11, <1>12, QuietEnd
<1>15. Control'
  BY <1>3, <1>7 DEF Control, EndTypes, Places
<1>16. Callers'
  BY <1>3, <1>7 DEF Callers
<1>17. /\ \A type : SendingOne(q, type)' = SendingOne(q, type)
       /\ \A type : SendingOne(p, type) = 0 /\ SendingOne(p, type)' = 0
       /\ \A type : \A r \in Peers : AddingOne(r, type)' = AddingOne(r, type)
  BY <1>7, <1>11, <1>12 DEF SendingOne, AddingOne
<1>18. Room(p)'
  <2> DEFINE n == IF m.type = "RELEASE" THEN 1 ELSE 0
  <2>1. PacketsOut(p)' = PacketsOut(p)
    BY <1>2, <1>7, <1>9, <1>17 DEF PacketsOut
  <2>2. /\ Returning(p)' = SendingOne(q, "RELEASE") + CountOf(wire[q], "RELEASE")
                           + AddingOne(p, "RELEASE") + CountOf(rQueue'[p], "RELEASE")
        /\ Returning(p) = SendingOne(q, "RELEASE") + CountOf(wire[q], "RELEASE")
                          + AddingOne(p, "RELEASE") + CountOf(rQueue[p], "RELEASE")
    BY <1>2, <1>7, <1>17 DEF Returning
  <2>3. /\ SendingOne(q, "RELEASE") \in {0, 1} /\ CountOf(wire[q], "RELEASE") \in Nat
        /\ AddingOne(p, "RELEASE") \in {0, 1}
        /\ stream[p].remotePackets \in Int
    BY <1>2, <1>3, CountsAre
  <2>4. n \in {0, 1} /\ CountOf(rQueue[p], "RELEASE") = CountOf(rQueue'[p], "RELEASE") + n
        /\ CountOf(rQueue'[p], "RELEASE") \in Nat
    BY <1>8
  <2>5. stream'[p].remotePackets = stream[p].remotePackets - n
    BY <1>9
  <2>6. PacketsOut(p) + Returning(p) <= stream[p].remotePackets /\ stream[p].remotePackets <= MaxPackets
    BY <1>4 DEF Room
  <2>7. PacketsOut(p) \in Nat
    <3>1. /\ SendingOne(p, "WRITE") \in {0, 1} /\ CountOf(wire[p], "WRITE") \in Nat
          /\ Len(stream[q].available) \in Nat /\ Len(stream[q].blocked) \in Nat
      BY <1>2, <1>3, CountsAre
    <3> QED BY <3>1, <1>2 DEF PacketsOut
  <2>8. MaxPackets \in Nat
    BY DispatcherAssumption
  <2> HIDE DEF n
  <2>9. PacketsOut(p) + Returning(p)' <= stream'[p].remotePackets /\ stream'[p].remotePackets <= MaxPackets
    BY <2>2, <2>3, <2>4, <2>5, <2>6, <2>7, <2>8
  <2> QED BY <2>1, <2>9 DEF Room
<1>19. Room(q)'
  <2>1. PacketsOut(q)' = PacketsOut(q)
    BY <1>2, <1>7, <1>9, <1>17 DEF PacketsOut
  <2>2. Returning(q)' = Returning(q)
    BY <1>2, <1>7, <1>8, <1>17 DEF Returning
  <2> QED BY <2>1, <2>2, <1>5, <1>9 DEF Room
<1>20. Control' /\ Callers' /\ EndTypes' /\ CallTypes'
  BY <1>6, <1>15, <1>16
<1>21. Awaited(p)' /\ OneEach(p)' /\ Handled(p)' /\ Ring(p)' /\ Held(p)' /\ Room(p)'
  BY <1>11, <1>13, <1>18
<1>22. Awaited(q)' /\ OneEach(q)' /\ Handled(q)' /\ Ring(q)' /\ Held(q)' /\ Room(q)'
  BY <1>14, <1>19
<1> QED BY <1>2, <1>20, <1>21, <1>22 DEF AtWork

\* Serving a response keeps AtWork: the pending request it answers is served.
LEMMA SchedResponseKeeps ==
    ASSUME AtWork, NEW p \in Peers, SchedResponse(p), mayFail' = mayFail
    PROVE  AtWork'
<1>1. EndTypes /\ CallTypes /\ Control /\ Callers
      /\ \A r \in Peers : Awaited(r) /\ OneEach(r) /\ Handled(r) /\ Ring(r) /\ Held(r) /\ Room(r)
  BY DEF AtWork
<1>2. PICK q \in Peers : q = Other(p) /\ q # p /\ Other(q) = p /\ \A r \in Peers : r = p \/ r = q
  BY Ends
<1>3. EndTypes /\ CallTypes /\ Control /\ Callers
  BY <1>1
<1>4. Awaited(p) /\ OneEach(p) /\ Handled(p) /\ Ring(p) /\ Held(p) /\ Room(p)
  BY <1>1
<1>5. Awaited(q) /\ OneEach(q) /\ Handled(q) /\ Ring(q) /\ Held(q) /\ Room(q)
  BY <1>1, <1>2
<1>6. EndTypes' /\ CallTypes'
  BY <1>3, <1>4, SchedResponseTypes, RingStands
<1>7. /\ sched[p].at = "get" /\ NextEvent(p) = "remote" /\ TakeNext(p)
      /\ Head(rQueue[p]).type \notin Requests
      /\ sched' = [sched EXCEPT ![p].at = LoopUnless(resetXLink[p])]
      /\ reader' = reader /\ freeing' = freeing /\ wire' = wire /\ stream' = stream
      /\ pc' = pc /\ call' = call /\ got' = got
  BY DEF SchedResponse, Running, GoTo
<1>8. /\ cur' = cur /\ curProc' = curProc /\ rQueue'[q] = rQueue[q]
      /\ CountOf(rQueue'[p], "RELEASE") = CountOf(rQueue[p], "RELEASE")
  <2>1. /\ cur' = cur /\ curProc' = curProc /\ rQueue'[q] = rQueue[q]
        /\ \A type : /\ CountOf(rQueue'[p], type) \in Nat
                     /\ CountOf(rQueue[p], type) = CountOf(rQueue'[p], type)
                            + (IF Head(rQueue[p]).type = type THEN 1 ELSE 0)
    BY <1>2, <1>3, <1>4, <1>7, TakeRemote
  <2>2. Head(rQueue[p]).type # "RELEASE"
    BY <1>7 DEF Requests
  <2> QED BY <2>1, <2>2
<1>9. /\ lQueue'[q] = lQueue[q]
      /\ Awaited(p)' /\ OneEach(p)' /\ Ring(p)' /\ Held(p)'
      /\ Callers'
      /\ \A u \in Threads : PeerOf(u) = q => sem'[u] = sem[u] /\ acked'[u] = acked[u]
  <2>1. CASE UNCHANGED <<lQueue, acked, sem>>
    <3>1. Awaited(p)' /\ OneEach(p)' /\ Ring(p)'
      BY <2>1, <1>3, <1>4, <1>7, <1>8, QuietEvents
    <3>2. \A u \in Threads : PeerOf(u) = p => Owed(u)' = Owed(u)
      BY <2>1, <1>7 DEF Owed, InState
    <3>3. Held(p)'
      BY <3>2, <1>4, <1>7, ClaimsKeep
    <3>4. Callers'
      BY <2>1, <1>3, <1>7 DEF Callers
    <3> QED BY <2>1, <3>1, <3>3, <3>4
  <2>2. CASE ~ UNCHANGED <<lQueue, acked, sem>>
    <3>1. PICK s \in InState(p, "PENDING") :
             /\ s \in Slots /\ Served([lQueue[p][s] EXCEPT !.ack = TRUE]) \in Event
             /\ lQueue' = [lQueue EXCEPT ![p][s] = Served([lQueue[p][s] EXCEPT !.ack = TRUE])]
             /\ acked' = [acked EXCEPT ![lQueue[p][s].thread] = TRUE]
             /\ sem' = [sem EXCEPT ![lQueue[p][s].thread] = @ + 1]
      BY <2>2, <1>3, ResponseIs, Zenon
    <3> DEFINE f == Served([lQueue[p][s] EXCEPT !.ack = TRUE])
               t == lQueue[p][s].thread
    <3>2. s \in Unserved(p) /\ lQueue[p][s].state = "PENDING"
      BY <3>1 DEF InState, Unserved
    <3>3. lQueue[p][s] \in Event /\ t \in Threads
      BY <3>1, <1>3, EventIs DEF Event
    <3>4. f.state = "SERVED" /\ f.type = lQueue[p][s].type /\ f.thread = t
      BY <3>3 DEF Event, Served
    <3>5. f \in Event /\ lQueue' = [lQueue EXCEPT ![p][s] = f]
      BY <3>1
    <3>6. f.type # "READ" /\ PeerOf(t) = p /\ pc[t] = "wait" /\ sem[t] = 0
      BY <3>1, <3>2, <3>4, <1>4 DEF Awaited
    <3>7. acked' = [acked EXCEPT ![t] = TRUE] /\ sem' = [sem EXCEPT ![t] = @ + 1]
      BY <3>1
    <3> HIDE DEF f
    <3>8. \A u \in Threads : u # f.thread => acked'[u] = acked[u] /\ sem'[u] = sem[u]
      BY <3>4, <3>7, <1>3 DEF CallTypes
    <3>9. lQueue[p][s].state # "ALLOCATED" /\ cur'[p] = cur[p] /\ curProc'[p] = curProc[p]
          /\ Len(stream'[p].blocked) = Len(stream[p].blocked)
      BY <3>2, <1>7, <1>8
    <3>10. Awaited(p)' /\ OneEach(p)' /\ Ring(p)' /\ Held(p)'
      BY <3>2, <3>4, <3>5, <3>6, <3>8, <3>9, <1>3, <1>4, <1>7, EventMoves
    <3>11. lQueue'[q] = lQueue[q]
      BY <3>1, <3>5, <1>2, <1>3, PutTypes
    <3>12. sem'[t] = 1
      BY <3>3, <3>6, <3>7, <1>3 DEF CallTypes
    <3>13. Callers'
      BY <3>3, <3>4, <3>6, <3>8, <3>12, <1>3, <1>7 DEF Callers
    <3>14. \A u \in Threads : PeerOf(u) = q => sem'[u] = sem[u] /\ acked'[u] = acked[u]
      BY <3>4, <3>6, <3>8, <1>2
    <3> QED BY <3>10, <3>11, <3>13, <3>14
  <2> QED BY <2>1, <2>2
<1>10. sched'[p].at \in {"get", "join"} /\ sched'[q] = sched[q]
  BY <1>2, <1>3, <1>7 DEF EndTypes, Places, LoopUnless
<1>11. Handled(p)'
  BY <1>10 DEF Handled
<1>12. Awaited(q)' /\ OneEach(q)' /\ Ring(q)' /\ Handled(q)' /\ Held(q)'
  <2>1. \A u \in Threads : PeerOf(u) = q => /\ pc'[u] = pc[u] /\ call'[u] = call[u] /\ sem'[u] = sem[u]
                                            /\ acked'[u] = acked[u] /\ got'[u] = got[u]
    BY <1>7, <1>9
  <2>2. stream'[q].blocked = stream[q].blocked /\ cur'[q] = cur[q] /\ curProc'[q] = curProc[q]
    BY <1>7, <1>8
  <2> QED BY <2>1, <2>2, <1>3, <1>5, <1>9, <1>10, QuietEnd
<1>13. Control'
  BY <1>2, <1>3, <1>7, <1>10 DEF Control
<1>14. /\ \A type : SendingOne(q, type)' = SendingOne(q, type)
       /\ \A type : SendingOne(p, type) = 0 /\ SendingOne(p, type)' = 0
       /\ \A type : \A r \in Peers : AddingOne(r, type)' = AddingOne(r, type)
  BY <1>7, <1>9, <1>10 DEF SendingOne, AddingOne
<1>15. Room(p)' /\ Room(q)'
  <2>1. PacketsOut(p)' = PacketsOut(p) /\ PacketsOut(q)' = PacketsOut(q)
    BY <1>2, <1>7, <1>14 DEF PacketsOut
  <2>2. Returning(p)' = Returning(p) /\ Returning(q)' = Returning(q)
    BY <1>2, <1>7, <1>8, <1>14 DEF Returning
  <2> QED BY <2>1, <2>2, <1>4, <1>5, <1>7 DEF Room
<1>16. Control' /\ Callers' /\ EndTypes' /\ CallTypes'
  BY <1>6, <1>9, <1>13
<1>17. Awaited(p)' /\ OneEach(p)' /\ Handled(p)' /\ Ring(p)' /\ Held(p)' /\ Room(p)'
  BY <1>9, <1>11, <1>15
<1>18. Awaited(q)' /\ OneEach(q)' /\ Handled(q)' /\ Ring(q)' /\ Held(q)' /\ Room(q)'
  BY <1>12, <1>15
<1> QED BY <1>2, <1>16, <1>17, <1>18 DEF AtWork

\* A NULL event keeps AtWork.
LEMMA SchedNullKeeps ==
    ASSUME AtWork, NEW p \in Peers, SchedNull(p), mayFail' = mayFail
    PROVE  AtWork'
<1>1. EndTypes /\ CallTypes /\ Control /\ Callers
      /\ \A r \in Peers : Awaited(r) /\ OneEach(r) /\ Handled(r) /\ Ring(r) /\ Held(r) /\ Room(r)
  BY DEF AtWork
<1>2. EndTypes' /\ CallTypes'
  BY <1>1, SchedNullTypes, RingStands
<1>3. /\ sched[p].at = "get" /\ NextEvent(p) = "none" /\ TakeNext(p)
      /\ sched' = [sched EXCEPT ![p].at = IF p = Host THEN "join" ELSE LoopUnless(resetXLink[p])]
      /\ UNCHANGED <<lQueue, reader, freeing, wire, stream, pc, call, sem, acked, got>>
  BY DEF SchedNull, Running, GoTo, threads
<1>4. UNCHANGED <<cur, curProc, rQueue>>
  BY <1>1, <1>3, RingStands DEF TakeNext, EndTypes
<1>5. sched'[p].at \in {"get", "join"} /\ \A r \in Peers : r # p => sched'[r] = sched[r]
  BY <1>1, <1>3 DEF EndTypes, Places, LoopUnless
<1>6. Control' /\ Callers'
  BY <1>1, <1>3, <1>5 DEF Control, Callers
<1>7. ASSUME NEW r \in Peers PROVE Awaited(r)' /\ OneEach(r)' /\ Ring(r)'
  BY <1>1, <1>3, <1>4, QuietEvents
<1>8. ASSUME NEW r \in Peers PROVE Handled(r)'
  BY <1>1, <1>3, <1>5 DEF Handled
<1>9. ASSUME NEW r \in Peers PROVE Held(r)'
  <2>1. \A u \in Threads : Owed(u)' = Owed(u)
    BY <1>3 DEF Owed, InState
  <2> QED BY <2>1, <1>1, <1>3, ClaimsKeep
<1>10. ASSUME NEW r \in Peers PROVE Room(r)'
  <2>1. ASSUME NEW u \in Peers, NEW type PROVE SendingOne(u, type)' = SendingOne(u, type)
    BY <1>3, <1>5 DEF SendingOne
  <2> QED BY <2>1, <1>1, <1>3, <1>4, Ends, QuietRoom
<1> QED BY <1>2, <1>6, <1>7, <1>8, <1>9, <1>10 DEF AtWork

\* A step that leaves the local events and the application's threads alone.
LEMMA QuietThreads ==
    ASSUME NEW p \in Peers, EndTypes, Awaited(p), OneEach(p), Ring(p), Held(p),
           UNCHANGED <<lQueue, cur, curProc, pc, call, sem, acked, got>>,
           Len(stream'[p].blocked) = Len(stream[p].blocked)
    PROVE  Awaited(p)' /\ OneEach(p)' /\ Ring(p)' /\ Held(p)'
<1>1. Awaited(p)' /\ OneEach(p)' /\ Ring(p)'
  BY QuietEvents
<1>2. \A u \in Threads : Owed(u)' = Owed(u)
  BY DEF Owed, InState
<1> QED BY <1>1, <1>2, ClaimsKeep

\* Sending a request keeps AtWork: what was about to be sent is on the wire.
LEMMA SchedSendKeeps ==
    ASSUME AtWork, up, NEW p \in Peers, SchedSend(p), mayFail' = mayFail
    PROVE  AtWork'
<1>1. EndTypes /\ CallTypes /\ Control /\ Callers
      /\ \A r \in Peers : Awaited(r) /\ OneEach(r) /\ Handled(r) /\ Ring(r) /\ Held(r) /\ Room(r)
  BY DEF AtWork
<1>2. PICK q \in Peers : q = Other(p) /\ q # p /\ Other(q) = p /\ \A r \in Peers : r = p \/ r = q
  BY Ends
<1>3. EndTypes' /\ CallTypes'
  <2>1. sched[p].slot \in Slots /\ sched[p].at = "send"
    BY <1>1 DEF EndTypes, Places, SchedSend
  <2>2. ~lQueue[p][sched[p].slot].localServe =>
            lQueue[p][sched[p].slot].type \in {"WRITE", "RELEASE", "RESET"}
    BY <2>1, <1>1 DEF Handled, Awaited
  <2> QED BY <2>2, <1>1, SchedSendTypes
<1> DEFINE e == lQueue[p][sched[p].slot]
           m == [type |-> e.type, size |-> e.size, id |-> e.id]
<1>4. /\ sched[p].at = "send"
      /\ wire' = IF ~e.localServe THEN [wire EXCEPT ![p] = Append(@, m)] ELSE wire
      /\ sched' = [sched EXCEPT ![p].slot = 1, ![p].at = LoopUnless(resetXLink'[p])]
      /\ UNCHANGED <<lQueue, cur, curProc, rQueue, reader, freeing, stream, pc, call, sem, acked, got>>
  BY DEF SchedSend, queues, threads
<1>5. ~e.localServe => m \in Mail /\ m.type = e.type
  <2>1. e \in Event /\ (~e.localServe => e.type \in {"WRITE", "RELEASE", "RESET"})
    BY <1>1, <1>4, EventIs DEF EndTypes, Places, Handled, Awaited
  <2> QED BY <2>1 DEF Event, Mail
<1> HIDE DEF m
<1>6. sched'[p].at \in {"get", "join"} /\ \A r \in Peers : r # p => sched'[r] = sched[r]
  BY <1>1, <1>4 DEF EndTypes, Places, LoopUnless
<1>7. Control' /\ Callers'
  BY <1>1, <1>4, <1>6 DEF Control, Callers
<1>8. ASSUME NEW r \in Peers PROVE Awaited(r)' /\ OneEach(r)' /\ Ring(r)' /\ Held(r)'
  BY <1>1, <1>4, QuietThreads
<1>9. ASSUME NEW r \in Peers PROVE Handled(r)'
  BY <1>1, <1>4, <1>6 DEF Handled
<1>10. ASSUME NEW type
       PROVE  /\ SendingOne(p, type)' + CountOf(wire'[p], type) = SendingOne(p, type) + CountOf(wire[p], type)
              /\ SendingOne(q, type)' = SendingOne(q, type) /\ CountOf(wire'[q], type) = CountOf(wire[q], type)
  <2>1. wire[p] \in Seq(Mail) /\ wire \in [Peers -> Seq(Mail)] /\ CountOf(wire[p], type) \in Nat
    BY <1>1, CountsAre DEF EndTypes
  <2>2. SendingOne(p, type)' = 0 /\ SendingOne(q, type)' = SendingOne(q, type)
    BY <1>2, <1>4, <1>6 DEF SendingOne
  <2>3. SendingOne(p, type) = IF ~e.localServe /\ e.type = type THEN 1 ELSE 0
    BY <1>4 DEF SendingOne
  <2>4. wire'[q] = wire[q] /\ wire'[p] = IF ~e.localServe THEN Append(wire[p], m) ELSE wire[p]
    BY <2>1, <1>2, <1>4
  <2>5. ~e.localServe => CountOf(Append(wire[p], m), type) = CountOf(wire[p], type) + (IF e.type = type THEN 1 ELSE 0)
    BY <2>1, <1>5, CountAppend
  <2> HIDE DEF e
  <2> QED BY <2>1, <2>2, <2>3, <2>4, <2>5
<1>11. \A r \in Peers : AddingOne(r, "RELEASE")' = AddingOne(r, "RELEASE")
  BY <1>4 DEF AddingOne
<1>12. ASSUME NEW r \in Peers
       PROVE  /\ SendingOne(r, "WRITE")' + CountOf(wire'[r], "WRITE") = SendingOne(r, "WRITE") + CountOf(wire[r], "WRITE")
              /\ SendingOne(r, "RELEASE")' + CountOf(wire'[r], "RELEASE")
                 = SendingOne(r, "RELEASE") + CountOf(wire[r], "RELEASE")
  BY <1>2, <1>10
<1>13. ASSUME NEW r \in Peers PROVE Room(r)'
  <2>1. Other(r) \in Peers
    BY Ends
  <2>2. PacketsOut(r)' = PacketsOut(r)
    BY <1>4, <1>12 DEF PacketsOut
  <2>3. Returning(r)' = Returning(r)
    BY <2>1, <1>4, <1>11, <1>12 DEF Returning
  <2> QED BY <2>2, <2>3, <1>1, <1>4 DEF Room
<1> QED BY <1>3, <1>7, <1>8, <1>9, <1>13 DEF AtWork

\* Sending a response keeps AtWork: responses carry no credit.
LEMMA SchedReplyKeeps ==
    ASSUME AtWork, up, NEW p \in Peers, SchedReply(p), mayFail' = mayFail
    PROVE  AtWork'
<1>1. EndTypes /\ CallTypes /\ Control /\ Callers
      /\ \A r \in Peers : Awaited(r) /\ OneEach(r) /\ Handled(r) /\ Ring(r) /\ Held(r) /\ Room(r)
  BY DEF AtWork
<1>2. EndTypes' /\ CallTypes'
  BY <1>1, SchedReplyTypes
<1> DEFINE m == sched[p].msg
<1>3. /\ sched[p].at = "reply"
      /\ wire' = [wire EXCEPT ![p] = Append(@, m)]
      /\ sched' = [sched EXCEPT ![p].msg = NoRequest, ![p].at = LoopUnless(resetXLink[p])]
      /\ UNCHANGED <<lQueue, cur, curProc, rQueue, reader, freeing, stream, pc, call, sem, acked, got>>
  BY DEF SchedReply, queues, threads
<1>4. m \in Mail /\ m.type \notin {"WRITE", "RELEASE"}
  BY <1>1, <1>3 DEF EndTypes, Places, Handled
<1> HIDE DEF m
<1>5. sched'[p].at \in {"get", "join"} /\ \A r \in Peers : r # p => sched'[r] = sched[r]
  BY <1>1, <1>3 DEF EndTypes, Places, LoopUnless
<1>6. Control' /\ Callers'
  BY <1>1, <1>3, <1>5 DEF Control, Callers
<1>7. ASSUME NEW r \in Peers PROVE Awaited(r)' /\ OneEach(r)' /\ Ring(r)' /\ Held(r)'
  BY <1>1, <1>3, QuietThreads
<1>8. ASSUME NEW r \in Peers PROVE Handled(r)'
  BY <1>1, <1>3, <1>5 DEF Handled
<1>9. ASSUME NEW r \in Peers, NEW type \in {"WRITE", "RELEASE"}
      PROVE  SendingOne(r, type)' = SendingOne(r, type) /\ CountOf(wire'[r], type) = CountOf(wire[r], type)
  <2>1. wire[p] \in Seq(Mail) /\ wire \in [Peers -> Seq(Mail)] /\ CountOf(wire[p], type) \in Nat
    BY <1>1, CountsAre DEF EndTypes
  <2>2. SendingOne(r, type)' = SendingOne(r, type)
    BY <1>3, <1>5 DEF SendingOne
  <2>3. CountOf(Append(wire[p], m), type) = CountOf(wire[p], type)
    BY <2>1, <1>4, CountAppend
  <2>4. wire'[r] = IF r = p THEN Append(wire[p], m) ELSE wire[r]
    BY <2>1, <1>3
  <2> QED BY <2>2, <2>3, <2>4
<1>10. ASSUME NEW r \in Peers PROVE Room(r)'
  <2>1. Other(r) \in Peers /\ AddingOne(r, "RELEASE")' = AddingOne(r, "RELEASE")
    BY <1>3, Ends DEF AddingOne
  <2>2. PacketsOut(r)' = PacketsOut(r)
    BY <1>3, <1>9 DEF PacketsOut
  <2>3. Returning(r)' = Returning(r)
    BY <2>1, <1>3, <1>9 DEF Returning
  <2> QED BY <2>2, <2>3, <1>1, <1>3 DEF Room
<1> QED BY <1>2, <1>6, <1>7, <1>8, <1>10 DEF AtWork

-------------------------------------------------------------------------------
(* The steps of the reader. *)

\* A packet on the wire finds a place: the writer has counted it.
LEMMA PacketFindsPlace ==
    ASSUME NEW p \in Peers, EndTypes, Room(Other(p)),
           wire[Other(p)] # <<>>, Head(wire[Other(p)]).type = "WRITE"
    PROVE  Len(stream[p].available) + Len(stream[p].blocked) < MaxPackets
<1>1. PICK q \in Peers : q = Other(p) /\ Other(q) = p
  BY Ends
<1>2. wire[q] \in Seq(Mail) /\ wire[q] # <<>> /\ Tail(wire[q]) \in Seq(Mail)
  BY <1>1, HeadIs DEF EndTypes
<1>3. CountOf(wire[q], "WRITE") = CountOf(Tail(wire[q]), "WRITE") + 1
      /\ CountOf(Tail(wire[q]), "WRITE") \in Nat
  BY <1>1, <1>2, CountTail, CountIs
<1>4. /\ SendingOne(q, "WRITE") \in {0, 1} /\ AddingOne(q, "RELEASE") \in {0, 1}
      /\ SendingOne(p, "RELEASE") \in {0, 1}
      /\ CountOf(wire[p], "RELEASE") \in Nat /\ CountOf(rQueue[q], "RELEASE") \in Nat
      /\ Len(stream[p].available) \in Nat /\ Len(stream[p].blocked) \in Nat
      /\ stream[q].remotePackets \in Int
  BY <1>1, CountsAre
<1>5. Returning(q) \in Nat
  BY <1>1, <1>4 DEF Returning
<1> DEFINE w == CountOf(Tail(wire[q]), "WRITE")
           x == SendingOne(q, "WRITE")
           a == Len(stream[p].available)
           b == Len(stream[p].blocked)
<1>8. PacketsOut(q) = x + (w + 1) + a + b
  BY <1>1, <1>3 DEF PacketsOut
<1>6. PacketsOut(q) > a + b /\ PacketsOut(q) \in Nat /\ a \in Nat /\ b \in Nat
  <2>1. w \in Nat /\ x \in {0, 1} /\ a \in Nat /\ b \in Nat
    BY <1>3, <1>4
  <2> HIDE DEF w, x, a, b
  <2> QED BY <2>1, <1>8
<1>7. PacketsOut(q) + Returning(q) <= stream[q].remotePackets /\ stream[q].remotePackets <= MaxPackets
  BY <1>1 DEF Room
<1>9. MaxPackets \in Nat /\ stream[q].remotePackets \in Int
  BY <1>4, DispatcherAssumption
<1> HIDE DEF w, x, a, b
<1>10. a + b < MaxPackets
  BY <1>5, <1>6, <1>7, <1>9
<1> QED BY <1>10 DEF a, b

\* Receiving a message keeps AtWork: a packet goes to the stream.
LEMMA ReceiveKeeps ==
    ASSUME AtWork, NEW p \in Peers, Receive(p), mayFail' = mayFail
    PROVE  AtWork'
<1>1. EndTypes /\ CallTypes /\ Control /\ Callers
      /\ \A r \in Peers : Awaited(r) /\ OneEach(r) /\ Handled(r) /\ Ring(r) /\ Held(r) /\ Room(r)
  BY DEF AtWork
<1>2. PICK q \in Peers : q = Other(p) /\ q # p /\ Other(q) = p /\ \A r \in Peers : r = p \/ r = q
  BY Ends
<1>3. EndTypes' /\ CallTypes'
  BY <1>1, ReceiveTypes
<1> DEFINE m == Head(wire[q])
           held == Len(stream[p].available) + Len(stream[p].blocked)
<1>4. /\ reader[p].at = "recv" /\ wire[q] # <<>>
      /\ wire' = [wire EXCEPT ![q] = Tail(@)]
      /\ UNCHANGED <<lQueue, cur, curProc, rQueue, sched, freeing, pc, call, sem, acked, got>>
  BY <1>2 DEF Receive, queues, threads
<1>5. m.type = "WRITE" => held < MaxPackets
  BY <1>1, <1>2, <1>4, PacketFindsPlace
<1>6. /\ reader' = [reader EXCEPT ![p] = [at |-> "add", msg |-> m]]
      /\ stream' = IF m.type # "WRITE" THEN stream ELSE
                   [stream EXCEPT ![p].localFill = @ + m.size,
                                  ![p].available = Append(@, [id |-> m.id, size |-> m.size])]
  <2>1. held \in Int /\ MaxPackets \in Int
    BY <1>1, CountsAre, DispatcherAssumption
  <2>2. /\ stream' = IF m.type # "WRITE" THEN stream ELSE
                 [stream EXCEPT ![p].localFill = @ + m.size,
                    ![p].available = IF held < MaxPackets
                                     THEN Append(@, [id |-> m.id, size |-> m.size]) ELSE @]
        /\ reader' = [reader EXCEPT ![p] =
                    IF m.type = "WRITE" /\ held >= MaxPackets
                    THEN [at |-> "fail", msg |-> NoRequest] ELSE [at |-> "add", msg |-> m]]
    BY <1>2 DEF Receive
  <2>7. m.type = "WRITE" => ~ (held >= MaxPackets)
    <3> HIDE DEF held, m
    <3> QED BY <1>5, <2>1
  <2>3. ~ (m.type = "WRITE" /\ held >= MaxPackets)
    BY <2>7
  <2> HIDE DEF m, held
  <2>4. reader' = [reader EXCEPT ![p] = [at |-> "add", msg |-> m]]
    BY <2>2, <2>3
  <2>5. CASE m.type = "WRITE"
    BY <2>2, <2>4, <2>5, <1>5
  <2>6. CASE m.type # "WRITE"
    BY <2>2, <2>4, <2>6
  <2> QED BY <2>5, <2>6
<1>7. m \in Mail /\ wire \in [Peers -> Seq(Mail)] /\ wire[q] \in Seq(Mail) /\ Tail(wire[q]) \in Seq(Mail)
  BY <1>1, <1>4, HeadIs DEF EndTypes
<1>8. \A type : /\ CountOf(wire[q], type) = CountOf(wire'[q], type) + (IF m.type = type THEN 1 ELSE 0)
                /\ CountOf(wire'[q], type) \in Nat /\ wire'[p] = wire[p]
  <2>1. wire'[q] = Tail(wire[q]) /\ wire'[p] = wire[p]
    BY <1>2, <1>4, <1>7
  <2> QED BY <2>1, <1>4, <1>7, CountTail, CountIs
<1> HIDE DEF m
<1>9. /\ stream'[q] = stream[q] /\ stream'[p].remotePackets = stream[p].remotePackets
      /\ stream'[p].blocked = stream[p].blocked
      /\ Len(stream'[p].available) = Len(stream[p].available) + (IF m.type = "WRITE" THEN 1 ELSE 0)
  <2>1. stream \in [Peers -> Stream] /\ stream[p].available \in Seq(Packet)
    BY <1>1 DEF EndTypes, Stream
  <2>2. [id |-> m.id, size |-> m.size] \in Packet
    BY <1>7 DEF Mail, Packet
  <2>3. CASE m.type = "WRITE"
    <3>1. stream' = [stream EXCEPT ![p].localFill = @ + m.size,
                                   ![p].available = Append(@, [id |-> m.id, size |-> m.size])]
      BY <1>6, <2>3
    <3>2. /\ stream'[q] = stream[q] /\ stream'[p].remotePackets = stream[p].remotePackets
          /\ stream'[p].blocked = stream[p].blocked
          /\ stream'[p].available = Append(stream[p].available, [id |-> m.id, size |-> m.size])
      BY <3>1, <2>1, <1>2 DEF Stream
    <3> QED BY <2>1, <2>2, <2>3, <3>2, AppendProperties
  <2>4. CASE m.type # "WRITE"
    <3>1. Len(stream[p].available) \in Nat
      BY <1>1, CountsAre
    <3> QED BY <3>1, <2>4, <1>6
  <2> QED BY <2>3, <2>4
<1>10. reader'[p].at = "add" /\ reader'[p].msg = m /\ reader'[q] = reader[q]
  BY <1>1, <1>2, <1>6 DEF EndTypes
<1>11. Control' /\ Callers'
  BY <1>1, <1>2, <1>4, <1>10 DEF Control, Callers
<1>12. ASSUME NEW r \in Peers PROVE Awaited(r)' /\ OneEach(r)' /\ Ring(r)' /\ Held(r)' /\ Handled(r)'
  <2>1. stream'[r].blocked = stream[r].blocked
    BY <1>2, <1>9
  <2>2. Awaited(r)' /\ OneEach(r)' /\ Ring(r)' /\ Held(r)'
    BY <2>1, <1>1, <1>4, QuietThreads
  <2>3. Handled(r)'
    BY <1>1, <1>4 DEF Handled
  <2> QED BY <2>2, <2>3
<1>13. /\ \A type : \A r \in Peers : SendingOne(r, type)' = SendingOne(r, type)
       /\ AddingOne(q, "RELEASE")' = AddingOne(q, "RELEASE")
       /\ AddingOne(p, "RELEASE") = 0
       /\ AddingOne(p, "RELEASE")' = IF m.type = "RELEASE" THEN 1 ELSE 0
  BY <1>4, <1>10 DEF SendingOne, AddingOne
<1>14. Room(p)'
  <2>1. PacketsOut(p)' = PacketsOut(p)
    BY <1>2, <1>8, <1>9, <1>13 DEF PacketsOut
  <2>2. Returning(p)' = Returning(p)
    <3>1. SendingOne(q, "RELEASE") \in {0, 1} /\ CountOf(rQueue[p], "RELEASE") \in Nat
      BY <1>1, <1>2, CountsAre
    <3>2. CountOf(wire[q], "RELEASE") = CountOf(wire'[q], "RELEASE") + AddingOne(p, "RELEASE")'
          /\ CountOf(wire'[q], "RELEASE") \in Nat /\ AddingOne(p, "RELEASE")' \in {0, 1}
      BY <1>8, <1>13
    <3>3. Returning(p)' = SendingOne(q, "RELEASE") + CountOf(wire'[q], "RELEASE")
                          + AddingOne(p, "RELEASE")' + CountOf(rQueue[p], "RELEASE")
      BY <1>2, <1>4, <1>13 DEF Returning
    <3>4. Returning(p) = SendingOne(q, "RELEASE") + CountOf(wire[q], "RELEASE")
                         + 0 + CountOf(rQueue[p], "RELEASE")
      BY <1>2, <1>13 DEF Returning
    <3> QED BY <3>1, <3>2, <3>3, <3>4
  <2> QED BY <2>1, <2>2, <1>1, <1>9 DEF Room
<1>15. Room(q)'
  <2>1. PacketsOut(q)' = PacketsOut(q)
    <3>1. /\ SendingOne(q, "WRITE") \in {0, 1}
          /\ Len(stream[p].available) \in Nat /\ Len(stream[p].blocked) \in Nat
      BY <1>1, <1>2, CountsAre
    <3>2. PICK n \in {0, 1} : /\ CountOf(wire[q], "WRITE") = CountOf(wire'[q], "WRITE") + n
                              /\ CountOf(wire'[q], "WRITE") \in Nat
                              /\ Len(stream'[p].available) = Len(stream[p].available) + n
      BY <1>8, <1>9
    <3>3. PacketsOut(q)' = SendingOne(q, "WRITE") + CountOf(wire'[q], "WRITE")
                           + Len(stream'[p].available) + Len(stream[p].blocked)
      BY <1>2, <1>9, <1>13 DEF PacketsOut
    <3>4. PacketsOut(q) = SendingOne(q, "WRITE") + CountOf(wire[q], "WRITE")
                          + Len(stream[p].available) + Len(stream[p].blocked)
      BY <1>2 DEF PacketsOut
    <3> DEFINE a == SendingOne(q, "WRITE")
               b == CountOf(wire'[q], "WRITE")
               c == Len(stream[p].available)
               d == Len(stream[p].blocked)
    <3>5. PacketsOut(q)' = a + b + (c + n) + d
      BY <3>2, <3>3
    <3>6. PacketsOut(q) = a + (b + n) + c + d
      BY <3>2, <3>4
    <3>7. a \in Nat /\ b \in Nat /\ c \in Nat /\ d \in Nat
      BY <3>1, <3>2
    <3> HIDE DEF a, b, c, d
    <3> QED BY <3>5, <3>6, <3>7
  <2>2. Returning(q)' = Returning(q)
    BY <1>2, <1>4, <1>8, <1>13 DEF Returning
  <2> QED BY <2>1, <2>2, <1>1, <1>9 DEF Room
<1> QED BY <1>2, <1>3, <1>11, <1>12, <1>14, <1>15 DEF AtWork

\* Queueing a message of the peer keeps AtWork, also if it is lost: because the ring is
\* full, or after a reset.
LEMMA AddRemoteKeeps ==
    ASSUME AtWork, NEW p \in Peers, AddRemote(p), mayFail' = mayFail
    PROVE  AtWork'
<1>1. EndTypes /\ CallTypes /\ Control /\ Callers
      /\ \A r \in Peers : Awaited(r) /\ OneEach(r) /\ Handled(r) /\ Ring(r) /\ Held(r) /\ Room(r)
  BY DEF AtWork
<1>2. PICK q \in Peers : q = Other(p) /\ q # p /\ Other(q) = p /\ \A r \in Peers : r = p \/ r = q
  BY Ends
<1>3. EndTypes' /\ CallTypes'
  BY <1>1, AddRemoteTypes
<1> DEFINE m == reader[p].msg
           fits == Len(rQueue[p]) + (IF sched[p].msg # NoRequest THEN 1 ELSE 0) < MaxEvents
<1>5. /\ reader[p].at = "add"
      /\ \/ rQueue' = rQueue
         \/ rQueue' = [rQueue EXCEPT ![p] = IF fits THEN Append(@, m) ELSE @]
      /\ reader' = [reader EXCEPT ![p] =
                       [at |-> IF resetXLink'[p] THEN "exit" ELSE "recv", msg |-> NoRequest]]
      /\ UNCHANGED <<lQueue, cur, curProc, sched, freeing, stream, wire, pc, call, sem, acked, got>>
  BY DEF AddRemote, threads
<1>6. rQueue'[p] = rQueue[p] \/ rQueue'[p] = Append(rQueue[p], m)
  BY <1>1, <1>5 DEF EndTypes
<1>7. rQueue'[q] = rQueue[q] /\ reader'[p].at \in {"recv", "exit"} /\ reader'[q] = reader[q]
  BY <1>1, <1>2, <1>5 DEF EndTypes
<1>8. m \in Mail /\ rQueue[p] \in Seq(Mail)
  BY <1>1 DEF EndTypes
<1>9. Control' /\ Callers'
  BY <1>1, <1>2, <1>5, <1>7 DEF Control, Callers
<1>10. ASSUME NEW r \in Peers PROVE Awaited(r)' /\ OneEach(r)' /\ Ring(r)' /\ Held(r)' /\ Handled(r)'
  <2>1. Awaited(r)' /\ OneEach(r)' /\ Ring(r)' /\ Held(r)'
    BY <1>1, <1>5, QuietThreads
  <2>2. Handled(r)'
    BY <1>1, <1>5 DEF Handled
  <2> QED BY <2>1, <2>2
<1>11. \A type : \A r \in Peers : SendingOne(r, type)' = SendingOne(r, type)
  BY <1>5 DEF SendingOne
<1>12. Room(p)'
  <2>1. PacketsOut(p)' = PacketsOut(p)
    BY <1>5, <1>11 DEF PacketsOut
  <2>2. Returning(p)' <= Returning(p) /\ Returning(p)' \in Nat /\ Returning(p) \in Nat
    <3>1. /\ SendingOne(q, "RELEASE") \in {0, 1} /\ CountOf(wire[q], "RELEASE") \in Nat
          /\ CountOf(rQueue[p], "RELEASE") \in Nat
      BY <1>1, <1>2, CountsAre
    <3> DEFINE n == IF m.type = "RELEASE" THEN 1 ELSE 0
    <3>2. n \in {0, 1} /\ AddingOne(p, "RELEASE") = n /\ AddingOne(p, "RELEASE")' = 0
      BY <1>5, <1>7 DEF AddingOne
    <3>3. CountOf(Append(rQueue[p], m), "RELEASE") = CountOf(rQueue[p], "RELEASE") + n
      BY <1>8, CountAppend
    <3> HIDE DEF n
    <3>4. CountOf(rQueue'[p], "RELEASE") \in {CountOf(rQueue[p], "RELEASE"), CountOf(rQueue[p], "RELEASE") + n}
      BY <3>3, <1>6
    <3>5. Returning(p)' = SendingOne(q, "RELEASE") + CountOf(wire[q], "RELEASE")
                          + 0 + CountOf(rQueue'[p], "RELEASE")
      BY <3>2, <1>2, <1>5, <1>11 DEF Returning
    <3>6. Returning(p) = SendingOne(q, "RELEASE") + CountOf(wire[q], "RELEASE")
                         + n + CountOf(rQueue[p], "RELEASE")
      BY <3>2, <1>2 DEF Returning
    <3> QED BY <3>1, <3>2, <3>4, <3>5, <3>6
  <2>3. PacketsOut(p) \in Nat /\ stream[p].remotePackets \in Int
    <3>1. /\ SendingOne(p, "WRITE") \in {0, 1} /\ CountOf(wire[p], "WRITE") \in Nat
          /\ Len(stream[q].available) \in Nat /\ Len(stream[q].blocked) \in Nat
          /\ stream[p].remotePackets \in Int
      BY <1>1, <1>2, CountsAre
    <3> QED BY <3>1, <1>2, SMTT(60) DEF PacketsOut
  <2>4. PacketsOut(p) + Returning(p) <= stream[p].remotePackets /\ stream[p].remotePackets <= MaxPackets
    BY <1>1 DEF Room
  <2>5. PacketsOut(p) + Returning(p)' <= stream[p].remotePackets
    BY <2>2, <2>3, <2>4
  <2> QED BY <2>1, <2>4, <2>5, <1>5 DEF Room
<1>13. Room(q)'
  <2>1. PacketsOut(q)' = PacketsOut(q)
    BY <1>5, <1>11 DEF PacketsOut
  <2>2. AddingOne(q, "RELEASE")' = AddingOne(q, "RELEASE")
    BY <1>7 DEF AddingOne
  <2>3. Returning(q)' = Returning(q)
    BY <2>2, <1>2, <1>5, <1>7, <1>11 DEF Returning
  <2> QED BY <2>1, <2>3, <1>1, <1>5 DEF Room
<1> QED BY <1>2, <1>3, <1>9, <1>10, <1>12, <1>13 DEF AtWork

-------------------------------------------------------------------------------
(* The invariant. *)

\* The link at rest satisfies the invariant.
LEMMA InitIsAtWork == Init => IndInv
<1> SUFFICES ASSUME Init PROVE IndInv
  OBVIOUS
<1>1. ASSUME NEW p \in Peers
      PROVE  LET t == CHOOSE u \in Threads : PeerOf(u) = p IN t \in Threads /\ PeerOf(t) = p
  BY ThreadsOfEnd
<1>2. MaxEvents \in Slots /\ 1 \in Slots
  BY RoomForThreads DEF Slots
<1>3. /\ \A p \in Peers, s \in Slots :
            lQueue[p][s] \in Event /\ lQueue[p][s].state = "SERVED" /\ PeerOf(lQueue[p][s].thread) = p
      /\ lQueue \in [Peers -> [Slots -> Event]]
  BY <1>1 DEF Init, FreeSlot, Event, Ids
<1>4. NoRequest \in Mail /\ NoRequest \in Request
  BY DEF NoRequest, Mail, Request, Ids
<1>5. EndTypes
  BY <1>2, <1>3, <1>4 DEF Init, EndTypes, Places, Steps, Stream
<1>6. CallTypes
  BY <1>4, DispatcherAssumption DEF Init, CallTypes
<1>7. Control /\ Callers
  BY DEF Init, Control, Callers
<1>8. ASSUME NEW p \in Peers PROVE Awaited(p) /\ OneEach(p) /\ Handled(p)
  BY <1>3, <1>8 DEF Awaited, OneEach, Handled, Unserved, Init
<1>9. ASSUME NEW p \in Peers PROVE Ring(p)
  <2>1. cur[p] = curProc[p] /\ curProc[p] \in Slots
    BY <1>5, <1>9 DEF Init, EndTypes
  <2>2. \A s \in Slots : Gap(curProc[p], s) \in Nat
    BY <2>1, GapIs
  <2>3. Gap(curProc[p], cur[p]) = 0
    BY <2>1 DEF Gap, Slots
  <2>4. Passed(p) = {} /\ InState(p, "ALLOCATED") = {}
    BY <2>2, <2>3, <1>3, <1>9 DEF Passed, Lap, InState
  <2> QED BY <2>1, <2>4 DEF Ring
<1>10. ASSUME NEW p \in Peers PROVE Held(p)
  <2>1. ASSUME NEW t \in Threads PROVE Owed(t) = 0
    <3>1. InState(PeerOf(t), "ALLOCATED") = {}
      BY <1>3, Ends DEF InState
    <3>2. got[t] = 0 /\ pc[t] = "idle"
      BY DEF Init
    <3> QED BY <3>1, <3>2 DEF Owed
  <2>2. Claims(p) = {}
    BY <2>1 DEF Claims
  <2>3. stream[p].blocked = <<>>
    BY <1>10 DEF Init
  <2> QED BY <2>2, <2>3, FS_EmptySet DEF Held
<1>11. ASSUME NEW p \in Peers PROVE Room(p)
  <2>1. ASSUME NEW r \in Peers, NEW type
        PROVE  /\ SendingOne(r, type) = 0 /\ AddingOne(r, type) = 0
               /\ wire[r] = <<>> /\ rQueue[r] = <<>>
               /\ stream[r].available = <<>> /\ stream[r].blocked = <<>> /\ stream[r].remotePackets = 0
    BY <2>1 DEF Init, SendingOne, AddingOne
  <2>2. Other(p) \in Peers
    BY Ends
  <2>3. PacketsOut(p) = 0
    BY <2>1, <2>2, CountEmpty DEF PacketsOut
  <2>4. Returning(p) = 0
    BY <2>1, <2>2, CountEmpty DEF Returning
  <2>5. stream[p].remotePackets = 0 /\ MaxPackets \in Nat
    BY <2>1, DispatcherAssumption
  <2> QED BY <2>3, <2>4, <2>5 DEF Room
<1>12. resetXLink \in [Peers -> BOOLEAN]
  BY DEF Init
<1> QED BY <1>5, <1>6, <1>7, <1>8, <1>9, <1>10, <1>11, <1>12 DEF IndInv, AtWork

\* Once the link has failed or an end was reset, it never works again.
LEMMA OnceDown ==
    ASSUME resetXLink \in [Peers -> BOOLEAN], [Next]_vars
    PROVE  /\ resetXLink' \in [Peers -> BOOLEAN]
           /\ up' => up
           /\ Working' => Working
<1>1. CASE UNCHANGED vars
  BY <1>1 DEF vars, Working
<1>2. ASSUME NEW p \in Peers, NEW b \in BOOLEAN,
             resetXLink' = [resetXLink EXCEPT ![p] = @ \/ b], up' => up
      PROVE  resetXLink' \in [Peers -> BOOLEAN] /\ (up' => up) /\ (Working' => Working)
  BY <1>2 DEF Working
<1>3. ASSUME resetXLink' = resetXLink, up' => up
      PROVE  resetXLink' \in [Peers -> BOOLEAN] /\ (up' => up) /\ (Working' => Working)
  BY <1>3 DEF Working
<1>4. ASSUME NEW t \in Threads, (\E op \in Ops[mayFail][t] : Call(t, op)) \/ Add(t) \/ Return(t)
      PROVE  resetXLink' = resetXLink /\ up' = up
  BY <1>4 DEF Call, Add, Return
<1>5. ASSUME NEW p \in Peers, Scheduler(p) \/ Reader(p) \/ SchedStop(p) \/ ReaderStop(p)
      PROVE  \/ resetXLink' = resetXLink /\ (up' => up)
             \/ \E b \in BOOLEAN : resetXLink' = [resetXLink EXCEPT ![p] = @ \/ b] /\ (up' => up)
  <2>1. CASE SchedSend(p)
    <3> DEFINE b == p = Host /\ ~lQueue[p][sched[p].slot].localServe
                    /\ lQueue[p][sched[p].slot].type = "RESET"
    <3>1. resetXLink' = [resetXLink EXCEPT ![p] = @ \/ b] /\ up' = up
      BY <2>1 DEF SchedSend
    <3>2. b \in BOOLEAN
      OBVIOUS
    <3> QED BY <3>1, <3>2
  <2>2. CASE AddRemote(p)
    <3> DEFINE b == reader[p].msg.type = "RESET"
    <3>1. resetXLink' = [resetXLink EXCEPT ![p] = @ \/ b] /\ up' = up
      BY <2>2 DEF AddRemote
    <3>2. b \in BOOLEAN
      OBVIOUS
    <3> QED BY <3>1, <3>2
  <2>3. CASE Close(p)
    <3>1. resetXLink' = [resetXLink EXCEPT ![p] = @ \/ TRUE] /\ up' = up
      BY <2>3 DEF Close
    <3> QED BY <3>1
  <2>4. CASE SchedLocal(p) \/ SchedRemoteRequest(p) \/ SchedResponse(p) \/ SchedNull(p) \/ SchedReply(p)
    BY <2>4 DEF SchedLocal, SchedRemoteRequest, SchedResponse, SchedNull, SchedReply
  <2>5. CASE SchedFind(p) \/ Free(p, "sched") \/ SchedFreed(p) \/ Join(p) \/ Drain(p) \/ SchedStop(p)
    BY <2>5 DEF SchedFind, Free, SchedFreed, Join, Drain, SchedStop
  <2>6. CASE Receive(p) \/ ReceiveFails(p) \/ ReaderFind(p) \/ Free(p, "reader") \/ ReaderLoop(p)
             \/ ReaderStop(p)
    BY <2>6 DEF Receive, ReceiveFails, ReaderFind, Free, ReaderLoop, ReaderStop
  <2> QED BY <1>5, <2>1, <2>2, <2>3, <2>4, <2>5, <2>6 DEF Scheduler, Reader
<1>6. ASSUME Unplug PROVE resetXLink' = resetXLink /\ (up' => up)
  BY <1>6 DEF Unplug
<1>7. CASE \E t \in Threads : (\E op \in Ops[mayFail][t] : Call(t, op)) \/ Add(t) \/ Return(t)
  BY <1>3, <1>4, <1>7
<1>8. CASE \E p \in Peers : Scheduler(p) \/ Reader(p) \/ SchedStop(p) \/ ReaderStop(p)
  BY <1>2, <1>3, <1>5, <1>8
<1>9. CASE Unplug
  BY <1>3, <1>6, <1>9
<1> QED BY <1>1, <1>7, <1>8, <1>9 DEF Next

\* While the link is up no thread of a dispatcher frees what waits, or cleans up.
LEMMA NobodyStops ==
    ASSUME AtWork, up, up', NEW p \in Peers, Scheduler(p) \/ Reader(p) \/ SchedStop(p) \/ ReaderStop(p)
    PROVE  \/ SchedLocal(p) \/ SchedRemoteRequest(p) \/ SchedResponse(p) \/ SchedNull(p)
           \/ SchedSend(p) \/ SchedReply(p) \/ Receive(p) \/ AddRemote(p)
           \/ SchedStop(p) \/ ReaderStop(p)
<1>1. /\ sched[p].at \in {"get", "send", "reply", "join"} /\ reader[p].at \in {"recv", "add", "exit"}
      /\ freeing[p]["sched"] = 0 /\ freeing[p]["reader"] = 0
  BY DEF AtWork, Control
<1>2. ~SchedFind(p) /\ ~SchedFreed(p) /\ ~Join(p) /\ ~Drain(p) /\ ~Close(p)
  BY <1>1 DEF SchedFind, SchedFreed, Join, Drain, Close
<1>3. ~Free(p, "sched") /\ ~Free(p, "reader")
  BY <1>1 DEF Free
<1>4. ~ReceiveFails(p) /\ ~ReaderFind(p) /\ ~ReaderLoop(p)
  BY <1>1 DEF ReceiveFails, ReaderFind, ReaderLoop
<1> QED BY <1>2, <1>3, <1>4 DEF Scheduler, Reader

\* A thread of a dispatcher that stops for a reset keeps AtWork.
LEMMA StopKeeps ==
    ASSUME AtWork, NEW p \in Peers, SchedStop(p) \/ ReaderStop(p), mayFail' = mayFail
    PROVE  AtWork'
<1>1. EndTypes /\ CallTypes /\ Control /\ Callers
      /\ \A r \in Peers : Awaited(r) /\ OneEach(r) /\ Handled(r) /\ Ring(r) /\ Held(r) /\ Room(r)
  BY DEF AtWork
<1>2. /\ UNCHANGED <<lQueue, cur, curProc, rQueue, freeing, stream, wire, pc, call, sem, acked, got, left>>
      /\ sched' = sched \/ (sched[p].at = "get" /\ sched' = [sched EXCEPT ![p].at = "join"])
      /\ reader' = reader \/ (reader[p].at = "recv" /\ reader' = [reader EXCEPT ![p].at = "exit"])
  BY DEF SchedStop, ReaderStop, GoTo, queues, threads
<1>3. /\ sched' \in [Peers -> Places]
      /\ reader' \in [Peers -> [at : {"recv", "add", "fail", "exit"}, msg : Mail]]
  <2>1. sched \in [Peers -> Places] /\ reader \in [Peers -> [at : {"recv", "add", "fail", "exit"}, msg : Mail]]
    BY <1>1 DEF EndTypes
  <2> QED BY <2>1, <1>2 DEF Places, Steps
<1>4. EndTypes' /\ CallTypes'
  BY <1>1, <1>2, <1>3 DEF EndTypes, CallTypes
<1>5. \A r \in Peers : /\ sched'[r] = sched[r] \/ (sched[r].at = "get" /\ sched'[r].at = "join")
                       /\ reader'[r] = reader[r] \/ (reader[r].at = "recv" /\ reader'[r].at = "exit")
  BY <1>1, <1>2 DEF EndTypes, Places
<1>6. Control' /\ Callers'
  BY <1>1, <1>2, <1>5 DEF Control, Callers
<1>7. ASSUME NEW r \in Peers PROVE Awaited(r)' /\ OneEach(r)' /\ Ring(r)' /\ Held(r)'
  BY <1>1, <1>2, QuietThreads
<1>8. ASSUME NEW r \in Peers PROVE Handled(r)'
  BY <1>1, <1>2, <1>5 DEF Handled
<1>9. ASSUME NEW r \in Peers PROVE Room(r)'
  <2>1. ASSUME NEW u \in Peers, NEW type
        PROVE  SendingOne(u, type)' = SendingOne(u, type) /\ AddingOne(u, type)' = AddingOne(u, type)
    BY <1>2, <1>5 DEF SendingOne, AddingOne
  <2>2. PacketsOut(r)' = PacketsOut(r)
    BY <2>1, <1>2 DEF PacketsOut
  <2>3. Returning(r)' = Returning(r)
    BY <2>1, <1>2, Ends DEF Returning
  <2> QED BY <2>2, <2>3, <1>1, <1>2 DEF Room
<1> QED BY <1>4, <1>6, <1>7, <1>8, <1>9 DEF AtWork

\* Every step keeps the invariant.
LEMMA NextKeeps ==
    ASSUME ~Recycles, IndInv, [Next]_vars
    PROVE  IndInv'
<1>1. resetXLink' \in [Peers -> BOOLEAN] /\ (up' => up)
  BY OnceDown DEF IndInv
<1> SUFFICES ASSUME up' PROVE AtWork'
  BY <1>1 DEF IndInv
<1>2. AtWork /\ up
  BY <1>1 DEF IndInv
<1>3. CASE UNCHANGED vars
  <2>1. EndTypes' = EndTypes /\ CallTypes' = CallTypes /\ Control' = Control /\ Callers' = Callers
    BY <1>3 DEF vars, queues, threads, EndTypes, CallTypes, Control, Callers
  <2>2. ASSUME NEW p \in Peers
        PROVE  Awaited(p)' /\ OneEach(p)' /\ Ring(p)' /\ Held(p)' /\ Handled(p)' /\ Room(p)'
    <3>1. EndTypes /\ Awaited(p) /\ OneEach(p) /\ Ring(p) /\ Held(p) /\ Handled(p) /\ Room(p)
      BY <1>2 DEF AtWork
    <3>2. UNCHANGED <<lQueue, cur, curProc, rQueue, pc, call, sem, acked, got, sched, reader, stream, wire>>
      BY <1>3 DEF vars, queues, threads
    <3>3. Awaited(p)' /\ OneEach(p)' /\ Ring(p)' /\ Held(p)'
      BY <3>1, <3>2, QuietThreads
    <3>4. Handled(p)'
      BY <3>1, <3>2 DEF Handled
    <3>5. Room(p)'
      BY <3>1, <3>2, QuietRoom DEF SendingOne
    <3> QED BY <3>3, <3>4, <3>5
  <2> QED BY <2>1, <2>2, <1>2 DEF AtWork
<1>4. CASE Next
  <2>1. mayFail' = mayFail
    BY <1>4 DEF Next
  <2>2. ASSUME NEW t \in Threads, (\E op \in Ops[mayFail][t] : Call(t, op)) \/ Add(t) \/ Return(t)
        PROVE  AtWork'
    BY <2>1, <2>2, <1>2, CallKeeps, AddKeeps, ReturnKeeps
  <2>3. ASSUME NEW p \in Peers, Scheduler(p) \/ Reader(p) \/ SchedStop(p) \/ ReaderStop(p)
        PROVE  AtWork'
    <3>1. \/ SchedLocal(p) \/ SchedRemoteRequest(p) \/ SchedResponse(p) \/ SchedNull(p)
          \/ SchedSend(p) \/ SchedReply(p) \/ Receive(p) \/ AddRemote(p)
          \/ SchedStop(p) \/ ReaderStop(p)
      BY <2>3, <1>2, NobodyStops
    <3>2. CASE SchedLocal(p)
      BY <3>2, <2>1, <1>2, SchedLocalKeeps
    <3>3. CASE SchedRemoteRequest(p)
      BY <3>3, <2>1, <1>2, SchedRemoteRequestKeeps
    <3>4. CASE SchedResponse(p)
      BY <3>4, <2>1, <1>2, SchedResponseKeeps
    <3>5. CASE SchedNull(p)
      BY <3>5, <2>1, <1>2, SchedNullKeeps
    <3>6. CASE SchedSend(p)
      BY <3>6, <2>1, <1>2, SchedSendKeeps
    <3>7. CASE SchedReply(p)
      BY <3>7, <2>1, <1>2, SchedReplyKeeps
    <3>8. CASE Receive(p)
      BY <3>8, <2>1, <1>2, ReceiveKeeps
    <3>9. CASE AddRemote(p)
      BY <3>9, <2>1, <1>2, AddRemoteKeeps
    <3>10. CASE SchedStop(p) \/ ReaderStop(p)
      BY <3>10, <2>1, <1>2, StopKeeps
    <3> QED BY <3>1, <3>2, <3>3, <3>4, <3>5, <3>6, <3>7, <3>8, <3>9, <3>10
  <2>4. ASSUME Unplug PROVE FALSE
    BY <2>4 DEF Unplug
  <2> QED BY <2>2, <2>3, <2>4, <1>4 DEF Next
<1> QED BY <1>3, <1>4

\* What IndInv says holds in every state of the system: while the link is up, the
\* dispatchers are at work as AtWork describes.
THEOREM DispatchersAtWork == ASSUME ~Recycles PROVE Spec => []IndInv
<1>1. Init => IndInv
  BY InitIsAtWork
<1>2. IndInv /\ [Next]_vars => IndInv'
  BY NextKeeps
<1> QED BY <1>1, <1>2, PTL DEF Spec

\* While the link works, an event of the host that is not served has its caller waiting
\* for it: the buffer and the semaphore the scheduler will write to still exist. It holds
\* for every number of threads and slots, as long as a slot the scheduler is still
\* looking at is not given away.
THEOREM EventHasItsCaller == ASSUME ~Recycles PROVE Spec => []CallerWaitsForItsEvent
<1>1. IndInv => CallerWaitsForItsEvent
  <2> SUFFICES ASSUME IndInv, Working, NEW s \in Slots, lQueue[Host][s].state # "SERVED"
               PROVE  LET e == lQueue[Host][s] IN
                      pc[e.thread] = "wait" /\ call[e.thread].id = e.id
    BY DEF CallerWaitsForItsEvent
  <2>1. Awaited(Host)
    BY DEF IndInv, Working, AtWork, Peers
  <2> QED BY <2>1 DEF Awaited
<1> QED BY <1>1, DispatchersAtWork, PTL

\* While the link works, a packet that is on the wire finds a place in the stream of the
\* end it goes to: the writer's own account of its peer never lets it send one too many,
\* so the reader drops none.
PacketFindsItsPlace ==
    Working => \A p \in Peers :
        wire[Other(p)] # <<>> /\ Head(wire[Other(p)]).type = "WRITE" =>
            Len(stream[p].available) + Len(stream[p].blocked) < MaxPackets

\* PacketFindsItsPlace for every capacity of the stream and every number of threads.
THEOREM WriterNeverOverruns == ASSUME ~Recycles PROVE Spec => []PacketFindsItsPlace
<1>1. IndInv => PacketFindsItsPlace
  <2> SUFFICES ASSUME IndInv, Working, NEW p \in Peers,
                      wire[Other(p)] # <<>>, Head(wire[Other(p)]).type = "WRITE"
               PROVE  Len(stream[p].available) + Len(stream[p].blocked) < MaxPackets
    BY DEF PacketFindsItsPlace
  <2>1. EndTypes /\ Room(Other(p))
    BY Ends DEF IndInv, Working, AtWork
  <2> QED BY <2>1, PacketFindsPlace
<1> QED BY <1>1, DispatchersAtWork, PTL

\* While the link works, a search for a free slot finds one, and before it gets round to
\* the events that are still to be served: the cursors of the ring never cross.
FreeSlotInTime ==
    Working => \A t \in Threads :
        pc[t] = "add" =>
            \E g \in InState(PeerOf(t), "SERVED") :
                /\ After(g) # curProc[PeerOf(t)]
                /\ Gap(curProc[PeerOf(t)], g) >= Gap(curProc[PeerOf(t)], cur[PeerOf(t)])

\* FreeSlotInTime for every number of threads, with two slots for each.
THEOREM RingHasRoom == ASSUME ~Recycles PROVE Spec => []FreeSlotInTime
<1>1. IndInv => FreeSlotInTime
  <2> SUFFICES ASSUME IndInv, Working, NEW t \in Threads, pc[t] = "add"
               PROVE  \E g \in InState(PeerOf(t), "SERVED") :
                         /\ After(g) # curProc[PeerOf(t)]
                         /\ Gap(curProc[PeerOf(t)], g) >= Gap(curProc[PeerOf(t)], cur[PeerOf(t)])
    BY DEF FreeSlotInTime
  <2>1. PeerOf(t) \in Peers /\ EndTypes /\ Awaited(PeerOf(t)) /\ OneEach(PeerOf(t)) /\ Ring(PeerOf(t))
    BY Ends DEF IndInv, Working, AtWork
  <2>2. \A s \in Unserved(PeerOf(t)) : lQueue[PeerOf(t)][s].thread # t
    BY <2>1, NoEvent
  <2> QED BY <2>1, <2>2, FreeSlotAhead
<1> QED BY <1>1, DispatchersAtWork, PTL

===============================================================================
