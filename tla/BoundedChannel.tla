---------------------------- MODULE BoundedChannel ----------------------------
(***************************************************************************)
(* What one direction of an XLink stream promises its two applications:    *)
(* the packets one side writes come out on the other side once each, in    *)
(* the order they were sent, and never take more room than the reader gave *)
(* the stream. A packet takes room until it is released, also while the    *)
(* reader uses it.                                                         *)
(***************************************************************************)
EXTENDS Naturals, Sequences, Totals

CONSTANTS Packets,     \* what can be written, [id, size] records
          Capacity,    \* bytes the stream holds (readSize)
          MaxPackets   \* packets it holds (XLINK_MAX_PACKETS_PER_STREAM)

VARIABLES queue,       \* packets written and not yet released, oldest first
          inUse,       \* how many of them, from the front, the reader has got
          open         \* FALSE once the link is gone: what it held is lost

vars == <<queue, inUse, open>>

Bytes(q) == Total([i \in DOMAIN q |-> q[i].size])

Init == queue = <<>> /\ inUse = 0 /\ open = TRUE

Write(pkt) ==
    /\ open
    /\ queue' = Append(queue, pkt)
    /\ Bytes(queue) + pkt.size <= Capacity
    /\ Len(queue) < MaxPackets
    /\ \A i \in DOMAIN queue : queue[i].id # pkt.id
    /\ UNCHANGED <<inUse, open>>

Read ==
    /\ inUse < Len(queue)
    /\ inUse' = inUse + 1
    /\ UNCHANGED <<queue, open>>

Release ==
    /\ inUse > 0
    /\ queue' = Tail(queue)
    /\ inUse' = inUse - 1
    /\ UNCHANGED open

\* The link goes down: the packets on their way are lost, those that arrived stay.
Cut ==
    /\ open
    /\ open' = FALSE
    /\ \E n \in inUse..Len(queue) : queue' = SubSeq(queue, 1, n)
    /\ UNCHANGED inUse

\* The reader's end is closed with what it still held.
Discard == ~open /\ queue' = <<>> /\ inUse' = 0 /\ UNCHANGED open

Next == (\E pkt \in Packets : Write(pkt)) \/ Read \/ Release \/ Cut \/ Discard

Spec == Init /\ [][Next]_vars
===============================================================================
