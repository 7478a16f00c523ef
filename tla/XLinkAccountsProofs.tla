-------------------------- MODULE XLinkAccountsProofs --------------------------
(***************************************************************************)
(* Theorems about what the two dispatchers of XLinkDispatcher count: the   *)
(* room a writer believes its peer has, and the packets a blocked read or  *)
(* write waits for. For any number of threads, any rings with two slots    *)
(* for each of them and any capacity of the stream, as long as a slot is   *)
(* not used again while the scheduler still looks at it (~Recycles).       *)
(***************************************************************************)
EXTENDS XLinkDispatcherProofs

-------------------------------------------------------------------------------
(* Totals. *)

\* Induction up to a bound, over a set: the least number that is missing has no predecessor.
LEMMA UpTo == ASSUME NEW n \in Nat, NEW S, 0 \in S, \A i \in 0..(n - 1) : i \in S => i + 1 \in S
              PROVE  0..n \subseteq S
<1> SUFFICES ASSUME (0..n) \ S # {} PROVE FALSE
  OBVIOUS
<1> DEFINE M == (0..n) \ S
<1>3. M \subseteq Nat
  OBVIOUS
<1> HIDE DEF M
<1>4. PICK x \in M : \A y \in M : x <= y
  BY <1>3, LeastExists DEF M
<1>1. x \in (0..n) \ S /\ \A y \in (0..n) \ S : x <= y
  BY <1>4 DEF M
<1>2. x # 0 /\ x - 1 \in 0..(n - 1) /\ x - 1 \notin (0..n) \ S
  BY <1>1
<1> QED BY <1>1, <1>2

\* The recursive definition has a function that satisfies it.
LEMMA TotalsAre ==
    ASSUME NEW s \in Seq(Nat)
    PROVE  Totals(s) = [i \in 0..Len(s) |-> IF i = 0 THEN 0 ELSE Totals(s)[i - 1] + s[i]]
<1> DEFINE Is(f, k) == f = [i \in 0..k |-> IF i = 0 THEN 0 ELSE f[i - 1] + s[i]]
           K == {k \in 0..Len(s) : \E f : Is(f, k)}
<1>1. Len(s) \in Nat
  BY LenProperties
<1>2. 0 \in K
  <2>1. Is([i \in 0..0 |-> 0], 0)
    <3>1. \A i \in 0..0 : i = 0
      OBVIOUS
    <3> QED BY <3>1
  <2>2. 0 \in 0..Len(s)
    BY <1>1
  <2> HIDE DEF Is
  <2> QED BY <2>1, <2>2
<1>3. ASSUME NEW k \in 0..(Len(s) - 1), k \in K PROVE k + 1 \in K
  <2>1. PICK f : Is(f, k)
    BY <1>3
  <2> DEFINE g == [i \in 0..(k + 1) |-> IF i = k + 1 THEN f[k] + s[k + 1] ELSE f[i]]
  <2>2. ASSUME NEW i \in 0..(k + 1) PROVE g[i] = IF i = 0 THEN 0 ELSE g[i - 1] + s[i]
    <3>1. CASE i = k + 1
      BY <3>1, <1>3
    <3>2. CASE i # k + 1
      <4>1. i \in 0..k /\ f[i] = IF i = 0 THEN 0 ELSE f[i - 1] + s[i]
        BY <3>2, <2>1, <1>3
      <4>2. i # 0 => g[i - 1] = f[i - 1]
        BY <4>1, <1>3
      <4> QED BY <4>1, <4>2, <3>2
    <3> QED BY <3>1, <3>2
  <2>3. Is(g, k + 1)
    BY <2>2
  <2>4. k + 1 \in 0..Len(s)
    BY <1>1
  <2> HIDE DEF g, Is
  <2> QED BY <2>3, <2>4
<1> HIDE DEF K
<1>4. 0..Len(s) \subseteq K
  BY <1>1, <1>2, <1>3, UpTo
<1>5. \E f : Is(f, Len(s))
  BY <1>1, <1>4 DEF K
<1>6. Totals(s) = CHOOSE f : Is(f, Len(s))
  BY DEF Totals
<1> HIDE DEF Is
<1>7. Is(Totals(s), Len(s))
  BY <1>5, <1>6
<1> QED BY <1>7 DEF Is

\* The totals of the prefixes, one by one.
LEMMA TotalsStep ==
    ASSUME NEW s \in Seq(Nat)
    PROVE  /\ Totals(s)[0] = 0
           /\ \A i \in 1..Len(s) : Totals(s)[i] = Totals(s)[i - 1] + s[i]
           /\ \A i \in 0..Len(s) : Totals(s)[i] \in Nat
<1>1. Len(s) \in Nat /\ \A i \in 1..Len(s) : s[i] \in Nat
  BY LenProperties
<1>2. Totals(s)[0] = 0
  BY <1>1, TotalsAre
<1>3. \A i \in 1..Len(s) : Totals(s)[i] = Totals(s)[i - 1] + s[i]
  BY <1>1, TotalsAre
<1> DEFINE S == {i \in Nat : Totals(s)[i] \in Nat}
<1>4. \A i \in 0..(Len(s) - 1) : i \in S => i + 1 \in S
  <2> SUFFICES ASSUME NEW i \in 0..(Len(s) - 1), i \in S PROVE Totals(s)[i + 1] \in Nat
    BY <1>1
  <2>1. i + 1 \in 1..Len(s) /\ (i + 1) - 1 = i
    BY <1>1
  <2>2. Totals(s)[i + 1] = Totals(s)[i] + s[i + 1]
    BY <2>1, <1>3
  <2> QED BY <2>1, <2>2, <1>1
<1>5. 0 \in S
  BY <1>2
<1> HIDE DEF S
<1>6. 0..Len(s) \subseteq S
  BY <1>1, <1>4, <1>5, UpTo
<1> QED BY <1>2, <1>3, <1>6 DEF S

\* The total of two sequences of numbers, one after the other.
LEMMA TotalConcat ==
    ASSUME NEW s \in Seq(Nat), NEW t \in Seq(Nat)
    PROVE  Total(s \o t) = Total(s) + Total(t)
<1> DEFINE r == s \o t
           n == Len(s)
<1>1. /\ r \in Seq(Nat) /\ n \in Nat /\ Len(t) \in Nat /\ Len(r) = n + Len(t)
      /\ \A i \in 1..n : r[i] = s[i]
      /\ \A i \in 1..Len(t) : r[n + i] = t[i]
  BY ConcatProperties, LenProperties
<1> HIDE DEF r, n
<1> DEFINE A == {i \in 0..n : Totals(r)[i] = Totals(s)[i]}
           B == {i \in 0..Len(t) : Totals(r)[n + i] = Totals(s)[n] + Totals(t)[i]}
<1>2. /\ Totals(r)[0] = 0 /\ Totals(s)[0] = 0 /\ Totals(t)[0] = 0
      /\ \A i \in 1..Len(r) : Totals(r)[i] = Totals(r)[i - 1] + r[i]
      /\ \A i \in 1..n : Totals(s)[i] = Totals(s)[i - 1] + s[i]
      /\ \A i \in 1..Len(t) : Totals(t)[i] = Totals(t)[i - 1] + t[i]
      /\ \A i \in 0..Len(t) : Totals(t)[i] \in Nat
      /\ Totals(s)[n] \in Nat
  <2>1. s \in Seq(Nat) /\ t \in Seq(Nat) /\ r \in Seq(Nat) /\ n = Len(s) /\ n \in 0..n
    BY <1>1 DEF n
  <2> QED BY <2>1, TotalsStep
<1>3. ASSUME NEW i \in 0..(n - 1), i \in A PROVE i + 1 \in A
  <2>1. i + 1 \in 1..n /\ i + 1 \in 1..Len(r) /\ (i + 1) - 1 = i /\ i + 1 \in 0..n
    BY <1>1
  <2> QED BY <2>1, <1>1, <1>2, <1>3
<1>4. 0 \in A
  BY <1>1, <1>2
<1>5. n \in A
  <2> HIDE DEF A
  <2>1. 0..n \subseteq A
    BY <1>1, <1>3, <1>4, UpTo
  <2> QED BY <2>1, <1>1
<1>6. ASSUME NEW i \in 0..(Len(t) - 1), i \in B PROVE i + 1 \in B
  <2>1. i + 1 \in 1..Len(t) /\ n + (i + 1) \in 1..Len(r) /\ (n + (i + 1)) - 1 = n + i
        /\ (i + 1) - 1 = i /\ i + 1 \in 0..Len(t) /\ t[i + 1] \in Nat
    BY <1>1
  <2>2. Totals(r)[n + (i + 1)] = Totals(r)[n + i] + r[n + (i + 1)] /\ r[n + (i + 1)] = t[i + 1]
    BY <2>1, <1>1, <1>2
  <2>3. Totals(t)[i + 1] = Totals(t)[i] + t[i + 1] /\ Totals(t)[i] \in Nat
    BY <2>1, <1>2
  <2>4. Totals(r)[n + i] = Totals(s)[n] + Totals(t)[i]
    BY <1>6
  <2> QED BY <2>1, <2>2, <2>3, <2>4, <1>2
<1>7. 0 \in B
  BY <1>1, <1>2, <1>5
<1>8. Len(t) \in B
  <2> HIDE DEF B
  <2>1. 0..Len(t) \subseteq B
    BY <1>1, <1>6, <1>7, UpTo
  <2> QED BY <2>1, <1>1
<1> QED BY <1>1, <1>8 DEF Total, r, n

\* A total is at least the sum of two of its numbers.
LEMMA TotalOfTwo ==
    ASSUME NEW s \in Seq(Nat), NEW i \in 1..Len(s), NEW j \in 1..Len(s), i < j
    PROVE  Total(s) >= s[i] + s[j]
<1>1. /\ Len(s) \in Nat /\ \A k \in 1..Len(s) : s[k] \in Nat
      /\ \A k \in 1..Len(s) : Totals(s)[k] = Totals(s)[k - 1] + s[k]
      /\ \A k \in 0..Len(s) : Totals(s)[k] \in Nat
  BY LenProperties, TotalsStep
<1> DEFINE S == {k \in 0..Len(s) : /\ k >= i => Totals(s)[k] >= s[i]
                                   /\ k >= j => Totals(s)[k] >= s[i] + s[j]}
<1>2. 0 \in S
  BY <1>1
<1>3. ASSUME NEW k \in 0..(Len(s) - 1), k \in S PROVE k + 1 \in S
  <2>1. k + 1 \in 1..Len(s) /\ (k + 1) - 1 = k /\ k + 1 \in 0..Len(s)
    BY <1>1
  <2>2. /\ Totals(s)[k + 1] = Totals(s)[k] + s[k + 1]
        /\ Totals(s)[k] \in Nat /\ s[k + 1] \in Nat /\ s[i] \in Nat /\ s[j] \in Nat
    BY <2>1, <1>1
  <2>3. k + 1 >= i => Totals(s)[k + 1] >= s[i]
    <3>1. CASE k + 1 = i
      BY <3>1, <2>2
    <3>2. CASE k >= i
      BY <3>2, <2>2, <1>3
    <3> QED BY <3>1, <3>2
  <2>4. k + 1 >= j => Totals(s)[k + 1] >= s[i] + s[j]
    <3>1. CASE k + 1 = j
      <4>1. Totals(s)[k] >= s[i]
        BY <3>1, <1>3
      <4> QED BY <3>1, <4>1, <2>2
    <3>2. CASE k >= j
      BY <3>2, <2>2, <1>3
    <3> QED BY <3>1, <3>2
  <2> QED BY <2>1, <2>3, <2>4
<1> HIDE DEF S
<1>4. 0..Len(s) \subseteq S
  BY <1>1, <1>2, <1>3, UpTo
<1>5. Len(s) \in S /\ Len(s) >= j
  BY <1>1, <1>4
<1> QED BY <1>5 DEF S, Total

-------------------------------------------------------------------------------
(* What the elements of a queue weigh together. *)

Weighed(q, f) == Total([i \in DOMAIN q |-> f[q[i]]])

\* The weights of a queue are a sequence of numbers.
LEMMA WeightsAre ==
    ASSUME NEW S, NEW q \in Seq(S), NEW f \in [S -> Nat]
    PROVE  /\ [i \in DOMAIN q |-> f[q[i]]] \in Seq(Nat)
           /\ Len([i \in DOMAIN q |-> f[q[i]]]) = Len(q)
           /\ Weighed(q, f) \in Nat
<1> DEFINE s == [i \in DOMAIN q |-> f[q[i]]]
<1>1. Len(q) \in Nat /\ DOMAIN q = 1..Len(q) /\ \A i \in 1..Len(q) : q[i] \in S
  BY LenProperties
<1>2. s \in [1..Len(q) -> Nat]
  BY <1>1
<1>3. s \in Seq(Nat) /\ Len(s) = Len(q)
  BY <1>1, <1>2
<1> HIDE DEF s
<1>4. Total(s) \in Nat
  <2>1. Len(s) \in 0..Len(s)
    BY <1>1, <1>3
  <2> QED BY <2>1, <1>3, TotalsStep DEF Total
<1> QED BY <1>3, <1>4 DEF Weighed, s

\* One queue after another.
LEMMA WeighedConcat ==
    ASSUME NEW S, NEW q \in Seq(S), NEW r \in Seq(S), NEW f \in [S -> Nat]
    PROVE  Weighed(q \o r, f) = Weighed(q, f) + Weighed(r, f)
<1> DEFINE s == [i \in DOMAIN q |-> f[q[i]]]
           t == [i \in DOMAIN r |-> f[r[i]]]
           u == [i \in DOMAIN (q \o r) |-> f[(q \o r)[i]]]
<1>1. /\ Len(q) \in Nat /\ Len(r) \in Nat /\ Len(q \o r) = Len(q) + Len(r) /\ q \o r \in Seq(S)
      /\ DOMAIN q = 1..Len(q) /\ DOMAIN r = 1..Len(r) /\ DOMAIN (q \o r) = 1..(Len(q) + Len(r))
      /\ \A i \in 1..(Len(q) + Len(r)) : (q \o r)[i] = IF i <= Len(q) THEN q[i] ELSE r[i - Len(q)]
  BY ConcatProperties, LenProperties
<1>2. s \in Seq(Nat) /\ t \in Seq(Nat) /\ u \in Seq(Nat)
      /\ Len(s) = Len(q) /\ Len(t) = Len(r) /\ Len(u) = Len(q) + Len(r)
  BY <1>1, WeightsAre
<1>3. \A i \in 1..Len(u) : u[i] = (s \o t)[i]
  <2> SUFFICES ASSUME NEW i \in 1..Len(u) PROVE u[i] = (s \o t)[i]
    OBVIOUS
  <2>1. (s \o t)[i] = IF i <= Len(s) THEN s[i] ELSE t[i - Len(s)]
    BY <1>2, ConcatProperties
  <2>2. u[i] = f[(q \o r)[i]]
    BY <1>1, <1>2
  <2>3. CASE i <= Len(q)
    BY <2>1, <2>2, <2>3, <1>1, <1>2
  <2>4. CASE i > Len(q)
    <3>1. i - Len(q) \in 1..Len(r)
      BY <2>4, <1>1, <1>2
    <3> QED BY <2>1, <2>2, <2>4, <3>1, <1>1, <1>2
  <2> QED BY <2>3, <2>4, <1>1, <1>2
<1> HIDE DEF s, t, u
<1>4. s \o t \in Seq(Nat) /\ Len(s \o t) = Len(u)
  BY <1>1, <1>2, ConcatProperties
<1>5. u = s \o t
  BY <1>2, <1>3, <1>4, SeqEqual
<1>6. Total(u) = Total(s) + Total(t)
  BY <1>2, <1>5, TotalConcat
<1> QED BY <1>6 DEF Weighed, s, t, u

\* The empty queue and a queue of one.
LEMMA WeighedFew ==
    ASSUME NEW S, NEW f \in [S -> Nat]
    PROVE  /\ Weighed(<<>>, f) = 0
           /\ \A m \in S : Weighed(<<m>>, f) = f[m]
<1>1. ASSUME NEW q \in Seq(S) 
      PROVE  Len(q) = 0 => Weighed(q, f) = 0
  <2> DEFINE s == [i \in DOMAIN q |-> f[q[i]]]
  <2>1. s \in Seq(Nat) /\ Len(s) = Len(q)
    BY WeightsAre
  <2> HIDE DEF s
  <2>2. Len(s) = 0 => Total(s) = 0
    BY <2>1, TotalsStep DEF Total
  <2> QED BY <2>1, <2>2 DEF Weighed, s
<1>2. ASSUME NEW m \in S PROVE Weighed(<<m>>, f) = f[m]
  <2> DEFINE q == <<m>>
             s == [i \in DOMAIN q |-> f[q[i]]]
  <2>1. q \in Seq(S) /\ Len(q) = 1 /\ s[1] = f[m] /\ f[m] \in Nat
    OBVIOUS
  <2>2. s \in Seq(Nat) /\ Len(s) = 1
    BY <2>1, WeightsAre
  <2>3. Weighed(q, f) = Total(s)
    BY DEF Weighed
  <2> HIDE DEF s, q
  <2>4. Total(s) = s[1]
    <3>1. 1 \in 1..Len(s) /\ 1 - 1 = 0
      BY <2>2
    <3>2. Totals(s)[1] = 0 + s[1]
      BY <3>1, <2>2, TotalsStep
    <3> QED BY <3>2, <2>1, <2>2 DEF Total
  <2> QED BY <2>1, <2>3, <2>4 DEF q
<1>3. <<>> \in Seq(S) /\ Len(<<>>) = 0
  OBVIOUS
<1> QED BY <1>1, <1>2, <1>3

\* One more element at the end of a queue, or the first one taken.
LEMMA WeighedMoves ==
    ASSUME NEW S, NEW q \in Seq(S), NEW f \in [S -> Nat]
    PROVE  /\ \A m \in S : Weighed(Append(q, m), f) = Weighed(q, f) + f[m]
           /\ q # <<>> => /\ Weighed(q, f) = f[Head(q)] + Weighed(Tail(q), f)
                          /\ Head(q) \in S /\ Tail(q) \in Seq(S)
<1>1. ASSUME NEW m \in S PROVE Weighed(Append(q, m), f) = Weighed(q, f) + f[m]
  <2>1. Append(q, m) = q \o <<m>> /\ <<m>> \in Seq(S)
    BY AppendIsConcat
  <2>2. Weighed(q \o <<m>>, f) = Weighed(q, f) + Weighed(<<m>>, f)
    BY <2>1, WeighedConcat
  <2> QED BY <2>1, <2>2, WeighedFew
<1>2. ASSUME q # <<>>
      PROVE  Weighed(q, f) = f[Head(q)] + Weighed(Tail(q), f) /\ Head(q) \in S /\ Tail(q) \in Seq(S)
  <2>1. Head(q) \in S /\ Tail(q) \in Seq(S) /\ <<Head(q)>> \in Seq(S)
    BY <1>2, HeadTailProperties
  <2>2. q = <<Head(q)>> \o Tail(q)
    <3>1. /\ <<Head(q)>> \o Tail(q) \in Seq(S) /\ Len(<<Head(q)>>) = 1
          /\ Len(<<Head(q)>> \o Tail(q)) = 1 + Len(Tail(q))
          /\ \A i \in 1..(1 + Len(Tail(q))) :
                (<<Head(q)>> \o Tail(q))[i] = IF i <= 1 THEN <<Head(q)>>[i] ELSE Tail(q)[i - 1]
      BY <2>1, ConcatProperties
    <3>2. Len(q) \in Nat \ {0} /\ Len(Tail(q)) = Len(q) - 1 /\ Head(q) = q[1]
          /\ \A i \in 1..(Len(q) - 1) : Tail(q)[i] = q[i + 1]
      BY <1>2, HeadTailProperties, EmptySeq, LenProperties
    <3>3. ASSUME NEW i \in 1..Len(q) PROVE (<<Head(q)>> \o Tail(q))[i] = q[i]
      <4>1. CASE i = 1
        BY <4>1, <3>1, <3>2
      <4>2. CASE i > 1
        <5>1. i - 1 \in 1..(Len(q) - 1) /\ (i - 1) + 1 = i
          BY <4>2, <3>2
        <5> QED BY <5>1, <4>2, <3>1, <3>2
      <4> QED BY <4>1, <4>2, <3>2
    <3> QED BY <3>1, <3>2, <3>3, SeqEqual
  <2>3. Weighed(<<Head(q)>> \o Tail(q), f) = Weighed(<<Head(q)>>, f) + Weighed(Tail(q), f)
    BY <2>1, WeighedConcat
  <2>4. Weighed(<<Head(q)>>, f) = f[Head(q)]
    BY <2>1, WeighedFew
  <2> QED BY <2>1, <2>2, <2>3, <2>4
<1> QED BY <1>1, <1>2

\* Two elements at different places weigh at most as much as the queue.
LEMMA WeighedTwo ==
    ASSUME NEW S, NEW q \in Seq(S), NEW f \in [S -> Nat],
           NEW i \in 1..Len(q), NEW j \in 1..Len(q), i # j
    PROVE  Weighed(q, f) >= f[q[i]] + f[q[j]]
<1> DEFINE s == [k \in DOMAIN q |-> f[q[k]]]
<1>1. s \in Seq(Nat) /\ Len(s) = Len(q) /\ DOMAIN q = 1..Len(q) /\ Len(q) \in Nat
  BY WeightsAre, LenProperties
<1>2. s[i] = f[q[i]] /\ s[j] = f[q[j]] /\ s[i] \in Nat /\ s[j] \in Nat
  BY <1>1
<1>3. Weighed(q, f) = Total(s)
  BY DEF Weighed
<1> HIDE DEF s
<1>4. CASE i < j
  BY <1>1, <1>2, <1>3, <1>4, TotalOfTwo
<1>5. CASE j < i
  <2>1. Total(s) >= s[j] + s[i]
    BY <1>1, <1>5, TotalOfTwo
  <2> QED BY <2>1, <1>2, <1>3
<1> QED BY <1>4, <1>5, <1>1
-------------------------------------------------------------------------------
(* What is on its way between the two ends. *)

\* A message in flight carries the id of the call it belongs to.
Letter == [type : {"WRITE", "RELEASE", "RESET", "NONE", "WRITE_RESP", "RELEASE_RESP", "RESET_RESP"},
           size : Nat, id : Threads \X Nat]

LetterOf(e) == [type |-> e.type, size |-> e.size, id |-> e.id]

\* What the scheduler is about to send: an event it has served, or a response.
Sealed(p) == IF sched[p].at = "send" /\ ~lQueue[p][sched[p].slot].localServe
             THEN <<LetterOf(lQueue[p][sched[p].slot])>> ELSE <<>>
Out(p) == IF sched[p].at = "reply" THEN <<sched[p].msg>> ELSE Sealed(p)

\* What has arrived at p and what is under way from p, by weight.
Here(p, f)  == Weighed(rQueue[p], f) + Weighed(Adding(p), f)
There(p, f) == Weighed(wire[p], f) + Weighed(Out(p), f)

\* The weights: the messages of a type, by number or by bytes; those about a thread's call.
Cost(type, bytes) ==
    [m \in Mail |-> IF m.type # type THEN 0 ELSE IF bytes THEN m.size ELSE 1]
About(t) == [m \in Mail |-> IF \E n \in Nat : m.id = <<t, n>> THEN 1 ELSE 0]

\* A thread whose request was sent and has no response yet.
Asks(t) == \E s \in InState(PeerOf(t), "PENDING") : lQueue[PeerOf(t)][s].thread = t

\* At most one message, request or response, is about a thread's call, and only while the
\* event is pending: so there are never more messages than threads.
Posted(p) ==
    /\ rQueue[p] \in Seq(Letter) /\ wire[p] \in Seq(Letter)
    /\ Adding(p) \in Seq(Letter) /\ Out(p) \in Seq(Letter)
    /\ sched[p].at # "reply" => sched[p].msg = NoRequest

Named == \A t \in Threads : pc[t] # "idle" => \E n \in Nat : call[t].id = <<t, n>>

Flight(f) == Here(Host, f) + There(Host, f) + Here(Device, f) + There(Device, f)

Traffic ==
    /\ Named
    /\ \A p \in Peers : Posted(p)
    /\ \A t \in Threads : Flight(About(t)) <= IF Asks(t) THEN 1 ELSE 0

\* The accounts of a writer, in packets and in bytes: what it believes its peer to hold, and
\* what there is: packets on their way, packets the peer holds, releases on their way back.
Believed(p, bytes) == IF bytes THEN stream[p].remoteFill ELSE stream[p].remotePackets
Kept(p, bytes) == IF bytes THEN stream[p].localFill
                  ELSE Len(stream[p].available) + Len(stream[p].blocked)
Owing(p, bytes) ==
    There(p, Cost("WRITE", bytes)) + Kept(Other(p), bytes)
    + There(Other(p), Cost("RELEASE", bytes)) + Here(p, Cost("RELEASE", bytes))

Accounts ==
    \A p \in Peers, bytes \in BOOLEAN :
        /\ Owing(p, bytes) <= Believed(p, bytes)
        /\ Working => Owing(p, bytes) = Believed(p, bytes)

\* The fill level of the stream is the size of the packets it holds.
Bulk == [k \in Packet |-> k.size]
Stored(p) == stream[p].localFill = Weighed(stream[p].blocked, Bulk) + Weighed(stream[p].available, Bulk)

Balanced == Traffic /\ Accounts /\ \A p \in Peers : Stored(p)

\* The inductive invariant.
AccInv == IndInv /\ (up => Balanced)

-------------------------------------------------------------------------------
(* How much is on its way. *)

\* A letter is a message, and a queue of letters is a queue of messages.
LEMMA LettersAre ==
    /\ Letter \subseteq Mail
    /\ \A q \in Seq(Letter) : q \in Seq(Mail)
<1>1. Letter \subseteq Mail
  BY DEF Letter, Mail, Ids
<1>2. ASSUME NEW q \in Seq(Letter) PROVE q \in Seq(Mail)
  <2>1. Len(q) \in Nat /\ q \in [1..Len(q) -> Letter]
    BY LenProperties
  <2>2. q \in [1..Len(q) -> Mail]
    BY <2>1, <1>1
  <2> QED BY <2>1, <2>2
<1> QED BY <1>1, <1>2

\* The weights: natural numbers, for every message.
LEMMA CostIs ==
    ASSUME NEW type, NEW bytes \in BOOLEAN
    PROVE  /\ Cost(type, bytes) \in [Mail -> Nat]
           /\ \A m \in Mail : Cost(type, bytes)[m] =
                 IF m.type # type THEN 0 ELSE IF bytes THEN m.size ELSE 1
<1>1. \A m \in Mail : m.size \in Nat
  BY DEF Mail
<1> QED BY <1>1 DEF Cost

\* The weight of a message for a thread is 1 if the message carries an id of its calls.
LEMMA AboutIs ==
    ASSUME NEW t \in Threads
    PROVE  /\ About(t) \in [Mail -> Nat]
           /\ \A m \in Mail : About(t)[m] = IF \E n \in Nat : m.id = <<t, n>> THEN 1 ELSE 0
  BY DEF About

\* What is here and there weighs a natural number.
LEMMA PostedIs ==
    ASSUME NEW p \in Peers, Posted(p), NEW f \in [Mail -> Nat]
    PROVE  /\ Weighed(rQueue[p], f) \in Nat /\ Weighed(wire[p], f) \in Nat
           /\ Weighed(Adding(p), f) \in Nat /\ Weighed(Out(p), f) \in Nat
           /\ Here(p, f) \in Nat /\ There(p, f) \in Nat
<1>1. rQueue[p] \in Seq(Mail) /\ wire[p] \in Seq(Mail) /\ Adding(p) \in Seq(Mail) /\ Out(p) \in Seq(Mail)
  BY LettersAre DEF Posted
<1>2. /\ Weighed(rQueue[p], f) \in Nat /\ Weighed(wire[p], f) \in Nat
      /\ Weighed(Adding(p), f) \in Nat /\ Weighed(Out(p), f) \in Nat
  BY <1>1, WeightsAre
<1> QED BY <1>2 DEF Here, There

\* The mail of an end that is not touched.
LEMMA QuietMail ==
    ASSUME NEW p \in Peers, Posted(p), rQueue'[p] = rQueue[p], wire'[p] = wire[p],
           Adding(p)' = Adding(p), Out(p)' = Out(p),
           sched'[p].at # "reply" => sched'[p].msg = NoRequest
    PROVE  /\ Posted(p)'
           /\ \A f : Here(p, f)' = Here(p, f) /\ There(p, f)' = There(p, f)
<1>1. Posted(p)'
  BY DEF Posted
<1>2. ASSUME NEW f PROVE Here(p, f)' = Here(p, f) /\ There(p, f)' = There(p, f)
  BY DEF Here, There
<1> QED BY <1>1, <1>2

\* The messages in flight, from either end.
LEMMA FlightIs ==
    ASSUME NEW p \in Peers, \A r \in Peers : Posted(r), NEW f \in [Mail -> Nat]
    PROVE  /\ Flight(f) = Here(p, f) + There(p, f) + Here(Other(p), f) + There(Other(p), f)
           /\ Here(p, f) \in Nat /\ There(p, f) \in Nat
           /\ Here(Other(p), f) \in Nat /\ There(Other(p), f) \in Nat
<1>1. \A r \in Peers : Here(r, f) \in Nat /\ There(r, f) \in Nat
  BY PostedIs
<1>2. (p = Host /\ Other(p) = Device) \/ (p = Device /\ Other(p) = Host)
  BY Ends
<1>3. Host \in Peers /\ Device \in Peers
  BY Ends
<1> QED BY <1>1, <1>2, <1>3 DEF Flight

\* A message is about one thread's call.
LEMMA AboutOne ==
    ASSUME NEW m \in Letter
    PROVE  \E t \in Threads : /\ \E n \in Nat : m.id = <<t, n>>
                              /\ \A u \in Threads : About(u)[m] = IF u = t THEN 1 ELSE 0
<1>1. PICK t \in Threads, n \in Nat : m.id = <<t, n>>
  BY DEF Letter
<1>2. ASSUME NEW u \in Threads PROVE About(u)[m] = IF u = t THEN 1 ELSE 0
  <2>1. m \in Mail
    BY LettersAre
  <2>2. (\E k \in Nat : m.id = <<u, k>>) <=> u = t
    BY <1>1
  <2> QED BY <2>1, <2>2, AboutIs
<1> QED BY <1>1, <1>2

-------------------------------------------------------------------------------
(* Steps that leave what is on its way as it is. *)

\* A step that sends, takes and counts nothing.
LEMMA Quiet ==
    ASSUME Balanced, stream' = stream, Named', Working' => Working,
           \A p \in Peers : /\ rQueue'[p] = rQueue[p] /\ wire'[p] = wire[p]
                            /\ Adding(p)' = Adding(p) /\ Out(p)' = Out(p)
                            /\ sched'[p].at # "reply" => sched'[p].msg = NoRequest,
           \A t \in Threads : Asks(t) => Asks(t)'
    PROVE  Balanced'
<1>1. ASSUME NEW p \in Peers
      PROVE  /\ Posted(p)'
             /\ \A f : Here(p, f)' = Here(p, f) /\ There(p, f)' = There(p, f)
  BY QuietMail DEF Balanced, Traffic
<1>2. Traffic'
  <2>1. \A f : Flight(f)' = Flight(f)
    BY <1>1, Ends DEF Flight
  <2>2. ASSUME NEW t \in Threads PROVE Flight(About(t))' <= (IF Asks(t)' THEN 1 ELSE 0)
    <3>1. Flight(About(t)) <= (IF Asks(t) THEN 1 ELSE 0) /\ Flight(About(t)) \in Nat
      BY AboutIs, FlightIs, Ends DEF Balanced, Traffic
    <3>2. Flight(About(t))' = Flight(About(t))
      BY <2>1
    <3> QED BY <3>1, <3>2
  <2> QED BY <1>1, <2>2 DEF Traffic
<1>3. Accounts'
  <2> SUFFICES ASSUME NEW p \in Peers, NEW b \in BOOLEAN
               PROVE  /\ Owing(p, b)' <= Believed(p, b)'
                      /\ Working' => Owing(p, b)' = Believed(p, b)'
    BY DEF Accounts
  <2>1. Owing(p, b)' = Owing(p, b)
    BY <1>1, Ends DEF Owing, Kept
  <2>2. Believed(p, b)' = Believed(p, b)
    BY DEF Believed
  <2> QED BY <2>1, <2>2 DEF Balanced, Accounts
<1>4. \A p \in Peers : Stored(p)'
  BY DEF Balanced, Stored
<1> QED BY <1>2, <1>3, <1>4 DEF Balanced

\* A call gets its id, and nothing is sent yet.
LEMMA CallBalances ==
    ASSUME AtWork, Balanced, NEW t \in Threads, NEW op, Call(t, op), Working' => Working
    PROVE  Balanced'
<1>1. CallTypes /\ Named /\ \A p \in Peers : Posted(p)
  BY DEF AtWork, Balanced, Traffic
<1>2. /\ UNCHANGED <<lQueue, rQueue, wire, sched, reader, stream>>
      /\ pc' = [pc EXCEPT ![t] = "add"]
      /\ call' = [call EXCEPT ![t] = [type |-> op.type, size |-> op.size, id |-> <<t, left[t]>>]]
  BY DEF Call, queues
<1>3. Named'
  <2> SUFFICES ASSUME NEW u \in Threads, pc'[u] # "idle" PROVE \E n \in Nat : call'[u].id = <<u, n>>
    BY DEF Named
  <2>1. CASE u = t
    <3>1. left[t] \in Nat /\ call'[t].id = <<t, left[t]>>
      BY <1>1, <1>2 DEF CallTypes
    <3> QED BY <3>1, <2>1
  <2>2. CASE u # t
    BY <2>2, <1>1, <1>2 DEF CallTypes, Named
  <2> QED BY <2>1, <2>2
<1>4. \A p \in Peers : Adding(p)' = Adding(p) /\ Out(p)' = Out(p)
  BY <1>2 DEF Adding, Out, Sealed
<1>5. \A u \in Threads : Asks(u)' = Asks(u)
  BY <1>2 DEF Asks, InState
<1>6. \A p \in Peers : sched'[p].at # "reply" => sched'[p].msg = NoRequest
  BY <1>1, <1>2 DEF Posted
<1> QED BY <1>2, <1>3, <1>4, <1>5, <1>6, Quiet

\* A return leaves everything that is on its way.
LEMMA ReturnBalances ==
    ASSUME AtWork, Balanced, NEW t \in Threads, Return(t), Working' => Working
    PROVE  Balanced'
<1>1. CallTypes /\ Named /\ \A p \in Peers : Posted(p)
  BY DEF AtWork, Balanced, Traffic
<1>2. /\ UNCHANGED <<lQueue, rQueue, wire, sched, reader, stream>>
      /\ pc' = [pc EXCEPT ![t] = "idle"]
      /\ call' = [call EXCEPT ![t] = NoRequest]
  BY DEF Return, queues
<1>3. Named'
  BY <1>1, <1>2 DEF CallTypes, Named
<1>4. \A p \in Peers : Adding(p)' = Adding(p) /\ Out(p)' = Out(p)
  BY <1>2 DEF Adding, Out, Sealed
<1>5. \A u \in Threads : Asks(u)' = Asks(u)
  BY <1>2 DEF Asks, InState
<1>6. \A p \in Peers : sched'[p].at # "reply" => sched'[p].msg = NoRequest
  BY <1>1, <1>2 DEF Posted
<1> QED BY <1>2, <1>3, <1>4, <1>5, <1>6, Quiet

\* A call that is added fills a free slot, if there is one, and nothing else.
LEMMA AddIs ==
    ASSUME EndTypes, CallTypes, NEW t \in Threads, Add(t)
    PROVE  \/ lQueue' = lQueue
           \/ \E s \in Slots, f \in Event :
                 /\ s = FirstFrom(InState(PeerOf(t), "SERVED"), cur[PeerOf(t)])
                 /\ lQueue[PeerOf(t)][s].state = "SERVED"
                 /\ lQueue' = [lQueue EXCEPT ![PeerOf(t)][s] = f]
                 /\ f.state = "ALLOCATED" /\ f.type = call[t].type /\ f.size = call[t].size
                 /\ f.thread = t
<1> DEFINE o == PeerOf(t)
           F == InState(o, "SERVED")
           s == FirstFrom(F, cur[o])
           f == [state |-> "ALLOCATED", type |-> call[t].type, id |-> call[t].id,
                 size |-> call[t].size, thread |-> t, localServe |-> FALSE, ack |-> FALSE]
<1>1. CASE sched[o].at = "closed" \/ F = {}
  BY <1>1 DEF Add
<1>2. CASE ~(sched[o].at = "closed" \/ F = {})
  <2>1. o \in Peers /\ cur[o] \in Slots /\ F \subseteq Slots
    BY Ends DEF EndTypes, InState
  <2>2. s \in F /\ s \in Slots
    BY <1>2, <2>1, FirstFromIs
  <2>3. lQueue' = [lQueue EXCEPT ![o][s] = f]
    BY <1>2 DEF Add
  <2>4. call[t] \in Request
    BY DEF CallTypes
  <2>5. f \in Event
    BY <2>4 DEF Event, Request
  <2>6. lQueue[o][s].state = "SERVED"
    BY <2>2 DEF InState
  <2> HIDE DEF s
  <2> QED BY <2>2, <2>3, <2>5, <2>6 DEF s
<1> QED BY <1>1, <1>2

\* An event comes into a free slot, which is not the one the scheduler is about to send.
LEMMA AddBalances ==
    ASSUME AtWork, Balanced, ~Recycles, NEW t \in Threads, Add(t), Working' => Working
    PROVE  Balanced'
<1>1. EndTypes /\ CallTypes /\ Named /\ \A p \in Peers : Posted(p)
  BY DEF AtWork, Balanced, Traffic
<1> DEFINE o == PeerOf(t)
           F == InState(o, "SERVED")
           s == FirstFrom(F, cur[o])
<1>2. /\ UNCHANGED <<rQueue, wire, sched, reader, stream>>
      /\ o \in Peers /\ cur[o] \in Slots /\ F \subseteq Slots
      /\ pc[t] = "add" /\ (sched[o].at # "send" \/ s # sched[o].slot)
  BY <1>1, Ends DEF Add, EndTypes, InState
<1>3. Named'
  <2>1. pc' \in {[pc EXCEPT ![t] = "wait"], [pc EXCEPT ![t] = "idle"]}
        /\ (call' = call \/ (pc' = [pc EXCEPT ![t] = "idle"] /\ call' = [call EXCEPT ![t] = NoRequest]))
    BY DEF Add
  <2> QED BY <2>1, <1>1, <1>2 DEF CallTypes, Named
<1>4. \/ lQueue' = lQueue
      \/ /\ s \in Slots /\ lQueue[o][s].state = "SERVED"
         /\ lQueue'[o][s].state = "ALLOCATED"
         /\ \A r \in Slots : r # s => lQueue'[o][r] = lQueue[o][r]
         /\ \A p \in Peers : p # o => lQueue'[p] = lQueue[p]
  <2>1. CASE lQueue' = lQueue
    BY <2>1
  <2>2. ASSUME NEW r \in Slots, NEW f \in Event, r = s, lQueue[o][r].state = "SERVED",
               lQueue' = [lQueue EXCEPT ![o][r] = f], f.state = "ALLOCATED"
        PROVE  /\ s \in Slots /\ lQueue[o][s].state = "SERVED"
               /\ lQueue'[o][s].state = "ALLOCATED"
               /\ \A x \in Slots : x # s => lQueue'[o][x] = lQueue[o][x]
               /\ \A p \in Peers : p # o => lQueue'[p] = lQueue[p]
    <3> HIDE DEF o, s
    <3>0. EndTypes /\ o \in Peers /\ r \in Slots /\ f \in Event
      BY <2>2, <1>1, <1>2
    <3>3. lQueue' = [lQueue EXCEPT ![o][r] = f]
      BY <2>2
    <3>1. /\ lQueue'[o][r] = f
          /\ \A x \in Slots : x # r => lQueue'[o][x] = lQueue[o][x]
          /\ \A p \in Peers : p # o => lQueue'[p] = lQueue[p]
      BY <3>0, <3>3, PutTypes
    <3> QED BY <3>1, <2>2
  <2> QED BY <2>1, <2>2, <1>1, AddIs
<1> HIDE DEF s
<1>5. \A p \in Peers : Adding(p)' = Adding(p)
  BY <1>2 DEF Adding
<1>6. ASSUME NEW p \in Peers PROVE Out(p)' = Out(p)
  <2>1. sched[p].slot \in Slots
    BY <1>1 DEF EndTypes, Places
  <2>2. sched[p].at = "send" => lQueue'[p][sched[p].slot] = lQueue[p][sched[p].slot]
    BY <2>1, <1>2, <1>4
  <2> QED BY <2>2, <1>2 DEF Out, Sealed
<1>7. \A p \in Peers, r \in Slots : lQueue[p][r].state = "PENDING" => lQueue'[p][r] = lQueue[p][r]
  BY <1>4
<1>8. \A u \in Threads : Asks(u) => Asks(u)'
  BY <1>7, Ends DEF Asks, InState
<1>9. \A p \in Peers : sched'[p].at # "reply" => sched'[p].msg = NoRequest
  BY <1>1, <1>2 DEF Posted
<1> QED BY <1>2, <1>3, <1>5, <1>6, <1>8, <1>9, Quiet

\* A NULL event, or the end of a loop.
LEMMA StopBalances ==
    ASSUME AtWork, Balanced, NEW p \in Peers, SchedNull(p) \/ SchedStop(p) \/ ReaderStop(p),
           Working' => Working
    PROVE  Balanced'
<1>1. EndTypes /\ Named /\ (\A r \in Peers : Posted(r)) /\ \A r \in Peers : Ring(r)
  BY DEF AtWork, Balanced, Traffic
<1>2. /\ UNCHANGED <<lQueue, rQueue, wire, stream, pc, call>>
  <2>1. CASE SchedNull(p)
    <3>1. UNCHANGED <<lQueue, wire, stream, pc, call>> /\ TakeNext(p) /\ NextEvent(p) = "none"
      BY <2>1 DEF SchedNull, threads
    <3>2. rQueue' = rQueue
      BY <3>1, <1>1 DEF TakeNext, EndTypes
    <3> QED BY <3>1, <3>2
  <2>2. CASE SchedStop(p) \/ ReaderStop(p)
    BY <2>2 DEF SchedStop, ReaderStop, queues, threads
  <2> QED BY <2>1, <2>2
<1>3. \/ reader' = reader /\ \E l \in {"join", "get"} : sched' = [sched EXCEPT ![p].at = l] /\ sched[p].at = "get"
      \/ sched' = sched /\ reader' = [reader EXCEPT ![p].at = "exit"] /\ reader[p].at = "recv"
  BY DEF SchedNull, SchedStop, ReaderStop, GoTo, LoopUnless, Running
<1>4. \A r \in Peers : Adding(r)' = Adding(r)
  BY <1>1, <1>3 DEF Adding, EndTypes
<1>5. \A r \in Peers : Out(r)' = Out(r)
  BY <1>1, <1>2, <1>3 DEF Out, Sealed, EndTypes, Places
<1>6. \A u \in Threads : Asks(u)' = Asks(u)
  BY <1>2 DEF Asks, InState
<1>7. \A r \in Peers : sched'[r].at # "reply" => sched'[r].msg = NoRequest
  <2> SUFFICES ASSUME NEW r \in Peers PROVE sched'[r].at # "reply" => sched'[r].msg = NoRequest
    OBVIOUS
  <2>1. sched[r].at # "reply" => sched[r].msg = NoRequest
    BY <1>1 DEF Posted
  <2>2. sched'[r].msg = sched[r].msg /\ (sched[r].at = "reply" => sched'[r].at = "reply")
    <3>1. CASE sched' = sched
      BY <3>1
    <3>2. ASSUME NEW l, sched' = [sched EXCEPT ![p].at = l], sched[p].at = "get"
          PROVE  sched'[r].msg = sched[r].msg /\ (sched[r].at = "reply" => sched'[r].at = "reply")
      BY <3>2, <1>1 DEF EndTypes, Places
    <3> QED BY <3>1, <3>2, <1>3
  <2> QED BY <2>1, <2>2
<1>8. Named'
  BY <1>1, <1>2 DEF Named
<1> QED BY <1>2, <1>4, <1>5, <1>6, <1>7, <1>8, Quiet

-------------------------------------------------------------------------------
(* Steps that send, receive and queue. *)

\* What is sent moves from the scheduler to the wire.
LEMMA SendMoves ==
    ASSUME NEW p \in Peers, Posted(p), rQueue'[p] = rQueue[p], Adding(p)' = Adding(p),
           \/ wire'[p] = wire[p] /\ Out(p) = <<>>
           \/ \E m \in Letter : wire'[p] = Append(wire[p], m) /\ Out(p) = <<m>>,
           Out(p)' = <<>>, sched'[p].msg = NoRequest
    PROVE  /\ Posted(p)'
           /\ \A f \in [Mail -> Nat] : Here(p, f)' = Here(p, f) /\ There(p, f)' = There(p, f)
<1>1. Posted(p)'
  <2>1. wire'[p] \in Seq(Letter) /\ Out(p)' \in Seq(Letter)
    <3>1. wire[p] \in Seq(Letter) /\ <<>> \in Seq(Letter)
      BY DEF Posted
    <3>2. \A m \in Letter : Append(wire[p], m) \in Seq(Letter)
      BY <3>1, AppendProperties
    <3> QED BY <3>1, <3>2
  <2> QED BY <2>1 DEF Posted
<1>2. ASSUME NEW f \in [Mail -> Nat] PROVE Here(p, f)' = Here(p, f) /\ There(p, f)' = There(p, f)
  <2>1. Here(p, f)' = Here(p, f)
    BY DEF Here
  <2>2. wire[p] \in Seq(Mail) /\ Weighed(wire[p], f) \in Nat
    BY LettersAre, PostedIs DEF Posted
  <2>3. CASE wire'[p] = wire[p] /\ Out(p) = <<>>
    BY <2>1, <2>3 DEF There
  <2>4. ASSUME NEW m \in Letter, wire'[p] = Append(wire[p], m), Out(p) = <<m>>
        PROVE  There(p, f)' = There(p, f)
    <3>4. Weighed(Append(wire[p], m), f) = Weighed(wire[p], f) + f[m]
      BY <2>2, LettersAre, WeighedMoves
    <3>1. m \in Mail /\ f[m] \in Nat
      BY LettersAre
    <3>2. Weighed(wire'[p], f) = Weighed(wire[p], f) + f[m]
      BY <2>4, <3>4
    <3>3. Weighed(Out(p), f) = f[m] /\ Weighed(<<>>, f) = 0
      BY <2>4, <3>1, WeighedFew
    <3> QED BY <2>2, <3>1, <3>2, <3>3 DEF There
  <2> QED BY <2>1, <2>3, <2>4
<1> QED BY <1>1, <1>2

\* A step that only moves messages at each end, without a change of what they weigh there.
LEMMA EvenMoves ==
    ASSUME Balanced, stream' = stream, Named', Working' => Working,
           \A p \in Peers : /\ Posted(p)'
                            /\ \A f \in [Mail -> Nat] : Here(p, f)' = Here(p, f) /\ There(p, f)' = There(p, f),
           \A t \in Threads : Asks(t) => Asks(t)'
    PROVE  Balanced'
<1>1. ASSUME NEW t \in Threads PROVE Flight(About(t))' <= (IF Asks(t)' THEN 1 ELSE 0)
  <2>1. Flight(About(t)) <= (IF Asks(t) THEN 1 ELSE 0) /\ Flight(About(t)) \in Nat
    BY AboutIs, FlightIs, Ends DEF Balanced, Traffic
  <2>2. Flight(About(t))' = Flight(About(t))
    BY AboutIs, Ends DEF Flight
  <2> QED BY <2>1, <2>2
<1>2. Accounts'
  <2> SUFFICES ASSUME NEW p \in Peers, NEW b \in BOOLEAN
               PROVE  /\ Owing(p, b)' <= Believed(p, b)'
                      /\ Working' => Owing(p, b)' = Believed(p, b)'
    BY DEF Accounts
  <2>1. Owing(p, b)' = Owing(p, b)
    <3>1. Cost("WRITE", b) \in [Mail -> Nat] /\ Cost("RELEASE", b) \in [Mail -> Nat]
      BY CostIs
    <3> QED BY <3>1, Ends DEF Owing, Kept
  <2>2. Believed(p, b)' = Believed(p, b)
    BY DEF Believed
  <2> QED BY <2>1, <2>2 DEF Balanced, Accounts
<1>3. \A p \in Peers : Stored(p)'
  BY DEF Balanced, Stored
<1> QED BY <1>1, <1>2, <1>3 DEF Balanced, Traffic

\* What the scheduler sends moves from it to the wire.
LEMMA SendBalances ==
    ASSUME AtWork, up, Balanced, NEW p \in Peers, SchedSend(p) \/ SchedReply(p), Working' => Working
    PROVE  Balanced'
<1>1. EndTypes /\ CallTypes /\ Named /\ \A r \in Peers : Posted(r)
  BY DEF AtWork, Balanced, Traffic
<1> DEFINE e == lQueue[p][sched[p].slot]
<1>2. /\ UNCHANGED <<lQueue, rQueue, reader, stream, pc, call>>
      /\ \E l \in {"join", "get"} :
            \/ sched' = [sched EXCEPT ![p].slot = 1, ![p].at = l] /\ sched[p].at = "send"
            \/ sched' = [sched EXCEPT ![p].msg = NoRequest, ![p].at = l] /\ sched[p].at = "reply"
  BY DEF SchedSend, SchedReply, LoopUnless, queues, threads
<1>3. \A r \in Peers : Adding(r)' = Adding(r) /\ rQueue'[r] = rQueue[r]
  BY <1>2 DEF Adding
<1>4. sched[p].at # "reply" => sched[p].msg = NoRequest
  BY <1>1 DEF Posted
<1>5. Out(p)' = <<>> /\ sched'[p].msg = NoRequest
  BY <1>1, <1>2, <1>4 DEF Out, Sealed, EndTypes, Places
<1>6. /\ wire \in [Peers -> Seq(Mail)]
      /\ \/ wire' = wire /\ Out(p) = <<>>
         \/ \E m \in Letter : wire' = [wire EXCEPT ![p] = Append(@, m)] /\ Out(p) = <<m>>
  <2>1. Out(p) = <<>> \/ (Out(p) \in Seq(Letter) /\ Out(p) = <<Out(p)[1]>> /\ Out(p)[1] \in Letter)
    <3>1. Out(p) = <<>> \/ Out(p) = <<Out(p)[1]>>
      BY DEF Out, Sealed
    <3>2. Out(p) \in Seq(Letter)
      BY <1>1 DEF Posted
    <3>3. Out(p) = <<Out(p)[1]>> => Len(Out(p)) = 1
      BY <3>2
    <3> QED BY <3>1, <3>2, <3>3
  <2>2. CASE SchedSend(p)
    <3>1. sched[p].at = "send" /\ wire' = IF ~e.localServe THEN [wire EXCEPT ![p] = Append(@, LetterOf(e))] ELSE wire
      BY <2>2 DEF SchedSend, LetterOf
    <3>2. Out(p) = IF ~e.localServe THEN <<LetterOf(e)>> ELSE <<>>
      BY <3>1 DEF Out, Sealed
    <3>3. CASE e.localServe
      BY <3>1, <3>2, <3>3, <1>1 DEF EndTypes
    <3>4. CASE ~e.localServe
      <4>1. Out(p) # <<>> /\ LetterOf(e) = Out(p)[1]
        BY <3>2, <3>4
      <4> QED BY <4>1, <3>1, <3>2, <3>4, <2>1, <1>1 DEF EndTypes
    <3> QED BY <3>3, <3>4
  <2>3. CASE SchedReply(p)
    <3>1. sched[p].at = "reply" /\ wire' = [wire EXCEPT ![p] = Append(@, sched[p].msg)]
      BY <2>3 DEF SchedReply
    <3>2. Out(p) = <<sched[p].msg>>
      BY <3>1 DEF Out
    <3>3. Out(p) # <<>> /\ sched[p].msg = Out(p)[1]
      BY <3>2
    <3> QED BY <3>1, <3>2, <3>3, <2>1, <1>1 DEF EndTypes
  <2> QED BY <2>2, <2>3
<1>7. ASSUME NEW r \in Peers
      PROVE  /\ Posted(r)'
             /\ \A f \in [Mail -> Nat] : Here(r, f)' = Here(r, f) /\ There(r, f)' = There(r, f)
  <2>1. CASE r = p
    <3>1. \/ wire'[p] = wire[p] /\ Out(p) = <<>>
          \/ \E m \in Letter : wire'[p] = Append(wire[p], m) /\ Out(p) = <<m>>
      BY <1>6
    <3> QED BY <2>1, <3>1, <1>1, <1>3, <1>5, SendMoves
  <2>2. CASE r # p
    <3>1. wire'[r] = wire[r] /\ sched'[r] = sched[r]
      BY <2>2, <1>1, <1>2, <1>6 DEF EndTypes
    <3>2. Out(r)' = Out(r) /\ (sched'[r].at # "reply" => sched'[r].msg = NoRequest)
      BY <3>1, <1>1, <1>2 DEF Out, Sealed, Posted
    <3> QED BY <3>1, <3>2, <1>1, <1>3, QuietMail
  <2> QED BY <2>1, <2>2
<1>8. \A u \in Threads : Asks(u)' = Asks(u)
  BY <1>2 DEF Asks, InState
<1>9. Named'
  BY <1>1, <1>2 DEF Named
<1> QED BY <1>2, <1>7, <1>8, <1>9, EvenMoves

\* A message that arrives goes from the wire to the reader.
LEMMA ReceiveMoves ==
    ASSUME NEW p \in Peers, NEW q \in Peers, p # q, Posted(p), Posted(q), wire[q] # <<>>,
           wire'[q] = Tail(wire[q]), wire'[p] = wire[p],
           Adding(p) = <<>>, Adding(p)' = <<Head(wire[q])>> \/ Adding(p)' = <<>>, Adding(q)' = Adding(q),
           sched' = sched, lQueue' = lQueue, rQueue' = rQueue
    PROVE  /\ Posted(p)' /\ Posted(q)' /\ Head(wire[q]) \in Letter
           /\ \A f \in [Mail -> Nat] :
                 /\ Adding(p)' # <<>> => Here(p, f)' = Here(p, f) + f[Head(wire[q])]
                 /\ There(q, f)' = There(q, f) - f[Head(wire[q])]
                 /\ There(p, f)' = There(p, f) /\ Here(q, f)' = Here(q, f)
<1> DEFINE m == Head(wire[q])
<1>1. m \in Letter /\ Tail(wire[q]) \in Seq(Letter) /\ m \in Mail /\ wire[q] \in Seq(Mail)
  BY HeadIs, LettersAre DEF Posted
<1>2. Out(p)' = Out(p) /\ Out(q)' = Out(q)
  BY DEF Out, Sealed
<1>3. Posted(p)' /\ Posted(q)'
  <2>1. <<m>> \in Seq(Letter) /\ <<>> \in Seq(Letter)
    BY <1>1
  <2> HIDE DEF m
  <2> QED BY <2>1, <1>1, <1>2 DEF Posted, m
<1>4. ASSUME NEW f \in [Mail -> Nat]
      PROVE  /\ Adding(p)' # <<>> => Here(p, f)' = Here(p, f) + f[m]
             /\ There(q, f)' = There(q, f) - f[m]
             /\ There(p, f)' = There(p, f) /\ Here(q, f)' = Here(q, f)
  <2>1. /\ Weighed(wire[q], f) = f[m] + Weighed(Tail(wire[q]), f)
        /\ Weighed(<<m>>, f) = f[m] /\ Weighed(<<>>, f) = 0 /\ f[m] \in Nat
    BY <1>1, WeighedMoves, WeighedFew
  <2>2. /\ Weighed(rQueue[p], f) \in Nat /\ Weighed(Out(q), f) \in Nat
        /\ Weighed(Tail(wire[q]), f) \in Nat
    <3>1. Tail(wire[q]) \in Seq(Mail)
      BY <1>1, LettersAre
    <3> QED BY <3>1, PostedIs, WeightsAre
  <2> HIDE DEF m
  <2>3. Adding(p)' # <<>> => Here(p, f)' = Here(p, f) + f[m]
    <3>1. ASSUME Adding(p)' # <<>> PROVE Here(p, f)' = Weighed(rQueue[p], f) + f[m]
      <4>1. Adding(p)' = <<m>>
        BY <3>1 DEF m
      <4> QED BY <4>1, <2>1 DEF Here
    <3>2. Here(p, f) = Weighed(rQueue[p], f) + 0
      BY <2>1 DEF Here
    <3> QED BY <3>1, <3>2, <2>1, <2>2
  <2>4. There(q, f)' = There(q, f) - f[m]
    <3>1. There(q, f)' = Weighed(Tail(wire[q]), f) + Weighed(Out(q), f)
      BY <1>2 DEF There
    <3>2. There(q, f) = f[m] + Weighed(Tail(wire[q]), f) + Weighed(Out(q), f)
      BY <2>1 DEF There
    <3> QED BY <3>1, <3>2, <2>1, <2>2
  <2>5. There(p, f)' = There(p, f) /\ Here(q, f)' = Here(q, f)
    BY <1>2 DEF There, Here
  <2> QED BY <2>3, <2>4, <2>5
<1> QED BY <1>1, <1>3, <1>4

\* What the arrival of a message does: a packet goes to the stream before its event is queued.
LEMMA ReceiveIs ==
    ASSUME AtWork, Balanced, NEW p \in Peers, Receive(p), NEW q \in Peers, q = Other(p)
    PROVE  LET m == Head(wire[q])
           IN  /\ Posted(p)' /\ Posted(q)' /\ m \in Letter
               /\ \A f \in [Mail -> Nat] :
                     /\ Here(p, f)' = Here(p, f) + f[m] /\ There(q, f)' = There(q, f) - f[m]
                     /\ There(p, f)' = There(p, f) /\ Here(q, f)' = Here(q, f)
               /\ stream'[q] = stream[q] /\ stream'[p].blocked = stream[p].blocked
               /\ stream'[p].remoteFill = stream[p].remoteFill
               /\ stream'[p].remotePackets = stream[p].remotePackets
               /\ IF m.type # "WRITE" THEN stream'[p] = stream[p]
                  ELSE /\ stream'[p].localFill = stream[p].localFill + m.size
                       /\ stream'[p].available = Append(stream[p].available, [id |-> m.id, size |-> m.size])
<1>1. EndTypes /\ CallTypes /\ Named /\ (\A r \in Peers : Posted(r)) /\ \A r \in Peers : Room(r)
  BY DEF AtWork, Balanced, Traffic
<1>2. q = Other(p) /\ q # p /\ Other(q) = p /\ \A r \in Peers : r = p \/ r = q
  BY Ends
<1> DEFINE m == Head(wire[q])
<1>3. /\ UNCHANGED <<lQueue, rQueue, sched, pc, call>>
      /\ wire[q] # <<>> /\ wire' = [wire EXCEPT ![q] = Tail(@)]
      /\ reader[p].at = "recv"
  BY <1>2 DEF Receive, queues, threads
<1>4. wire'[q] = Tail(wire[q]) /\ wire'[p] = wire[p]
  BY <1>1, <1>2, <1>3 DEF EndTypes
<1>5. m.type = "WRITE" => Len(stream[p].available) + Len(stream[p].blocked) < MaxPackets
  BY <1>1, <1>2, <1>3, PacketFindsPlace
<1>6. reader' = [reader EXCEPT ![p] = [at |-> "add", msg |-> m]]
  <2>1. Len(stream[p].available) \in Nat /\ Len(stream[p].blocked) \in Nat
    BY <1>1, CountsAre
  <2>2. ~(m.type = "WRITE" /\ Len(stream[p].available) + Len(stream[p].blocked) >= MaxPackets)
    <3>1. MaxPackets \in Nat
      BY DispatcherAssumption
    <3> DEFINE x == Len(stream[p].available)
               y == Len(stream[p].blocked)
               held == x + y
    <3>2. held \in Nat /\ (m.type = "WRITE" => held < MaxPackets)
      <4>1. x \in Nat /\ y \in Nat
        BY <2>1
      <4>2. m.type = "WRITE" => x + y < MaxPackets
        BY <1>5
      <4> HIDE DEF x, y
      <4> QED BY <4>1, <4>2
    <3> HIDE DEF held
    <3>3. ASSUME held < MaxPackets PROVE ~(held >= MaxPackets)
      BY <3>1, <3>2, <3>3
    <3>4. ~(m.type = "WRITE" /\ held >= MaxPackets)
      BY <3>2, <3>3
    <3> QED BY <3>4 DEF held
  <2> QED BY <2>2, <1>2 DEF Receive
<1>7. stream' = IF m.type # "WRITE" THEN stream
                ELSE [stream EXCEPT ![p].localFill = @ + m.size,
                                    ![p].available = Append(@, [id |-> m.id, size |-> m.size])]
  <2>1. Len(stream[p].available) \in Nat /\ Len(stream[p].blocked) \in Nat
    BY <1>1, CountsAre
  <2> QED BY <2>1, <1>2, <1>5, DispatcherAssumption DEF Receive
<1> HIDE DEF m
<1>8. Adding(p) = <<>> /\ Adding(p)' = <<m>> /\ Adding(q)' = Adding(q)
  BY <1>1, <1>2, <1>3, <1>6 DEF Adding, EndTypes
<1>9. /\ Posted(p)' /\ Posted(q)' /\ m \in Letter
      /\ \A f \in [Mail -> Nat] :
            /\ Here(p, f)' = Here(p, f) + f[m] /\ There(q, f)' = There(q, f) - f[m]
            /\ There(p, f)' = There(p, f) /\ Here(q, f)' = Here(q, f)
  <2>1. Adding(p)' = <<Head(wire[q])>> /\ Adding(p)' # <<>>
    BY <1>8 DEF m
  <2> QED BY <2>1, <1>1, <1>2, <1>3, <1>4, <1>8, ReceiveMoves DEF m
<1>10. stream \in [Peers -> Stream] /\ stream[p] \in Stream /\ m.size \in Nat /\ m \in Mail
  BY <1>1, <1>9, LettersAre DEF EndTypes, Letter
<1>11. /\ stream'[q] = stream[q] /\ stream'[p].blocked = stream[p].blocked
       /\ stream'[p].remoteFill = stream[p].remoteFill /\ stream'[p].remotePackets = stream[p].remotePackets
       /\ IF m.type # "WRITE" THEN stream'[p] = stream[p]
          ELSE /\ stream'[p].localFill = stream[p].localFill + m.size
               /\ stream'[p].available = Append(stream[p].available, [id |-> m.id, size |-> m.size])
  BY <1>2, <1>7, <1>10 DEF Stream
<1> QED BY <1>9, <1>11 DEF m

\* What is received moves from the wire of the peer to this end.
LEMMA ReceiveBalances ==
    ASSUME AtWork, Balanced, NEW p \in Peers, Receive(p), Working' => Working
    PROVE  Balanced'
<1>1. EndTypes /\ CallTypes /\ Named /\ \A r \in Peers : Posted(r)
  BY DEF AtWork, Balanced, Traffic
<1>2. PICK q \in Peers : q = Other(p) /\ q # p /\ Other(q) = p /\ \A r \in Peers : r = p \/ r = q
  BY Ends
<1> DEFINE m == Head(wire[q])
<1>3. UNCHANGED <<lQueue, pc, call>>
  BY DEF Receive, queues, threads
<1>4. /\ Posted(p)' /\ Posted(q)' /\ m \in Letter
      /\ \A f \in [Mail -> Nat] :
            /\ Here(p, f)' = Here(p, f) + f[m] /\ There(q, f)' = There(q, f) - f[m]
            /\ There(p, f)' = There(p, f) /\ Here(q, f)' = Here(q, f)
      /\ stream'[q] = stream[q] /\ stream'[p].blocked = stream[p].blocked
      /\ stream'[p].remoteFill = stream[p].remoteFill
      /\ stream'[p].remotePackets = stream[p].remotePackets
      /\ IF m.type # "WRITE" THEN stream'[p] = stream[p]
         ELSE /\ stream'[p].localFill = stream[p].localFill + m.size
              /\ stream'[p].available = Append(stream[p].available, [id |-> m.id, size |-> m.size])
  BY <1>2, ReceiveIs
<1> HIDE DEF m
<1>9. /\ Posted(p)' /\ Posted(q)' /\ m \in Letter
      /\ \A f \in [Mail -> Nat] :
            /\ Here(p, f)' = Here(p, f) + f[m] /\ There(q, f)' = There(q, f) - f[m]
            /\ There(p, f)' = There(p, f) /\ Here(q, f)' = Here(q, f)
  BY <1>4
<1>10. Named'
  BY <1>1, <1>3 DEF Named
<1>11. ASSUME NEW t \in Threads PROVE Flight(About(t))' <= (IF Asks(t)' THEN 1 ELSE 0)
  <2> DEFINE f == About(t)
  <2>1. f \in [Mail -> Nat] /\ f[m] \in Nat
    <3>1. m \in Mail
      BY <1>9, LettersAre
    <3> QED BY <3>1, AboutIs
  <2> HIDE DEF f
  <2>2. /\ Flight(f) = Here(p, f) + There(p, f) + Here(q, f) + There(q, f)
        /\ Here(p, f) \in Nat /\ There(p, f) \in Nat /\ Here(q, f) \in Nat /\ There(q, f) \in Nat
    BY <2>1, <1>1, <1>2, FlightIs
  <2>3. Flight(f)' = Here(p, f)' + There(p, f)' + Here(q, f)' + There(q, f)'
    <3>1. \A r \in Peers : Posted(r)'
      BY <1>2, <1>9
    <3>2. \A r \in Peers : Here(r, f)' \in Int /\ There(r, f)' \in Int
      BY <1>2, <1>9, <2>1, <2>2
    <3>3. (p = Host /\ q = Device) \/ (p = Device /\ q = Host)
      BY <1>2, Ends
    <3> QED BY <1>2, <3>2, <3>3, Ends DEF Flight
  <2>4. Asks(t)' = Asks(t)
    BY <1>3 DEF Asks, InState
  <2>5. Flight(f) <= (IF Asks(t) THEN 1 ELSE 0)
    BY DEF Balanced, Traffic, f
  <2>6. Flight(f)' = Flight(f)
    BY <2>1, <2>2, <2>3, <1>9
  <2> QED BY <2>4, <2>5, <2>6 DEF f
<1>12. stream \in [Peers -> Stream] /\ stream[p] \in Stream /\ m.size \in Nat /\ m \in Mail
  BY <1>1, <1>9, LettersAre DEF EndTypes, Letter
<1>13. /\ stream'[q] = stream[q] /\ stream'[p].blocked = stream[p].blocked
       /\ stream'[p].remoteFill = stream[p].remoteFill /\ stream'[p].remotePackets = stream[p].remotePackets
       /\ IF m.type # "WRITE" THEN stream'[p] = stream[p]
          ELSE /\ stream'[p].localFill = stream[p].localFill + m.size
               /\ stream'[p].available = Append(stream[p].available, [id |-> m.id, size |-> m.size])
  BY <1>4
<1>14. [id |-> m.id, size |-> m.size] \in Packet
  BY <1>9 DEF Letter, Packet, Ids
<1>15. Accounts'
  <2>1. ASSUME NEW b \in BOOLEAN
        PROVE  /\ Owing(p, b)' = Owing(p, b) /\ Owing(q, b)' = Owing(q, b)
               /\ Believed(p, b)' = Believed(p, b) /\ Believed(q, b)' = Believed(q, b)
    <3> DEFINE w == Cost("WRITE", b)
               r == Cost("RELEASE", b)
    <3>1. /\ w \in [Mail -> Nat] /\ r \in [Mail -> Nat] /\ w[m] \in Nat /\ r[m] \in Nat
          /\ w[m] = IF m.type # "WRITE" THEN 0 ELSE IF b THEN m.size ELSE 1
      BY <1>12, CostIs
    <3>2. Kept(p, b)' = Kept(p, b) + w[m] /\ Kept(q, b)' = Kept(q, b) /\ Kept(p, b) \in Int /\ Kept(q, b) \in Int
      <4>1. /\ Len(stream[p].available) \in Nat /\ Len(stream[p].blocked) \in Nat
            /\ stream[p].localFill \in Int /\ stream[q].localFill \in Int
            /\ Len(stream[q].available) \in Nat /\ Len(stream[q].blocked) \in Nat
        BY <1>1, CountsAre DEF EndTypes, Stream
      <4>2. Len(Append(stream[p].available, [id |-> m.id, size |-> m.size])) = Len(stream[p].available) + 1
        BY <1>12, <1>14, AppendProperties DEF Stream
      <4> HIDE DEF w
      <4>3. Kept(q, b)' = Kept(q, b) /\ Kept(p, b) \in Int /\ Kept(q, b) \in Int
        BY <4>1, <1>13 DEF Kept
      <4>4. CASE m.type # "WRITE"
        <5>1. Kept(p, b)' = Kept(p, b) /\ w[m] = 0
          BY <4>4, <3>1, <1>13 DEF Kept
        <5> QED BY <5>1, <4>3
      <4>5. CASE m.type = "WRITE" /\ b
        <5>1. Kept(p, b)' = stream[p].localFill + m.size /\ Kept(p, b) = stream[p].localFill /\ w[m] = m.size
          BY <4>5, <3>1, <1>13 DEF Kept
        <5> QED BY <5>1, <4>3
      <4>6. CASE m.type = "WRITE" /\ ~b
        <5>1. stream'[p].available = Append(stream[p].available, [id |-> m.id, size |-> m.size])
              /\ stream'[p].blocked = stream[p].blocked
          BY <4>6, <1>13
        <5>2. Kept(p, b)' = Len(stream[p].available) + 1 + Len(stream[p].blocked) /\ w[m] = 1
              /\ Kept(p, b) = Len(stream[p].available) + Len(stream[p].blocked)
          BY <4>6, <5>1, <4>2, <3>1 DEF Kept
        <5>3. Kept(p, b)' = Kept(p, b) + w[m]
          <6> DEFINE x == Len(stream[p].available)
                     y == Len(stream[p].blocked)
          <6>1. x \in Nat /\ y \in Nat
            BY <4>1
          <6>2. Kept(p, b)' = x + 1 + y /\ Kept(p, b) = x + y /\ w[m] = 1
            BY <5>2
          <6> HIDE DEF x, y
          <6>3. x + 1 + y = x + y + 1
            BY <6>1
          <6> QED BY <6>2, <6>3
        <5> QED BY <5>3, <4>3
      <4> QED BY <4>4, <4>5, <4>6
    <3>3. /\ There(p, w) \in Nat /\ There(q, w) \in Nat /\ There(p, r) \in Nat /\ There(q, r) \in Nat
          /\ Here(p, r) \in Nat /\ Here(q, r) \in Nat
      BY <3>1, <1>1, PostedIs
    <3>4. Owing(p, b)' = There(p, w)' + Kept(q, b)' + There(q, r)' + Here(p, r)'
      BY <1>2 DEF Owing
    <3>5. Owing(q, b)' = There(q, w)' + Kept(p, b)' + There(p, r)' + Here(q, r)'
      BY <1>2 DEF Owing
    <3>6. /\ Owing(p, b) = There(p, w) + Kept(q, b) + There(q, r) + Here(p, r)
          /\ Owing(q, b) = There(q, w) + Kept(p, b) + There(p, r) + Here(q, r)
      BY <1>2 DEF Owing
    <3> HIDE DEF w, r
    <3>7. Owing(p, b)' = Owing(p, b) /\ Owing(q, b)' = Owing(q, b)
      BY <3>1, <3>2, <3>3, <3>4, <3>5, <3>6, <1>9
    <3> QED BY <3>7, <1>13 DEF Believed
  <2> QED BY <2>1, <1>2 DEF Balanced, Accounts
<1>16. \A r \in Peers : Stored(r)'
  <2>1. Stored(q)'
    BY <1>13 DEF Balanced, Stored
  <2>2. ASSUME m.type # "WRITE" PROVE Stored(p)'
    <3>1. Stored(p)
      BY DEF Balanced
    <3>2. stream'[p] = stream[p]
      BY <2>2, <1>13
    <3> QED BY <3>1, <3>2 DEF Stored
  <2>3. ASSUME m.type = "WRITE" PROVE Stored(p)'
    <3> DEFINE k == [id |-> m.id, size |-> m.size]
    <3>1. /\ Weighed(Append(stream[p].available, k), Bulk) = Weighed(stream[p].available, Bulk) + Bulk[k]
          /\ Weighed(stream[p].available, Bulk) \in Nat /\ Weighed(stream[p].blocked, Bulk) \in Nat
      <4>1. Bulk \in [Packet -> Nat] /\ stream[p].available \in Seq(Packet) /\ stream[p].blocked \in Seq(Packet)
        <5>1. Bulk \in [Packet -> Nat]
          BY DEF Bulk, Packet
        <5> QED BY <5>1, <1>12 DEF Stream
      <4>2. k \in Packet
        BY <1>14
      <4> HIDE DEF k
      <4>3. Weighed(stream[p].available, Bulk) \in Nat /\ Weighed(stream[p].blocked, Bulk) \in Nat
        BY <4>1, WeightsAre
      <4>4. \A c \in Packet : Weighed(Append(stream[p].available, c), Bulk) = Weighed(stream[p].available, Bulk) + Bulk[c]
        <5> DEFINE a == stream[p].available
        <5>1. a \in Seq(Packet)
          BY <4>1
        <5> HIDE DEF a
        <5>2. \A c \in Packet : Weighed(Append(a, c), Bulk) = Weighed(a, Bulk) + Bulk[c]
          BY <4>1, <5>1, WeighedMoves
        <5> QED BY <5>2 DEF a
      <4> QED BY <4>2, <4>3, <4>4
    <3>2. Bulk[k] = m.size
      BY <1>14 DEF Bulk
    <3>3. stream[p].localFill = Weighed(stream[p].blocked, Bulk) + Weighed(stream[p].available, Bulk)
      BY DEF Balanced, Stored
    <3> HIDE DEF k
    <3>4. /\ stream'[p].localFill = stream[p].localFill + m.size
          /\ stream'[p].available = Append(stream[p].available, k)
      BY <2>3, <1>13 DEF k
    <3>5. Weighed(stream'[p].available, Bulk) = Weighed(stream[p].available, Bulk) + m.size
          /\ Weighed(stream'[p].blocked, Bulk) = Weighed(stream[p].blocked, Bulk)
      BY <3>1, <3>2, <3>4, <1>13
    <3>6. stream'[p].localFill = Weighed(stream'[p].blocked, Bulk) + Weighed(stream'[p].available, Bulk)
      BY <3>1, <3>3, <3>4, <3>5, <1>12
    <3> QED BY <3>6 DEF Stored
  <2> QED BY <2>1, <2>2, <2>3, <1>2
<1> QED BY <1>2, <1>9, <1>10, <1>11, <1>15, <1>16 DEF Balanced, Traffic

\* The messages in flight after a step, from what they are at each end.
LEMMA FlightPrimed ==
    ASSUME NEW p \in Peers, NEW f, \A r \in Peers : Here(r, f)' \in Int /\ There(r, f)' \in Int
    PROVE  Flight(f)' = Here(p, f)' + There(p, f)' + Here(Other(p), f)' + There(Other(p), f)'
<1>1. (p = Host /\ Other(p) = Device) \/ (p = Device /\ Other(p) = Host)
  BY Ends
<1>2. /\ Here(Host, f)' \in Int /\ There(Host, f)' \in Int
      /\ Here(Device, f)' \in Int /\ There(Device, f)' \in Int
  BY Ends
<1>3. Flight(f)' = Here(Host, f)' + There(Host, f)' + Here(Device, f)' + There(Device, f)'
  BY DEF Flight
<1> QED BY <1>1, <1>2, <1>3

\* The threads of both ends have a slot each in one ring.
LEMMA AllThreads == IsFiniteSet(Threads) /\ Cardinality(Threads) \in Nat /\ Cardinality(Threads) <= MaxEvents
<1>1. /\ IsFiniteSet(HostThreads) /\ 2 * Cardinality(HostThreads) <= MaxEvents
      /\ IsFiniteSet(DeviceThreads) /\ 2 * Cardinality(DeviceThreads) <= MaxEvents
      /\ HostThreads \cap DeviceThreads = {} /\ MaxEvents \in Nat
  BY RoomForThreads, DispatcherAssumption
<1>2. Cardinality(HostThreads) \in Nat /\ Cardinality(DeviceThreads) \in Nat /\ Cardinality({}) = 0
  BY <1>1, FS_CardinalityType, FS_EmptySet
<1>3. /\ IsFiniteSet(Threads)
      /\ Cardinality(Threads) = Cardinality(HostThreads) + Cardinality(DeviceThreads)
  <2>1. /\ IsFiniteSet(HostThreads \cup DeviceThreads)
        /\ Cardinality(HostThreads \cup DeviceThreads)
           = Cardinality(HostThreads) + Cardinality(DeviceThreads) - Cardinality(HostThreads \cap DeviceThreads)
    BY <1>1, FS_Union
  <2>2. Cardinality(HostThreads \cap DeviceThreads) = 0
    BY <1>1, <1>2
  <2> QED BY <2>1, <2>2, <1>2 DEF Threads
<1> QED BY <1>1, <1>2, <1>3

\* The ring of remote events is never full while the link works: the messages an end has,
\* with the response it is about to send, are about the calls of different threads.
LEMMA RemoteRingHasRoom ==
    ASSUME AtWork, Balanced, NEW p \in Peers, reader[p].at = "add"
    PROVE  Len(rQueue[p]) + (IF sched[p].msg # NoRequest THEN 1 ELSE 0) < MaxEvents
<1> DEFINE R == IF sched[p].at = "reply" THEN Out(p) ELSE <<>>
           s == (rQueue[p] \o Adding(p)) \o R
<1>1. /\ rQueue[p] \in Seq(Letter) /\ Adding(p) \in Seq(Letter) /\ Out(p) \in Seq(Letter)
      /\ \A r \in Peers : Posted(r)
      /\ sched[p].at # "reply" => sched[p].msg = NoRequest
  BY DEF Balanced, Traffic, Posted
<1>2. Len(Adding(p)) = 1 /\ R \in Seq(Letter) /\ (sched[p].msg # NoRequest => Len(R) = 1) /\ Len(R) \in Nat
  <2>1. Len(Adding(p)) = 1
    BY DEF Adding
  <2>2. R \in Seq(Letter)
    BY <1>1
  <2>3. sched[p].at = "reply" => R = <<sched[p].msg>> /\ Len(R) = 1
    BY DEF Out
  <2> HIDE DEF R
  <2> QED BY <2>1, <2>2, <2>3, <1>1, LenProperties
<1> HIDE DEF R
<1>3. s \in Seq(Letter) /\ Len(s) = Len(rQueue[p]) + 1 + Len(R) /\ Len(rQueue[p]) \in Nat
  <2> DEFINE a == Adding(p)
             q == rQueue[p]
  <2>1. a \in Seq(Letter) /\ Len(a) = 1 /\ q \in Seq(Letter) /\ Len(q) \in Nat
    BY <1>1, <1>2, LenProperties
  <2> HIDE DEF a, q
  <2>2. q \o a \in Seq(Letter) /\ Len(q \o a) = Len(q) + 1
    <3>1. q \o a \in Seq(Letter) /\ Len(q \o a) = Len(q) + Len(a)
      BY <2>1, ConcatProperties
    <3> QED BY <3>1, <2>1
  <2>3. (q \o a) \o R \in Seq(Letter) /\ Len((q \o a) \o R) = Len(q) + 1 + Len(R)
    <3> DEFINE u == q \o a
    <3>1. u \in Seq(Letter) /\ Len(u) = Len(q) + 1
      BY <2>2
    <3> HIDE DEF u
    <3>2. u \o R \in Seq(Letter) /\ Len(u \o R) = Len(u) + Len(R)
      BY <3>1, <1>2, ConcatProperties
    <3> QED BY <3>1, <3>2 DEF u
  <2> QED BY <2>1, <2>3 DEF a, q
<1>4. ASSUME NEW t \in Threads PROVE Weighed(s, About(t)) <= 1 /\ Weighed(s, About(t)) \in Nat
  <2> DEFINE f == About(t)
  <2>1. f \in [Mail -> Nat]
    BY AboutIs
  <2>2. /\ rQueue[p] \in Seq(Mail) /\ Adding(p) \in Seq(Mail) /\ R \in Seq(Mail)
        /\ rQueue[p] \o Adding(p) \in Seq(Mail) /\ s \in Seq(Mail)
    <3>1. rQueue[p] \o Adding(p) \in Seq(Letter)
      BY <1>1, ConcatProperties
    <3> QED BY <3>1, <1>1, <1>2, <1>3, LettersAre
  <2> HIDE DEF f
  <2>3. Weighed(s, f) = Weighed(rQueue[p], f) + Weighed(Adding(p), f) + Weighed(R, f)
    <3>1. Weighed(rQueue[p] \o Adding(p), f) = Weighed(rQueue[p], f) + Weighed(Adding(p), f)
      BY <2>1, <2>2, WeighedConcat
    <3>2. Weighed((rQueue[p] \o Adding(p)) \o R, f) = Weighed(rQueue[p] \o Adding(p), f) + Weighed(R, f)
      BY <2>1, <2>2, WeighedConcat
    <3> QED BY <3>1, <3>2
  <2>4. /\ Weighed(rQueue[p], f) \in Nat /\ Weighed(Adding(p), f) \in Nat /\ Weighed(R, f) \in Nat
        /\ Weighed(Out(p), f) \in Nat /\ Weighed(wire[p], f) \in Nat
    BY <2>1, <2>2, <1>1, PostedIs, WeightsAre
  <2>5. Weighed(R, f) <= Weighed(Out(p), f)
    <3>1. R = Out(p) \/ R = <<>>
      BY DEF R
    <3>2. Weighed(<<>>, f) = 0
      BY <2>1, WeighedFew
    <3> QED BY <3>1, <3>2, <2>4
  <2>6. Weighed(s, f) <= Here(p, f) + There(p, f)
    BY <2>3, <2>4, <2>5 DEF Here, There
  <2>7. /\ Flight(f) = Here(p, f) + There(p, f) + Here(Other(p), f) + There(Other(p), f)
        /\ Here(p, f) \in Nat /\ There(p, f) \in Nat
        /\ Here(Other(p), f) \in Nat /\ There(Other(p), f) \in Nat
    BY <2>1, <1>1, FlightIs
  <2>8. Flight(f) <= 1
    BY <2>7 DEF Balanced, Traffic, f
  <2>9. Weighed(s, f) \in Nat
    BY <2>1, <2>2, WeightsAre
  <2> HIDE DEF s
  <2> QED BY <2>6, <2>7, <2>8, <2>9 DEF f
<1> HIDE DEF s
<1>5. \A i \in 1..Len(s) : s[i] \in Letter
  BY <1>3
<1> DEFINE Is(i, t) == \E n \in Nat : s[i].id = <<t, n>>
           h == [i \in 1..Len(s) |-> CHOOSE t \in Threads : Is(i, t)]
<1>6. \A i \in 1..Len(s) : h[i] \in Threads /\ Is(i, h[i])
  <2> SUFFICES ASSUME NEW i \in 1..Len(s) PROVE h[i] \in Threads /\ Is(i, h[i])
    OBVIOUS
  <2>1. \E t \in Threads : Is(i, t)
    BY <1>5 DEF Letter
  <2> HIDE DEF Is
  <2> QED BY <2>1
<1>7. ASSUME NEW i \in 1..Len(s), NEW j \in 1..Len(s), h[i] = h[j], i # j PROVE FALSE
  <2> DEFINE t == h[i]
             f == About(t)
  <2>1. t \in Threads /\ f \in [Mail -> Nat] /\ s \in Seq(Mail) /\ s[i] \in Mail /\ s[j] \in Mail
    BY <1>3, <1>5, <1>6, AboutIs, LettersAre
  <2>2. f[s[i]] = 1 /\ f[s[j]] = 1
    <3>1. Is(i, t) /\ Is(j, t)
      BY <1>6, <1>7
    <3> HIDE DEF h
    <3> QED BY <3>1, <2>1, AboutIs
  <2> HIDE DEF f
  <2>3. Weighed(s, f) >= f[s[i]] + f[s[j]]
    BY <2>1, <1>7, WeighedTwo
  <2>4. Weighed(s, f) <= 1 /\ Weighed(s, f) \in Nat
    BY <2>1, <1>4 DEF f
  <2> QED BY <2>2, <2>3, <2>4
<1>8. h \in Injection(1..Len(s), Threads)
  <2>1. h \in [1..Len(s) -> Threads]
    BY <1>6
  <2> QED BY <2>1, <1>7 DEF Injection, IsInjective
<1> HIDE DEF h
<1>9. Cardinality(1..Len(s)) <= Cardinality(Threads)
  BY <1>8, AllThreads, FS_Injection
<1>10. Cardinality(1..Len(s)) = Len(s)
  <2> DEFINE n == Len(s)
  <2>1. n \in Nat
    BY <1>3, LenProperties
  <2> HIDE DEF n
  <2>2. Cardinality(1..n) = n
    BY <2>1, FS_Interval
  <2> QED BY <2>2 DEF n
<1> DEFINE n == Len(s)
           x == Len(rQueue[p])
           y == Len(R)
<1>11. n <= MaxEvents /\ MaxEvents \in Nat /\ n = x + 1 + y /\ x \in Nat /\ y \in Nat
       /\ (sched[p].msg # NoRequest => y = 1)
  BY <1>2, <1>3, <1>9, <1>10, AllThreads, RoomForThreads
<1> HIDE DEF n, x, y
<1>12. x + (IF sched[p].msg # NoRequest THEN 1 ELSE 0) < MaxEvents
  BY <1>11
<1> QED BY <1>12 DEF x


\* A step at one end changes what is in flight by what it changes there.
LEMMA FlightMoves ==
    ASSUME NEW p \in Peers, \A r \in Peers : Posted(r), NEW f \in [Mail -> Nat],
           NEW x \in Int, NEW y \in Int,
           Here(p, f)' = Here(p, f) + x, There(p, f)' = There(p, f) + y,
           Here(Other(p), f)' = Here(Other(p), f), There(Other(p), f)' = There(Other(p), f)
    PROVE  Flight(f)' = Flight(f) + x + y /\ Flight(f) \in Nat
<1>1. /\ Flight(f) = Here(p, f) + There(p, f) + Here(Other(p), f) + There(Other(p), f)
      /\ Here(p, f) \in Nat /\ There(p, f) \in Nat
      /\ Here(Other(p), f) \in Nat /\ There(Other(p), f) \in Nat
  BY FlightIs
<1>2. \A r \in Peers : Here(r, f)' \in Int /\ There(r, f)' \in Int
  <2>1. \A r \in Peers : r = p \/ r = Other(p)
    BY Ends
  <2> QED BY <2>1, <1>1
<1>3. Flight(f)' = Here(p, f)' + There(p, f)' + Here(Other(p), f)' + There(Other(p), f)'
  BY <1>2, FlightPrimed
<1> QED BY <1>1, <1>3

\* What an end keeps and believes are numbers.
LEMMA KeptIs ==
    ASSUME EndTypes, NEW p \in Peers, NEW b \in BOOLEAN
    PROVE  Kept(p, b) \in Int /\ Believed(p, b) \in Int
<1> DEFINE x == Len(stream[p].available)
           y == Len(stream[p].blocked)
<1>1. x \in Nat /\ y \in Nat /\ stream[p] \in Stream
  BY CountsAre DEF EndTypes
<1> HIDE DEF x, y
<1>2. x + y \in Int
  BY <1>1
<1> QED BY <1>1, <1>2 DEF Kept, Believed, Stream, x, y

\* A step at one end keeps the accounts when it keeps the difference of what is believed
\* and what is owed: x is written, y released by the peer, z released here.
LEMMA Rebalance ==
    ASSUME AtWork, Balanced, NEW p \in Peers, Named', Working' => Working,
           \A r \in Peers : Posted(r)' /\ Stored(r)',
           \A t \in Threads : Flight(About(t))' <= IF Asks(t)' THEN 1 ELSE 0,
           stream'[Other(p)] = stream[Other(p)],
           \A f \in [Mail -> Nat] :
              There(Other(p), f)' = There(Other(p), f) /\ Here(Other(p), f)' = Here(Other(p), f),
           \A b \in BOOLEAN : \E x, y, z \in Int :
              /\ There(p, Cost("WRITE", b))' = There(p, Cost("WRITE", b)) + x
              /\ Here(p, Cost("RELEASE", b))' = Here(p, Cost("RELEASE", b)) + y
              /\ Believed(p, b)' = Believed(p, b) + x + y
              /\ There(p, Cost("RELEASE", b))' = There(p, Cost("RELEASE", b)) + z
              /\ Kept(p, b)' = Kept(p, b) - z
    PROVE  Balanced'
<1>1. PICK q \in Peers : q = Other(p) /\ Other(q) = p /\ \A r \in Peers : r = p \/ r = q
  BY Ends
<1>2. ASSUME NEW b \in BOOLEAN
      PROVE  /\ Owing(p, b)' <= Believed(p, b)' /\ Owing(q, b)' <= Believed(q, b)'
             /\ Working' => Owing(p, b)' = Believed(p, b)' /\ Owing(q, b)' = Believed(q, b)'
  <2> DEFINE w == Cost("WRITE", b)
             r == Cost("RELEASE", b)
  <2>1. w \in [Mail -> Nat] /\ r \in [Mail -> Nat]
    BY CostIs
  <2>2. /\ There(p, w) \in Nat /\ There(q, w) \in Nat /\ There(p, r) \in Nat /\ There(q, r) \in Nat
        /\ Here(p, r) \in Nat /\ Here(q, r) \in Nat
    BY <2>1, PostedIs DEF Balanced, Traffic
  <2>3. Kept(p, b) \in Int /\ Kept(q, b) \in Int /\ Believed(p, b) \in Int /\ Believed(q, b) \in Int
    BY KeptIs DEF AtWork
  <2>4. Kept(q, b)' = Kept(q, b) /\ Believed(q, b)' = Believed(q, b)
    BY <1>1 DEF Kept, Believed
  <2>5. /\ Owing(p, b) = There(p, w) + Kept(q, b) + There(q, r) + Here(p, r)
        /\ Owing(q, b) = There(q, w) + Kept(p, b) + There(p, r) + Here(q, r)
        /\ Owing(p, b)' = There(p, w)' + Kept(q, b)' + There(q, r)' + Here(p, r)'
        /\ Owing(q, b)' = There(q, w)' + Kept(p, b)' + There(p, r)' + Here(q, r)'
    BY <1>1 DEF Owing
  <2>6. PICK x \in Int, y \in Int, z \in Int :
           /\ There(p, w)' = There(p, w) + x /\ Here(p, r)' = Here(p, r) + y
           /\ Believed(p, b)' = Believed(p, b) + x + y
           /\ There(p, r)' = There(p, r) + z /\ Kept(p, b)' = Kept(p, b) - z
    BY DEF w, r
  <2>7. /\ There(q, w)' = There(q, w) /\ There(q, r)' = There(q, r) /\ Here(q, r)' = Here(q, r)
    BY <1>1, <2>1
  <2>8. /\ Owing(p, b) <= Believed(p, b) /\ Owing(q, b) <= Believed(q, b)
        /\ Working => Owing(p, b) = Believed(p, b) /\ Owing(q, b) = Believed(q, b)
    BY <1>1 DEF Balanced, Accounts
  <2> HIDE DEF w, r
  <2>9. Owing(q, b)' = Owing(q, b) /\ Owing(p, b)' = Owing(p, b) + x + y
        /\ Owing(p, b) \in Int /\ Owing(q, b) \in Int
    BY <2>2, <2>3, <2>4, <2>5, <2>6, <2>7
  <2> QED BY <2>3, <2>4, <2>6, <2>8, <2>9
<1>3. Accounts'
  BY <1>1, <1>2 DEF Accounts
<1> QED BY <1>3 DEF Balanced, Traffic

\* A message goes from the reader to the ring, which has room for it; or it is dropped
\* after the link has been reset.
LEMMA AddRemoteMoves ==
    ASSUME AtWork, Balanced, NEW p \in Peers, AddRemote(p), Working' => Working
    PROVE  /\ \A r \in Peers : Posted(r)'
           /\ \A r \in Peers, f \in [Mail -> Nat] :
                 /\ There(r, f)' = There(r, f) /\ Here(r, f) \in Nat
                 /\ Here(r, f)' \in 0..Here(r, f) /\ (Working' => Here(r, f)' = Here(r, f))
                 /\ r # p => Here(r, f)' = Here(r, f)
<1>1. EndTypes /\ CallTypes /\ Named /\ \A r \in Peers : Posted(r)
  BY DEF AtWork, Balanced, Traffic
<1> DEFINE m == reader[p].msg
<1>2. /\ UNCHANGED <<lQueue, wire, sched, stream, pc, call>>
      /\ reader[p].at = "add"
      /\ \E l \in {"exit", "recv"} : reader' = [reader EXCEPT ![p] = [at |-> l, msg |-> NoRequest]]
  BY DEF AddRemote, threads
<1>3. Adding(p) = <<m>> /\ Adding(p)' = <<>> /\ \A r \in Peers : r # p => Adding(r)' = Adding(r)
  BY <1>1, <1>2 DEF Adding, EndTypes
<1>4. \A r \in Peers : Out(r)' = Out(r) /\ (sched'[r].at # "reply" => sched'[r].msg = NoRequest)
  BY <1>1, <1>2 DEF Out, Sealed, Posted
<1>5. /\ resetXLink[p] \/ rQueue' = [rQueue EXCEPT ![p] = Append(@, m)]
      /\ resetXLink[p] => rQueue' = rQueue
  <2>1. Len(rQueue[p]) + (IF sched[p].msg # NoRequest THEN 1 ELSE 0) < MaxEvents
    BY <1>2, RemoteRingHasRoom
  <2> QED BY <2>1 DEF AddRemote
<1>6. m \in Letter /\ m \in Mail
  <2>1. <<m>> \in Seq(Letter) /\ Len(<<m>>) = 1 /\ <<m>>[1] = m
    BY <1>1, <1>3 DEF Posted
  <2> QED BY <2>1, LettersAre
<1> HIDE DEF m
<1>7. /\ rQueue'[p] = rQueue[p] \/ rQueue'[p] = Append(rQueue[p], m)
      /\ Working' => rQueue'[p] = Append(rQueue[p], m)
      /\ \A r \in Peers : r # p => rQueue'[r] = rQueue[r]
  BY <1>1, <1>5 DEF EndTypes, Working
<1>8. \A r \in Peers : r # p => /\ Posted(r)'
                                /\ \A f : Here(r, f)' = Here(r, f) /\ There(r, f)' = There(r, f)
  BY <1>1, <1>2, <1>3, <1>4, <1>7, QuietMail
<1>9. Posted(p)'
  <2>1. Append(rQueue[p], m) \in Seq(Letter) /\ rQueue[p] \in Seq(Letter) /\ <<>> \in Seq(Letter)
    BY <1>1, <1>6, AppendProperties DEF Posted
  <2> QED BY <2>1, <1>1, <1>2, <1>3, <1>4, <1>7 DEF Posted
<1>10. ASSUME NEW f \in [Mail -> Nat]
       PROVE  /\ There(p, f)' = There(p, f)
              /\ Here(p, f)' \in 0..Here(p, f) /\ (Working' => Here(p, f)' = Here(p, f))
  <2>1. There(p, f)' = There(p, f)
    BY <1>2, <1>4 DEF There
  <2>2. /\ Weighed(<<m>>, f) = f[m] /\ Weighed(<<>>, f) = 0 /\ f[m] \in Nat
        /\ Weighed(rQueue[p], f) \in Nat
    BY <1>1, <1>6, WeighedFew, PostedIs
  <2>3. Weighed(Append(rQueue[p], m), f) = Weighed(rQueue[p], f) + f[m]
    <3>1. rQueue[p] \in Seq(Mail)
      BY <1>1 DEF EndTypes
    <3> QED BY <3>1, <1>6, WeighedMoves
  <2>4. Here(p, f) = Weighed(rQueue[p], f) + f[m]
    BY <2>2, <1>3 DEF Here
  <2>5. Here(p, f)' = Weighed(rQueue'[p], f) + 0
    BY <2>2, <1>3 DEF Here
  <2>6. Here(p, f)' \in 0..Here(p, f)
    <3>1. CASE rQueue'[p] = rQueue[p]
      BY <3>1, <2>2, <2>4, <2>5
    <3>2. CASE rQueue'[p] = Append(rQueue[p], m)
      BY <3>2, <2>2, <2>3, <2>4, <2>5
    <3> QED BY <3>1, <3>2, <1>7
  <2>7. Working' => Here(p, f)' = Here(p, f)
    <3> SUFFICES ASSUME Working' PROVE Here(p, f)' = Here(p, f)
      OBVIOUS
    <3>1. rQueue'[p] = Append(rQueue[p], m)
      BY <1>7
    <3> QED BY <3>1, <2>2, <2>3, <2>4, <2>5
  <2> QED BY <2>1, <2>6, <2>7
<1>11. ASSUME NEW r \in Peers, NEW f \in [Mail -> Nat]
       PROVE  /\ There(r, f)' = There(r, f) /\ Here(r, f) \in Nat
              /\ Here(r, f)' \in 0..Here(r, f) /\ (Working' => Here(r, f)' = Here(r, f))
              /\ r # p => Here(r, f)' = Here(r, f)
  <2>1. Here(r, f) \in Nat
    BY <1>1, PostedIs
  <2> QED BY <2>1, <1>8, <1>10
<1> QED BY <1>8, <1>9, <1>11

\* What the reader queues stays at this end; after a reset it may be dropped.
LEMMA AddRemoteBalances ==
    ASSUME AtWork, Balanced, NEW p \in Peers, AddRemote(p), Working' => Working
    PROVE  Balanced'
<1>1. EndTypes /\ CallTypes /\ Named /\ \A r \in Peers : Posted(r)
  BY DEF AtWork, Balanced, Traffic
<1>2. UNCHANGED <<lQueue, wire, sched, stream, pc, call>>
  BY DEF AddRemote, threads
<1>3. /\ \A r \in Peers : Posted(r)'
      /\ \A r \in Peers, f \in [Mail -> Nat] :
            /\ There(r, f)' = There(r, f) /\ Here(r, f) \in Nat
            /\ Here(r, f)' \in 0..Here(r, f) /\ (Working' => Here(r, f)' = Here(r, f))
            /\ r # p => Here(r, f)' = Here(r, f)
  BY AddRemoteMoves
<1>11. Named'
  BY <1>1, <1>2 DEF Named
<1>12. ASSUME NEW t \in Threads PROVE Flight(About(t))' <= (IF Asks(t)' THEN 1 ELSE 0)
  <2> DEFINE f == About(t)
  <2>1. f \in [Mail -> Nat]
    BY AboutIs
  <2>2. Flight(f) <= (IF Asks(t) THEN 1 ELSE 0)
    BY DEF Balanced, Traffic
  <2>3. Asks(t)' = Asks(t)
    BY <1>2 DEF Asks, InState
  <2> HIDE DEF f
  <2>4. Here(p, f) \in Nat
    BY <2>1, <1>1, PostedIs
  <2>5. PICK d \in Nat : Here(p, f)' = Here(p, f) + (0 - d)
    <3>1. Here(p, f)' \in 0..Here(p, f)
      BY <1>3, <2>1
    <3>2. Here(p, f) - Here(p, f)' \in Nat /\ Here(p, f)' = Here(p, f) + (0 - (Here(p, f) - Here(p, f)'))
      BY <3>1, <2>4
    <3> QED BY <3>2
  <2>6. There(p, f)' = There(p, f) + 0
    <3>1. There(p, f) \in Nat
      BY <2>1, <1>1, PostedIs
    <3> QED BY <3>1, <2>1, <1>3
  <2>7. Other(p) \in Peers /\ Other(p) # p
    BY Ends
  <2>8. Flight(f)' = Flight(f) + (0 - d) + 0 /\ Flight(f) \in Nat
    BY <1>1, <1>3, <2>1, <2>5, <2>6, <2>7, FlightMoves
  <2>9. Flight(f)' <= (IF Asks(t) THEN 1 ELSE 0)
    BY <2>2, <2>5, <2>8 DEF f
  <2> QED BY <2>3, <2>9 DEF f
<1>13. Accounts'
  <2> SUFFICES ASSUME NEW o \in Peers, NEW b \in BOOLEAN
               PROVE  /\ Owing(o, b)' <= Believed(o, b)'
                      /\ Working' => Owing(o, b)' = Believed(o, b)'
    BY DEF Accounts
  <2> DEFINE w == Cost("WRITE", b)
             r == Cost("RELEASE", b)
             q == Other(o)
  <2>1. w \in [Mail -> Nat] /\ r \in [Mail -> Nat] /\ q \in Peers
    BY CostIs, Ends
  <2>2. There(o, w) \in Nat /\ There(q, r) \in Nat /\ Here(o, r) \in Nat
    BY <2>1, <1>1, PostedIs
  <2>3. Kept(q, b)' = Kept(q, b) /\ Believed(o, b)' = Believed(o, b) /\ Kept(q, b) \in Int /\ Believed(o, b) \in Int
    BY <1>1, <1>2, <2>1, KeptIs DEF Kept, Believed
  <2>4. /\ There(o, w)' = There(o, w) /\ There(q, r)' = There(q, r)
        /\ Here(o, r)' \in 0..Here(o, r) /\ (Working' => Here(o, r)' = Here(o, r))
    BY <2>1, <1>3
  <2>5. /\ Owing(o, b) = There(o, w) + Kept(q, b) + There(q, r) + Here(o, r)
        /\ Owing(o, b)' = There(o, w)' + Kept(q, b)' + There(q, r)' + Here(o, r)'
    BY DEF Owing
  <2>6. Owing(o, b) <= Believed(o, b) /\ (Working => Owing(o, b) = Believed(o, b))
    BY DEF Balanced, Accounts
  <2> HIDE DEF w, r, q
  <2> QED BY <2>2, <2>3, <2>4, <2>5, <2>6
<1>14. \A o \in Peers : Stored(o)'
  BY <1>2 DEF Balanced, Stored
<1> QED BY <1>3, <1>11, <1>12, <1>13, <1>14 DEF Balanced, Traffic

\* An event is taken from the ring of remote events.
LEMMA TakeMoves ==
    ASSUME NEW p \in Peers, Posted(p), rQueue[p] # <<>>, rQueue'[p] = Tail(rQueue[p]), Adding(p)' = Adding(p)
    PROVE  /\ Head(rQueue[p]) \in Letter /\ rQueue'[p] \in Seq(Letter)
           /\ \A f \in [Mail -> Nat] : /\ f[Head(rQueue[p])] \in Nat
                                       /\ Here(p, f)' = Here(p, f) + (0 - f[Head(rQueue[p])])
<1> DEFINE m == Head(rQueue[p])
           a == Tail(rQueue[p])
<1>1. m \in Letter /\ a \in Seq(Letter) /\ m \in Mail /\ a \in Seq(Mail) /\ rQueue[p] \in Seq(Mail)
  BY HeadIs, LettersAre DEF Posted
<1>2. ASSUME NEW f \in [Mail -> Nat] PROVE f[m] \in Nat /\ Here(p, f)' = Here(p, f) + (0 - f[m])
  <2>1. Weighed(rQueue[p], f) = f[m] + Weighed(a, f)
    BY <1>1, WeighedMoves
  <2>2. Weighed(a, f) \in Nat /\ Weighed(Adding(p), f) \in Nat /\ f[m] \in Nat
    BY <1>1, PostedIs, WeightsAre
  <2> HIDE DEF m, a
  <2>3. Here(p, f)' = Weighed(a, f) + Weighed(Adding(p), f)
    BY DEF Here, a
  <2>4. Here(p, f) = f[m] + Weighed(a, f) + Weighed(Adding(p), f)
    BY <2>1 DEF Here
  <2> QED BY <2>2, <2>3, <2>4
<1> QED BY <1>1, <1>2

\* A response weighs for the thread that asked as its request did, and holds no credit.
LEMMA ResponseWeighs ==
    ASSUME NEW m \in Letter, m.type \in Requests, m.type # "READ",
           NEW v, v = [type |-> Responses[m.type], size |-> m.size, id |-> m.id]
    PROVE  /\ v \in Letter
           /\ \A t \in Threads : About(t)[v] = About(t)[m]
           /\ \A b \in BOOLEAN : Cost("WRITE", b)[v] = 0 /\ Cost("RELEASE", b)[v] = 0
<1>1. m.type \in {"WRITE", "RELEASE", "RESET"} /\ m.size \in Nat /\ m.id \in Threads \X Nat
  BY DEF Letter, Requests
<1>2. Responses[m.type] \in {"WRITE_RESP", "RELEASE_RESP", "RESET_RESP"}
  BY <1>1 DEF Responses
<1>3. v \in Letter
  BY <1>1, <1>2 DEF Letter
<1>4. v \in Mail /\ m \in Mail /\ v.id = m.id /\ v.type \notin {"WRITE", "RELEASE"}
  BY <1>2, <1>3, LettersAre
<1>5. \A t \in Threads : About(t)[v] = About(t)[m]
  BY <1>4, AboutIs
<1>6. \A b \in BOOLEAN : Cost("WRITE", b)[v] = 0 /\ Cost("RELEASE", b)[v] = 0
  BY <1>4, CostIs
<1> QED BY <1>3, <1>5, <1>6

\* A request of the peer is served: its response is about the same call. A release gives
\* the writer back what it has accounted for the packet.
LEMMA SchedRemoteRequestBalances ==
    ASSUME AtWork, Balanced, NEW p \in Peers, SchedRemoteRequest(p), Working' => Working
    PROVE  Balanced'
<1>1. EndTypes /\ CallTypes /\ Named /\ (\A r \in Peers : Posted(r)) /\ \A r \in Peers : Ring(r)
  BY DEF AtWork, Balanced, Traffic
<1> DEFINE m == Head(rQueue[p])
           v == [type |-> Responses[m.type], size |-> m.size, id |-> m.id]
<1>2. PICK q \in Peers : q = Other(p) /\ q # p /\ \A r \in Peers : r = p \/ r = q
  BY Ends
<1>3. /\ UNCHANGED <<reader, wire, pc, call>> /\ TakeNext(p)
      /\ sched[p].at = "get" /\ NextEvent(p) = "remote" /\ m.type \in {"WRITE", "RELEASE", "RESET"}
      /\ sched' = [sched EXCEPT ![p].at = "reply", ![p].msg = v]
  BY DEF SchedRemoteRequest, Running, threads
<1>4. /\ \/ stream' = stream /\ m.type # "RELEASE"
         \/ /\ m.type = "RELEASE"
            /\ stream' = [stream EXCEPT ![p].remoteFill = @ - m.size, ![p].remotePackets = @ - 1]
      /\ lQueue' = lQueue \/ \E type : UnblockFirst(p, type)
  BY DEF SchedRemoteRequest
<1>5. /\ lQueue'[q] = lQueue[q]
      /\ \A s \in Slots : /\ lQueue'[p][s].state = "PENDING" <=> lQueue[p][s].state = "PENDING"
                          /\ lQueue'[p][s].thread = lQueue[p][s].thread
  <2>1. CASE lQueue' = lQueue
    BY <2>1
  <2>2. ASSUME NEW type, UnblockFirst(p, type), lQueue' # lQueue
        PROVE  /\ lQueue'[q] = lQueue[q]
               /\ \A s \in Slots : /\ lQueue'[p][s].state = "PENDING" <=> lQueue[p][s].state = "PENDING"
                                   /\ lQueue'[p][s].thread = lQueue[p][s].thread
    <3>1. PICK s \in Blocked(p, type) :
             /\ s \in Slots /\ [lQueue[p][s] EXCEPT !.state = "READY"] \in Event
             /\ lQueue' = [lQueue EXCEPT ![p][s] = [lQueue[p][s] EXCEPT !.state = "READY"]]
      BY <2>2, <1>1, UnblockIs
    <3> DEFINE f == [lQueue[p][s] EXCEPT !.state = "READY"]
    <3>2. s \in Slots /\ f \in Event /\ lQueue' = [lQueue EXCEPT ![p][s] = f]
      BY <3>1
    <3>3. lQueue[p][s].state = "BLOCKED" /\ lQueue[p][s] \in Event
      BY <3>1, <1>1 DEF Blocked, InState, EndTypes
    <3>4. f.state = "READY" /\ f.thread = lQueue[p][s].thread
      BY <3>3 DEF Event
    <3> HIDE DEF f
    <3>5. /\ lQueue'[p][s] = f
          /\ \A r \in Slots : r # s => lQueue'[p][r] = lQueue[p][r]
          /\ \A r \in Peers : r # p => lQueue'[r] = lQueue[r]
      BY <3>2, <1>1, PutTypes
    <3> QED BY <1>2, <3>3, <3>4, <3>5
  <2> QED BY <2>1, <2>2, <1>4
<1>6. rQueue[p] # <<>> /\ rQueue'[p] = Tail(rQueue[p]) /\ rQueue'[q] = rQueue[q]
  BY <1>1, <1>2, <1>3, TakeRemote
<1>7. \A r \in Peers : Adding(r)' = Adding(r)
  BY <1>3 DEF Adding
<1>8. /\ m \in Letter /\ rQueue'[p] \in Seq(Letter)
      /\ \A f \in [Mail -> Nat] : f[m] \in Nat /\ Here(p, f)' = Here(p, f) + (0 - f[m])
  BY <1>1, <1>6, <1>7, TakeMoves
<1>9. /\ v \in Letter
      /\ \A t \in Threads : About(t)[v] = About(t)[m]
      /\ \A b \in BOOLEAN : Cost("WRITE", b)[v] = 0 /\ Cost("RELEASE", b)[v] = 0
  BY <1>3, <1>8, ResponseWeighs DEF Requests
<1> HIDE DEF m, v
<1>10. Out(p) = <<>> /\ Out(p)' = <<v>> /\ sched'[p].at = "reply"
  BY <1>1, <1>3 DEF Out, Sealed, EndTypes, Places
<1>11. sched'[q] = sched[q] /\ Out(q)' = Out(q)
  BY <1>1, <1>2, <1>3, <1>5 DEF Out, Sealed, EndTypes
<1>12. Posted(q)' /\ \A f : Here(q, f)' = Here(q, f) /\ There(q, f)' = There(q, f)
  <2>1. sched'[q].at # "reply" => sched'[q].msg = NoRequest
    BY <1>1, <1>11 DEF Posted
  <2> QED BY <2>1, <1>1, <1>3, <1>6, <1>7, <1>11, QuietMail
<1>13. Posted(p)'
  BY <1>1, <1>3, <1>7, <1>8, <1>9, <1>10 DEF Posted
<1>14. ASSUME NEW f \in [Mail -> Nat] PROVE f[v] \in Nat /\ There(p, f)' = There(p, f) + f[v]
  <2>1. Weighed(<<v>>, f) = f[v] /\ Weighed(<<>>, f) = 0 /\ f[v] \in Nat /\ Weighed(wire[p], f) \in Nat
    BY <1>1, <1>9, LettersAre, WeighedFew, PostedIs
  <2>2. There(p, f) = Weighed(wire[p], f) + 0
    BY <2>1, <1>10 DEF There
  <2>3. There(p, f)' = Weighed(wire[p], f) + f[v]
    BY <2>1, <1>3, <1>10 DEF There
  <2> QED BY <2>1, <2>2, <2>3
<1>15. Named'
  BY <1>1, <1>3 DEF Named
<1>16. ASSUME NEW t \in Threads PROVE Flight(About(t))' <= (IF Asks(t)' THEN 1 ELSE 0)
  <2> DEFINE f == About(t)
  <2>1. f \in [Mail -> Nat]
    BY AboutIs
  <2>2. Flight(f) <= (IF Asks(t) THEN 1 ELSE 0)
    BY DEF Balanced, Traffic
  <2>3. Asks(t)' <=> Asks(t)
    <3>1. \A r \in Peers, s \in Slots :
             /\ lQueue'[r][s].state = "PENDING" <=> lQueue[r][s].state = "PENDING"
             /\ lQueue'[r][s].thread = lQueue[r][s].thread
      BY <1>2, <1>5
    <3> QED BY <3>1, Ends DEF Asks, InState
  <2>4. f[v] = f[m]
    BY <1>9
  <2> HIDE DEF f
  <2>5. f[m] \in Nat /\ f[v] \in Nat
    BY <2>1, <1>8, <1>14
  <2>6. PICK x \in Int, y \in Int : /\ Here(p, f)' = Here(p, f) + x /\ There(p, f)' = There(p, f) + y
                                   /\ x = 0 - f[m] /\ y = f[v]
    <3>1. 0 - f[m] \in Int /\ f[v] \in Int
      BY <2>5
    <3>2. Here(p, f)' = Here(p, f) + (0 - f[m]) /\ There(p, f)' = There(p, f) + f[v]
      BY <2>1, <1>8, <1>14
    <3> QED BY <3>1, <3>2
  <2>7. Flight(f)' = Flight(f)
    <3>1. Here(Other(p), f)' = Here(Other(p), f) /\ There(Other(p), f)' = There(Other(p), f)
      BY <1>2, <1>12
    <3>2. Flight(f)' = Flight(f) + x + y /\ Flight(f) \in Nat
      BY <3>1, <2>1, <2>6, <1>1, FlightMoves
    <3> QED BY <3>2, <2>4, <2>5, <2>6
  <2> QED BY <2>2, <2>3, <2>7 DEF f
<1>17. stream \in [Peers -> Stream] /\ m.size \in Nat
  BY <1>1, <1>8 DEF EndTypes, Letter
<1>18. /\ stream'[q] = stream[q]
       /\ stream'[p].localFill = stream[p].localFill
       /\ stream'[p].available = stream[p].available /\ stream'[p].blocked = stream[p].blocked
       /\ IF m.type = "RELEASE"
          THEN /\ stream'[p].remoteFill = stream[p].remoteFill - m.size
               /\ stream'[p].remotePackets = stream[p].remotePackets - 1
          ELSE stream'[p] = stream[p]
  BY <1>2, <1>4, <1>17 DEF Stream
<1>19. \A r \in Peers : Stored(r)'
  BY <1>2, <1>18 DEF Balanced, Stored
<1>20. ASSUME NEW b \in BOOLEAN
       PROVE  \E x, y, z \in Int :
                 /\ There(p, Cost("WRITE", b))' = There(p, Cost("WRITE", b)) + x
                 /\ Here(p, Cost("RELEASE", b))' = Here(p, Cost("RELEASE", b)) + y
                 /\ Believed(p, b)' = Believed(p, b) + x + y
                 /\ There(p, Cost("RELEASE", b))' = There(p, Cost("RELEASE", b)) + z
                 /\ Kept(p, b)' = Kept(p, b) - z
  <2> DEFINE w == Cost("WRITE", b)
             r == Cost("RELEASE", b)
  <2>1. w \in [Mail -> Nat] /\ r \in [Mail -> Nat] /\ w[v] = 0 /\ r[v] = 0
    BY <1>9, CostIs
  <2>2. r[m] = IF m.type # "RELEASE" THEN 0 ELSE IF b THEN m.size ELSE 1
    BY <1>8, LettersAre, CostIs
  <2> HIDE DEF w, r
  <2>3. There(p, w)' = There(p, w) + 0 /\ There(p, r)' = There(p, r) + 0
    BY <2>1, <1>14
  <2>4. Here(p, r)' = Here(p, r) + (0 - r[m]) /\ r[m] \in Nat
    BY <2>1, <1>8
  <2>5. Believed(p, b)' = Believed(p, b) + 0 + (0 - r[m])
    <3>1. Believed(p, b) \in Int
      BY <1>17 DEF Believed, Stream
    <3>2. CASE m.type # "RELEASE"
      BY <3>1, <3>2, <2>2, <1>18 DEF Believed
    <3>3. CASE m.type = "RELEASE" /\ b
      <4>1. Believed(p, b)' = Believed(p, b) - m.size
        BY <3>3, <1>18 DEF Believed
      <4>2. r[m] = m.size
        BY <3>3, <2>2
      <4> QED BY <4>1, <4>2, <3>1, <1>17
    <3>4. CASE m.type = "RELEASE" /\ ~b
      <4>1. Believed(p, b)' = Believed(p, b) - 1
        BY <3>4, <1>18 DEF Believed
      <4> QED BY <4>1, <3>1, <3>4, <2>2
    <3> QED BY <3>2, <3>3, <3>4
  <2>6. Kept(p, b)' = Kept(p, b) - 0
    <3>1. Kept(p, b)' = Kept(p, b)
      BY <1>18 DEF Kept
    <3>2. Kept(p, b) \in Int
      BY <1>1, KeptIs
    <3> QED BY <3>1, <3>2
  <2>7. 0 \in Int /\ 0 - r[m] \in Int
    BY <2>4
  <2> QED BY <2>3, <2>4, <2>5, <2>6, <2>7 DEF w, r
<1> QED BY <1>1, <1>2, <1>12, <1>13, <1>15, <1>16, <1>18, <1>19, <1>20, Rebalance

\* A response is served: its event is the one of the thread that asked, which asks no more.
LEMMA SchedResponseBalances ==
    ASSUME AtWork, Balanced, NEW p \in Peers, SchedResponse(p), Working' => Working
    PROVE  Balanced'
<1>1. /\ EndTypes /\ CallTypes /\ Named
      /\ \A r \in Peers : Posted(r) /\ Ring(r) /\ Awaited(r)
  BY DEF AtWork, Balanced, Traffic
<1> DEFINE m == Head(rQueue[p])
           asked == {s \in InState(p, "PENDING") :
                        lQueue[p][s].id = m.id /\ Responses[lQueue[p][s].type] = m.type}
<1>2. PICK q \in Peers : q = Other(p) /\ q # p /\ \A r \in Peers : r = p \/ r = q
  BY Ends
<1>3. /\ UNCHANGED <<reader, wire, pc, call, stream>> /\ TakeNext(p)
      /\ sched[p].at = "get" /\ NextEvent(p) = "remote" /\ m.type \notin Requests
      /\ \E l \in {"get", "join"} : sched' = [sched EXCEPT ![p].at = l]
  BY DEF SchedResponse, Running, GoTo, LoopUnless
<1>4. rQueue[p] # <<>> /\ rQueue'[p] = Tail(rQueue[p]) /\ rQueue'[q] = rQueue[q]
  BY <1>1, <1>2, <1>3, TakeRemote
<1>5. \A r \in Peers : Adding(r)' = Adding(r)
  BY <1>3 DEF Adding
<1>6. /\ m \in Letter /\ rQueue'[p] \in Seq(Letter)
      /\ \A f \in [Mail -> Nat] : f[m] \in Nat /\ Here(p, f)' = Here(p, f) + (0 - f[m])
  BY <1>1, <1>4, <1>5, TakeMoves
<1>7. PICK t0 \in Threads : /\ \E n \in Nat : m.id = <<t0, n>>
                            /\ \A u \in Threads : About(u)[m] = IF u = t0 THEN 1 ELSE 0
  BY <1>6, AboutOne
<1>8. /\ lQueue'[q] = lQueue[q]
      /\ \A s \in Slots : lQueue[p][s].state = "PENDING" /\ lQueue[p][s].thread # t0 =>
                             lQueue'[p][s] = lQueue[p][s]
  <2>1. CASE asked = {}
    <3>1. lQueue' = lQueue
      BY <2>1 DEF SchedResponse
    <3> QED BY <3>1
  <2>2. CASE asked # {}
    <3> DEFINE s == Min(asked)
               f == Served([lQueue[p][s] EXCEPT !.ack = TRUE])
    <3>1. s \in asked /\ s \in Slots
      <4>1. asked \subseteq Slots
        BY DEF InState
      <4> QED BY <4>1, <2>2, MinIs
    <3>2. lQueue' = [lQueue EXCEPT ![p][s] = f]
      BY <2>2 DEF SchedResponse, PostAndMarkServed
    <3>3. lQueue[p][s].state = "PENDING" /\ lQueue[p][s].id = m.id
      BY <3>1 DEF InState
    <3> HIDE DEF s
    <3>4. f \in Event
      BY <1>1, <3>1, EventIs
    <3>5. /\ \A r \in Slots : r # s => lQueue'[p][r] = lQueue[p][r]
          /\ lQueue'[q] = lQueue[q]
      BY <1>1, <1>2, <3>1, <3>2, <3>4, PutTypes
    <3>6. lQueue[p][s].thread = t0
      <4>1. /\ pc[lQueue[p][s].thread] = "wait" /\ lQueue[p][s].thread \in Threads
            /\ call[lQueue[p][s].thread].id = lQueue[p][s].id
        <5>1. lQueue[p][s] \in Event
          BY <1>1, <3>1 DEF EndTypes
        <5>2. lQueue[p][s].state # "SERVED"
          BY <3>3
        <5> QED BY <5>1, <5>2, <1>1, <3>1 DEF Awaited, Event
      <4>2. PICK n \in Nat : call[lQueue[p][s].thread].id = <<lQueue[p][s].thread, n>>
        BY <4>1, <1>1 DEF Named
      <4>3. PICK k \in Nat : m.id = <<t0, k>>
        BY <1>7
      <4>4. <<lQueue[p][s].thread, n>> = <<t0, k>>
        BY <4>1, <4>2, <4>3, <3>3
      <4> QED BY <4>4
    <3> QED BY <3>5, <3>6
  <2> QED BY <2>1, <2>2
<1> HIDE DEF m
<1>9. Out(p) = <<>> /\ Out(p)' = <<>> /\ sched'[p].at # "reply" /\ sched'[p].msg = NoRequest
  BY <1>1, <1>3 DEF Out, Sealed, EndTypes, Places, Posted
<1>10. sched'[q] = sched[q] /\ Out(q)' = Out(q)
  BY <1>1, <1>2, <1>3, <1>8 DEF Out, Sealed, EndTypes
<1>11. Posted(q)' /\ \A f : Here(q, f)' = Here(q, f) /\ There(q, f)' = There(q, f)
  <2>1. sched'[q].at # "reply" => sched'[q].msg = NoRequest
    BY <1>1, <1>10 DEF Posted
  <2> QED BY <2>1, <1>1, <1>3, <1>4, <1>5, <1>10, QuietMail
<1>12. Posted(p)'
  BY <1>1, <1>3, <1>5, <1>6, <1>9 DEF Posted
<1>13. ASSUME NEW f \in [Mail -> Nat] PROVE There(p, f)' = There(p, f) + 0
  <2>1. There(p, f)' = There(p, f)
    BY <1>3, <1>9 DEF There
  <2>2. There(p, f) \in Nat
    BY <1>1, PostedIs
  <2> QED BY <2>1, <2>2
<1>14. Named'
  BY <1>1, <1>3 DEF Named
<1>15. ASSUME NEW t \in Threads PROVE Flight(About(t))' <= (IF Asks(t)' THEN 1 ELSE 0)
  <2> DEFINE f == About(t)
  <2>1. f \in [Mail -> Nat]
    BY AboutIs
  <2>2. Flight(f) <= (IF Asks(t) THEN 1 ELSE 0)
    BY DEF Balanced, Traffic
  <2>3. f[m] = IF t = t0 THEN 1 ELSE 0
    BY <1>7
  <2>4. t # t0 /\ Asks(t) => Asks(t)'
    <3> SUFFICES ASSUME t # t0, Asks(t) PROVE Asks(t)'
      OBVIOUS
    <3>1. PICK s \in Slots : lQueue[PeerOf(t)][s].state = "PENDING" /\ lQueue[PeerOf(t)][s].thread = t
      BY DEF Asks, InState
    <3>2. lQueue'[PeerOf(t)][s] = lQueue[PeerOf(t)][s]
      BY <3>1, <1>2, <1>8, Ends
    <3> QED BY <3>1, <3>2 DEF Asks, InState
  <2> HIDE DEF f
  <2>5. Flight(f)' = Flight(f) + (0 - f[m]) + 0 /\ Flight(f) \in Nat /\ f[m] \in Nat
    <3>1. Here(Other(p), f)' = Here(Other(p), f) /\ There(Other(p), f)' = There(Other(p), f)
      BY <1>2, <1>11
    <3>2. PICK x \in Int, y \in Int : /\ Here(p, f)' = Here(p, f) + x /\ There(p, f)' = There(p, f) + y
                                      /\ x = 0 - f[m] /\ y = 0 /\ f[m] \in Nat
      <4>1. f[m] \in Nat /\ 0 - f[m] \in Int
        BY <2>1, <1>6
      <4> QED BY <4>1, <2>1, <1>6, <1>13
    <3>3. Flight(f)' = Flight(f) + x + y /\ Flight(f) \in Nat
      BY <3>1, <3>2, <2>1, <1>1, FlightMoves
    <3> QED BY <3>2, <3>3
  <2>6. Flight(f)' <= Flight(f) /\ (t = t0 => Flight(f)' <= 0)
    BY <2>2, <2>3, <2>5 DEF f
  <2>7. Flight(f)' \in Int
    BY <2>5
  <2> QED BY <2>2, <2>4, <2>5, <2>6, <2>7 DEF f
<1>16. \A r \in Peers : Stored(r)'
  BY <1>3 DEF Balanced, Stored
<1>17. ASSUME NEW b \in BOOLEAN
       PROVE  \E x, y, z \in Int :
                 /\ There(p, Cost("WRITE", b))' = There(p, Cost("WRITE", b)) + x
                 /\ Here(p, Cost("RELEASE", b))' = Here(p, Cost("RELEASE", b)) + y
                 /\ Believed(p, b)' = Believed(p, b) + x + y
                 /\ There(p, Cost("RELEASE", b))' = There(p, Cost("RELEASE", b)) + z
                 /\ Kept(p, b)' = Kept(p, b) - z
  <2> DEFINE w == Cost("WRITE", b)
             r == Cost("RELEASE", b)
  <2>1. w \in [Mail -> Nat] /\ r \in [Mail -> Nat] /\ r[m] = 0
    <3>1. m.type # "RELEASE" /\ m \in Mail
      BY <1>3, <1>6, LettersAre DEF m, Requests
    <3> QED BY <3>1, CostIs
  <2> HIDE DEF w, r
  <2>2. There(p, w)' = There(p, w) + 0 /\ There(p, r)' = There(p, r) + 0
    BY <2>1, <1>13
  <2>3. Here(p, r)' = Here(p, r) + 0
    <3>1. Here(p, r)' = Here(p, r) + (0 - r[m])
      BY <2>1, <1>6
    <3> QED BY <3>1, <2>1
  <2>4. Believed(p, b)' = Believed(p, b) + 0 + 0 /\ Kept(p, b)' = Kept(p, b) - 0
    <3>1. Believed(p, b)' = Believed(p, b) /\ Kept(p, b)' = Kept(p, b)
      BY <1>3 DEF Believed, Kept
    <3>2. Believed(p, b) \in Int /\ Kept(p, b) \in Int
      BY <1>1, KeptIs
    <3> QED BY <3>1, <3>2
  <2>5. 0 \in Int
    OBVIOUS
  <2> QED BY <2>2, <2>3, <2>4, <2>5 DEF w, r
<1> QED BY <1>1, <1>2, <1>3, <1>11, <1>12, <1>13, <1>14, <1>15, <1>16, <1>17, Rebalance

\* The oldest packet of a queue, what is left and where it goes.
LEMMA PacketMoves ==
    ASSUME NEW a \in Seq(Packet), a # <<>>, NEW c \in Seq(Packet)
    PROVE  /\ Head(a).size \in Nat
           /\ Len(Tail(a)) = Len(a) - 1 /\ Len(Append(c, Head(a))) = Len(c) + 1
           /\ Len(a) \in Nat /\ Len(c) \in Nat
           /\ Weighed(a, Bulk) = Head(a).size + Weighed(Tail(a), Bulk)
           /\ Weighed(Append(c, Head(a)), Bulk) = Weighed(c, Bulk) + Head(a).size
           /\ Weighed(a, Bulk) \in Nat /\ Weighed(c, Bulk) \in Nat /\ Weighed(Tail(a), Bulk) \in Nat
<1>1. Head(a) \in Packet /\ Tail(a) \in Seq(Packet) /\ Len(Tail(a)) = Len(a) - 1
  BY HeadIs
<1>2. Len(Append(c, Head(a))) = Len(c) + 1 /\ Len(a) \in Nat /\ Len(c) \in Nat
  BY <1>1, AppendProperties, LenProperties
<1>3. Bulk \in [Packet -> Nat] /\ Bulk[Head(a)] = Head(a).size /\ Head(a).size \in Nat
  BY <1>1 DEF Bulk, Packet
<1>4. /\ Weighed(a, Bulk) = Bulk[Head(a)] + Weighed(Tail(a), Bulk)
      /\ Weighed(Append(c, Head(a)), Bulk) = Weighed(c, Bulk) + Bulk[Head(a)]
  BY <1>1, <1>3, WeighedMoves
<1>5. Weighed(a, Bulk) \in Nat /\ Weighed(c, Bulk) \in Nat /\ Weighed(Tail(a), Bulk) \in Nat
  BY <1>1, <1>3, WeightsAre
<1> QED BY <1>1, <1>2, <1>3, <1>4, <1>5

\* What the scheduler makes of an event.
LEMMA EventBecomes ==
    ASSUME NEW e \in Event
    PROVE  /\ /\ Pend(e).thread = e.thread /\ ~Pend(e).localServe /\ Pend(e).state = "PENDING"
              /\ Pend(e).id = e.id /\ Pend(e).type = e.type /\ Pend(e).size = e.size
           /\ Block(e).thread = e.thread /\ Block(e).localServe /\ Block(e).state = "BLOCKED"
           /\ Block(e).type = e.type /\ Block(e).size = e.size
           /\ LET f == [Block(e) EXCEPT !.ack = TRUE]
              IN  /\ f.thread = e.thread /\ f.localServe /\ f.state = "BLOCKED"
                  /\ f.type = e.type /\ f.size = e.size
           /\ LET f == Served([e EXCEPT !.ack = TRUE, !.localServe = TRUE])
              IN  f.thread = e.thread /\ f.localServe /\ f.state = "SERVED" /\ f.type = e.type
           /\ \A n \in Nat : LET f == [Pend(e) EXCEPT !.size = n]
                             IN  /\ f.thread = e.thread /\ ~f.localServe /\ f.state = "PENDING"
                                 /\ f.id = e.id /\ f.type = e.type /\ f.size = n
<1>1. /\ Pend(e).thread = e.thread /\ ~Pend(e).localServe /\ Pend(e).state = "PENDING"
      /\ Pend(e).id = e.id /\ Pend(e).type = e.type /\ Pend(e).size = e.size
  BY DEF Pend, Event
<1>2. /\ Block(e).thread = e.thread /\ Block(e).localServe /\ Block(e).state = "BLOCKED"
      /\ Block(e).type = e.type /\ Block(e).size = e.size
  BY DEF Block, Event
<1>3. LET f == [Block(e) EXCEPT !.ack = TRUE]
      IN  /\ f.thread = e.thread /\ f.localServe /\ f.state = "BLOCKED"
          /\ f.type = e.type /\ f.size = e.size
  BY DEF Block, Event
<1>4. LET f == Served([e EXCEPT !.ack = TRUE, !.localServe = TRUE])
      IN  f.thread = e.thread /\ f.localServe /\ f.state = "SERVED" /\ f.type = e.type
  BY DEF Served, Event
<1>5. ASSUME NEW n \in Nat
      PROVE  LET f == [Pend(e) EXCEPT !.size = n]
             IN  /\ f.thread = e.thread /\ ~f.localServe /\ f.state = "PENDING"
                 /\ f.id = e.id /\ f.type = e.type /\ f.size = n
  BY DEF Pend, Event
<1> QED BY <1>1, <1>2, <1>3, <1>4, <1>5

\* What serving a local event does to the accounts: they change by what is sent.
LEMMA ServeMoves ==
    ASSUME EndTypes, NEW p \in Peers, NEW s \in Slots, ServeLocal(p, s), Stored(p),
           lQueue[p][s].type = "RELEASE" => stream[p].blocked # <<>>
    PROVE  \E f \in Event :
              LET e == lQueue[p][s]
                  v == LetterOf(f)
              IN
              /\ lQueue' = [lQueue EXCEPT ![p][s] = f] /\ f.thread = e.thread
              /\ stream'[Other(p)] = stream[Other(p)] /\ Stored(p)'
              /\ \/ /\ f.localServe /\ f.state # "PENDING"
                    /\ \A b \in BOOLEAN : Believed(p, b)' = Believed(p, b) /\ Kept(p, b)' = Kept(p, b)
                 \/ /\ ~f.localServe /\ f.state = "PENDING" /\ f.id = e.id
                    /\ f.type \in {"WRITE", "RELEASE", "RESET"}
                    /\ \A b \in BOOLEAN : /\ Believed(p, b)' = Believed(p, b) + Cost("WRITE", b)[v]
                                          /\ Kept(p, b)' = Kept(p, b) - Cost("RELEASE", b)[v]
<1> DEFINE e == lQueue[p][s]
           Goal(f) ==
              /\ lQueue' = [lQueue EXCEPT ![p][s] = f] /\ f.thread = e.thread
              /\ stream'[Other(p)] = stream[Other(p)] /\ Stored(p)'
              /\ \/ /\ f.localServe /\ f.state # "PENDING"
                    /\ \A b \in BOOLEAN : Believed(p, b)' = Believed(p, b) /\ Kept(p, b)' = Kept(p, b)
                 \/ /\ ~f.localServe /\ f.state = "PENDING" /\ f.id = e.id
                    /\ f.type \in {"WRITE", "RELEASE", "RESET"}
                    /\ \A b \in BOOLEAN : /\ Believed(p, b)' = Believed(p, b) + Cost("WRITE", b)[LetterOf(f)]
                                          /\ Kept(p, b)' = Kept(p, b) - Cost("RELEASE", b)[LetterOf(f)]
<1>1. /\ e \in Event /\ stream[p] \in Stream /\ stream \in [Peers -> Stream]
      /\ \A b \in BOOLEAN : Believed(p, b) \in Int /\ Kept(p, b) \in Int
      /\ Other(p) \in Peers /\ Other(p) # p
  BY KeptIs, Ends DEF EndTypes
<1>0. /\ Pend(e) \in Event /\ Block(e) \in Event /\ [Block(e) EXCEPT !.ack = TRUE] \in Event
      /\ Served([e EXCEPT !.ack = TRUE, !.localServe = TRUE]) \in Event
      /\ \A n \in Nat : [Pend(e) EXCEPT !.size = n] \in Event
  <2>1. \A x \in Event : /\ Served(x) \in Event
                         /\ [x EXCEPT !.ack = TRUE, !.localServe = TRUE] \in Event
                         /\ Block(x) \in Event /\ Pend(x) \in Event
                         /\ [Block(x) EXCEPT !.ack = TRUE] \in Event
                         /\ \A n \in Nat : [Pend(x) EXCEPT !.size = n] \in Event
    BY EventIs
  <2> HIDE DEF e
  <2> QED BY <2>1, <1>1
<1>2. ASSUME stream' = stream
      PROVE  /\ stream'[Other(p)] = stream[Other(p)] /\ Stored(p)'
             /\ \A b \in BOOLEAN : Believed(p, b)' = Believed(p, b) /\ Kept(p, b)' = Kept(p, b)
  BY <1>2 DEF Stored, Believed, Kept
<1>3. \A f \in Event : f.type \in {"WRITE", "RELEASE", "RESET"} =>
         /\ LetterOf(f) \in Mail /\ f.size \in Nat
         /\ \A b \in BOOLEAN :
               /\ Cost("WRITE", b)[LetterOf(f)] = IF f.type # "WRITE" THEN 0 ELSE IF b THEN f.size ELSE 1
               /\ Cost("RELEASE", b)[LetterOf(f)] = IF f.type # "RELEASE" THEN 0 ELSE IF b THEN f.size ELSE 1
  <2> SUFFICES ASSUME NEW f \in Event, f.type \in {"WRITE", "RELEASE", "RESET"}
               PROVE  /\ LetterOf(f) \in Mail /\ f.size \in Nat
                      /\ \A b \in BOOLEAN :
                            /\ Cost("WRITE", b)[LetterOf(f)] = IF f.type # "WRITE" THEN 0 ELSE IF b THEN f.size ELSE 1
                            /\ Cost("RELEASE", b)[LetterOf(f)] = IF f.type # "RELEASE" THEN 0 ELSE IF b THEN f.size ELSE 1
    OBVIOUS
  <2>1. LetterOf(f) \in Mail /\ LetterOf(f).type = f.type /\ LetterOf(f).size = f.size /\ f.size \in Nat
    BY DEF LetterOf, Mail, Event
  <2> QED BY <2>1, CostIs
<1>4. CASE e.type = "WRITE" /\ HasRoom(p, e.size)
  <2> DEFINE f == Pend(e)
  <2>1. /\ f \in Event /\ f.thread = e.thread /\ ~f.localServe /\ f.state = "PENDING"
        /\ f.id = e.id /\ f.type = "WRITE" /\ f.size = e.size /\ e.size \in Nat
    <3>1. e.size \in Nat
      BY <1>1 DEF Event
    <3> HIDE DEF e
    <3> QED BY <3>1, <1>0, <1>1, <1>4, EventBecomes
  <2>2. /\ lQueue' = [lQueue EXCEPT ![p][s] = f]
        /\ stream' = [stream EXCEPT ![p].remoteFill = @ + e.size, ![p].remotePackets = @ + 1]
    BY <1>4 DEF ServeLocal
  <2> HIDE DEF f
  <2>3. /\ stream'[Other(p)] = stream[Other(p)]
        /\ stream'[p].available = stream[p].available /\ stream'[p].blocked = stream[p].blocked
        /\ stream'[p].localFill = stream[p].localFill
        /\ stream'[p].remoteFill = stream[p].remoteFill + f.size
        /\ stream'[p].remotePackets = stream[p].remotePackets + 1
    BY <1>1, <2>1, <2>2 DEF Stream
  <2>4. Stored(p)' /\ \A b \in BOOLEAN : Kept(p, b)' = Kept(p, b)
    BY <2>3 DEF Stored, Kept
  <2>5. ASSUME NEW b \in BOOLEAN
        PROVE  /\ Believed(p, b)' = Believed(p, b) + Cost("WRITE", b)[LetterOf(f)]
               /\ Kept(p, b)' = Kept(p, b) - Cost("RELEASE", b)[LetterOf(f)]
    <3>1. Believed(p, b)' = Believed(p, b) + IF b THEN f.size ELSE 1
      BY <2>3 DEF Believed
    <3>2. /\ Cost("WRITE", b)[LetterOf(f)] = IF b THEN f.size ELSE 1
          /\ Cost("RELEASE", b)[LetterOf(f)] = 0
      BY <1>3, <2>1
    <3> QED BY <3>1, <3>2, <2>4, <1>1
  <2>6. Goal(f)
    BY <2>1, <2>2, <2>3, <2>4, <2>5
  <2> QED BY <2>1, <2>6
<1>5. CASE e.type = "WRITE" /\ ~HasRoom(p, e.size)
  <2> DEFINE f == [Block(e) EXCEPT !.ack = TRUE]
  <2>1. f \in Event /\ f.thread = e.thread /\ f.localServe /\ f.state # "PENDING"
    <3> HIDE DEF e
    <3> QED BY <1>0, <1>1, EventBecomes
  <2>2. lQueue' = [lQueue EXCEPT ![p][s] = f] /\ stream' = stream
    BY <1>5 DEF ServeLocal
  <2> HIDE DEF f
  <2>3. Goal(f)
    BY <2>1, <2>2, <1>2
  <2> QED BY <2>1, <2>3
<1>6. CASE e.type = "READ" /\ stream[p].available = <<>>
  <2> DEFINE f == Block(e)
  <2>1. f \in Event /\ f.thread = e.thread /\ f.localServe /\ f.state # "PENDING"
    <3> HIDE DEF e
    <3> QED BY <1>0, <1>1, EventBecomes
  <2>2. lQueue' = [lQueue EXCEPT ![p][s] = f] /\ stream' = stream
    BY <1>6 DEF ServeLocal
  <2> HIDE DEF f
  <2>3. Goal(f)
    BY <2>1, <2>2, <1>2
  <2> QED BY <2>1, <2>3
<1>7. CASE e.type = "READ" /\ stream[p].available # <<>>
  <2> DEFINE g == [e EXCEPT !.ack = TRUE, !.localServe = TRUE]
             f == Served(g)
             a == stream[p].available
             c == stream[p].blocked
  <2>1. f \in Event /\ f.thread = e.thread /\ f.localServe /\ f.state # "PENDING"
    <3> HIDE DEF e
    <3> QED BY <1>0, <1>1, EventBecomes
  <2>2. lQueue' = [lQueue EXCEPT ![p][s] = f] /\ GetPacket(p)
    BY <1>7 DEF ServeLocal, PostAndMarkServed
  <2> HIDE DEF f, g
  <2>3. /\ stream'[Other(p)] = stream[Other(p)]
        /\ stream'[p].available = Tail(a) /\ stream'[p].blocked = Append(c, Head(a))
        /\ stream'[p].localFill = stream[p].localFill /\ stream[p].localFill \in Int
        /\ stream'[p].remoteFill = stream[p].remoteFill
        /\ stream'[p].remotePackets = stream[p].remotePackets
    BY <1>1, <2>2 DEF Stream, GetPacket
  <2>4. a \in Seq(Packet) /\ c \in Seq(Packet) /\ a # <<>>
    BY <1>1, <1>7 DEF Stream
  <2>5. stream[p].localFill = Weighed(c, Bulk) + Weighed(a, Bulk)
    BY DEF Stored
  <2>6. \A b \in BOOLEAN : Kept(p, b) = IF b THEN stream[p].localFill ELSE Len(a) + Len(c)
    BY DEF Kept
  <2> HIDE DEF a, c
  <2>7. Stored(p)'
    <3>1. stream[p].localFill = Weighed(Append(c, Head(a)), Bulk) + Weighed(Tail(a), Bulk)
      BY <2>3, <2>4, <2>5, PacketMoves
    <3> QED BY <3>1, <2>3 DEF Stored
  <2>8. ASSUME NEW b \in BOOLEAN PROVE Believed(p, b)' = Believed(p, b) /\ Kept(p, b)' = Kept(p, b)
    <3>1. Len(Tail(a)) + Len(Append(c, Head(a))) = Len(a) + Len(c)
      BY <2>4, PacketMoves
    <3>2. Kept(p, b)' = IF b THEN stream[p].localFill ELSE Len(Tail(a)) + Len(Append(c, Head(a)))
      BY <2>3 DEF Kept
    <3> QED BY <3>1, <3>2, <2>3, <2>6 DEF Believed
  <2>9. Goal(f)
    BY <2>1, <2>2, <2>3, <2>7, <2>8
  <2> QED BY <2>1, <2>9
<1>8. CASE e.type = "RELEASE"
  <2> DEFINE n == ReleasedSize(p)
             f == [Pend(e) EXCEPT !.size = n]
             a == stream[p].available
             c == stream[p].blocked
  <2>1. a \in Seq(Packet) /\ c \in Seq(Packet) /\ c # <<>>
    BY <1>1, <1>8 DEF Stream
  <2>2. n = Head(c).size /\ n \in Nat
    BY <2>1, PacketMoves DEF ReleasedSize
  <2>3. lQueue' = [lQueue EXCEPT ![p][s] = f] /\ stream' = [stream EXCEPT ![p].localFill = @ - n, ![p].blocked = Tail(@)]
    <3>1. lQueue' = [lQueue EXCEPT ![p][s] = f] /\ ReleasePacket(p)
      BY <1>8 DEF ServeLocal
    <3> QED BY <3>1, <2>1 DEF ReleasePacket
  <2> HIDE DEF n
  <2>4. /\ f \in Event /\ f.thread = e.thread /\ ~f.localServe /\ f.state = "PENDING"
        /\ f.id = e.id /\ f.type = "RELEASE" /\ f.size = n
    <3> HIDE DEF e
    <3>1. f \in Event
      BY <2>2, <1>0
    <3>2. \A k \in Nat : LET g == [Pend(e) EXCEPT !.size = k]
                          IN  /\ g.thread = e.thread /\ ~g.localServe /\ g.state = "PENDING"
                              /\ g.id = e.id /\ g.type = e.type /\ g.size = k
      BY <1>1, EventBecomes
    <3>3. /\ f.thread = e.thread /\ ~f.localServe /\ f.state = "PENDING"
          /\ f.id = e.id /\ f.type = e.type /\ f.size = n
      BY <2>2, <3>2
    <3> QED BY <3>1, <3>3, <1>8
  <2>5. /\ stream'[Other(p)] = stream[Other(p)]
        /\ stream'[p].available = a /\ stream'[p].blocked = Tail(c)
        /\ stream'[p].localFill = stream[p].localFill - n /\ stream[p].localFill \in Int
        /\ stream'[p].remoteFill = stream[p].remoteFill
        /\ stream'[p].remotePackets = stream[p].remotePackets
    BY <1>1, <2>3 DEF Stream
  <2>6. stream[p].localFill = Weighed(c, Bulk) + Weighed(a, Bulk)
    BY DEF Stored
  <2>7. \A b \in BOOLEAN : Kept(p, b) = IF b THEN stream[p].localFill ELSE Len(a) + Len(c)
    BY DEF Kept
  <2> HIDE DEF a, c, f
  <2>8. Stored(p)'
    <3>1. Weighed(a, Bulk) \in Nat
      <4>1. Bulk \in [Packet -> Nat]
        BY DEF Bulk, Packet
      <4> QED BY <4>1, <2>1, WeightsAre
    <3>2. stream[p].localFill - n = Weighed(Tail(c), Bulk) + Weighed(a, Bulk)
      BY <3>1, <2>1, <2>2, <2>5, <2>6, PacketMoves
    <3> QED BY <3>2, <2>5 DEF Stored
  <2>9. ASSUME NEW b \in BOOLEAN
        PROVE  /\ Believed(p, b)' = Believed(p, b) + Cost("WRITE", b)[LetterOf(f)]
               /\ Kept(p, b)' = Kept(p, b) - Cost("RELEASE", b)[LetterOf(f)]
    <3>1. Believed(p, b)' = Believed(p, b)
      BY <2>5 DEF Believed
    <3>2. Kept(p, b)' = IF b THEN stream[p].localFill - n ELSE Len(a) + Len(Tail(c))
      BY <2>5 DEF Kept
    <3>3. /\ Cost("WRITE", b)[LetterOf(f)] = 0
          /\ Cost("RELEASE", b)[LetterOf(f)] = IF b THEN n ELSE 1
      BY <1>3, <2>4
    <3>4. Len(Tail(c)) = Len(c) - 1 /\ Len(c) \in Nat /\ Len(a) \in Nat
      BY <2>1, PacketMoves, LenProperties
    <3>5. Kept(p, b)' = Kept(p, b) - IF b THEN n ELSE 1
      BY <3>2, <3>4, <2>2, <2>5, <2>7
    <3> QED BY <3>1, <3>3, <3>5, <1>1
  <2>10. Goal(f)
    BY <2>3, <2>4, <2>5, <2>8, <2>9 DEF f
  <2> QED BY <2>4, <2>10
<1>9. CASE e.type = "RESET"
  <2> DEFINE f == Pend(e)
  <2>1. /\ f \in Event /\ f.thread = e.thread /\ ~f.localServe /\ f.state = "PENDING"
        /\ f.id = e.id /\ f.type = "RESET"
    <3> HIDE DEF e
    <3> QED BY <1>0, <1>1, <1>9, EventBecomes
  <2>2. lQueue' = [lQueue EXCEPT ![p][s] = f] /\ stream' = stream
    BY <1>9 DEF ServeLocal
  <2> HIDE DEF f
  <2>3. ASSUME NEW b \in BOOLEAN
        PROVE  /\ Believed(p, b)' = Believed(p, b) + Cost("WRITE", b)[LetterOf(f)]
               /\ Kept(p, b)' = Kept(p, b) - Cost("RELEASE", b)[LetterOf(f)]
    <3>1. Cost("WRITE", b)[LetterOf(f)] = 0 /\ Cost("RELEASE", b)[LetterOf(f)] = 0
      BY <1>3, <2>1
    <3> QED BY <3>1, <2>2, <1>1, <1>2
  <2>4. Goal(f)
    BY <2>1, <2>2, <2>3, <1>2
  <2> QED BY <2>1, <2>4
<1>10. \E f \in Event : Goal(f)
  <2>1. e.type \in {"WRITE", "READ", "RELEASE", "RESET"}
    BY DEF ServeLocal
  <2> QED BY <2>1, <1>4, <1>5, <1>6, <1>7, <1>8, <1>9
<1> QED BY <1>10

\* The local event that is served next: its caller waits and has no other event, and a
\* release finds the packet it releases.
LEMMA NextLocalIs ==
    ASSUME AtWork, NEW p \in Peers, SchedLocal(p)
    PROVE  \E s \in Slots, t \in Threads :
              /\ ServeLocal(p, s) /\ PeerOf(t) = p /\ pc[t] = "wait"
              /\ lQueue[p][s].thread = t /\ call[t].id = lQueue[p][s].id
              /\ lQueue[p][s].state \in {"READY", "ALLOCATED"}
              /\ \A r \in Unserved(p) : r # s => lQueue[p][r].thread # t
              /\ lQueue[p][s].type = "RELEASE" => stream[p].blocked # <<>>
<1>1. EndTypes /\ CallTypes /\ Awaited(p) /\ OneEach(p) /\ Ring(p) /\ Held(p)
  BY DEF AtWork
<1>2. PICK s \in Slots : s = NextSlot(p) /\ lQueue[p][s].state \in {"READY", "ALLOCATED"}
  BY <1>1, NextIs, RingStands DEF SchedLocal, InState
<1>3. ServeLocal(p, s)
  BY <1>2 DEF SchedLocal
<1> DEFINE e == lQueue[p][s]
<1>4. e.state \in {"READY", "ALLOCATED"} /\ s \in Unserved(p) /\ e \in Event
  BY <1>1, <1>2, EventIs DEF Unserved
<1>5. PICK t \in Threads :
         /\ t = e.thread /\ PeerOf(t) = p /\ pc[t] = "wait" /\ ~acked[t]
         /\ call[t].type = e.type /\ call[t].id = e.id
  <2>1. e.thread \in Threads
    BY <1>4 DEF Event
  <2> QED BY <2>1, <1>1, <1>4 DEF Awaited
<1>6. e.type = "RELEASE" => e.state = "ALLOCATED"
  BY <1>1, <1>4 DEF Awaited
<1>7. \A r \in Unserved(p) : r # s => lQueue[p][r].thread # t
  BY <1>1, <1>4, <1>5 DEF OneEach
<1>8. e.type = "RELEASE" => stream[p].blocked # <<>>
  <2> SUFFICES ASSUME e.type = "RELEASE" PROVE stream[p].blocked # <<>>
    OBVIOUS
  <2>1. s \in InState(p, "ALLOCATED") /\ PeerOf(t) = p
    BY <1>4, <1>5, <1>6 DEF InState
  <2>2. Owed(t) = got[t] + 1
    BY <2>1, <1>5 DEF Owed
  <2>3. Owed(t) > 0
    BY <2>2, <1>1 DEF CallTypes
  <2> QED BY <2>3, <1>1, <1>5, ClaimsFound
<1> QED BY <1>3, <1>4, <1>5, <1>7, <1>8

\* A local event is served: a request that goes out changes the accounts by what it weighs,
\* and it is the only message about its thread's call.
LEMMA SchedLocalBalances ==
    ASSUME AtWork, Balanced, NEW p \in Peers, SchedLocal(p), Working' => Working
    PROVE  Balanced'
<1>1. /\ EndTypes /\ CallTypes /\ Named
      /\ \A r \in Peers : Posted(r) /\ Ring(r) /\ Awaited(r) /\ Stored(r)
  BY DEF AtWork, Balanced, Traffic
<1>2. PICK q \in Peers : q = Other(p) /\ q # p /\ \A r \in Peers : r = p \/ r = q
  BY Ends
<1>3. PICK s \in Slots, t \in Threads :
         /\ ServeLocal(p, s) /\ PeerOf(t) = p /\ pc[t] = "wait"
         /\ lQueue[p][s].thread = t /\ call[t].id = lQueue[p][s].id
         /\ lQueue[p][s].state \in {"READY", "ALLOCATED"}
         /\ \A r \in Unserved(p) : r # s => lQueue[p][r].thread # t
         /\ lQueue[p][s].type = "RELEASE" => stream[p].blocked # <<>>
  BY NextLocalIs
<1> DEFINE e == lQueue[p][s]
<1>4. PICK f \in Event :
         /\ lQueue' = [lQueue EXCEPT ![p][s] = f] /\ f.thread = t
         /\ stream'[q] = stream[q] /\ Stored(p)'
         /\ \/ /\ f.localServe /\ f.state # "PENDING"
               /\ \A b \in BOOLEAN : Believed(p, b)' = Believed(p, b) /\ Kept(p, b)' = Kept(p, b)
            \/ /\ ~f.localServe /\ f.state = "PENDING" /\ f.id = e.id
               /\ f.type \in {"WRITE", "RELEASE", "RESET"}
               /\ \A b \in BOOLEAN : /\ Believed(p, b)' = Believed(p, b) + Cost("WRITE", b)[LetterOf(f)]
                                     /\ Kept(p, b)' = Kept(p, b) - Cost("RELEASE", b)[LetterOf(f)]
  BY <1>1, <1>2, <1>3, ServeMoves
<1>5. /\ UNCHANGED <<reader, wire, pc, call>> /\ sched[p].at = "get"
      /\ sched' = [sched EXCEPT ![p].at = "send", ![p].slot = s]
  BY <1>3 DEF SchedLocal, Running, ServeLocal
<1>6. rQueue'[p] = rQueue[p] /\ rQueue'[q] = rQueue[q]
  <2>1. TakeNext(p) /\ NextEvent(p) # "remote"
    BY DEF SchedLocal
  <2> QED BY <2>1, <1>1, <1>2 DEF TakeNext, EndTypes
<1>7. /\ lQueue'[p][s] = f /\ lQueue'[q] = lQueue[q]
      /\ \A r \in Slots : r # s => lQueue'[p][r] = lQueue[p][r]
  <2>1. lQueue' = [lQueue EXCEPT ![p][s] = f]
    BY <1>4
  <2> QED BY <2>1, <1>1, <1>2, PutTypes
<1>8. \A r \in Peers : Adding(r)' = Adding(r)
  BY <1>5 DEF Adding
<1>9. /\ Out(p) = <<>> /\ Out(p)' = IF f.localServe THEN <<>> ELSE <<LetterOf(f)>>
      /\ sched'[p].at # "reply" /\ sched'[p].msg = NoRequest
  <2>1. /\ sched'[p].at = "send" /\ sched'[p].slot = s /\ sched'[p].msg = sched[p].msg
    BY <1>1, <1>5 DEF EndTypes, Places
  <2>2. Out(p) = <<>> /\ sched[p].msg = NoRequest
    BY <1>1, <1>5 DEF Out, Sealed, Posted
  <2>3. Out(p)' = IF f.localServe THEN <<>> ELSE <<LetterOf(f)>>
    BY <2>1, <1>7 DEF Out, Sealed
  <2> QED BY <2>1, <2>2, <2>3
<1>10. sched'[q] = sched[q] /\ Out(q)' = Out(q)
  BY <1>1, <1>2, <1>5, <1>7 DEF Out, Sealed, EndTypes
<1>11. Posted(q)' /\ \A g : Here(q, g)' = Here(q, g) /\ There(q, g)' = There(q, g)
  <2>1. sched'[q].at # "reply" => sched'[q].msg = NoRequest
    BY <1>1, <1>10 DEF Posted
  <2> QED BY <2>1, <1>1, <1>5, <1>6, <1>8, <1>10, QuietMail
<1>12. ~f.localServe => LetterOf(f) \in Letter /\ \E n \in Nat : LetterOf(f).id = <<t, n>>
  <2> SUFFICES ASSUME ~f.localServe
               PROVE  LetterOf(f) \in Letter /\ \E n \in Nat : LetterOf(f).id = <<t, n>>
    OBVIOUS
  <2>1. f.id = e.id /\ f.type \in {"WRITE", "RELEASE", "RESET"} /\ f.size \in Nat
    BY <1>4 DEF Event
  <2>2. PICK n \in Nat : e.id = <<t, n>>
    BY <1>1, <1>3 DEF Named
  <2> QED BY <2>1, <2>2 DEF LetterOf, Letter
<1>13. Posted(p)'
  <2>1. Out(p)' \in Seq(Letter)
    BY <1>9, <1>12
  <2> QED BY <2>1, <1>1, <1>5, <1>6, <1>8, <1>9 DEF Posted
<1> DEFINE c(g) == IF f.localServe THEN 0 ELSE g[LetterOf(f)]
<1>14. ASSUME NEW g \in [Mail -> Nat]
       PROVE  c(g) \in Nat /\ There(p, g)' = There(p, g) + c(g) /\ Here(p, g)' = Here(p, g) + 0
  <2>1. Weighed(Out(p)', g) = c(g) /\ Weighed(Out(p), g) = 0 /\ c(g) \in Nat
    <3>1. CASE f.localServe
      BY <3>1, <1>9, WeighedFew
    <3>2. CASE ~f.localServe
      <4>1. LetterOf(f) \in Mail
        BY <3>2, <1>12, LettersAre
      <4> QED BY <4>1, <3>2, <1>9, WeighedFew
    <3> QED BY <3>1, <3>2
  <2>2. Weighed(wire[p], g) \in Nat /\ Here(p, g) \in Nat
    BY <1>1, PostedIs
  <2>3. There(p, g) = Weighed(wire[p], g) + 0
    BY <2>1 DEF There
  <2> HIDE DEF c
  <2>4. There(p, g)' = Weighed(wire[p], g) + c(g)
    BY <2>1, <1>5 DEF There
  <2>5. Here(p, g)' = Here(p, g)
    BY <1>6, <1>8 DEF Here
  <2> QED BY <2>1, <2>2, <2>3, <2>4, <2>5
<1>15. Named'
  BY <1>1, <1>5 DEF Named
<1>16. ASSUME NEW u \in Threads PROVE Flight(About(u))' <= (IF Asks(u)' THEN 1 ELSE 0)
  <2> DEFINE g == About(u)
  <2>1. g \in [Mail -> Nat]
    BY AboutIs
  <2>2. Flight(g) <= (IF Asks(u) THEN 1 ELSE 0)
    BY DEF Balanced, Traffic
  <2>3. c(g) = IF ~f.localServe /\ u = t THEN 1 ELSE 0
    <3>1. CASE f.localServe
      BY <3>1
    <3>2. CASE ~f.localServe
      <4>1. PICK n \in Nat : LetterOf(f).id = <<t, n>>
        BY <3>2, <1>12
      <4>2. LetterOf(f) \in Mail
        BY <3>2, <1>12, LettersAre
      <4>3. (\E k \in Nat : LetterOf(f).id = <<u, k>>) <=> u = t
        BY <4>1
      <4>4. g[LetterOf(f)] = IF u = t THEN 1 ELSE 0
        BY <4>2, <4>3, AboutIs
      <4> QED BY <4>4, <3>2
    <3> QED BY <3>1, <3>2
  <2>4. u = t => ~Asks(u)
    <3> SUFFICES ASSUME u = t, Asks(u) PROVE FALSE
      OBVIOUS
    <3>1. PICK r \in Slots : lQueue[p][r].state = "PENDING" /\ lQueue[p][r].thread = t
      BY <1>3 DEF Asks, InState
    <3>2. r \in Unserved(p) /\ r # s
      BY <3>1, <1>3 DEF Unserved
    <3> QED BY <3>1, <3>2, <1>3
  <2>5. u = t /\ ~f.localServe => Asks(u)'
    BY <1>3, <1>4, <1>7 DEF Asks, InState
  <2>6. u # t /\ Asks(u) => Asks(u)'
    <3> SUFFICES ASSUME u # t, Asks(u) PROVE Asks(u)'
      OBVIOUS
    <3>1. PICK r \in Slots : lQueue[PeerOf(u)][r].state = "PENDING" /\ lQueue[PeerOf(u)][r].thread = u
      BY DEF Asks, InState
    <3>2. lQueue'[PeerOf(u)][r] = lQueue[PeerOf(u)][r]
      BY <3>1, <1>2, <1>3, <1>7, Ends
    <3> QED BY <3>1, <3>2 DEF Asks, InState
  <2> HIDE DEF g, c
  <2>7. Flight(g)' = Flight(g) + 0 + c(g) /\ Flight(g) \in Nat
    <3>1. Here(Other(p), g)' = Here(Other(p), g) /\ There(Other(p), g)' = There(Other(p), g)
      BY <1>2, <1>11
    <3>2. PICK x \in Int, y \in Int : /\ Here(p, g)' = Here(p, g) + x /\ There(p, g)' = There(p, g) + y
                                      /\ x = 0 /\ y = c(g)
      <4>1. 0 \in Int /\ c(g) \in Int
        BY <2>1, <1>14
      <4> QED BY <4>1, <2>1, <1>14
    <3>3. Flight(g)' = Flight(g) + x + y /\ Flight(g) \in Nat
      BY <3>1, <3>2, <2>1, <1>1, FlightMoves
    <3> QED BY <3>2, <3>3
  <2>8. Flight(g)' = Flight(g) + (IF ~f.localServe /\ u = t THEN 1 ELSE 0)
    BY <2>3, <2>7
  <2>9. Flight(g)' <= (IF Asks(u)' THEN 1 ELSE 0)
    <3>1. CASE u = t
      <4>1. Flight(g) = 0
        BY <3>1, <2>2, <2>4, <2>7 DEF g
      <4> QED BY <4>1, <3>1, <2>5, <2>8
    <3>2. CASE u # t
      <4>1. Flight(g)' = Flight(g)
        BY <3>2, <2>7, <2>8
      <4>2. Flight(g) <= (IF Asks(u) THEN 1 ELSE 0)
        BY <2>2 DEF g
      <4> QED BY <4>1, <4>2, <3>2, <2>6, <2>7
    <3> QED BY <3>1, <3>2
  <2> QED BY <2>9 DEF g
<1>17. \A r \in Peers : Stored(r)'
  <2>1. Stored(q)'
    BY <1>1, <1>4 DEF Stored
  <2> QED BY <2>1, <1>2, <1>4
<1>18. ASSUME NEW b \in BOOLEAN
       PROVE  \E x, y, z \in Int :
                 /\ There(p, Cost("WRITE", b))' = There(p, Cost("WRITE", b)) + x
                 /\ Here(p, Cost("RELEASE", b))' = Here(p, Cost("RELEASE", b)) + y
                 /\ Believed(p, b)' = Believed(p, b) + x + y
                 /\ There(p, Cost("RELEASE", b))' = There(p, Cost("RELEASE", b)) + z
                 /\ Kept(p, b)' = Kept(p, b) - z
  <2> DEFINE w == Cost("WRITE", b)
             r == Cost("RELEASE", b)
  <2>1. w \in [Mail -> Nat] /\ r \in [Mail -> Nat]
    BY CostIs
  <2>2. Believed(p, b) \in Int /\ Kept(p, b) \in Int
    BY <1>1, KeptIs
  <2>3. Believed(p, b)' = Believed(p, b) + c(w) /\ Kept(p, b)' = Kept(p, b) - c(r)
    <3> HIDE DEF w, r
    <3>1. CASE f.localServe
      BY <3>1, <2>2, <1>4
    <3>2. CASE ~f.localServe
      BY <3>2, <1>4 DEF w, r
    <3> QED BY <3>1, <3>2
  <2> HIDE DEF w, r, c
  <2>4. c(w) \in Int /\ c(r) \in Int /\ 0 \in Int
    BY <2>1, <1>14
  <2>5. /\ There(p, w)' = There(p, w) + c(w) /\ There(p, r)' = There(p, r) + c(r)
        /\ Here(p, r)' = Here(p, r) + 0
    BY <2>1, <1>14
  <2>6. Believed(p, b)' = Believed(p, b) + c(w) + 0
    BY <2>2, <2>3, <2>4
  <2> QED BY <2>3, <2>4, <2>5, <2>6 DEF w, r
<1> QED BY <1>1, <1>2, <1>4, <1>11, <1>13, <1>15, <1>16, <1>17, <1>18, Rebalance

-------------------------------------------------------------------------------
(* The accounts, in every state. *)

\* At rest nothing is on its way.
LEMMA InitBalances == Init => AccInv
<1> SUFFICES ASSUME Init PROVE AccInv
  OBVIOUS
<1>1. ASSUME NEW p \in Peers
      PROVE  /\ rQueue[p] = <<>> /\ wire[p] = <<>> /\ Adding(p) = <<>> /\ Out(p) = <<>>
             /\ sched[p].at # "reply" /\ sched[p].msg = NoRequest
             /\ stream[p] = [remoteFill |-> 0, remotePackets |-> 0, localFill |-> 0,
                             available |-> <<>>, blocked |-> <<>>]
  BY <1>1 DEF Init, Adding, Out, Sealed
<1>2. ASSUME NEW p \in Peers PROVE Posted(p)
  <2>1. <<>> \in Seq(Letter)
    OBVIOUS
  <2> QED BY <2>1, <1>1, <1>2 DEF Posted
<1>3. ASSUME NEW f \in [Mail -> Nat], NEW p \in Peers PROVE Here(p, f) = 0 /\ There(p, f) = 0
  <2>1. Weighed(<<>>, f) = 0
    BY <1>3, WeighedFew
  <2>2. Here(p, f) = 0 + 0 /\ There(p, f) = 0 + 0
    BY <2>1, <1>1, <1>3 DEF Here, There
  <2> QED BY <2>2
<1>4. Traffic
  <2>1. Named
    BY DEF Init, Named
  <2>2. ASSUME NEW t \in Threads PROVE Flight(About(t)) <= (IF Asks(t) THEN 1 ELSE 0)
    <3> DEFINE f == About(t)
    <3>1. f \in [Mail -> Nat]
      BY <2>2, AboutIs
    <3> HIDE DEF f
    <3>2. Flight(f) = 0 + 0 + 0 + 0
      BY <3>1, <1>3, Ends DEF Flight
    <3> QED BY <3>2 DEF f
  <2> QED BY <2>1, <2>2, <1>2 DEF Traffic
<1>5. Accounts
  <2> SUFFICES ASSUME NEW p \in Peers, NEW b \in BOOLEAN PROVE Owing(p, b) = 0 /\ Believed(p, b) = 0
    BY DEF Accounts
  <2>1. Believed(p, b) = 0
    BY <1>1 DEF Believed
  <2>2. Kept(Other(p), b) = 0
    <3>1. Len(<<>>) + Len(<<>>) = 0
      BY EmptySeq
    <3>2. Kept(Other(p), b) = IF b THEN 0 ELSE Len(<<>>) + Len(<<>>)
      <4>1. /\ stream[Other(p)].localFill = 0
            /\ stream[Other(p)].available = <<>> /\ stream[Other(p)].blocked = <<>>
        BY <1>1, Ends
      <4> QED BY <4>1 DEF Kept
    <3> QED BY <3>1, <3>2
  <2>3. /\ There(p, Cost("WRITE", b)) = 0 /\ There(Other(p), Cost("RELEASE", b)) = 0
        /\ Here(p, Cost("RELEASE", b)) = 0
    BY <1>3, CostIs, Ends
  <2> QED BY <2>1, <2>2, <2>3 DEF Owing
<1>6. ASSUME NEW p \in Peers PROVE Stored(p)
  <2>1. Bulk \in [Packet -> Nat]
    BY DEF Bulk, Packet
  <2>2. Weighed(<<>>, Bulk) = 0
    BY <2>1, WeighedFew
  <2> QED BY <2>2, <1>1, <1>6 DEF Stored
<1> QED BY <1>4, <1>5, <1>6, InitIsAtWork DEF AccInv, Balanced

\* Every step keeps the accounts.
LEMMA NextBalances ==
    ASSUME ~Recycles, AccInv, [Next]_vars
    PROVE  AccInv'
<1>1. IndInv'
  BY NextKeeps DEF AccInv
<1>2. (up' => up) /\ (Working' => Working)
  BY OnceDown DEF AccInv, IndInv
<1> SUFFICES ASSUME up' PROVE Balanced'
  BY <1>1 DEF AccInv
<1>3. AtWork /\ up /\ Balanced
  BY <1>2 DEF AccInv, IndInv
<1>4. CASE UNCHANGED vars
  <2>1. UNCHANGED <<lQueue, rQueue, wire, sched, reader, stream, pc, call>>
    BY <1>4 DEF vars, queues, threads
  <2>2. Named /\ \A p \in Peers : Posted(p)
    BY <1>3 DEF Balanced, Traffic
  <2>3. Named'
    BY <2>1, <2>2 DEF Named
  <2>4. \A p \in Peers : /\ Adding(p)' = Adding(p) /\ Out(p)' = Out(p)
                         /\ sched'[p].at # "reply" => sched'[p].msg = NoRequest
    BY <2>1, <2>2 DEF Adding, Out, Sealed, Posted
  <2>5. \A t \in Threads : Asks(t)' = Asks(t)
    BY <2>1 DEF Asks, InState
  <2> QED BY <1>2, <1>3, <2>1, <2>3, <2>4, <2>5, Quiet
<1>5. CASE Next
  <2>1. ASSUME NEW t \in Threads, (\E op \in Ops[mayFail][t] : Call(t, op)) \/ Add(t) \/ Return(t)
        PROVE  Balanced'
    <3>1. ASSUME NEW op, Call(t, op) PROVE Balanced'
      BY <3>1, <1>2, <1>3, CallBalances
    <3>2. CASE Add(t)
      BY <3>2, <1>2, <1>3, AddBalances
    <3>3. CASE Return(t)
      BY <3>3, <1>2, <1>3, ReturnBalances
    <3> QED BY <2>1, <3>1, <3>2, <3>3
  <2>2. ASSUME NEW p \in Peers, Scheduler(p) \/ Reader(p) \/ SchedStop(p) \/ ReaderStop(p)
        PROVE  Balanced'
    <3>1. \/ SchedLocal(p) \/ SchedRemoteRequest(p) \/ SchedResponse(p) \/ SchedNull(p)
          \/ SchedSend(p) \/ SchedReply(p) \/ Receive(p) \/ AddRemote(p)
          \/ SchedStop(p) \/ ReaderStop(p)
      BY <2>2, <1>3, NobodyStops
    <3>2. CASE SchedLocal(p)
      BY <3>2, <1>2, <1>3, SchedLocalBalances
    <3>3. CASE SchedRemoteRequest(p)
      BY <3>3, <1>2, <1>3, SchedRemoteRequestBalances
    <3>4. CASE SchedResponse(p)
      BY <3>4, <1>2, <1>3, SchedResponseBalances
    <3>5. CASE SchedSend(p) \/ SchedReply(p)
      BY <3>5, <1>2, <1>3, SendBalances
    <3>6. CASE Receive(p)
      BY <3>6, <1>2, <1>3, ReceiveBalances
    <3>7. CASE AddRemote(p)
      BY <3>7, <1>2, <1>3, AddRemoteBalances
    <3>8. CASE SchedNull(p) \/ SchedStop(p) \/ ReaderStop(p)
      BY <3>8, <1>2, <1>3, StopBalances
    <3> QED BY <3>1, <3>2, <3>3, <3>4, <3>5, <3>6, <3>7, <3>8
  <2>3. ASSUME Unplug PROVE FALSE
    BY <2>3 DEF Unplug
  <2> QED BY <2>1, <2>2, <2>3, <1>5 DEF Next
<1> QED BY <1>4, <1>5

\* What AccInv says holds in every state of the system: while the link is up the accounts
\* of both writers cover what is on its way and what the peers hold, and while it works
\* they are exact.
THEOREM AccountsBalance == ASSUME ~Recycles PROVE Spec => []AccInv
<1>1. Init => AccInv
  BY InitBalances
<1>2. AccInv /\ [Next]_vars => AccInv'
  BY NextBalances
<1> QED BY <1>1, <1>2, PTL DEF Spec

\* While the link works, the ring of remote events has a slot for what the reader is about
\* to add, next to the event the scheduler has taken and not yet answered: no event of the
\* peer is dropped, though nobody waits for room there.
RemoteEventFindsSlot ==
    Working => \A p \in Peers :
        reader[p].at = "add" =>
            Len(rQueue[p]) + (IF sched[p].msg # NoRequest THEN 1 ELSE 0) < MaxEvents

\* RemoteEventFindsSlot for every number of threads: each has one message under way.
THEOREM RemoteRingSuffices == ASSUME ~Recycles PROVE Spec => []RemoteEventFindsSlot
<1>1. AccInv => RemoteEventFindsSlot
  <2> SUFFICES ASSUME AccInv, Working, NEW p \in Peers, reader[p].at = "add"
               PROVE  Len(rQueue[p]) + (IF sched[p].msg # NoRequest THEN 1 ELSE 0) < MaxEvents
    BY DEF RemoteEventFindsSlot
  <2>1. AtWork /\ Balanced
    BY DEF AccInv, IndInv, Working
  <2> QED BY <2>1, RemoteRingHasRoom
<1> QED BY <1>1, AccountsBalance, PTL

-------------------------------------------------------------------------------
(* The sums of the properties are those weights. *)

\* The number of the messages of a type is what they weigh, each counted as one.
LEMMA CountWeighs ==
    ASSUME NEW q \in Seq(Mail), NEW type
    PROVE  CountOf(q, type) = Weighed(q, Cost(type, FALSE))
<1> DEFINE f == Cost(type, FALSE)
           S == {k \in Nat : \A r \in Seq(Mail) : Len(r) = k => CountOf(r, type) = Weighed(r, f)}
<1>1. f \in [Mail -> Nat] /\ \A m \in Mail : f[m] = IF m.type = type THEN 1 ELSE 0
  BY CostIs
<1> HIDE DEF f
<1>2. 0 \in S
  <2> SUFFICES ASSUME NEW r \in Seq(Mail), Len(r) = 0 PROVE CountOf(r, type) = Weighed(r, f)
    OBVIOUS
  <2>1. r = <<>>
    BY EmptySeq
  <2>2. CountOf(<<>>, type) = 0 /\ Weighed(<<>>, f) = 0
    BY <1>1, CountEmpty, WeighedFew
  <2> QED BY <2>1, <2>2
<1>3. ASSUME NEW k \in Nat, k \in S PROVE k + 1 \in S
  <2> SUFFICES ASSUME NEW r \in Seq(Mail), Len(r) = k + 1 PROVE CountOf(r, type) = Weighed(r, f)
    OBVIOUS
  <2>1. r # <<>>
    <3>1. Len(<<>>) = 0
      BY EmptySeq
    <3> QED BY <3>1
  <2>2. Tail(r) \in Seq(Mail) /\ Len(Tail(r)) = k /\ Head(r) \in Mail
    BY <2>1, HeadIs
  <2>3. CountOf(Tail(r), type) = Weighed(Tail(r), f)
    BY <2>2, <1>3
  <2>4. CountOf(r, type) = CountOf(Tail(r), type) + (IF Head(r).type = type THEN 1 ELSE 0)
    BY <2>1, CountTail
  <2>5. Weighed(r, f) = f[Head(r)] + Weighed(Tail(r), f)
    BY <2>1, <1>1, WeighedMoves
  <2>6. Weighed(Tail(r), f) \in Nat /\ f[Head(r)] = IF Head(r).type = type THEN 1 ELSE 0
    BY <2>2, <1>1, WeightsAre
  <2> QED BY <2>3, <2>4, <2>5, <2>6
<1> DEFINE n == Len(q)
<1>4. n \in Nat
  BY LenProperties
<1> HIDE DEF n
<1>5. n \in S
  <2> HIDE DEF S
  <2>1. \A i \in 0..(n - 1) : i \in S => i + 1 \in S
    BY <1>3, <1>4
  <2>2. 0..n \subseteq S
    BY <1>2, <1>4, <2>1, UpTo
  <2> QED BY <1>4, <2>2
<1>6. CountOf(q, type) = Weighed(q, f)
  BY <1>5 DEF n
<1> QED BY <1>6 DEF f

\* The events about to be sent and the letters they are sent in are alike.
Any == Mail \cup Event

Alike(a, b) ==
    /\ a \in Seq(Any) /\ b \in Seq(Mail) /\ Len(a) = Len(b)
    /\ \A i \in 1..Len(b) : a[i].type = b[i].type /\ a[i].size = b[i].size

\* Sequences that are alike stay so when the same messages follow them.
LEMMA AlikeConcat ==
    ASSUME NEW a, NEW b, Alike(a, b), NEW r \in Seq(Mail)
    PROVE  Alike(a \o r, b \o r)
<1>1. a \in Seq(Any) /\ b \in Seq(Mail) /\ Len(a) = Len(b) /\ Len(b) \in Nat /\ Len(r) \in Nat
  BY LenProperties DEF Alike
<1>2. r \in Seq(Any)
  <2>1. r \in [1..Len(r) -> Any]
    BY LenProperties DEF Any
  <2> QED BY <2>1, <1>1
<1>3. /\ a \o r \in Seq(Any) /\ Len(a \o r) = Len(a) + Len(r)
      /\ \A i \in 1..(Len(a) + Len(r)) : (a \o r)[i] = IF i <= Len(a) THEN a[i] ELSE r[i - Len(a)]
  BY <1>1, <1>2, ConcatProperties
<1>4. /\ b \o r \in Seq(Mail) /\ Len(b \o r) = Len(b) + Len(r)
      /\ \A i \in 1..(Len(b) + Len(r)) : (b \o r)[i] = IF i <= Len(b) THEN b[i] ELSE r[i - Len(b)]
  BY <1>1, ConcatProperties
<1>5. ASSUME NEW i \in 1..(Len(b) + Len(r))
      PROVE  (a \o r)[i].type = (b \o r)[i].type /\ (a \o r)[i].size = (b \o r)[i].size
  <2>1. i <= Len(b) => a[i].type = b[i].type /\ a[i].size = b[i].size
    BY <1>1 DEF Alike
  <2> QED BY <2>1, <1>1, <1>3, <1>4
<1> QED BY <1>1, <1>3, <1>4, <1>5 DEF Alike

\* Alike sequences have the same number of messages of a type, and the same bytes.
LEMMA AlikeWeighs ==
    ASSUME NEW a, NEW b, Alike(a, b), NEW type
    PROVE  /\ SizeOf(a, type) = Weighed(b, Cost(type, TRUE))
           /\ CountOf(a, type) = Weighed(b, Cost(type, FALSE))
<1>1. /\ b \in Seq(Mail) /\ Len(b) \in Nat /\ DOMAIN a = 1..Len(b) /\ DOMAIN b = 1..Len(b)
      /\ \A i \in 1..Len(b) : /\ a[i].type = b[i].type /\ a[i].size = b[i].size
                              /\ b[i] \in Mail
  BY LenProperties DEF Alike
<1>2. SizeOf(a, type) = Weighed(b, Cost(type, TRUE))
  <2> DEFINE f == Cost(type, TRUE)
  <2>1. \A i \in 1..Len(b) : f[b[i]] = IF a[i].type = type THEN a[i].size ELSE 0
    <3>1. \A m \in Mail : f[m] = IF m.type = type THEN m.size ELSE 0
      BY CostIs
    <3> HIDE DEF f
    <3> QED BY <3>1, <1>1
  <2> HIDE DEF f
  <2>2. [i \in DOMAIN a |-> IF a[i].type = type THEN a[i].size ELSE 0] = [i \in DOMAIN b |-> f[b[i]]]
    BY <1>1, <2>1
  <2>3. SizeOf(a, type) = Weighed(b, f)
    BY <2>2 DEF SizeOf, Weighed
  <2> QED BY <2>3 DEF f
<1>3. CountOf(a, type) = CountOf(b, type)
  <2>1. {i \in DOMAIN a : a[i].type = type} = {i \in DOMAIN b : b[i].type = type}
    BY <1>1
  <2> QED BY <2>1 DEF CountOf
<1> QED BY <1>1, <1>2, <1>3, CountWeighs

\* What is on its way from p and to p weighs what There and Here say.
LEMMA WayWeighs ==
    ASSUME AtWork, Balanced, NEW p \in Peers, NEW b \in BOOLEAN, NEW type \in {"WRITE", "RELEASE"}
    PROVE  LET there == Sending(p) \o wire[p]
               whole == Sending(p) \o wire[p] \o Adding(Other(p)) \o rQueue[Other(p)]
           IN  /\ (IF b THEN SizeOf(there, type) ELSE CountOf(there, type)) = There(p, Cost(type, b))
               /\ (IF b THEN SizeOf(whole, type) ELSE CountOf(whole, type))
                  = There(p, Cost(type, b)) + Here(Other(p), Cost(type, b))
<1> DEFINE f == Cost(type, b)
           q == Other(p)
           w == wire[p]
           x == Adding(q)
           y == rQueue[q]
           s == Sealed(p)
           e == Sending(p)
<1>1. /\ EndTypes /\ Handled(p) /\ q \in Peers /\ f \in [Mail -> Nat]
      /\ Posted(p) /\ Posted(q)
  BY Ends, CostIs DEF AtWork, Balanced, Traffic
<1>2. w \in Seq(Mail) /\ x \in Seq(Mail) /\ y \in Seq(Mail) /\ Out(p) \in Seq(Mail)
  BY <1>1, LettersAre DEF Posted
<1>3. Alike(e, s)
  <2>1. CASE sched[p].at = "send" /\ ~lQueue[p][sched[p].slot].localServe
    <3> DEFINE g == lQueue[p][sched[p].slot]
    <3>1. s = <<LetterOf(g)>> /\ e = <<g>> /\ Out(p) = s
      BY <2>1 DEF Sealed, Sending, Out
    <3>2. g \in Event
      BY <1>1 DEF EndTypes, Places
    <3>3. LetterOf(g).type = g.type /\ LetterOf(g).size = g.size
      BY DEF LetterOf
    <3>4. <<g>> \in Seq(Any) /\ Len(<<g>>) = 1 /\ <<g>>[1] = g
      BY <3>2 DEF Any
    <3>5. Len(<<LetterOf(g)>>) = 1 /\ <<LetterOf(g)>>[1] = LetterOf(g)
      OBVIOUS
    <3>6. s \in Seq(Mail)
      BY <3>1, <1>2
    <3> HIDE DEF g, e, s
    <3> QED BY <3>1, <3>3, <3>4, <3>5, <3>6 DEF Alike
  <2>2. CASE ~(sched[p].at = "send" /\ ~lQueue[p][sched[p].slot].localServe)
    <3>1. s = <<>> /\ e = <<>>
      BY <2>2 DEF Sealed, Sending
    <3>2. <<>> \in Seq(Any) /\ <<>> \in Seq(Mail) /\ Len(<<>>) = 0
      OBVIOUS
    <3> HIDE DEF e, s
    <3> QED BY <3>1, <3>2 DEF Alike
  <2> QED BY <2>1, <2>2
<1>4. s \in Seq(Mail) /\ Weighed(s, f) = Weighed(Out(p), f)
  <2>1. s \in Seq(Mail)
    BY <1>3 DEF Alike
  <2>2. CASE sched[p].at # "reply"
    BY <2>1, <2>2 DEF Out
  <2>3. CASE sched[p].at = "reply"
    <3>1. s = <<>> /\ Out(p) = <<sched[p].msg>>
      BY <2>3 DEF Sealed, Out
    <3>2. sched[p].msg \in Mail /\ sched[p].msg.type # type
      BY <2>3, <1>1 DEF Handled, EndTypes, Places
    <3>3. f[sched[p].msg] = 0
      BY <3>2, CostIs
    <3> HIDE DEF f, s
    <3>4. Weighed(<<>>, f) = 0 /\ Weighed(<<sched[p].msg>>, f) = 0
      BY <3>2, <3>3, <1>1, WeighedFew
    <3> QED BY <2>1, <3>1, <3>4
  <2> QED BY <2>1, <2>2, <2>3
<1> HIDE DEF f, q, w, x, y, s, e
<1>5. Alike(e \o w, s \o w) /\ Alike(((e \o w) \o x) \o y, ((s \o w) \o x) \o y)
  <2>1. Alike(e \o w, s \o w)
    BY <1>2, <1>3, AlikeConcat
  <2>2. Alike((e \o w) \o x, (s \o w) \o x)
    BY <2>1, <1>2, AlikeConcat
  <2> QED BY <2>1, <2>2, <1>2, AlikeConcat
<1>6. /\ Weighed(s \o w, f) = Weighed(s, f) + Weighed(w, f)
      /\ Weighed(((s \o w) \o x) \o y, f) = Weighed(s, f) + Weighed(w, f) + Weighed(x, f) + Weighed(y, f)
  <2>1. s \o w \in Seq(Mail) /\ Weighed(s \o w, f) = Weighed(s, f) + Weighed(w, f)
    BY <1>1, <1>2, <1>4, ConcatProperties, WeighedConcat
  <2> DEFINE u == s \o w
  <2>2. u \in Seq(Mail)
    BY <2>1
  <2> HIDE DEF u
  <2>3. u \o x \in Seq(Mail) /\ Weighed(u \o x, f) = Weighed(u, f) + Weighed(x, f)
    BY <1>1, <1>2, <2>2, ConcatProperties, WeighedConcat
  <2> DEFINE v == u \o x
  <2>4. v \in Seq(Mail)
    BY <2>3
  <2> HIDE DEF v
  <2>5. Weighed(v \o y, f) = Weighed(v, f) + Weighed(y, f)
    BY <1>1, <1>2, <2>4, WeighedConcat
  <2> QED BY <2>1, <2>3, <2>5 DEF u, v
<1>7. /\ Weighed(s, f) \in Nat /\ Weighed(w, f) \in Nat /\ Weighed(x, f) \in Nat /\ Weighed(y, f) \in Nat
  BY <1>1, <1>2, <1>4, WeightsAre
<1>8. /\ There(p, f) = Weighed(w, f) + Weighed(s, f)
      /\ Here(q, f) = Weighed(y, f) + Weighed(x, f)
  BY <1>4 DEF There, Here, w, x, y
<1>9. /\ (IF b THEN SizeOf(e \o w, type) ELSE CountOf(e \o w, type)) = Weighed(s \o w, f)
      /\ (IF b THEN SizeOf(((e \o w) \o x) \o y, type) ELSE CountOf(((e \o w) \o x) \o y, type))
         = Weighed(((s \o w) \o x) \o y, f)
  <2> DEFINE a1 == e \o w
             b1 == s \o w
             a2 == ((e \o w) \o x) \o y
             b2 == ((s \o w) \o x) \o y
  <2>1. Alike(a1, b1) /\ Alike(a2, b2)
    BY <1>5
  <2> HIDE DEF a1, a2, b1, b2
  <2>2. /\ SizeOf(a1, type) = Weighed(b1, Cost(type, TRUE)) /\ CountOf(a1, type) = Weighed(b1, Cost(type, FALSE))
        /\ SizeOf(a2, type) = Weighed(b2, Cost(type, TRUE)) /\ CountOf(a2, type) = Weighed(b2, Cost(type, FALSE))
    BY <2>1, AlikeWeighs
  <2>3. /\ (IF b THEN SizeOf(a1, type) ELSE CountOf(a1, type)) = Weighed(b1, Cost(type, b))
        /\ (IF b THEN SizeOf(a2, type) ELSE CountOf(a2, type)) = Weighed(b2, Cost(type, b))
    <3>1. b = TRUE \/ b = FALSE
      OBVIOUS
    <3> QED BY <3>1, <2>2
  <2> QED BY <2>3 DEF a1, a2, b1, b2, f
<1>10. /\ (IF b THEN SizeOf(e \o w, type) ELSE CountOf(e \o w, type)) = There(p, f)
       /\ (IF b THEN SizeOf(((e \o w) \o x) \o y, type) ELSE CountOf(((e \o w) \o x) \o y, type))
          = There(p, f) + Here(q, f)
  BY <1>6, <1>7, <1>8, <1>9
<1> QED BY <1>10 DEF e, w, x, y, q, f

\* CreditsAccountedFor for every number of threads and packets, every capacity and whatever
\* requests are made.
THEOREM CreditsAreExact == ASSUME ~Recycles PROVE Spec => []CreditsAccountedFor
<1>1. AccInv => CreditsAccountedFor
  <2> SUFFICES ASSUME AccInv, Working, NEW p \in Peers
               PROVE  LET q == Other(p)
                          there == Sending(p) \o wire[p]
                          back  == Sending(q) \o wire[q] \o Adding(p) \o rQueue[p]
                      IN  /\ stream[p].remoteFill = SizeOf(there, "WRITE") + stream[q].localFill
                                                    + SizeOf(back, "RELEASE")
                          /\ stream[p].remotePackets =
                                CountOf(there, "WRITE") + Len(stream[q].available) + Len(stream[q].blocked)
                                + CountOf(back, "RELEASE")
    BY DEF CreditsAccountedFor
  <2> DEFINE q == Other(p)
             there == Sending(p) \o wire[p]
             back  == Sending(q) \o wire[q] \o Adding(p) \o rQueue[p]
  <2>1. AtWork /\ Balanced /\ q \in Peers /\ Other(q) = p /\ \A r \in Peers : Posted(r)
    BY Ends DEF AccInv, IndInv, Working, Balanced, Traffic
  <2>2. ASSUME NEW b \in BOOLEAN
        PROVE  /\ Believed(p, b) = (IF b THEN SizeOf(there, "WRITE") ELSE CountOf(there, "WRITE"))
                                   + Kept(q, b)
                                   + (IF b THEN SizeOf(back, "RELEASE") ELSE CountOf(back, "RELEASE"))
    <3> DEFINE f == Cost("WRITE", b)
               g == Cost("RELEASE", b)
    <3>1. (IF b THEN SizeOf(there, "WRITE") ELSE CountOf(there, "WRITE")) = There(p, f)
      BY <2>1, WayWeighs
    <3>2. (IF b THEN SizeOf(back, "RELEASE") ELSE CountOf(back, "RELEASE")) = There(q, g) + Here(p, g)
      BY <2>1, WayWeighs
    <3>3. There(p, f) \in Nat /\ There(q, g) \in Nat /\ Here(p, g) \in Nat /\ Kept(q, b) \in Int
      <4>1. EndTypes
        BY <2>1 DEF AtWork
      <4> QED BY <4>1, <2>1, CostIs, PostedIs, KeptIs
    <3>4. Believed(p, b) = There(p, f) + Kept(q, b) + There(q, g) + Here(p, g)
      BY <2>1 DEF Balanced, Accounts, Owing
    <3> HIDE DEF f, g, there, back
    <3> QED BY <3>1, <3>2, <3>3, <3>4
  <2> HIDE DEF there, back
  <2>3. stream[p].remoteFill = SizeOf(there, "WRITE") + stream[q].localFill + SizeOf(back, "RELEASE")
    <3>1. Believed(p, TRUE) = SizeOf(there, "WRITE") + Kept(q, TRUE) + SizeOf(back, "RELEASE")
      BY <2>2
    <3> QED BY <3>1 DEF Believed, Kept
  <2>4. stream[p].remotePackets = CountOf(there, "WRITE") + Len(stream[q].available)
                                  + Len(stream[q].blocked) + CountOf(back, "RELEASE")
    <3> DEFINE x == Len(stream[q].available)
               y == Len(stream[q].blocked)
               c == CountOf(there, "WRITE")
               d == CountOf(back, "RELEASE")
    <3>1. stream[p].remotePackets = c + (x + y) + d
      <4>1. Believed(p, FALSE) = c + Kept(q, FALSE) + d
        BY <2>2
      <4> QED BY <4>1 DEF Believed, Kept
    <3>3. x \in Nat /\ y \in Nat
      BY <2>1, CountsAre DEF AtWork
    <3>4. c \in Nat /\ d \in Nat
      <4> DEFINE f == Cost("WRITE", FALSE)
                 g == Cost("RELEASE", FALSE)
      <4>1. c = There(p, f)
        BY <2>1, WayWeighs DEF there
      <4>2. d = There(q, g) + Here(p, g)
        BY <2>1, WayWeighs DEF back
      <4>3. f \in [Mail -> Nat] /\ g \in [Mail -> Nat]
        BY CostIs
      <4> HIDE DEF f, g
      <4>4. There(p, f) \in Nat /\ There(q, g) \in Nat /\ Here(p, g) \in Nat
        BY <4>3, <2>1, PostedIs
      <4> HIDE DEF c, d
      <4> QED BY <4>1, <4>2, <4>4
    <3> HIDE DEF x, y, c, d
    <3>5. stream[p].remotePackets = c + x + y + d
      BY <3>1, <3>3, <3>4
    <3> QED BY <3>5 DEF x, y, c, d
  <2> QED BY <2>3, <2>4 DEF there, back
<1> QED BY <1>1, AccountsBalance, PTL

-------------------------------------------------------------------------------
(* Who is blocked is woken. *)

\* Every write the application makes fits into the stream. The code never serves one that
\* does not: isStreamSpaceEnoughFor refuses it again and again.
WritesFit == \A b \in FaultModels, t \in Threads : \A op \in Ops[b][t] :
                op.type = "WRITE" => op.size <= Capacity

Fits ==
    /\ \A t \in Threads : pc[t] # "idle" /\ call[t].type = "WRITE" => call[t].size <= Capacity
    /\ \A p \in Peers, s \in Slots : lQueue[p][s].type = "WRITE" => lQueue[p][s].size <= Capacity

\* The packets nobody has been told of are those of the events the scheduler has still to
\* take, and of the reads it has woken.
Wakes(p) ==
    /\ Blocked(p, "READ") # {} =>
          Len(stream[p].available) <= Here(p, Cost("WRITE", FALSE)) + Cardinality(Woken(p, "READ"))
    /\ Blocked(p, "WRITE") # {} => stream[p].remotePackets > 0 \/ Woken(p, "WRITE") # {}

WakeInv ==
    /\ AccInv /\ mayFail \in FaultModels
    /\ up => Fits
    /\ Working => \A p \in Peers : Wakes(p)

\* What the scheduler puts back for an event it serves.
LEMMA ServeLeaves ==
    ASSUME EndTypes, NEW p \in Peers, NEW s \in Slots, ServeLocal(p, s)
    PROVE  LET e == lQueue[p][s]
               f == lQueue'[p][s]
           IN  /\ f.thread = e.thread /\ f.type = e.type /\ (e.type = "WRITE" => f.size = e.size)
               /\ f.state = "BLOCKED" => \/ e.type = "READ" /\ stream[p].available = <<>>
                                         \/ e.type = "WRITE" /\ ~HasRoom(p, e.size)
               /\ lQueue' = [lQueue EXCEPT ![p][s] = f] /\ f \in Event
<1> DEFINE e == lQueue[p][s]
           Goal(f) == /\ f.thread = e.thread /\ f.type = e.type /\ (e.type = "WRITE" => f.size = e.size)
                      /\ f.state = "BLOCKED" => \/ e.type = "READ" /\ stream[p].available = <<>>
                                                \/ e.type = "WRITE" /\ ~HasRoom(p, e.size)
                      /\ lQueue' = [lQueue EXCEPT ![p][s] = f] /\ f \in Event
<1>1. e \in Event
  BY DEF EndTypes
<1>2. /\ Pend(e) \in Event /\ Block(e) \in Event /\ [Block(e) EXCEPT !.ack = TRUE] \in Event
      /\ Served([e EXCEPT !.ack = TRUE, !.localServe = TRUE]) \in Event
      /\ \A n \in Nat : [Pend(e) EXCEPT !.size = n] \in Event
  <2>1. \A x \in Event : /\ Served(x) \in Event
                         /\ [x EXCEPT !.ack = TRUE, !.localServe = TRUE] \in Event
                         /\ Block(x) \in Event /\ Pend(x) \in Event
                         /\ [Block(x) EXCEPT !.ack = TRUE] \in Event
                         /\ \A n \in Nat : [Pend(x) EXCEPT !.size = n] \in Event
    BY EventIs
  <2> HIDE DEF e
  <2> QED BY <2>1, <1>1
<1>3. \E f : Goal(f)
  <2>1. CASE e.type = "WRITE" /\ HasRoom(p, e.size)
    <3> DEFINE f == Pend(e)
    <3>1. lQueue' = [lQueue EXCEPT ![p][s] = f]
      BY <2>1 DEF ServeLocal
    <3>2. f.thread = e.thread /\ f.type = e.type /\ f.size = e.size /\ f.state = "PENDING" /\ f \in Event
      <4> HIDE DEF e
      <4> QED BY <1>1, <1>2, EventBecomes
    <3> HIDE DEF f
    <3>3. Goal(f)
      BY <3>1, <3>2
    <3> QED BY <3>3
  <2>2. CASE e.type = "WRITE" /\ ~HasRoom(p, e.size)
    <3> DEFINE f == [Block(e) EXCEPT !.ack = TRUE]
    <3>1. lQueue' = [lQueue EXCEPT ![p][s] = f]
      BY <2>2 DEF ServeLocal
    <3>2. f.thread = e.thread /\ f.type = e.type /\ f.size = e.size /\ f \in Event
      <4> HIDE DEF e
      <4> QED BY <1>1, <1>2, EventBecomes
    <3> HIDE DEF f
    <3>3. Goal(f)
      BY <2>2, <3>1, <3>2
    <3> QED BY <3>3
  <2>3. CASE e.type = "READ" /\ stream[p].available # <<>>
    <3> DEFINE f == Served([e EXCEPT !.ack = TRUE, !.localServe = TRUE])
    <3>1. lQueue' = [lQueue EXCEPT ![p][s] = f]
      BY <2>3 DEF ServeLocal, PostAndMarkServed
    <3>2. f.thread = e.thread /\ f.type = e.type /\ f.state = "SERVED" /\ f \in Event
      <4> HIDE DEF e
      <4> QED BY <1>1, <1>2, EventBecomes
    <3> HIDE DEF f
    <3>3. Goal(f)
      BY <2>3, <3>1, <3>2
    <3> QED BY <3>3
  <2>4. CASE e.type = "READ" /\ stream[p].available = <<>>
    <3> DEFINE f == Block(e)
    <3>1. lQueue' = [lQueue EXCEPT ![p][s] = f]
      BY <2>4 DEF ServeLocal
    <3>2. f.thread = e.thread /\ f.type = e.type /\ f \in Event
      <4> HIDE DEF e
      <4> QED BY <1>1, <1>2, EventBecomes
    <3> HIDE DEF f
    <3>3. Goal(f)
      BY <2>4, <3>1, <3>2
    <3> QED BY <3>3
  <2>5. CASE e.type = "RELEASE"
    <3>1. PICK n \in Nat : n = ReleasedSize(p)
      <4>1. stream[p].blocked # <<>> => Head(stream[p].blocked) \in Packet
        BY HeadIs DEF EndTypes, Stream
      <4> QED BY <4>1 DEF ReleasedSize, Packet
    <3> DEFINE f == [Pend(e) EXCEPT !.size = n]
    <3>2. lQueue' = [lQueue EXCEPT ![p][s] = f]
      BY <2>5, <3>1 DEF ServeLocal
    <3>3. f.thread = e.thread /\ f.type = e.type /\ f.state = "PENDING" /\ f \in Event
      <4> HIDE DEF e
      <4>1. \A k \in Nat : LET g == [Pend(e) EXCEPT !.size = k]
                            IN  /\ g.thread = e.thread /\ ~g.localServe /\ g.state = "PENDING"
                                /\ g.id = e.id /\ g.type = e.type /\ g.size = k
        BY <1>1, EventBecomes
      <4> QED BY <1>2, <4>1
    <3> HIDE DEF f
    <3>4. Goal(f)
      BY <2>5, <3>2, <3>3
    <3> QED BY <3>4
  <2>6. CASE e.type = "RESET"
    <3> DEFINE f == Pend(e)
    <3>1. lQueue' = [lQueue EXCEPT ![p][s] = f]
      BY <2>6 DEF ServeLocal
    <3>2. f.thread = e.thread /\ f.type = e.type /\ f.size = e.size /\ f.state = "PENDING" /\ f \in Event
      <4> HIDE DEF e
      <4> QED BY <1>1, <1>2, EventBecomes
    <3> HIDE DEF f
    <3>3. Goal(f)
      BY <3>1, <3>2
    <3> QED BY <3>3
  <2>7. e.type \in {"WRITE", "READ", "RELEASE", "RESET"}
    BY DEF ServeLocal
  <2> QED BY <2>1, <2>2, <2>3, <2>4, <2>5, <2>6, <2>7
<1>4. PICK f : Goal(f)
  BY <1>3
<1>5. lQueue'[p][s] = f
  BY <1>4, PutTypes
<1> QED BY <1>4, <1>5

\* A step that leaves the events and the calls alone, or only serves or wakes an event.
LEMMA FitsKeep ==
    ASSUME Fits, EndTypes,
           \A t \in Threads : pc'[t] # "idle" => pc[t] # "idle" /\ call'[t] = call[t],
           \/ lQueue' = lQueue
           \/ \E p \in Peers, s \in Slots, f \in Event :
                 /\ lQueue' = [lQueue EXCEPT ![p][s] = f]
                 /\ f.type = "WRITE" => f.size <= Capacity
    PROVE  Fits'
<1>1. ASSUME NEW p \in Peers, NEW s \in Slots, lQueue'[p][s].type = "WRITE"
      PROVE  lQueue'[p][s].size <= Capacity
  <2>1. CASE lQueue' = lQueue
    BY <1>1, <2>1 DEF Fits
  <2>2. ASSUME NEW r \in Peers, NEW o \in Slots, NEW f \in Event,
               lQueue' = [lQueue EXCEPT ![r][o] = f], f.type = "WRITE" => f.size <= Capacity
        PROVE  lQueue'[p][s].size <= Capacity
    <3>1. /\ lQueue'[r][o] = f
          /\ \A x \in Slots : x # o => lQueue'[r][x] = lQueue[r][x]
          /\ \A q \in Peers : q # r => lQueue'[q] = lQueue[q]
      BY <2>2, PutTypes
    <3>2. CASE p = r /\ s = o
      BY <1>1, <2>2, <3>1, <3>2
    <3>3. CASE ~(p = r /\ s = o)
      <4>1. lQueue'[p][s] = lQueue[p][s]
        BY <3>1, <3>3
      <4> QED BY <4>1, <1>1 DEF Fits
    <3> QED BY <3>2, <3>3
  <2> QED BY <2>1, <2>2
<1> QED BY <1>1 DEF Fits

-------------------------------------------------------------------------------
(* The sets of events that are blocked and that are awake. *)

\* What filling a slot does to them.
LEMMA PutSets ==
    ASSUME EndTypes, NEW p \in Peers, NEW s \in Slots, NEW f \in Event,
           lQueue' = [lQueue EXCEPT ![p][s] = f]
    PROVE  /\ \A type : /\ Blocked(p, type)' = (Blocked(p, type) \ {s})
                              \cup (IF f.state = "BLOCKED" /\ f.type = type THEN {s} ELSE {})
                        /\ Woken(p, type)' = (Woken(p, type) \ {s})
                              \cup (IF f.state = "READY" /\ f.type = type THEN {s} ELSE {})
           /\ \A q \in Peers : \A type : q # p => /\ Blocked(q, type)' = Blocked(q, type)
                                              /\ Woken(q, type)' = Woken(q, type)
<1>1. /\ lQueue'[p][s] = f
      /\ \A x \in Slots : x # s => lQueue'[p][x] = lQueue[p][x]
      /\ \A q \in Peers : q # p => lQueue'[q] = lQueue[q]
  BY PutTypes
<1>2. \A type : Blocked(p, type)' = (Blocked(p, type) \ {s})
                      \cup (IF f.state = "BLOCKED" /\ f.type = type THEN {s} ELSE {})
  BY <1>1 DEF Blocked, InState
<1>3. \A type : Woken(p, type)' = (Woken(p, type) \ {s})
                      \cup (IF f.state = "READY" /\ f.type = type THEN {s} ELSE {})
  BY <1>1 DEF Woken, InState
<1>4. \A q \in Peers : \A type : q # p => /\ Blocked(q, type)' = Blocked(q, type)
                                      /\ Woken(q, type)' = Woken(q, type)
  BY <1>1 DEF Blocked, Woken, InState
<1> QED BY <1>2, <1>3, <1>4

\* The members of a set of slots, with one more or one less.
LEMMA SlotsCount ==
    ASSUME NEW S, S \subseteq Slots, NEW s \in Slots
    PROVE  /\ Cardinality(S) \in Nat
           /\ Cardinality(S \ {s}) = Cardinality(S) - (IF s \in S THEN 1 ELSE 0)
           /\ Cardinality(S \cup {s}) = Cardinality(S) + (IF s \in S THEN 0 ELSE 1)
<1>1. IsFiniteSet(Slots)
  BY RoomForThreads, FS_Interval DEF Slots
<1>2. IsFiniteSet(S)
  BY <1>1, FS_Subset
<1>3. Cardinality(S) \in Nat
  BY <1>2, FS_CardinalityType
<1>4. Cardinality(S \ {s}) = IF s \in S THEN Cardinality(S) - 1 ELSE Cardinality(S)
  BY <1>2, FS_RemoveElement
<1>5. Cardinality(S \cup {s}) = IF s \in S THEN Cardinality(S) ELSE Cardinality(S) + 1
  BY <1>2, FS_AddElement
<1> QED BY <1>3, <1>4, <1>5

\* An end where nothing arrives, nothing is taken and no event is blocked or woken.
LEMMA QuietWakes ==
    ASSUME NEW p \in Peers, Wakes(p), stream'[p].available = stream[p].available,
           stream'[p].remotePackets = stream[p].remotePackets,
           Here(p, Cost("WRITE", FALSE))' = Here(p, Cost("WRITE", FALSE)),
           \A type : Blocked(p, type)' = Blocked(p, type) /\ Woken(p, type)' = Woken(p, type)
    PROVE  Wakes(p)'
  BY DEF Wakes

\* Neither in a step that leaves the two rings and the stream of the end alone.
LEMMA StillWakes ==
    ASSUME NEW p \in Peers, Wakes(p), stream'[p] = stream[p], lQueue'[p] = lQueue[p],
           Here(p, Cost("WRITE", FALSE))' = Here(p, Cost("WRITE", FALSE))
    PROVE  Wakes(p)'
<1>1. \A type : Blocked(p, type)' = Blocked(p, type) /\ Woken(p, type)' = Woken(p, type)
  BY DEF Blocked, Woken, InState
<1> QED BY <1>1, QuietWakes

\* An event that neither was nor is blocked or awake.
LEMMA OtherSlot ==
    ASSUME EndTypes, NEW p \in Peers, NEW s \in Slots, NEW f \in Event,
           lQueue' = [lQueue EXCEPT ![p][s] = f],
           lQueue[p][s].state \notin {"BLOCKED", "READY"}, f.state \notin {"BLOCKED", "READY"}
    PROVE  \A r \in Peers : \A type : Blocked(r, type)' = Blocked(r, type) /\ Woken(r, type)' = Woken(r, type)
<1>1. lQueue'[p][s] = f /\ \A x \in Slots : x # s => lQueue'[p][x] = lQueue[p][x]
  BY PutTypes
<1>2. \A type : Blocked(p, type)' = Blocked(p, type) /\ Woken(p, type)' = Woken(p, type)
  BY <1>1 DEF Blocked, Woken, InState
<1>3. \A r \in Peers : \A type : r # p => Blocked(r, type)' = Blocked(r, type) /\ Woken(r, type)' = Woken(r, type)
  BY PutSets
<1> QED BY <1>2, <1>3

\* Where nothing has a weight, nothing has one that needs the first.
LEMMA WeighNothing ==
    ASSUME NEW S, NEW q \in Seq(S), NEW f \in [S -> Nat], NEW g \in [S -> Nat],
           \A m \in S : f[m] = 0 => g[m] = 0, Weighed(q, f) = 0
    PROVE  Weighed(q, g) = 0
<1> DEFINE K == {k \in Nat : \A r \in Seq(S) : Len(r) = k /\ Weighed(r, f) = 0 => Weighed(r, g) = 0}
           n == Len(q)
<1>1. 0 \in K
  <2> SUFFICES ASSUME NEW r \in Seq(S), Len(r) = 0 PROVE Weighed(r, g) = 0
    OBVIOUS
  <2>1. r = <<>>
    BY EmptySeq
  <2> QED BY <2>1, WeighedFew
<1>2. ASSUME NEW k \in Nat, k \in K PROVE k + 1 \in K
  <2> SUFFICES ASSUME NEW r \in Seq(S), Len(r) = k + 1, Weighed(r, f) = 0 PROVE Weighed(r, g) = 0
    OBVIOUS
  <2>1. r # <<>>
    <3>1. Len(<<>>) = 0
      BY EmptySeq
    <3> QED BY <3>1
  <2>2. Tail(r) \in Seq(S) /\ Len(Tail(r)) = k /\ Head(r) \in S
    BY <2>1, HeadIs
  <2>3. Weighed(r, f) = f[Head(r)] + Weighed(Tail(r), f) /\ Weighed(r, g) = g[Head(r)] + Weighed(Tail(r), g)
    BY <2>1, WeighedMoves
  <2>4. Weighed(Tail(r), f) \in Nat /\ Weighed(Tail(r), g) \in Nat /\ f[Head(r)] \in Nat
    BY <2>2, WeightsAre
  <2>5. f[Head(r)] = 0 /\ Weighed(Tail(r), f) = 0
    BY <2>3, <2>4
  <2>6. g[Head(r)] = 0 /\ Weighed(Tail(r), g) = 0
    BY <2>2, <2>5, <1>2
  <2> QED BY <2>3, <2>6
<1>3. n \in Nat
  BY LenProperties
<1> HIDE DEF n, K
<1>4. \A i \in 0..(n - 1) : i \in K => i + 1 \in K
  BY <1>2, <1>3
<1>5. n \in K
  <2>1. 0..n \subseteq K
    BY <1>1, <1>3, <1>4, UpTo
  <2> QED BY <1>3, <2>1
<1> QED BY <1>5 DEF n, K

\* A writer that finds no room has packets out.
LEMMA FullMeansPackets ==
    ASSUME AtWork, Balanced, Working, NEW p \in Peers, NEW n \in Nat, n <= Capacity, ~HasRoom(p, n)
    PROVE  stream[p].remotePackets > 0
<1> SUFFICES ASSUME ~(stream[p].remotePackets > 0) PROVE FALSE
  OBVIOUS
<1>1. EndTypes /\ \A r \in Peers : Posted(r) /\ Stored(r)
  BY DEF AtWork, Balanced, Traffic
<1>2. PICK q \in Peers : q = Other(p)
  BY Ends
<1> DEFINE no == FALSE
           yes == TRUE
           wf == Cost("WRITE", no)
           wt == Cost("WRITE", yes)
           rf == Cost("RELEASE", no)
           rt == Cost("RELEASE", yes)
           a == stream[q].available
           c == stream[q].blocked
           x == Len(a)
           y == Len(c)
           believed == stream[p].remotePackets
           fill == stream[p].remoteFill
<1>3. no \in BOOLEAN /\ yes \in BOOLEAN /\ ~no /\ yes
  OBVIOUS
<1>4. /\ believed = Believed(p, no) /\ fill = Believed(p, yes)
      /\ Kept(q, no) = x + y /\ Kept(q, yes) = stream[q].localFill
  BY DEF Believed, Kept
<1>5. believed \in Int /\ fill \in Int /\ a \in Seq(Packet) /\ c \in Seq(Packet)
  BY <1>1 DEF EndTypes, Stream
<1>6. believed <= 0 /\ believed < MaxPackets
  BY <1>5, DispatcherAssumption
<1>7. ~(fill + n <= Capacity)
  BY <1>6 DEF HasRoom
<1> HIDE DEF no, yes
<1>8. /\ wf \in [Mail -> Nat] /\ wt \in [Mail -> Nat] /\ rf \in [Mail -> Nat] /\ rt \in [Mail -> Nat]
      /\ \A m \in Mail : (wf[m] = 0 => wt[m] = 0) /\ (rf[m] = 0 => rt[m] = 0)
  <2>1. /\ wf \in [Mail -> Nat] /\ wt \in [Mail -> Nat] /\ rf \in [Mail -> Nat] /\ rt \in [Mail -> Nat]
    BY <1>3, CostIs
  <2>2. ASSUME NEW m \in Mail PROVE (wf[m] = 0 => wt[m] = 0) /\ (rf[m] = 0 => rt[m] = 0)
    <3>1. /\ wf[m] = (IF m.type # "WRITE" THEN 0 ELSE IF no THEN m.size ELSE 1)
          /\ wt[m] = (IF m.type # "WRITE" THEN 0 ELSE IF yes THEN m.size ELSE 1)
          /\ rf[m] = (IF m.type # "RELEASE" THEN 0 ELSE IF no THEN m.size ELSE 1)
          /\ rt[m] = (IF m.type # "RELEASE" THEN 0 ELSE IF yes THEN m.size ELSE 1)
      <4>1. \A type : \A b \in BOOLEAN : Cost(type, b)[m] =
               (IF m.type # type THEN 0 ELSE IF b THEN m.size ELSE 1)
        BY CostIs
      <4> QED BY <4>1, <1>3
    <3> HIDE DEF wf, wt, rf, rt
    <3> QED BY <3>1, <1>3
  <2> QED BY <2>1, <2>2
<1>9. /\ Owing(p, no) = There(p, wf) + Kept(q, no) + There(q, rf) + Here(p, rf)
      /\ Owing(p, yes) = There(p, wt) + Kept(q, yes) + There(q, rt) + Here(p, rt)
      /\ Owing(p, no) = Believed(p, no) /\ Owing(p, yes) = Believed(p, yes)
  <2>1. /\ Owing(p, no) = There(p, wf) + Kept(q, no) + There(q, rf) + Here(p, rf)
        /\ Owing(p, yes) = There(p, wt) + Kept(q, yes) + There(q, rt) + Here(p, rt)
    BY <1>2 DEF Owing
  <2>2. Owing(p, no) = Believed(p, no) /\ Owing(p, yes) = Believed(p, yes)
    BY <1>3 DEF Balanced, Accounts
  <2> QED BY <2>1, <2>2
<1> HIDE DEF wf, wt, rf, rt
<1>10. There(p, wf) \in Nat /\ There(q, rf) \in Nat /\ Here(p, rf) \in Nat /\ x \in Nat /\ y \in Nat
  BY <1>1, <1>5, <1>8, PostedIs, LenProperties
<1> HIDE DEF x, y, believed, fill
<1>11. There(p, wf) = 0 /\ There(q, rf) = 0 /\ Here(p, rf) = 0 /\ x = 0 /\ y = 0
  BY <1>4, <1>5, <1>6, <1>9, <1>10
<1>12. ASSUME NEW r \in Peers, NEW f \in [Mail -> Nat], NEW g \in [Mail -> Nat],
              \A m \in Mail : f[m] = 0 => g[m] = 0
       PROVE  (There(r, f) = 0 => There(r, g) = 0) /\ (Here(r, f) = 0 => Here(r, g) = 0)
  <2>1. rQueue[r] \in Seq(Mail) /\ wire[r] \in Seq(Mail) /\ Adding(r) \in Seq(Mail) /\ Out(r) \in Seq(Mail)
    BY <1>1, LettersAre DEF Posted
  <2>2. /\ Weighed(rQueue[r], f) \in Nat /\ Weighed(wire[r], f) \in Nat
        /\ Weighed(Adding(r), f) \in Nat /\ Weighed(Out(r), f) \in Nat
    BY <2>1, WeightsAre
  <2>3. There(r, f) = 0 => Weighed(wire[r], f) = 0 /\ Weighed(Out(r), f) = 0
    BY <2>2 DEF There
  <2>4. Here(r, f) = 0 => Weighed(rQueue[r], f) = 0 /\ Weighed(Adding(r), f) = 0
    BY <2>2 DEF Here
  <2>5. There(r, f) = 0 => Weighed(wire[r], g) = 0 /\ Weighed(Out(r), g) = 0
    BY <2>1, <2>3, <1>12, WeighNothing
  <2>6. Here(r, f) = 0 => Weighed(rQueue[r], g) = 0 /\ Weighed(Adding(r), g) = 0
    BY <2>1, <2>4, <1>12, WeighNothing
  <2> QED BY <2>5, <2>6 DEF There, Here
<1>13. There(p, wt) = 0 /\ There(q, rt) = 0 /\ Here(p, rt) = 0
  BY <1>8, <1>11, <1>12
<1>14. Kept(q, yes) = 0
  <2>1. a = <<>> /\ c = <<>>
    BY <1>5, <1>11, EmptySeq DEF x, y
  <2>2. Bulk \in [Packet -> Nat]
    BY DEF Bulk, Packet
  <2>3. Weighed(<<>>, Bulk) = 0
    BY <2>2, WeighedFew
  <2>4. stream[q].localFill = 0 + 0
    BY <2>1, <2>3, <1>1 DEF Stored
  <2> QED BY <2>4, <1>4
<1>15. fill = 0
  BY <1>4, <1>9, <1>13, <1>14
<1> QED BY <1>7, <1>15

-------------------------------------------------------------------------------
(* No step loses a wakeup. *)

\* The writes under way fit: the application makes no other.
LEMMA NextFits ==
    ASSUME WritesFit, mayFail \in FaultModels, AtWork, up, up', Fits, [Next]_vars
    PROVE  Fits'
<1>1. EndTypes /\ CallTypes /\ Capacity \in Nat
  BY DispatcherAssumption DEF AtWork
<1>2. ASSUME NEW t \in Threads, NEW op \in Ops[mayFail][t], Call(t, op) PROVE Fits'
  <2>1. /\ pc' = [pc EXCEPT ![t] = "add"] /\ lQueue' = lQueue
        /\ call' = [call EXCEPT ![t] = [type |-> op.type, size |-> op.size, id |-> <<t, left[t]>>]]
    BY <1>2 DEF Call, queues
  <2>2. op.type = "WRITE" => op.size <= Capacity
    BY DEF WritesFit
  <2>3. /\ call'[t].type = op.type /\ call'[t].size = op.size
        /\ \A u \in Threads : u # t => pc'[u] = pc[u] /\ call'[u] = call[u]
    BY <2>1, <1>1 DEF CallTypes
  <2> QED BY <2>1, <2>2, <2>3 DEF Fits
<1>3. ASSUME NEW t \in Threads, Add(t) PROVE Fits'
  <2>1. /\ pc[t] = "add"
        /\ pc' \in {[pc EXCEPT ![t] = "wait"], [pc EXCEPT ![t] = "idle"]}
        /\ (call' = call \/ (pc' = [pc EXCEPT ![t] = "idle"] /\ call' = [call EXCEPT ![t] = NoRequest]))
    BY <1>3 DEF Add
  <2>2. \A u \in Threads : pc'[u] # "idle" => pc[u] # "idle" /\ call'[u] = call[u]
    BY <2>1, <1>1 DEF CallTypes
  <2>3. call[t].type = "WRITE" => call[t].size <= Capacity
    BY <2>1 DEF Fits
  <2>4. CASE lQueue' = lQueue
    BY <2>2, <2>4, <1>1, FitsKeep
  <2>5. CASE \E s \in Slots, f \in Event :
                 /\ lQueue' = [lQueue EXCEPT ![PeerOf(t)][s] = f]
                 /\ f.type = call[t].type /\ f.size = call[t].size
    <3>1. PICK s \in Slots, f \in Event :
                 /\ lQueue' = [lQueue EXCEPT ![PeerOf(t)][s] = f]
                 /\ f.type = call[t].type /\ f.size = call[t].size
      BY <2>5
    <3>2. PeerOf(t) \in Peers /\ (f.type = "WRITE" => f.size <= Capacity)
      BY <3>1, <2>3, Ends
    <3> QED BY <3>1, <3>2, <2>2, <1>1, FitsKeep
  <2> QED BY <2>4, <2>5, <1>1, <1>3, AddIs
<1>4. ASSUME NEW t \in Threads, Return(t) PROVE Fits'
  <2>1. lQueue' = lQueue /\ pc' = [pc EXCEPT ![t] = "idle"] /\ call' = [call EXCEPT ![t] = NoRequest]
    BY <1>4 DEF Return, queues
  <2>2. \A u \in Threads : pc'[u] # "idle" => pc[u] # "idle" /\ call'[u] = call[u]
    BY <2>1, <1>1 DEF CallTypes
  <2> QED BY <2>1, <2>2, <1>1, FitsKeep
<1>5. ASSUME NEW p \in Peers, NEW s \in Slots, NEW f \in Event, pc' = pc, call' = call,
             lQueue' = [lQueue EXCEPT ![p][s] = f], f.type = "WRITE" => f.size <= Capacity
      PROVE  Fits'
  BY <1>1, <1>5, FitsKeep
<1>6. ASSUME NEW p \in Peers, SchedLocal(p) PROVE Fits'
  <2>1. PICK s \in Slots : ServeLocal(p, s)
    BY <1>6, NextLocalIs
  <2>2. pc' = pc /\ call' = call
    BY <1>6 DEF SchedLocal
  <2> DEFINE e == lQueue[p][s]
             f == lQueue'[p][s]
  <2>3. /\ f.type = e.type /\ (e.type = "WRITE" => f.size = e.size)
        /\ lQueue' = [lQueue EXCEPT ![p][s] = f] /\ f \in Event
    BY <2>1, <1>1, ServeLeaves
  <2>4. e.type = "WRITE" => e.size <= Capacity
    BY DEF Fits
  <2> HIDE DEF e, f
  <2> QED BY <2>2, <2>3, <2>4, <1>5
<1>7. ASSUME NEW p \in Peers, SchedRemoteRequest(p) PROVE Fits'
  <2>1. pc' = pc /\ call' = call /\ (lQueue' = lQueue \/ \E type : UnblockFirst(p, type))
    BY <1>7 DEF SchedRemoteRequest, threads
  <2>2. CASE lQueue' = lQueue
    BY <2>1, <2>2, <1>1, FitsKeep
  <2>3. ASSUME NEW type, UnblockFirst(p, type), lQueue' # lQueue PROVE Fits'
    <3>1. PICK s \in Slots : /\ [lQueue[p][s] EXCEPT !.state = "READY"] \in Event
                             /\ lQueue' = [lQueue EXCEPT ![p][s] = [lQueue[p][s] EXCEPT !.state = "READY"]]
      BY <2>3, <1>1, UnblockIs
    <3> DEFINE e == lQueue[p][s]
               f == [e EXCEPT !.state = "READY"]
    <3>2. e \in Event /\ (e.type = "WRITE" => e.size <= Capacity)
      BY <1>1 DEF EndTypes, Fits
    <3>3. f.type = e.type /\ f.size = e.size
      <4> HIDE DEF e
      <4> QED BY <3>2 DEF Event
    <3> HIDE DEF f
    <3> QED BY <3>1, <3>2, <3>3, <2>1, <1>5 DEF f
  <2> QED BY <2>1, <2>2, <2>3
<1>8. ASSUME NEW p \in Peers, SchedResponse(p) PROVE Fits'
  <2>1. pc' = pc /\ call' = call
    BY <1>8 DEF SchedResponse
  <2>2. CASE lQueue' = lQueue
    BY <2>1, <2>2, <1>1, FitsKeep
  <2>3. CASE lQueue' # lQueue
    <3>1. PICK s \in Slots :
             /\ Served([lQueue[p][s] EXCEPT !.ack = TRUE]) \in Event
             /\ lQueue' = [lQueue EXCEPT ![p][s] = Served([lQueue[p][s] EXCEPT !.ack = TRUE])]
      BY <1>1, <1>8, <2>3, ResponseIs
    <3> DEFINE f == Served([lQueue[p][s] EXCEPT !.ack = TRUE])
    <3>2. f.size = 0
      <4>1. lQueue[p][s] \in Event
        BY <1>1 DEF EndTypes
      <4> QED BY <4>1 DEF Served, Event
    <3> HIDE DEF f
    <3>3. f \in Event /\ lQueue' = [lQueue EXCEPT ![p][s] = f]
      BY <3>1 DEF f
    <3>4. f.size <= Capacity
      BY <3>2, <1>1
    <3> QED BY <3>3, <3>4, <2>1, <1>5
  <2> QED BY <2>2, <2>3
<1>9. ASSUME UNCHANGED <<lQueue, pc, call>> PROVE Fits'
  BY <1>1, <1>9, FitsKeep
<1>10. ASSUME NEW p \in Peers, Scheduler(p) \/ Reader(p) \/ SchedStop(p) \/ ReaderStop(p) PROVE Fits'
  <2>1. \/ SchedLocal(p) \/ SchedRemoteRequest(p) \/ SchedResponse(p)
        \/ UNCHANGED <<lQueue, pc, call>>
    <3>1. CASE SchedNull(p)
      BY <3>1 DEF SchedNull, threads
    <3>2. CASE SchedSend(p)
      BY <3>2 DEF SchedSend, threads, queues
    <3>3. CASE SchedReply(p)
      BY <3>3 DEF SchedReply, threads, queues
    <3>4. CASE Receive(p)
      BY <3>4 DEF Receive, threads, queues
    <3>5. CASE AddRemote(p)
      BY <3>5 DEF AddRemote, threads
    <3>6. CASE SchedStop(p) \/ ReaderStop(p)
      BY <3>6 DEF SchedStop, ReaderStop, threads, queues
    <3> QED BY <1>10, NobodyStops, <3>1, <3>2, <3>3, <3>4, <3>5, <3>6
  <2> QED BY <2>1, <1>6, <1>7, <1>8, <1>9
<1>11. CASE UNCHANGED vars
  BY <1>9, <1>11 DEF vars, queues, threads
<1>12. CASE Next
  <2>1. ~Unplug
    BY DEF Unplug
  <2> QED BY <2>1, <1>2, <1>3, <1>4, <1>10, <1>12 DEF Next
<1> QED BY <1>11, <1>12

\* What the wakeups of an end count: natural numbers.
LEMMA WakesAre ==
    ASSUME AtWork, Balanced, NEW p \in Peers
    PROVE  /\ Here(p, Cost("WRITE", FALSE)) \in Nat
           /\ Len(stream[p].available) \in Nat
           /\ stream[p].remotePackets \in Nat
           /\ \A type : Cardinality(Woken(p, type)) \in Nat
<1>1. EndTypes /\ (\A r \in Peers : Posted(r)) /\ \A r \in Peers : Room(r)
  BY DEF AtWork, Balanced, Traffic
<1>2. Here(p, Cost("WRITE", FALSE)) \in Nat
  BY <1>1, CostIs, PostedIs
<1>3. Len(stream[p].available) \in Nat
  BY <1>1, CountsAre
<1>4. stream[p].remotePackets \in Nat
  <2> DEFINE x == Len(stream[Other(p)].available)
             y == Len(stream[Other(p)].blocked)
             believed == stream[p].remotePackets
  <2>1. Other(p) \in Peers /\ Other(Other(p)) = p
    BY Ends
  <2>2. x \in Nat /\ y \in Nat /\ believed \in Int
    BY <2>1, <1>1, CountsAre
  <2>3. /\ \A r \in Peers : \A type : /\ SendingOne(r, type) \in {0, 1} /\ AddingOne(r, type) \in {0, 1}
                                      /\ CountOf(wire[r], type) \in Nat /\ CountOf(rQueue[r], type) \in Nat
    BY <1>1, CountsAre
  <2>4. PacketsOut(p) = SendingOne(p, "WRITE") + CountOf(wire[p], "WRITE") + x + y
    BY DEF PacketsOut
  <2>5. PacketsOut(p) + Returning(p) <= believed
    BY <1>1 DEF Room
  <2> HIDE DEF x, y, believed
  <2>6. PacketsOut(p) \in Nat
    BY <2>2, <2>3, <2>4
  <2>7. Returning(p) \in Nat
    BY <2>1, <2>3 DEF Returning
  <2>8. believed \in Nat
    BY <2>2, <2>5, <2>6, <2>7
  <2> QED BY <2>8 DEF believed
<1>5. \A type : Cardinality(Woken(p, type)) \in Nat
  <2>1. \A type : Woken(p, type) \subseteq Slots
    BY DEF Woken, InState
  <2>2. MaxEvents \in Slots
    BY RoomForThreads DEF Slots
  <2> QED BY <2>1, <2>2, SlotsCount
<1> QED BY <1>2, <1>3, <1>4, <1>5

\* A local event is served: a read takes a packet, or there is none; a write that is
\* refused has packets out.
LEMMA SchedLocalWakes ==
    ASSUME AtWork, Balanced, Working, Fits, NEW p \in Peers, SchedLocal(p), \A r \in Peers : Wakes(r)
    PROVE  \A r \in Peers : Wakes(r)'
<1>1. /\ EndTypes /\ CallTypes /\ \A r \in Peers : Posted(r) /\ Ring(r)
  BY DEF AtWork, Balanced, Traffic
<1>2. PICK s \in Slots : /\ ServeLocal(p, s) /\ lQueue[p][s].state \in {"READY", "ALLOCATED"}
                         /\ lQueue[p][s].type = "RELEASE" => stream[p].blocked # <<>>
  BY NextLocalIs
<1> DEFINE e == lQueue[p][s]
           f == lQueue'[p][s]
           c == Cost("WRITE", FALSE)
           here == Here(p, c)
           x == Len(stream[p].available)
           believed == stream[p].remotePackets
           reads == Woken(p, "READ")
<1>3. /\ f.type = e.type /\ (e.type = "WRITE" => f.size = e.size)
      /\ f.state = "BLOCKED" => \/ e.type = "READ" /\ stream[p].available = <<>>
                                \/ e.type = "WRITE" /\ ~HasRoom(p, e.size)
      /\ lQueue' = [lQueue EXCEPT ![p][s] = f] /\ f \in Event
  BY <1>1, <1>2, ServeLeaves
<1>4. /\ \/ f.state = "PENDING" /\ f.type # "READ"
         \/ f.state = "BLOCKED" /\ f.type \in {"WRITE", "READ"}
         \/ f.state = "SERVED" /\ f.type = "READ"
      /\ Len(stream'[p].available) = IF f.state = "SERVED" THEN x - 1 ELSE x
      /\ stream'[p].remotePackets = IF f.state = "PENDING" /\ f.type = "WRITE" THEN believed + 1 ELSE believed
      /\ \A q \in Peers : q # p => stream'[q] = stream[q]
  <2>1. PICK g \in Event :
          /\ lQueue' = [lQueue EXCEPT ![p][s] = g]
          /\ \/ g.state = "PENDING" /\ g.type # "READ"
             \/ g.state = "BLOCKED" /\ g.type \in {"WRITE", "READ"}
             \/ g.state = "SERVED" /\ g.type = "READ"
          /\ Len(stream'[p].available) = IF g.state = "SERVED" THEN x - 1 ELSE x
          /\ stream'[p].remotePackets = IF g.state = "PENDING" /\ g.type = "WRITE" THEN believed + 1 ELSE believed
          /\ \A q \in Peers : q # p => stream'[q] = stream[q]
    <3>1. PICK g \in Event :
          /\ lQueue' = [lQueue EXCEPT ![p][s] = g]
          /\ \/ g.state = "PENDING" /\ g.type # "READ"
             \/ g.state = "BLOCKED" /\ g.type \in {"WRITE", "READ"}
             \/ g.state = "SERVED" /\ g.type = "READ"
          /\ Len(stream'[p].available) = IF g.state = "SERVED" THEN x - 1 ELSE x
          /\ IF g.state = "PENDING" /\ g.type = "WRITE"
             THEN stream'[p].remotePackets = believed + 1
             ELSE stream'[p].remotePackets = believed
          /\ \A q \in Peers : q # p => stream'[q] = stream[q]
      BY <1>1, <1>2, ServeIs
    <3> QED BY <3>1
  <2>2. g = f
    BY <2>1, <1>1, PutTypes
  <2> QED BY <2>1, <2>2
<1>5. here \in Nat /\ x \in Nat /\ believed \in Nat /\ Cardinality(reads) \in Nat
  BY WakesAre
<1>6. /\ rQueue' = rQueue /\ reader' = reader
  BY <1>1, RingStands DEF SchedLocal, TakeNext, EndTypes
<1>7. \A r \in Peers : \A g : Here(r, g)' = Here(r, g)
  BY <1>6 DEF Here, Adding
<1>8. /\ \A type : /\ Blocked(p, type)' = (Blocked(p, type) \ {s})
                              \cup (IF f.state = "BLOCKED" /\ f.type = type THEN {s} ELSE {})
                   /\ Woken(p, type)' = (Woken(p, type) \ {s})
                              \cup (IF f.state = "READY" /\ f.type = type THEN {s} ELSE {})
      /\ \A q \in Peers : \A type : q # p => Blocked(q, type)' = Blocked(q, type) /\ Woken(q, type)' = Woken(q, type)
  <2> HIDE DEF f
  <2> QED BY <1>1, <1>3, PutSets
<1>9. \A type : s \notin Blocked(p, type) /\ (s \in Woken(p, type) => e.type = type)
  BY <1>2 DEF Blocked, Woken, InState
<1>10. ASSUME NEW r \in Peers, r # p PROVE Wakes(r)'
  BY <1>4, <1>7, <1>8, <1>10, QuietWakes
<1>11. ASSUME Blocked(p, "READ")' # {}
       PROVE  Len(stream'[p].available) <= Here(p, c)' + Cardinality(Woken(p, "READ")')
  <2> DEFINE after == Woken(p, "READ")'
             n == Cardinality(reads)
             k == Cardinality(after)
             z == Len(stream'[p].available)
             hereafter == Here(p, c)'
  <2>1. reads \subseteq Slots
    BY DEF Woken, InState
  <2>2. after = reads \ {s}
    BY <1>4, <1>8
  <2>3. k = n - (IF s \in reads THEN 1 ELSE 0)
    <3> HIDE DEF reads, after
    <3> QED BY <2>1, <2>2, SlotsCount
  <2>4. Blocked(p, "READ") # {} => x <= here + n
    BY DEF Wakes
  <2>5. Here(p, c)' = here
    BY <1>7
  <2>6. k \in Nat
    <3>1. after \subseteq Slots
      BY <2>1, <2>2
    <3> HIDE DEF after
    <3> QED BY <3>1, <1>2, SlotsCount
  <2>7. CASE f.type # "READ"
    <3>1. Blocked(p, "READ")' = Blocked(p, "READ") /\ s \notin reads /\ f.state # "SERVED"
      <4> HIDE DEF e, f
      <4>1. f.type # "READ" /\ e.type # "READ"
        BY <2>7, <1>3
      <4>2. f.state # "READY" /\ (f.state = "SERVED" => f.type = "READ")
        BY <1>4
      <4>3. s \notin Blocked(p, "READ") /\ s \notin Woken(p, "READ")
        BY <4>1, <1>9
      <4>4. Blocked(p, "READ")' = (Blocked(p, "READ") \ {s}) \cup {}
        BY <4>1, <1>8
      <4>5. Woken(p, "READ")' = (Woken(p, "READ") \ {s}) \cup {}
        BY <4>1, <1>8
      <4> QED BY <4>1, <4>2, <4>3, <4>4, <4>5
    <3>2. Len(stream'[p].available) = x
      BY <3>1, <1>4
    <3>3. k = n /\ x <= here + n
      <4> HIDE DEF x, here, n, k, reads
      <4> QED BY <3>1, <2>3, <2>4, <1>5, <1>11 DEF n
    <3>4. z = x /\ hereafter = here
      BY <3>2, <2>5
    <3> HIDE DEF x, here, n, k, z, hereafter
    <3>5. z <= hereafter + k
      BY <3>3, <3>4
    <3> QED BY <3>5 DEF z, hereafter, k, after
  <2>8. CASE f.type = "READ" /\ f.state = "BLOCKED"
    <3>1. stream[p].available = <<>>
      BY <2>8, <1>3
    <3>2. x = 0
      BY <3>1, EmptySeq
    <3>3. Len(stream'[p].available) = x
      BY <2>8, <1>4
    <3>4. z = 0 /\ hereafter \in Nat
      BY <3>2, <3>3, <2>5, <1>5
    <3> HIDE DEF x, here, n, k, z, hereafter
    <3>5. z <= hereafter + k
      BY <3>4, <2>6
    <3> QED BY <3>5 DEF z, hereafter, k, after
  <2>9. CASE f.type = "READ" /\ f.state # "BLOCKED"
    <3>1. Blocked(p, "READ")' = Blocked(p, "READ")
      BY <2>9, <1>8, <1>9
    <3>2. x <= here + n
      BY <3>1, <2>4, <1>11
    <3>3. f.state = "SERVED"
      BY <2>9, <1>4
    <3>5. Len(stream'[p].available) = x - 1
      BY <3>3, <1>4
    <3>6. z = x - 1 /\ hereafter = here /\ n \in Nat /\ x \in Nat /\ here \in Nat
      BY <3>5, <2>5, <1>5
    <3> HIDE DEF x, here, n, k, z, hereafter
    <3>7. z <= hereafter + k
      BY <3>2, <3>6, <2>3, <2>6
    <3> QED BY <3>7 DEF z, hereafter, k, after
  <2> QED BY <2>7, <2>8, <2>9
<1>12. ASSUME Blocked(p, "WRITE")' # {}
       PROVE  stream'[p].remotePackets > 0 \/ Woken(p, "WRITE")' # {}
  <2>1. CASE f.type # "WRITE"
    <3>1. Blocked(p, "WRITE")' = Blocked(p, "WRITE") /\ Woken(p, "WRITE")' = Woken(p, "WRITE")
      <4> HIDE DEF e, f
      <4>1. f.type # "WRITE" /\ e.type # "WRITE"
        BY <2>1, <1>3
      <4>2. f.state # "READY" /\ (f.state = "SERVED" => f.type = "READ")
        BY <1>4
      <4>3. s \notin Blocked(p, "WRITE") /\ s \notin Woken(p, "WRITE")
        BY <4>1, <1>9
      <4>4. Blocked(p, "WRITE")' = (Blocked(p, "WRITE") \ {s}) \cup {}
        BY <4>1, <1>8
      <4>5. Woken(p, "WRITE")' = (Woken(p, "WRITE") \ {s}) \cup {}
        BY <4>1, <1>8
      <4> QED BY <4>1, <4>2, <4>3, <4>4, <4>5
    <3>2. stream'[p].remotePackets = believed
      BY <2>1, <1>4
    <3> QED BY <3>1, <3>2, <1>12 DEF Wakes
  <2>2. CASE f.type = "WRITE" /\ f.state = "PENDING"
    <3>1. stream'[p].remotePackets = believed + 1
      BY <2>2, <1>4
    <3> HIDE DEF believed
    <3> QED BY <3>1, <1>5
  <2>3. CASE f.type = "WRITE" /\ f.state # "PENDING"
    <3>1. f.state = "BLOCKED" /\ e.type = "WRITE" /\ ~HasRoom(p, e.size)
      BY <2>3, <1>3, <1>4
    <3>2. e.size <= Capacity /\ e.size \in Nat
      BY <3>1, <1>1 DEF Fits, EndTypes, Event
    <3>3. believed > 0
      <4> HIDE DEF e
      <4> QED BY <3>1, <3>2, FullMeansPackets
    <3> QED BY <3>1, <3>3, <1>4
  <2> QED BY <2>1, <2>2, <2>3
<1>13. Wakes(p)'
  BY <1>11, <1>12 DEF Wakes
<1> QED BY <1>10, <1>13

\* One of the events of a type that are blocked is woken, if there is one, and no other.
LEMMA UnblockWakes ==
    ASSUME EndTypes, NEW p \in Peers, NEW type, UnblockFirst(p, type)
    PROVE  \/ Blocked(p, type) = {} /\ lQueue' = lQueue
           \/ /\ Woken(p, type)' # {}
              /\ Cardinality(Woken(p, type)') = Cardinality(Woken(p, type)) + 1
              /\ Blocked(p, type) # {}
              /\ \A other : other # type => /\ Blocked(p, other)' = Blocked(p, other)
                                            /\ Woken(p, other)' = Woken(p, other)
<1>1. \/ Blocked(p, type) = {} /\ lQueue' = lQueue
      \/ \E s \in Blocked(p, type) :
            /\ s \in Slots /\ [lQueue[p][s] EXCEPT !.state = "READY"] \in Event
            /\ lQueue' = [lQueue EXCEPT ![p][s] = [lQueue[p][s] EXCEPT !.state = "READY"]]
  BY UnblockIs
<1>2. ASSUME NEW s \in Slots, s \in Blocked(p, type), NEW f \in Event,
             f = [lQueue[p][s] EXCEPT !.state = "READY"], lQueue' = [lQueue EXCEPT ![p][s] = f]
      PROVE  /\ Woken(p, type)' # {}
             /\ Cardinality(Woken(p, type)') = Cardinality(Woken(p, type)) + 1
             /\ \A other : other # type => /\ Blocked(p, other)' = Blocked(p, other)
                                           /\ Woken(p, other)' = Woken(p, other)
  <2> DEFINE W == Woken(p, type)
  <2>1. lQueue[p][s].state = "BLOCKED" /\ lQueue[p][s].type = type /\ lQueue[p][s] \in Event
    BY <1>2 DEF Blocked, InState, EndTypes
  <2>2. f.state = "READY" /\ f.type = type
    BY <1>2, <2>1 DEF Event
  <2>3. lQueue'[p][s] = f /\ \A r \in Slots : r # s => lQueue'[p][r] = lQueue[p][r]
    BY <1>2, PutTypes
  <2>4. \A other : other # type => /\ Blocked(p, other)' = Blocked(p, other)
                                   /\ Woken(p, other)' = Woken(p, other)
    BY <2>1, <2>2, <2>3 DEF Blocked, Woken, InState
  <2>5. Woken(p, type)' = W \cup {s}
    BY <1>2, <2>1, <2>2, <2>3 DEF Woken, InState
  <2>6. W \subseteq Slots /\ s \notin W
    BY <2>1 DEF Woken, InState
  <2>7. Cardinality(W \cup {s}) = Cardinality(W) + 1
    <3> HIDE DEF W
    <3> QED BY <2>6, SlotsCount
  <2> QED BY <2>4, <2>5, <2>7
<1>3. ASSUME NEW s \in Blocked(p, type) PROVE Blocked(p, type) # {}
  OBVIOUS
<1> QED BY <1>1, <1>2, <1>3

\* A request of the peer: a packet wakes a read and a release a write, if there is one.
LEMMA SchedRemoteRequestWakes ==
    ASSUME AtWork, Balanced, NEW p \in Peers, SchedRemoteRequest(p), \A r \in Peers : Wakes(r)
    PROVE  \A r \in Peers : Wakes(r)'
<1>1. /\ EndTypes /\ CallTypes /\ \A r \in Peers : Posted(r) /\ Ring(r)
  BY DEF AtWork, Balanced, Traffic
<1> DEFINE m == Head(rQueue[p])
           c == Cost("WRITE", FALSE)
           here == Here(p, c)
           hereafter == Here(p, c)'
           x == Len(stream[p].available)
<1>2. /\ reader' = reader /\ TakeNext(p) /\ NextEvent(p) = "remote"
      /\ \/ m.type = "WRITE" /\ UnblockFirst(p, "READ") /\ stream' = stream
         \/ /\ m.type = "RELEASE" /\ UnblockFirst(p, "WRITE")
            /\ stream' = [stream EXCEPT ![p].remoteFill = @ - m.size, ![p].remotePackets = @ - 1]
         \/ m.type = "RESET" /\ lQueue' = lQueue /\ stream' = stream
  BY DEF SchedRemoteRequest
<1>3. rQueue[p] # <<>> /\ rQueue'[p] = Tail(rQueue[p]) /\ rQueue'[Other(p)] = rQueue[Other(p)]
  BY <1>1, <1>2, TakeRemote
<1>4. \A r \in Peers : Adding(r)' = Adding(r)
  BY <1>2 DEF Adding
<1>5. m \in Mail /\ c \in [Mail -> Nat] /\ c[m] = IF m.type = "WRITE" THEN 1 ELSE 0
  <2>1. m \in Letter
    BY <1>1, <1>3, <1>4, TakeMoves
  <2>2. m \in Mail
    BY <2>1, LettersAre
  <2> HIDE DEF m
  <2> QED BY <2>2, CostIs
<1> HIDE DEF c
<1>6. hereafter = here + (0 - c[m])
  BY <1>1, <1>3, <1>4, <1>5, TakeMoves
<1> HIDE DEF m
<1>7. here \in Nat /\ x \in Nat /\ \A type : Cardinality(Woken(p, type)) \in Nat
  BY WakesAre DEF c
<1>8. stream'[p].available = stream[p].available /\ \A r \in Peers : r # p => stream'[r] = stream[r]
  BY <1>1, <1>2 DEF EndTypes, Stream
<1>9. lQueue' = lQueue \/ \E type : UnblockFirst(p, type)
  BY <1>2
<1>10. \A r \in Peers : r # p => lQueue'[r] = lQueue[r]
  <2>1. CASE lQueue' = lQueue
    BY <2>1
  <2>2. ASSUME NEW type, UnblockFirst(p, type), lQueue' # lQueue
        PROVE  \A r \in Peers : r # p => lQueue'[r] = lQueue[r]
    <3>1. PICK s \in Slots : /\ [lQueue[p][s] EXCEPT !.state = "READY"] \in Event
                             /\ lQueue' = [lQueue EXCEPT ![p][s] = [lQueue[p][s] EXCEPT !.state = "READY"]]
      BY <2>2, <1>1, UnblockIs
    <3> QED BY <3>1, <1>1, PutTypes
  <2> QED BY <2>1, <2>2, <1>9
<1>11. ASSUME NEW r \in Peers, r # p PROVE Wakes(r)'
  <2>1. r = Other(p)
    BY <1>11, Ends
  <2>2. Here(r, Cost("WRITE", FALSE))' = Here(r, Cost("WRITE", FALSE))
    BY <2>1, <1>3, <1>4 DEF Here
  <2> QED BY <2>2, <1>8, <1>10, <1>11, StillWakes
<1>12. ASSUME NEW type, UnblockFirst(p, type)
       PROVE  \/ Blocked(p, type) = {} /\ lQueue' = lQueue
              \/ /\ Woken(p, type)' # {}
                 /\ Cardinality(Woken(p, type)') = Cardinality(Woken(p, type)) + 1
                 /\ Blocked(p, type) # {}
                 /\ \A other : other # type => /\ Blocked(p, other)' = Blocked(p, other)
                                               /\ Woken(p, other)' = Woken(p, other)
  BY <1>1, <1>12, UnblockWakes
<1>13. Blocked(p, "READ") # {} => x <= here + Cardinality(Woken(p, "READ"))
  BY DEF Wakes, c
<1>14. Blocked(p, "WRITE") # {} => stream[p].remotePackets > 0 \/ Woken(p, "WRITE") # {}
  BY DEF Wakes
<1>15. ASSUME Blocked(p, "READ")' # {}
       PROVE  Len(stream'[p].available) <= Here(p, c)' + Cardinality(Woken(p, "READ")')
  <2> DEFINE n == Cardinality(Woken(p, "READ"))
             k == Cardinality(Woken(p, "READ")')
             z == Len(stream'[p].available)
  <2>1. z = x /\ n \in Nat
    BY <1>7, <1>8
  <2>2. CASE m.type = "WRITE"
    <3>1. c[m] = 1 /\ UnblockFirst(p, "READ")
      BY <2>2, <1>2, <1>5
    <3>2. ~(Blocked(p, "READ") = {} /\ lQueue' = lQueue)
      BY <1>15 DEF Blocked, InState
    <3>3. k = n + 1 /\ Blocked(p, "READ") # {}
      BY <3>1, <3>2, <1>12
    <3>4. x <= here + n
      BY <3>3, <1>13
    <3> HIDE DEF x, here, hereafter, n, k, z
    <3>5. z <= hereafter + k
      BY <3>1, <3>3, <3>4, <2>1, <1>6, <1>7
    <3> QED BY <3>5 DEF z, hereafter, k
  <2>3. CASE m.type # "WRITE"
    <3>1. c[m] = 0
      BY <2>3, <1>5
    <3>2. Blocked(p, "READ")' = Blocked(p, "READ") /\ Woken(p, "READ")' = Woken(p, "READ")
      <4>1. CASE lQueue' = lQueue
        BY <4>1 DEF Blocked, Woken, InState
      <4>2. CASE UnblockFirst(p, "WRITE")
        BY <4>1, <4>2, <1>12
      <4> QED BY <4>1, <4>2, <2>3, <1>2
    <3>3. k = n /\ x <= here + n
      BY <3>2, <1>13, <1>15
    <3> HIDE DEF x, here, hereafter, n, k, z
    <3>4. z <= hereafter + k
      BY <3>1, <3>3, <2>1, <1>6, <1>7
    <3> QED BY <3>4 DEF z, hereafter, k
  <2> QED BY <2>2, <2>3
<1>16. ASSUME Blocked(p, "WRITE")' # {}
       PROVE  stream'[p].remotePackets > 0 \/ Woken(p, "WRITE")' # {}
  <2>1. CASE m.type = "RELEASE"
    <3>1. UnblockFirst(p, "WRITE")
      BY <2>1, <1>2
    <3>2. ~(Blocked(p, "WRITE") = {} /\ lQueue' = lQueue)
      BY <1>16 DEF Blocked, InState
    <3> QED BY <3>1, <3>2, <1>12
  <2>2. CASE m.type # "RELEASE"
    <3>1. stream' = stream
      BY <2>2, <1>2
    <3>2. Blocked(p, "WRITE")' = Blocked(p, "WRITE") /\ Woken(p, "WRITE")' = Woken(p, "WRITE")
      <4>1. CASE lQueue' = lQueue
        BY <4>1 DEF Blocked, Woken, InState
      <4>2. CASE UnblockFirst(p, "READ")
        BY <4>1, <4>2, <1>12
      <4> QED BY <4>1, <4>2, <2>2, <1>2
    <3> QED BY <3>1, <3>2, <1>14, <1>16
  <2> QED BY <2>1, <2>2
<1>17. Wakes(p)'
  BY <1>15, <1>16 DEF Wakes, c
<1> QED BY <1>11, <1>17

\* A response is no packet, and its event was neither blocked nor awake.
LEMMA SchedResponseWakes ==
    ASSUME AtWork, Balanced, NEW p \in Peers, SchedResponse(p), \A r \in Peers : Wakes(r)
    PROVE  \A r \in Peers : Wakes(r)'
<1>1. /\ EndTypes /\ CallTypes /\ \A r \in Peers : Posted(r) /\ Ring(r)
  BY DEF AtWork, Balanced, Traffic
<1> DEFINE m == Head(rQueue[p])
           c == Cost("WRITE", FALSE)
<1>2. /\ reader' = reader /\ stream' = stream /\ TakeNext(p) /\ NextEvent(p) = "remote"
      /\ m.type \notin Requests
  BY DEF SchedResponse
<1>3. rQueue[p] # <<>> /\ rQueue'[p] = Tail(rQueue[p]) /\ rQueue'[Other(p)] = rQueue[Other(p)]
  BY <1>1, <1>2, TakeRemote
<1>4. \A r \in Peers : Adding(r)' = Adding(r)
  BY <1>2 DEF Adding
<1>5. c \in [Mail -> Nat] /\ c[m] = 0
  <2>1. m \in Letter /\ m.type # "WRITE"
    BY <1>1, <1>2, <1>3, <1>4, TakeMoves DEF Requests
  <2> HIDE DEF m
  <2> QED BY <2>1, LettersAre, CostIs
<1> HIDE DEF c
<1>6. Here(p, c)' = Here(p, c)
  <2>1. Here(p, c)' = Here(p, c) + (0 - c[m])
    BY <1>1, <1>3, <1>4, <1>5, TakeMoves
  <2>2. Here(p, c) \in Nat
    BY WakesAre DEF c
  <2> QED BY <2>1, <2>2, <1>5
<1>7. Here(Other(p), Cost("WRITE", FALSE))' = Here(Other(p), Cost("WRITE", FALSE))
  BY <1>3, <1>4, Ends DEF Here
<1>8. \A r \in Peers : \A type : Blocked(r, type)' = Blocked(r, type) /\ Woken(r, type)' = Woken(r, type)
  <2>1. CASE lQueue' = lQueue
    BY <2>1 DEF Blocked, Woken, InState
  <2>2. ASSUME NEW s \in InState(p, "PENDING"), s \in Slots,
               Served([lQueue[p][s] EXCEPT !.ack = TRUE]) \in Event,
               lQueue' = [lQueue EXCEPT ![p][s] = Served([lQueue[p][s] EXCEPT !.ack = TRUE])]
        PROVE  \A r \in Peers : \A type : Blocked(r, type)' = Blocked(r, type) /\ Woken(r, type)' = Woken(r, type)
    <3> DEFINE f == Served([lQueue[p][s] EXCEPT !.ack = TRUE])
    <3>1. lQueue[p][s].state = "PENDING"
      BY <2>2 DEF InState
    <3>2. f.state = "SERVED"
      <4>1. lQueue[p][s] \in Event
        BY <2>2, <1>1 DEF EndTypes
      <4> QED BY <4>1 DEF Served, Event
    <3>3. f \in Event /\ lQueue' = [lQueue EXCEPT ![p][s] = f]
      BY <2>2
    <3> HIDE DEF f
    <3> QED BY <3>1, <3>2, <3>3, <2>2, <1>1, OtherSlot
  <2> QED BY <2>1, <2>2, <1>1, ResponseIs
<1>9. \A r \in Peers : r = p \/ r = Other(p)
  BY Ends
<1> QED BY <1>2, <1>6, <1>7, <1>8, <1>9, QuietWakes DEF c

\* A packet that arrives is one more to be read and one more event to tell of it.
LEMMA ReceiveWakes ==
    ASSUME AtWork, Balanced, NEW p \in Peers, Receive(p), \A r \in Peers : Wakes(r)
    PROVE  \A r \in Peers : Wakes(r)'
<1>1. EndTypes
  BY DEF AtWork
<1>2. PICK q \in Peers : q = Other(p) /\ \A r \in Peers : r = p \/ r = q
  BY Ends
<1> DEFINE m == Head(wire[q])
           c == Cost("WRITE", FALSE)
           here == Here(p, c)
           hereafter == Here(p, c)'
           x == Len(stream[p].available)
           z == Len(stream'[p].available)
<1>3. c \in [Mail -> Nat]
  BY CostIs
<1> HIDE DEF c
<1>4. /\ m \in Letter
      /\ hereafter = here + c[m] /\ Here(q, c)' = Here(q, c)
      /\ stream'[q] = stream[q] /\ stream'[p].remotePackets = stream[p].remotePackets
      /\ IF m.type # "WRITE" THEN stream'[p] = stream[p]
         ELSE stream'[p].available = Append(stream[p].available, [id |-> m.id, size |-> m.size])
  BY <1>2, <1>3, ReceiveIs
<1>5. c[m] = IF m.type = "WRITE" THEN 1 ELSE 0
  <2>1. m \in Mail
    BY <1>4, LettersAre
  <2> HIDE DEF m
  <2> QED BY <2>1, CostIs DEF c
<1>6. lQueue' = lQueue
  BY DEF Receive, queues
<1>7. \A r \in Peers : \A type : Blocked(r, type)' = Blocked(r, type) /\ Woken(r, type)' = Woken(r, type)
  BY <1>6 DEF Blocked, Woken, InState
<1>8. Wakes(q)'
  BY <1>4, <1>7, QuietWakes DEF c
<1>9. here \in Nat /\ x \in Nat /\ \A type : Cardinality(Woken(p, type)) \in Nat
  BY WakesAre DEF c
<1>10. z = x + c[m]
  <2>1. CASE m.type # "WRITE"
    BY <2>1, <1>4, <1>5, <1>9
  <2>2. CASE m.type = "WRITE"
    <3> DEFINE a == stream[p].available
               k == [id |-> m.id, size |-> m.size]
    <3>1. a \in Seq(Packet) /\ k \in Packet
      BY <1>1, <1>4 DEF EndTypes, Stream, Packet, Letter, Ids
    <3> HIDE DEF k
    <3>2. Len(Append(a, k)) = Len(a) + 1
      BY <3>1, AppendProperties
    <3>3. stream'[p].available = Append(a, k)
      BY <2>2, <1>4 DEF k
    <3>4. z = x + 1
      BY <3>2, <3>3
    <3> HIDE DEF z, x
    <3> QED BY <3>4, <2>2, <1>5, <1>9
  <2> QED BY <2>1, <2>2
<1>11. ASSUME Blocked(p, "READ")' # {}
       PROVE  Len(stream'[p].available) <= Here(p, c)' + Cardinality(Woken(p, "READ")')
  <2> DEFINE n == Cardinality(Woken(p, "READ"))
             k == Cardinality(Woken(p, "READ")')
  <2>1. x <= here + n
    BY <1>7, <1>11 DEF Wakes, c
  <2>2. k = n /\ n \in Nat
    BY <1>7, <1>9
  <2> HIDE DEF x, z, n, k, here, hereafter
  <2>4. z <= hereafter + k
    BY <2>1, <2>2, <1>4, <1>5, <1>9, <1>10
  <2> QED BY <2>4 DEF z, hereafter, k
<1>12. Wakes(p)'
  BY <1>4, <1>7, <1>11 DEF Wakes, c
<1> QED BY <1>2, <1>8, <1>12

\* WakeInv holds at first and every step keeps it.
LEMMA InitWakes == ASSUME WritesFit, Init PROVE WakeInv
<1>1. AccInv /\ mayFail \in FaultModels
  BY InitBalances DEF Init
<1>2. Fits
  <2>1. \A t \in Threads : pc[t] = "idle"
    BY DEF Init
  <2>2. \A p \in Peers, s \in Slots : lQueue[p][s].type = "NONE"
    BY DEF Init, FreeSlot
  <2> QED BY <2>1, <2>2 DEF Fits
<1>3. ASSUME NEW p \in Peers PROVE Wakes(p)
  <2>1. \A s \in Slots : lQueue[p][s].state = "SERVED"
    BY DEF Init, FreeSlot
  <2>2. \A type : Blocked(p, type) = {}
    BY <2>1 DEF Blocked, InState
  <2> QED BY <2>2 DEF Wakes
<1> QED BY <1>1, <1>2, <1>3 DEF WakeInv

\* Every step keeps what wakes the blocked requests.
LEMMA NextWakes ==
    ASSUME ~Recycles, WritesFit, WakeInv, [Next]_vars
    PROVE  WakeInv'
<1>1. AccInv'
  BY NextBalances DEF WakeInv
<1>2. (up' => up) /\ (Working' => Working)
  BY OnceDown DEF WakeInv, AccInv, IndInv
<1>3. mayFail' \in FaultModels
  BY DEF WakeInv, Next, vars
<1>4. up' => Fits'
  BY <1>2, NextFits DEF WakeInv, AccInv, IndInv
<1> SUFFICES ASSUME Working' PROVE \A p \in Peers : Wakes(p)'
  BY <1>1, <1>3, <1>4 DEF WakeInv
<1>5. up' /\ up /\ Working /\ AtWork /\ Balanced /\ Fits /\ \A p \in Peers : Wakes(p) /\ ~resetXLink[p]
  BY <1>2 DEF WakeInv, AccInv, IndInv, Working
<1>6. EndTypes /\ CallTypes /\ \A p \in Peers : Ring(p)
  BY <1>5 DEF AtWork
<1>7. ASSUME UNCHANGED <<lQueue, rQueue, reader, stream>> PROVE \A p \in Peers : Wakes(p)'
  <2>1. \A p \in Peers : Here(p, Cost("WRITE", FALSE))' = Here(p, Cost("WRITE", FALSE))
    BY <1>7 DEF Here, Adding
  <2> QED BY <2>1, <1>5, <1>7, StillWakes
<1>8. ASSUME NEW t \in Threads, Add(t) PROVE \A p \in Peers : Wakes(p)'
  <2>1. UNCHANGED <<rQueue, reader, stream>>
    BY <1>8 DEF Add
  <2>2. CASE lQueue' = lQueue
    BY <2>1, <2>2, <1>7
  <2>3. ASSUME NEW s \in Slots, NEW f \in Event, lQueue[PeerOf(t)][s].state = "SERVED",
               lQueue' = [lQueue EXCEPT ![PeerOf(t)][s] = f], f.state = "ALLOCATED"
        PROVE  \A p \in Peers : Wakes(p)'
    <3>1. PeerOf(t) \in Peers
      BY Ends
    <3>2. \A r \in Peers : \A type : Blocked(r, type)' = Blocked(r, type) /\ Woken(r, type)' = Woken(r, type)
      BY <2>3, <3>1, <1>6, OtherSlot
    <3>3. \A p \in Peers : Here(p, Cost("WRITE", FALSE))' = Here(p, Cost("WRITE", FALSE))
      BY <2>1 DEF Here, Adding
    <3> QED BY <2>1, <3>2, <3>3, <1>5, QuietWakes
  <2> QED BY <2>2, <2>3, <1>6, <1>8, AddIs
<1>9. ASSUME NEW p \in Peers, AddRemote(p) PROVE \A r \in Peers : Wakes(r)'
  <2>1. lQueue' = lQueue /\ stream' = stream
    BY <1>9 DEF AddRemote
  <2>2. \A r \in Peers : Here(r, Cost("WRITE", FALSE))' = Here(r, Cost("WRITE", FALSE))
    <3>1. \A r \in Peers, f \in [Mail -> Nat] : Here(r, f)' = Here(r, f)
      BY <1>2, <1>5, <1>9, AddRemoteMoves
    <3>2. Cost("WRITE", FALSE) \in [Mail -> Nat]
      BY CostIs
    <3> QED BY <3>1, <3>2
  <2> QED BY <2>1, <2>2, <1>5, StillWakes
<1>10. ASSUME NEW p \in Peers, Scheduler(p) \/ Reader(p) \/ SchedStop(p) \/ ReaderStop(p)
       PROVE  \A r \in Peers : Wakes(r)'
  <2>1. CASE SchedLocal(p)
    BY <2>1, <1>5, SchedLocalWakes
  <2>2. CASE SchedRemoteRequest(p)
    BY <2>2, <1>5, SchedRemoteRequestWakes
  <2>3. CASE SchedResponse(p)
    BY <2>3, <1>5, SchedResponseWakes
  <2>4. CASE SchedNull(p)
    <3>1. UNCHANGED <<lQueue, reader, stream>>
      BY <2>4 DEF SchedNull
    <3>2. rQueue' = rQueue
      BY <2>4, <1>6 DEF SchedNull, TakeNext, EndTypes
    <3> QED BY <3>1, <3>2, <1>7
  <2>5. CASE SchedSend(p)
    BY <2>5, <1>7 DEF SchedSend, queues
  <2>6. CASE SchedReply(p)
    BY <2>6, <1>7 DEF SchedReply, queues
  <2>7. CASE Receive(p)
    BY <2>7, <1>5, ReceiveWakes
  <2>8. CASE AddRemote(p)
    BY <2>8, <1>9
  <2>9. ~(SchedStop(p) \/ ReaderStop(p))
    BY <1>5 DEF SchedStop, ReaderStop
  <2> QED BY <1>5, <1>10, <2>1, <2>2, <2>3, <2>4, <2>5, <2>6, <2>7, <2>8, <2>9, NobodyStops
<1>11. ASSUME NEW t \in Threads, (\E op \in Ops[mayFail][t] : Call(t, op)) \/ Add(t) \/ Return(t)
       PROVE  \A p \in Peers : Wakes(p)'
  <2>1. ASSUME NEW op, Call(t, op) PROVE \A p \in Peers : Wakes(p)'
    BY <2>1, <1>7 DEF Call, queues
  <2>2. CASE Return(t)
    BY <2>2, <1>7 DEF Return, queues
  <2> QED BY <1>8, <1>11, <2>1, <2>2
<1>12. CASE UNCHANGED vars
  BY <1>7, <1>12 DEF vars, queues
<1>13. CASE Next
  <2>1. ~Unplug
    BY <1>5 DEF Unplug
  <2> QED BY <2>1, <1>10, <1>11, <1>13 DEF Next
<1> QED BY <1>12, <1>13

\* What a blocked read waits for, as NoLostWakeup counts it: the events of packets that
\* the reader is about to queue and those that are queued.
LEMMA HereIsCounted ==
    ASSUME NEW p \in Peers, Posted(p)
    PROVE  CountOf(Adding(p) \o rQueue[p], "WRITE") = Here(p, Cost("WRITE", FALSE))
<1> DEFINE c == Cost("WRITE", FALSE)
           q == Adding(p) \o rQueue[p]
<1>1. Adding(p) \in Seq(Mail) /\ rQueue[p] \in Seq(Mail)
  BY LettersAre DEF Posted
<1>2. c \in [Mail -> Nat]
  BY CostIs
<1>3. q \in Seq(Mail)
  BY <1>1, ConcatProperties
<1>4. CountOf(q, "WRITE") = Weighed(q, c)
  <2> HIDE DEF q
  <2> QED BY <1>3, CountWeighs
<1> HIDE DEF c
<1>5. Weighed(q, c) = Weighed(Adding(p), c) + Weighed(rQueue[p], c)
  BY <1>1, <1>2, WeighedConcat
<1>6. Weighed(Adding(p), c) \in Nat /\ Weighed(rQueue[p], c) \in Nat
  BY <1>1, <1>2, WeightsAre
<1>7. Here(p, c) = Weighed(rQueue[p], c) + Weighed(Adding(p), c)
  BY DEF Here
<1>8. CountOf(q, "WRITE") = Here(p, c)
  BY <1>4, <1>5, <1>6, <1>7
<1> QED BY <1>8 DEF c

\* NoLostWakeup for any number of threads: while the link works a read is not left blocked
\* with a packet that nobody will tell it of, nor a write with no packet whose release
\* would wake it. It needs that the application writes nothing larger than the stream,
\* and that a slot is not used again while the scheduler looks at it.
THEOREM NoWakeupIsLost == ASSUME ~Recycles, WritesFit PROVE Spec => []NoLostWakeup
<1>1. Init => WakeInv
  BY InitWakes
<1>2. WakeInv /\ [Next]_vars => WakeInv'
  BY NextWakes
<1>3. WakeInv => NoLostWakeup
  <2> SUFFICES ASSUME WakeInv, Working, NEW p \in Peers
               PROVE  /\ Blocked(p, "READ") # {} =>
                            Len(stream[p].available) <= CountOf(Adding(p) \o rQueue[p], "WRITE")
                                                        + Cardinality(Woken(p, "READ"))
                      /\ Blocked(p, "WRITE") # {} => stream[p].remotePackets > 0 \/ Woken(p, "WRITE") # {}
    BY DEF NoLostWakeup
  <2>1. Posted(p) /\ Wakes(p)
    BY DEF WakeInv, AccInv, Balanced, Traffic, Working
  <2>2. CountOf(Adding(p) \o rQueue[p], "WRITE") = Here(p, Cost("WRITE", FALSE))
    BY <2>1, HereIsCounted
  <2> QED BY <2>1, <2>2 DEF Wakes
<1> QED BY <1>1, <1>2, <1>3, PTL DEF Spec

-------------------------------------------------------------------------------
(* Types, also after the link has failed. *)

\* The freeing of an event that waits: found, then served.
LEMMA FindTypes ==
    ASSUME EndTypes, CallTypes, NEW p \in Peers, SchedFind(p) \/ ReaderFind(p), mayFail' = mayFail
    PROVE  EndTypes' /\ CallTypes'
<1>1. PICK w \in {"sched", "reader"} : Waiting(p) # {} /\ freeing' = [freeing EXCEPT ![p][w] = Min(Waiting(p))]
  BY DEF SchedFind, ReaderFind, Find
<1>2. Waiting(p) \subseteq Slots
  BY DEF Waiting, InState
<1>3. Min(Waiting(p)) \in Slots
  BY <1>1, <1>2, MinIs
<1>4. freeing' \in [Peers -> [{"sched", "reader"} -> Slots \cup {0}]]
  BY <1>1, <1>3 DEF EndTypes
<1>5. UNCHANGED <<lQueue, cur, curProc, rQueue, wire, sched, reader, stream, threads>>
  BY DEF SchedFind, ReaderFind, queues
<1>6. EndTypes'
  BY <1>4, <1>5 DEF EndTypes
<1>7. CallTypes'
  BY <1>5 DEF CallTypes, threads
<1> QED BY <1>6, <1>7

\* The result goes to the caller.
LEMMA PostTypes ==
    ASSUME EndTypes, CallTypes, NEW p \in Peers, NEW s \in Slots, PostAndMarkServed(p, s, lQueue[p][s])
    PROVE  /\ lQueue' = [lQueue EXCEPT ![p][s] = Served(lQueue[p][s])]
           /\ Served(lQueue[p][s]) \in Event /\ Served(lQueue[p][s]).thread = lQueue[p][s].thread
           /\ lQueue' \in [Peers -> [Slots -> Event]]
           /\ acked' \in [Threads -> BOOLEAN] /\ sem' \in [Threads -> Nat]
<1> DEFINE e == lQueue[p][s]
           f == Served(e)
<1>1. e \in Event /\ f \in Event
  BY EventIs
<1>2. f.thread = e.thread /\ e.thread \in Threads /\ e.ack \in BOOLEAN
  <2> HIDE DEF e
  <2> QED BY <1>1 DEF Served, Event
<1>3. /\ lQueue' = [lQueue EXCEPT ![p][s] = f]
      /\ acked' = [acked EXCEPT ![e.thread] = e.ack]
      /\ sem' = [sem EXCEPT ![e.thread] = @ + 1]
  BY DEF PostAndMarkServed
<1> HIDE DEF e, f
<1>4. lQueue' \in [Peers -> [Slots -> Event]]
  BY <1>1, <1>3, PutTypes
<1>5. acked' \in [Threads -> BOOLEAN] /\ sem' \in [Threads -> Nat]
  BY <1>2, <1>3 DEF CallTypes
<1> QED BY <1>1, <1>2, <1>3, <1>4, <1>5 DEF f, e

\* Freeing an event keeps the types.
LEMMA FreeTypes ==
    ASSUME EndTypes, CallTypes, NEW p \in Peers, NEW w \in {"sched", "reader"}, Free(p, w), mayFail' = mayFail
    PROVE  EndTypes' /\ CallTypes'
<1>1. PICK s \in Slots : s = freeing[p][w] /\ PostAndMarkServed(p, s, lQueue[p][s])
  BY DEF Free, EndTypes
<1>2. /\ lQueue' \in [Peers -> [Slots -> Event]]
      /\ acked' \in [Threads -> BOOLEAN] /\ sem' \in [Threads -> Nat]
  BY <1>1, PostTypes
<1>3. /\ freeing' = [freeing EXCEPT ![p][w] = 0]
      /\ UNCHANGED <<cur, curProc, rQueue, sched, reader, stream, wire, pc, call, got, left>>
  BY DEF Free
<1>4. freeing' \in [Peers -> [{"sched", "reader"} -> Slots \cup {0}]]
  BY <1>3 DEF EndTypes
<1>5. EndTypes'
  BY <1>2, <1>3, <1>4 DEF EndTypes
<1>6. CallTypes'
  BY <1>2, <1>3 DEF CallTypes
<1> QED BY <1>5, <1>6

\* A thread of the dispatcher goes on to another place.
LEMMA PlaceTypes ==
    ASSUME EndTypes, CallTypes, NEW p \in Peers, mayFail' = mayFail,
           \/ SchedFreed(p) \/ SchedStop(p)
           \/ ReceiveFails(p) \/ ReaderLoop(p) \/ ReaderStop(p)
    PROVE  EndTypes' /\ CallTypes'
<1>1. UNCHANGED <<lQueue, cur, curProc, rQueue, freeing, stream, wire, threads>>
  BY DEF SchedFreed, SchedStop, ReceiveFails, ReaderLoop, ReaderStop, queues
<1>2. sched \in [Peers -> Places] /\ reader \in [Peers -> [at : {"recv", "add", "fail", "exit"}, msg : Mail]]
  BY DEF EndTypes
<1>3. sched' \in [Peers -> Places]
  <2>1. CASE SchedFreed(p)
    <3>1. \E l \in {"join", "get"} : sched' = [sched EXCEPT ![p].msg = NoRequest, ![p].at = l]
      BY <2>1 DEF SchedFreed, LoopUnless
    <3> QED BY <3>1, <1>2, NoRequestIs DEF Places, Steps
  <2>2. CASE SchedStop(p)
    BY <2>2, <1>2 DEF SchedStop, GoTo, Places, Steps
  <2>3. CASE sched' = sched
    BY <2>3, <1>2
  <2> QED BY <2>1, <2>2, <2>3 DEF ReceiveFails, ReaderLoop, ReaderStop
<1>4. reader' \in [Peers -> [at : {"recv", "add", "fail", "exit"}, msg : Mail]]
  <2>1. CASE reader' = reader
    BY <2>1, <1>2
  <2>2. CASE \E l \in {"fail", "exit", "recv"} : reader' = [reader EXCEPT ![p].at = l]
    BY <2>2, <1>2
  <2> QED BY <2>1, <2>2 DEF SchedFreed, SchedStop, ReceiveFails, ReaderLoop, ReaderStop
<1>5. EndTypes'
  BY <1>1, <1>3, <1>4 DEF EndTypes
<1>6. CallTypes'
  BY <1>1 DEF CallTypes, threads
<1> QED BY <1>5, <1>6

\* The end of a dispatcher.
LEMMA DownTypes ==
    ASSUME EndTypes, CallTypes, NEW p \in Peers, mayFail' = mayFail, Join(p) \/ Close(p) \/ Unplug
    PROVE  EndTypes' /\ CallTypes'
<1>1. UNCHANGED <<lQueue, cur, curProc, rQueue, freeing, reader, threads>>
  BY DEF Join, Close, Unplug, queues
<1>2. sched' \in [Peers -> Places]
  <2>1. sched \in [Peers -> Places]
    BY DEF EndTypes
  <2>2. sched' = sched \/ \E l \in {"drain", "closed"} : sched' = [sched EXCEPT ![p].at = l]
    BY DEF Join, Close, Unplug, GoTo
  <2> QED BY <2>1, <2>2 DEF Places, Steps
<1>3. wire' \in [Peers -> Seq(Mail)]
  <2>1. wire' = wire \/ wire' = [q \in Peers |-> <<>>]
    BY DEF Join, Close, Unplug
  <2>2. <<>> \in Seq(Mail)
    OBVIOUS
  <2> QED BY <2>1, <2>2 DEF EndTypes
<1>4. stream' \in [Peers -> Stream]
  <2> DEFINE z == [remoteFill |-> 0, remotePackets |-> 0, localFill |-> 0, available |-> <<>>, blocked |-> <<>>]
  <2>1. stream' = stream \/ stream' = [stream EXCEPT ![p] = z]
    BY DEF Join, Close, Unplug
  <2>2. z \in Stream
    <3>1. <<>> \in Seq(Packet)
      OBVIOUS
    <3> QED BY <3>1 DEF Stream
  <2> HIDE DEF z
  <2> QED BY <2>1, <2>2 DEF EndTypes
<1>5. EndTypes'
  BY <1>1, <1>2, <1>3, <1>4 DEF EndTypes
<1>6. CallTypes'
  BY <1>1 DEF CallTypes, threads
<1> QED BY <1>5, <1>6

\* What is queued is dropped.
LEMMA DrainTypes ==
    ASSUME EndTypes, CallTypes, NEW p \in Peers, curProc[p] # 0, Drain(p), mayFail' = mayFail
    PROVE  EndTypes' /\ CallTypes'
<1>1. TakeNext(p) /\ UNCHANGED <<reader, freeing, stream, wire, pc, call, got, left>>
  BY DEF Drain
<1>2. cur' \in [Peers -> Slots] /\ curProc' \in [Peers -> Slots \cup {0}] /\ rQueue' \in [Peers -> Seq(Mail)]
  BY <1>1, TakeTypes
<1>3. /\ lQueue' \in [Peers -> [Slots -> Event]]
      /\ acked' \in [Threads -> BOOLEAN] /\ sem' \in [Threads -> Nat]
  <2>1. CASE NextEvent(p) \in {"ready", "local"}
    <3>1. PICK s \in Slots : s = NextSlot(p) /\ PostAndMarkServed(p, s, lQueue[p][s])
      BY <2>1, NextIs DEF Drain
    <3> QED BY <3>1, PostTypes
  <2>2. CASE ~(NextEvent(p) \in {"ready", "local"})
    BY <2>2 DEF Drain, EndTypes, CallTypes
  <2> QED BY <2>1, <2>2
<1>4. sched' \in [Peers -> Places]
  <2>1. sched \in [Peers -> Places]
    BY DEF EndTypes
  <2>2. sched' = sched \/ sched' = [sched EXCEPT ![p].at = "clean"]
    BY DEF Drain, GoTo
  <2> QED BY <2>1, <2>2 DEF Places, Steps
<1>5. EndTypes'
  BY <1>1, <1>2, <1>3, <1>4 DEF EndTypes
<1>6. CallTypes'
  BY <1>1, <1>3 DEF CallTypes
<1> QED BY <1>5, <1>6

\* Every step keeps the types.
LEMMA NextTypes ==
    ASSUME ~Recycles, IndInv, EndTypes, CallTypes, [Next]_vars
    PROVE  EndTypes' /\ CallTypes'
<1>1. CASE up'
  <2>1. IndInv'
    BY NextKeeps
  <2>2. AtWork'
    BY <2>1, <1>1 DEF IndInv
  <2> QED BY <2>2 DEF AtWork
<1>2. CASE UNCHANGED vars
  BY <1>2 DEF EndTypes, CallTypes, vars, queues, threads
<1>3. CASE Next /\ ~up'
  <2>1. mayFail' = mayFail
    BY <1>3 DEF Next
  <2>2. ASSUME NEW t \in Threads, (\E op \in Ops[mayFail][t] : Call(t, op)) \/ Add(t) \/ Return(t)
        PROVE  EndTypes' /\ CallTypes'
    BY <2>1, <2>2, CallTypesKeep, AddTypes, ReturnTypes
  <2>3. ASSUME NEW p \in Peers, Alive(p), Scheduler(p) \/ Reader(p) \/ SchedStop(p) \/ ReaderStop(p)
        PROVE  EndTypes' /\ CallTypes'
    <3>1. curProc[p] # 0
      BY <2>3 DEF Alive
    <3>2. CASE SchedLocal(p) \/ SchedRemoteRequest(p) \/ SchedResponse(p) \/ SchedNull(p)
      BY <3>1, <3>2, <2>1, SchedLocalTypes, SchedRemoteRequestTypes, SchedResponseTypes, SchedNullTypes
    <3>3. CASE SchedSend(p)
      <4>1. ~up
        BY <3>3, <1>3 DEF SchedSend
      <4> QED BY <4>1, <3>3, <2>1, SchedSendTypes
    <3>4. CASE SchedReply(p) \/ AddRemote(p)
      BY <3>4, <2>1, SchedReplyTypes, AddRemoteTypes
    <3>5. CASE SchedFind(p) \/ ReaderFind(p)
      BY <3>5, <2>1, FindTypes
    <3>6. CASE Free(p, "sched") \/ Free(p, "reader")
      BY <3>6, <2>1, FreeTypes
    <3>7. CASE SchedFreed(p) \/ SchedStop(p) \/ ReceiveFails(p) \/ ReaderLoop(p) \/ ReaderStop(p)
      BY <3>7, <2>1, PlaceTypes
    <3>8. CASE Join(p) \/ Close(p)
      BY <3>8, <2>1, DownTypes
    <3>9. CASE Drain(p)
      BY <3>1, <3>9, <2>1, DrainTypes
    <3>10. ASSUME Receive(p) PROVE FALSE
      <4>1. up /\ up' = up
        BY <3>10 DEF Receive
      <4> QED BY <4>1, <1>3
    <3> QED BY <2>3, <3>2, <3>3, <3>4, <3>5, <3>6, <3>7, <3>8, <3>9, <3>10 DEF Scheduler, Reader
  <2>4. ASSUME Unplug PROVE EndTypes' /\ CallTypes'
    <3>1. Host \in Peers
      BY Ends
    <3> QED BY <2>1, <2>4, <3>1, DownTypes
  <2> QED BY <1>3, <2>2, <2>3, <2>4 DEF Next
<1> QED BY <1>1, <1>2, <1>3

\* The counts, and whose events a ring holds.
Tokens == notify \in [Peers -> Nat] /\ localFirst \in [Peers -> BOOLEAN]
Fitting == \A p \in Peers : Len(rQueue[p]) <= MaxEvents
OwnEvents == \A p \in Peers, s \in Slots : PeerOf(lQueue[p][s].thread) = p

\* A token is taken only where there is one.
LEMMA TokensKeep ==
    ASSUME Tokens, [Next]_vars
    PROVE  Tokens'
<1>1. CASE UNCHANGED <<notify, localFirst>>
  BY <1>1 DEF Tokens
<1>2. ASSUME NEW p \in Peers, \E n \in Nat : notify' = [notify EXCEPT ![p] = n],
             UNCHANGED localFirst \/ TakeNext(p)
      PROVE  Tokens'
  <2>1. notify' \in [Peers -> Nat]
    BY <1>2 DEF Tokens
  <2>2. localFirst' \in [Peers -> BOOLEAN]
    BY <1>2 DEF Tokens, TakeNext
  <2> QED BY <2>1, <2>2 DEF Tokens
<1>3. \A p \in Peers : notify[p] \in Nat
  BY DEF Tokens
<1>4. ASSUME NEW t \in Threads, Add(t) PROVE Tokens'
  <2> DEFINE p == PeerOf(t)
  <2>1. p \in Peers
    BY Ends
  <2>2. UNCHANGED localFirst /\ \E k \in {0, 1} : notify' = [notify EXCEPT ![p] = @ + k]
    BY <1>4 DEF Add
  <2> HIDE DEF p
  <2>3. PICK k \in {0, 1} : notify' = [notify EXCEPT ![p] = notify[p] + k]
    BY <2>2
  <2>4. notify[p] + k \in Nat
    BY <2>1, <1>3
  <2> QED BY <2>1, <2>2, <2>3, <2>4, <1>2
<1>5. ASSUME NEW p \in Peers, notify[p] > 0, TakeNext(p),
             notify' = [notify EXCEPT ![p] = @ - 1] \/ notify' = notify
      PROVE  Tokens'
  <2>1. \E n \in Nat : notify' = [notify EXCEPT ![p] = n]
    <3>1. notify[p] \in Nat /\ notify[p] - 1 \in Nat
      BY <1>3, <1>5
    <3>2. CASE notify' = notify
      <4>1. notify' = [notify EXCEPT ![p] = notify[p]]
        BY <3>2 DEF Tokens
      <4> QED BY <4>1, <3>1
    <3> QED BY <3>1, <3>2, <1>5
  <2> QED BY <2>1, <1>2, <1>5
<1>6. ASSUME NEW p \in Peers, Scheduler(p) \/ Reader(p) \/ SchedStop(p) \/ ReaderStop(p)
      PROVE  Tokens'
  <2>1. CASE SchedLocal(p) \/ SchedResponse(p) \/ SchedNull(p) \/ Drain(p)
    BY <2>1, <1>5 DEF SchedLocal, SchedResponse, SchedNull, Drain, Running
  <2>2. CASE SchedRemoteRequest(p)
    <3>1. notify[p] > 0 /\ TakeNext(p)
      BY <2>2 DEF SchedRemoteRequest, Running
    <3>2. notify' = [notify EXCEPT ![p] = @ - 1] \/ notify' = notify
      BY <2>2 DEF SchedRemoteRequest, UnblockFirst
    <3> QED BY <3>1, <3>2, <1>5
  <2>3. CASE AddRemote(p) \/ Join(p)
    <3>1. UNCHANGED localFirst /\ (notify' = notify \/ notify' = [notify EXCEPT ![p] = @ + 1])
      BY <2>3 DEF AddRemote, Join
    <3> QED BY <3>1, <1>1, <1>2, <1>3
  <2>4. CASE \/ SchedSend(p) \/ SchedReply(p) \/ SchedFind(p) \/ Free(p, "sched") \/ SchedFreed(p)
             \/ Close(p) \/ Receive(p) \/ ReceiveFails(p) \/ ReaderFind(p) \/ Free(p, "reader")
             \/ ReaderLoop(p) \/ SchedStop(p) \/ ReaderStop(p)
    BY <2>4, <1>1 DEF SchedSend, SchedReply, SchedFind, Free, SchedFreed, Close, Receive,
                      ReceiveFails, ReaderFind, ReaderLoop, SchedStop, ReaderStop, queues
  <2> QED BY <1>6, <2>1, <2>2, <2>3, <2>4 DEF Scheduler, Reader
<1>7. ASSUME NEW t \in Threads, (\E op \in Ops[mayFail][t] : Call(t, op)) \/ Return(t) PROVE Tokens'
  BY <1>7, <1>1 DEF Call, Return, queues
<1>8. CASE Unplug \/ UNCHANGED vars
  BY <1>8, <1>1 DEF Unplug, vars, queues
<1> QED BY <1>4, <1>6, <1>7, <1>8 DEF Next

\* What a step does to the remote rings: it leaves them, takes the first event of one, or
\* adds one while there is room.
LEMMA RingSteps ==
    ASSUME EndTypes, [Next]_vars
    PROVE  \/ rQueue' = rQueue
           \/ \E p \in Peers : rQueue[p] # <<>> /\ rQueue' = [rQueue EXCEPT ![p] = Tail(@)]
           \/ \E p \in Peers, m \in Mail : /\ Len(rQueue[p]) < MaxEvents
                                           /\ rQueue' = [rQueue EXCEPT ![p] = Append(@, m)]
<1>1. ASSUME NEW p \in Peers, TakeNext(p)
      PROVE  rQueue' = rQueue \/ (rQueue[p] # <<>> /\ rQueue' = [rQueue EXCEPT ![p] = Tail(@)])
  <2>1. CASE NextEvent(p) = "remote"
    <3>1. rQueue[p] # <<>>
      <4>1. HasRemote(p)
        BY <2>1 DEF NextEvent
      <4> QED BY <4>1 DEF HasRemote
    <3>2. rQueue' = [rQueue EXCEPT ![p] = Tail(@)]
      BY <1>1, <2>1 DEF TakeNext
    <3> QED BY <3>1, <3>2
  <2>2. CASE NextEvent(p) # "remote"
    <3>1. rQueue' = [rQueue EXCEPT ![p] = @]
      BY <1>1, <2>2 DEF TakeNext
    <3> QED BY <3>1 DEF EndTypes
  <2> QED BY <2>1, <2>2
<1>2. ASSUME NEW p \in Peers, AddRemote(p)
      PROVE  \/ rQueue' = rQueue
             \/ \E m \in Mail : /\ Len(rQueue[p]) < MaxEvents
                                /\ rQueue' = [rQueue EXCEPT ![p] = Append(@, m)]
  <2> DEFINE m == reader[p].msg
             k == IF sched[p].msg # NoRequest THEN 1 ELSE 0
  <2>1. rQueue' = rQueue \/ rQueue' = [rQueue EXCEPT ![p] = IF Len(rQueue[p]) + k < MaxEvents THEN Append(@, m) ELSE @]
    BY <1>2 DEF AddRemote
  <2>2. m \in Mail /\ Len(rQueue[p]) \in Nat /\ k \in {0, 1} /\ MaxEvents \in Nat
    BY LenProperties, RoomForThreads DEF EndTypes
  <2> HIDE DEF m, k
  <2>3. CASE Len(rQueue[p]) + k < MaxEvents
    BY <2>1, <2>2, <2>3
  <2>4. CASE ~(Len(rQueue[p]) + k < MaxEvents)
    <3>1. rQueue' = rQueue \/ rQueue' = [rQueue EXCEPT ![p] = @]
      BY <2>1, <2>4
    <3> QED BY <3>1 DEF EndTypes
  <2> QED BY <2>3, <2>4
<1>3. ASSUME NEW p \in Peers, Scheduler(p) \/ Reader(p) \/ SchedStop(p) \/ ReaderStop(p),
             ~AddRemote(p)
      PROVE  rQueue' = rQueue \/ TakeNext(p)
  BY <1>3 DEF Scheduler, Reader, SchedLocal, SchedRemoteRequest, SchedResponse, SchedNull, SchedSend, SchedReply,
              SchedFind, Free, SchedFreed, Join, Drain, Close, Receive, ReceiveFails, ReaderFind,
              ReaderLoop, SchedStop, ReaderStop, queues
<1>4. ASSUME NEW t \in Threads, (\E op \in Ops[mayFail][t] : Call(t, op)) \/ Add(t) \/ Return(t)
      PROVE  rQueue' = rQueue
  BY <1>4 DEF Call, Add, Return, queues
<1>5. CASE Unplug \/ UNCHANGED vars
  BY <1>5 DEF Unplug, vars, queues
<1> QED BY <1>1, <1>2, <1>3, <1>4, <1>5 DEF Next

\* The ring of remote events never has more events than slots.
LEMMA FittingKeeps ==
    ASSUME EndTypes, Fitting, [Next]_vars
    PROVE  Fitting'
<1> SUFFICES ASSUME NEW q \in Peers PROVE Len(rQueue'[q]) <= MaxEvents
  BY DEF Fitting
<1>1. rQueue[q] \in Seq(Mail) /\ Len(rQueue[q]) \in Nat /\ MaxEvents \in Nat /\ Len(rQueue[q]) <= MaxEvents
  BY LenProperties, RoomForThreads DEF EndTypes, Fitting
<1>2. CASE rQueue' = rQueue
  BY <1>1, <1>2
<1>3. CASE \E p \in Peers : rQueue[p] # <<>> /\ rQueue' = [rQueue EXCEPT ![p] = Tail(@)]
  <2>1. rQueue'[q] = rQueue[q] \/ (rQueue[q] # <<>> /\ rQueue'[q] = Tail(rQueue[q]))
    BY <1>3 DEF EndTypes
  <2>2. ASSUME rQueue[q] # <<>> PROVE Len(Tail(rQueue[q])) <= MaxEvents
    <3>1. Len(Tail(rQueue[q])) = Len(rQueue[q]) - 1
      BY <1>1, <2>2, HeadIs
    <3> DEFINE x == Len(rQueue[q])
               y == Len(Tail(rQueue[q]))
    <3>2. x \in Nat /\ MaxEvents \in Nat /\ x <= MaxEvents /\ y = x - 1
      BY <1>1, <3>1
    <3> HIDE DEF x, y
    <3>3. y <= MaxEvents
      BY <3>2
    <3> QED BY <3>3 DEF y
  <2> QED BY <1>1, <2>1, <2>2
<1>4. CASE \E p \in Peers, m \in Mail : /\ Len(rQueue[p]) < MaxEvents
                                        /\ rQueue' = [rQueue EXCEPT ![p] = Append(@, m)]
  <2>1. PICK p \in Peers, m \in Mail : /\ Len(rQueue[p]) < MaxEvents
                                       /\ rQueue' = [rQueue EXCEPT ![p] = Append(@, m)]
    BY <1>4
  <2>2. rQueue'[q] = rQueue[q] \/ (Len(rQueue[q]) < MaxEvents /\ rQueue'[q] = Append(rQueue[q], m))
    BY <2>1 DEF EndTypes
  <2>3. Len(Append(rQueue[q], m)) = Len(rQueue[q]) + 1
    BY <1>1, <2>1, AppendProperties
  <2> QED BY <1>1, <2>2, <2>3
<1> QED BY <1>2, <1>3, <1>4, RingSteps

\* What is freed or served stays its caller's.
LEMMA ServedIs ==
    ASSUME EndTypes, NEW p \in Peers, NEW s \in Slots
    PROVE  /\ Served(lQueue[p][s]).thread = lQueue[p][s].thread
           /\ Served([lQueue[p][s] EXCEPT !.ack = TRUE]).thread = lQueue[p][s].thread
           /\ [lQueue[p][s] EXCEPT !.state = "READY"].thread = lQueue[p][s].thread
<1> DEFINE e == lQueue[p][s]
<1>1. e \in Event
  BY EventIs
<1> HIDE DEF e
<1>2. /\ Served(e).thread = e.thread /\ Served([e EXCEPT !.ack = TRUE]).thread = e.thread
      /\ [e EXCEPT !.state = "READY"].thread = e.thread
  BY <1>1 DEF Served, Event
<1> QED BY <1>2 DEF e

\* A slot is given to another thread only by an event that is added, and to one of its end.
LEMMA OwnEventsKeep ==
    ASSUME EndTypes, CallTypes, OwnEvents, [Next]_vars
    PROVE  OwnEvents'
<1>1. CASE lQueue' = lQueue
  BY <1>1 DEF OwnEvents
<1>2. ASSUME NEW p \in Peers, NEW s \in Slots, NEW f \in Event, PeerOf(f.thread) = p,
             lQueue' = [lQueue EXCEPT ![p][s] = f]
      PROVE  OwnEvents'
  <2> SUFFICES ASSUME NEW q \in Peers, NEW r \in Slots PROVE PeerOf(lQueue'[q][r].thread) = q
    BY DEF OwnEvents, PeerOf
  <2>1. CASE q = p /\ r = s
    BY <1>2, <2>1, PutTypes
  <2>2. CASE ~(q = p /\ r = s)
    <3>1. lQueue'[q][r] = lQueue[q][r]
      BY <1>2, <2>2, PutTypes
    <3> QED BY <3>1 DEF OwnEvents
  <2> QED BY <2>1, <2>2
<1>3. ASSUME NEW p \in Peers, NEW s \in Slots, NEW f \in Event, f.thread = lQueue[p][s].thread,
             lQueue' = [lQueue EXCEPT ![p][s] = f]
      PROVE  OwnEvents'
  <2>1. PeerOf(f.thread) = p
    BY <1>3 DEF OwnEvents
  <2> QED BY <2>1, <1>2, <1>3
<1>4. ASSUME NEW p \in Peers, NEW s \in Slots, PostAndMarkServed(p, s, lQueue[p][s])
      PROVE  OwnEvents'
  <2>1. /\ lQueue' = [lQueue EXCEPT ![p][s] = Served(lQueue[p][s])]
        /\ Served(lQueue[p][s]) \in Event /\ Served(lQueue[p][s]).thread = lQueue[p][s].thread
    BY <1>4, PostTypes
  <2> QED BY <2>1, <1>3
<1>5. ASSUME NEW t \in Threads, Add(t) PROVE OwnEvents'
  <2>1. PeerOf(t) \in Peers
    BY Ends
  <2> QED BY <2>1, <1>1, <1>2, <1>5, AddIs
<1>6. ASSUME NEW p \in Peers, curProc[p] # 0, SchedLocal(p) PROVE OwnEvents'
  <2>1. PICK s \in Slots : s = NextSlot(p) /\ ServeLocal(p, s)
    BY <1>6, NextIs DEF SchedLocal
  <2>2. /\ lQueue'[p][s].thread = lQueue[p][s].thread /\ lQueue'[p][s] \in Event
        /\ lQueue' = [lQueue EXCEPT ![p][s] = lQueue'[p][s]]
    BY <2>1, ServeLeaves
  <2> QED BY <2>2, <1>3
<1>7. ASSUME NEW p \in Peers, SchedRemoteRequest(p) PROVE OwnEvents'
  <2>1. ASSUME NEW type, UnblockFirst(p, type) PROVE OwnEvents'
    <3>1. \/ lQueue' = lQueue
          \/ \E s \in Blocked(p, type) :
                /\ s \in Slots /\ [lQueue[p][s] EXCEPT !.state = "READY"] \in Event
                /\ lQueue' = [lQueue EXCEPT ![p][s] = [lQueue[p][s] EXCEPT !.state = "READY"]]
      BY <2>1, UnblockIs
    <3>2. ASSUME NEW s \in Slots, [lQueue[p][s] EXCEPT !.state = "READY"] \in Event,
                 lQueue' = [lQueue EXCEPT ![p][s] = [lQueue[p][s] EXCEPT !.state = "READY"]]
          PROVE  OwnEvents'
      <4>1. [lQueue[p][s] EXCEPT !.state = "READY"].thread = lQueue[p][s].thread
        BY ServedIs
      <4> QED BY <3>2, <4>1, <1>3
    <3> QED BY <3>1, <3>2, <1>1
  <2> QED BY <1>1, <1>7, <2>1 DEF SchedRemoteRequest
<1>8. ASSUME NEW p \in Peers, SchedResponse(p) PROVE OwnEvents'
  <2>1. \/ UNCHANGED <<lQueue, acked, sem>>
        \/ \E s \in InState(p, "PENDING") :
              /\ s \in Slots /\ Served([lQueue[p][s] EXCEPT !.ack = TRUE]) \in Event
              /\ lQueue' = [lQueue EXCEPT ![p][s] = Served([lQueue[p][s] EXCEPT !.ack = TRUE])]
              /\ acked' = [acked EXCEPT ![lQueue[p][s].thread] = TRUE]
              /\ sem' = [sem EXCEPT ![lQueue[p][s].thread] = @ + 1]
    BY <1>8, ResponseIs
  <2>2. ASSUME NEW s \in Slots, Served([lQueue[p][s] EXCEPT !.ack = TRUE]) \in Event,
               lQueue' = [lQueue EXCEPT ![p][s] = Served([lQueue[p][s] EXCEPT !.ack = TRUE])]
        PROVE  OwnEvents'
    <3>1. Served([lQueue[p][s] EXCEPT !.ack = TRUE]).thread = lQueue[p][s].thread
      BY ServedIs
    <3> QED BY <2>2, <3>1, <1>3
  <2> QED BY <2>1, <2>2, <1>1
<1>9. ASSUME NEW p \in Peers, NEW w \in {"sched", "reader"}, Free(p, w) PROVE OwnEvents'
  <2>1. freeing[p][w] \in Slots
    BY <1>9 DEF Free, EndTypes
  <2> QED BY <2>1, <1>4, <1>9 DEF Free
<1>10. ASSUME NEW p \in Peers, curProc[p] # 0, Drain(p) PROVE OwnEvents'
  <2>1. CASE NextEvent(p) \in {"ready", "local"}
    <3>1. NextSlot(p) \in Slots
      BY <2>1, <1>10, NextIs
    <3> QED BY <2>1, <3>1, <1>4, <1>10 DEF Drain
  <2>2. CASE ~(NextEvent(p) \in {"ready", "local"})
    BY <2>2, <1>1, <1>10 DEF Drain
  <2> QED BY <2>1, <2>2
<1>11. ASSUME NEW p \in Peers,
              \/ SchedNull(p) \/ SchedSend(p) \/ SchedReply(p) \/ SchedFind(p) \/ SchedFreed(p)
              \/ Join(p) \/ Close(p) \/ Receive(p) \/ ReceiveFails(p) \/ AddRemote(p)
              \/ ReaderFind(p) \/ ReaderLoop(p) \/ SchedStop(p) \/ ReaderStop(p)
       PROVE  lQueue' = lQueue
  BY <1>11 DEF SchedNull, SchedSend, SchedReply, SchedFind, SchedFreed, Join, Close, Receive,
               ReceiveFails, AddRemote, ReaderFind, ReaderLoop, SchedStop, ReaderStop, queues
<1>12. CASE UNCHANGED vars
  BY <1>1, <1>12 DEF vars, queues
<1>13. CASE Next
  <2>1. ASSUME NEW t \in Threads, (\E op \in Ops[mayFail][t] : Call(t, op)) \/ Return(t) PROVE OwnEvents'
    BY <1>1, <2>1 DEF Call, Return, queues
  <2>2. ASSUME NEW p \in Peers, Alive(p), Scheduler(p) \/ Reader(p) \/ SchedStop(p) \/ ReaderStop(p)
        PROVE  OwnEvents'
    <3>1. curProc[p] # 0
      BY <2>2 DEF Alive
    <3> QED BY <2>2, <3>1, <1>1, <1>6, <1>7, <1>8, <1>9, <1>10, <1>11 DEF Scheduler, Reader
  <2>3. CASE Unplug
    BY <1>1, <2>3 DEF Unplug, queues
  <2> QED BY <1>5, <1>13, <2>1, <2>2, <2>3 DEF Next
<1> QED BY <1>12, <1>13

\* A writer takes back no more than it has accounted for, also when the link has failed:
\* the releases that have come to it cover no more than what it believes its peer to hold.
\* A descriptor that was closed is empty.
Level(p) ==
    \A b \in BOOLEAN :
        /\ Believed(p, b) \in Nat
        /\ sched[p].at # "closed" => Here(p, Cost("RELEASE", b)) <= Believed(p, b)

\* While the link is up the accounts say it.
LEMMA LevelsUp ==
    ASSUME AtWork, Balanced, NEW p \in Peers
    PROVE  Level(p)
<1> SUFFICES ASSUME NEW b \in BOOLEAN
             PROVE  Believed(p, b) \in Nat /\ Here(p, Cost("RELEASE", b)) <= Believed(p, b)
  BY DEF Level
<1>1. EndTypes /\ Other(p) \in Peers /\ Posted(p) /\ Posted(Other(p))
  BY Ends DEF AtWork, Balanced, Traffic
<1>2. Cost("RELEASE", b) \in [Mail -> Nat] /\ Cost("WRITE", b) \in [Mail -> Nat]
  BY CostIs
<1>3. /\ Here(p, Cost("RELEASE", b)) \in Nat /\ There(p, Cost("WRITE", b)) \in Nat
      /\ There(Other(p), Cost("RELEASE", b)) \in Nat
  BY <1>1, <1>2, PostedIs
<1>4. Kept(Other(p), b) \in Nat /\ Believed(p, b) \in Int
  <2>1. Believed(p, b) \in Int
    BY <1>1, KeptIs
  <2> DEFINE q == Other(p)
  <2> HIDE DEF q
  <2>2. Stored(q) /\ q \in Peers
    BY <1>1 DEF Balanced, q
  <2>3. /\ stream[q].blocked \in Seq(Packet) /\ stream[q].available \in Seq(Packet)
        /\ Bulk \in [Packet -> Nat]
    BY <1>1, <2>2 DEF EndTypes, Stream, Bulk, Packet
  <2>4. Weighed(stream[q].blocked, Bulk) \in Nat /\ Weighed(stream[q].available, Bulk) \in Nat
    BY <2>3, WeightsAre
  <2>5. Len(stream[q].blocked) \in Nat /\ Len(stream[q].available) \in Nat
    BY <2>3, LenProperties
  <2>6. Kept(q, b) \in Nat
    <3> DEFINE x == Len(stream[q].blocked)
               y == Len(stream[q].available)
    <3>1. x \in Nat /\ y \in Nat
      BY <2>5
    <3>2. Kept(q, b) = IF b THEN stream[q].localFill ELSE y + x
      BY DEF Kept
    <3> HIDE DEF x, y
    <3>3. stream[q].localFill \in Nat
      BY <2>2, <2>4 DEF Stored
    <3> QED BY <3>1, <3>2, <3>3
  <2> QED BY <2>1, <2>6 DEF q
<1>5. Owing(p, b) <= Believed(p, b)
  BY DEF Balanced, Accounts
<1>6. Owing(p, b) = There(p, Cost("WRITE", b)) + Kept(Other(p), b)
                    + There(Other(p), Cost("RELEASE", b)) + Here(p, Cost("RELEASE", b))
  BY DEF Owing
<1> HIDE DEF Owing
<1> QED BY <1>3, <1>4, <1>5, <1>6

\* The descriptor stays, and no release comes.
LEMMA LevelKeeps ==
    ASSUME NEW p \in Peers, Level(p), Stored(p), stream'[p] = stream[p],
           \A f \in [Mail -> Nat] : Here(p, f) \in Nat /\ Here(p, f)' \in 0..Here(p, f),
           sched'[p].at # "closed" => sched[p].at # "closed"
    PROVE  Level(p)' /\ Stored(p)'
<1>1. Stored(p)'
  BY DEF Stored
<1>2. ASSUME NEW b \in BOOLEAN
      PROVE  Believed(p, b)' = Believed(p, b) /\ Cost("RELEASE", b) \in [Mail -> Nat]
             /\ Cost("RELEASE", b)' = Cost("RELEASE", b)
  BY CostIs DEF Believed, Cost
<1>3. ASSUME NEW b \in BOOLEAN
      PROVE  /\ Believed(p, b)' \in Nat
             /\ sched'[p].at # "closed" => Here(p, Cost("RELEASE", b))' <= Believed(p, b)'
  <2>1. /\ Believed(p, b) \in Nat
        /\ sched[p].at # "closed" => Here(p, Cost("RELEASE", b)) <= Believed(p, b)
    BY DEF Level
  <2>2. /\ Here(p, Cost("RELEASE", b)) \in Nat
        /\ Here(p, Cost("RELEASE", b))' \in 0..Here(p, Cost("RELEASE", b))
    BY <1>2
  <2> QED BY <2>1, <2>2, <1>2
<1> QED BY <1>1, <1>3 DEF Level

\* What has come to an end gets less when its first message is taken.
LEMMA HereDrops ==
    ASSUME EndTypes, NEW p \in Peers, Adding(p)' = Adding(p),
           rQueue'[p] = rQueue[p] \/ (rQueue[p] # <<>> /\ rQueue'[p] = Tail(rQueue[p]))
    PROVE  /\ \A f \in [Mail -> Nat] : Here(p, f) \in Nat /\ Here(p, f)' \in 0..Here(p, f)
           /\ \A f \in [Mail -> Nat] : rQueue[p] # <<>> /\ rQueue'[p] = Tail(rQueue[p]) =>
                 /\ Head(rQueue[p]) \in Mail
                 /\ Here(p, f)' = Here(p, f) - f[Head(rQueue[p])]
<1>1. rQueue[p] \in Seq(Mail) /\ Adding(p) \in Seq(Mail)
  BY DEF EndTypes, Adding
<1> SUFFICES ASSUME NEW f \in [Mail -> Nat]
             PROVE  /\ Here(p, f) \in Nat /\ Here(p, f)' \in 0..Here(p, f)
                    /\ rQueue[p] # <<>> /\ rQueue'[p] = Tail(rQueue[p]) =>
                          /\ Head(rQueue[p]) \in Mail
                          /\ Here(p, f)' = Here(p, f) - f[Head(rQueue[p])]
  OBVIOUS
<1> DEFINE x == Weighed(rQueue[p], f)
           y == Weighed(Adding(p), f)
           z == Weighed(rQueue'[p], f)
<1>2. x \in Nat /\ y \in Nat
  BY <1>1, WeightsAre
<1>3. Here(p, f) = x + y /\ Here(p, f)' = z + y
  BY DEF Here
<1>4. ASSUME rQueue[p] # <<>>, rQueue'[p] = Tail(rQueue[p])
      PROVE  /\ Head(rQueue[p]) \in Mail /\ f[Head(rQueue[p])] \in Nat
             /\ x = f[Head(rQueue[p])] + z /\ z \in Nat
  <2>1. /\ x = f[Head(rQueue[p])] + Weighed(Tail(rQueue[p]), f)
        /\ Head(rQueue[p]) \in Mail /\ Tail(rQueue[p]) \in Seq(Mail)
    BY <1>1, <1>4, WeighedMoves
  <2>2. Weighed(Tail(rQueue[p]), f) \in Nat
    BY <2>1, WeightsAre
  <2>3. z = Weighed(Tail(rQueue[p]), f)
    BY <1>4
  <2>4. f[Head(rQueue[p])] \in Nat
    BY <2>1
  <2> HIDE DEF x, z
  <2> QED BY <2>1, <2>2, <2>3, <2>4
<1>5. rQueue'[p] = rQueue[p] => z = x
  OBVIOUS
<1> HIDE DEF x, y, z
<1>6. CASE rQueue[p] # <<>> /\ rQueue'[p] = Tail(rQueue[p])
  <2> DEFINE h == f[Head(rQueue[p])]
  <2>1. h \in Nat /\ x = h + z /\ z \in Nat
    BY <1>4, <1>6
  <2> HIDE DEF h
  <2>2. Here(p, f) \in Nat /\ Here(p, f)' \in 0..Here(p, f) /\ Here(p, f)' = Here(p, f) - h
    BY <1>2, <1>3, <2>1
  <2> QED BY <2>2, <1>4, <1>6 DEF h
<1>7. CASE ~(rQueue[p] # <<>> /\ rQueue'[p] = Tail(rQueue[p]))
  BY <1>2, <1>3, <1>5, <1>7
<1> QED BY <1>6, <1>7

Levels == \A p \in Peers : Level(p) /\ Stored(p)

\* What a local request does to the accounts: a release without a packet that was read
\* leaves them, a write adds to what the writer believes.
LEMMA LocalLevels ==
    ASSUME EndTypes, Levels, NEW p \in Peers, curProc[p] # 0, SchedLocal(p)
    PROVE  Level(p)' /\ Stored(p)' /\ stream'[Other(p)] = stream[Other(p)]
<1>1. PICK s \in Slots : s = NextSlot(p) /\ ServeLocal(p, s)
  BY NextIs DEF SchedLocal
<1>2. Adding(p)' = Adding(p) /\ sched[p].at # "closed"
  BY DEF SchedLocal, Running, Adding
<1>3. rQueue'[p] = rQueue[p]
  BY DEF SchedLocal, TakeNext, EndTypes
<1>4. \A f \in [Mail -> Nat] : Here(p, f) \in Nat /\ Here(p, f)' \in 0..Here(p, f)
  BY <1>2, <1>3, HereDrops
<1>5. Level(p) /\ Stored(p) /\ Other(p) \in Peers
  BY Ends DEF Levels
<1>6. CASE stream' = stream
  <2>1. Level(p)' /\ Stored(p)'
    BY <1>2, <1>4, <1>5, <1>6, LevelKeeps
  <2> QED BY <2>1, <1>6
<1>7. CASE ~(lQueue[p][s].type = "RELEASE" /\ stream[p].blocked = <<>>)
  <2>1. PICK f \in Event :
           /\ stream'[Other(p)] = stream[Other(p)] /\ Stored(p)'
           /\ \/ \A b \in BOOLEAN : Believed(p, b)' = Believed(p, b)
              \/ /\ f.type \in {"WRITE", "RELEASE", "RESET"}
                 /\ \A b \in BOOLEAN : Believed(p, b)' = Believed(p, b) + Cost("WRITE", b)[LetterOf(f)]
    BY <1>1, <1>5, <1>7, ServeMoves
  <2>2. ASSUME NEW b \in BOOLEAN
        PROVE  Believed(p, b)' \in Nat /\ Believed(p, b)' >= Believed(p, b)
    <3>1. f.type \in {"WRITE", "RELEASE", "RESET"} => Cost("WRITE", b)[LetterOf(f)] \in Nat
      <4>1. f.type \in {"WRITE", "RELEASE", "RESET"} => LetterOf(f) \in Mail
        BY DEF LetterOf, Event, Mail
      <4> QED BY <4>1, CostIs
    <3>2. Believed(p, b) \in Nat
      BY <1>5 DEF Level
    <3> QED BY <3>1, <3>2, <2>1
  <2>3. ASSUME NEW b \in BOOLEAN
        PROVE  Here(p, Cost("RELEASE", b))' <= Believed(p, b)'
    <3>1. Cost("RELEASE", b) \in [Mail -> Nat] /\ Cost("RELEASE", b)' = Cost("RELEASE", b)
      BY CostIs DEF Cost
    <3>2. Here(p, Cost("RELEASE", b)) \in Nat /\ Here(p, Cost("RELEASE", b))' \in 0..Here(p, Cost("RELEASE", b))
      BY <3>1, <1>4
    <3>3. Here(p, Cost("RELEASE", b)) <= Believed(p, b) /\ Believed(p, b) \in Nat
      BY <1>2, <1>5 DEF Level
    <3> QED BY <3>1, <3>2, <3>3, <2>2
  <2>4. Level(p)'
    BY <2>2, <2>3 DEF Level
  <2> QED BY <2>1, <2>4
<1>8. CASE lQueue[p][s].type = "RELEASE" /\ stream[p].blocked = <<>>
  <2>1. stream' = stream
    BY <1>1, <1>8 DEF ServeLocal, ReleasePacket
  <2> QED BY <2>1, <1>6
<1> QED BY <1>7, <1>8

\* A release of the peer takes back as much as it weighs.
LEMMA RemoteLevels ==
    ASSUME EndTypes, Levels, NEW p \in Peers, SchedRemoteRequest(p)
    PROVE  Level(p)' /\ Stored(p)' /\ stream'[Other(p)] = stream[Other(p)]
<1> DEFINE m == Head(rQueue[p])
<1>1. Adding(p)' = Adding(p) /\ sched[p].at # "closed"
  BY DEF SchedRemoteRequest, Running, Adding
<1>2. rQueue[p] # <<>>
  <2>1. NextEvent(p) = "remote"
    BY DEF SchedRemoteRequest
  <2>2. HasRemote(p)
    BY <2>1 DEF NextEvent
  <2> QED BY <2>2 DEF HasRemote
<1>3. rQueue'[p] = Tail(rQueue[p])
  BY DEF SchedRemoteRequest, TakeNext, EndTypes
<1>4. /\ \A f \in [Mail -> Nat] : Here(p, f) \in Nat /\ Here(p, f)' \in 0..Here(p, f)
      /\ m \in Mail
      /\ \A f \in [Mail -> Nat] : Here(p, f)' = Here(p, f) - f[m]
  <2>1. \A f \in [Mail -> Nat] : Here(p, f) \in Nat /\ Here(p, f)' \in 0..Here(p, f)
    BY <1>1, <1>3, <1>2, HereDrops
  <2>2. \A f \in [Mail -> Nat] : m \in Mail /\ Here(p, f)' = Here(p, f) - f[m]
    BY <1>1, <1>3, <1>2, HereDrops
  <2>3. m \in Mail
    BY <1>2, HeadIs DEF EndTypes
  <2> QED BY <2>1, <2>2, <2>3
<1>5. Level(p) /\ Stored(p) /\ Other(p) \in Peers /\ Other(p) # p
  BY Ends DEF Levels
<1> HIDE DEF m
<1>6. CASE stream' = stream
  <2>1. Level(p)' /\ Stored(p)'
    BY <1>1, <1>4, <1>5, <1>6, LevelKeeps
  <2> QED BY <2>1, <1>6
<1>7. CASE /\ m.type = "RELEASE"
           /\ stream' = [stream EXCEPT ![p].remoteFill = @ - m.size, ![p].remotePackets = @ - 1]
  <2>1. stream[p] \in Stream /\ stream \in [Peers -> Stream] /\ m.size \in Nat
    BY <1>4 DEF EndTypes, Mail
  <2>2. /\ stream'[p].remoteFill = stream[p].remoteFill - m.size
        /\ stream'[p].remotePackets = stream[p].remotePackets - 1
        /\ stream'[p].localFill = stream[p].localFill /\ stream'[p].available = stream[p].available
        /\ stream'[p].blocked = stream[p].blocked /\ stream'[Other(p)] = stream[Other(p)]
    BY <1>7, <2>1, <1>5 DEF Stream
  <2>3. Stored(p)'
    BY <2>2, <1>5 DEF Stored
  <2>4. ASSUME NEW b \in BOOLEAN
        PROVE  /\ Believed(p, b)' \in Nat
               /\ Here(p, Cost("RELEASE", b))' <= Believed(p, b)'
    <3>1. /\ Cost("RELEASE", b) \in [Mail -> Nat] /\ Cost("RELEASE", b)' = Cost("RELEASE", b)
          /\ Cost("RELEASE", b)[m] = IF b THEN m.size ELSE 1
      BY <1>4, <1>7, CostIs DEF Cost
    <3>2. /\ Here(p, Cost("RELEASE", b)) \in Nat
          /\ Here(p, Cost("RELEASE", b))' \in 0..Here(p, Cost("RELEASE", b))
          /\ Here(p, Cost("RELEASE", b))' = Here(p, Cost("RELEASE", b)) - Cost("RELEASE", b)[m]
      BY <3>1, <1>4
    <3>3. Here(p, Cost("RELEASE", b)) <= Believed(p, b) /\ Believed(p, b) \in Nat
      BY <1>1, <1>5 DEF Level
    <3>4. Believed(p, b)' = Believed(p, b) - (IF b THEN m.size ELSE 1)
      BY <2>2 DEF Believed
    <3> QED BY <3>1, <3>2, <3>3, <3>4, <2>1
  <2>5. Level(p)'
    BY <2>4 DEF Level
  <2> QED BY <2>2, <2>3, <2>5
<1> QED BY <1>6, <1>7 DEF SchedRemoteRequest, m

\* The packet descriptor of a closed link is empty.
LEMMA CloseLevels ==
    ASSUME EndTypes, Levels, NEW p \in Peers, Close(p)
    PROVE  Level(p)' /\ Stored(p)' /\ stream'[Other(p)] = stream[Other(p)]
<1>1. /\ stream'[p] = [remoteFill |-> 0, remotePackets |-> 0, localFill |-> 0,
                      available |-> <<>>, blocked |-> <<>>]
      /\ Other(p) \in Peers /\ stream'[Other(p)] = stream[Other(p)] /\ sched'[p].at = "closed"
  BY Ends DEF Close, GoTo, EndTypes, Places
<1>2. Bulk \in [Packet -> Nat]
  BY DEF Bulk, Packet
<1>3. Weighed(<<>>, Bulk) = 0
  BY <1>2, WeighedFew
<1>4. Bulk' = Bulk
  BY DEF Bulk
<1>5. Stored(p)'
  BY <1>1, <1>3, <1>4 DEF Stored
<1>6. \A b \in BOOLEAN : Believed(p, b)' = 0
  BY <1>1 DEF Believed
<1> QED BY <1>1, <1>5, <1>6 DEF Level

\* The levels stay while the link fails and after it: what is under way is lost, what has
\* come is served.
LEMMA LevelsKeep ==
    ASSUME EndTypes, Levels, [Next]_vars, ~up'
    PROVE  Levels'
<1>1. ASSUME NEW p \in Peers, Adding(p)' = Adding(p), stream'[p] = stream[p],
             rQueue'[p] = rQueue[p] \/ (rQueue[p] # <<>> /\ rQueue'[p] = Tail(rQueue[p])),
             sched'[p].at # "closed" => sched[p].at # "closed"
      PROVE  Level(p)' /\ Stored(p)'
  <2>1. \A f \in [Mail -> Nat] : Here(p, f) \in Nat /\ Here(p, f)' \in 0..Here(p, f)
    BY <1>1, HereDrops
  <2>2. Level(p) /\ Stored(p)
    BY DEF Levels
  <2> QED BY <2>1, <2>2, <1>1, LevelKeeps
<1>2. CASE UNCHANGED <<stream, rQueue, reader, sched>>
  <2>1. \A p \in Peers : Adding(p)' = Adding(p)
    BY <1>2 DEF Adding
  <2> QED BY <2>1, <1>1, <1>2 DEF Levels
<1>3. ASSUME NEW p \in Peers, Level(p)' /\ Stored(p)', stream'[Other(p)] = stream[Other(p)],
             rQueue'[Other(p)] = rQueue[Other(p)], reader'[Other(p)] = reader[Other(p)],
             sched'[Other(p)] = sched[Other(p)]
      PROVE  Levels'
  <2>1. Other(p) \in Peers /\ \A q \in Peers : q = p \/ q = Other(p)
    BY Ends
  <2>2. Adding(Other(p))' = Adding(Other(p))
    BY <1>3 DEF Adding
  <2>3. Level(Other(p))' /\ Stored(Other(p))'
    BY <2>1, <2>2, <1>1, <1>3
  <2>4. ASSUME NEW q \in Peers PROVE Level(q)' /\ Stored(q)'
    <3>1. CASE q = p
      BY <1>3, <3>1
    <3>2. CASE q = Other(p)
      BY <2>3, <3>2
    <3> QED BY <2>1, <3>1, <3>2
  <2> QED BY <2>4 DEF Levels
<1>4. ASSUME NEW p \in Peers, Alive(p), Scheduler(p) \/ Reader(p) \/ SchedStop(p) \/ ReaderStop(p)
      PROVE  Levels'
  <2> DEFINE q == Other(p)
  <2>1. q \in Peers /\ q # p /\ curProc[p] # 0
    BY <1>4, Ends DEF Alive
  <2> HIDE DEF q
  <2>2. ASSUME TakeNext(p)
        PROVE  /\ rQueue'[p] = rQueue[p] \/ (rQueue[p] # <<>> /\ rQueue'[p] = Tail(rQueue[p]))
               /\ rQueue'[q] = rQueue[q]
    <3>1. NextEvent(p) = "remote" => rQueue[p] # <<>>
      <4> SUFFICES ASSUME NextEvent(p) = "remote" PROVE rQueue[p] # <<>>
        OBVIOUS
      <4>1. HasRemote(p)
        BY DEF NextEvent
      <4> QED BY <4>1 DEF HasRemote
    <3> QED BY <2>1, <2>2, <3>1 DEF TakeNext, EndTypes
  <2>3. CASE SchedLocal(p)
    <3>1. reader' = reader /\ sched'[q] = sched[q] /\ rQueue'[q] = rQueue[q]
      BY <2>1, <2>2, <2>3 DEF SchedLocal, ServeLocal, EndTypes
    <3> QED BY <3>1, <2>1, <2>3, <1>3, LocalLevels DEF q
  <2>4. CASE SchedRemoteRequest(p)
    <3>1. reader' = reader /\ sched'[q] = sched[q] /\ rQueue'[q] = rQueue[q]
      BY <2>1, <2>2, <2>4 DEF SchedRemoteRequest, EndTypes
    <3> QED BY <3>1, <2>4, <1>3, RemoteLevels DEF q
  <2>5. CASE Close(p)
    <3>1. reader' = reader /\ sched'[q] = sched[q] /\ rQueue'[q] = rQueue[q]
      BY <2>1, <2>5 DEF Close, GoTo, EndTypes, queues
    <3> QED BY <3>1, <2>5, <1>3, CloseLevels DEF q
  <2>6. CASE SchedResponse(p) \/ SchedNull(p) \/ Drain(p)
    <3>1. /\ TakeNext(p) /\ UNCHANGED <<reader, stream>>
          /\ sched[p].at # "closed" /\ sched'[q] = sched[q]
      BY <2>1, <2>6 DEF SchedResponse, SchedNull, Drain, Running, GoTo, EndTypes
    <3>2. Adding(p)' = Adding(p)
      BY <3>1 DEF Adding
    <3>3. Level(p)' /\ Stored(p)'
      BY <3>1, <3>2, <2>2, <1>1
    <3> QED BY <3>1, <3>3, <2>2, <1>3 DEF q
  <2>7. CASE \/ SchedSend(p) \/ SchedReply(p) \/ SchedFind(p) \/ Free(p, "sched") \/ SchedFreed(p)
             \/ Join(p) \/ ReceiveFails(p) \/ ReaderFind(p) \/ Free(p, "reader")
             \/ ReaderLoop(p) \/ SchedStop(p) \/ ReaderStop(p)
    <3>1. UNCHANGED <<rQueue, stream>>
      BY <2>7 DEF SchedSend, SchedReply, SchedFind, Free, SchedFreed, Join, ReceiveFails, ReaderFind,
                  ReaderLoop, SchedStop, ReaderStop, queues
    <3>2. sched'[q] = sched[q] /\ (sched'[p].at # "closed" => sched[p].at # "closed")
      BY <2>1, <2>7 DEF SchedSend, SchedReply, SchedFind, Free, SchedFreed, Join, ReceiveFails, ReaderFind,
                  ReaderLoop, SchedStop, ReaderStop, GoTo, EndTypes
    <3>3. reader'[q] = reader[q] /\ Adding(p)' = Adding(p)
      <4>1. CASE reader' = reader
        BY <4>1 DEF Adding
      <4>2. CASE ReceiveFails(p) \/ ReaderLoop(p) \/ ReaderStop(p)
        <5>1. /\ reader[p].at # "add" /\ reader'[q] = reader[q]
              /\ \E l \in {"fail", "exit", "recv"} : reader' = [reader EXCEPT ![p].at = l]
          BY <2>1, <4>2 DEF ReceiveFails, ReaderLoop, ReaderStop, EndTypes
        <5>2. reader'[p].at # "add"
          BY <5>1 DEF EndTypes
        <5> QED BY <5>1, <5>2 DEF Adding
      <4> QED BY <2>7, <4>1, <4>2 DEF SchedSend, SchedReply, SchedFind, Free, SchedFreed, Join,
                                      ReaderFind, SchedStop
    <3>4. Level(p)' /\ Stored(p)'
      BY <3>1, <3>2, <3>3, <1>1
    <3> QED BY <3>1, <3>2, <3>3, <3>4, <1>3 DEF q
  <2>8. CASE AddRemote(p)
    <3> DEFINE m == reader[p].msg
    <3>1. /\ UNCHANGED <<stream, sched>> /\ rQueue'[q] = rQueue[q] /\ reader'[q] = reader[q]
          /\ rQueue'[p] = rQueue[p] \/ rQueue'[p] = Append(rQueue[p], m)
          /\ reader[p].at = "add"
      BY <2>1, <2>8 DEF AddRemote, EndTypes
    <3>2. Adding(p) = <<m>> /\ Adding(p)' = <<>>
      <4>1. reader'[p].at # "add"
        BY <2>8 DEF AddRemote, EndTypes
      <4> QED BY <3>1, <4>1 DEF Adding
    <3>3. rQueue[p] \in Seq(Mail) /\ m \in Mail
      BY DEF EndTypes
    <3> HIDE DEF m
    <3>4. ASSUME NEW f \in [Mail -> Nat]
          PROVE  Here(p, f) \in Nat /\ Here(p, f)' \in 0..Here(p, f)
      <4> DEFINE x == Weighed(rQueue[p], f)
                 z == Weighed(rQueue'[p], f)
      <4>1. x \in Nat
        BY <3>3, WeightsAre
      <4>2. f[m] \in Nat
        BY <3>3
      <4>3. Weighed(Append(rQueue[p], m), f) = x + f[m]
        BY <3>3, WeighedMoves
      <4>4. z = x \/ z = Weighed(Append(rQueue[p], m), f)
        BY <3>1
      <4>5. Weighed(<<>>, f) = 0 /\ Weighed(<<m>>, f) = f[m]
        BY <3>3, WeighedFew
      <4>6. Here(p, f) = x + f[m] /\ Here(p, f)' = z + 0
        BY <3>2, <4>5 DEF Here
      <4> HIDE DEF x, z
      <4> QED BY <4>1, <4>2, <4>3, <4>4, <4>6
    <3>5. Level(p) /\ Stored(p)
      BY DEF Levels
    <3>6. Level(p)' /\ Stored(p)'
      BY <3>1, <3>4, <3>5, LevelKeeps
    <3> QED BY <3>1, <3>6, <1>3 DEF q
  <2>9. ASSUME Receive(p) PROVE FALSE
    <3>1. up /\ up' = up
      BY <2>9 DEF Receive
    <3> QED BY <3>1
  <2> QED BY <1>4, <2>3, <2>4, <2>5, <2>6, <2>7, <2>8, <2>9 DEF Scheduler, Reader
<1>5. ASSUME NEW t \in Threads, (\E op \in Ops[mayFail][t] : Call(t, op)) \/ Add(t) \/ Return(t)
      PROVE  Levels'
  BY <1>2, <1>5 DEF Call, Add, Return, queues
<1>6. CASE Unplug \/ UNCHANGED vars
  BY <1>2, <1>6 DEF Unplug, vars, queues
<1> QED BY <1>4, <1>5, <1>6 DEF Next

-------------------------------------------------------------------------------
(* The type invariant. *)

\* With what AccInv says while the link is up, the types and levels also after it.
TypeInv ==
    /\ AccInv /\ EndTypes /\ CallTypes
    /\ mayFail \in FaultModels /\ up \in BOOLEAN
    /\ Tokens /\ Fitting /\ OwnEvents
    /\ ~up => Levels

\* The link at rest has the types.
LEMMA InitTypes == Init => TypeInv
<1> SUFFICES ASSUME Init PROVE TypeInv
  OBVIOUS
<1>1. AccInv /\ up
  BY InitBalances DEF Init
<1>2. AtWork /\ Balanced
  BY <1>1 DEF AccInv, IndInv
<1>3. EndTypes /\ CallTypes
  BY <1>2 DEF AtWork
<1>4. Levels
  BY <1>2, LevelsUp DEF Levels, Balanced
<1>5. mayFail \in FaultModels /\ up \in BOOLEAN /\ Tokens
  BY DEF Init, Tokens
<1>6. Fitting
  <2>1. \A p \in Peers : Len(rQueue[p]) = 0
    BY DEF Init
  <2> QED BY <2>1, RoomForThreads DEF Fitting
<1>7. OwnEvents
  <2> SUFFICES ASSUME NEW p \in Peers, NEW s \in Slots
               PROVE  PeerOf(lQueue[p][s].thread) = p
    BY DEF OwnEvents
  <2>1. \E t \in Threads : PeerOf(t) = p
    BY ThreadsOfEnd
  <2>2. lQueue[p][s].thread = CHOOSE t \in Threads : PeerOf(t) = p
    BY DEF Init, FreeSlot
  <2> QED BY <2>1, <2>2
<1> QED BY <1>1, <1>3, <1>4, <1>5, <1>6, <1>7 DEF TypeInv

\* Every step keeps the type invariant.
LEMMA NextTypeInv ==
    ASSUME ~Recycles, TypeInv, [Next]_vars
    PROVE  TypeInv'
<1>1. AccInv'
  BY NextBalances DEF TypeInv
<1>2. EndTypes' /\ CallTypes'
  BY NextTypes DEF TypeInv, AccInv
<1>3. mayFail' \in FaultModels
  BY DEF TypeInv, Next, vars
<1>4. up' \in BOOLEAN
  <2>1. CASE Next
    <3>1. ASSUME NEW p \in Peers, Scheduler(p) \/ Reader(p) \/ SchedStop(p) \/ ReaderStop(p)
          PROVE  up' = up \/ up' = FALSE
      BY <3>1 DEF Scheduler, Reader, SchedLocal, SchedRemoteRequest, SchedResponse, SchedNull, SchedSend,
                  SchedReply, SchedFind, Free, SchedFreed, Join, Drain, Close, Receive, ReceiveFails,
                  AddRemote, ReaderFind, ReaderLoop, SchedStop, ReaderStop
    <3>2. ASSUME NEW t \in Threads, (\E op \in Ops[mayFail][t] : Call(t, op)) \/ Add(t) \/ Return(t)
          PROVE  up' = up
      BY <3>2 DEF Call, Add, Return
    <3>3. Unplug => up' = FALSE
      BY DEF Unplug
    <3> QED BY <2>1, <3>1, <3>2, <3>3 DEF Next, TypeInv
  <2>2. CASE UNCHANGED vars
    BY <2>2 DEF vars, TypeInv
  <2> QED BY <2>1, <2>2
<1>5. Tokens' /\ Fitting' /\ OwnEvents'
  BY TokensKeep, FittingKeeps, OwnEventsKeep DEF TypeInv
<1>6. ASSUME ~up' PROVE Levels'
  <2>1. ASSUME up PROVE Levels
    <3>1. AtWork /\ Balanced
      BY <2>1 DEF TypeInv, AccInv, IndInv
    <3> QED BY <3>1, LevelsUp DEF Levels, Balanced
  <2> QED BY <2>1, <1>6, LevelsKeep DEF TypeInv
<1> QED BY <1>1, <1>2, <1>3, <1>4, <1>5, <1>6 DEF TypeInv

\* The types, in every state of the system, with a link that works or one that has failed.
\* That a fill level and a count of packets never go below zero is the difficult part: the
\* code subtracts what a release of the peer says, and what it has accounted for covers it.
THEOREM TypesAreCorrect == ASSUME ~Recycles PROVE Spec => []TypeOK
<1>1. Init => TypeInv
  BY InitTypes
<1>2. TypeInv /\ [Next]_vars => TypeInv'
  BY NextTypeInv
<1>3. TypeInv => TypeOK
  <2> SUFFICES ASSUME TypeInv PROVE TypeOK
    OBVIOUS
  <2>1. EndTypes /\ CallTypes /\ Tokens /\ Fitting /\ OwnEvents /\ Levels
    <3>1. ASSUME up PROVE Levels
      <4>1. AtWork /\ Balanced
        BY <3>1 DEF TypeInv, AccInv, IndInv
      <4> QED BY <4>1, LevelsUp DEF Levels, Balanced
    <3> QED BY <3>1 DEF TypeInv
  <2>2. mayFail \in FaultModels /\ up \in BOOLEAN /\ resetXLink \in [Peers -> BOOLEAN]
    BY DEF TypeInv, AccInv, IndInv
  <2>3. ASSUME NEW p \in Peers, NEW s \in Slots
        PROVE  /\ lQueue[p][s].state \in {"ALLOCATED", "PENDING", "BLOCKED", "READY", "SERVED"}
               /\ lQueue[p][s].type \in Requests \cup {"NONE"}
               /\ PeerOf(lQueue[p][s].thread) = p
    <3>1. lQueue[p][s] \in Event
      BY <2>1, EventIs
    <3> QED BY <3>1, <2>1 DEF Event, OwnEvents
  <2>4. ASSUME NEW p \in Peers
        PROVE  /\ stream[p].remoteFill \in Nat /\ stream[p].remotePackets \in Nat
               /\ stream[p].localFill \in Nat
    <3>1. Level(p) /\ Stored(p)
      BY <2>1 DEF Levels
    <3>2. Believed(p, TRUE) \in Nat /\ Believed(p, FALSE) \in Nat
      BY <3>1 DEF Level
    <3>3. /\ stream[p].blocked \in Seq(Packet) /\ stream[p].available \in Seq(Packet)
          /\ Bulk \in [Packet -> Nat]
      BY <2>1 DEF EndTypes, Stream, Bulk, Packet
    <3>4. Weighed(stream[p].blocked, Bulk) \in Nat /\ Weighed(stream[p].available, Bulk) \in Nat
      BY <3>3, WeightsAre
    <3> QED BY <3>1, <3>2, <3>4 DEF Believed, Stored
  <2>5. Mail = Message
    BY DEF Mail, Message, Ids
  <2>6. ASSUME NEW p \in Peers
        PROVE  /\ rQueue[p] \in Seq(Message) /\ Len(rQueue[p]) <= MaxEvents
               /\ wire[p] \in Seq(Message)
               /\ sched[p].at \in {"get", "send", "reply", "free", "join", "drain", "clean", "closed"}
               /\ reader[p].at \in {"recv", "add", "fail", "exit"}
               /\ freeing[p] \in [{"sched", "reader"} -> Slots \cup {0}]
    <3>1. rQueue[p] \in Seq(Message) /\ wire[p] \in Seq(Message)
      BY <2>1, <2>5 DEF EndTypes
    <3> QED BY <3>1, <2>1 DEF EndTypes, Fitting, Places, Steps
  <2> QED BY <2>1, <2>2, <2>3, <2>4, <2>6 DEF TypeOK, EndTypes, CallTypes, Tokens
<1> QED BY <1>1, <1>2, <1>3, PTL DEF Spec
===============================================================================
