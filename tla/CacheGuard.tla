----------------------------- MODULE CacheGuard -----------------------------
(***************************************************************************)
(* CacheGuard: one lock per hash, made when somebody asks for it and       *)
(* removed when nobody uses it any more                                    *)
(* (inference_engine/src/ie_cache_guard.cpp).                              *)
(*                                                                         *)
(* An item of the table holds a mutex, which its users keep alive, and a   *)
(* counter of its users, which is incremented under the mutex of the table *)
(* and decremented without it.                                             *)
(***************************************************************************)
EXTENDS Naturals, FiniteSets

CONSTANTS Threads, Hashes, NoHash, Items, NoItem

ASSUME GuardAssumption ==
    /\ IsFiniteSet(Threads)
    /\ NoItem \notin Items
    /\ NoHash \notin Hashes

VARIABLES
    table,      \* m_table
    refs,       \* m_itemRefCounter of each item
    owner,      \* the threads that own the mutex of each item, one at most
    pc,         \* where a thread is: out of the guard, locking, holding its
                \* entry, or in the destructor of the entry
    hash,       \* m_hash of its entry
    item        \* the item its entry refers to

guard == <<table, refs, owner, pc, hash, item>>

MaybeItem == Items \cup {NoItem}
Places == {"out", "lock", "held", "unlock", "remove"}

\* The threads whose entry is counted, and those that may still touch the item.
Users(i) == {t \in Threads : item[t] = i /\ pc[t] \in {"lock", "held"}}
InUse(i) == \E t \in Threads : item[t] = i

Init ==
    /\ table = [h \in Hashes |-> NoItem]
    /\ refs = [i \in Items |-> 0]
    /\ owner = [i \in Items |-> {}]
    /\ pc = [t \in Threads |-> "out"]
    /\ hash = [t \in Threads |-> NoHash]
    /\ item = [t \in Threads |-> NoItem]

\* m_table[hash] makes an item if there is none.
Fresh(i) == ~InUse(i) /\ \A h \in Hashes : table[h] # i
Find(h, i) == table[h] = i \/ (table[h] = NoItem /\ Fresh(i))

GetHashLock(t, h) ==
    /\ pc[t] = "out"
    /\ \E i \in Items :
        /\ Find(h, i)
        /\ table' = [table EXCEPT ![h] = i]
        /\ refs' = [refs EXCEPT ![i] = (IF table[h] = i THEN @ ELSE 0) + 1]
        /\ owner' = [owner EXCEPT ![i] = IF table[h] = i THEN @ ELSE {}]
        /\ item' = [item EXCEPT ![t] = i]
    /\ pc' = [pc EXCEPT ![t] = "lock"]
    /\ hash' = [hash EXCEPT ![t] = h]

\* The entry could not be made: an item nobody uses is erased.
Unused(h) == table[h] # NoItem => refs[table[h]] = 0

GetHashLockThrows(t, h) ==
    /\ pc[t] = "out"
    /\ table' = [table EXCEPT ![h] = IF Unused(h) THEN NoItem ELSE @]
    /\ UNCHANGED <<refs, owner, pc, hash, item>>

\* Mutant: the mutex is not locked.
PerformNoLock(t) ==
    /\ pc[t] = "lock"
    /\ pc' = [pc EXCEPT ![t] = "held"]
    /\ UNCHANGED <<table, refs, owner, hash, item>>

PerformLock(t) ==
    /\ pc[t] = "lock"
    /\ owner[item[t]] = {}
    /\ owner' = [owner EXCEPT ![item[t]] = {t}]
    /\ pc' = [pc EXCEPT ![t] = "held"]
    /\ UNCHANGED <<table, refs, hash, item>>

\* The destructor of the entry.
Decrement(t) ==
    /\ pc[t] = "held"
    /\ refs' = [refs EXCEPT ![item[t]] = @ - 1]
    /\ pc' = [pc EXCEPT ![t] = "unlock"]
    /\ UNCHANGED <<table, owner, hash, item>>

\* Mutant: the mutex is not unlocked.
UnlockNothing(t) ==
    /\ pc[t] = "unlock"
    /\ item' = [item EXCEPT ![t] = NoItem]
    /\ pc' = [pc EXCEPT ![t] = "remove"]
    /\ UNCHANGED <<table, refs, owner, hash>>

Unlock(t) ==
    /\ pc[t] = "unlock"
    /\ owner' = [owner EXCEPT ![item[t]] = {}]
    /\ item' = [item EXCEPT ![t] = NoItem]
    /\ pc' = [pc EXCEPT ![t] = "remove"]
    /\ UNCHANGED <<table, refs, hash>>

\* Mutant: nobody removes the items.
RemovableNever(h) == FALSE

\* Mutant: the item is removed although others wait for its mutex.
RemovableAlways(h) == TRUE

Removable(h) == Unused(h)

CheckForRemove(t) ==
    /\ pc[t] = "remove"
    /\ table' = [table EXCEPT ![hash[t]] = IF Removable(hash[t]) THEN NoItem ELSE @]
    /\ pc' = [pc EXCEPT ![t] = "out"]
    /\ hash' = [hash EXCEPT ![t] = NoHash]
    /\ UNCHANGED <<refs, owner, item>>

GuardStep(t) ==
    \/ \E h \in Hashes : GetHashLock(t, h) \/ GetHashLockThrows(t, h)
    \/ PerformLock(t) \/ Decrement(t) \/ Unlock(t) \/ CheckForRemove(t)

GuardSpec == Init /\ [][\E t \in Threads : GuardStep(t)]_guard
-----------------------------------------------------------------------------
GuardTypeOK ==
    /\ table \in [Hashes -> MaybeItem]
    /\ refs \in [Items -> Nat]
    /\ owner \in [Items -> SUBSET Threads]
    /\ pc \in [Threads -> Places]
    /\ hash \in [Threads -> Hashes \cup {NoHash}]
    /\ item \in [Threads -> MaybeItem]

\* Whoever was given the lock of a hash has exclusive access, although the mutex
\* behind a hash is replaced whenever its item is removed and made again.
MutualExclusion ==
    \A s, t \in Threads :
        pc[s] = "held" /\ pc[t] = "held" /\ hash[s] = hash[t] => s = t

\* When every thread is out of the guard its table is empty, as the destructor of
\* CacheGuard asserts: no interleaving of the unlocked decrements leaves an item.
TableClean == (\A t \in Threads : pc[t] = "out") => \A h \in Hashes : table[h] = NoItem
-----------------------------------------------------------------------------
(* The inductive invariant behind them.                                     *)

\* An item belongs to one hash.
TableInjective ==
    \A g, h \in Hashes : table[g] # NoItem /\ table[g] = table[h] => g = h

\* The counter of an item counts its users, and no item of a user is erased.
RefsCountUsers == \A i \in Items : refs[i] = Cardinality(Users(i))
UsedIsInTable == \A t \in Threads : pc[t] \in {"lock", "held"} =>
                                        item[t] \in Items /\ hash[t] \in Hashes /\ table[hash[t]] = item[t]

OwnerHolds ==
    \A t \in Threads : pc[t] \in {"held", "unlock"} =>
        item[t] \in Items /\ owner[item[t]] = {t}

OutOfUse == \A t \in Threads :
    /\ pc[t] \in {"out", "remove"} => item[t] = NoItem
    /\ pc[t] # "out" => hash[t] \in Hashes

\* An item nobody uses has somebody on the way to remove it.
UnusedIsLeaving ==
    \A h \in Hashes : table[h] # NoItem =>
        \/ Users(table[h]) # {}
        \/ \E t \in Threads : pc[t] \in {"unlock", "remove"} /\ hash[t] = h

GuardInv ==
    /\ GuardTypeOK
    /\ TableInjective
    /\ RefsCountUsers
    /\ UsedIsInTable
    /\ OwnerHolds
    /\ OutOfUse
    /\ UnusedIsLeaving
=============================================================================
