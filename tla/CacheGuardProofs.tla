-------------------------- MODULE CacheGuardProofs --------------------------
(***************************************************************************)
(* The locks of CacheGuard are exclusive and its table does not leak, for  *)
(* any number of threads, hashes and items, whatever loads use them.       *)
(*                                                                         *)
(* The argument: the counter of an item is the number of its users, so an  *)
(* item is erased only when nobody waits for its mutex or owns it; all     *)
(* users of a hash then have the same mutex.                               *)
(***************************************************************************)
EXTENDS ModelCache, FiniteSetTheorems, TLAPS

\* The users of an item are finitely many threads: its counter is positive exactly
\* when it has one.
LEMMA UsersFinite ==
    ASSUME NEW i
    PROVE  /\ IsFiniteSet(Users(i))
           /\ Cardinality(Users(i)) \in Nat
           /\ Cardinality(Users(i)) = 0 <=> Users(i) = {}
<1>1. Users(i) \subseteq Threads
  BY DEF Users
<1>2. IsFiniteSet(Users(i))
  BY <1>1, FS_Subset, GuardAssumption
<1>. QED
  BY <1>2, FS_CardinalityType, FS_EmptySet

\* A counter that is zero tells that nobody locks the item or waits for it.
LEMMA ZeroIsUnused ==
    ASSUME GuardInv, NEW i \in Items
    PROVE  refs[i] = 0 <=> Users(i) = {}
BY UsersFinite DEF GuardInv, RefsCountUsers

\* The table starts empty.
LEMMA GuardStarts == Init => GuardInv
<1>. SUFFICES ASSUME Init PROVE GuardInv
  OBVIOUS
<1>1. \A i \in Items : Users(i) = {}
  BY DEF Init, Users
<1>2. RefsCountUsers
  BY <1>1, FS_EmptySet DEF RefsCountUsers, Init
<1>. QED
  BY <1>2, GuardAssumption DEF Init, GuardInv, GuardTypeOK, MaybeItem, Places, TableInjective,
     UsedIsInTable, OwnerHolds, OutOfUse, UnusedIsLeaving

\* A thread that asks for the lock of a hash becomes one user more of its item, which
\* it finds in the table or makes.
LEMMA GetKeeps ==
    ASSUME GuardInv, NEW t \in Threads, NEW h \in Hashes, GetHashLock(t, h)
    PROVE  GuardInv'
<1>1. PICK i \in Items :
        /\ Find(h, i)
        /\ table' = [table EXCEPT ![h] = i]
        /\ refs' = [refs EXCEPT ![i] = (IF table[h] = i THEN @ ELSE 0) + 1]
        /\ owner' = [owner EXCEPT ![i] = IF table[h] = i THEN @ ELSE {}]
        /\ item' = [item EXCEPT ![t] = i]
  BY DEF GetHashLock
<1>2. /\ pc[t] = "out"
      /\ pc' = [pc EXCEPT ![t] = "lock"]
      /\ hash' = [hash EXCEPT ![t] = h]
  BY DEF GetHashLock
<1>3. i # NoItem /\ item[t] = NoItem
  BY <1>2, GuardAssumption DEF GuardInv, OutOfUse
<1>4. GuardTypeOK'
  BY <1>1, <1>2 DEF GuardInv, GuardTypeOK, MaybeItem, Places
<1>5. TableInjective'
  BY <1>1, <1>3 DEF GuardInv, GuardTypeOK, TableInjective, Find, Fresh
<1>6. RefsCountUsers'
  <2>. SUFFICES ASSUME NEW j \in Items PROVE refs'[j] = Cardinality(Users(j)')
    BY DEF RefsCountUsers
  <2>0. refs[j] = Cardinality(Users(j)) /\ t \notin Users(j)
    BY <1>2 DEF GuardInv, RefsCountUsers, Users
  <2>1. CASE j # i
    <3>1. Users(j)' = Users(j)
      BY <2>1, <1>1, <1>2, <1>3 DEF GuardInv, GuardTypeOK, Users
    <3>. QED
      BY <2>0, <2>1, <3>1, <1>1 DEF GuardInv, GuardTypeOK
  <2>2. CASE j = i
    <3>1. Users(j)' = Users(j) \cup {t}
      BY <2>2, <1>1, <1>2 DEF GuardInv, GuardTypeOK, Users
    <3>2. Cardinality(Users(j)') = Cardinality(Users(j)) + 1
      BY <2>0, <3>1, UsersFinite, FS_AddElement
    <3>3. CASE table[h] = i
      BY <2>0, <2>2, <3>2, <3>3, <1>1 DEF GuardInv, GuardTypeOK
    <3>4. CASE table[h] # i
      <4>1. Users(j) = {}
        BY <2>2, <3>4, <1>1 DEF Find, Fresh, InUse, Users
      <4>. QED
        BY <4>1, <2>2, <3>2, <3>4, <1>1, FS_EmptySet DEF GuardInv, GuardTypeOK
    <3>. QED
      BY <3>3, <3>4
  <2>. QED
    BY <2>1, <2>2
<1>7. UsedIsInTable'
  <2>. SUFFICES ASSUME NEW s \in Threads, pc'[s] \in {"lock", "held"}
                PROVE  item'[s] \in Items /\ hash'[s] \in Hashes /\ table'[hash'[s]] = item'[s]
    BY DEF UsedIsInTable
  <2>1. CASE s = t
    BY <2>1, <1>1, <1>2 DEF GuardInv, GuardTypeOK
  <2>2. CASE s # t
    <3>1. pc'[s] = pc[s] /\ item'[s] = item[s] /\ hash'[s] = hash[s]
      BY <2>2, <1>1, <1>2 DEF GuardInv, GuardTypeOK
    <3>2. item[s] \in Items /\ hash[s] \in Hashes /\ table[hash[s]] = item[s]
      BY <3>1 DEF GuardInv, UsedIsInTable
    <3>3. hash[s] = h => table[h] = i
      BY <3>2, <1>1, GuardAssumption DEF Find
    <3>. QED
      BY <3>1, <3>2, <3>3, <1>1 DEF GuardInv, GuardTypeOK
  <2>. QED
    BY <2>1, <2>2
<1>8. OwnerHolds'
  BY <1>1, <1>2 DEF GuardInv, GuardTypeOK, OwnerHolds, Find, Fresh, InUse
<1>9. OutOfUse'
  BY <1>1, <1>2 DEF GuardInv, GuardTypeOK, OutOfUse
<1>10. UnusedIsLeaving'
  <2>. SUFFICES ASSUME NEW g \in Hashes, table'[g] # NoItem
                PROVE  \/ Users(table[g])' # {}
                       \/ \E s \in Threads : pc'[s] \in {"unlock", "remove"} /\ hash'[s] = g
    BY DEF UnusedIsLeaving
  <2>1. CASE table'[g] = i
    <3>1. t \in Users(i)'
      BY <1>1, <1>2 DEF GuardInv, GuardTypeOK, Users
    <3>. QED
      BY <2>1, <3>1
  <2>2. CASE table'[g] # i
    <3>1. table'[g] = table[g]
      BY <2>2, <1>1 DEF GuardInv, GuardTypeOK
    <3>2. Users(table[g]) \subseteq Users(table[g])'
      BY <1>1, <1>2, <1>3, <3>1 DEF GuardInv, GuardTypeOK, Users
    <3>3. \A s \in Threads : pc[s] \in {"unlock", "remove"} => pc'[s] = pc[s] /\ hash'[s] = hash[s]
      BY <1>2 DEF GuardInv, GuardTypeOK
    <3>. QED
      BY <3>1, <3>2, <3>3 DEF GuardInv, UnusedIsLeaving
  <2>. QED
    BY <2>1, <2>2
<1>. QED
  BY <1>4, <1>5, <1>6, <1>7, <1>8, <1>9, <1>10 DEF GuardInv

\* Locking changes no count.
LEMMA LockKeeps ==
    ASSUME GuardInv, NEW t \in Threads, PerformLock(t)
    PROVE  GuardInv'
<1>1. /\ pc[t] = "lock" /\ owner[item[t]] = {}
      /\ owner' = [owner EXCEPT ![item[t]] = {t}]
      /\ pc' = [pc EXCEPT ![t] = "held"]
      /\ UNCHANGED <<table, refs, hash, item>>
  BY DEF PerformLock
<1>2. item[t] \in Items
  BY <1>1 DEF GuardInv, UsedIsInTable
<1>3. \A i : Users(i)' = Users(i)
  BY <1>1 DEF GuardInv, GuardTypeOK, Users
<1>4. GuardTypeOK'
  BY <1>1, <1>2 DEF GuardInv, GuardTypeOK, Places
<1>5. TableInjective'
  BY <1>1 DEF GuardInv, TableInjective
<1>6. RefsCountUsers'
  BY <1>1, <1>3 DEF GuardInv, RefsCountUsers
<1>7. UsedIsInTable'
  BY <1>1 DEF GuardInv, GuardTypeOK, UsedIsInTable
<1>8. OwnerHolds'
  BY <1>1, <1>2 DEF GuardInv, GuardTypeOK, OwnerHolds
<1>9. OutOfUse'
  BY <1>1 DEF GuardInv, GuardTypeOK, OutOfUse
<1>10. UnusedIsLeaving'
  BY <1>1, <1>3 DEF GuardInv, GuardTypeOK, UnusedIsLeaving
<1>. QED
  BY <1>4, <1>5, <1>6, <1>7, <1>8, <1>9, <1>10 DEF GuardInv

\* The thread that decrements is on its way to remove the item.
LEMMA DecrementKeeps ==
    ASSUME GuardInv, NEW t \in Threads, Decrement(t)
    PROVE  GuardInv'
<1>1. /\ pc[t] = "held"
      /\ refs' = [refs EXCEPT ![item[t]] = @ - 1]
      /\ pc' = [pc EXCEPT ![t] = "unlock"]
      /\ UNCHANGED <<table, owner, hash, item>>
  BY DEF Decrement
<1>2. item[t] \in Items /\ table[hash[t]] = item[t] /\ hash[t] \in Hashes
  BY <1>1 DEF GuardInv, UsedIsInTable
<1>3. t \in Users(item[t]) /\ Users(item[t])' = Users(item[t]) \ {t}
  BY <1>1 DEF GuardInv, GuardTypeOK, Users
<1>4. \A i : i # item[t] => Users(i)' = Users(i)
  BY <1>1 DEF GuardInv, GuardTypeOK, Users
<1>5. Cardinality(Users(item[t])') = Cardinality(Users(item[t])) - 1 /\ refs'[item[t]] \in Nat
  <2>1. refs[item[t]] \in Nat /\ refs[item[t]] # 0
    BY <1>2, <1>3, ZeroIsUnused DEF GuardInv, GuardTypeOK
  <2>2. Cardinality(Users(item[t]) \ {t}) = Cardinality(Users(item[t])) - 1
    BY <1>3, UsersFinite, FS_RemoveElement
  <2>3. refs'[item[t]] = refs[item[t]] - 1
    BY <1>1, <1>2 DEF GuardInv, GuardTypeOK
  <2>. QED
    BY <1>3, <2>1, <2>2, <2>3
<1>6. GuardTypeOK'
  BY <1>1, <1>2, <1>5 DEF GuardInv, GuardTypeOK, Places
<1>7. TableInjective'
  BY <1>1 DEF GuardInv, TableInjective
<1>8. RefsCountUsers'
  BY <1>1, <1>2, <1>4, <1>5 DEF GuardInv, GuardTypeOK, RefsCountUsers
<1>9. UsedIsInTable'
  BY <1>1 DEF GuardInv, GuardTypeOK, UsedIsInTable
<1>10. OwnerHolds'
  BY <1>1 DEF GuardInv, GuardTypeOK, OwnerHolds
<1>11. OutOfUse'
  BY <1>1 DEF GuardInv, GuardTypeOK, OutOfUse
<1>12. UnusedIsLeaving'
  <2>. SUFFICES ASSUME NEW g \in Hashes, table[g] # NoItem
                PROVE  \/ Users(table[g])' # {}
                       \/ \E s \in Threads : pc'[s] \in {"unlock", "remove"} /\ hash[s] = g
    BY <1>1 DEF UnusedIsLeaving
  <2>1. CASE table[g] = item[t]
    <3>1. hash[t] = g
      BY <2>1, <1>2 DEF GuardInv, TableInjective
    <3>. QED
      BY <3>1, <1>1 DEF GuardInv, GuardTypeOK
  <2>2. CASE table[g] # item[t]
    BY <2>2, <1>1, <1>4 DEF GuardInv, GuardTypeOK, UnusedIsLeaving
  <2>. QED
    BY <2>1, <2>2
<1>. QED
  BY <1>6, <1>7, <1>8, <1>9, <1>10, <1>11, <1>12 DEF GuardInv

\* Only the owner unlocks.
LEMMA UnlockKeeps ==
    ASSUME GuardInv, NEW t \in Threads, Unlock(t)
    PROVE  GuardInv'
<1>1. /\ pc[t] = "unlock"
      /\ owner' = [owner EXCEPT ![item[t]] = {}]
      /\ item' = [item EXCEPT ![t] = NoItem]
      /\ pc' = [pc EXCEPT ![t] = "remove"]
      /\ UNCHANGED <<table, refs, hash>>
  BY DEF Unlock
<1>2. item[t] \in Items /\ owner[item[t]] = {t}
  BY <1>1 DEF GuardInv, OwnerHolds
<1>3. \A i \in Items : Users(i)' = Users(i)
  BY <1>1, GuardAssumption DEF GuardInv, GuardTypeOK, Users
<1>4. GuardTypeOK'
  BY <1>1 DEF GuardInv, GuardTypeOK, Places, MaybeItem
<1>5. TableInjective'
  BY <1>1 DEF GuardInv, TableInjective
<1>6. RefsCountUsers'
  BY <1>1, <1>3 DEF GuardInv, RefsCountUsers
<1>7. UsedIsInTable'
  BY <1>1 DEF GuardInv, GuardTypeOK, UsedIsInTable
<1>8. OwnerHolds'
  BY <1>1, <1>2 DEF GuardInv, GuardTypeOK, OwnerHolds
<1>9. OutOfUse'
  BY <1>1 DEF GuardInv, GuardTypeOK, OutOfUse
<1>10. UnusedIsLeaving'
  BY <1>1, <1>3, GuardAssumption DEF GuardInv, GuardTypeOK, UnusedIsLeaving, MaybeItem
<1>. QED
  BY <1>4, <1>5, <1>6, <1>7, <1>8, <1>9, <1>10 DEF GuardInv

\* Erasing the item of a hash that nobody uses disturbs nobody.
LEMMA EraseKeeps ==
    ASSUME GuardInv, NEW h \in Hashes,
           table' = [table EXCEPT ![h] = IF Unused(h) THEN NoItem ELSE @],
           UNCHANGED <<refs, owner, item>>
    PROVE  /\ TableInjective'
           /\ \A s \in Threads : pc[s] \in {"lock", "held"} => table'[hash[s]] = item[s]
           /\ table'[h] # NoItem => Users(table[h]) # {}
           /\ table' \in [Hashes -> MaybeItem]
<1>1. table' \in [Hashes -> MaybeItem]
  BY DEF GuardInv, GuardTypeOK, MaybeItem
<1>2. TableInjective'
  BY DEF GuardInv, GuardTypeOK, TableInjective
<1>3. ASSUME NEW s \in Threads, pc[s] \in {"lock", "held"}
      PROVE  table'[hash[s]] = item[s]
  <2>1. item[s] \in Items /\ hash[s] \in Hashes /\ table[hash[s]] = item[s] /\ s \in Users(item[s])
    BY <1>3 DEF GuardInv, UsedIsInTable, Users
  <2>2. refs[item[s]] # 0
    BY <2>1, ZeroIsUnused
  <2>3. hash[s] = h => ~Unused(h)
    BY <2>1, <2>2, GuardAssumption DEF Unused
  <2>. QED
    BY <2>1, <2>3 DEF GuardInv, GuardTypeOK
<1>4. table'[h] # NoItem => Users(table[h]) # {}
  <2>. SUFFICES ASSUME table'[h] # NoItem PROVE Users(table[h]) # {}
    OBVIOUS
  <2>1. ~Unused(h) /\ table[h] \in Items
    BY DEF GuardInv, GuardTypeOK, MaybeItem
  <2>. QED
    BY <2>1, ZeroIsUnused DEF Unused
<1>. QED
  BY <1>1, <1>2, <1>3, <1>4

\* An item that is left in the table has a user, or somebody else will remove it.
LEMMA CheckKeeps ==
    ASSUME GuardInv, NEW t \in Threads, CheckForRemove(t)
    PROVE  GuardInv'
<1>1. /\ pc[t] = "remove"
      /\ table' = [table EXCEPT ![hash[t]] = IF Unused(hash[t]) THEN NoItem ELSE @]
      /\ pc' = [pc EXCEPT ![t] = "out"]
      /\ hash' = [hash EXCEPT ![t] = NoHash]
      /\ UNCHANGED <<refs, owner, item>>
  BY DEF CheckForRemove, Removable
<1>2. hash[t] \in Hashes /\ item[t] = NoItem
  BY <1>1 DEF GuardInv, OutOfUse
<1>3. /\ TableInjective'
      /\ \A s \in Threads : pc[s] \in {"lock", "held"} => table'[hash[s]] = item[s]
      /\ table'[hash[t]] # NoItem => Users(table[hash[t]]) # {}
      /\ table' \in [Hashes -> MaybeItem]
  BY <1>1, <1>2, EraseKeeps
<1>4. \A i : Users(i)' = Users(i)
  BY <1>1 DEF GuardInv, GuardTypeOK, Users
<1>5. GuardTypeOK'
  BY <1>1, <1>3 DEF GuardInv, GuardTypeOK, Places
<1>6. RefsCountUsers'
  BY <1>1, <1>4 DEF GuardInv, RefsCountUsers
<1>7. UsedIsInTable'
  BY <1>1, <1>3 DEF GuardInv, GuardTypeOK, UsedIsInTable
<1>8. OwnerHolds'
  BY <1>1 DEF GuardInv, GuardTypeOK, OwnerHolds
<1>9. OutOfUse'
  BY <1>1, <1>2 DEF GuardInv, GuardTypeOK, OutOfUse
<1>10. UnusedIsLeaving'
  <2>. SUFFICES ASSUME NEW g \in Hashes, table'[g] # NoItem
                PROVE  \/ Users(table[g])' # {}
                       \/ \E s \in Threads : pc'[s] \in {"unlock", "remove"} /\ hash'[s] = g
    BY DEF UnusedIsLeaving
  <2>1. table'[g] = table[g]
    BY <1>1, <1>2 DEF GuardInv, GuardTypeOK
  <2>2. CASE g = hash[t]
    BY <2>1, <2>2, <1>3, <1>4
  <2>3. CASE g # hash[t]
    BY <2>1, <2>3, <1>1, <1>4 DEF GuardInv, GuardTypeOK, UnusedIsLeaving
  <2>. QED
    BY <2>2, <2>3
<1>. QED
  BY <1>3, <1>5, <1>6, <1>7, <1>8, <1>9, <1>10 DEF GuardInv

\* A request for a lock that fails leaves no item behind.
LEMMA GetThrowsKeeps ==
    ASSUME GuardInv, NEW t \in Threads, NEW h \in Hashes, GetHashLockThrows(t, h)
    PROVE  GuardInv'
<1>1. /\ table' = [table EXCEPT ![h] = IF Unused(h) THEN NoItem ELSE @]
      /\ UNCHANGED <<refs, owner, pc, hash, item>>
  BY DEF GetHashLockThrows
<1>2. /\ TableInjective'
      /\ \A s \in Threads : pc[s] \in {"lock", "held"} => table'[hash[s]] = item[s]
      /\ table'[h] # NoItem => Users(table[h]) # {}
      /\ table' \in [Hashes -> MaybeItem]
  BY <1>1, EraseKeeps
<1>3. \A i : Users(i)' = Users(i)
  BY <1>1 DEF Users
<1>4. GuardTypeOK' /\ RefsCountUsers' /\ UsedIsInTable' /\ OwnerHolds' /\ OutOfUse'
  BY <1>1, <1>2, <1>3 DEF GuardInv, GuardTypeOK, RefsCountUsers, UsedIsInTable, OwnerHolds, OutOfUse
<1>5. UnusedIsLeaving'
  <2>. SUFFICES ASSUME NEW g \in Hashes, table'[g] # NoItem
                PROVE  \/ Users(table[g])' # {}
                       \/ \E s \in Threads : pc[s] \in {"unlock", "remove"} /\ hash[s] = g
    BY <1>1 DEF UnusedIsLeaving
  <2>1. table'[g] = table[g]
    BY <1>1 DEF GuardInv, GuardTypeOK
  <2>. QED
    BY <2>1, <1>2, <1>3 DEF GuardInv, UnusedIsLeaving
<1>. QED
  BY <1>2, <1>4, <1>5 DEF GuardInv

\* A new process has a new guard.
LEMMA CrashKeeps == Crash => GuardInv'
<1>. SUFFICES ASSUME Crash PROVE GuardInv'
  OBVIOUS
<1>1. /\ table' = [h \in Hashes |-> NoItem]
      /\ refs' = [i \in Items |-> 0]
      /\ owner' = [i \in Items |-> {}]
      /\ pc' = [t \in Threads |-> "out"]
      /\ item' = [t \in Threads |-> NoItem]
      /\ hash' = [t \in Threads |-> NoHash]
  BY DEF Crash
<1>2. \A i \in Items : Users(i)' = {}
  BY <1>1 DEF Users
<1>3. RefsCountUsers'
  BY <1>1, <1>2, FS_EmptySet DEF RefsCountUsers
<1>. QED
  BY <1>1, <1>3, GuardAssumption DEF GuardInv, GuardTypeOK, MaybeItem, Places, TableInjective,
     UsedIsInTable, OwnerHolds, OutOfUse, UnusedIsLeaving

\* Users of one hash have one item, and an item has one owner.
LEMMA InvExcludes == GuardInv => MutualExclusion /\ TableClean
<1>. SUFFICES ASSUME GuardInv PROVE MutualExclusion /\ TableClean
  OBVIOUS
<1>1. MutualExclusion
  BY DEF GuardInv, UsedIsInTable, OwnerHolds, MutualExclusion
<1>2. TableClean
  BY DEF GuardInv, UnusedIsLeaving, Users, TableClean
<1>. QED
  BY <1>1, <1>2

\* Whatever a load does to the guard is a step of the guard.
LEMMA LoadsUseGuard ==
    ASSUME GuardInv, [CacheNext]_vars
    PROVE  GuardInv'
<1>1. CASE UNCHANGED guard
  BY <1>1 DEF guard, GuardInv, GuardTypeOK, TableInjective, RefsCountUsers, Users, UsedIsInTable,
     OwnerHolds, OutOfUse, UnusedIsLeaving
<1>2. ASSUME NEW t \in Threads, LoadStep(t) PROVE GuardInv'
  <2>1. CASE Guarding(t)
    BY <2>1, LockKeeps, UnlockKeeps, CheckKeeps DEF Guarding
  <2>2. CASE Finish(t)
    BY <2>2, <1>1, DecrementKeeps DEF Finish
  <2>3. CASE \/ Probe(t) \/ Import(t) \/ ImportThrows(t) \/ Remove(t)
             \/ ReadNetwork(t) \/ Compile(t) \/ CompileThrows(t)
             \/ Open(t) \/ OpenFails(t) \/ WriteHeader(t) \/ Export(t) \/ ExportThrows(t)
    BY <2>3, <1>1 DEF Probe, Import, ImportThrows, Remove, ReadNetwork, Compile, CompileThrows,
       Open, OpenFails, WriteHeader, Export, ExportThrows
  <2>. QED
    BY <1>2, <2>1, <2>2, <2>3 DEF LoadStep
<1>3. ASSUME NEW t \in Threads, NEW k \in Hashes, LoadNetwork(t, k) \/ LoadNetworkThrows(t, k)
      PROVE  GuardInv'
  BY <1>1, <1>3, GetKeeps, GetThrowsKeeps DEF LoadNetwork, LoadNetworkThrows
<1>4. ASSUME NEW d \in Dirs \cup {None}, SetConfig(d) PROVE GuardInv'
  BY <1>1, <1>4 DEF SetConfig
<1>5. ASSUME NEW v \in Versions, Edit(v) PROVE GuardInv'
  BY <1>1, <1>5 DEF Edit
<1>6. CASE UNCHANGED vars
  BY <1>1, <1>6 DEF vars
<1>. QED
  BY <1>2, <1>3, <1>4, <1>5, <1>6, CrashKeeps DEF CacheNext

\* The guard by itself, used in any order its interface allows, is correct.
THEOREM GuardAlone == GuardSpec => [](MutualExclusion /\ TableClean)
<1>1. GuardInv /\ [\E t \in Threads : GuardStep(t)]_guard => GuardInv'
  <2>1. ASSUME GuardInv, NEW t \in Threads, GuardStep(t) PROVE GuardInv'
    BY <2>1, GetKeeps, GetThrowsKeeps, LockKeeps, DecrementKeeps, UnlockKeeps, CheckKeeps DEF GuardStep
  <2>2. GuardInv /\ UNCHANGED guard => GuardInv'
    BY DEF guard, GuardInv, GuardTypeOK, TableInjective, RefsCountUsers, Users, UsedIsInTable,
       OwnerHolds, OutOfUse, UnusedIsLeaving
  <2>. QED
    BY <2>1, <2>2
<1>. QED
  BY <1>1, GuardStarts, InvExcludes, PTL DEF GuardSpec

\* The inductive invariant holds of every run of the loads.
THEOREM GuardInvariance == CacheSpec => []GuardInv
<1>1. CacheInit => GuardInv
  BY GuardStarts DEF CacheInit
<1>2. GuardInv /\ [CacheNext]_vars => GuardInv'
  BY LoadsUseGuard
<1>. QED
  BY <1>1, <1>2, PTL DEF CacheSpec

\* Of all threads that were given the lock of a hash one has it, although the mutex
\* of the hash may have been thrown away and made again any number of times.
THEOREM LockIsExclusive == CacheSpec => []MutualExclusion
BY GuardInvariance, InvExcludes, PTL

\* The table of the guard is empty whenever no load is under way.
THEOREM TableDoesNotLeak == CacheSpec => []TableClean
BY GuardInvariance, InvExcludes, PTL
=============================================================================
