-------------------------- MODULE ModelCacheProofs --------------------------
(***************************************************************************)
(* For any number of threads, networks and cache directories,              *)
(* reconfigurations and crashes, nobody writes under a load that imports   *)
(* or compiles, and no load imports a blob of another network; the latter  *)
(* alone needs that the model file does not change under a load that       *)
(* compiles it.                                                            *)
(*                                                                         *)
(* The argument: from its probe to its last write a load holds the lock of *)
(* its key, so that nobody else touches the files of that key, in          *)
(* whichever directory; what the header of a file says is therefore what   *)
(* its writer compiled, and what a reader compared is what it imports.     *)
(***************************************************************************)
EXTENDS CacheGuardProofs

Reading == {"import", "remove"}
Writing == {"open", "header", "export"}

\* Where a load is, it has what it needs.
PlacedIn(t) ==
    /\ at[t] = "idle" => pc[t] \in {"out", "unlock", "remove"}
    /\ at[t] # "idle" => key[t] \in Hashes
    /\ at[t] # "idle" /\ mgr[t] = None => pc[t] = "out"
    /\ at[t] # "idle" /\ mgr[t] # None => hash[t] = key[t] /\ pc[t] \in {"lock", "held"}
    /\ at[t] \notin {"idle", "probe"} /\ mgr[t] # None => pc[t] = "held"
    /\ at[t] \in Reading \cup Writing \cup {"probe"} => mgr[t] # None
    /\ at[t] \in Writing => wmgr[t] # None
    /\ at[t] \in {"compile", "open", "header"} => net[t] # None
Placed == \A t \in Threads : PlacedIn(t)

\* The steps of a load that may write or remove a file.
Touches(t) ==
    Remove(t) \/ Open(t) \/ OpenFails(t) \/ WriteHeader(t) \/ Export(t) \/ ExportThrows(t)

\* A header that was written tells of the network the blob is exported from.
Honest(e, k) ==
    e # None /\ e.info # None => e.from = (IF k = PathKey THEN e.info ELSE k)
DiskHonest == \A d \in Dirs, k \in Hashes : Honest(disk[d][k], k)

\* What a load knows of the files of its key.
KnowsIn(t) ==
    /\ at[t] \in {"compile", "open", "header"} => net[t] = Network(key[t])
    /\ at[t] = "header" => File(t) = None \/ File(t).from = net[t]
    /\ at[t] = "import" =>
        /\ Entry(t) # None /\ Entry(t).info # None
        /\ net[t] = IF key[t] = PathKey THEN Entry(t).info ELSE key[t]
Knows == \A t \in Threads : KnowsIn(t)

\* What holds of locks and files whatever happens to the model file, and with what
\* holds of contents.
LoadInv == TypeOK /\ GuardInv /\ Placed
CacheInv == LoadInv /\ DiskHonest /\ Knows

\* In the initial states no load is under way and no file exists.
LEMMA CacheStarts == CacheInit => CacheInv
<1>. SUFFICES ASSUME CacheInit PROVE CacheInv
  OBVIOUS
<1>1. GuardInv
  BY GuardStarts DEF CacheInit
<1>2. TypeOK
  BY <1>1, CacheAssumption DEF CacheInit, GuardInv, TypeOK, Stages
<1>3. Placed
  BY DEF CacheInit, Init, Placed, PlacedIn, Reading, Writing
<1>4. DiskHonest
  BY DEF CacheInit, DiskHonest, Honest
<1>5. Knows
  BY DEF CacheInit, Knows, KnowsIn
<1>. QED
  BY <1>1, <1>2, <1>3, <1>4, <1>5 DEF CacheInv, LoadInv

\* The information about a file is never that of no file.
LEMMA InfoIsSome ==
    ASSUME TypeOK, NEW k \in Hashes
    PROVE  FileInfo(k) \in Versions \cup {NoPath} /\ FileInfo(k) # None /\ Network(k) \in Keys
BY CacheAssumption DEF TypeOK, FileInfo, Network, Keys

\* Two loads that hold a lock, or one that holds and one that waits to probe, work
\* on different keys.
LEMMA KeysDiffer ==
    ASSUME LoadInv, NEW s \in Threads, NEW t \in Threads, s # t,
           pc[s] = "held", pc[t] = "held", at[s] # "idle", at[t] # "idle",
           mgr[s] # None, mgr[t] # None
    PROVE  key[s] # key[t]
BY InvExcludes DEF LoadInv, Placed, PlacedIn, MutualExclusion

\* Writing a blob leaves files of blobs.
LEMMA WriteTyped ==
    ASSUME TypeOK, NEW t \in Threads, NEW b \in Blob \cup {None}, Write(t, b)
    PROVE  disk' \in [Dirs -> [Hashes -> Blob \cup {None}]]
BY DEF TypeOK, Write

\* Every variable has its type.
LEMMA TypeKeeps ==
    ASSUME LoadInv, [CacheNext]_vars
    PROVE  TypeOK'
<1>. USE DEF TypeOK, LoadInv
<1>0. GuardTypeOK'
  BY LoadsUseGuard DEF GuardInv
<1>1. ASSUME NEW t \in Threads, LoadStep(t) PROVE TypeOK'
  <2>1. CASE Guarding(t)
    BY <1>0, <2>1 DEF Guarding, files, load, bounds
  <2>2. CASE Finish(t)
    BY <1>0, <2>2 DEF Finish, Return, files, bounds, Stages
  <2>3. CASE Probe(t)
    <3>1. key[t] \in Hashes
      BY <2>3 DEF Probe, Go, Placed, PlacedIn
    <3>2. Network(key[t]) \in Keys
      BY <3>1, InfoIsSome
    <3>. QED
      BY <1>0, <2>3, <3>2 DEF Probe, Go, files, bounds, Stages
  <2>4. CASE ReadNetwork(t)
    <3>1. key[t] \in Hashes
      BY <2>4 DEF ReadNetwork, Go, Placed, PlacedIn
    <3>2. Network(key[t]) \in Keys
      BY <3>1, InfoIsSome
    <3>. QED
      BY <1>0, <2>4, <3>2 DEF ReadNetwork, Go, files, bounds, Stages
  <2>5. CASE Import(t) \/ ImportThrows(t) \/ CompileThrows(t)
    BY <1>0, <2>5 DEF Import, ImportThrows, CompileThrows, Go, files, bounds, Stages
  <2>6. CASE Compile(t)
    BY <1>0, <2>6 DEF Compile, Go, files, bounds, Stages
  <2>7. CASE Remove(t)
    BY <1>0, <2>7 DEF Remove, Go, bounds, Stages
  <2>8. CASE Open(t)
    <3>1. key[t] \in Hashes /\ net[t] \in Keys
      BY <2>8 DEF Open, Go, Placed, PlacedIn, Writing
    <3>2. [info |-> None, from |-> net[t], whole |-> FALSE] \in Blob
      BY <3>1 DEF Blob
    <3>3. disk' \in [Dirs -> [Hashes -> Blob \cup {None}]]
      BY <2>8, <3>2, WriteTyped DEF Open
    <3>. QED
      BY <1>0, <2>8, <3>3 DEF Open, Go, bounds, Stages
  <2>9. CASE WriteHeader(t)
    <3>1. key[t] \in Hashes /\ wmgr[t] \in Dirs
      BY <2>9 DEF WriteHeader, Go, Placed, PlacedIn, Writing
    <3>2. File(t) # None => [File(t) EXCEPT !.info = FileInfo(key[t])] \in Blob
      BY <3>1, InfoIsSome DEF Blob, File
    <3>3. disk' \in [Dirs -> [Hashes -> Blob \cup {None}]]
      BY <2>9, <3>2, WriteTyped DEF WriteHeader
    <3>. QED
      BY <1>0, <2>9, <3>3 DEF WriteHeader, Go, bounds, Stages
  <2>10. CASE Export(t)
    <3>1. key[t] \in Hashes /\ wmgr[t] \in Dirs
      BY <2>10 DEF Export, Go, Placed, PlacedIn, Writing
    <3>2. File(t) \in Blob \cup {None}
      BY <3>1 DEF File
    <3>3. File(t) # None => [File(t) EXCEPT !.whole = TRUE] \in Blob
      BY <3>2 DEF Blob
    <3>4. disk' \in [Dirs -> [Hashes -> Blob \cup {None}]]
      BY <2>10, <3>3, WriteTyped DEF Export
    <3>. QED
      BY <1>0, <2>10, <3>4 DEF Export, Go, bounds, Stages
  <2>11. CASE ExportThrows(t) \/ OpenFails(t)
    <3>1. disk' \in [Dirs -> [Hashes -> Blob \cup {None}]]
      BY <2>11, WriteTyped DEF ExportThrows, OpenFails, Discard
    <3>. QED
      BY <1>0, <2>11, <3>1 DEF ExportThrows, OpenFails, Go, bounds, Stages
  <2>. QED
    BY <1>1, <2>1, <2>2, <2>3, <2>4, <2>5, <2>6, <2>7, <2>8, <2>9, <2>10, <2>11 DEF LoadStep
<1>2. ASSUME NEW t \in Threads, NEW k \in Hashes, LoadNetwork(t, k) PROVE TypeOK'
  BY <1>0, <1>2 DEF LoadNetwork, Go, files, Stages
<1>3. ASSUME NEW t \in Threads, NEW k \in Hashes, LoadNetworkThrows(t, k) PROVE TypeOK'
  BY <1>0, <1>3 DEF LoadNetworkThrows, files, load, bounds
<1>4. ASSUME NEW d \in Dirs \cup {None}, SetConfig(d) PROVE TypeOK'
  BY <1>0, <1>4 DEF SetConfig, files, load
<1>5. ASSUME NEW v \in Versions, Edit(v) PROVE TypeOK'
  BY <1>0, <1>5 DEF Edit, load, bounds
<1>6. CASE Crash
  BY <1>0, <1>6 DEF Crash, files, Stages
<1>7. CASE UNCHANGED vars
  BY <1>0, <1>7 DEF vars, files, load, bounds
<1>. QED
  BY <1>1, <1>2, <1>3, <1>4, <1>5, <1>6, <1>7 DEF CacheNext

\* A load keeps its lock until it returns, and others leave it alone.
LEMMA PlacedKeeps ==
    ASSUME LoadInv, [CacheNext]_vars
    PROVE  Placed'
<1>. USE DEF Placed, PlacedIn, TypeOK, GuardTypeOK, LoadInv, Reading, Writing
<1>1. ASSUME NEW t \in Threads, LoadStep(t) PROVE Placed'
  <2>1. CASE Guarding(t)
    BY <2>1 DEF Guarding, PerformLock, Unlock, CheckForRemove, load
  <2>2. CASE Finish(t)
    BY <2>2 DEF Finish, Return, Decrement, guard
  <2>3. CASE Probe(t)
    BY <2>3 DEF Probe, Go, guard
  <2>4. CASE Import(t) \/ ImportThrows(t) \/ Remove(t) \/ CompileThrows(t)
    BY <2>4 DEF Import, ImportThrows, Remove, CompileThrows, Go, guard
  <2>5. CASE Compile(t)
    BY <2>5 DEF Compile, Go, guard
  <2>6. CASE Open(t) \/ OpenFails(t) \/ WriteHeader(t) \/ Export(t) \/ ExportThrows(t)
    BY <2>6 DEF Open, OpenFails, WriteHeader, Export, ExportThrows, Go, guard
  <2>7. CASE ReadNetwork(t)
    <3>1. key[t] \in Hashes
      BY <2>7 DEF ReadNetwork, Go
    <3>2. Network(key[t]) \in Keys /\ Network(key[t]) # None
      BY <3>1, InfoIsSome, CacheAssumption
    <3>. QED
      BY <2>7, <3>2 DEF ReadNetwork, Go, guard
  <2>. QED
    BY <1>1, <2>1, <2>2, <2>3, <2>4, <2>5, <2>6, <2>7 DEF LoadStep
<1>2. ASSUME NEW t \in Threads, NEW k \in Hashes, LoadNetwork(t, k) PROVE Placed'
  <2>1. CASE manager # None
    BY <1>2, <2>1 DEF LoadNetwork, GetHashLock, Go
  <2>2. CASE manager = None
    BY <1>2, <2>2 DEF LoadNetwork, Go, guard
  <2>. QED
    BY <2>1, <2>2
<1>3. ASSUME NEW t \in Threads, NEW k \in Hashes, LoadNetworkThrows(t, k) PROVE Placed'
  BY <1>3 DEF LoadNetworkThrows, GetHashLockThrows, load
<1>4. CASE (\E d \in Dirs \cup {None} : SetConfig(d)) \/ (\E v \in Versions : Edit(v)) \/ UNCHANGED vars
  BY <1>4 DEF SetConfig, Edit, vars, guard, load
<1>5. CASE Crash
  BY <1>5 DEF Crash
<1>. QED
  BY <1>1, <1>2, <1>3, <1>4, <1>5 DEF CacheNext

\* What a step of a load may write: the file of its key, in the directory it found or
\* the one it writes to, with the lock of the key held.
LEMMA WritesOwnFile ==
    ASSUME LoadInv, [CacheNext]_vars, NEW d \in Dirs, NEW k \in Hashes,
           disk'[d][k] # disk[d][k]
    PROVE  \E t \in Threads :
            /\ k = key[t] /\ mgr[t] # None /\ pc[t] = "held"
            /\ Touches(t)
<1>. USE DEF LoadInv, TypeOK
<1>1. disk' # disk
  OBVIOUS
<1>2. PICK t \in Threads : Touches(t)
  BY <1>1 DEF Touches, CacheNext, LoadStep, Guarding, Finish, Probe, Import, ImportThrows, ReadNetwork, Compile,
     CompileThrows, LoadNetwork, LoadNetworkThrows, SetConfig, Edit, Crash, files, vars
<1>3. at[t] \in Reading \cup Writing
  BY <1>2 DEF Touches, Remove, Open, OpenFails, WriteHeader, Export, ExportThrows, Go, Reading, Writing
<1>4. mgr[t] # None /\ pc[t] = "held" /\ key[t] \in Hashes
  BY <1>3 DEF Placed, PlacedIn, Reading, Writing
<1>5. \E e \in Dirs \cup {None} : \A x \in Dirs, y \in Hashes :
        disk'[x][y] # disk[x][y] => x = e /\ y = key[t]
  <2>1. CASE Remove(t)
    BY <1>4, <2>1 DEF Remove
  <2>2. CASE Open(t)
    BY <1>4, <2>2 DEF Open, Write
  <2>3. CASE WriteHeader(t)
    BY <1>4, <2>3 DEF WriteHeader, Write
  <2>4. CASE Export(t)
    BY <1>4, <2>4 DEF Export, Write
  <2>5. CASE ExportThrows(t) \/ OpenFails(t)
    BY <1>4, <2>5 DEF ExportThrows, OpenFails, Discard, Write
  <2>. QED
    BY <1>2, <2>1, <2>2, <2>3, <2>4, <2>5 DEF Touches
<1>6. k = key[t]
  BY <1>5
<1>. QED
  BY <1>2, <1>4, <1>6

\* Nobody writes a file of the key of a load that holds its lock, but that load.
LEMMA OthersStay ==
    ASSUME LoadInv, [CacheNext]_vars, NEW t \in Threads, NEW d \in Dirs,
           at[t] # "idle", mgr[t] # None, pc[t] = "held",
           disk'[d][key[t]] # disk[d][key[t]]
    PROVE  Touches(t)
<1>1. key[t] \in Hashes
  BY DEF LoadInv, Placed, PlacedIn
<1>2. PICK s \in Threads :
        /\ key[t] = key[s] /\ mgr[s] # None /\ pc[s] = "held"
        /\ Touches(s)
  BY <1>1, WritesOwnFile
<1>3. at[s] # "idle"
  BY <1>2 DEF Touches, Remove, Open, OpenFails, WriteHeader, Export, ExportThrows, Go
<1>. QED
  BY <1>2, <1>3, KeysDiffer

\* A header is written only to a file that was compiled from what it tells of.
LEMMA HonestKeeps ==
    ASSUME CacheInv, [CacheNext]_vars
    PROVE  DiskHonest'
<1>. SUFFICES ASSUME NEW d \in Dirs, NEW k \in Hashes, disk'[d][k] # disk[d][k]
              PROVE  Honest(disk'[d][k], k)
  BY DEF CacheInv, DiskHonest, Honest
<1>. USE DEF CacheInv, LoadInv, TypeOK
<1>1. PICK t \in Threads :
        /\ k = key[t] /\ mgr[t] # None /\ pc[t] = "held"
        /\ Touches(t)
  BY WritesOwnFile
<1>2. Honest(disk[d][k], k)
  BY DEF DiskHonest
<1>3. CASE Remove(t)
  BY <1>1, <1>3 DEF Remove, Honest
<1>4. CASE Open(t)
  BY <1>1, <1>4 DEF Open, Write, Honest
<1>5. CASE WriteHeader(t)
  <2>1. at[t] = "header" /\ wmgr[t] = d /\ File(t) # None
    BY <1>1, <1>5 DEF WriteHeader, Go, Write
  <2>2. File(t) \in Blob /\ File(t).from = Network(key[t])
    BY <1>1, <2>1 DEF Knows, KnowsIn, File
  <2>3. disk'[d][k] = [File(t) EXCEPT !.info = FileInfo(k)]
    BY <1>1, <1>5, <2>1 DEF WriteHeader, Write
  <2>4. disk'[d][k].info = FileInfo(k) /\ disk'[d][k].from = Network(k)
    BY <1>1, <2>2, <2>3 DEF Blob
  <2>. QED
    BY <2>4 DEF Honest, FileInfo, Network
<1>6. CASE Export(t)
  <2>1. wmgr[t] = d /\ File(t) # None /\ disk'[d][k] = [File(t) EXCEPT !.whole = TRUE]
    BY <1>1, <1>6 DEF Export, Write
  <2>2. File(t) \in Blob /\ File(t) = disk[d][k]
    BY <1>1, <2>1 DEF File
  <2>3. disk'[d][k].info = File(t).info /\ disk'[d][k].from = File(t).from
    BY <2>1, <2>2 DEF Blob
  <2>. QED
    BY <1>2, <2>1, <2>2, <2>3 DEF Honest
<1>7. CASE ExportThrows(t) \/ OpenFails(t)
  BY <1>1, <1>7 DEF ExportThrows, OpenFails, Discard, Write, Honest
<1>. QED
  BY <1>1, <1>3, <1>4, <1>5, <1>6, <1>7 DEF Touches

\* What a load knows is not disturbed by a step that is not its own.
LEMMA KnowsStays ==
    ASSUME CacheInv, [CacheNext]_vars, NEW s \in Threads,
           at'[s] = at[s], key'[s] = key[s], mgr'[s] = mgr[s], wmgr'[s] = wmgr[s], net'[s] = net[s],
           ~Touches(s),
           at[s] \in {"compile", "open", "header"} => model' = model
    PROVE  KnowsIn(s)'
<1>. USE DEF CacheInv, LoadInv, TypeOK
<1>0. KnowsIn(s) /\ PlacedIn(s)
  BY DEF Knows, Placed
<1>1. ASSUME NEW d \in Dirs, at[s] # "idle", mgr[s] # None, pc[s] = "held"
      PROVE  disk'[d][key[s]] = disk[d][key[s]]
  BY <1>1, OthersStay
<1>2. at'[s] \in {"compile", "open", "header"} => net'[s] = Network(key[s])'
  BY <1>0 DEF KnowsIn, Network
<1>3. at'[s] = "header" => File(s)' = None \/ File(s)'.from = net'[s]
  BY <1>0, <1>1 DEF KnowsIn, PlacedIn, File, Writing
<1>4. at'[s] = "import" => Entry(s)' = Entry(s)
  BY <1>0, <1>1 DEF PlacedIn, Entry, Reading
<1>. QED
  BY <1>0, <1>2, <1>3, <1>4 DEF KnowsIn

\* A step of a load teaches it what it has to know.
LEMMA KnowsOwn ==
    ASSUME CacheInv, [CacheNext]_vars, NEW s \in Threads, LoadStep(s)
    PROVE  KnowsIn(s)'
<1>. USE DEF CacheInv, LoadInv, TypeOK
<1>0. KnowsIn(s) /\ PlacedIn(s)
  BY DEF Knows, Placed
<1>1. CASE Guarding(s)
  BY <1>0, <1>1 DEF Guarding, files, load, KnowsIn, Network, File, Entry
<1>2. CASE Probe(s)
  <2>1. key[s] \in Hashes
    BY <1>0, <1>2 DEF Probe, Go, PlacedIn
  <2>2. /\ at'[s] = IF Entry(s) = None THEN "read" ELSE IF HeaderMatches(s) THEN "import" ELSE "remove"
        /\ net'[s] = Network(key[s])
        /\ Entry(s)' = Entry(s) /\ key'[s] = key[s] /\ mgr'[s] = mgr[s]
    BY <1>2 DEF Probe, Go, files, Entry
  <2>3. HeaderMatches(s) => Entry(s).info # None /\ Network(key[s]) = IF key[s] = PathKey THEN Entry(s).info ELSE key[s]
    BY <2>1, InfoIsSome DEF HeaderMatches, FileInfo, Network
  <2>. QED
    BY <2>2, <2>3 DEF KnowsIn
<1>3. CASE Import(s)
  BY <1>3 DEF Import, Go, KnowsIn
<1>4. CASE ImportThrows(s)
  BY <1>4 DEF ImportThrows, Go, KnowsIn
<1>5. CASE Remove(s)
  BY <1>5 DEF Remove, Go, KnowsIn
<1>6. CASE ReadNetwork(s)
  BY <1>0, <1>6 DEF ReadNetwork, Go, files, KnowsIn, Network, Entry
<1>7. CASE Compile(s)
  BY <1>0, <1>7 DEF Compile, Go, files, KnowsIn, Network, Entry
<1>8. CASE CompileThrows(s)
  BY <1>8 DEF CompileThrows, Go, KnowsIn
<1>9. CASE Open(s)
  <2>1. wmgr[s] \in Dirs /\ key[s] \in Hashes /\ net[s] = Network(key[s])
    BY <1>0, <1>9 DEF Open, Go, PlacedIn, KnowsIn, Writing
  <2>2. at'[s] = "header" /\ net'[s] = net[s] /\ key'[s] = key[s] /\ model' = model
    BY <1>9 DEF Open, Go
  <2>3. File(s)' = None \/ File(s)'.from = net[s]
    BY <1>9, <2>1 DEF Open, Write, File
  <2>. QED
    BY <2>1, <2>2, <2>3 DEF KnowsIn, Network
<1>10. CASE WriteHeader(s)
  BY <1>10 DEF WriteHeader, Go, KnowsIn
<1>11. CASE Export(s) \/ OpenFails(s) \/ ExportThrows(s) \/ Finish(s)
  BY <1>11 DEF Export, OpenFails, ExportThrows, Finish, Return, Go, KnowsIn
<1>. QED
  BY <1>1, <1>2, <1>3, <1>4, <1>5, <1>6, <1>7, <1>8, <1>9, <1>10, <1>11 DEF LoadStep

\* Loads go on knowing what they compared, read and wrote, when the file is left
\* alone while it is compiled.
LEMMA KnowsKeeps ==
    ASSUME CacheInv, [CacheNext]_vars, ~EditsWhileCompiling
    PROVE  Knows'
<1>. SUFFICES ASSUME NEW s \in Threads PROVE KnowsIn(s)'
  BY DEF Knows
<1>. USE DEF CacheInv, LoadInv, TypeOK
<1>1. CASE LoadStep(s)
  BY <1>1, KnowsOwn
<1>2. ASSUME ~LoadStep(s), NEW t \in Threads, LoadStep(t) PROVE KnowsIn(s)'
  <2>1. t # s /\ ~Touches(s)
    BY <1>2 DEF LoadStep, Touches
  <2>2. /\ at'[s] = at[s] /\ key'[s] = key[s] /\ mgr'[s] = mgr[s] /\ wmgr'[s] = wmgr[s] /\ net'[s] = net[s]
        /\ model' = model
    BY <1>2, <2>1 DEF LoadStep, Guarding, Finish, Return, Probe, Import, ImportThrows, Remove, ReadNetwork,
       Compile, CompileThrows, Open, OpenFails, WriteHeader, Export, ExportThrows, Go, load, files
  <2>. QED
    BY <2>1, <2>2, KnowsStays
<1>3. ASSUME ~LoadStep(s), NEW t \in Threads, NEW k \in Hashes, LoadNetwork(t, k) PROVE KnowsIn(s)'
  <2>0. ~Touches(s)
    BY <1>3 DEF LoadStep, Touches
  <2>1. CASE s = t
    <3>1. at'[s] = "probe" \/ (at'[s] = "read" /\ mgr'[s] = None)
      BY <1>3, <2>1 DEF LoadNetwork, Go
    <3>. QED
      BY <3>1 DEF KnowsIn
  <2>2. CASE s # t
    <3>1. /\ at'[s] = at[s] /\ key'[s] = key[s] /\ mgr'[s] = mgr[s] /\ wmgr'[s] = wmgr[s] /\ net'[s] = net[s]
          /\ model' = model
      BY <1>3, <2>2 DEF LoadNetwork, Go, files
    <3>. QED
      BY <3>1, <2>0, KnowsStays
  <2>. QED
    BY <2>1, <2>2
<1>4. ASSUME ~LoadStep(s), NEW v \in Versions, Edit(v) PROVE KnowsIn(s)'
  <2>1. ~Touches(s)
    BY <1>4 DEF LoadStep, Touches
  <2>2. at[s] \notin {"compile", "open", "header"}
    BY <1>4 DEF Edit
  <2>. QED
    BY <1>4, <2>1, <2>2, KnowsStays DEF Edit, load
<1>5. ASSUME ~LoadStep(s),
             \/ \E t \in Threads, k \in Hashes : LoadNetworkThrows(t, k)
             \/ \E d \in Dirs \cup {None} : SetConfig(d)
             \/ UNCHANGED vars
      PROVE  KnowsIn(s)'
  <2>1. ~Touches(s)
    BY <1>5 DEF LoadStep, Touches
  <2>2. UNCHANGED load /\ model' = model
    BY <1>5 DEF LoadNetworkThrows, SetConfig, vars, files
  <2>. QED
    BY <2>1, <2>2, KnowsStays DEF load
<1>6. CASE Crash
  BY <1>6 DEF Crash, KnowsIn
<1>. QED
  BY <1>1, <1>2, <1>3, <1>4, <1>5, <1>6 DEF CacheNext

\* The part of the invariant that asks nothing of the model file: loads hold the locks
\* of their keys, and every variable has its type.
THEOREM LoadInvariance == CacheSpec => []LoadInv
<1>1. CacheInit => LoadInv
  BY CacheStarts DEF CacheInv
<1>2. LoadInv /\ [CacheNext]_vars => LoadInv'
  BY TypeKeeps, LoadsUseGuard, PlacedKeeps DEF LoadInv
<1>. QED
  BY <1>1, <1>2, PTL DEF CacheSpec

\* The inductive invariant of the loads.
THEOREM CacheInvariance ==
    ASSUME ~EditsWhileCompiling
    PROVE  CacheSpec => []CacheInv
<1>1. CacheInv /\ [CacheNext]_vars => CacheInv'
  BY TypeKeeps, LoadsUseGuard, PlacedKeeps, HonestKeeps, KnowsKeeps DEF CacheInv, LoadInv
<1>. QED
  BY <1>1, CacheStarts, PTL DEF CacheSpec

\* A blob that is imported was exported from the network that is loaded.
THEOREM ImportsAreFresh ==
    ASSUME ~EditsWhileCompiling
    PROVE  CacheSpec => ImportedIsFresh
<1>1. CacheInv /\ [CacheNext]_vars =>
        [\A t \in Threads : at[t] = "import" /\ at'[t] = "done" => Entry(t).from = net[t]]_vars
  <2>. SUFFICES ASSUME CacheInv, NEW t \in Threads, at[t] = "import" PROVE Entry(t).from = net[t]
    OBVIOUS
  <2>1. mgr[t] \in Dirs /\ key[t] \in Hashes
    BY DEF CacheInv, LoadInv, TypeOK, Placed, PlacedIn, Reading
  <2>2. Honest(Entry(t), key[t])
    BY <2>1 DEF CacheInv, DiskHonest, Entry
  <2>. QED
    BY <2>2 DEF CacheInv, Knows, KnowsIn, Honest
<1>. QED
  BY <1>1, CacheInvariance, PTL DEF CacheSpec, ImportedIsFresh

\* While a load imports, nobody writes or removes its blob.
THEOREM ReadersAreAlone == CacheSpec => NobodyWritesUnderAReader
<1>1. LoadInv /\ [CacheNext]_vars =>
        [\A t \in Threads : at[t] = "import" /\ at'[t] = "import"
            => disk'[mgr[t]][key[t]] = disk[mgr[t]][key[t]]]_vars
  <2>. SUFFICES ASSUME LoadInv, [CacheNext]_vars, NEW t \in Threads, at[t] = "import", at'[t] = "import"
                PROVE  disk'[mgr[t]][key[t]] = disk[mgr[t]][key[t]]
    OBVIOUS
  <2>1. mgr[t] \in Dirs /\ mgr[t] # None /\ pc[t] = "held"
    BY DEF LoadInv, TypeOK, Placed, PlacedIn, Reading
  <2>2. ~Touches(t)
    BY DEF Touches, Remove, Open, OpenFails, WriteHeader, Export, ExportThrows, Go
  <2>. QED
    BY <2>1, <2>2, OthersStay
<1>. QED
  BY <1>1, LoadInvariance, PTL DEF CacheSpec, NobodyWritesUnderAReader

\* While a load that holds a lock reads and compiles the network, nobody writes or
\* removes a blob of its key, in any directory.
THEOREM OneCompilation == CacheSpec => CompiledOnce
<1>. DEFINE Compiling == {"read", "compile", "open"}
<1>1. LoadInv /\ [CacheNext]_vars =>
        [\A t \in Threads : {at[t], at'[t]} \subseteq {"read", "compile", "open"} /\ mgr[t] # None
            => \A d \in Dirs : disk'[d][key[t]] = disk[d][key[t]]]_vars
  <2>. SUFFICES ASSUME LoadInv, [CacheNext]_vars, NEW t \in Threads, NEW d \in Dirs,
                       at[t] \in Compiling, at'[t] \in Compiling, mgr[t] # None
                PROVE  disk'[d][key[t]] = disk[d][key[t]]
    OBVIOUS
  <2>1. at[t] # "idle" /\ pc[t] = "held"
    BY DEF LoadInv, Placed, PlacedIn
  <2>2. ~Touches(t)
    BY DEF LoadInv, TypeOK, Touches, Remove, Open, OpenFails, WriteHeader, Export, ExportThrows, Go
  <2>. QED
    BY <2>1, <2>2, OthersStay
<1>. QED
  BY <1>1, LoadInvariance, PTL DEF CacheSpec, CompiledOnce

\* The types of all variables, the lock's included, whatever crashes.
THEOREM CacheTypes == CacheSpec => []TypeOK
<1>1. LoadInv => TypeOK
  BY DEF LoadInv
<1>. QED
  BY <1>1, LoadInvariance, PTL
=============================================================================
