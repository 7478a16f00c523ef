----------------------------- MODULE ModelCache -----------------------------
(***************************************************************************)
(* The cache of compiled networks: CoreImpl::LoadNetwork,                  *)
(* LoadNetworkFromCache and compile_model_impl                             *)
(* (inference_engine/src/ie_core.cpp), with the files of                   *)
(* FileStorageCacheManager and the locks of CacheGuard, whose steps are    *)
(* interleaved with those of the loads.                                    *)
(*                                                                         *)
(* A key is what a load is looked up by: PathKey for a load of the model   *)
(* file, whose hash is that of its path, and the version of the network    *)
(* itself for a load of a network, whose hash is that of its contents.     *)
(***************************************************************************)
EXTENDS CacheGuard

CONSTANTS
    Versions,           \* contents the model file may have
    PathKey,
    NoPath,             \* the file information of an empty path
    Dirs,               \* cache directories
    None,               \* no directory, no entry, no file information
    EditsWhileCompiling,\* the model file may change under a load that compiles it
    MaxCalls, MaxConfigs, MaxCrashes    \* bounds

Keys == Versions \cup {PathKey}

ASSUME CacheAssumption ==
    /\ Hashes \subseteq Keys
    /\ NoHash = None
    /\ PathKey \notin Versions /\ NoPath \notin Keys
    /\ None \notin Keys \cup Dirs \cup {NoPath}
    /\ EditsWhileCompiling \in BOOLEAN
    /\ {MaxCalls, MaxConfigs, MaxCrashes} \subseteq Nat

VARIABLES
    model,      \* the contents of the model file
    manager,    \* _cacheConfig._cacheManager: its directory
    disk,       \* the files of each directory
    at,         \* where a thread is in LoadNetwork
    key,        \* what it loads
    mgr,        \* cacheManager of LoadNetwork
    wmgr,       \* cacheManager of compile_model_impl
    net,        \* the contents of the model when the load last looked at it
    calls, configs, crashes     \* bounded

files == <<model, disk>>
load == <<at, key, mgr, wmgr, net>>
bounds == <<calls, configs, crashes>>
vars == <<guard, files, manager, load, bounds>>

Stages == {"idle", "probe", "import", "remove", "read", "compile", "open",
           "header", "export", "done"}

\* A blob: its header, the network it was exported from, whether it was exported
\* to the end.
Blob == [info : Versions \cup {NoPath, None}, from : Keys, whole : BOOLEAN]

CacheInit ==
    /\ Init
    /\ model \in Versions
    /\ manager \in Dirs \cup {None}
    /\ disk = [d \in Dirs |-> [k \in Hashes |-> None]]
    /\ at = [t \in Threads |-> "idle"]
    /\ key = [t \in Threads |-> None]
    /\ mgr = [t \in Threads |-> None]
    /\ wmgr = [t \in Threads |-> None]
    /\ net = [t \in Threads |-> None]
    /\ calls = 0 /\ configs = 0 /\ crashes = 0

\* LoadNetwork returned or threw: its locals are gone.
Return(t) ==
    /\ at' = [at EXCEPT ![t] = "idle"]
    /\ key' = [key EXCEPT ![t] = None]
    /\ mgr' = [mgr EXCEPT ![t] = None]
    /\ wmgr' = [wmgr EXCEPT ![t] = None]
    /\ net' = [net EXCEPT ![t] = None]

Go(t, from, to) == at[t] = from /\ at' = [at EXCEPT ![t] = to]

\* The network a load of key k stands for, and the information about the model
\* file that goes into the header: a load of a network has no model path.
Network(k) == IF k = PathKey THEN model ELSE k

\* Mutant: the header tells the hash.
FileInfoIsHash(k) == k

FileInfo(k) == IF k = PathKey THEN model ELSE NoPath

\* LoadNetwork looks at the configuration, computes the hash and asks for its lock.
\* With no cache directory it goes on without.
LoadNetwork(t, k) ==
    /\ at[t] = "idle" /\ pc[t] = "out"
    /\ calls < MaxCalls
    /\ calls' = calls + 1
    /\ \/ manager # None /\ GetHashLock(t, k) /\ Go(t, "idle", "probe")
       \/ manager = None /\ UNCHANGED guard /\ Go(t, "idle", "read")
    /\ mgr' = [mgr EXCEPT ![t] = manager]
    /\ key' = [key EXCEPT ![t] = k]
    /\ UNCHANGED <<files, manager, wmgr, net, configs, crashes>>

LoadNetworkThrows(t, k) ==
    /\ at[t] = "idle"
    /\ manager # None
    /\ GetHashLockThrows(t, k)
    /\ UNCHANGED <<files, manager, load, bounds>>
-----------------------------------------------------------------------------
(* LoadNetworkFromCache.                                                    *)

Entry(t) == disk[mgr[t]][key[t]]

\* Mutant: the file information is not compared.
HeaderAccepted(t) == Entry(t).info # None

\* The header can be read, and the model file is the one it tells of.
HeaderMatches(t) == Entry(t).info = FileInfo(key[t])

Probe(t) ==
    /\ pc[t] = "held"
    /\ Go(t, "probe", IF Entry(t) = None THEN "read"
                      ELSE IF HeaderMatches(t) THEN "import" ELSE "remove")
    /\ net' = [net EXCEPT ![t] = Network(key[t])]
    /\ UNCHANGED <<guard, files, manager, key, mgr, wmgr, bounds>>

Import(t) ==
    /\ Go(t, "import", "done")
    /\ Entry(t).whole
    /\ UNCHANGED <<guard, files, manager, key, mgr, wmgr, net, bounds>>

\* The plugin rejects the blob, a truncated one always.
ImportThrows(t) ==
    /\ Go(t, "import", "remove")
    /\ UNCHANGED <<guard, files, manager, key, mgr, wmgr, net, bounds>>

\* That the file could not be removed is not noticed.
Remove(t) ==
    /\ Go(t, "remove", "read")
    /\ \/ disk' = [disk EXCEPT ![mgr[t]][key[t]] = None]
       \/ UNCHANGED disk
    /\ UNCHANGED <<guard, model, manager, key, mgr, wmgr, net, bounds>>
-----------------------------------------------------------------------------
(* compile_model_impl.                                                      *)

\* Mutant: the lock's scope ends before the compilation.
ReadNetworkUnlocked(t) ==
    /\ Go(t, "read", "compile")
    /\ net' = [net EXCEPT ![t] = Network(key[t])]
    /\ IF mgr[t] = None THEN UNCHANGED guard ELSE Decrement(t)
    /\ UNCHANGED <<files, manager, key, mgr, wmgr, bounds>>

ReadNetwork(t) ==
    /\ Go(t, "read", "compile")
    /\ net' = [net EXCEPT ![t] = Network(key[t])]
    /\ UNCHANGED <<guard, files, manager, key, mgr, wmgr, bounds>>

\* The configuration is looked at again.  A load that took no lock now writes as
\* well, but to the file of an empty blobID, which nobody reads: it is left out.
Compile(t) ==
    /\ Go(t, "compile", IF manager = None \/ mgr[t] = None THEN "done" ELSE "open")
    /\ wmgr' = [wmgr EXCEPT ![t] = manager]
    /\ UNCHANGED <<guard, files, manager, key, mgr, net, bounds>>

\* ReadNetwork or the plugin threw.
CompileThrows(t) ==
    /\ Go(t, "compile", "done")
    /\ UNCHANGED <<guard, files, manager, key, mgr, wmgr, net, bounds>>

File(t) == disk[wmgr[t]][key[t]]
Write(t, blob) == disk' = [disk EXCEPT ![wmgr[t]][key[t]] = blob]

\* The file is removed, or cannot be, which is not noticed.
Discard(t) == Write(t, None) \/ UNCHANGED disk

\* The file is created, or truncated.
Open(t) ==
    /\ Go(t, "open", "header")
    /\ Write(t, [info |-> None, from |-> net[t], whole |-> FALSE])
    /\ UNCHANGED <<guard, model, manager, key, mgr, wmgr, net, bounds>>

\* The stream does not open, which is not noticed: nothing is written, unless the
\* plugin throws when it exports to it and what was there before is removed.
OpenFails(t) ==
    /\ Go(t, "open", "done")
    /\ Discard(t)
    /\ UNCHANGED <<guard, model, manager, key, mgr, wmgr, net, bounds>>

\* What is written may be lost, with everything that follows.
WriteHeader(t) ==
    /\ Go(t, "header", "export")
    /\ \/ File(t) # None /\ Write(t, [File(t) EXCEPT !.info = FileInfo(key[t])])
       \/ UNCHANGED disk
    /\ UNCHANGED <<guard, model, manager, key, mgr, wmgr, net, bounds>>

Export(t) ==
    /\ Go(t, "export", "done")
    /\ \/ File(t) # None /\ File(t).info # None /\ Write(t, [File(t) EXCEPT !.whole = TRUE])
       \/ UNCHANGED disk
    /\ UNCHANGED <<guard, model, manager, key, mgr, wmgr, net, bounds>>

\* The plugin could not export.
ExportThrows(t) ==
    /\ Go(t, "export", "done")
    /\ Discard(t)
    /\ UNCHANGED <<guard, model, manager, key, mgr, wmgr, net, bounds>>

\* The lock goes out of scope, if there is one.
Finish(t) ==
    /\ at[t] = "done"
    /\ IF mgr[t] = None THEN UNCHANGED guard ELSE Decrement(t)
    /\ Return(t)
    /\ UNCHANGED <<files, manager, bounds>>

\* Steps of the guard on the way in and out.
Guarding(t) ==
    /\ PerformLock(t) \/ Unlock(t) \/ CheckForRemove(t)
    /\ UNCHANGED <<files, manager, load, bounds>>
-----------------------------------------------------------------------------
(* The environment.                                                         *)

\* SetConfig with CACHE_DIR.
SetConfig(d) ==
    /\ configs < MaxConfigs
    /\ configs' = configs + 1
    /\ manager' = d
    /\ UNCHANGED <<guard, files, load, calls, crashes>>

\* Somebody replaces the model file.
Edit(v) ==
    /\ model # v
    /\ EditsWhileCompiling \/
       \A t \in Threads : at[t] \notin {"compile", "open", "header"}
    /\ model' = v
    /\ UNCHANGED <<guard, disk, manager, load, bounds>>

\* The process dies, in the middle of a write maybe, and is started again.
Crash ==
    /\ crashes < MaxCrashes
    /\ crashes' = crashes + 1
    /\ table' = [h \in Hashes |-> NoItem]
    /\ refs' = [i \in Items |-> 0]
    /\ owner' = [i \in Items |-> {}]
    /\ pc' = [t \in Threads |-> "out"]
    /\ item' = [t \in Threads |-> NoItem]
    /\ hash' = [t \in Threads |-> NoHash]
    /\ at' = [t \in Threads |-> "idle"]
    /\ key' = [t \in Threads |-> None]
    /\ mgr' = [t \in Threads |-> None]
    /\ wmgr' = [t \in Threads |-> None]
    /\ net' = [t \in Threads |-> None]
    /\ UNCHANGED <<files, manager, calls, configs>>

LoadStep(t) ==
    \/ Guarding(t)
    \/ Probe(t) \/ Import(t) \/ ImportThrows(t) \/ Remove(t)
    \/ ReadNetwork(t) \/ Compile(t) \/ CompileThrows(t)
    \/ Open(t) \/ OpenFails(t) \/ WriteHeader(t) \/ Export(t) \/ ExportThrows(t)
    \/ Finish(t)

CacheNext ==
    \/ \E t \in Threads :
        LoadStep(t) \/ \E k \in Hashes : LoadNetwork(t, k) \/ LoadNetworkThrows(t, k)
    \/ \E d \in Dirs \cup {None} : SetConfig(d)
    \/ \E v \in Versions : Edit(v)
    \/ Crash

CacheSpec == CacheInit /\ [][CacheNext]_vars

\* A thread in LoadNetwork goes on; a mutex that is free is given to somebody.
FairCacheSpec == CacheSpec /\ \A t \in Threads : WF_vars(LoadStep(t))
-----------------------------------------------------------------------------
TypeOK ==
    /\ GuardTypeOK
    /\ model \in Versions
    /\ manager \in Dirs \cup {None}
    /\ disk \in [Dirs -> [Hashes -> Blob \cup {None}]]
    /\ at \in [Threads -> Stages]
    /\ key \in [Threads -> Hashes \cup {None}]
    /\ mgr \in [Threads -> Dirs \cup {None}]
    /\ wmgr \in [Threads -> Dirs \cup {None}]
    /\ net \in [Threads -> Keys \cup {None}]
    /\ {calls, configs, crashes} \subseteq Nat

\* A blob that is imported was compiled from the network that is loaded: for a
\* model file, from the contents it had when its header was compared.
ImportedIsFresh ==
    [][\A t \in Threads :
        at[t] = "import" /\ at'[t] = "done" => Entry(t).from = net[t]]_vars

\* From the comparison of the header to the end of the import nobody else writes or
\* removes the blob, whatever the configuration becomes meanwhile.
NobodyWritesUnderAReader ==
    [][\A t \in Threads :
        at[t] = "import" /\ at'[t] = "import"
            => disk'[mgr[t]][key[t]] = disk[mgr[t]][key[t]]]_vars

\* Two threads never compile for the same entry of the cache: from the moment a load
\* found no blob, or rejected it, to its own write nobody writes or removes a blob of
\* its key, in whichever directory it is going to write.
CompiledOnce ==
    [][\A t \in Threads :
        {at[t], at'[t]} \subseteq {"read", "compile", "open"} /\ mgr[t] # None
            => \A d \in Dirs : disk'[d][key[t]] = disk[d][key[t]]]_vars

\* Each load returns, and gives its lock back, whatever throws.
LoadsReturn ==
    \A t \in Threads : at[t] # "idle" ~> at[t] = "idle" /\ pc[t] = "out"
=============================================================================
