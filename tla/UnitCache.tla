----------------------------- MODULE UnitCache ------------------------------
(***************************************************************************)
(* Rust units, compiled once and shared: pkg/rust/toolchain.go and         *)
(* LoadUnit of loader.go.  Several processes, each with goroutines that    *)
(* compile, share a cargo workspace and the artifacts in                   *)
(* /tmp/omnivm-plugins.  A process first builds and loads the support      *)
(* dylib; a build then makes its unit a member of the workspace, compiles  *)
(* all members, publishes the unit's artifact, and takes the member away.  *)
(* A process may die at any place and start again; the support crate's     *)
(* sources may change at any time.                                         *)
(*                                                                         *)
(* A read, write, rename or lock of a file is one step.  What cargo does   *)
(* is external: it reads every member first, relinks the dylib, and stops  *)
(* at a unit that does not compile.  The versions of the crate stand for   *)
(* hashes of its sources, and an edit may give a version back; of          *)
(* Cargo.lock only the members are of interest that cargo has entered      *)
(* there.  Of times of modification only one comparison is made: newer.    *)
(***************************************************************************)
EXTENDS Naturals, Functions, FiniteSets

CONSTANTS
  Procs,
  Threads,       (* goroutines that compile units                           *)
  ProcessOf,     (* the process of each                                     *)
  Units,         (* sources of units                                        *)
  Bad,           (* those that do not compile                               *)
  Nobody,
  CacheMaxArtifacts,
  MaxVersion,    (* bound: different contents of the support crate          *)
  MaxUpsets,     (* bound: deaths of processes and changes of the sources   *)
  MaxBuilds      (* bound: calls of BuildUnit                               *)

ASSUME UnitCacheAssumption ==
  /\ Procs \cap Threads = {} /\ Nobody \notin Procs \cup Threads
  /\ ProcessOf \in [Threads -> Procs] /\ Bad \subseteq Units
  /\ CacheMaxArtifacts \in Nat /\ MaxVersion \in Nat /\ MaxUpsets \in Nat /\ MaxBuilds \in Nat

Agents == Procs \cup Threads
Versions == 0..MaxVersion
Absent == MaxVersion + 1   (* the version of a dylib that is not there       *)

VARIABLES
  sources, lock,    (* the support crate; the members in Cargo.lock         *)
  stamp, dylib,     (* .omnivm-support-src-hash; libomnivm_rs.so            *)
  newer,            (* a source or Cargo.lock was modified after the dylib  *)
  members,          (* units/u*: per key of a member, "part" or "whole"     *)
  cache,            (* the artifacts by their keys, each with the version   *)
                    (* it is linked to and the time of its publication      *)
  clock,            (* the time: how many were published                    *)
  flock,            (* who holds .omnivm-build.flock                        *)
  buildMu, loaded,  (* per process: Toolchain.buildMu; keys of loadedUnits  *)
  hash, support,    (* per process: supportHash; the dylib it has loaded    *)
  forced,           (* per process: ensureSupportDylib forces a rebuild     *)
  sound,            (* history, per process: its start did not fail, nobody *)
                    (* edited the sources since, and it rebuilt the dylib   *)
                    (* or was not deceived                                  *)
  deceived,         (* history: since the last rebuild that was forced, the *)
                    (* sources took contents that pass for built            *)
  at,               (* where each process is in starting, each thread in    *)
                    (* its build                                            *)
  build,            (* per thread: the unit, its key, and the artifact      *)
  outcome,          (* per thread: how its last build ended                 *)
  upsets, builds

fileVars == <<sources, lock, stamp, dylib, newer>>
cacheVars == <<members, cache, clock>>
procVars == <<loaded, hash, support, forced, sound, deceived>>
boundVars == <<upsets, builds>>
unitVars == <<fileVars, cacheVars, flock, buildMu, procVars, at, build, outcome, boundVars>>

(* What a process hashes of the support crate, and the key of an artifact. *)
Hashes == [version : Versions, lock : SUBSET Units]
Key(p, u) == [unit |-> u, hash |-> hash[p]]

InCache(k) == k \in DOMAIN cache
NoBuild == << >>
Current == [version |-> sources, lock |-> lock]
Goto(a, place) == at' = [at EXCEPT ![a] = place]
With(f, k, v) == [j \in DOMAIN f \cup {k} |-> IF j = k THEN v ELSE f[j]]
Without(f, k) == [j \in DOMAIN f \ {k} |-> f[j]]

(* The sources are to be v, the dylib is of others, and what ensureSupport-*)
(* Dylib looks at does not say so: there is no stamp and no file is newer  *)
(* than the dylib, or the stamp is of v, or that of a build that goes on   *)
(* will be.                                                                *)
Disguised(v, fresh) ==
  /\ dylib \notin {v, Absent}
  /\ \/ stamp = {} /\ ~fresh
     \/ \E h \in stamp : h.version = v
     \/ \E p \in Procs : /\ hash[p].version = v
                         /\ at[p] = "link" \/ (at[p] = "compile" /\ ~forced[p])

(* The workspace is as it was last left, or comes prebuilt: with or without*)
(* a stamp, which need not be of the dylib, and with files of any age.     *)
UnitInit ==
  /\ sources \in Versions /\ lock \subseteq Units /\ dylib \in Versions \cup {Absent}
  /\ stamp \in {{}} \cup {{h} : h \in Hashes} /\ newer \in BOOLEAN
  /\ members = << >> /\ cache = << >> /\ clock = 0
  /\ flock = Nobody /\ buildMu = [p \in Procs |-> Nobody]
  /\ loaded = [p \in Procs |-> {}] /\ hash = [p \in Procs |-> Current]
  /\ support = [p \in Procs |-> Absent] /\ forced = [p \in Procs |-> FALSE]
  /\ sound = [p \in Procs |-> FALSE]
  /\ at = [a \in Agents |-> IF a \in Procs THEN "down" ELSE "idle"]
  /\ deceived = Disguised(sources, newer)
  /\ build = [t \in Threads |-> NoBuild]
  /\ outcome = [t \in Threads |-> "none"]
  /\ upsets = 0 /\ builds = 0

----------------------------------------------------------------------------
(* Cargo, as the holder of the lock runs it                                *)

Partial == \E k \in DOMAIN members : members[k] = "part"
Rejected == \E k \in DOMAIN members : k.unit \in Bad

Forced(a) == a \in Procs /\ forced[a]

(* cargo build --release --workspace.  A member without its manifest or    *)
(* source fails at once.  That the dylib is of other sources cargo may     *)
(* miss, unless its fingerprints were removed.                             *)
CompileAll(a) ==
  /\ at[a] = "compile"
  /\ \/ /\ Partial
        /\ Goto(a, "failed")
        /\ UNCHANGED <<lock, dylib, newer>>
     \/ /\ ~Partial
        /\ lock' = {k.unit : k \in DOMAIN members}
        /\ newer' = (newer \/ lock' # lock)
        /\ \/ /\ ~Forced(a) /\ dylib # Absent
              /\ Goto(a, "link")
              /\ UNCHANGED dylib
           \/ /\ Forced(a) \/ newer \/ dylib # sources
              /\ dylib' = Absent
              /\ Goto(a, "relink")
  /\ UNCHANGED <<sources, stamp, cacheVars, flock, buildMu, procVars, build, outcome, boundVars>>

Relink(a) ==
  /\ at[a] = "relink"
  /\ dylib' = sources
  /\ newer' = FALSE
  /\ Goto(a, "link")
  /\ UNCHANGED <<sources, lock, stamp, cacheVars, flock, buildMu, procVars, build, outcome, boundVars>>

----------------------------------------------------------------------------
(* A process starts: GetToolchain and GetSupport, each once                *)

(* ensureSupportDylib hashes the sources before it has the lock.           *)
HashSources(p) ==
  /\ at[p] = "down"
  /\ hash' = [hash EXCEPT ![p] = Current]
  /\ sound' = [sound EXCEPT ![p] = TRUE]
  /\ Goto(p, "hashed")
  /\ UNCHANGED <<fileVars, cacheVars, flock, buildMu, loaded, support, forced, deceived, build, outcome, boundVars>>

(* Without a stamp, only the times of modification decide.                 *)
LockSupport(p) ==
  /\ at[p] = "hashed" /\ flock = Nobody
  /\ flock' = p
  /\ forced' = [forced EXCEPT ![p] = IF stamp = {} THEN newer \/ dylib = Absent
                                                ELSE stamp # {hash[p]}]
  /\ sound' = [sound EXCEPT ![p] = @ /\ (forced'[p] \/ ~deceived)]
  /\ Goto(p, "compile")
  /\ UNCHANGED <<fileVars, cacheVars, buildMu, loaded, hash, support, deceived, build, outcome, boundVars>>

(* Mutant: the stamp is of the sources as they are after the build.        *)
SupportBuiltStampsLate(p) ==
  /\ at[p] \in {"link", "failed"}
  /\ \/ /\ at[p] = "link" /\ ~Rejected
        /\ stamp' = {Current}
        /\ deceived' = (deceived /\ ~(forced[p] /\ sound[p]))
        /\ UNCHANGED sound
     \/ /\ at[p] = "failed" \/ Rejected
        /\ sound' = [sound EXCEPT ![p] = FALSE]
        /\ UNCHANGED <<stamp, deceived>>
  /\ flock' = Nobody
  /\ forced' = [forced EXCEPT ![p] = FALSE]
  /\ Goto(p, "built")
  /\ UNCHANGED <<sources, lock, dylib, newer, cacheVars, buildMu, loaded, hash, support, build, outcome, boundVars>>

(* The stamp is of the sources that were hashed.  After a build that       *)
(* failed the process goes on with the dylib that is there.                *)
SupportBuilt(p) ==
  /\ at[p] \in {"link", "failed"}
  /\ \/ /\ at[p] = "link" /\ ~Rejected
        /\ stamp' = {hash[p]}
        /\ deceived' = (deceived /\ ~(forced[p] /\ sound[p]))
        /\ UNCHANGED sound
     \/ /\ at[p] = "failed" \/ Rejected
        /\ sound' = [sound EXCEPT ![p] = FALSE]
        /\ UNCHANGED <<stamp, deceived>>
  /\ flock' = Nobody
  /\ forced' = [forced EXCEPT ![p] = FALSE]
  /\ Goto(p, "built")
  /\ UNCHANGED <<sources, lock, dylib, newer, cacheVars, buildMu, loaded, hash, support, build, outcome, boundVars>>

(* Both without the lock.  An error of the first use stays: "broken".      *)
HashForKeys(p) ==
  /\ at[p] = "built"
  /\ hash' = [hash EXCEPT ![p] = Current]
  /\ Goto(p, IF dylib = Absent THEN "broken" ELSE "open")
  /\ UNCHANGED <<fileVars, cacheVars, flock, buildMu, loaded, support, forced, sound, deceived, build, outcome,
                 boundVars>>

OpenSupport(p) ==
  /\ at[p] = "open"
  /\ support' = [support EXCEPT ![p] = dylib]
  /\ Goto(p, IF dylib = Absent THEN "broken" ELSE "ready")
  /\ UNCHANGED <<fileVars, cacheVars, flock, buildMu, loaded, hash, forced, sound, deceived, build, outcome,
                 boundVars>>

Start(p) ==
  \/ HashSources(p) \/ LockSupport(p) \/ CompileAll(p) \/ Relink(p)
  \/ SupportBuilt(p) \/ HashForKeys(p) \/ OpenSupport(p)

----------------------------------------------------------------------------
(* A goroutine builds a unit and loads it                                  *)

TheKey(t) == build[t].key

Call(t, u) ==
  /\ at[t] = "idle" /\ at[ProcessOf[t]] = "ready" /\ builds < MaxBuilds
  /\ builds' = builds + 1
  /\ build' = [build EXCEPT ![t] = [key |-> Key(ProcessOf[t], u), version |-> Absent, sound |-> FALSE]]
  /\ outcome' = [outcome EXCEPT ![t] = "none"]
  /\ Goto(t, IF InCache(Key(ProcessOf[t], u)) THEN "load" ELSE "mutex")
  /\ UNCHANGED <<fileVars, cacheVars, flock, buildMu, procVars, upsets>>

(* Each lock is followed by another look for the artifact.                 *)
LockProcess(t) ==
  /\ at[t] = "mutex" /\ buildMu[ProcessOf[t]] = Nobody
  /\ \/ /\ InCache(TheKey(t))
        /\ Goto(t, "load")
        /\ UNCHANGED buildMu
     \/ /\ ~InCache(TheKey(t))
        /\ buildMu' = [buildMu EXCEPT ![ProcessOf[t]] = t]
        /\ Goto(t, "flock")
  /\ UNCHANGED <<fileVars, cacheVars, flock, procVars, build, outcome, boundVars>>

LockWorkspace(t) ==
  /\ at[t] = "flock" /\ flock = Nobody
  /\ \/ /\ InCache(TheKey(t))
        /\ buildMu' = [buildMu EXCEPT ![ProcessOf[t]] = Nobody]
        /\ Goto(t, "load")
        /\ UNCHANGED flock
     \/ /\ ~InCache(TheKey(t))
        /\ flock' = t
        /\ Goto(t, "member")
        /\ UNCHANGED buildMu
  /\ UNCHANGED <<fileVars, cacheVars, procVars, build, outcome, boundVars>>

(* The directory with its manifest, then the source.                       *)
WriteMember(t) ==
  /\ at[t] \in {"member", "source"}
  /\ members' = With(members, TheKey(t), IF at[t] = "member" THEN "part" ELSE "whole")
  /\ Goto(t, IF at[t] = "member" THEN "source" ELSE "compile")
  /\ UNCHANGED <<fileVars, cache, clock, flock, buildMu, procVars, build, outcome, boundVars>>

UnitBuilt(t) ==
  /\ at[t] = "link"
  /\ build' = [build EXCEPT ![t].version = dylib, ![t].sound = sound[ProcessOf[t]]]
  /\ Goto(t, IF Rejected THEN "failed" ELSE "rename")
  /\ UNCHANGED <<fileVars, cacheVars, flock, buildMu, procVars, outcome, boundVars>>

(* The artifact is written beside its place: there is nothing to see of it *)
(* before it is renamed.                                                   *)
Publish(t) ==
  /\ at[t] = "rename"
  /\ clock' = clock + 1
  /\ cache' = With(cache, TheKey(t), [version |-> build[t].version, sound |-> build[t].sound,
                                      mod |-> clock + 1])
  /\ Goto(t, "prune")
  /\ UNCHANGED <<fileVars, members, flock, buildMu, procVars, build, outcome, boundVars>>

IsLoaded(p, k) == k \in loaded[p]

(* The oldest artifacts go that this process has not loaded.               *)
Pruned(p, c) ==
  LET spare == {k \in DOMAIN c : ~IsLoaded(p, k)}
      excess == Cardinality(DOMAIN c) - CacheMaxArtifacts
      gone == {k \in spare : Cardinality({j \in spare : c[j].mod <= c[k].mod}) <= excess}
  IN [k \in DOMAIN c \ gone |-> c[k]]

Prune(t) ==
  /\ at[t] = "prune"
  /\ cache' = Pruned(ProcessOf[t], cache)
  /\ Goto(t, "done")
  /\ UNCHANGED <<fileVars, members, clock, flock, buildMu, procVars, build, outcome, boundVars>>

(* Mutant: a build that fails returns with the lock of the workspace.      *)
EndBuildLocked(t) ==
  /\ at[t] \in {"done", "failed"}
  /\ members' = Without(members, TheKey(t))
  /\ flock' = IF at[t] = "failed" THEN flock ELSE Nobody
  /\ buildMu' = [buildMu EXCEPT ![ProcessOf[t]] = Nobody]
  /\ \/ /\ at[t] = "failed" /\ Goto(t, "idle")
        /\ build' = [build EXCEPT ![t] = NoBuild]
        /\ outcome' = [outcome EXCEPT ![t] = "rejected"]
     \/ /\ at[t] = "done" /\ Goto(t, "load")
        /\ UNCHANGED <<build, outcome>>
  /\ UNCHANGED <<fileVars, cache, clock, procVars, boundVars>>

(* The deferred calls: the member goes, then the locks.                    *)
EndBuild(t) ==
  /\ at[t] \in {"done", "failed"}
  /\ members' = Without(members, TheKey(t))
  /\ flock' = Nobody
  /\ buildMu' = [buildMu EXCEPT ![ProcessOf[t]] = Nobody]
  /\ \/ /\ at[t] = "failed" /\ Goto(t, "idle")
        /\ build' = [build EXCEPT ![t] = NoBuild]
        /\ outcome' = [outcome EXCEPT ![t] = "rejected"]
     \/ /\ at[t] = "done" /\ Goto(t, "load")
        /\ UNCHANGED <<build, outcome>>
  /\ UNCHANGED <<fileVars, cache, clock, procVars, boundVars>>

(* LoadUnit.  A unit whose symbols are of another version of the dylib may *)
(* be refused, or load.                                                    *)
Load(t) ==
  LET p == ProcessOf[t]
      k == TheKey(t)
      End(o) == outcome' = [outcome EXCEPT ![t] = o]
  IN
  /\ at[t] = "load"
  /\ \/ /\ IsLoaded(p, k) /\ End("loaded")
        /\ UNCHANGED loaded
     \/ /\ ~IsLoaded(p, k) /\ ~InCache(k) /\ End("missing")
        /\ UNCHANGED loaded
     \/ /\ ~IsLoaded(p, k) /\ InCache(k) /\ End("loaded")
        /\ loaded' = [loaded EXCEPT ![p] = @ \cup {k}]
     \/ /\ ~IsLoaded(p, k) /\ InCache(k) /\ cache[k].version # support[p] /\ End("refused")
        /\ UNCHANGED loaded
  /\ build' = [build EXCEPT ![t] = NoBuild]
  /\ Goto(t, "idle")
  /\ UNCHANGED <<fileVars, cacheVars, flock, buildMu, hash, support, forced, sound, deceived,
                 boundVars>>

Build(t) ==
  \/ LockProcess(t) \/ LockWorkspace(t) \/ WriteMember(t)
  \/ CompileAll(t) \/ Relink(t) \/ UnitBuilt(t) \/ Publish(t)
  \/ Prune(t) \/ EndBuild(t) \/ Load(t)

----------------------------------------------------------------------------
(* The environment                                                         *)

(* A process dies, and with it its locks.                                  *)
Die(p) ==
  LET its == {p} \cup {t \in Threads : ProcessOf[t] = p} IN
  /\ at[p] # "down" /\ upsets < MaxUpsets
  /\ upsets' = upsets + 1
  /\ at' = [a \in Agents |-> IF a \notin its THEN at[a] ELSE IF a = p THEN "down" ELSE "idle"]
  /\ flock' = IF flock \in its THEN Nobody ELSE flock
  /\ buildMu' = [buildMu EXCEPT ![p] = Nobody]
  /\ loaded' = [loaded EXCEPT ![p] = {}]
  /\ support' = [support EXCEPT ![p] = Absent]
  /\ sound' = [sound EXCEPT ![p] = FALSE]
  /\ outcome' = [t \in Threads |-> IF t \in its THEN "none" ELSE outcome[t]]
  /\ build' = [t \in Threads |-> IF t \in its THEN NoBuild ELSE build[t]]
  /\ forced' = [forced EXCEPT ![p] = FALSE]
  /\ UNCHANGED <<fileVars, cacheVars, hash, deceived, builds>>

(* Somebody edits the support crate, or puts back what was there before;   *)
(* the files need not be newer than the dylib.                             *)
ChangeSources ==
  /\ upsets < MaxUpsets
  /\ upsets' = upsets + 1
  /\ \E v \in Versions \ {sources}, fresh \in BOOLEAN :
       /\ sources' = v
       /\ newer' = fresh
       /\ deceived' = (deceived \/ Disguised(v, fresh))
  /\ sound' = [p \in Procs |-> FALSE]
  /\ UNCHANGED <<lock, stamp, dylib, cacheVars, flock, buildMu, loaded, hash, support, forced,
                 at, build, outcome, builds>>

UnitNext ==
  \/ \E p \in Procs : Start(p) \/ Die(p)
  \/ \E t \in Threads : Build(t) \/ \E u \in Units : Call(t, u)
  \/ ChangeSources

UnitSpec == UnitInit /\ [][UnitNext]_unitVars

(* Processes and goroutines run, and whoever holds a lock gives it back;   *)
(* nothing is assumed of the order in which a lock is given.               *)
UnitFairness ==
  /\ \A p \in Procs : WF_unitVars(Start(p))
  /\ \A t \in Threads : WF_unitVars(Build(t))

UnitFairSpec == UnitSpec /\ UnitFairness

----------------------------------------------------------------------------
(* Properties                                                              *)

Places ==
  {"down", "hashed", "compile", "relink", "link", "failed", "built", "open", "broken", "ready",
   "idle", "mutex", "flock", "member", "source", "rename", "prune", "done", "load"}
InWorkspace == {"member", "source", "compile", "relink", "link", "failed", "rename", "prune", "done"}
Keys == [unit : Units, hash : Hashes]

UnitTypeOK ==
  /\ sources \in Versions /\ lock \subseteq Units
  /\ stamp \subseteq Hashes /\ Cardinality(stamp) <= 1 /\ dylib \in Versions \cup {Absent}
  /\ newer \in BOOLEAN
  /\ DOMAIN members \subseteq Keys /\ Range(members) \subseteq {"part", "whole"}
  /\ DOMAIN cache \subseteq Keys
  /\ flock \in Agents \cup {Nobody} /\ buildMu \in [Procs -> Threads \cup {Nobody}]
  /\ at \in [Agents -> Places]
  /\ outcome \in [Threads -> {"none", "loaded", "rejected", "missing", "refused"}]

(* One agent at a time, of all processes, is in the workspace, and no unit *)
(* is compiled whose artifact is there: whoever waited has looked again.   *)
NobodyBuildsTwice ==
  /\ \A a \in Agents : at[a] \in InWorkspace => flock = a
  /\ \A t \in Threads : at[t] \in InWorkspace \ {"prune", "done", "failed"} => ~InCache(TheKey(t))

(* The member of a process that died in its build.                         *)
Litter == {k \in DOMAIN members : \A t \in Threads : at[t] \in InWorkspace => TheKey(t) # k}
Spoils(k) == members[k] = "part" \/ k.unit \in Bad

(* A process that starts gets the dylib of the sources it has hashed,      *)
(* however starts, builds and deaths interleave: unless its build failed,  *)
(* somebody edited them meanwhile, or it took for built what is Disguised. *)
SupportIsFresh ==
  \A p \in Procs :
    at[p] = "open" /\ at'[p] = "ready" /\ sound[p] => support'[p] = hash[p].version

(* A build fails for its own unit, or for what a dead process has left.    *)
FailuresAreTheirOwn ==
  \A t \in Threads :
    at[t] # "failed" /\ at'[t] = "failed" =>
      TheKey(t).unit \in Bad \/ \E k \in Litter : Spoils(k)

(* A build's own artifact survives its prune, unless nothing else can go.  *)
PruneSparesTheNew ==
  \A t \in Threads :
    at[t] = "prune" /\ at'[t] = "done" /\ ~InCache(TheKey(t))' =>
      \A k \in DOMAIN cache' : IsLoaded(ProcessOf[t], k)

(* What a process loads is of the unit it asked for and linked to the      *)
(* dylib it has loaded, where it and the one that built it started with    *)
(* the dylib of their sources; only a file that is gone is an error.       *)
LoadsFit ==
  \A t \in Threads :
    LET p == ProcessOf[t]
        k == TheKey(t)
    IN
    at[t] = "load" /\ at'[t] = "idle" /\ at'[p] = "ready" =>
      /\ outcome'[t] = "loaded" => k \in loaded'[p]
      /\ \A l \in loaded'[p] \ loaded[p] :
           l = k /\ InCache(k) /\ (sound[p] /\ cache[k].sound => cache[k].version = support[p])
      /\ outcome'[t] = "refused" => InCache(k) /\ ~(sound[p] /\ cache[k].sound)

(* Whoever builds disturbs nobody and is disturbed by nobody, except as    *)
(* said above.                                                             *)
BuildsKeepTheirOwn ==
  /\ [](UnitTypeOK /\ NobodyBuildsTwice)
  /\ [][SupportIsFresh /\ FailuresAreTheirOwn /\ PruneSparesTheNew /\ LoadsFit]_unitVars

(* Every build returns, and every process that starts gets through.        *)
BuildsReturn ==
  /\ \A t \in Threads : (at[t] # "idle") ~> (at[t] = "idle")
  /\ \A p \in Procs : (at[p] = "hashed") ~> (at[p] \in {"ready", "broken", "down"})
=============================================================================
