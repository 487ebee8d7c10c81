------------------------------ MODULE Library -------------------------------
(***************************************************************************)
(* libomnivm, the library mode: the exported entry points of               *)
(* cmd/libomnivm/main.go that run manifests, the cooperative runs of       *)
(* pkg/manifest/cooperative.go, and the shutdown of pkg/engine/engine.go.  *)
(*                                                                         *)
(* The host's one thread, the Golden Thread, has a stack of entries: guest *)
(* code that an entry runs may enter again.  manifestExecutionMu is not    *)
(* reentrant, so an entry that needs it while it is held by one further    *)
(* down the stack, or by a cooperative run that the host has not finished, *)
(* waits for ever.  A cooperative run is a goroutine whose guest calls     *)
(* queue up for the host, which serves one with every step; other threads  *)
(* may have guest calls of their own in the queue.  Executors are numbered *)
(* as they are made, 0 is nil.                                             *)
(***************************************************************************)
EXTENDS Naturals, Sequences, SequencesExt, FiniteSets

CONSTANTS
  Foreign,   (* threads that are not the Golden Thread                       *)
  MaxExecs,  (* bound: executors made                                        *)
  MaxCalls,  (* bound: guest calls put into the queue                        *)
  MaxEntries (* bound: entries                                               *)

Execs == 1..MaxExecs
Ops == {"run", "load", "call", "submit", "drain", "shutdown", "direct", "task"}

ASSUME LibraryAssumption ==
  /\ Foreign \cap (0..MaxExecs) = {}
  /\ MaxExecs \in Nat /\ MaxCalls \in Nat /\ MaxEntries \in Nat

VARIABLES
  initialized,
  locked,           (* manifestExecutionMu                                   *)
  manifestExecutor, useGoFallback,
  manifestModules,  (* executors of loaded modules                           *)
  coopRuns,         (* cooperative runs without a result yet                 *)
  job,              (* what the goroutine of each cooperative run does       *)
  forsaken,         (* runs whose host task has been cancelled               *)
  queue,            (* taskChan: whose guest calls wait for a step           *)
  foreign,          (* what the other threads do                             *)
  stack,            (* the entries on the Golden Thread                      *)
  handles,          (* executors with live handles                           *)
  made, calls, entries

wiring == <<locked, manifestExecutor, useGoFallback>>
counts == <<made, calls, entries>>
vars == <<initialized, wiring, manifestModules, coopRuns, job, forsaken, queue, foreign,
          stack, handles, counts>>

(* exec: whose manifest the entry executes, 0 for none; caller: whose guest *)
(* call a task is; prev: the executor that was wired before.                *)
Entry == [op : Ops, at : {"locking", "body"}, exec : 0..MaxExecs,
          caller : {0} \cup Execs \cup Foreign, prev : 0..MaxExecs, prevFallback : BOOLEAN]

Init ==
  /\ initialized = TRUE /\ locked = FALSE /\ manifestExecutor = 0 /\ useGoFallback = FALSE
  /\ manifestModules = {} /\ coopRuns = {} /\ job = [x \in Execs |-> "none"]
  /\ forsaken = {} /\ queue = << >> /\ foreign = [f \in Foreign |-> "idle"]
  /\ stack = << >> /\ handles = {} /\ made = 0 /\ calls = 0 /\ entries = 0

Top == Last(stack)
Pop == stack' = Front(stack)
Holding == {"run", "load", "call"}

(* Guest code that may enter the library runs: the host between two steps   *)
(* of its cooperative runs, or code that an entry runs.                     *)
GuestRuns == stack # << >> => Top.at = "body"

(* Executors whose manifest is being executed.                              *)
Running == coopRuns \cup {stack[i].exec : i \in {j \in DOMAIN stack :
                             stack[j].at = "body" /\ stack[j].op \in Holding}}

----------------------------------------------------------------------------
(* Entries                                                                 *)

Begin(op, at, x, caller) ==
  stack' = Append(stack, [op |-> op, at |-> at, exec |-> x, caller |-> caller, prev |-> 0,
                          prevFallback |-> FALSE])

(* OmniRunManifestFile, OmniLoadManifestModule, OmniManifestRunSubmit make  *)
(* an executor; OmniManifestCall names a module, loaded or not; OmniCall    *)
(* needs no lock.                                                           *)
Enter(op) ==
  /\ initialized /\ GuestRuns /\ entries < MaxEntries /\ entries' = entries + 1
  /\ \/ /\ op \in {"run", "load", "submit"} /\ made < MaxExecs /\ made' = made + 1
        /\ Begin(op, "locking", made + 1, 0)
     \/ /\ op = "call" /\ UNCHANGED made
        /\ \E x \in 1..made : Begin(op, "locking", x, 0)
     \/ op = "drain" /\ Begin(op, "locking", 0, 0) /\ UNCHANGED made
     \/ op = "shutdown" /\ stack = << >> /\ Begin(op, "locking", 0, 0) /\ UNCHANGED made
     \/ op = "direct" /\ Begin(op, "body", 0, 0) /\ UNCHANGED made
  /\ UNCHANGED <<initialized, wiring, manifestModules, coopRuns, job, forsaken, queue,
                 foreign, handles, calls>>

Locking(ops) == stack # << >> /\ Top.at = "locking" /\ Top.op \in ops

(* The executor takes the place of the one that was wired, and a call       *)
(* leaves the fallback as it is.                                            *)
Wire(x) == /\ locked' = TRUE /\ manifestExecutor' = x
           /\ useGoFallback' = (useGoFallback \/ Top.op # "call")

Acquire ==
  /\ Locking(Holding) /\ ~locked
  /\ Top.op = "call" => Top.exec \in manifestModules
  /\ Wire(Top.exec)
  /\ stack' = [stack EXCEPT ![Len(stack)] =
                 [@ EXCEPT !.at = "body", !.prev = manifestExecutor,
                           !.prevFallback = useGoFallback]]
  /\ UNCHANGED <<initialized, manifestModules, coopRuns, job, forsaken, queue, foreign,
                 handles, counts>>

(* Mutant: the failing call returns without unlocking.                      *)
CallFailsLocked ==
  /\ Locking({"call"}) /\ ~locked /\ Top.exec \notin manifestModules
  /\ Pop /\ locked' = TRUE
  /\ UNCHANGED <<initialized, manifestExecutor, useGoFallback, manifestModules, coopRuns,
                 job, forsaken, queue, foreign, handles, counts>>

(* OmniManifestCall of a module that is not loaded unlocks and fails.       *)
CallFails ==
  /\ Locking({"call"}) /\ ~locked /\ Top.exec \notin manifestModules
  /\ Pop /\ locked' = FALSE
  /\ UNCHANGED <<initialized, manifestExecutor, useGoFallback, manifestModules, coopRuns,
                 job, forsaken, queue, foreign, handles, counts>>

(* The deferred end of a run, a load or a call: the wiring is put back and  *)
(* the lock released; a load that succeeded keeps its executor.             *)
Leave ==
  /\ stack # << >> /\ Top.at = "body" /\ Top.op \in Holding
  /\ Pop /\ locked' = FALSE /\ manifestExecutor' = Top.prev
  /\ useGoFallback' = IF Top.op = "call" THEN useGoFallback ELSE Top.prevFallback
  /\ IF Top.op = "load"
     THEN manifestModules' \in {manifestModules, manifestModules \cup {Top.exec}}
     ELSE UNCHANGED manifestModules
  /\ UNCHANGED <<initialized, coopRuns, job, forsaken, queue, foreign, handles, counts>>

LeaveDirect ==
  /\ stack # << >> /\ Top.op = "direct" /\ Pop
  /\ UNCHANGED <<initialized, wiring, manifestModules, coopRuns, job, forsaken, queue,
                 foreign, handles, counts>>

(* unloadManifestModulesForWorkerDrain, under the lock.                     *)
Unload == manifestExecutor' = 0 /\ manifestModules' = {} /\ handles' = {}

Drain ==
  /\ Locking({"drain"}) /\ ~locked /\ Pop /\ Unload
  /\ UNCHANGED <<initialized, locked, useGoFallback, coopRuns, job, forsaken, queue,
                 foreign, counts>>

(* OmniShutdown: the drain, then engine.Shutdown.  The dispatcher was never *)
(* started in library mode, so nothing waits for it.                        *)
Shutdown ==
  /\ Locking({"shutdown"}) /\ ~locked /\ Pop /\ Unload /\ initialized' = FALSE
  /\ UNCHANGED <<locked, useGoFallback, coopRuns, job, forsaken, queue, foreign, counts>>

----------------------------------------------------------------------------
(* Cooperative runs                                                        *)

(* Mutant: the lock is released when the run has started.                   *)
SubmitUnlocks ==
  /\ Locking({"submit"}) /\ ~locked /\ Pop
  /\ manifestExecutor' = Top.exec /\ useGoFallback' = TRUE
  /\ coopRuns' = coopRuns \cup {Top.exec} /\ job' = [job EXCEPT ![Top.exec] = "orchestrating"]
  /\ UNCHANGED <<initialized, locked, manifestModules, forsaken, queue, foreign, handles,
                 counts>>

(* OmniManifestRunSubmit keeps the lock until OmniManifestRunResult.        *)
Submit ==
  /\ Locking({"submit"}) /\ ~locked /\ Wire(Top.exec) /\ Pop
  /\ coopRuns' = coopRuns \cup {Top.exec} /\ job' = [job EXCEPT ![Top.exec] = "orchestrating"]
  /\ UNCHANGED <<initialized, manifestModules, forsaken, queue, foreign, handles, counts>>

(* marshalRT on the goroutine: hostRun queues the call and waits.           *)
HostRun(x) ==
  /\ job[x] = "orchestrating" /\ calls < MaxCalls /\ calls' = calls + 1
  /\ job' = [job EXCEPT ![x] = "calling"] /\ queue' = Append(queue, x)
  /\ UNCHANGED <<initialized, wiring, manifestModules, coopRuns, forsaken, foreign, stack,
                 handles, made, entries>>
Finish(x) ==
  /\ job[x] = "orchestrating" /\ job' = [job EXCEPT ![x] = "over"]
  /\ UNCHANGED <<initialized, wiring, manifestModules, coopRuns, forsaken, queue, foreign,
                 stack, handles, counts>>

(* A thread that calls back is marshalled the same way.                     *)
ForeignCall(f) ==
  /\ initialized /\ foreign[f] = "idle" /\ calls < MaxCalls /\ calls' = calls + 1
  /\ foreign' = [foreign EXCEPT ![f] = "calling"] /\ queue' = Append(queue, f)
  /\ UNCHANGED <<initialized, wiring, manifestModules, coopRuns, job, forsaken, stack,
                 handles, made, entries>>

ServeHead == /\ queue # << >> /\ queue' = Tail(queue) /\ Begin("task", "body", 0, Head(queue))
             /\ UNCHANGED <<initialized, wiring, manifestModules, coopRuns, job, forsaken,
                            foreign, handles, counts>>

(* OmniManifestRunStep with a call to serve; the host loops of pyomnivm     *)
(* step a run until it is done.                                             *)
Step == /\ stack = << >> /\ \E x \in coopRuns \ forsaken : job[x] # "over"
        /\ ServeHead

(* PumpUntil: a blocking run that waits for a goroutine serves the queue.   *)
PumpUntil == /\ stack # << >> /\ Top.at = "body" /\ Top.op \in Holding
             /\ ServeHead

(* Mutant: nobody tells the caller.                                         *)
EndTaskSilently ==
  /\ stack # << >> /\ Top.op = "task" /\ Pop
  /\ UNCHANGED <<initialized, wiring, manifestModules, coopRuns, job, forsaken, queue,
                 foreign, handles, counts>>

EndTask ==
  /\ stack # << >> /\ Top.op = "task" /\ Pop
  /\ IF Top.caller \in Foreign
     THEN foreign' = [foreign EXCEPT ![Top.caller] = "idle"] /\ UNCHANGED job
     ELSE job' = [job EXCEPT ![Top.caller] = "orchestrating"] /\ UNCHANGED foreign
  /\ UNCHANGED <<initialized, wiring, manifestModules, coopRuns, forsaken, queue, handles,
                 counts>>

(* OmniManifestRunResult, once a step has said that the run is done.        *)
Result(x) ==
  /\ stack = << >> /\ x \in coopRuns \ forsaken /\ job[x] = "over"
  /\ coopRuns' = coopRuns \ {x} /\ locked' = FALSE
  /\ manifestExecutor' = 0 /\ useGoFallback' = FALSE
  /\ UNCHANGED <<initialized, manifestModules, job, forsaken, queue, foreign, stack,
                 handles, counts>>

(* The host's task is cancelled between two steps: run_manifest_async has   *)
(* no finally, nobody steps the run again or takes its result.              *)
Forsake(x) ==
  /\ stack = << >> /\ x \in coopRuns \ forsaken /\ forsaken' = forsaken \cup {x}
  /\ UNCHANGED <<initialized, wiring, manifestModules, coopRuns, job, queue, foreign,
                 stack, handles, counts>>

(* Mutant: a drain from another thread does not take the lock.              *)
ForeignDrainUnlocked(f) ==
  /\ initialized /\ foreign[f] = "idle" /\ Unload
  /\ UNCHANGED <<initialized, locked, useGoFallback, coopRuns, job, forsaken, queue,
                 foreign, stack, counts>>

(* OmniDrainWorker checks the process, not the thread.                      *)
ForeignDrain(f) ==
  /\ initialized /\ foreign[f] = "idle" /\ ~locked /\ Unload
  /\ UNCHANGED <<initialized, locked, useGoFallback, coopRuns, job, forsaken, queue,
                 foreign, stack, counts>>

(* A manifest that is being executed registers handles.                     *)
Register(x) ==
  /\ x \in Running \ handles /\ handles' = handles \cup {x}
  /\ UNCHANGED <<initialized, wiring, manifestModules, coopRuns, job, forsaken, queue,
                 foreign, stack, counts>>

HostLoop == Step \/ \E x \in Execs : Result(x)
Ends == Acquire \/ CallFails \/ Leave \/ LeaveDirect \/ Drain \/ Shutdown \/ Submit \/ EndTask
Goroutine(x) == HostRun(x) \/ Finish(x)

Next ==
  \/ \E op \in Ops : Enter(op)
  \/ HostLoop \/ Ends \/ PumpUntil
  \/ \E x \in Execs : Goroutine(x) \/ Forsake(x) \/ Register(x)
  \/ \E f \in Foreign : ForeignCall(f) \/ ForeignDrain(f)

Spec == Init /\ [][Next]_vars

(* Entries end unless they wait for the lock, the goroutine of a run goes   *)
(* on, and the host steps the runs it has not forsaken.                     *)
Fairness == /\ WF_vars(Ends) /\ WF_vars(HostLoop)
            /\ \A x \in Execs : WF_vars(Goroutine(x))

FairSpec == Spec /\ Fairness

----------------------------------------------------------------------------
(* Properties                                                              *)

TypeOK ==
  /\ initialized \in BOOLEAN /\ locked \in BOOLEAN /\ manifestExecutor \in 0..MaxExecs
  /\ useGoFallback \in BOOLEAN /\ manifestModules \subseteq Execs
  /\ coopRuns \subseteq Execs /\ forsaken \subseteq Execs /\ handles \subseteq Execs
  /\ job \in [Execs -> {"none", "orchestrating", "calling", "over"}]
  /\ queue \in Seq(Execs \cup Foreign) /\ foreign \in [Foreign -> {"idle", "calling"}]
  /\ stack \in Seq(Entry)
  /\ made \in 0..MaxExecs /\ calls \in 0..MaxCalls /\ entries \in 0..MaxEntries

(* The lock is held by one manifest at a time and by nobody else, and when  *)
(* it is free the globals are as before: an entry that waits for ever does  *)
(* so for a manifest that has not ended, never for a lock that was lost.    *)
LockIsAccounted ==
  /\ Cardinality(Running) = IF locked THEN 1 ELSE 0
  /\ ~locked => manifestExecutor = 0 /\ ~useGoFallback

(* Guest code of a manifest that calls back into "__manifest" reaches its   *)
(* own executor, however entries, steps and drains interleave.              *)
CodeOf(f) == IF f.op \in Holding THEN f.exec ELSE IF f.caller \in Execs THEN f.caller ELSE 0
CallbacksReachTheirOwn ==
  stack # << >> /\ Top.at = "body" /\ CodeOf(Top) # 0 => manifestExecutor = CodeOf(Top)

(* A drain, from whatever thread, never releases the handles of a manifest  *)
(* that is being executed, and once the library is shut down no manifest is *)
(* being executed and none of their goroutines has guest calls left.        *)
NothingAfterShutdown ==
  ~initialized => Running = {} /\ \A x \in Execs : job[x] \in {"none", "over"}
DrainsSpareRuns == \A x \in Running : x \in handles => x \in handles'
NothingIsCutOff == []NothingAfterShutdown /\ [][DrainsSpareRuns]_vars

(* A cooperative run that the host keeps stepping ends, unless the host     *)
(* itself has entered what needs the lock of a manifest under way.          *)
Stuck == stack # << >> /\ Top.at = "locking" /\ locked
RunsEnd == \A x \in Execs : x \in coopRuns ~> x \notin coopRuns \/ x \in forsaken \/ Stuck
=============================================================================
