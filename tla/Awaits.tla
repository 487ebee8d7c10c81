------------------------------- MODULE Awaits -------------------------------
(***************************************************************************)
(* Awaiting: the async, await and parallel ops of the manifest executor    *)
(* (pkg/manifest/async.go), and the futures of the Rust guest runtime      *)
(* (runtime/rust/omnivm/src/rt.rs) with the host loop that drives them     *)
(* (pkg/rust/rust.go).                                                     *)
(*                                                                         *)
(* Everything waits on one thread.  An await is a frame of the Golden      *)
(* Thread's stack: it looks for its result, lets the reactors run, and     *)
(* looks again until its deadline; whatever the reactors run may call back *)
(* and await in turn, on top of it.  Tasks are numbered as they are made.  *)
(* A Python or JavaScript task reports through global variables of its     *)
(* runtime: a done flag and a result.  These all manifests of the process  *)
(* share, though each has an executor of its own; one at a time runs, and  *)
(* keeps manifestExecutionMu until its op is done.  A Rust task is held in *)
(* a table by its await handle, and its bridge calls wait in OUTBOUND      *)
(* until a drive or a pump hands them to the host; a task has one call at  *)
(* a time, so the call is named by the task.                               *)
(*                                                                         *)
(* abandoned and got are history variables.                                *)
(***************************************************************************)
EXTENDS Naturals, Sequences, SequencesExt, FiniteSets

CONSTANTS
  Loops,     (* the runtimes with an event loop: "python", "javascript"      *)
  Manifests, (* runs and loaded modules, each with an Executor              *)
  Executors, (* modes of the Rust executor: "current", "multi"               *)
  MaxTasks,  (* bound: tasks                                                 *)
  MaxBegun,  (* bound: ops begun                                             *)
  MaxDepth   (* bound: frames on the stack                                   *)

Ids == 1..MaxTasks
RustKinds == {"local", "background", "spawned", "blocking"}

ASSUME AwaitsAssumption ==
  /\ Loops \subseteq {"python", "javascript"}
  /\ Executors \subseteq {"current", "multi"}
  /\ MaxTasks \in Nat \ {0} /\ MaxBegun \in Nat /\ MaxDepth \in Nat \ {0}

VARIABLES
  mode,      (* EXECUTOR_MODE                                                *)
  manifest,  (* the one that runs, or ran last                              *)
  tasks,     (* the tasks made so far                                        *)
  flags,     (* the done flags that are set                                  *)
  results,   (* for each result variable the task that wrote it, 0 for none  *)
  nextRuntimeRefID,  (* of the executor of each manifest                    *)
  outbound,  (* OUTBOUND: tasks whose bridge call the host has not seen      *)
  stack,     (* the awaits in progress, innermost last                       *)
  begun,     (* ops begun so far                                             *)
  abandoned, (* tasks whose await ended before they did                      *)
  got        (* for each task the task whose result its await returned       *)

awaitsVars == <<mode, manifest, tasks, flags, results, nextRuntimeRefID, outbound, stack,
                begun, abandoned, got>>

Variables == (Loops \X {"async", "parallel", "ref", "bound"} \X (0..MaxTasks))

(* by: the manifest whose executor numbered a reference.                    *)
(* place: the table that holds a Rust task: LOCAL_FUTURES has the future    *)
(* itself ("futures") or a wrapper of its JoinHandle ("joins"),             *)
(* LOCAL_SPAWNED ("locals"), SPAWNED ("spawned"); "driven" while a drive    *)
(* has taken it out.                                                        *)
Task == [kind : {"async", "ref", "parallel"} \cup RustKinds, by : Manifests \cup {"none"},
         rt : Loops \cup {"rust"}, idx : 0..MaxTasks, bind : BOOLEAN,
         state : {"running", "calling", "asked", "over", "cancelled"},
         place : {"none", "futures", "joins", "locals", "spawned", "driven"}]

(* own: the tasks awaited; from: the task that called, 0 for the executor;  *)
(* inside: the call was made while tokio polled the task; next: where a     *)
(* drive goes when the calls it brought are served.                         *)
Frame == [own : SUBSET Ids, at : {"starting", "checking", "pumping", "driving", "serving"},
          calls : Seq(Ids), from : 0..MaxTasks, inside : BOOLEAN,
          next : {"checking", "pumping", "done"}, late : BOOLEAN]

AwaitsInit ==
  /\ mode \in Executors /\ manifest \in Manifests /\ tasks = << >> /\ flags = {}
  /\ results = [v \in Variables |-> 0] /\ nextRuntimeRefID = [m \in Manifests |-> 0]
  /\ outbound = << >> /\ stack = << >> /\ begun = 0
  /\ abandoned = {} /\ got = [t \in Ids |-> 0]

----------------------------------------------------------------------------
(* Tasks                                                                   *)

Made == DOMAIN tasks
IsRust(t) == tasks[t].kind \in RustKinds
Flag(t) == <<tasks[t].rt, tasks[t].kind, tasks[t].idx>>
ResultVar(t) == IF tasks[t].bind THEN <<tasks[t].rt, "bound", 0>> ELSE Flag(t)

Top == Last(stack)
TopAt(at) == stack # << >> /\ Top.at = at
SetTop(f) == stack' = [stack EXCEPT ![Len(stack)] = f]
TopRust == \E t \in Top.own : IsRust(t)

(* A synchronous omnivm::call is on the stack: the Golden Thread is inside  *)
(* the tokio runtime (Handle::try_current is ok).                           *)
Inside == \E i \in DOMAIN stack : stack[i].inside

(* asyncio does not run a loop that is running; a nested uv_run may make    *)
(* progress or not.                                                         *)
Enterable(rt) ==
  rt # "python" \/ ~\E i \in DOMAIN stack : stack[i].from # 0 /\ tasks[stack[i].from].rt = rt

(* Tasks of the LocalSet: their JoinHandle may be anywhere or dropped.      *)
OnLocalSet(t) == tasks[t].kind = "background"

(* The Golden Thread may be running a step of t.                            *)
Polled(t) ==
  /\ tasks[t].state = "running"
  /\ IF ~IsRust(t) THEN TopAt("pumping") /\ Enterable(tasks[t].rt)
     ELSE \/ TopAt("driving") /\ t \in Top.own /\ tasks[t].kind = "local"
          \/ OnLocalSet(t) /\ ~Inside
             /\ \/ TopAt("driving") /\ \E o \in Top.own : tasks[o].kind \in {"local", "background"}
                \/ TopAt("pumping") /\ ~TopRust /\ mode = "current"

(* Spawned tasks and blocking calls run on threads of their own.            *)
Elsewhere(t) == tasks[t].state = "running" /\ tasks[t].kind \in {"spawned", "blocking"}

Finish(t) ==
  /\ Polled(t) \/ Elsewhere(t)
  /\ tasks' = [tasks EXCEPT ![t].state = "over"]
  /\ IF IsRust(t) THEN UNCHANGED <<flags, results>>
     ELSE flags' = flags \cup {Flag(t)} /\ results' = [results EXCEPT ![ResultVar(t)] = t]
  /\ UNCHANGED <<mode, manifest, nextRuntimeRefID, outbound, stack, begun, abandoned, got>>

(* bridge_call_async: the future suspends, its request waits in OUTBOUND.   *)
Ask(t) ==
  /\ IsRust(t) /\ tasks[t].kind # "blocking" /\ (Polled(t) \/ Elsewhere(t))
  /\ tasks' = [tasks EXCEPT ![t].state = "asked"]
  /\ outbound' = Append(outbound, t)
  /\ UNCHANGED <<mode, manifest, flags, results, nextRuntimeRefID, stack, begun, abandoned, got>>

----------------------------------------------------------------------------
(* Ops                                                                     *)

Await(own, at, from, inside) ==
  [own |-> own, at |-> at, calls |-> << >>, from |-> from, inside |-> inside,
   next |-> "checking", late |-> FALSE]

NewTask(kind, rt, idx, bind, place) ==
  [kind |-> kind, by |-> IF kind = "ref" THEN manifest ELSE "none", rt |-> rt, idx |-> idx,
   bind |-> bind, state |-> "running", place |-> place]
NextId == Len(tasks) + 1

(* Starting a task of an event loop resets its flag and its result, though  *)
(* not the result of a reference.                                           *)
StartLoopTask(ts, kind, rt, idx, bind) ==
  /\ NextId \in Ids /\ tasks' = Append(ts, NewTask(kind, rt, idx, bind, "none"))
  /\ flags' = flags \ {<<rt, kind, idx>>}
  /\ results' = IF kind = "ref" THEN results ELSE [results EXCEPT ![<<rt, kind, idx>>] = 0]

(* execAsync and evalAsync: all of them use one set of variables a runtime. *)
BeginAsync(ts, below, from, inside) ==
  /\ \E rt \in Loops : StartLoopTask(ts, "async", rt, 0, FALSE)
  /\ stack' = Append(below, Await({NextId}, "checking", from, inside))
  /\ UNCHANGED nextRuntimeRefID

(* Mutant: the number does not move on. *)
BeginRefUnnumbered(ts, below, from, inside) ==
  /\ \E rt \in Loops : StartLoopTask(ts, "ref", rt, 1, FALSE)
  /\ stack' = Append(below, Await({NextId}, "checking", from, inside))
  /\ UNCHANGED nextRuntimeRefID

(* await of a promise or coroutine: variables with a number that is fresh   *)
(* for this executor, though not for the runtime; a result to be bound goes *)
(* straight to the variable of that name.                                   *)
BeginRef(ts, below, from, inside) ==
  /\ nextRuntimeRefID' = [nextRuntimeRefID EXCEPT ![manifest] = @ + 1]
  /\ \E rt \in Loops, bind \in BOOLEAN :
       StartLoopTask(ts, "ref", rt, nextRuntimeRefID[manifest] + 1, bind)
  /\ stack' = Append(below, Await({NextId}, "checking", from, inside))

(* parallel: the variables are numbered by branch, from 0.                  *)
BeginParallel(ts, below, from, inside) ==
  /\ \E rt \in Loops : StartLoopTask(ts, "parallel", rt, 0, FALSE)
  /\ stack' = Append(below, Await({NextId}, "starting", from, inside))
  /\ UNCHANGED nextRuntimeRefID

(* A call of a Rust async fn: its future is registered, which spawns it if  *)
(* it is Send and the executor is multi-threaded, and driven at once.       *)
NewFuture(kind, place) == NewTask(kind, "rust", 0, FALSE, place)
BeginRust(ts, below, from, inside) ==
  /\ NextId \in Ids
  /\ \/ tasks' = Append(ts, NewFuture("local", "futures"))
     \/ mode = "multi" /\ tasks' = Append(ts, NewFuture("spawned", "spawned"))
  /\ stack' = Append(below, Await({NextId}, "checking", from, inside))
  /\ UNCHANGED <<flags, results, nextRuntimeRefID>>

(* await of what `go expr` returned, which may have been awaited before.    *)
BeginHandle(ts, below, from, inside) ==
  /\ \E t \in Made : /\ tasks[t].kind \in {"background", "spawned", "blocking"}
                     /\ stack' = Append(below, Await({t}, "checking", from, inside))
  /\ tasks' = ts /\ UNCHANGED <<flags, results, nextRuntimeRefID>>

Begin(ts, below, from, inside) ==
  /\ begun < MaxBegun /\ Len(below) < MaxDepth /\ begun' = begun + 1
  /\ \/ BeginAsync(ts, below, from, inside) \/ BeginRef(ts, below, from, inside)
     \/ BeginParallel(ts, below, from, inside) \/ BeginRust(ts, below, from, inside)
     \/ BeginHandle(ts, below, from, inside)

Op == /\ stack = << >> /\ Begin(tasks, stack, 0, FALSE)
      /\ UNCHANGED <<mode, manifest, outbound, abandoned, got>>

(* Another manifest runs: a new one, or a module that is called again.      *)
EnterManifest(m) ==
  /\ stack = << >> /\ m # manifest /\ manifest' = m
  /\ UNCHANGED <<mode, tasks, flags, results, nextRuntimeRefID, outbound, stack, begun,
                 abandoned, got>>

(* A task calls back, synchronously, and the op it calls awaits.            *)
CallOut(t) ==
  /\ Polled(t) /\ Begin([tasks EXCEPT ![t].state = "calling"], stack, t, IsRust(t))
  /\ UNCHANGED <<mode, manifest, outbound, abandoned, got>>

(* `go expr`: a future that is not Send joins the LocalSet, one that is a   *)
(* multi-threaded executor, and a plain function the blocking threads.      *)
SpawnRust(kind, place) ==
  /\ stack = << >> /\ NextId \in Ids /\ begun < MaxBegun /\ begun' = begun + 1
  /\ tasks' = Append(tasks, NewFuture(kind, place))
  /\ UNCHANGED <<mode, manifest, flags, results, nextRuntimeRefID, outbound, stack, abandoned, got>>
SpawnBackground == SpawnRust("background", "locals")
SpawnSend == mode = "multi" /\ SpawnRust("spawned", "spawned")
SpawnBlocking == SpawnRust("blocking", "spawned")

(* Further branches of a parallel: an async one is started, a synchronous   *)
(* one runs now, and may await.                                             *)
StartBranch ==
  /\ TopAt("starting")
  /\ \E rt \in Loops : StartLoopTask(tasks, "parallel", rt, Cardinality(Top.own), FALSE)
  /\ SetTop([Top EXCEPT !.own = @ \cup {NextId}])
  /\ UNCHANGED <<mode, manifest, nextRuntimeRefID, outbound, begun, abandoned, got>>
SyncBranch == /\ TopAt("starting") /\ Begin(tasks, stack, 0, FALSE)
              /\ UNCHANGED <<mode, manifest, outbound, abandoned, got>>
Branched == /\ TopAt("starting") /\ SetTop([Top EXCEPT !.at = "checking"])
            /\ UNCHANGED <<mode, manifest, tasks, flags, results, nextRuntimeRefID, outbound, begun,
                           abandoned, got>>

----------------------------------------------------------------------------
(* The loops                                                               *)

(* The top frame ends; a task that called goes on, unless it is cancelled.  *)
Resumed(ts, t) == IF t # 0 /\ ts[t].state \in {"calling", "asked"}
                  THEN [ts EXCEPT ![t].state = "running"] ELSE ts
Return(ts) == stack' = Front(stack) /\ tasks' = Resumed(ts, Top.from)

Expire(i) ==
  /\ i \in DOMAIN stack /\ ~stack[i].late /\ stack[i].own # {}
  /\ stack' = [stack EXCEPT ![i].late = TRUE]
  /\ UNCHANGED <<mode, manifest, tasks, flags, results, nextRuntimeRefID, outbound, begun, abandoned, got>>

(* pumpUntilDone: the deadline, then the flags, then a pump of everything.  *)
Collect ==
  /\ TopAt("checking") /\ ~TopRust /\ ~Top.late
  /\ \A t \in Top.own : Flag(t) \in flags
  /\ Return(tasks)
  /\ got' = [t \in Ids |-> IF t \in Top.own THEN results[ResultVar(t)] ELSE got[t]]
  /\ abandoned' = abandoned \cup {t \in Top.own : tasks[t].state # "over"}
  /\ UNCHANGED <<mode, manifest, flags, results, nextRuntimeRefID, outbound, begun>>
StartPump ==
  /\ TopAt("checking") /\ ~TopRust /\ ~Top.late
  /\ \E t \in Top.own : Flag(t) \notin flags
  /\ SetTop([Top EXCEPT !.at = "pumping"])
  /\ UNCHANGED <<mode, manifest, tasks, flags, results, nextRuntimeRefID, outbound, begun, abandoned, got>>
TimeOut ==
  /\ TopAt("checking") /\ ~TopRust /\ Top.late
  /\ Return(tasks) /\ abandoned' = abandoned \cup Top.own
  /\ UNCHANGED <<mode, manifest, flags, results, nextRuntimeRefID, outbound, begun, got>>

(* Between ops the host pumps too.                                          *)
HostPump ==
  /\ stack = << >> /\ stack' = << Await({}, "pumping", 0, FALSE) >>
  /\ UNCHANGED <<mode, manifest, tasks, flags, results, nextRuntimeRefID, outbound, begun, abandoned, got>>

(* The Rust runtime's pump brings the bridge calls that wait; it is skipped *)
(* inside tokio, and not part of the pump between the drives of a future.   *)
EndPump ==
  /\ TopAt("pumping")
  /\ IF TopRust \/ Inside
     THEN SetTop([Top EXCEPT !.at = "checking"]) /\ UNCHANGED outbound
     ELSE /\ SetTop([Top EXCEPT !.at = "serving", !.calls = outbound, !.next = "checking"])
          /\ outbound' = << >>
  /\ UNCHANGED <<mode, manifest, tasks, flags, results, nextRuntimeRefID, begun, abandoned, got>>

(* Mutant: JoinHandles are dropped, not aborted. *)
ReleasedByDropping(t) ==
  [tasks[t] EXCEPT !.place = "none",
                   !.state = IF tasks[t].place = "futures" THEN "cancelled" ELSE @]

(* release_future: a future in a table is dropped, a task aborted; of a     *)
(* background task that has been driven only a handle is left to drop, and  *)
(* the closure of a blocking call cannot be aborted.  An abort is taken to  *)
(* act at once; a spawned task that runs at that moment goes on to its next *)
(* await, and may put one more call into OUTBOUND, which nobody waits for.  *)
Released(t) ==
  IF tasks[t].place \in {"none", "driven"} THEN tasks[t]
  ELSE [tasks[t] EXCEPT !.place = "none",
                        !.state = IF \/ tasks[t].place = "joins" \/ tasks[t].kind = "blocking"
                                     \/ @ = "over"
                                  THEN @ ELSE "cancelled"]

(* DriveFuture: the deadline, then a drive, the calls it brought, a pump.   *)
TimeOutRust ==
  /\ TopAt("checking") /\ TopRust /\ Top.late
  /\ Return([t \in Made |-> IF t \in Top.own THEN Released(t) ELSE tasks[t]])
  /\ abandoned' = abandoned \cup Top.own
  /\ UNCHANGED <<mode, manifest, flags, results, nextRuntimeRefID, outbound, begun, got>>

Tables == IF Inside THEN {"futures", "joins"} ELSE {"futures", "joins", "locals", "spawned"}
Served(next) == SetTop([Top EXCEPT !.at = "serving", !.calls = outbound, !.next = next])
                /\ outbound' = << >>

(* Mutant: no look at the deadline. *)
StartDriveLate ==
  /\ TopAt("checking")
  /\ \E t \in Top.own :
       /\ IsRust(t) /\ tasks[t].place \in Tables
       /\ tasks' = [tasks EXCEPT ![t].place = "driven"]
  /\ SetTop([Top EXCEPT !.at = "driving"])
  /\ UNCHANGED <<mode, manifest, flags, results, nextRuntimeRefID, outbound, begun, abandoned, got>>

StartDrive ==
  /\ TopAt("checking") /\ ~Top.late
  /\ \E t \in Top.own :
       /\ IsRust(t) /\ tasks[t].place \in Tables
       /\ tasks' = [tasks EXCEPT ![t].place = "driven"]
  /\ SetTop([Top EXCEPT !.at = "driving"])
  /\ UNCHANGED <<mode, manifest, flags, results, nextRuntimeRefID, outbound, begun, abandoned, got>>
DriveNotFound ==
  /\ TopAt("checking") /\ ~Top.late
  /\ \E t \in Top.own : IsRust(t) /\ tasks[t].place \notin Tables
  /\ Served("done")
  /\ UNCHANGED <<mode, manifest, tasks, flags, results, nextRuntimeRefID, begun, abandoned, got>>

(* The park ends; an unfinished future goes back into a table.              *)
PutBack(t) == CASE tasks[t].kind = "local" -> "futures"
                [] tasks[t].kind = "background" -> "joins"
                [] OTHER -> "spawned"

DriveDone ==
  /\ TopAt("driving")
  /\ \E t \in Top.own : /\ tasks[t].state = "over"
                        /\ tasks' = [tasks EXCEPT ![t].place = "none"]
                        /\ got' = [got EXCEPT ![t] = t]
  /\ Served("done")
  /\ UNCHANGED <<mode, manifest, flags, results, nextRuntimeRefID, begun, abandoned>>
DrivePending ==
  /\ TopAt("driving")
  /\ \E t \in Top.own :
       /\ tasks[t].state # "over"
       /\ tasks' = [tasks EXCEPT ![t].place = PutBack(t)]
       /\ \/ Served("pumping")
          \/ PutBack(t) # "spawned" /\ Served("checking")
  /\ UNCHANGED <<mode, manifest, flags, results, nextRuntimeRefID, begun, abandoned, got>>

(* handleBridgeCalls: one call after the other, each answered at once or    *)
(* after an op that awaits.                                                 *)
ServeCall ==
  /\ TopAt("serving") /\ Top.calls # << >>
  /\ LET below == [stack EXCEPT ![Len(stack)].calls = Tail(@)]
         caller == Head(Top.calls)
     IN \/ /\ stack' = below /\ tasks' = Resumed(tasks, caller)
           /\ UNCHANGED <<flags, results, nextRuntimeRefID, begun>>
        \/ Begin(tasks, below, caller, FALSE)
  /\ UNCHANGED <<mode, manifest, outbound, abandoned, got>>
EndServe ==
  /\ TopAt("serving") /\ Top.calls = << >>
  /\ IF Top.next = "done" THEN Return(tasks)
     ELSE SetTop([Top EXCEPT !.at = Top.next]) /\ UNCHANGED tasks
  /\ UNCHANGED <<mode, manifest, flags, results, nextRuntimeRefID, outbound, begun, abandoned, got>>

Loop == \/ Branched \/ Collect \/ StartPump \/ TimeOut \/ EndPump \/ TimeOutRust
        \/ StartDrive \/ DriveNotFound \/ DriveDone \/ DrivePending \/ ServeCall \/ EndServe

AwaitsNext ==
  \/ Op \/ StartBranch \/ SyncBranch \/ HostPump \/ Loop
  \/ \E t \in Made : Finish(t) \/ Ask(t) \/ CallOut(t)
  \/ SpawnBackground \/ SpawnSend \/ SpawnBlocking
  \/ \E i \in 1..MaxDepth : Expire(i)
  \/ \E m \in Manifests : EnterManifest(m)

AwaitsSpec == AwaitsInit /\ [][AwaitsNext]_awaitsVars

(* The thread goes on as long as it can, the host pumps between ops, and    *)
(* every deadline passes.                                                   *)
AwaitsFairSpec == /\ AwaitsSpec /\ WF_awaitsVars(Loop) /\ WF_awaitsVars(HostPump)
            /\ \A i \in 1..MaxDepth : WF_awaitsVars(Expire(i))

----------------------------------------------------------------------------
(* Properties                                                              *)

AwaitsTypeOK ==
  /\ mode \in Executors /\ manifest \in Manifests /\ Len(tasks) <= MaxTasks /\ \A t \in Made : tasks[t] \in Task
  /\ flags \subseteq Variables /\ results \in [Variables -> 0..MaxTasks]
  /\ nextRuntimeRefID \in [Manifests -> 0..MaxTasks] /\ outbound \in Seq(Ids)
  /\ Len(stack) <= MaxDepth /\ \A i \in DOMAIN stack : stack[i] \in Frame
  /\ \A t \in Made : tasks[t].place = "driven" <=>
       \E i \in DOMAIN stack : stack[i].at = "driving" /\ t \in stack[i].own
  /\ begun \in 0..MaxBegun /\ abandoned \subseteq Ids /\ got \in [Ids -> 0..MaxTasks]

(* An await returns what its own task produced.  With variables that awaits *)
(* share it may get the result of another: one whose await ended before it  *)
(* did, encloses this one or was begun in between.  Variables of its own    *)
(* number an await shares only with those that other manifests began, and   *)
(* is misled only by one that was abandoned; a result to be bound may then  *)
(* be taken before it is there.                                             *)
Misleading(t) ==
  abandoned \cup (UNION {f.own : f \in ToSet(Front(stack))}) \cup ((t + 1)..MaxTasks)
Crossed(t) ==
  {u \in abandoned : tasks[u].kind = "ref" /\ Flag(u) = Flag(t) /\ tasks[u].by # tasks[t].by}
GotFairly(t, u) ==
  \/ u = t
  \/ (tasks[t].kind # "ref" \/ tasks[t].bind) /\ u \in Misleading(t)
  \/ u \in Crossed(t)
  \/ Crossed(t) # {} /\ \E c \in Crossed(t) \cup {t} : tasks[c].bind
OwnResults == [][\A t \in Ids : got'[t] # got[t] => GotFairly(t, got'[t])]_awaitsVars

(* Every bridge call of a suspended Rust future is on its way exactly once: *)
(* in OUTBOUND, with a loop that is to serve it, or being served.           *)
Ways(t) ==
  {<<0, k>> : k \in {j \in DOMAIN outbound : outbound[j] = t}}
  \cup {<<i, 0>> : i \in {j \in DOMAIN stack : stack[j].from = t}}
  \cup UNION {{<<i, k>> : k \in {j \in DOMAIN stack[i].calls : stack[i].calls[j] = t}}
             : i \in DOMAIN stack}
CallsAreKept == \A t \in Made : tasks[t].state = "asked" => Cardinality(Ways(t)) = 1

(* A future whose await timed out is cancelled and never runs again, unless *)
(* it is a background task or the closure of a blocking call, which may.    *)
AbandonedStops ==
  \A t \in abandoned : IsRust(t) /\ tasks[t].kind \in {"local", "spawned"} =>
    tasks[t].state \in {"over", "cancelled"}

(* No call of a future gets lost and no abandoned future runs on.          *)
FuturesAreKept == AwaitsTypeOK /\ CallsAreKept /\ AbandonedStops

(* The op that the executor runs comes back, and with it every await that   *)
(* was nested in it, whatever their tasks do.                               *)
AwaitsReturn == stack # << >> ~> stack = << >>
=============================================================================
