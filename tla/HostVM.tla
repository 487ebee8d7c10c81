------------------------------- MODULE HostVM -------------------------------
(***************************************************************************)
(* The VM of pkg/omnivm: runtimes started, called from any goroutine and   *)
(* shut down, on top of the loop of pkg/dispatcher.                        *)
(*                                                                         *)
(* A call goes through checkReady, a look at its context, the enqueue in   *)
(* runAsync and a wait for its answer or its context.  On the Golden       *)
(* Thread its task names the runtime to interrupt, evaluates, runs the     *)
(* after-call code and the metrics callback, and takes the name back.      *)
(* With a TaskTimeout a goroutine per task interrupts that runtime, again  *)
(* and again, until the task is done.  Shutdown runs on a goroutine of its *)
(* own.  The order of the two queues is left to module Dispatcher: here    *)
(* the loop takes any task that is queued.                                 *)
(*                                                                         *)
(* Start holds vm.mu throughout and is one action.  draining is written    *)
(* and never read, and is left out.                                        *)
(***************************************************************************)
EXTENDS Naturals, Sequences, SequencesExt, FiniteSets

CONSTANTS
  Calls,       (* calls of the API, each made once                          *)
  Menu,        (* what each call may ask for, see Requests                   *)
  Closers,     (* goroutines that call Shutdown                              *)
  RegOrder,    (* the runtimes in the order of their registration            *)
  Deaf,        (* runtimes without an Interrupt method                       *)
  NoRuntime, NoCall,
  Capacity,    (* room in the dispatcher's channels                          *)
  TaskTimed,   (* Config.TaskTimeout > 0                                     *)
  DrainTimed,  (* Config.DrainTimeout > 0                                    *)
  MaxInits,    (* bound: the length of initOrder before a Start              *)
  Items        (* bound: items of a batch                                    *)

Runtimes == Range(RegOrder)

(* A request: Call, CallBatch or Execute (or LoadFile, which is a second    *)
(* checkReady and an Execute), in a runtime, with a context that can end   *)
(* or without, for code that may run away.                                 *)
Requests == [op : {"call", "batch", "execute"}, rt : Runtimes,
             ctx : {"none", "live"}, runaway : BOOLEAN]

ASSUME HostVMAssumption ==
  /\ RegOrder \in Seq(Runtimes) /\ IsInjective(RegOrder)
  /\ NoRuntime \notin Runtimes /\ NoCall \notin Calls /\ Deaf \subseteq Runtimes
  /\ Runtimes \cap {"off", "timing"} = {}
  /\ Capacity \in Nat \ {0} /\ MaxInits \in Nat /\ Items \in Nat \ {0}
  /\ TaskTimed \in BOOLEAN /\ DrainTimed \in BOOLEAN
  /\ Menu \in [Calls -> SUBSET Requests]
  /\ \A c \in Calls : \A r \in Menu[c] : r.runaway => TaskTimed /\ r.rt \notin Deaf

VARIABLES
  started, shutdown, initOrder,  (* the VM                                   *)
  alive,      (* runtimes initialised and not shut down                      *)
  cancelled,  (* of the contexts "vm" and "merged", Run's                    *)
  loop,       (* "none", "serving", "draining", "drained" or "stopped"       *)
  queued,     (* calls whose task is in a channel                            *)
  running,    (* the call whose task runs, or NoCall                         *)
  step, item, (* where that task is, and the item of its batch               *)
  active,     (* activeInterrupt, as the runtime it interrupts               *)
  call,       (* per call: its operation, runtime, context and progress      *)
  answer,     (* per call: what is in its result channel                     *)
  timer,      (* per call: its taskTimeoutLoop                               *)
  pending,    (* runtimes with an interrupt not yet delivered                *)
  closer,     (* per closer: where it is in Shutdown                         *)
  order,      (* Shutdown: order, what is left of it                         *)
  lost        (* history: calls nobody will answer                           *)

vmVars == <<started, shutdown, initOrder, alive>>
loopVars == <<loop, queued, running>>
taskVars == <<step, item, active>>
timeVars == <<timer, pending>>
closeVars == <<closer, order>>
vars == <<vmVars, cancelled, loopVars, taskVars, call, answer, timeVars,
          closeVars, lost>>

Unmade == [op |-> "none", rt |-> NoRuntime, ctx |-> "none", runaway |-> FALSE,
           at |-> "unmade"]

Init ==
  /\ started = FALSE /\ shutdown = FALSE /\ initOrder = << >>
  /\ alive = {} /\ cancelled = {} /\ loop = "none" /\ queued = {}
  /\ running = NoCall /\ step = "none" /\ item = 0 /\ active = NoRuntime
  /\ call = [c \in Calls |-> Unmade] /\ answer = [c \in Calls |-> "none"]
  /\ timer = [c \in Calls |-> "off"] /\ pending = {}
  /\ closer = [k \in Closers |-> "idle"] /\ order = << >> /\ lost = {}

----------------------------------------------------------------------------
(* Start and Run                                                           *)

(* Register and Start: n runtimes are initialised; when that is not all of *)
(* them, everything in initOrder is shut down, and stays in initOrder.     *)
Start ==
  /\ ~started /\ Len(initOrder) <= MaxInits
  /\ \E n \in 0..Len(RegOrder) :
       /\ initOrder' = initOrder \o SubSeq(RegOrder, 1, n)
       /\ started' = (n = Len(RegOrder))
       /\ alive' = IF started' THEN Runtimes ELSE {}
  /\ UNCHANGED <<shutdown, cancelled, loopVars, taskVars, call, answer,
                 timeVars, closeVars, lost>>

Run ==
  /\ started /\ loop = "none" /\ loop' = "serving"
  /\ UNCHANGED <<vmVars, cancelled, queued, running, taskVars, call, answer,
                 timeVars, closeVars, lost>>

(* The merged context ends with the one given to Run at once, and with     *)
(* vm.ctx when Run's helper goroutine gets to it.                          *)
CancelMerged ==
  /\ loop # "none" /\ cancelled' = cancelled \cup {"merged"}
  /\ UNCHANGED <<vmVars, loopVars, taskVars, call, answer, timeVars,
                 closeVars, lost>>
Signal == CancelMerged
Merge == "vm" \in cancelled /\ CancelMerged

----------------------------------------------------------------------------
(* A call: Call and its variants, CallBatch, Execute and LoadFile          *)

Goto(c, at) == call' = [call EXCEPT ![c].at = at]
CtxDone(c) == call[c].ctx = "done"
Rt(c) == call[c].rt

(* checkReady, under vm.mu.                                                *)
Make(c) ==
  /\ call[c].at = "unmade"
  /\ \E r \in Menu[c] : call' = [call EXCEPT ![c] =
        [op |-> r.op, rt |-> r.rt, ctx |-> r.ctx, runaway |-> r.runaway,
         at |-> IF started /\ ~shutdown THEN "checked" ELSE "refused"]]
  /\ UNCHANGED <<vmVars, cancelled, loopVars, taskVars, answer, timeVars,
                 closeVars, lost>>

(* The deadline of a context passes, or its client goes away.              *)
Expire(c) ==
  /\ call[c].ctx = "live" /\ call' = [call EXCEPT ![c].ctx = "done"]
  /\ UNCHANGED <<vmVars, cancelled, loopVars, taskVars, answer, timeVars,
                 closeVars, lost>>

LookAtContext(c) ==
  /\ call[c].at = "checked"
  /\ Goto(c, IF CtxDone(c) THEN "abandoned" ELSE "submitting")
  /\ UNCHANGED <<vmVars, cancelled, loopVars, taskVars, answer, timeVars,
                 closeVars, lost>>

(* Execute submits with RunAsync, that is without its context.             *)
TaskCancelled(c) == CtxDone(c) /\ call[c].op # "execute"

(* A send to a channel nobody reads any more: the call is lost.            *)
Submit(c) ==
  /\ call[c].at = "submitting" /\ Goto(c, "waiting")
  /\ \/ /\ Cardinality(queued) < Capacity
        /\ queued' = queued \cup {c} /\ UNCHANGED answer
        /\ lost' = IF loop \in {"drained", "stopped"} THEN lost \cup {c} ELSE lost
     \/ /\ loop = "stopped" /\ answer' = [answer EXCEPT ![c] = "shutdown"]
        /\ UNCHANGED <<queued, lost>>
     \/ /\ TaskCancelled(c) /\ answer' = [answer EXCEPT ![c] = "ctx"]
        /\ UNCHANGED <<queued, lost>>
  /\ UNCHANGED <<vmVars, cancelled, loop, running, taskVars, timeVars,
                 closeVars>>

Await(c) ==
  /\ call[c].at = "waiting"
  /\ \/ answer[c] # "none" /\ Goto(c, "answered")
     \/ CtxDone(c) /\ Goto(c, "abandoned")
  /\ UNCHANGED <<vmVars, cancelled, loopVars, taskVars, answer, timeVars,
                 closeVars, lost>>

----------------------------------------------------------------------------
(* The Golden Thread                                                       *)

(* executeTask: a task whose context is done is rejected.                  *)
Serve(c) ==
  /\ loop = "serving" /\ running = NoCall /\ c \in queued
  /\ queued' = queued \ {c}
  /\ IF TaskCancelled(c)
     THEN /\ answer' = [answer EXCEPT ![c] = "ctx"]
          /\ UNCHANGED <<running, step, item, timer>>
     ELSE /\ running' = c /\ step' = "set" /\ item' = 1
          /\ timer' = IF TaskTimed THEN [timer EXCEPT ![c] = "timing"] ELSE timer
          /\ UNCHANGED answer
  /\ UNCHANGED <<vmVars, cancelled, loop, active, call, pending, closeVars, lost>>

SetActive ==
  /\ running # NoCall /\ step = "set" /\ step' = "eval"
  /\ active' = IF Rt(running) \in Deaf THEN NoRuntime ELSE Rt(running)
  /\ UNCHANGED <<vmVars, cancelled, loopVars, item, call, answer, timeVars,
                 closeVars, lost>>

(* Code in a runtime ends by itself, unless it is runaway code, or because *)
(* of an interrupt, which it takes with it.                                *)
EndsBySelf == ~call[running].runaway /\ UNCHANGED pending
EndsByInterrupt == Rt(running) \in pending /\ pending' = pending \ {Rt(running)}

Eval ==
  /\ running # NoCall /\ step = "eval" /\ (EndsBySelf \/ EndsByInterrupt)
  /\ IF call[running].op = "batch" /\ item < Items
     THEN item' = item + 1 /\ UNCHANGED step
     ELSE step' = "after" /\ UNCHANGED item
  /\ UNCHANGED <<vmVars, cancelled, loopVars, active, call, answer, timer,
                 closeVars, lost>>

(* The end of executeTask.                                                 *)
Finish ==
  /\ running' = NoCall /\ step' = "none" /\ item' = 0
  /\ UNCHANGED <<vmVars, cancelled, loop, queued, call, timer, closeVars>>

(* Mutant: the task leaves its runtime named.                              *)
AfterCallStaysActive ==
  /\ running # NoCall /\ step = "after" /\ Finish
  /\ UNCHANGED pending \/ EndsByInterrupt
  /\ answer' = [answer EXCEPT ![running] = "result"]
  /\ UNCHANGED <<active, lost>>

(* The after-call code, onCallDone, clearActiveRuntime and the answer.     *)
AfterCall ==
  /\ running # NoCall /\ step = "after" /\ Finish
  /\ UNCHANGED pending \/ EndsByInterrupt
  /\ answer' = [answer EXCEPT ![running] = "result"]
  /\ active' = NoRuntime /\ UNCHANGED lost

(* A panic of Eval or of onCallDone: the deferred clearActiveRuntime runs, *)
(* safeExec recovers, and the send inside fn is never reached.             *)
Panic ==
  /\ running # NoCall /\ step \in {"eval", "after"} /\ Finish
  /\ active' = NoRuntime /\ lost' = lost \cup {running}
  /\ UNCHANGED <<answer, pending>>

StopServing ==
  /\ loop = "serving" /\ running = NoCall /\ "merged" \in cancelled
  /\ loop' = "draining"
  /\ UNCHANGED <<vmVars, cancelled, queued, running, taskVars, call, answer,
                 timeVars, closeVars, lost>>

DrainReject(c) ==
  /\ loop = "draining" /\ c \in queued /\ queued' = queued \ {c}
  /\ answer' = [answer EXCEPT ![c] = "shutdown"]
  /\ UNCHANGED <<vmVars, cancelled, loop, running, taskVars, call, timeVars,
                 closeVars, lost>>

DrainEnd ==
  /\ \/ loop = "draining" /\ queued = {} /\ loop' = "drained"
     \/ loop = "drained" /\ loop' = "stopped"
  /\ UNCHANGED <<vmVars, cancelled, queued, running, taskVars, call, answer,
                 timeVars, closeVars, lost>>

----------------------------------------------------------------------------
(* taskTimeoutLoop and interruptActiveRuntime                              *)

TimerEnds(c) ==
  /\ timer[c] = "timing" /\ running # c /\ timer' = [timer EXCEPT ![c] = "off"]
  /\ UNCHANGED <<vmVars, cancelled, loopVars, taskVars, call, answer, pending,
                 closeVars, lost>>

(* Mutant: the timer is not reset when it found nothing to interrupt.      *)
TimerFiresOnce(c) ==
  /\ timer[c] = "timing"
  /\ timer' = [timer EXCEPT ![c] = IF active = NoRuntime THEN "off" ELSE active]
  /\ UNCHANGED <<vmVars, cancelled, loopVars, taskVars, call, answer, pending,
                 closeVars, lost>>

(* The timer goes off (when done is closed as well, select picks either);  *)
(* activeInterrupt is read under activeMu, and called after the unlock.    *)
TimerFires(c) ==
  /\ timer[c] = "timing" /\ active # NoRuntime
  /\ timer' = [timer EXCEPT ![c] = active]
  /\ UNCHANGED <<vmVars, cancelled, loopVars, taskVars, call, answer, pending,
                 closeVars, lost>>

TimerRaises(c) ==
  /\ timer[c] \in Runtimes /\ pending' = pending \cup {timer[c]}
  /\ timer' = [timer EXCEPT ![c] = "timing"]
  /\ UNCHANGED <<vmVars, cancelled, loopVars, taskVars, call, answer,
                 closeVars, lost>>

----------------------------------------------------------------------------
(* Shutdown                                                                *)

(* Mutant: Shutdown does not remember that it was called.                  *)
ShutdownAgain(k) ==
  /\ closer[k] \in {"idle", "nil", "timeout"} /\ started
  /\ closer' = [closer EXCEPT ![k] = "cancel"]
  /\ shutdown' = TRUE /\ order' = initOrder
  /\ UNCHANGED <<started, initOrder, alive, cancelled, loopVars,
                 taskVars, call, answer, timeVars, lost>>

ShutdownBegin(k) ==
  /\ closer[k] \in {"idle", "nil", "timeout"} /\ started
  /\ IF shutdown
     THEN closer' = [closer EXCEPT ![k] = "nil"] /\ UNCHANGED <<shutdown, order>>
     ELSE /\ closer' = [closer EXCEPT ![k] = "cancel"]
          /\ shutdown' = TRUE /\ order' = initOrder
  /\ UNCHANGED <<started, initOrder, alive, cancelled, loopVars,
                 taskVars, call, answer, timeVars, lost>>

(* Mutant: the context of Run is left alone.                               *)
ShutdownCancelNot(k) ==
  /\ closer[k] = "cancel" /\ closer' = [closer EXCEPT ![k] = "wait"]
  /\ UNCHANGED <<vmVars, cancelled, loopVars, taskVars, call, answer, timeVars,
                 order, lost>>

ShutdownCancel(k) ==
  /\ closer[k] = "cancel" /\ closer' = [closer EXCEPT ![k] = "wait"]
  /\ cancelled' = cancelled \cup {"vm"}
  /\ UNCHANGED <<vmVars, loopVars, taskVars, call, answer, timeVars, order, lost>>

(* Mutant: teardown goes on after ErrDrainTimeout.                         *)
ShutdownWaitBriefly(k) ==
  /\ closer[k] = "wait" /\ closer' = [closer EXCEPT ![k] = "hooks"]
  /\ UNCHANGED <<vmVars, cancelled, loopVars, taskVars, call, answer, timeVars,
                 order, lost>>

ShutdownWait(k) ==
  /\ closer[k] = "wait" /\ loop = "stopped"
  /\ closer' = [closer EXCEPT ![k] = "hooks"]
  /\ UNCHANGED <<vmVars, cancelled, loopVars, taskVars, call, answer, timeVars,
                 order, lost>>

(* ErrDrainTimeout: nothing is torn down, now or by a later Shutdown.       *)
ShutdownGivesUp(k) ==
  /\ DrainTimed /\ closer[k] = "wait"
  /\ closer' = [closer EXCEPT ![k] = "timeout"]
  /\ UNCHANGED <<vmVars, cancelled, loopVars, taskVars, call, answer, timeVars,
                 order, lost>>

(* The drain hooks call runtimes directly (drainExecute).                  *)
ShutdownHooks(k) ==
  /\ closer[k] = "hooks" /\ closer' = [closer EXCEPT ![k] = "teardown"]
  /\ UNCHANGED <<vmVars, cancelled, loopVars, taskVars, call, answer, timeVars,
                 order, lost>>

ShutdownTeardown(k) ==
  /\ closer[k] = "teardown"
  /\ IF order = << >>
     THEN closer' = [closer EXCEPT ![k] = "nil"] /\ UNCHANGED <<alive, order>>
     ELSE /\ alive' = alive \ {Last(order)} /\ order' = Front(order)
          /\ UNCHANGED closer
  /\ UNCHANGED <<started, shutdown, initOrder, cancelled, loopVars,
                 taskVars, call, answer, timeVars, lost>>

CallStep(c) == LookAtContext(c) \/ Submit(c) \/ Await(c)
TaskStep == SetActive \/ Eval \/ AfterCall
LoopStep == StopServing \/ DrainEnd \/ \E c \in Calls : Serve(c) \/ DrainReject(c)
TimerStep(c) == TimerFires(c) \/ TimerRaises(c)
CloserStep(k) == \/ ShutdownCancel(k) \/ ShutdownWait(k) \/ ShutdownHooks(k)
                 \/ ShutdownTeardown(k)

Next ==
  \/ Start \/ Run \/ Signal \/ Merge \/ TaskStep \/ Panic \/ LoopStep
  \/ \E c \in Calls : \/ Make(c) \/ Expire(c) \/ CallStep(c)
                      \/ TimerStep(c) \/ TimerEnds(c)
  \/ \E k \in Closers : ShutdownBegin(k) \/ ShutdownGivesUp(k) \/ CloserStep(k)

Spec == Init /\ [][Next]_vars

(* Goroutines and the loop go on; callers, clients and DrainTimeout need    *)
(* not.                                                                    *)
FairSpec ==
  /\ Spec /\ WF_vars(Run) /\ WF_vars(Merge) /\ WF_vars(TaskStep) /\ WF_vars(LoopStep)
  /\ \A c \in Calls : WF_vars(CallStep(c)) /\ WF_vars(TimerStep(c))
  /\ \A k \in Closers : WF_vars(CloserStep(k))

----------------------------------------------------------------------------
(* The type invariant of all that New allocates.                           *)
TypeOK ==
  /\ started \in BOOLEAN /\ shutdown \in BOOLEAN
  /\ initOrder \in Seq(Runtimes) /\ order \in Seq(Runtimes)
  /\ alive \subseteq Runtimes /\ cancelled \subseteq {"vm", "merged"}
  /\ loop \in {"none", "serving", "draining", "drained", "stopped"}
  /\ queued \subseteq Calls /\ running \in Calls \cup {NoCall}
  /\ step \in {"none", "set", "eval", "after"} /\ item \in 0..Items
  /\ active \in Runtimes \cup {NoRuntime} /\ pending \subseteq Runtimes
  /\ call \in [Calls -> [op : {"none", "call", "batch", "execute"}, rt : Runtimes \cup {NoRuntime},
                         ctx : {"none", "live", "done"}, runaway : BOOLEAN,
                         at : {"unmade", "checked", "refused", "submitting",
                               "waiting", "answered", "abandoned"}]]
  /\ answer \in [Calls -> {"none", "result", "shutdown", "ctx"}]
  /\ timer \in [Calls -> {"off", "timing"} \cup Runtimes]
  /\ closer \in [Closers -> {"idle", "cancel", "wait", "hooks", "teardown",
                             "nil", "timeout"}]
  /\ lost \subseteq Calls

(* No code runs in a runtime that is not initialised or already shut down: *)
(* not a task's, whatever calls, timeouts and shutdowns overlap, and not a *)
(* drain hook's.                                                           *)
NoCodeInDeadRuntimes ==
  /\ TypeOK
  /\ step \in {"eval", "after"} => Rt(running) \in alive
  /\ \A k \in Closers : closer[k] = "hooks" => Range(initOrder) \subseteq alive

(* Runtimes go in the reverse of the order they came in, each once, and    *)
(* nothing is torn down by two Shutdowns; a Start that fails and is tried  *)
(* again breaks this, since it leaves its runtimes in initOrder.           *)
TeardownIsOrdered ==
  [][ \A k \in Closers :
        closer[k] = "teardown" /\ order' # order /\ Len(initOrder) = Len(RegOrder)
          => Last(order) \in alive /\ alive = Range(order) ]_vars

(* A timeout of a task that still runs interrupts the runtime the task is  *)
(* in, never one an earlier task has left behind.                          *)
TimeoutHitsItsTask ==
  \A c \in Calls : running = c /\ timer[c] \in Runtimes => timer[c] = Rt(c)

(* A call returns: runaway code is interrupted until it ends, and a        *)
(* shutdown answers whatever is queued, so that only a call without a      *)
(* deadline waits for ever, when its task has panicked or was queued after *)
(* the loop's last look at the channels.  And a Shutdown that does not     *)
(* give up tears everything down: the loop stops, whatever its tasks do.   *)
EverybodyReturns ==
  /\ \A c \in Calls :
       call[c].at \in {"checked", "submitting", "waiting"} ~>
         \/ call[c].at \in {"answered", "abandoned"}
         \/ c \in lost /\ ~CtxDone(c)
  /\ \A k \in Closers : closer[k] = "cancel" ~> closer[k] = "timeout" \/ alive = {}
=============================================================================
