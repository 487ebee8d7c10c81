----------------------------- MODULE Dispatcher -----------------------------
(***************************************************************************)
(* The Golden Thread dispatcher, pkg/dispatcher: callers on any thread     *)
(* submit tasks over two channels, one thread executes them.               *)
(*                                                                         *)
(* Every task is submitted once, by a caller of its own: SyncTasks with    *)
(* RunOnMain or RunOnMainFast, AsyncTasks with RunAsyncContext or          *)
(* RunAsyncFastContext.  The Golden Thread is in one of three loops, Run,  *)
(* RunEpoll, or a host that calls PumpOnce and PumpUntil; a task may       *)
(* itself wait in PumpUntil, so executions nest on a stack.                *)
(*                                                                         *)
(* A channel operation, a select, and a read of a context are one step     *)
(* each.  runs, overtaken and quiet are history variables.                 *)
(***************************************************************************)
EXTENDS Integers, Sequences, FiniteSets

CONSTANTS
  SyncTasks,     (* tasks of RunOnMain and RunOnMainFast                     *)
  AsyncTasks,    (* tasks of RunAsyncContext and RunAsyncFastContext         *)
  Spawned,       (* sync tasks of goroutines a PumpUntil may wait for        *)
  None,          (* no task: a PumpUntil frame of the stack                  *)
  Loops,         (* loops the Golden Thread may be in: their first places    *)
  MayPanic,      (* whether an async function may panic                      *)
  TaskCapacity,  (* cap(taskChan)                                            *)
  FastCapacity   (* cap(fastChan)                                            *)

Tasks == SyncTasks \cup AsyncTasks

ASSUME DispatcherAssumption ==
  /\ SyncTasks \cap AsyncTasks = {} /\ Spawned \subseteq SyncTasks
  /\ None \notin Tasks
  /\ Loops \subseteq {"top", "install", "host"} /\ MayPanic \in BOOLEAN
  /\ TaskCapacity \in Nat /\ FastCapacity \in Nat

VARIABLES
  taskChan, fastChan,  (* Dispatcher.taskChan, Dispatcher.fastChan           *)
  loop,        (* where the loop is; "stopped" when Dispatcher.stopped is    *)
               (* closed                                                     *)
  rounds,      (* RunEpoll: drain rounds left after epoll_wait               *)
  stack,       (* frames of executeTask and PumpUntil, innermost last        *)
  cancelled,   (* the context of Run is cancelled                            *)
  shutdownFD,  (* the shutdown eventfd is readable                           *)
  taskFD,      (* the task eventfd is readable                               *)
  waker,       (* Dispatcher.wakeupFunc is set                               *)
  caller,      (* where the caller of each task is                           *)
  fast,        (* the task goes to fastChan                                  *)
  ctxDone,     (* the task's own context is cancelled                        *)
  reply,       (* the channel to the caller: task.done, or runAsync's ch     *)
  told,        (* what RunOnMain returned                                    *)
  runs,        (* history: how often the task's function was started         *)
  overtaken,   (* history: normal tasks a loop took while it was in fastChan *)
  quiet        (* history: tasks whose wakeup() found no wakeupFunc          *)

chanVars == <<taskChan, fastChan>>
fdVars == <<shutdownFD, taskFD, waker>>
loopVars == <<loop, rounds>>
callVars == <<caller, fast, told, quiet>>
ctxVars == <<cancelled, ctxDone>>
vars == <<chanVars, fdVars, loopVars, callVars, ctxVars, stack, reply, runs,
          overtaken>>

Outcome == {"done", "shutdown", "cancelled"}
Frame == [task : Tasks \cup {None},
          at : {"taken", "running", "ended", "check", "pump"},
          for : Tasks \cup {None}]
Depth == Len(stack)
Top == stack[Depth]
Stopped == loop = "stopped"

Init ==
  /\ taskChan = << >> /\ fastChan = << >>
  /\ loop \in Loops /\ rounds = 0
  /\ stack = << >>
  /\ cancelled = FALSE /\ ctxDone = [t \in Tasks |-> FALSE]
  /\ shutdownFD = FALSE /\ taskFD = FALSE /\ waker = FALSE
  /\ caller = [t \in Tasks |-> "idle"]
  /\ fast = [t \in Tasks |-> FALSE]
  /\ reply = [t \in Tasks |-> << >>]
  /\ told = [t \in Tasks |-> "none"]
  /\ runs = [t \in Tasks |-> 0]
  /\ overtaken = [t \in Tasks |-> 0]
  /\ quiet = {}

----------------------------------------------------------------------------
(* The callers: RunOnMain, RunOnMainFast, runAsync.                        *)

Goes(t, place) == caller' = [caller EXCEPT ![t] = place]
Send(t, outcome) == reply' = [reply EXCEPT ![t] = Append(@, outcome)]
Return(t, outcome) ==
  Goes(t, "returned") /\ told' = [told EXCEPT ![t] = outcome]

(* runAsync looks at its context before it looks at the queue.             *)
Submit(t, isFast) ==
  /\ caller[t] = "idle"
  /\ fast' = [fast EXCEPT ![t] = isFast]
  /\ IF t \in AsyncTasks /\ ctxDone[t]
     THEN Goes(t, "returned") /\ Send(t, "cancelled")
     ELSE Goes(t, "sending") /\ UNCHANGED reply
  /\ UNCHANGED <<chanVars, fdVars, loopVars, ctxVars, stack, told, runs,
                 overtaken, quiet>>

(* select { case queue <- t: ... }                                         *)
Enqueue(t) ==
  /\ caller[t] = "sending"
  /\ \/ /\ fast[t] /\ Len(fastChan) < FastCapacity
        /\ fastChan' = Append(fastChan, t)
        /\ UNCHANGED taskChan
     \/ /\ ~fast[t] /\ Len(taskChan) < TaskCapacity
        /\ taskChan' = Append(taskChan, t)
        /\ UNCHANGED fastChan
  /\ Goes(t, "waking")
  /\ UNCHANGED <<fdVars, loopVars, ctxVars, stack, fast, reply, told, runs,
                 overtaken, quiet>>

(* ... case <-d.stopped: ... case <-ctx.Done(): ... }                      *)
Refuse(t) ==
  /\ caller[t] = "sending"
  /\ \/ /\ Stopped /\ t \in SyncTasks
        /\ Return(t, "shutdown")
        /\ UNCHANGED reply
     \/ /\ Stopped /\ t \in AsyncTasks
        /\ Goes(t, "returned") /\ Send(t, "shutdown")
        /\ UNCHANGED told
     \/ /\ ctxDone[t]
        /\ Goes(t, "returned") /\ Send(t, "cancelled")
        /\ UNCHANGED told
  /\ UNCHANGED <<chanVars, fdVars, loopVars, ctxVars, stack, fast, runs,
                 overtaken, quiet>>

Parked(t) == IF t \in SyncTasks THEN "waiting" ELSE "returned"

(* wakeup(): wakeupFunc is read under its lock and called without it.      *)
ReadWaker(t) ==
  /\ caller[t] = "waking"
  /\ Goes(t, IF waker THEN "writing" ELSE Parked(t))
  /\ quiet' = IF waker THEN quiet ELSE quiet \cup {t}
  /\ UNCHANGED <<chanVars, fdVars, loopVars, ctxVars, stack, fast, reply,
                 told, runs, overtaken>>

WriteTaskFD(t) ==
  /\ caller[t] = "writing"
  /\ Goes(t, Parked(t))
  /\ taskFD' = ~Stopped
  /\ UNCHANGED <<chanVars, shutdownFD, waker, loopVars, ctxVars, stack, fast,
                 reply, told, runs, overtaken, quiet>>

(* Mutant: RunOnMain does not watch d.stopped while it waits.              *)
AwaitReplyOnly(t) ==
  /\ caller[t] = "waiting"
  /\ reply[t] # << >> /\ Return(t, Head(reply[t]))
  /\ UNCHANGED <<chanVars, fdVars, loopVars, ctxVars, stack, fast, reply,
                 runs, overtaken, quiet>>

(* Mutant: ErrShutdown without a second look at done.                      *)
RecheckBlindly(t) ==
  /\ caller[t] = "recheck"
  /\ Return(t, "shutdown")
  /\ UNCHANGED <<chanVars, fdVars, loopVars, ctxVars, stack, fast, reply,
                 runs, overtaken, quiet>>

(* Mutant: RunOnMain watches the context of Run, not d.stopped.            *)
AwaitCancelled(t) ==
  /\ caller[t] = "waiting"
  /\ \/ reply[t] # << >> /\ Return(t, Head(reply[t]))
     \/ cancelled /\ Return(t, "shutdown")
  /\ UNCHANGED <<chanVars, fdVars, loopVars, ctxVars, stack, fast, reply,
                 runs, overtaken, quiet>>

(* The second select of RunOnMain, and its second look at done.            *)
Await(t) ==
  /\ caller[t] = "waiting"
  /\ \/ reply[t] # << >> /\ Return(t, Head(reply[t]))
     \/ Stopped /\ Goes(t, "recheck") /\ UNCHANGED told
  /\ UNCHANGED <<chanVars, fdVars, loopVars, ctxVars, stack, fast, reply,
                 runs, overtaken, quiet>>

Recheck(t) ==
  /\ caller[t] = "recheck"
  /\ Return(t, IF reply[t] # << >> THEN Head(reply[t]) ELSE "shutdown")
  /\ UNCHANGED <<chanVars, fdVars, loopVars, ctxVars, stack, fast, reply,
                 runs, overtaken, quiet>>

----------------------------------------------------------------------------
(* The contexts.                                                           *)

CancelTask(t) ==
  /\ ~ctxDone[t]
  /\ ctxDone' = [ctxDone EXCEPT ![t] = TRUE]
  /\ UNCHANGED <<chanVars, fdVars, loopVars, callVars, cancelled, stack,
                 reply, runs, overtaken>>

Cancel ==
  /\ ~cancelled
  /\ cancelled' = TRUE
  /\ UNCHANGED <<chanVars, fdVars, loopVars, callVars, ctxDone, stack, reply,
                 runs, overtaken>>

(* RunEpoll's goroutine: <-ctx.Done(), then a write to the shutdown fd.    *)
WriteShutdownFD ==
  /\ cancelled /\ ~shutdownFD
  /\ loop \in {"wait", "serveFast", "serveTask"}
  /\ shutdownFD' = TRUE
  /\ UNCHANGED <<chanVars, taskFD, waker, loopVars, callVars, ctxVars, stack,
                 reply, runs, overtaken>>

----------------------------------------------------------------------------
(* Execution on the Golden Thread.                                         *)

Push(frames, task, at, for) ==
  Append(frames, [task |-> task, at |-> at, for |-> for])
Pop == SubSeq(stack, 1, Depth - 1)
At(place) == [stack EXCEPT ![Depth].at = place]

(* A receive from either channel; executeTask begins.                      *)
TakeFast(frames) ==
  /\ fastChan # << >>
  /\ fastChan' = Tail(fastChan)
  /\ stack' = Push(frames, Head(fastChan), "taken", None)
  /\ UNCHANGED <<taskChan, overtaken>>

TakeTask(frames) ==
  /\ taskChan # << >>
  /\ taskChan' = Tail(taskChan)
  /\ stack' = Push(frames, Head(taskChan), "taken", None)
  /\ overtaken' = [t \in Tasks |->
                     overtaken[t]
                     + IF /\ stack = << >>
                          /\ \E i \in 1..Len(fastChan) : fastChan[i] = t
                       THEN 1 ELSE 0]
  /\ UNCHANGED fastChan

(* executeTask looks at the task's context, then starts its function.      *)
Start ==
  /\ stack # << >> /\ Top.at = "taken"
  /\ IF ctxDone[Top.task]
     THEN /\ Send(Top.task, "cancelled")
          /\ stack' = Pop
          /\ UNCHANGED runs
     ELSE /\ runs' = [runs EXCEPT ![Top.task] = @ + 1]
          /\ stack' = At("running")
          /\ UNCHANGED reply
  /\ UNCHANGED <<chanVars, fdVars, loopVars, callVars, ctxVars, overtaken>>

(* The function returns, or panics: safeExec recovers, t.done gets the     *)
(* error, but the send to an async caller was inside the function.         *)
Finish ==
  /\ stack # << >> /\ Top.at = "running"
  /\ \/ Send(Top.task, "done")
     \/ MayPanic /\ Top.task \in AsyncTasks /\ UNCHANGED reply
  /\ stack' = At("ended")
  /\ UNCHANGED <<chanVars, fdVars, loopVars, callVars, ctxVars, runs,
                 overtaken>>

(* The deferred part of executeTask.                                       *)
End ==
  /\ stack # << >> /\ Top.at = "ended"
  /\ stack' = Pop
  /\ UNCHANGED <<chanVars, fdVars, loopVars, callVars, ctxVars, reply, runs,
                 overtaken>>

(* PumpUntil(done), called by a running function or by the host; done is   *)
(* closed when the goroutine that submits the task u has its answer.       *)
PumpUntil(u) ==
  /\ caller[u] = "idle"
  /\ \/ stack = << >> /\ loop = "host"
     \/ stack # << >> /\ Top.at = "running"
  /\ stack' = Push(stack, None, "check", u)
  /\ UNCHANGED <<chanVars, fdVars, loopVars, callVars, ctxVars, reply, runs,
                 overtaken>>

PumpCheck ==
  /\ stack # << >> /\ Top.at = "check"
  /\ stack' = IF caller[Top.for] = "returned" THEN Pop ELSE At("pump")
  /\ UNCHANGED <<chanVars, fdVars, loopVars, callVars, ctxVars, reply, runs,
                 overtaken>>

PumpSelect ==
  /\ stack # << >> /\ Top.at = "pump"
  /\ \/ /\ caller[Top.for] = "returned"
        /\ stack' = Pop
        /\ UNCHANGED <<chanVars, overtaken>>
     \/ TakeFast(At("check"))
     \/ TakeTask(At("check"))
  /\ UNCHANGED <<fdVars, loopVars, callVars, ctxVars, reply, runs>>

----------------------------------------------------------------------------
(* Run.  "fast" and "fastMore" are drainFast before and after its first    *)
(* task; pump callbacks are left out.                                      *)

InLoop(place) == stack = << >> /\ loop = place
LoopTo(place) == loop' = place /\ UNCHANGED rounds
loopFrame == <<fdVars, callVars, ctxVars, reply, runs>>

(* Mutant: the fast channel is not drained before the select.              *)
RunTopNoFast ==
  /\ InLoop("top")
  /\ LoopTo(IF cancelled THEN "drain" ELSE "select")
  /\ UNCHANGED <<chanVars, stack, overtaken, loopFrame>>

RunTop ==
  /\ InLoop("top")
  /\ LoopTo(IF cancelled THEN "drain" ELSE "fast")
  /\ UNCHANGED <<chanVars, stack, overtaken, loopFrame>>

RunDrainFast ==
  /\ InLoop("fast") \/ InLoop("fastMore")
  /\ \/ TakeFast(stack) /\ LoopTo("fastMore")
     \/ /\ fastChan = << >>
        /\ LoopTo(IF loop = "fastMore" THEN "top" ELSE "select")
        /\ UNCHANGED <<chanVars, stack, overtaken>>
  /\ UNCHANGED loopFrame

RunSelectTask ==
  /\ InLoop("select")
  /\ TakeFast(stack) \/ TakeTask(stack)
  /\ LoopTo("top")
  /\ UNCHANGED loopFrame

RunSelectOther ==
  /\ InLoop("select")
  /\ LoopTo("top") \/ (cancelled /\ LoopTo("drain"))
  /\ UNCHANGED <<chanVars, stack, overtaken, loopFrame>>

----------------------------------------------------------------------------
(* RunEpoll.                                                               *)

EpollInstall ==
  /\ InLoop("install")
  /\ waker' = TRUE
  /\ LoopTo("wait")
  /\ UNCHANGED <<chanVars, stack, overtaken, shutdownFD, taskFD, callVars,
                 ctxVars, reply, runs>>

(* epoll_wait returns, the task eventfd is read empty; a shutdown comes    *)
(* before everything else.  The heartbeat timer may fire at any time.      *)
EpollWait ==
  /\ InLoop("wait")
  /\ \E heartbeat \in BOOLEAN :
       /\ heartbeat \/ taskFD \/ shutdownFD
       /\ loop' = IF shutdownFD THEN "drain" ELSE "serveFast"
       /\ rounds' = IF shutdownFD THEN 0
                    ELSE IF heartbeat /\ taskFD THEN 2 ELSE 1
  /\ taskFD' = FALSE
  /\ UNCHANGED <<chanVars, stack, overtaken, shutdownFD, waker, callVars,
                 ctxVars, reply, runs>>

EpollServeFast ==
  /\ InLoop("serveFast")
  /\ \/ TakeFast(stack) /\ LoopTo("serveFast")
     \/ /\ fastChan = << >>
        /\ LoopTo("serveTask")
        /\ UNCHANGED <<chanVars, stack, overtaken>>
  /\ UNCHANGED loopFrame

(* Mutant: the task eventfd is read empty after the channels, not before.  *)
EpollServeTaskReadsLate ==
  /\ InLoop("serveTask")
  /\ \/ TakeTask(stack) /\ LoopTo("serveFast") /\ UNCHANGED taskFD
     \/ /\ taskChan = << >>
        /\ rounds' = rounds - 1
        /\ loop' = IF rounds > 1 THEN "serveFast" ELSE "wait"
        /\ taskFD' = FALSE
        /\ UNCHANGED <<chanVars, stack, overtaken>>
  /\ UNCHANGED <<shutdownFD, waker, callVars, ctxVars, reply, runs>>

EpollServeTask ==
  /\ InLoop("serveTask")
  /\ \/ TakeTask(stack) /\ LoopTo("serveFast")
     \/ /\ taskChan = << >>
        /\ rounds' = rounds - 1
        /\ loop' = IF rounds > 1 THEN "serveFast" ELSE "wait"
        /\ UNCHANGED <<chanVars, stack, overtaken>>
  /\ UNCHANGED loopFrame

----------------------------------------------------------------------------
(* The end of Run and RunEpoll.                                            *)

(* drain: every queued task is rejected, to t.done and to the async ch.    *)
DrainReject ==
  /\ InLoop("drain")
  /\ \/ /\ fastChan # << >>
        /\ fastChan' = Tail(fastChan) /\ Send(Head(fastChan), "shutdown")
        /\ UNCHANGED taskChan
     \/ /\ taskChan # << >>
        /\ taskChan' = Tail(taskChan) /\ Send(Head(taskChan), "shutdown")
        /\ UNCHANGED fastChan
  /\ UNCHANGED <<fdVars, loopVars, callVars, ctxVars, stack, runs, overtaken>>

DrainEnd ==
  /\ InLoop("drain")
  /\ fastChan = << >> /\ taskChan = << >>
  /\ LoopTo("closing")
  /\ UNCHANGED <<chanVars, stack, overtaken, loopFrame>>

(* The deferred setWakeupFunc(nil), closed eventfds, and close(d.stopped). *)
ClearWaker ==
  /\ InLoop("closing")
  /\ waker' = FALSE
  /\ LoopTo("closed")
  /\ UNCHANGED <<chanVars, stack, overtaken, shutdownFD, taskFD, callVars,
                 ctxVars, reply, runs>>

Stop ==
  /\ InLoop("closed")
  /\ LoopTo("stopped")
  /\ taskFD' = FALSE
  /\ UNCHANGED <<chanVars, stack, overtaken, shutdownFD, waker, callVars,
                 ctxVars, reply, runs>>

----------------------------------------------------------------------------
(* The host's loop: PumpOnce, a fast task first, then whatever there is.   *)

PumpOnceFast ==
  /\ InLoop("host")
  /\ \/ TakeFast(stack) /\ LoopTo("host")
     \/ /\ fastChan = << >>
        /\ LoopTo("hostSelect")
        /\ UNCHANGED <<chanVars, stack, overtaken>>
  /\ UNCHANGED loopFrame

PumpOnceSelect ==
  /\ InLoop("hostSelect")
  /\ \/ TakeFast(stack)
     \/ TakeTask(stack)
  /\ LoopTo("host")
  /\ UNCHANGED loopFrame

PumpOnceTimeout ==
  /\ InLoop("hostSelect")
  /\ LoopTo("host")
  /\ UNCHANGED <<chanVars, stack, overtaken, loopFrame>>

----------------------------------------------------------------------------
Call(t) ==
  \/ \E isFast \in BOOLEAN : Submit(t, isFast)
  \/ Enqueue(t) \/ Refuse(t) \/ ReadWaker(t) \/ WriteTaskFD(t)
  \/ Await(t) \/ Recheck(t)

Execute == Start \/ Finish \/ End \/ PumpCheck \/ PumpSelect

Loop ==
  \/ RunTop \/ RunDrainFast \/ RunSelectTask \/ RunSelectOther
  \/ EpollInstall \/ EpollWait \/ EpollServeFast \/ EpollServeTask
  \/ DrainReject \/ DrainEnd \/ ClearWaker \/ Stop
  \/ PumpOnceFast \/ PumpOnceSelect \/ PumpOnceTimeout

Next ==
  \/ \E t \in Tasks : Call(t)
  \/ \E t \in AsyncTasks : CancelTask(t)
  \/ Cancel \/ WriteShutdownFD
  \/ Execute \/ Loop
  \/ \E u \in Spawned : PumpUntil(u)

Spec == Init /\ [][Next]_vars

(***************************************************************************)
(* A caller that has submitted goes on, and so do the goroutines a         *)
(* PumpUntil waits for; guest functions return.  The Golden Thread keeps   *)
(* turning its loop, the heartbeat keeps firing.  Go's select chooses at   *)
(* random among the ready cases, so a ready task is not passed over for    *)
(* ever in favour of the ticker or a timeout: strong fairness.             *)
(***************************************************************************)
Proceed(t) ==
  \/ Enqueue(t) \/ Refuse(t) \/ ReadWaker(t) \/ WriteTaskFD(t)
  \/ Await(t) \/ Recheck(t)

Fairness ==
  /\ \A t \in Tasks : WF_vars(Proceed(t))
  /\ \A u \in Spawned : WF_vars(\E isFast \in BOOLEAN : Submit(u, isFast))
  /\ WF_vars(Execute) /\ WF_vars(Loop) /\ WF_vars(WriteShutdownFD)
  /\ SF_vars(RunSelectTask) /\ SF_vars(PumpOnceSelect)

FairSpec == Spec /\ Fairness

----------------------------------------------------------------------------
(* Properties                                                              *)

LoopPlaces == {"top", "fast", "fastMore", "select",
               "install", "wait", "serveFast", "serveTask",
               "drain", "closing", "closed", "stopped", "host", "hostSelect"}
CallerPlaces == {"idle", "sending", "waking", "writing", "waiting", "recheck",
                 "returned"}

(* The type of every variable; in particular no second value is ever sent  *)
(* to a caller's channel of capacity one, which would block the Golden     *)
(* Thread for ever.                                                        *)
TypeOK ==
  /\ taskChan \in Seq(Tasks) /\ Len(taskChan) <= TaskCapacity
  /\ fastChan \in Seq(Tasks) /\ Len(fastChan) <= FastCapacity
  /\ loop \in LoopPlaces /\ rounds \in 0..2
  /\ stack \in Seq(Frame)
  /\ cancelled \in BOOLEAN /\ ctxDone \in [Tasks -> BOOLEAN]
  /\ shutdownFD \in BOOLEAN /\ taskFD \in BOOLEAN /\ waker \in BOOLEAN
  /\ caller \in [Tasks -> CallerPlaces]
  /\ fast \in [Tasks -> BOOLEAN]
  /\ reply \in [Tasks -> {<< >>} \cup {<<o>> : o \in Outcome}]
  /\ told \in [Tasks -> Outcome \cup {"none"}]
  /\ runs \in [Tasks -> Nat]
  /\ overtaken \in [Tasks -> Nat]
  /\ quiet \subseteq Tasks

(* What the submitter of a task knows about it.                            *)
Answer(t) == IF t \in SyncTasks THEN told[t]
             ELSE IF reply[t] = << >> THEN "none" ELSE reply[t][1]

(* A task's function is started at most once, and what the submitter is    *)
(* told is the truth, now and later: ErrShutdown or the context's error    *)
(* means that the function has not run and will not, anything else that    *)
(* it has.                                                                 *)
AnswersAreTrue ==
  \A t \in Tasks :
    /\ runs[t] <= 1
    /\ Answer(t) = "done" => runs[t] = 1
    /\ Answer(t) \in {"shutdown", "cancelled"} => runs[t] = 0

Queued(t) == \/ \E i \in 1..Len(taskChan) : taskChan[i] = t
             \/ \E i \in 1..Len(fastChan) : fastChan[i] = t

(* No wakeup is lost: while RunEpoll sleeps, a queued task has made the    *)
(* eventfd readable, or its submitter is about to, or it was submitted     *)
(* before wakeupFunc was set, which is what the heartbeat is for.          *)
QueuedTasksAreSignalled ==
  \A t \in Tasks :
    (loop = "wait" /\ Queued(t)) =>
       taskFD \/ t \in quiet \/ caller[t] \in {"waking", "writing"}

(* "Fast tasks are always drained before normal tasks on every dispatcher  *)
(* cycle": a task that has reached the fast channel is passed by at most   *)
(* one normal task of the loop, the one its last select had chosen.        *)
FastIsOvertakenAtMostOnce == \A t \in Tasks : overtaken[t] <= 1

(* Everybody who calls RunOnMain returns, also when the Golden Thread      *)
(* waits in PumpUntil for the very goroutine that makes the call, and also *)
(* during a shutdown.                                                      *)
SyncCallsReturn ==
  \A t \in SyncTasks : caller[t] = "sending" ~> caller[t] = "returned"

(* A cancelled Run or RunEpoll stops, so that WaitForStop returns.         *)
CancelledStops == (cancelled /\ loop \notin {"host", "hostSelect"}) ~> Stopped

(* Nobody waits for ever, neither a caller nor who waits for the loop.     *)
NobodyWaitsForEver == SyncCallsReturn /\ CancelledStops

RunningNow(t) ==
  \E i \in 1..Depth : stack[i].task = t /\ stack[i].at = "running"

Stage ==
  [t \in Tasks |->
     IF runs[t] > 0 THEN IF RunningNow(t) THEN "running" ELSE "completed"
     ELSE IF reply[t] # << >> \/ told[t] # "none" THEN "refused"
     ELSE IF caller[t] = "idle" THEN "new" ELSE "pending"]

Nest == [i \in 1..Depth |-> stack[i].task]

Golden == INSTANCE GoldenThread WITH stage <- Stage, nest <- Nest

(* The dispatcher implements a thread that executes every task once or     *)
(* refuses it for good, innermost first.                                   *)
ImplementsGoldenThread == Golden!Spec
=============================================================================
