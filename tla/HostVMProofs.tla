---------------------------- MODULE HostVMProofs ----------------------------
(***************************************************************************)
(* Proofs about HostVM, for any calls, runtimes and goroutines that call   *)
(* Shutdown, with or without timeouts: code runs only in runtimes that are *)
(* up, a task's timeout interrupts the runtime the task is in, and one     *)
(* Shutdown at most tears down, in the reverse order of the start; and     *)
(* about Watchdog, which interrupts an execution that takes too long, for  *)
(* any nesting of executions: it fires as it was armed last, and what an   *)
(* inner execution changes is put back for the one around it.              *)
(***************************************************************************)
EXTENDS HostVM, Watchdog, TLAPS

----------------------------------------------------------------------------
(* Sequences                                                               *)

(* A sequence without its last element.                                   *)
LEMMA Fronted ==
  ASSUME NEW S, NEW s \in Seq(S), s # << >>, NEW t, t = Front(s)
  PROVE  /\ t \in Seq(S) /\ Len(t) = Len(s) - 1 /\ DOMAIN t = DOMAIN s \ {Len(s)}
         /\ \A j \in DOMAIN t : t[j] = s[j]
  <1>1. Len(s) \in Nat /\ Len(s) >= 1 /\ DOMAIN s = 1..Len(s)
    OBVIOUS
  <1>2. Len(s) - 1 \in Nat /\ \A j \in 1..Len(s) - 1 : j \in DOMAIN s /\ s[j] \in S
    BY <1>1
  <1>3. t = SubSeq(s, 1, Len(s) - 1)
    BY DEF Front
  <1>4. t = [j \in 1..Len(s) - 1 |-> s[j]]
    BY <1>1, <1>3
  <1>5. Len(t) = Len(s) - 1 /\ t \in Seq(S)
    BY <1>2, <1>4
  <1> QED BY <1>1, <1>4, <1>5

(* The last element of a sequence.                                         *)
LEMMA LastOf ==
  ASSUME NEW S, NEW s \in Seq(S), s # << >>
  PROVE  Len(s) \in DOMAIN s /\ Last(s) = s[Len(s)] /\ Last(s) \in S
  BY DEF Last

----------------------------------------------------------------------------
(* The invariant                                                           *)

Early(k) == closer[k] \in {"cancel", "wait", "hooks"}
Busy(k) == Early(k) \/ closer[k] = "teardown"

(* A Shutdown that does anything is the only one, and code in runtimes is  *)
(* over when it tears down.                                                *)
Closing ==
  /\ ~started => ~shutdown /\ loop = "none"
  /\ ~shutdown => \A k \in Closers : closer[k] = "idle"
  /\ \A k, l \in Closers : Busy(k) /\ Busy(l) => k = l
  /\ \A k \in Closers : closer[k] \in {"hooks", "teardown"} => loop = "stopped"
  /\ started /\ alive # Runtimes =>
       shutdown /\ loop = "stopped" /\ \A k \in Closers : ~Early(k)

(* What is left to tear down is what is alive, unless a failed Start has   *)
(* left its runtimes in initOrder.                                         *)
Clean == Len(initOrder) = Len(RegOrder)
Ordered ==
  /\ started /\ Clean => initOrder = RegOrder
  /\ \A k \in Closers : Early(k) => order = initOrder
  /\ \A k \in Closers : closer[k] = "teardown" /\ Clean =>
       IsInjective(order) /\ alive = Range(order)

(* A call that was made names a runtime; the task that runs is of such a   *)
(* call, and what is active is its runtime.                                *)
Made(c) == call[c].at # "unmade"
Task ==
  /\ \A c \in Calls : Made(c) => Rt(c) \in Runtimes
  /\ \A c \in queued : Made(c)
  /\ running = NoCall => step = "none" /\ active = NoRuntime
  /\ running # NoCall => /\ loop = "serving" /\ Made(running)
                         /\ active \in {NoRuntime, Rt(running)}

Timers == ~TaskTimed => \A c \in Calls : timer[c] = "off"

(* TypeOK, in the parts that steps leave alone or disturb together.        *)
Progress == {"unmade", "checked", "refused", "submitting", "waiting",
             "answered", "abandoned"}
CallTypes == [op : {"none", "call", "batch", "execute"},
              rt : Runtimes \cup {NoRuntime}, ctx : {"none", "live", "done"},
              runaway : BOOLEAN, at : Progress]
VMTypes ==
  /\ started \in BOOLEAN /\ shutdown \in BOOLEAN
  /\ initOrder \in Seq(Runtimes) /\ order \in Seq(Runtimes)
  /\ alive \subseteq Runtimes
  /\ closer \in [Closers -> {"idle", "cancel", "wait", "hooks", "teardown",
                             "nil", "timeout"}]
LoopTypes ==
  /\ cancelled \subseteq {"vm", "merged"}
  /\ loop \in {"none", "serving", "draining", "drained", "stopped"}
  /\ queued \subseteq Calls /\ running \in Calls \cup {NoCall}
  /\ step \in {"none", "set", "eval", "after"} /\ item \in 0..Items
  /\ active \in Runtimes \cup {NoRuntime} /\ pending \subseteq Runtimes
  /\ answer \in [Calls -> {"none", "result", "shutdown", "ctx"}]
  /\ lost \subseteq Calls
TimerTypes == timer \in [Calls -> {"off", "timing"} \cup Runtimes]
Types == VMTypes /\ LoopTypes /\ call \in [Calls -> CallTypes] /\ TimerTypes

Inv == Types /\ Closing /\ Ordered /\ Task /\ Timers /\ TimeoutHitsItsTask

LEMMA TypesAre == Types <=> TypeOK
  BY DEF Types, TypeOK, VMTypes, LoopTypes, TimerTypes, CallTypes, Progress

LEMMA Names == /\ RegOrder \in Seq(Runtimes) /\ IsInjective(RegOrder)
               /\ NoRuntime \notin Runtimes /\ NoCall \notin Calls
               /\ Runtimes \cap {"off", "timing"} = {}
               /\ Runtimes = Range(RegOrder) /\ Items \in Nat /\ Items >= 1
  BY HostVMAssumption DEF Runtimes

(* Without its last element, a sequence without repetitions has all but it. *)
LEMMA FrontOfInjective ==
  ASSUME NEW S, NEW s \in Seq(S), s # << >>, IsInjective(s)
  PROVE  IsInjective(Front(s)) /\ Range(Front(s)) = Range(s) \ {Last(s)}
  <1> DEFINE t == Front(s)
  <1>1. /\ t \in Seq(S) /\ DOMAIN t = DOMAIN s \ {Len(s)}
        /\ \A j \in DOMAIN t : t[j] = s[j]
    BY Fronted
  <1>2. Len(s) \in DOMAIN s /\ Last(s) = s[Len(s)]
    BY LastOf
  <1>3. IsInjective(t)
    BY <1>1 DEF IsInjective
  <1>4. Range(t) = Range(s) \ {Last(s)}
    BY <1>1, <1>2 DEF IsInjective, Range
  <1> QED BY <1>3, <1>4

(* A call that is moved keeps its runtime.                                 *)
LEMMA Moved ==
  ASSUME call \in [Calls -> CallTypes], NEW c \in Calls, NEW at \in Progress, Goto(c, at)
  PROVE  /\ call' \in [Calls -> CallTypes]
         /\ \A d \in Calls : Rt(d)' = Rt(d)
         /\ \A d \in Calls : call'[d].at = IF d = c THEN at ELSE call[d].at
  BY DEF Goto, CallTypes, Rt

LEMMA InvInit == ASSUME Init PROVE Inv
  <1>1. Types
    <2>1. << >> \in Seq(Runtimes) /\ 0 \in 0..Items
      BY Names
    <2>2. call \in [Calls -> CallTypes]
      BY DEF Init, Unmade, CallTypes, Progress
    <2> QED BY <2>1, <2>2 DEF Types, Init, VMTypes, LoopTypes, TimerTypes
  <1>2. Closing /\ Ordered
    BY DEF Init, Closing, Ordered, Early, Busy
  <1>3. Task /\ Timers /\ TimeoutHitsItsTask
    BY Names DEF Init, Task, Timers, TimeoutHitsItsTask, Made, Unmade
  <1> QED BY <1>1, <1>2, <1>3 DEF Inv

----------------------------------------------------------------------------
(* Start and Run                                                           *)

LEMMA StartStep == ASSUME Inv, Start PROVE Inv'
  <1> USE DEF Inv
  <1>1. PICK n \in 0..Len(RegOrder) :
          /\ initOrder' = initOrder \o SubSeq(RegOrder, 1, n)
          /\ started' = (n = Len(RegOrder))
          /\ alive' = IF started' THEN Runtimes ELSE {}
    BY DEF Start
  <1>2. UNCHANGED <<shutdown, cancelled, loopVars, taskVars, call, answer,
                    timeVars, closeVars, lost>> /\ ~started
    BY DEF Start
  <1>3. /\ SubSeq(RegOrder, 1, n) \in Seq(Runtimes)
        /\ initOrder' \in Seq(Runtimes)
        /\ Len(initOrder') = Len(initOrder) + n /\ n \in Nat /\ Len(initOrder) \in Nat
    BY <1>1, Names DEF Types, VMTypes
  <1>4. Types'
    BY <1>1, <1>2, <1>3
       DEF Types, VMTypes, LoopTypes, TimerTypes, loopVars, taskVars, timeVars, closeVars
  <1>5. Closing'
    BY <1>1, <1>2 DEF Closing, Early, Busy, loopVars, closeVars
  <1>6. Ordered'
    <2>1. started' /\ Clean' => initOrder' = RegOrder
      <3> SUFFICES ASSUME started', Clean' PROVE initOrder' = RegOrder
        OBVIOUS
      <3>0. n = Len(RegOrder)
        BY <1>1
      <3>1. Len(initOrder) = 0
        BY <1>3, <3>0 DEF Clean
      <3>2. initOrder = << >> /\ SubSeq(RegOrder, 1, n) = RegOrder
        BY <3>0, <3>1, Names DEF Types, VMTypes
      <3> QED BY <1>1, <3>2, Names
    <2>2. \A k \in Closers : closer'[k] = "idle"
      BY <1>2 DEF Closing, closeVars
    <2> QED BY <2>1, <2>2 DEF Ordered, Early
  <1>7. (Task /\ Timers /\ TimeoutHitsItsTask)'
    BY <1>2 DEF Task, Timers, TimeoutHitsItsTask, Made, Rt, loopVars, taskVars, timeVars
  <1> QED BY <1>4, <1>5, <1>6, <1>7

LEMMA RunStep == ASSUME Inv, Run \/ CancelMerged PROVE Inv'
  <1> USE DEF Inv, vmVars, loopVars, taskVars, timeVars, closeVars, Run, CancelMerged
  <1>1. Types'
    BY DEF Types, VMTypes, LoopTypes, TimerTypes
  <1>2. Closing' /\ Ordered'
    BY DEF Closing, Ordered, Early, Busy, Clean
  <1>3. (Task /\ Timers /\ TimeoutHitsItsTask)'
    BY DEF Task, Timers, TimeoutHitsItsTask, Made, Rt
  <1> QED BY <1>1, <1>2, <1>3

----------------------------------------------------------------------------
(* Calls                                                                   *)

(* The VM is as it was.                                                    *)
LEMMA VMKept ==
  ASSUME Closing, Ordered, UNCHANGED <<vmVars, closeVars>>, UNCHANGED loop
  PROVE  Closing' /\ Ordered'
  BY DEF Closing, Ordered, Early, Busy, Clean, vmVars, closeVars

LEMMA MakeStep == ASSUME Inv, NEW c \in Calls, Make(c) PROVE Inv'
  <1> USE DEF Inv
  <1>1. PICK r \in Menu[c] : call' = [call EXCEPT ![c] =
          [op |-> r.op, rt |-> r.rt, ctx |-> r.ctx, runaway |-> r.runaway,
           at |-> IF started /\ ~shutdown THEN "checked" ELSE "refused"]]
    BY DEF Make
  <1>2. r \in Requests
    BY HostVMAssumption
  <1>3. UNCHANGED <<vmVars, cancelled, loopVars, taskVars, answer, timeVars,
                    closeVars, lost>> /\ ~Made(c)
    BY DEF Make, Made
  <1>4. call' \in [Calls -> CallTypes] /\ Rt(c)' \in Runtimes
        /\ \A d \in Calls : d # c => call'[d] = call[d]
    BY <1>1, <1>2 DEF Types, CallTypes, Progress, Requests, Rt
  <1>5. Types'
    BY <1>3, <1>4
       DEF Types, VMTypes, LoopTypes, TimerTypes, vmVars, loopVars, taskVars, timeVars, closeVars
  <1>6. Closing' /\ Ordered'
    BY <1>3, VMKept DEF loopVars
  <1>7. (Task /\ Timers /\ TimeoutHitsItsTask)'
    BY <1>3, <1>4, Names
       DEF Types, Task, Timers, TimeoutHitsItsTask, Made, Rt, loopVars, taskVars, timeVars, LoopTypes
  <1> QED BY <1>5, <1>6, <1>7

(* A call goes on, and may put its task in a queue.                        *)
LEMMA CallMoves ==
  ASSUME Inv, NEW c \in Calls, Made(c) \/ UNCHANGED queued,
         call' \in [Calls -> CallTypes],
         \A d \in Calls : Rt(d)' = Rt(d) /\ Made(d)' = Made(d),
         UNCHANGED <<vmVars, cancelled, loop, running, taskVars, timeVars, closeVars>>,
         queued' \subseteq queued \cup {c},
         answer' \in [Calls -> {"none", "result", "shutdown", "ctx"}],
         lost' \subseteq Calls
  PROVE  Inv'
  <1> USE DEF Inv
  <1>1. Types'
    BY DEF Types, VMTypes, LoopTypes, TimerTypes, vmVars, taskVars, timeVars, closeVars
  <1>2. Closing' /\ Ordered'
    BY VMKept
  <1>3. (Task /\ Timers /\ TimeoutHitsItsTask)'
    BY DEF Types, Task, Timers, TimeoutHitsItsTask, taskVars, timeVars, LoopTypes
  <1> QED BY <1>1, <1>2, <1>3

LEMMA ExpireStep == ASSUME Inv, NEW c \in Calls, Expire(c) PROVE Inv'
  <1>1. /\ call' \in [Calls -> CallTypes]
        /\ \A d \in Calls : Rt(d)' = Rt(d) /\ Made(d)' = Made(d)
    BY DEF Types, Inv, Expire, CallTypes, Rt, Made
  <1> QED BY <1>1, CallMoves DEF Types, Expire, Inv, LoopTypes, loopVars

LEMMA CallGoesOn == ASSUME Inv, NEW c \in Calls, CallStep(c) PROVE Inv'
  <1> USE DEF Inv
  <1>1. ASSUME NEW at \in Progress \ {"unmade"}, Goto(c, at), Made(c)
        PROVE  /\ call' \in [Calls -> CallTypes]
               /\ \A d \in Calls : Rt(d)' = Rt(d) /\ Made(d)' = Made(d)
    BY <1>1, Moved DEF Types, Made
  <1>2. answer \in [Calls -> {"none", "result", "shutdown", "ctx"}] /\ lost \subseteq Calls
    BY DEF Types, LoopTypes
  <1>3. CASE LookAtContext(c)
    <2>1. PICK at \in {"abandoned", "submitting"} : Goto(c, at)
      BY <1>3 DEF LookAtContext
    <2>2. Made(c) /\ at \in Progress \ {"unmade"}
      BY <1>3 DEF LookAtContext, Made, Progress
    <2> QED BY <1>1, <1>2, <1>3, <2>1, <2>2, CallMoves DEF LookAtContext, loopVars
  <1>4. CASE Await(c)
    <2>1. PICK at \in {"answered", "abandoned"} : Goto(c, at)
      BY <1>4 DEF Await
    <2>2. Made(c) /\ at \in Progress \ {"unmade"}
      BY <1>4 DEF Await, Made, Progress
    <2> QED BY <1>1, <1>2, <1>4, <2>1, <2>2, CallMoves DEF Await, loopVars
  <1>5. CASE Submit(c)
    <2>1. Goto(c, "waiting") /\ Made(c) /\ "waiting" \in Progress \ {"unmade"}
      BY <1>5 DEF Submit, Made, Progress
    <2>2. /\ queued' \subseteq queued \cup {c} /\ lost' \subseteq Calls
          /\ answer' \in [Calls -> {"none", "result", "shutdown", "ctx"}]
      BY <1>2, <1>5 DEF Submit
    <2> QED BY <1>1, <1>5, <2>1, <2>2, CallMoves DEF Submit
  <1> QED BY <1>3, <1>4, <1>5 DEF CallStep

----------------------------------------------------------------------------
(* The Golden Thread                                                       *)

(* The loop and its task go on.                                            *)
LEMMA LoopMoves ==
  ASSUME Inv, UNCHANGED <<vmVars, cancelled, call, closeVars>>, LoopTypes', TimerTypes',
         Closing', Task', Timers', TimeoutHitsItsTask'
  PROVE  Inv'
  <1>1. Types'
    BY DEF Inv, Types, VMTypes, vmVars, closeVars
  <1>2. Ordered'
    BY DEF Inv, Ordered, Early, Clean, vmVars, closeVars
  <1> QED BY <1>1, <1>2 DEF Inv

LEMMA ServeStep == ASSUME Inv, NEW c \in Calls, Serve(c) PROVE Inv'
  <1> USE DEF Inv
  <1>1. Closing'
    BY DEF Serve, Closing, Early, Busy, vmVars, closeVars
  <1>2. LoopTypes' /\ TimerTypes'
    BY Names DEF Serve, Types, LoopTypes, TimerTypes
  <1>3. CASE TaskCancelled(c)
    <2>1. UNCHANGED <<running, step, active, loop, timer, call>> /\ queued' \subseteq queued
      BY <1>3 DEF Serve
    <2>2. (Task /\ Timers /\ TimeoutHitsItsTask)'
      BY <2>1 DEF Task, Timers, TimeoutHitsItsTask, Made, Rt
    <2> QED BY <1>1, <1>2, <2>2, LoopMoves DEF Serve
  <1>4. CASE ~TaskCancelled(c)
    <2>1. /\ running' = c /\ step' = "set" /\ loop = "serving" /\ Made(c)
          /\ active = NoRuntime /\ running = NoCall /\ queued' \subseteq queued
          /\ UNCHANGED <<active, loop, call>>
          /\ timer' = IF TaskTimed THEN [timer EXCEPT ![c] = "timing"] ELSE timer
      BY <1>4 DEF Serve, Task
    <2>2. Task'
      BY <2>1, Names DEF Task, Made, Rt
    <2>3. Timers' /\ TimeoutHitsItsTask'
      BY <2>1, Names DEF Timers, TimeoutHitsItsTask, Types, TimerTypes
    <2> QED BY <1>1, <1>2, <2>2, <2>3, LoopMoves DEF Serve
  <1> QED BY <1>3, <1>4

LEMMA TaskGoesOn == ASSUME Inv, TaskStep \/ Panic PROVE Inv'
  <1> USE DEF Inv
  <1>1. /\ running \in Calls /\ running # NoCall /\ loop = "serving" /\ Made(running)
        /\ Rt(running) \in Runtimes
    BY Names DEF TaskStep, SetActive, Eval, AfterCall, Panic, Types, LoopTypes, Task
  <1>2. UNCHANGED <<vmVars, cancelled, loop, queued, call, timer, closeVars>>
    BY DEF TaskStep, SetActive, Eval, AfterCall, Panic, Finish, loopVars, timeVars
  <1>3. Closing' /\ TimerTypes'
    BY <1>2 DEF Closing, Early, Busy, vmVars, closeVars, Types, TimerTypes
  <1>4. Timers'
    BY <1>2 DEF Timers
  <1>5. CASE SetActive
    <2>1. running' = running /\ step' = "eval" /\ active' \in {NoRuntime, Rt(running)}
      BY <1>5 DEF SetActive, loopVars
    <2>2. LoopTypes'
      BY <1>1, <1>5, <2>1 DEF SetActive, Types, LoopTypes, loopVars, timeVars
    <2>3. Task' /\ TimeoutHitsItsTask'
      BY <1>1, <1>2, <2>1, Names DEF Task, TimeoutHitsItsTask, Made, Rt
    <2> QED BY <1>2, <1>3, <1>4, <2>2, <2>3, LoopMoves
  <1>6. CASE Eval
    <2>1. running' = running /\ step' \in {"eval", "after"} /\ active' = active
      BY <1>6 DEF Eval, loopVars
    <2>2. item' \in 0..Items /\ pending' \subseteq Runtimes
      BY <1>6, Names DEF Eval, EndsBySelf, EndsByInterrupt, Types, LoopTypes
    <2>3. LoopTypes'
      BY <1>1, <1>2, <1>6, <2>1, <2>2 DEF Eval, Types, LoopTypes
    <2>4. Task' /\ TimeoutHitsItsTask'
      BY <1>1, <1>2, <2>1, Names DEF Task, TimeoutHitsItsTask, Made, Rt
    <2> QED BY <1>2, <1>3, <1>4, <2>3, <2>4, LoopMoves
  <1>7. CASE AfterCall \/ Panic
    <2>1. running' = NoCall /\ step' = "none" /\ item' = 0 /\ active' = NoRuntime
      BY <1>7 DEF AfterCall, Panic, Finish
    <2>2. /\ pending' \subseteq Runtimes /\ lost' \subseteq Calls
          /\ answer' \in [Calls -> {"none", "result", "shutdown", "ctx"}]
      BY <1>1, <1>7 DEF AfterCall, Panic, EndsByInterrupt, Types, LoopTypes
    <2>3. LoopTypes'
      BY <1>2, <2>1, <2>2, Names DEF Types, LoopTypes
    <2>4. Task' /\ TimeoutHitsItsTask'
      BY <1>2, <2>1, Names DEF Task, TimeoutHitsItsTask, Made, Rt
    <2> QED BY <1>2, <1>3, <1>4, <2>3, <2>4, LoopMoves
  <1> QED BY <1>5, <1>6, <1>7 DEF TaskStep

LEMMA LoopEnds ==
  ASSUME Inv, StopServing \/ DrainEnd \/ (\E c \in Calls : DrainReject(c)) PROVE Inv'
  <1> USE DEF Inv
  <1>1. /\ UNCHANGED <<vmVars, cancelled, running, taskVars, call, timeVars, closeVars, lost>>
        /\ queued' \subseteq queued /\ loop # "none" /\ running = NoCall
        /\ loop' \in {"draining", "drained", "stopped"}
        /\ loop = "stopped" => loop' = "stopped"
        /\ answer' \in [Calls -> {"none", "result", "shutdown", "ctx"}]
    BY DEF StopServing, DrainEnd, DrainReject, Types, LoopTypes, Task
  <1>2. LoopTypes' /\ TimerTypes'
    BY <1>1 DEF Types, LoopTypes, TimerTypes, taskVars, timeVars
  <1>3. Closing'
    BY <1>1 DEF Closing, Early, Busy, vmVars, closeVars
  <1>4. (Task /\ Timers /\ TimeoutHitsItsTask)'
    BY <1>1 DEF Task, Timers, TimeoutHitsItsTask, Made, Rt, taskVars, timeVars
  <1> QED BY <1>1, <1>2, <1>3, <1>4, LoopMoves

----------------------------------------------------------------------------
(* The timers                                                              *)

(* A timer that goes off reads the runtime of the task that runs, which is *)
(* its own task's or that of a later one.                                  *)
LEMMA TimerGoesOn ==
  ASSUME Inv, NEW c \in Calls, TimerStep(c) \/ TimerEnds(c) PROVE Inv'
  <1> USE DEF Inv
  <1>1. /\ UNCHANGED <<vmVars, cancelled, loopVars, taskVars, call, answer, closeVars, lost>>
        /\ pending' \subseteq Runtimes
    BY DEF TimerStep, TimerFires, TimerRaises, TimerEnds, Types, LoopTypes
  <1>2. Closing' /\ Task' /\ LoopTypes'
    BY <1>1, VMKept DEF Task, Made, Rt, Types, LoopTypes, loopVars, taskVars
  <1>3. PICK r : timer' = [timer EXCEPT ![c] = r]
    BY DEF TimerStep, TimerFires, TimerRaises, TimerEnds
  <1>4. timer' \in [Calls -> {"off", "timing"} \cup Runtimes]
    BY DEF TimerStep, TimerFires, TimerRaises, TimerEnds, Types, TimerTypes, LoopTypes
  <1>5. timer'[c] \in Runtimes => active # NoRuntime /\ timer'[c] = active
    BY Names DEF TimerStep, TimerFires, TimerRaises, TimerEnds, Types, TimerTypes
  <1>6. timer[c] # "off"
    BY Names DEF TimerStep, TimerFires, TimerRaises, TimerEnds
  <1>7. Timers'
    BY <1>6 DEF Timers
  <1>8. TimeoutHitsItsTask'
    <2> SUFFICES ASSUME NEW d \in Calls, running' = d, timer'[d] \in Runtimes
                 PROVE  timer'[d] = Rt(d)'
      BY DEF TimeoutHitsItsTask
    <2>1. running = d /\ Rt(d)' = Rt(d)
      BY <1>1 DEF loopVars, Rt
    <2>2. CASE d = c
      BY <1>5, <2>1, <2>2, Names DEF Task
    <2>3. CASE d # c
      BY <1>3, <2>1, <2>3 DEF TimeoutHitsItsTask, Types, TimerTypes
    <2> QED BY <2>2, <2>3
  <1> QED BY <1>1, <1>2, <1>4, <1>7, <1>8, LoopMoves DEF TimerTypes

----------------------------------------------------------------------------
(* Shutdown                                                                *)

(* A Shutdown goes on: calls, the loop and its task do not.                *)
LEMMA CloserMoves ==
  ASSUME Inv, VMTypes', cancelled' \subseteq {"vm", "merged"}, Closing', Ordered',
         UNCHANGED <<loopVars, taskVars, call, answer, timeVars, lost>>
  PROVE  Inv'
  <1>1. Types'
    BY DEF Inv, Types, LoopTypes, TimerTypes, loopVars, taskVars, timeVars
  <1>2. (Task /\ Timers /\ TimeoutHitsItsTask)'
    BY DEF Inv, Task, Timers, TimeoutHitsItsTask, Made, Rt, loopVars, taskVars, timeVars
  <1> QED BY <1>1, <1>2 DEF Inv

LEMMA ShutdownStarts == ASSUME Inv, NEW k \in Closers, ShutdownBegin(k) PROVE Inv'
  <1> USE DEF Inv
  <1>1. /\ UNCHANGED <<started, initOrder, alive, cancelled, loopVars,
                       taskVars, call, answer, timeVars, lost>>
        /\ started /\ ~Busy(k) /\ shutdown'
    BY DEF ShutdownBegin, Busy, Early
  <1>2. VMTypes' /\ cancelled' \subseteq {"vm", "merged"}
    BY <1>1 DEF ShutdownBegin, Types, VMTypes, LoopTypes
  <1>3. CASE shutdown
    <2>1. closer' = [closer EXCEPT ![k] = "nil"] /\ order' = order
      BY <1>3 DEF ShutdownBegin
    <2>2. \A l \in Closers : closer'[l] = IF l = k THEN "nil" ELSE closer[l]
      BY <2>1 DEF Types, VMTypes
    <2>3. Closing' /\ Ordered'
      BY <1>1, <1>3, <2>1, <2>2 DEF Closing, Ordered, Early, Busy, Clean, loopVars
    <2> QED BY <1>1, <1>2, <2>3, CloserMoves
  <1>4. CASE ~shutdown
    <2>1. closer' = [closer EXCEPT ![k] = "cancel"] /\ order' = initOrder
      BY <1>4 DEF ShutdownBegin
    <2>2. \A l \in Closers : closer'[l] = IF l = k THEN "cancel" ELSE "idle"
      BY <1>4, <2>1 DEF Types, VMTypes, Closing
    <2>3. Closing' /\ Ordered'
      BY <1>1, <1>4, <2>1, <2>2 DEF Closing, Ordered, Early, Busy, Clean, loopVars
    <2> QED BY <1>1, <1>2, <2>3, CloserMoves
  <1> QED BY <1>3, <1>4

(* The wait for the loop, with its timeout, and the hooks.                 *)
LEMMA ShutdownWaits ==
  ASSUME Inv, NEW k \in Closers,
         \/ ShutdownCancel(k) \/ ShutdownWait(k) \/ ShutdownGivesUp(k) \/ ShutdownHooks(k)
  PROVE  Inv'
  <1> USE DEF Inv
  <1>1. /\ UNCHANGED <<vmVars, loopVars, taskVars, call, answer, timeVars, order, lost>>
        /\ cancelled' \subseteq {"vm", "merged"} /\ Early(k)
    BY DEF ShutdownCancel, ShutdownWait, ShutdownGivesUp, ShutdownHooks, Early,
           Types, LoopTypes
  <1>2. PICK at \in {"wait", "hooks", "timeout", "teardown"} :
          /\ closer' = [closer EXCEPT ![k] = at]
          /\ at = "hooks" => loop = "stopped"
          /\ at = "teardown" => closer[k] = "hooks"
    BY DEF ShutdownCancel, ShutdownWait, ShutdownGivesUp, ShutdownHooks
  <1>3. \A l \in Closers : closer'[l] = IF l = k THEN at ELSE closer[l]
    BY <1>2 DEF Types, VMTypes
  <1>4. VMTypes'
    BY <1>1, <1>2 DEF Types, VMTypes, vmVars
  <1>5. started /\ shutdown /\ alive = Runtimes
    BY <1>1 DEF Closing, Early, Busy
  <1>6. Closing'
    BY <1>1, <1>2, <1>3, <1>5 DEF Closing, Early, Busy, vmVars, loopVars
  <1>7. Ordered'
    <2>1. order = initOrder
      BY <1>1 DEF Ordered
    <2>2. Clean => IsInjective(order) /\ alive = Range(order)
      BY <1>5, <2>1, Names DEF Ordered
    <2>3. Clean' = Clean /\ IsInjective(order') = IsInjective(order)
          /\ Range(order') = Range(order) /\ UNCHANGED <<started, alive, order, initOrder>>
      BY <1>1 DEF Clean, vmVars
    <2>4. \A l \in Closers : l # k => ~Busy(l)
      BY <1>1 DEF Closing, Busy
    <2>5. \A l \in Closers : l # k => ~Early(l)' /\ closer'[l] # "teardown"
      BY <1>3, <2>4 DEF Busy, Early
    <2> QED BY <2>1, <2>2, <2>3, <2>5 DEF Ordered
  <1> QED BY <1>1, <1>4, <1>6, <1>7, CloserMoves

(* Teardown takes the last runtime of order, or is over.                   *)
LEMMA TeardownStep == ASSUME Inv, NEW k \in Closers, ShutdownTeardown(k) PROVE Inv'
  <1> USE DEF Inv
  <1>1. /\ UNCHANGED <<started, shutdown, initOrder, cancelled, loopVars,
                       taskVars, call, answer, timeVars, lost>>
        /\ closer[k] = "teardown" /\ loop = "stopped" /\ started /\ shutdown
        /\ \A l \in Closers : l # k => ~Busy(l)
    BY DEF ShutdownTeardown, Closing, Busy, Early
  <1>2. CASE order = << >>
    <2>1. closer' = [closer EXCEPT ![k] = "nil"] /\ UNCHANGED <<alive, order>>
      BY <1>2 DEF ShutdownTeardown
    <2>2. \A l \in Closers : closer'[l] = IF l = k THEN "nil" ELSE closer[l]
      BY <2>1 DEF Types, VMTypes
    <2>3. VMTypes' /\ cancelled' \subseteq {"vm", "merged"}
      BY <1>1, <2>1 DEF Types, VMTypes, LoopTypes
    <2>4. Closing' /\ Ordered'
      BY <1>1, <2>1, <2>2 DEF Closing, Ordered, Early, Busy, Clean, loopVars
    <2> QED BY <1>1, <2>3, <2>4, CloserMoves
  <1>3. CASE order # << >>
    <2>1. /\ alive' = alive \ {Last(order)} /\ order' = Front(order)
          /\ UNCHANGED closer
      BY <1>3 DEF ShutdownTeardown
    <2>2. order \in Seq(Runtimes) /\ order' \in Seq(Runtimes)
      BY <1>3, <2>1, Fronted DEF Types, VMTypes
    <2>3. VMTypes' /\ cancelled' \subseteq {"vm", "merged"}
      BY <1>1, <2>1, <2>2 DEF Types, VMTypes, LoopTypes
    <2>4. Closing'
      BY <1>1, <2>1 DEF Closing, Early, Busy, loopVars
    <2>5. Clean => IsInjective(order') /\ alive' = Range(order')
      <3>1. Clean => IsInjective(order) /\ alive = Range(order)
        BY <1>1 DEF Ordered
      <3> QED BY <1>3, <2>1, <2>2, <3>1, FrontOfInjective
    <2>6. Ordered'
      BY <1>1, <2>1, <2>5 DEF Ordered, Clean, Early, Busy
    <2> QED BY <1>1, <2>3, <2>4, <2>6, CloserMoves
  <1> QED BY <1>2, <1>3

----------------------------------------------------------------------------
(* The theorems                                                            *)

LEMMA InvNext == ASSUME Inv, [Next]_vars PROVE Inv'
  <1>1. CASE Start
    BY <1>1, StartStep
  <1>2. CASE Run \/ Signal \/ Merge
    BY <1>2, RunStep DEF Signal, Merge
  <1>3. CASE TaskStep \/ Panic
    BY <1>3, TaskGoesOn
  <1>4. CASE LoopStep
    BY <1>4, ServeStep, LoopEnds DEF LoopStep
  <1>5. ASSUME NEW c \in Calls,
               \/ Make(c) \/ Expire(c) \/ CallStep(c) \/ TimerStep(c) \/ TimerEnds(c)
        PROVE  Inv'
    BY <1>5, MakeStep, ExpireStep, CallGoesOn, TimerGoesOn
  <1>6. ASSUME NEW k \in Closers,
               ShutdownBegin(k) \/ ShutdownGivesUp(k) \/ CloserStep(k)
        PROVE  Inv'
    BY <1>6, ShutdownStarts, ShutdownWaits, TeardownStep DEF CloserStep
  <1>7. CASE UNCHANGED vars
    <2> USE <1>7 DEF vars, vmVars, loopVars, taskVars, timeVars, closeVars
    <2>1. Types'
      BY DEF Inv, Types, VMTypes, LoopTypes, TimerTypes
    <2>2. Closing' /\ Ordered'
      BY VMKept DEF Inv
    <2>3. (Task /\ Timers /\ TimeoutHitsItsTask)'
      BY DEF Inv, Task, Timers, TimeoutHitsItsTask, Made, Rt
    <2> QED BY <2>1, <2>2, <2>3 DEF Inv
  <1> QED BY <1>1, <1>2, <1>3, <1>4, <1>5, <1>6, <1>7 DEF Next

LEMMA Invariance == Spec => []Inv
  <1> QED BY InvInit, InvNext, PTL DEF Spec

(* What New allocates keeps its type.                                      *)
THEOREM TypeCorrect == Spec => []TypeOK
  <1>1. Inv => TypeOK
    BY TypesAre DEF Inv
  <1> QED BY <1>1, Invariance, PTL

(* Calls, timeouts and shutdowns may overlap in any way: code is evaluated, *)
(* and hooks run, only while no runtime has been torn down, since a         *)
(* Shutdown that comes to its hooks is alone and finds the loop stopped.    *)
THEOREM OnlyLiveRuntimesRun == Spec => []NoCodeInDeadRuntimes
  <1>1. Inv => NoCodeInDeadRuntimes
    <2> SUFFICES ASSUME Inv PROVE NoCodeInDeadRuntimes
      OBVIOUS
    <2> USE DEF Inv
    <2>1. TypeOK
      BY TypesAre
    <2>2. step \in {"eval", "after"} => Rt(running) \in alive
      BY Names DEF Task, Closing, Types, LoopTypes
    <2>3. ASSUME NEW k \in Closers, closer[k] = "hooks"
          PROVE  Range(initOrder) \subseteq alive
      <3>1. alive = Runtimes /\ initOrder \in Seq(Runtimes)
        BY <2>3 DEF Closing, Early, Types, VMTypes
      <3> QED BY <3>1 DEF Range
    <2> QED BY <2>1, <2>2, <2>3 DEF NoCodeInDeadRuntimes
  <1> QED BY <1>1, Invariance, PTL

(* The timeout of a task that still runs interrupts its runtime, though the *)
(* timers of tasks that have ended may still be on their way.               *)
THEOREM TimeoutsHitTheirTasks == Spec => []TimeoutHitsItsTask
  <1>1. Inv => TimeoutHitsItsTask
    BY DEF Inv
  <1> QED BY <1>1, Invariance, PTL

(* Each runtime is torn down once and in the reverse order of the start, by *)
(* one Shutdown, when no Start has failed before.                           *)
THEOREM TeardownStaysOrdered == Spec => TeardownIsOrdered
  <1> DEFINE Orderly ==
        \A k \in Closers :
          closer[k] = "teardown" /\ order' # order /\ Len(initOrder) = Len(RegOrder)
            => Last(order) \in alive /\ alive = Range(order)
  <1>1. ASSUME Inv, [Next]_vars PROVE [Orderly]_vars
    <2> SUFFICES ASSUME NEW k \in Closers, closer[k] = "teardown", order' # order, Clean
                 PROVE  Last(order) \in alive /\ alive = Range(order)
      BY DEF Clean
    <2>1. alive = Range(order) /\ order \in Seq(Runtimes) /\ shutdown
      BY <1>1 DEF Inv, Ordered, Types, VMTypes, Closing
    <2>2. PICK l \in Closers : ShutdownTeardown(l)
      BY <1>1, <2>1 DEF Next, vars, Start, Run, Signal, Merge, CancelMerged, TaskStep,
         SetActive, Eval, AfterCall, Panic, Finish, LoopStep, StopServing, DrainEnd,
         Serve, DrainReject, Make, Expire, CallStep, LookAtContext, Submit, Await,
         TimerStep, TimerFires, TimerRaises, TimerEnds, ShutdownBegin,
         ShutdownGivesUp, CloserStep, ShutdownCancel, ShutdownWait, ShutdownHooks,
         vmVars, loopVars, taskVars, timeVars, closeVars
    <2>3. order # << >>
      BY <2>2 DEF ShutdownTeardown
    <2> QED BY <2>1, <2>3, LastOf DEF Range
  <1> QED BY <1>1, Invariance, PTL DEF Spec, TeardownIsOrdered

----------------------------------------------------------------------------
(* The watchdog: its invariant                                             *)

(* a is the runtime of the innermost of the first n executions of s that   *)
(* has entered one.                                                        *)
Innermost(s, n, a) ==
  \/ a = RuntimeNone /\ \A i \in 1..n : ~Entered(s[i])
  \/ \E i \in 1..n : /\ Entered(s[i]) /\ a = s[i].rt
                     /\ \A j \in (i + 1)..n : ~Entered(s[j])

(* What is restored when an execution leaves its runtime is right as well. *)
Routes ==
  /\ Innermost(stack, Depth, active_runtime)
  /\ \A i \in 1..Depth :
       Entered(stack[i]) => Innermost(stack, i - 1, stack[i].prev)

(* An execution is armed, and has a generation, once it is past that step. *)
Armed(f) == \E i \in 1..(f.step - 1) : Plan[f.kind][i] = "arm"
FrameOK(f, n) ==
  /\ f \in Frame /\ f.step <= Len(Plan[f.kind])
  /\ f.gen <= n /\ (f.gen # 0 <=> f.ms > 0 /\ Armed(f))
  /\ f.kind = "task" => f.ms = TaskTimeout

(* How executions nest: only the innermost is not in guest code, and each  *)
(* was armed after those around it.                                        *)
Nests ==
  /\ \A i \in 1..Depth :
       /\ FrameOK(stack[i], wd_generation)
       /\ i < Depth => Doing(stack[i]) = "run"
       /\ stack[i].kind = "cli" => i = 1
       /\ stack[i].kind = "task" => stack[1].kind = "task"
       /\ stack[i].kind = "call" /\ stack[i].ms > 0 => stack[1].kind = "call"
  /\ \A i, j \in 1..Depth : i < j /\ stack[j].gen # 0 =>
       stack[i].gen < stack[j].gen
  /\ host # "up" => stack = << >>

(* The generations that are left: one for Shutdown, one for an execution   *)
(* that is to be armed.                                                    *)
Needed == (IF host = "up" THEN 1 ELSE 0)
          + (IF stack # << >> /\ Top.ms > 0 /\ Top.gen = 0 THEN 1 ELSE 0)
Counted ==
  /\ wd_generation + Needed <= MaxArms + 2 * starts
  /\ host # "down" => wd_generation > 0

(* While a deadline stands, what is left of it and what has passed are at  *)
(* least the timeout.                                                      *)
Timed ==
  /\ thread = "timing" /\ wd_armed /\ gen = wd_generation =>
       since + left >= wd_timeout
  /\ wd_armed => wd_generation \notin ended /\ fires[wd_generation] = 0
  /\ gen <= wd_generation /\ \A g \in ended : g <= wd_generation
  /\ \A g \in Generations :
       fires[g] <= 1 /\ (g > wd_generation => fires[g] = 0)

WatchdogInv ==
  WatchdogTypeOK /\ Routes /\ Nests /\ Counted /\ Timed /\ LastArmedIsTimed

----------------------------------------------------------------------------
(* The watchdog: one execution                                             *)

LEMMA PlanIs ==
  /\ DOMAIN Plan = {"task", "call", "cli"}
  /\ Plan["task"] = <<"arm", "run", "disarm">>
  /\ Plan["call"] = <<"arm", "enter", "run", "leave", "disarm">>
  /\ Plan["cli"] = <<"enter", "arm", "run", "disarm", "leave">>
  BY DEF Plan

LEMMA PlansAreLong == \A kind \in DOMAIN Plan : Len(Plan[kind]) >= 3
  <1>1. /\ Len(Plan["task"]) = 3 /\ Len(Plan["call"]) = 5
        /\ Len(Plan["cli"]) = 5
    BY PlanIs
  <1> QED BY <1>1, PlanIs

(* Where an execution is, by its step.                                     *)
Past(f) == IF f.kind = "cli" THEN f.step > 2 ELSE f.step > 1
LEMMA StepsAre ==
  ASSUME NEW f \in Frame, f.step <= Len(Plan[f.kind])
  PROVE  /\ f.kind \in {"task", "call", "cli"} /\ f.step \in 1..5
         /\ Len(Plan[f.kind]) = IF f.kind = "task" THEN 3 ELSE 5
         /\ Doing(f) = "arm" <=> f.step = IF f.kind = "cli" THEN 2 ELSE 1
         /\ Doing(f) = "enter" <=> \/ f.kind = "call" /\ f.step = 2
                                   \/ f.kind = "cli" /\ f.step = 1
         /\ Doing(f) = "run" <=> f.step = IF f.kind = "task" THEN 2 ELSE 3
         /\ Doing(f) = "leave" <=> \/ f.kind = "call" /\ f.step = 4
                                   \/ f.kind = "cli" /\ f.step = 5
         /\ Doing(f) = "disarm" <=> f.step = CASE f.kind = "task" -> 3
                                               [] f.kind = "call" -> 5
                                               [] f.kind = "cli" -> 4
         /\ Armed(f) <=> Past(f)
         /\ Entered(f) <=> \/ f.kind = "call" /\ f.step \in {3, 4}
                           \/ f.kind = "cli" /\ f.step \in 2..5
  <1>1. f.kind \in {"task", "call", "cli"} /\ f.step \in 1..5
    BY PlanIs DEF Frame
  <1>2. CASE f.kind = "task"
    <2>1. f.step \in 1..3
      BY <1>1, <1>2, PlanIs
    <2> QED BY <1>1, <1>2, <2>1, PlanIs DEF Doing, Armed, Past, Entered
  <1>3. CASE f.kind = "call"
    BY <1>1, <1>3, PlanIs DEF Doing, Armed, Past, Entered
  <1>4. CASE f.kind = "cli"
    BY <1>1, <1>4, PlanIs DEF Doing, Armed, Past, Entered
  <1> QED BY <1>1, <1>2, <1>3, <1>4

(* The stack after a step of the innermost execution, which has become f.  *)
LEMMA AdvanceIs ==
  ASSUME stack \in Seq(Frame), stack # << >>, NEW f \in Frame,
         f.step <= Len(Plan[f.kind]), NEW t, t = Advance(f)
  PROVE  /\ t \in Seq(Frame)
         /\ \/ f.step = Len(Plan[f.kind]) /\ Len(t) = Depth - 1
            \/ /\ f.step < Len(Plan[f.kind]) /\ Len(t) = Depth
               /\ t[Depth] = [f EXCEPT !.step = f.step + 1]
         /\ \A i \in 1..(Depth - 1) : t[i] = stack[i]
  <1> DEFINE g == [f EXCEPT !.step = f.step + 1]
  <1>1. Depth \in Nat /\ Depth >= 1
    BY DEF Depth
  <1>2. /\ Outer \in Seq(Frame) /\ Len(Outer) = Depth - 1
        /\ \A i \in 1..(Depth - 1) : Outer[i] = stack[i]
    <2>1. Outer = Front(stack)
      BY DEF Outer, Front, Depth
    <2>2. DOMAIN stack \ {Depth} = 1..(Depth - 1)
      BY <1>1 DEF Depth
    <2> QED BY <1>1, <2>1, <2>2, Fronted DEF Depth
  <1>3. CASE f.step = Len(Plan[f.kind])
    BY <1>2, <1>3 DEF Advance
  <1>4. CASE f.step # Len(Plan[f.kind])
    <2>1. f.step < Len(Plan[f.kind]) /\ f.step + 1 \in 1..5
      BY <1>4, StepsAre
    <2>2. g \in Frame
      BY <2>1 DEF Frame
    <2>3. t = Append(Outer, g)
      BY <1>4 DEF Advance
    <2> HIDE DEF g
    <2>4. t \in Seq(Frame) /\ Len(t) = Depth /\ t[Depth] = g
          /\ \A i \in 1..(Depth - 1) : t[i] = stack[i]
      BY <1>1, <1>2, <2>2, <2>3
    <2> QED BY <2>1, <2>4 DEF g
  <1> QED BY <1>3, <1>4

(* An execution counts as the innermost as long as the stack below, and    *)
(* what it has entered, is the same.                                       *)
LEMMA InnermostSame ==
  ASSUME NEW s, NEW t, NEW n \in Nat, NEW a,
         \A i \in 1..n : /\ Entered(t[i]) <=> Entered(s[i])
                         /\ Entered(s[i]) => t[i].rt = s[i].rt
  PROVE  Innermost(t, n, a) <=> Innermost(s, n, a)
  <1>1. \A i \in 1..n : \A j \in (i + 1)..n : j \in 1..n
    OBVIOUS
  <1> QED BY <1>1 DEF Innermost

(* One more that has not entered a runtime changes nothing.                *)
LEMMA InnermostBelow ==
  ASSUME NEW s, NEW n \in Nat, NEW a, ~Entered(s[n + 1])
  PROVE  Innermost(s, n + 1, a) <=> Innermost(s, n, a)
  <1>1. 1..(n + 1) = (1..n) \cup {n + 1} /\ n + 1 \notin 1..n
    OBVIOUS
  <1>2. \A i \in 1..n : (i + 1)..(n + 1) = ((i + 1)..n) \cup {n + 1}
    OBVIOUS
  <1> QED BY <1>1, <1>2 DEF Innermost

LEMMA InnermostIs ==
  ASSUME NEW s, NEW n \in Nat, Entered(s[n + 1])
  PROVE  Innermost(s, n + 1, s[n + 1].rt)
  <1>1. n + 1 \in 1..(n + 1) /\ ((n + 1) + 1)..(n + 1) = {}
    OBVIOUS
  <1> QED BY <1>1 DEF Innermost

(* The invariant says what the property says.                              *)
LEMMA InnermostIsMax ==
  ASSUME WatchdogTypeOK, Innermost(stack, Depth, active_runtime)
  PROVE  ActiveIsInnermost
  <1> DEFINE inside == {i \in 1..Depth : Entered(stack[i])}
  <1>1. Depth \in Nat
    BY DEF WatchdogTypeOK, Depth
  <1>2. CASE \A i \in 1..Depth : ~Entered(stack[i])
    <2>1. active_runtime = RuntimeNone /\ inside = {}
      BY <1>2 DEF Innermost
    <2> QED BY <2>1 DEF ActiveIsInnermost
  <1>3. CASE \E i \in 1..Depth : Entered(stack[i])
    <2>1. PICK i \in 1..Depth : /\ Entered(stack[i])
                                /\ active_runtime = stack[i].rt
                                /\ \A j \in (i + 1)..Depth : ~Entered(stack[j])
      BY <1>3 DEF Innermost
    <2>2. i \in inside /\ \A j \in inside : j <= i
      BY <1>1, <2>1
    <2>3. \A m \in inside : (\A j \in inside : j <= m) => m = i
      BY <1>1, <2>2
    <2>4. Max(inside) = i
      BY <1>1, <2>2, <2>3 DEF Max
    <2>5. inside # {}
      BY <2>2
    <2> QED BY <2>1, <2>4, <2>5 DEF ActiveIsInnermost
  <1> QED BY <1>2, <1>3

----------------------------------------------------------------------------
(* The watchdog: steps of the innermost execution                          *)

(* What a step makes of the innermost execution before it moves on: f has  *)
(* a generation if the step has armed it.                                  *)
Becomes(f) ==
  /\ f \in Frame /\ f.kind = Top.kind /\ f.rt = Top.rt /\ f.ms = Top.ms
  /\ f.step = Top.step
  /\ IF Doing(Top) = "arm" /\ Top.ms > 0
     THEN f.gen = wd_generation + 1 /\ wd_generation' = wd_generation + 1
     ELSE f.gen = Top.gen /\ wd_generation' = wd_generation

LEMMA TopIs ==
  ASSUME WatchdogTypeOK, Nests, stack # << >>
  PROVE  /\ Depth \in Nat /\ Depth >= 1 /\ Depth \in 1..Depth
         /\ Top \in Frame /\ FrameOK(Top, wd_generation) /\ host = "up"
         /\ Top.step <= Len(Plan[Top.kind])
         /\ Top.gen \in Nat /\ Top.ms \in Nat /\ wd_generation \in Nat
  <1>1. Depth \in Nat /\ Depth >= 1 /\ Depth \in 1..Depth
    BY DEF WatchdogTypeOK, Depth
  <1>2. FrameOK(Top, wd_generation)
    BY <1>1 DEF Nests, Top
  <1>3. \A m \in Timeouts \cup {0} : m \in Nat
    BY WatchdogAssumption
  <1>4. \A g \in Generations : g \in Nat
    BY WatchdogAssumption DEF Generations
  <1> QED BY <1>1, <1>2, <1>3, <1>4 DEF FrameOK, Frame, Nests, WatchdogTypeOK

LEMMA NestsOn ==
  ASSUME WatchdogInv, stack # << >>, NEW f, Becomes(f), stack' = Advance(f),
         UNCHANGED host
  PROVE  Nests'
  <1> DEFINE t == Advance(f)
             g == [f EXCEPT !.step = f.step + 1]
  <1>1. /\ Depth \in Nat /\ Depth >= 1 /\ Depth \in 1..Depth
        /\ Top \in Frame /\ FrameOK(Top, wd_generation) /\ host = "up"
        /\ Top.step <= Len(Plan[Top.kind])
        /\ Top.gen \in Nat /\ Top.ms \in Nat /\ wd_generation \in Nat
    BY TopIs DEF WatchdogInv
  <1>2. f \in Frame /\ f.step <= Len(Plan[f.kind])
    BY <1>1 DEF Becomes
  <1>3. stack \in Seq(Frame)
    BY DEF WatchdogInv, WatchdogTypeOK
  <1>4. /\ t \in Seq(Frame)
        /\ \/ f.step = Len(Plan[f.kind]) /\ Len(t) = Depth - 1
           \/ /\ f.step < Len(Plan[f.kind]) /\ Len(t) = Depth
              /\ t[Depth] = g
        /\ \A i \in 1..(Depth - 1) : t[i] = stack[i]
    BY <1>2, <1>3, AdvanceIs
  <1>5. wd_generation' \in Nat /\ wd_generation' >= wd_generation
    BY <1>1 DEF Becomes
  <1>6. ASSUME NEW i \in 1..Depth
        PROVE  /\ FrameOK(stack[i], wd_generation) /\ stack[i].gen \in Nat
               /\ stack[i].gen <= wd_generation
    <2>1. FrameOK(stack[i], wd_generation)
      BY DEF WatchdogInv, Nests
    <2>2. \A n \in Generations : n \in Nat
      BY WatchdogAssumption DEF Generations
    <2> QED BY <2>1, <2>2 DEF FrameOK, Frame
  <1>7. ASSUME NEW i \in 1..(Depth - 1)
        PROVE  FrameOK(t[i], wd_generation')
    <2>1. i \in 1..Depth /\ t[i] = stack[i]
      BY <1>1, <1>4
    <2> QED BY <1>1, <1>5, <1>6, <2>1 DEF FrameOK
  <1>8. Depth' = Len(t) /\ stack' = t /\ stack'[1] = t[1]
    BY DEF Depth
  <1>9. CASE f.step = Len(Plan[f.kind])
    <2> HIDE DEF t, g
    <2>1. Len(t) = Depth - 1
      BY <1>4, <1>9
    <2>2. \A i \in 1..Depth - 1 : i \in 1..Depth /\ i < Depth
      BY <1>1
    <2>3. Depth - 1 >= 1 => t[1] = stack[1]
      BY <1>1, <1>4
    <2> QED BY <1>1, <1>4, <1>7, <1>8, <2>1, <2>2, <2>3 DEF WatchdogInv, Nests
  <1>10. CASE f.step < Len(Plan[f.kind])
    <2>1. /\ g \in Frame /\ g.kind = Top.kind /\ g.ms = Top.ms
          /\ g.step = Top.step + 1 /\ g.gen = f.gen /\ g.step <= Len(Plan[g.kind])
      <3>1. f.step + 1 \in 1..5 /\ f.step + 1 <= Len(Plan[f.kind])
        BY <1>2, <1>10, StepsAre
      <3> QED BY <1>2, <3>1 DEF Becomes, Frame
    <2> HIDE DEF t, g
    <2>2. Len(t) = Depth /\ t[Depth] = g /\ t[1].kind = stack[1].kind
      BY <1>1, <1>4, <1>10, <2>1 DEF Top
    <2>3. Armed(g) <=> Armed(Top) \/ Doing(Top) = "arm"
      BY <1>1, <2>1, StepsAre DEF Past
    <2>4. Doing(Top) = "arm" => ~Armed(Top)
      BY <1>1, StepsAre DEF Past
    <2>5. /\ g.gen <= wd_generation' /\ (g.gen # 0 <=> g.ms > 0 /\ Armed(g))
          /\ g.kind = "task" => g.ms = TaskTimeout
      BY <1>1, <2>1, <2>3, <2>4 DEF Becomes, FrameOK
    <2>6. FrameOK(g, wd_generation')
      BY <2>1, <2>5 DEF FrameOK
    <2>7. g.gen = Top.gen \/ \A i \in 1..Depth : stack[i].gen < g.gen
      BY <1>1, <1>6, <2>1 DEF Becomes
    <2>8. ASSUME NEW i \in 1..Depth
          PROVE  /\ FrameOK(t[i], wd_generation')
                 /\ i < Depth => Doing(t[i]) = "run"
                 /\ t[i].kind = "cli" => i = 1
                 /\ t[i].kind = "task" => t[1].kind = "task"
                 /\ t[i].kind = "call" /\ t[i].ms > 0 => t[1].kind = "call"
      <3>1. CASE i = Depth
        BY <1>1, <2>1, <2>2, <2>6, <3>1 DEF WatchdogInv, Nests, Top
      <3>2. CASE i # Depth
        <4>1. i \in 1..(Depth - 1)
          BY <1>1, <3>2
        <4> QED BY <1>1, <1>4, <1>7, <2>2, <4>1 DEF WatchdogInv, Nests
      <3> QED BY <3>1, <3>2
    <2>9. ASSUME NEW i \in 1..Depth, NEW j \in 1..Depth, i < j, t[j].gen # 0
          PROVE  t[i].gen < t[j].gen
      <3>1. i \in 1..(Depth - 1) /\ t[i] = stack[i]
        BY <1>1, <1>4, <2>9
      <3>2. CASE j = Depth
        BY <1>1, <2>1, <2>2, <2>7, <2>9, <3>1, <3>2 DEF WatchdogInv, Nests, Top
      <3>3. CASE j # Depth
        <4>1. j \in 1..(Depth - 1) /\ t[j] = stack[j]
          BY <1>1, <1>4, <3>3
        <4> QED BY <2>9, <3>1, <4>1 DEF WatchdogInv, Nests
      <3> QED BY <3>2, <3>3
    <2> QED BY <1>1, <1>8, <2>2, <2>8, <2>9 DEF Nests
  <1> QED BY <1>4, <1>9, <1>10

(* What a step does to active_runtime, and what it keeps to restore.       *)
Reroutes(f) ==
  CASE Doing(Top) = "enter" ->
         /\ active_runtime' = Top.rt
         /\ f.prev = IF Top.kind = "call" THEN active_runtime ELSE RuntimeNone
    [] Doing(Top) = "leave" ->
         active_runtime' = Top.prev /\ f.prev = Top.prev
    [] OTHER -> active_runtime' = active_runtime /\ f.prev = Top.prev

LEMMA RoutesOn ==
  ASSUME WatchdogInv, stack # << >>, NEW f, Becomes(f), Reroutes(f),
         stack' = Advance(f)
  PROVE  Routes'
  <1> DEFINE t == Advance(f)
             g == [f EXCEPT !.step = f.step + 1]
             n == Depth - 1
  <1>1. /\ Depth \in Nat /\ Depth >= 1 /\ Depth \in 1..Depth
        /\ Top \in Frame /\ FrameOK(Top, wd_generation)
        /\ Top.step <= Len(Plan[Top.kind])
    BY TopIs DEF WatchdogInv
  <1>2. f \in Frame /\ f.step <= Len(Plan[f.kind])
    BY <1>1 DEF Becomes
  <1>3. /\ \/ f.step = Len(Plan[f.kind]) /\ Len(t) = n
           \/ /\ f.step < Len(Plan[f.kind]) /\ Len(t) = n + 1
              /\ t[n + 1] = g
        /\ \A i \in 1..n : t[i] = stack[i]
    <2>1. stack \in Seq(Frame)
      BY DEF WatchdogInv, WatchdogTypeOK
    <2>2. n + 1 = Depth
      BY <1>1
    <2> QED BY <1>2, <2>1, <2>2, AdvanceIs
  <1>4. stack' = t /\ Depth' = Len(t)
    BY DEF Depth
  <1>5. n \in Nat /\ n + 1 = Depth /\ stack[n + 1] = Top
    BY <1>1 DEF Top
  <1> HIDE DEF t, g, n
  <1>6. ASSUME NEW m \in 0..n, NEW a
        PROVE  Innermost(t, m, a) <=> Innermost(stack, m, a)
    BY <1>3, <1>5, InnermostSame
  <1>7. ASSUME NEW i \in 1..n, Entered(t[i])
        PROVE  Innermost(t, i - 1, t[i].prev)
    <2>1. i \in 1..Depth /\ i - 1 \in 0..n /\ t[i] = stack[i]
      BY <1>3, <1>5
    <2> QED BY <1>6, <1>7, <2>1 DEF WatchdogInv, Routes
  <1>8. Innermost(stack, n + 1, active_runtime)
    BY <1>5 DEF WatchdogInv, Routes
  <1>9. Entered(Top) => Innermost(t, n, Top.prev)
    <2>1. n \in 0..n /\ n = Depth - 1
      BY <1>5
    <2> QED BY <1>1, <1>5, <1>6, <2>1 DEF WatchdogInv, Routes
  <1>10. ~Entered(Top) => Innermost(t, n, active_runtime)
    BY <1>5, <1>6, <1>8, InnermostBelow
  <1>11. CASE f.step = Len(Plan[f.kind])
    <2>1. Len(t) = n
      BY <1>3, <1>11
    <2>2. \/ Doing(Top) = "leave" /\ Entered(Top)
          \/ Doing(Top) = "disarm" /\ ~Entered(Top)
      <3>1. Top.step = Len(Plan[Top.kind])
        BY <1>11 DEF Becomes
      <3> QED BY <1>1, <3>1, StepsAre
    <2>3. Innermost(t, n, active_runtime')
      BY <1>9, <1>10, <2>2 DEF Reroutes
    <2> QED BY <1>4, <1>7, <2>1, <2>3 DEF Routes
  <1>12. CASE f.step < Len(Plan[f.kind])
    <2>1. /\ g \in Frame /\ g.kind = Top.kind /\ g.rt = Top.rt
          /\ g.step = Top.step + 1 /\ g.prev = f.prev
          /\ g.step <= Len(Plan[g.kind])
      <3>1. f.step + 1 \in 1..5 /\ f.step + 1 <= Len(Plan[f.kind])
        BY <1>2, <1>12, StepsAre
      <3> QED BY <1>2, <3>1 DEF Becomes, Frame, g
    <2>2. Len(t) = n + 1 /\ t[n + 1] = g
      BY <1>3, <1>12
    <2>3. CASE Doing(Top) = "enter"
      <3>1. Entered(g) /\ ~Entered(Top)
        BY <1>1, <2>1, <2>3, StepsAre
      <3>2. Innermost(t, n + 1, active_runtime')
        BY <1>5, <2>1, <2>2, <2>3, <3>1, InnermostIs DEF Reroutes
      <3>3. Innermost(t, n, g.prev)
        <4>1. CASE Top.kind = "call"
          BY <1>10, <2>1, <2>3, <3>1, <4>1 DEF Reroutes
        <4>2. CASE Top.kind # "call"
          <5>1. Top.kind = "cli" /\ Depth = 1
            BY <1>1, <2>3, <4>2, StepsAre DEF WatchdogInv, Nests, Top
          <5>2. n = 0 /\ g.prev = RuntimeNone
            BY <1>5, <2>1, <2>3, <4>2, <5>1 DEF Reroutes
          <5> QED BY <5>2 DEF Innermost
        <4> QED BY <4>1, <4>2
      <3>4. \A i \in 1..(n + 1) : Entered(t[i]) => Innermost(t, i - 1, t[i].prev)
        <4>1. \A i \in 1..(n + 1) : i \in 1..n \/ i = n + 1
          BY <1>5
        <4>2. (n + 1) - 1 = n
          BY <1>5
        <4> QED BY <1>7, <2>2, <3>3, <4>1, <4>2
      <3> QED BY <1>4, <2>2, <3>2, <3>4 DEF Routes
    <2>4. CASE Doing(Top) # "enter"
      <3>1. \/ Doing(Top) = "leave" /\ Entered(Top) /\ ~Entered(g)
            \/ /\ Doing(Top) # "leave" /\ active_runtime' = active_runtime
               /\ g.prev = Top.prev /\ (Entered(g) <=> Entered(Top))
        BY <1>1, <2>1, <2>4, StepsAre DEF Reroutes
      <3>2. Innermost(t, n + 1, active_runtime')
        <4>1. CASE Doing(Top) = "leave"
          <5>1. Innermost(t, n, active_runtime')
            BY <1>9, <3>1, <4>1 DEF Reroutes
          <5>2. ~Entered(t[n + 1])
            BY <2>2, <3>1, <4>1
          <5> QED BY <1>5, <5>1, <5>2, InnermostBelow
        <4>2. CASE Doing(Top) # "leave"
          <5>1. \A i \in 1..(n + 1) : i \in 1..n \/ i = n + 1
            BY <1>5
          <5>2. \A i \in 1..(n + 1) :
                  /\ Entered(t[i]) <=> Entered(stack[i])
                  /\ Entered(stack[i]) => t[i].rt = stack[i].rt
            BY <1>3, <1>5, <2>1, <2>2, <3>1, <4>2, <5>1
          <5>3. n + 1 \in Nat
            BY <1>5
          <5>4. Innermost(t, n + 1, active_runtime)
            BY <1>8, <5>2, <5>3, InnermostSame
          <5> QED BY <3>1, <4>2, <5>4
        <4> QED BY <4>1, <4>2
      <3>3. \A i \in 1..(n + 1) : Entered(t[i]) => Innermost(t, i - 1, t[i].prev)
        <4>1. \A i \in 1..(n + 1) : i \in 1..n \/ i = n + 1
          BY <1>5
        <4>2. (n + 1) - 1 = n
          BY <1>5
        <4> QED BY <1>7, <1>9, <2>2, <3>1, <4>1, <4>2
      <3> QED BY <1>4, <2>2, <3>2, <3>3 DEF Routes
    <2> QED BY <2>3, <2>4
  <1> QED BY <1>3, <1>11, <1>12

LEMMA CountedOn ==
  ASSUME WatchdogInv, stack # << >>, NEW f, Becomes(f), stack' = Advance(f),
         UNCHANGED <<host, starts>>
  PROVE  Counted'
  <1> DEFINE t == Advance(f)
             g == [f EXCEPT !.step = f.step + 1]
  <1>1. /\ Depth \in Nat /\ Depth >= 1 /\ Depth \in 1..Depth
        /\ Top \in Frame /\ FrameOK(Top, wd_generation) /\ host = "up"
        /\ Top.step <= Len(Plan[Top.kind])
        /\ Top.gen \in Nat /\ Top.ms \in Nat /\ wd_generation \in Nat
    BY TopIs DEF WatchdogInv
  <1>2. f \in Frame /\ f.step <= Len(Plan[f.kind])
    BY <1>1 DEF Becomes
  <1>3. /\ t \in Seq(Frame)
        /\ \/ f.step = Len(Plan[f.kind]) /\ Len(t) = Depth - 1
           \/ /\ f.step < Len(Plan[f.kind]) /\ Len(t) = Depth
              /\ t[Depth] = g
        /\ \A i \in 1..(Depth - 1) : t[i] = stack[i]
    <2>1. stack \in Seq(Frame)
      BY DEF WatchdogInv, WatchdogTypeOK
    <2> QED BY <1>2, <2>1, AdvanceIs
  <1>4. g.ms = Top.ms /\ g.gen = f.gen
    BY <1>2 DEF Becomes, Frame
  <1>5. stack' = t /\ Depth' = Len(t) /\ Top' = t[Len(t)]
    BY DEF Depth, Top
  <1> HIDE DEF t, g
  <1> DEFINE before == stack # << >> /\ Top.ms > 0 /\ Top.gen = 0
             after == t # << >> /\ t[Len(t)].ms > 0 /\ t[Len(t)].gen = 0
  <1>6. IF Doing(Top) = "arm" /\ Top.ms > 0
        THEN before /\ ~after /\ wd_generation' = wd_generation + 1
        ELSE (after => before) /\ wd_generation' = wd_generation
    <2>1. CASE f.step = Len(Plan[f.kind])
      <3>1. Len(t) = Depth - 1 /\ Doing(Top) # "arm"
        <4>1. Top.step = Len(Plan[Top.kind])
          BY <2>1 DEF Becomes
        <4>2. Doing(Top) # "arm"
          BY <1>1, <4>1, StepsAre
        <4> QED BY <1>3, <2>1, <4>2
      <3>2. CASE t = << >>
        BY <3>1, <3>2 DEF Becomes
      <3>3. CASE t # << >>
        <4>1. Len(t) >= 1 /\ Len(t) \in 1..(Depth - 1)
          BY <1>1, <1>3, <3>1, <3>3
        <4>2. t[Len(t)] = stack[Len(t)] /\ Len(t) \in 1..Depth /\ Len(t) < Depth
          BY <1>1, <1>3, <4>1
        <4>3. /\ FrameOK(stack[Len(t)], wd_generation)
              /\ Doing(stack[Len(t)]) = "run"
          BY <4>2 DEF WatchdogInv, Nests
        <4>4. Armed(stack[Len(t)])
          BY <4>3, StepsAre DEF FrameOK, Past
        <4>5. ~after
          BY <4>2, <4>3, <4>4 DEF FrameOK
        <4> QED BY <3>1, <4>5 DEF Becomes
      <3> QED BY <3>2, <3>3
    <2>2. CASE f.step < Len(Plan[f.kind])
      <3>1. t[Len(t)] = g /\ t # << >>
        BY <1>1, <1>3, <2>2
      <3>2. Doing(Top) = "arm" => ~Armed(Top)
        BY <1>1, StepsAre DEF Past
      <3> QED BY <1>1, <1>4, <3>1, <3>2 DEF Becomes, FrameOK
    <2> QED BY <1>3, <2>1, <2>2
  <1>7. Needed = 1 + IF before THEN 1 ELSE 0
    BY <1>1 DEF Needed
  <1>8. Needed' = 1 + IF after THEN 1 ELSE 0
    BY <1>1, <1>5 DEF Needed
  <1> HIDE DEF before, after
  <1>9. wd_generation' + Needed' <= wd_generation + Needed
        /\ wd_generation' >= wd_generation
    BY <1>1, <1>6, <1>7, <1>8
  <1>10. /\ wd_generation + Needed \in Int /\ wd_generation' + Needed' \in Int
         /\ wd_generation' \in Int /\ MaxArms + 2 * starts \in Int
    BY <1>1, <1>6, <1>7, <1>8, WatchdogAssumption
    DEF WatchdogInv, WatchdogTypeOK
  <1>11. wd_generation + Needed <= MaxArms + 2 * starts /\ wd_generation > 0
    BY <1>1 DEF WatchdogInv, Counted
  <1> HIDE DEF Needed
  <1> QED BY <1>1, <1>9, <1>10, <1>11 DEF Counted

----------------------------------------------------------------------------
(* The watchdog: the actions                                               *)

LEMMA LongestIs ==
  /\ Max(Timeouts) \in Timeouts /\ Max(Timeouts) \in Nat
  /\ \A m \in Timeouts \cup {0} : m \in 0..Max(Timeouts)
  <1>1. PICK longest \in Timeouts : \A m \in Timeouts : m <= longest
    BY WatchdogAssumption
  <1>2. \A m \in Timeouts : m \in Nat
    BY WatchdogAssumption
  <1>3. Max(Timeouts) \in Timeouts /\ \A m \in Timeouts : Max(Timeouts) >= m
    BY <1>1, <1>2 DEF Max
  <1> QED BY <1>2, <1>3

(* The generations of the executions on the stack are what they were.      *)
LEMMA GenerationsStay ==
  ASSUME WatchdogInv, stack # << >>, NEW f, Becomes(f), stack' = Advance(f),
         ~(Doing(Top) = "arm" /\ Top.ms > 0)
  PROVE  /\ wd_generation' = wd_generation
         /\ \A i \in 1..Depth' : i \in 1..Depth /\ stack'[i].gen = stack[i].gen
  <1> DEFINE t == Advance(f)
             g == [f EXCEPT !.step = f.step + 1]
  <1>1. /\ Depth \in Nat /\ Depth >= 1
        /\ Top \in Frame /\ Top.step <= Len(Plan[Top.kind])
    BY TopIs DEF WatchdogInv
  <1>2. f \in Frame /\ f.step <= Len(Plan[f.kind])
    BY <1>1 DEF Becomes
  <1>3. /\ \/ Len(t) = Depth - 1
           \/ Len(t) = Depth /\ t[Depth] = g
        /\ \A i \in 1..(Depth - 1) : t[i] = stack[i]
    <2>1. stack \in Seq(Frame)
      BY DEF WatchdogInv, WatchdogTypeOK
    <2> QED BY <1>2, <2>1, AdvanceIs
  <1>4. g.gen = Top.gen
    BY <1>2 DEF Becomes, Frame
  <1>5. Depth' = Len(t) /\ stack' = t
    BY DEF Depth
  <1> HIDE DEF t, g
  <1>6. ASSUME NEW i \in 1..Len(t)
        PROVE  i \in 1..Depth /\ t[i].gen = stack[i].gen
    <2>1. i \in 1..(Depth - 1) \/ (i = Depth /\ Len(t) = Depth /\ t[Depth] = g)
      BY <1>1, <1>3
    <2> QED BY <1>1, <1>3, <1>4, <2>1 DEF Top
  <1> QED BY <1>5, <1>6 DEF Becomes

(* A Disarm ends the execution whose deadline stands, or none stands.      *)
LEMMA DisarmEndsTheLast ==
  ASSUME WatchdogInv, stack # << >>, Doing(Top) = "disarm", Disarms(Top),
         NEW i \in 1..Depth, stack[i].gen = wd_generation
  PROVE  wd_generation \in {Top.gen} \ {0}
  <1>1. /\ Depth \in Nat /\ Depth >= 1 /\ Depth \in 1..Depth
        /\ Top \in Frame /\ FrameOK(Top, wd_generation) /\ host = "up"
        /\ Top.step <= Len(Plan[Top.kind])
        /\ Top.gen \in Nat /\ Top.ms \in Nat /\ wd_generation \in Nat
    BY TopIs DEF WatchdogInv
  <1>2. wd_generation > 0
    BY <1>1 DEF WatchdogInv, Counted
  <1>3. CASE i = Depth
    BY <1>2, <1>3 DEF Top
  <1>4. CASE i # Depth
    <2>1. i < Depth
      BY <1>1, <1>4
    <2>2. Top.gen = 0
      <3>1. Top.gen # 0 => stack[i].gen < Top.gen
        BY <1>1, <2>1 DEF WatchdogInv, Nests, Top
      <3> QED BY <1>1, <3>1 DEF FrameOK
    <2>3. Armed(Top)
      BY <1>1, StepsAre DEF Past
    <2>4. Top.ms = 0
      BY <1>1, <2>2, <2>3 DEF FrameOK
    <2>5. Top.kind = "task" /\ TaskTimeout = 0 /\ stack[1].kind = "task"
      <3>1. Top.kind # "cli"
        BY <1>1, <2>1 DEF WatchdogInv, Nests, Top
      <3>2. Top.kind = "task"
        BY <2>4, <3>1 DEF Disarms
      <3> QED BY <1>1, <2>4, <3>2 DEF FrameOK, WatchdogInv, Nests, Top
    <2>6. /\ FrameOK(stack[i], wd_generation) /\ stack[i].kind \in {"task", "call", "cli"}
          /\ stack[i].kind = "cli" => i = 1
          /\ stack[i].kind = "call" /\ stack[i].ms > 0 => stack[1].kind = "call"
      <3>1. FrameOK(stack[i], wd_generation)
        BY DEF WatchdogInv, Nests
      <3>2. stack[i].kind \in {"task", "call", "cli"}
        BY <3>1, PlanIs DEF FrameOK, Frame
      <3> QED BY <3>1, <3>2 DEF WatchdogInv, Nests
    <2>7. stack[i].ms > 0
      BY <1>2, <2>6 DEF FrameOK
    <2>8. stack[i].kind = "task"
      BY <2>5, <2>6, <2>7
    <2>9. stack[i].ms = 0
      BY <2>5, <2>6, <2>8 DEF FrameOK
    <2> QED BY <2>7, <2>9
  <1> QED BY <1>3, <1>4

Steps == Arm \/ Enter \/ Return \/ Raise \/ Leave \/ Disarm

(* Each step of an execution makes one of the innermost.                   *)
LEMMA StepsBecome ==
  ASSUME WatchdogInv, Steps
  PROVE  /\ stack # << >> /\ UNCHANGED <<host, starts, thread, gen, left, fires>>
         /\ \E f : Becomes(f) /\ Reroutes(f) /\ stack' = Advance(f)
  <1>1. stack # << >> /\ UNCHANGED <<host, starts, thread, gen, left, fires>>
    BY DEF Steps, Arm, Enter, Return, Raise, Leave, Disarm, Does, hostVars,
           threadVars
  <1>2. /\ Top \in Frame /\ FrameOK(Top, wd_generation)
        /\ Top.gen \in Nat /\ Top.ms \in Nat /\ wd_generation \in Nat
    BY <1>1, TopIs DEF WatchdogInv
  <1>3. CASE Arm
    <2>1. Doing(Top) = "arm" /\ active_runtime' = active_runtime
      BY <1>3 DEF Arm, Does
    <2>2. CASE Top.ms > 0
      <3> DEFINE f == [Top EXCEPT !.gen = wd_generation + 1]
      <3>1. wd_generation' = wd_generation + 1 /\ stack' = Advance(f)
        BY <1>3, <2>2 DEF Arm
      <3>2. wd_generation + 1 \in Generations
        <4>1. Needed = 2
          BY <1>1, <1>2, <2>1, <2>2, TopIs, StepsAre
          DEF Needed, WatchdogInv, FrameOK, Past
        <4>2. wd_generation + 2 <= MaxArms + 2 * starts
          BY <4>1 DEF WatchdogInv, Counted
        <4> QED BY <1>2, <4>2, WatchdogAssumption
                DEF Generations, WatchdogInv, WatchdogTypeOK
      <3>3. f \in Frame /\ f.kind = Top.kind /\ f.rt = Top.rt /\ f.ms = Top.ms
            /\ f.step = Top.step /\ f.prev = Top.prev /\ f.gen = wd_generation + 1
        BY <1>2, <3>2 DEF Frame
      <3> HIDE DEF f
      <3>4. Becomes(f) /\ Reroutes(f)
        BY <2>1, <2>2, <3>1, <3>3 DEF Becomes, Reroutes
      <3> QED BY <1>1, <3>1, <3>4
    <2>3. CASE ~(Top.ms > 0)
      <3>1. wd_generation' = wd_generation /\ stack' = Advance(Top)
        BY <1>3, <2>3 DEF Arm, armVars
      <3>2. Becomes(Top) /\ Reroutes(Top)
        BY <1>2, <2>1, <2>3, <3>1 DEF Becomes, Reroutes
      <3> QED BY <1>1, <3>1, <3>2
    <2> QED BY <2>2, <2>3
  <1>4. CASE Enter
    <2> DEFINE f == [Top EXCEPT
         !.prev = IF Top.kind = "call" THEN active_runtime ELSE RuntimeNone]
    <2>1. /\ Doing(Top) = "enter" /\ active_runtime' = Top.rt
          /\ wd_generation' = wd_generation /\ stack' = Advance(f)
      BY <1>4 DEF Enter, Does, armVars
    <2>2. /\ f \in Frame /\ f.kind = Top.kind /\ f.rt = Top.rt /\ f.ms = Top.ms
          /\ f.step = Top.step /\ f.gen = Top.gen
          /\ f.prev = IF Top.kind = "call" THEN active_runtime ELSE RuntimeNone
      BY <1>2 DEF Frame, WatchdogInv, WatchdogTypeOK
    <2> HIDE DEF f
    <2>3. Becomes(f) /\ Reroutes(f)
      BY <2>1, <2>2 DEF Becomes, Reroutes
    <2> QED BY <1>1, <2>1, <2>3
  <1>5. CASE Return \/ Raise \/ Leave \/ Disarm
    <2>1. /\ Doing(Top) \in {"run", "leave", "disarm"} /\ stack' = Advance(Top)
          /\ wd_generation' = wd_generation
          /\ active_runtime' = IF Doing(Top) = "leave" THEN Top.prev
                               ELSE active_runtime
      BY <1>5 DEF Return, Raise, Leave, Disarm, Does, armVars
    <2>2. Becomes(Top) /\ Reroutes(Top)
      BY <1>2, <2>1 DEF Becomes, Reroutes
    <2> QED BY <1>1, <2>1, <2>2
  <1> QED BY <1>3, <1>4, <1>5 DEF Steps

LEMMA StepsKeepTypes == ASSUME WatchdogInv, Steps PROVE WatchdogTypeOK'
  <1>1. /\ stack # << >> /\ UNCHANGED <<host, starts, thread, gen, left, fires>>
        /\ \E f : Becomes(f) /\ Reroutes(f) /\ stack' = Advance(f)
    BY StepsBecome
  <1>2. PICK f : Becomes(f) /\ Reroutes(f) /\ stack' = Advance(f)
    BY <1>1
  <1>3. /\ Top \in Frame /\ FrameOK(Top, wd_generation)
        /\ Top.step <= Len(Plan[Top.kind]) /\ wd_generation \in Nat
    BY <1>1, TopIs DEF WatchdogInv
  <1>4. stack' \in Seq(Frame)
    <2>1. f \in Frame /\ f.step <= Len(Plan[f.kind]) /\ stack \in Seq(Frame)
      BY <1>2, <1>3 DEF Becomes, WatchdogInv, WatchdogTypeOK
    <2> QED BY <1>1, <1>2, <2>1, AdvanceIs
  <1>5. /\ active_runtime' \in RuntimeIds \cup {RuntimeNone}
        /\ f.gen \in Generations /\ Top.gen \in Generations
        /\ Top.ms \in Timeouts \cup {0}
    BY <1>2, <1>3 DEF Becomes, Reroutes, Frame, WatchdogInv, WatchdogTypeOK
  <1>6. wd_generation' \in Generations
    BY <1>2, <1>5 DEF Becomes, WatchdogInv, WatchdogTypeOK
  <1>7. /\ wd_armed' \in BOOLEAN /\ wd_timeout' \in Timeouts \cup {0}
        /\ woken' \in BOOLEAN /\ since' \in 0..Max(Timeouts)
        /\ raised' \subseteq Guests /\ ended' \subseteq Generations
    BY <1>5, LongestIs
    DEF Steps, Arm, Enter, Return, Raise, Leave, Disarm, CondSignal, armVars,
        WatchdogInv, WatchdogTypeOK
  <1>8. UNCHANGED <<wd_running, target>>
    BY DEF Steps, Arm, Enter, Return, Raise, Leave, Disarm, hostVars, threadVars
  <1> QED BY <1>1, <1>4, <1>5, <1>6, <1>7, <1>8 DEF WatchdogInv, WatchdogTypeOK

LEMMA StepsAreTimed == ASSUME WatchdogInv, Steps PROVE Timed'
  <1>1. stack # << >> /\ UNCHANGED <<host, starts, thread, gen, left, fires>>
    BY StepsBecome
  <1>2. /\ Top.gen \in Nat /\ Top.gen <= wd_generation /\ wd_generation \in Nat
        /\ Top.ms \in Nat
    BY <1>1, TopIs DEF WatchdogInv, FrameOK
  <1>3. /\ gen \in Nat /\ left \in Nat /\ ended \subseteq Nat
        /\ Generations \subseteq Nat
    BY WatchdogAssumption, LongestIs
    DEF WatchdogInv, WatchdogTypeOK, Generations
  <1>4. CASE Arm /\ Top.ms > 0
    <2>1. /\ wd_armed' = TRUE /\ wd_generation' = wd_generation + 1
          /\ since' = 0 /\ ended' = ended
      BY <1>4 DEF Arm
    <2>2. wd_generation + 1 \in Generations
      BY <2>1, StepsKeepTypes DEF Steps, WatchdogTypeOK
    <2> QED BY <1>1, <1>2, <1>3, <2>1, <2>2 DEF WatchdogInv, Timed
  <1>5. CASE Disarm
    <2>1. /\ UNCHANGED <<wd_generation, wd_timeout, since>>
          /\ \/ wd_armed' = FALSE /\ ended' = ended \cup ({Top.gen} \ {0})
             \/ UNCHANGED <<wd_armed, ended>>
      BY <1>5 DEF Disarm
    <2>2. CASE wd_armed' = FALSE /\ ended' = ended \cup ({Top.gen} \ {0})
      <3>1. \A g \in ended' : g <= wd_generation
        BY <1>2, <2>2 DEF WatchdogInv, Timed
      <3> QED BY <1>1, <2>1, <2>2, <3>1 DEF WatchdogInv, Timed
    <2>3. CASE UNCHANGED <<wd_armed, ended>>
      BY <1>1, <2>1, <2>3 DEF WatchdogInv, Timed
    <2> QED BY <2>1, <2>2, <2>3
  <1>6. CASE ~(Arm /\ Top.ms > 0) /\ ~Disarm
    <2>1. UNCHANGED <<wd_armed, wd_timeout, wd_generation, since, ended>>
      BY <1>6 DEF Steps, Arm, Enter, Return, Raise, Leave, armVars
    <2> QED BY <1>1, <2>1 DEF WatchdogInv, Timed
  <1> QED BY <1>4, <1>5, <1>6

LEMMA StepsKeepTheLast == ASSUME WatchdogInv, Steps PROVE LastArmedIsTimed'
  <1>1. /\ stack # << >> /\ UNCHANGED <<host, starts, thread, gen, left, fires>>
        /\ \E f : Becomes(f) /\ Reroutes(f) /\ stack' = Advance(f)
    BY StepsBecome
  <1>2. CASE Arm /\ Top.ms > 0
    BY <1>2 DEF Arm, LastArmedIsTimed
  <1>3. CASE ~(Arm /\ Top.ms > 0)
    <2>1. ~(Doing(Top) = "arm" /\ Top.ms > 0)
      BY <1>1, <1>3, TopIs, StepsAre
      DEF Steps, Arm, Enter, Return, Raise, Leave, Disarm, Does, WatchdogInv
    <2>2. /\ wd_generation' = wd_generation
          /\ \A i \in 1..Depth' :
               i \in 1..Depth /\ stack'[i].gen = stack[i].gen
      BY <1>1, <2>1, GenerationsStay
    <2> SUFFICES ASSUME NEW i \in 1..Depth', stack'[i].gen = wd_generation',
                        wd_generation' \notin ended', thread' # "none"
                 PROVE  wd_armed' \/ fires'[wd_generation'] > 0
      BY DEF LastArmedIsTimed
    <2>3. i \in 1..Depth /\ stack[i].gen = wd_generation /\ thread # "none"
      BY <1>1, <2>2
    <2>4. CASE Disarm /\ Disarms(Top)
      <3>1. ended' = ended \cup ({Top.gen} \ {0}) /\ Doing(Top) = "disarm"
        BY <2>4 DEF Disarm, Does
      <3> QED BY <1>1, <2>2, <2>3, <2>4, <3>1, DisarmEndsTheLast
    <2>5. CASE ~(Disarm /\ Disarms(Top))
      <3>1. UNCHANGED <<wd_armed, ended>>
        BY <1>3, <2>5
        DEF Steps, Arm, Enter, Return, Raise, Leave, Disarm, armVars
      <3> QED BY <1>1, <2>2, <2>3, <3>1 DEF WatchdogInv, LastArmedIsTimed
    <2> QED BY <2>4, <2>5
  <1> QED BY <1>2, <1>3

LEMMA StepsStep == ASSUME WatchdogInv, Steps PROVE WatchdogInv'
  <1>1. /\ stack # << >> /\ UNCHANGED <<host, starts>>
        /\ \E f : Becomes(f) /\ Reroutes(f) /\ stack' = Advance(f)
    BY StepsBecome
  <1>2. Nests' /\ Routes' /\ Counted'
    BY <1>1, NestsOn, RoutesOn, CountedOn
  <1> QED BY <1>2, StepsKeepTypes, StepsAreTimed, StepsKeepTheLast
          DEF WatchdogInv

(* A new execution has neither entered a runtime nor been armed.           *)
LEMMA ExecuteStep ==
  ASSUME WatchdogInv, NEW kind \in {"task", "call", "cli"},
         NEW r \in RuntimeIds \cup {RuntimeNone}, Execute(kind, r)
  PROVE  WatchdogInv'
  <1> DEFINE n == Depth
  <1>1. PICK ms \in Budget(kind, r) :
          /\ ms > 0 => wd_generation < MaxArms + 2 * starts - 1
          /\ stack' = Append(stack, [kind |-> kind, rt |-> r, ms |-> ms,
                              step |-> 1, gen |-> 0, prev |-> RuntimeNone])
    BY DEF Execute
  <1> DEFINE f == [kind |-> kind, rt |-> r, ms |-> ms, step |-> 1, gen |-> 0,
                   prev |-> RuntimeNone]
  <1>2. /\ host = "up" /\ MayBegin(kind)
        /\ UNCHANGED <<wd_armed, wd_timeout, wd_generation, since, thread, gen,
                       left, target, fires, wd_running, host, starts,
                       active_runtime, raised, woken, ended>>
    BY DEF Execute, armVars, threadVars, hostVars
  <1>3. stack \in Seq(Frame) /\ n \in Nat /\ wd_generation \in Nat
    BY WatchdogAssumption
    DEF WatchdogInv, WatchdogTypeOK, Depth, Generations
  <1>4. /\ ms \in Timeouts \cup {0} /\ ms \in Nat
        /\ kind = "task" => ms = TaskTimeout
        /\ kind = "call" /\ ms > 0 => Root(kind) = "call"
    BY WatchdogAssumption DEF Budget
  <1>5. f \in Frame
    <2>1. 0 \in Generations
      BY WatchdogAssumption DEF Generations
    <2> QED BY <1>4, <2>1, PlanIs DEF Frame
  <1>6. f.kind = kind /\ f.ms = ms /\ f.step = 1 /\ f.gen = 0
    OBVIOUS
  <1>7. stack' = Append(stack, f)
    BY <1>1
  <1> HIDE DEF f, n
  <1>8. /\ stack' \in Seq(Frame) /\ Len(stack') = n + 1 /\ stack'[n + 1] = f
        /\ \A i \in 1..n : stack'[i] = stack[i]
        /\ n >= 1 <=> stack # << >>
    BY <1>3, <1>5, <1>7 DEF n, Depth
  <1>9. f.step <= Len(Plan[f.kind]) /\ ~Entered(f) /\ ~Armed(f)
    <2>1. 1 <= Len(Plan[f.kind])
      BY <1>5, PlansAreLong DEF Frame
    <2> QED BY <1>5, <1>6, <2>1, StepsAre DEF Past
  <1>10. FrameOK(f, wd_generation)
    BY <1>3, <1>4, <1>5, <1>6, <1>9 DEF FrameOK
  <1>11. Depth' = n + 1 /\ Depth = n
    BY <1>8 DEF Depth, n
  <1>12. /\ kind = "cli" => n = 0
         /\ n >= 1 => Doing(stack[n]) = "run"
         /\ n >= 1 => Root(kind) = stack[1].kind
         /\ kind = "task" /\ n >= 1 => stack[1].kind = "task"
    <2>1. CASE stack = << >>
      BY <1>3, <1>8, <2>1
    <2>2. CASE stack # << >>
      <3>1. n >= 1 /\ Root(kind) = stack[1].kind /\ Top = stack[n]
        BY <1>8, <1>11, <2>2 DEF Root, Top
      <3>2. /\ Doing(Top) = "run"
            /\ kind = "call" \/ (kind = "task" /\ Root(kind) = "task")
        BY <1>2, <2>2 DEF MayBegin
      <3> QED BY <3>1, <3>2
    <2> QED BY <2>1, <2>2
  <1>13. stack'[1].kind = IF n >= 1 THEN stack[1].kind ELSE kind
    BY <1>3, <1>6, <1>8
  <1>14. n = 0 => Root(kind) = kind
    BY <1>3, <1>8 DEF Root
  <1>15. Nests'
    <2>1. ASSUME NEW i \in 1..(n + 1)
          PROVE  /\ FrameOK(stack'[i], wd_generation')
                 /\ i < n + 1 => Doing(stack'[i]) = "run"
                 /\ stack'[i].kind = "cli" => i = 1
                 /\ stack'[i].kind = "task" => stack'[1].kind = "task"
                 /\ stack'[i].kind = "call" /\ stack'[i].ms > 0 =>
                      stack'[1].kind = "call"
      <3>1. CASE i = n + 1
        BY <1>2, <1>3, <1>4, <1>6, <1>8, <1>10, <1>12, <1>13, <3>1
      <3>2. CASE i # n + 1
        <4>1. i \in 1..n /\ n >= 1
          BY <1>3, <3>2
        <4>2. i = n \/ i < n
          BY <1>3, <4>1
        <4> QED BY <1>2, <1>8, <1>11, <1>12, <1>13, <4>1, <4>2
                DEF WatchdogInv, Nests
      <3> QED BY <3>1, <3>2
    <2>2. ASSUME NEW i \in 1..(n + 1), NEW j \in 1..(n + 1), i < j,
                 stack'[j].gen # 0
          PROVE  stack'[i].gen < stack'[j].gen
      <3>1. j # n + 1
        BY <1>6, <1>8, <2>2
      <3>2. i \in 1..n /\ j \in 1..n
        BY <1>3, <2>2, <3>1
      <3> QED BY <1>8, <1>11, <2>2, <3>2 DEF WatchdogInv, Nests
    <2> QED BY <1>2, <1>11, <2>1, <2>2 DEF Nests
  <1>16. Routes'
    <2>1. ASSUME NEW m \in 0..n, NEW a
          PROVE  Innermost(stack', m, a) <=> Innermost(stack, m, a)
      BY <1>3, <1>8, <2>1, InnermostSame
    <2>2. Innermost(stack', n + 1, active_runtime')
      <3>1. Innermost(stack', n, active_runtime)
        BY <1>3, <1>11, <2>1 DEF WatchdogInv, Routes
      <3> QED BY <1>2, <1>3, <1>8, <1>9, <3>1, InnermostBelow
    <2>3. ASSUME NEW i \in 1..(n + 1), Entered(stack'[i])
          PROVE  Innermost(stack', i - 1, stack'[i].prev)
      <3>1. i # n + 1
        BY <1>8, <1>9, <2>3
      <3>2. i \in 1..n /\ i - 1 \in 0..n /\ stack'[i] = stack[i]
        BY <1>3, <1>8, <3>1
      <3> QED BY <1>11, <2>1, <2>3, <3>2 DEF WatchdogInv, Routes
    <2> QED BY <1>11, <2>2, <2>3 DEF Routes
  <1>17. Counted'
    <2>1. Top' = f /\ stack' # << >> /\ MaxArms \in Nat /\ starts \in Nat
      BY <1>3, <1>8, <1>11, WatchdogAssumption
      DEF Top, WatchdogInv, WatchdogTypeOK
    <2>2. Needed' = IF ms > 0 THEN 2 ELSE 1
      BY <1>2, <1>6, <2>1 DEF Needed
    <2>3. Needed >= 1 /\ Needed \in Nat
      BY <1>2 DEF Needed
    <2>4. wd_generation + Needed <= MaxArms + 2 * starts /\ wd_generation > 0
      BY <1>2 DEF WatchdogInv, Counted
    <2> HIDE DEF Needed
    <2>5. wd_generation + Needed' <= MaxArms + 2 * starts
      BY <1>1, <1>3, <2>1, <2>2, <2>3, <2>4
    <2> QED BY <1>2, <2>4, <2>5 DEF Counted
  <1>18. LastArmedIsTimed'
    <2> SUFFICES ASSUME NEW i \in 1..(n + 1), stack'[i].gen = wd_generation,
                        wd_generation \notin ended, thread # "none"
                 PROVE  wd_armed \/ fires[wd_generation] > 0
      BY <1>2, <1>11 DEF LastArmedIsTimed
    <2>1. wd_generation > 0
      BY <1>2 DEF WatchdogInv, Counted
    <2>2. i \in 1..n
      BY <1>3, <1>6, <1>8, <2>1
    <2> QED BY <1>8, <1>11, <2>2 DEF WatchdogInv, LastArmedIsTimed
  <1>19. WatchdogTypeOK' /\ Timed'
    BY <1>2, <1>8 DEF WatchdogInv, WatchdogTypeOK, Timed
  <1> QED BY <1>15, <1>16, <1>17, <1>18, <1>19 DEF WatchdogInv

(* The thread leaves the executions alone.                                 *)
LEMMA Beside ==
  ASSUME WatchdogInv, UNCHANGED <<stack, active_runtime, host, starts,
                                  wd_generation>>
  PROVE  Routes' /\ Nests' /\ Counted'
  <1>1. Depth' = Depth /\ Top' = Top
    BY DEF Depth, Top
  <1>2. Needed' = Needed
    BY <1>1 DEF Needed
  <1>3. Counted'
    <2> HIDE DEF Needed
    <2> QED BY <1>2 DEF WatchdogInv, Counted
  <1> QED BY <1>1, <1>3 DEF WatchdogInv, Routes, Nests

LEMMA ResumeStep ==
  ASSUME WatchdogInv, Resume, thread # "none" PROVE WatchdogInv'
  <1>1. UNCHANGED <<wd_armed, wd_timeout, wd_generation, since, wd_running,
                    host, starts, active_runtime, raised, stack, target, fires,
                    ended>>
    BY DEF Resume, armVars, hostVars, guestVars
  <1>2. \/ thread' \in {"exited", "idle"} /\ gen' = gen /\ left' = left
        \/ thread' = "timing" /\ gen' = wd_generation /\ left' = wd_timeout
    BY DEF Resume
  <1>3. /\ wd_timeout \in 0..Max(Timeouts) /\ wd_timeout \in Nat
        /\ since \in Nat /\ wd_generation \in Nat
    BY LongestIs, WatchdogAssumption
    DEF WatchdogInv, WatchdogTypeOK, Generations
  <1>4. WatchdogTypeOK'
    BY <1>1, <1>2, <1>3 DEF Resume, WatchdogInv, WatchdogTypeOK
  <1>5. Timed'
    BY <1>1, <1>2, <1>3 DEF WatchdogInv, Timed
  <1>6. LastArmedIsTimed'
    BY <1>1 DEF WatchdogInv, LastArmedIsTimed, Depth
  <1> QED BY <1>1, <1>4, <1>5, <1>6, Beside DEF WatchdogInv

LEMMA FireStep == ASSUME WatchdogInv, Fire PROVE WatchdogInv'
  <1>1. /\ UNCHANGED <<wd_timeout, wd_generation, since, wd_running, gen, left,
                       host, starts, active_runtime, raised, stack, ended>>
        /\ wd_armed = TRUE /\ wd_armed' = FALSE /\ gen = wd_generation
        /\ thread = "timing" /\ thread' = "firing" /\ target' = active_runtime
        /\ woken' = FALSE /\ fires' = [fires EXCEPT ![gen] = @ + 1]
    BY DEF Fire, Undisturbed, hostVars, guestVars, WatchdogInv, WatchdogTypeOK
  <1>2. /\ fires \in [Generations -> Nat] /\ gen \in Generations
        /\ fires[gen] = 0 /\ Generations \subseteq Nat
    BY <1>1, WatchdogAssumption
    DEF WatchdogInv, WatchdogTypeOK, Timed, Generations
  <1>3. /\ fires' \in [Generations -> Nat] /\ fires'[gen] = 1
        /\ \A g \in Generations : g # gen => fires'[g] = fires[g]
    BY <1>1, <1>2
  <1>4. WatchdogTypeOK'
    BY <1>1, <1>3 DEF WatchdogInv, WatchdogTypeOK
  <1>5. Timed'
    BY <1>1, <1>2, <1>3 DEF WatchdogInv, Timed
  <1>6. LastArmedIsTimed'
    BY <1>1, <1>2, <1>3 DEF LastArmedIsTimed
  <1> QED BY <1>1, <1>4, <1>5, <1>6, Beside DEF WatchdogInv

LEMMA TickStep == ASSUME WatchdogInv, Tick PROVE WatchdogInv'
  <1>1. /\ UNCHANGED <<wd_armed, wd_timeout, wd_generation, thread, gen, target,
                       fires, wd_running, host, starts, active_runtime, raised,
                       stack, woken, ended>>
        /\ left' = IF thread = "timing" /\ left > 0 THEN left - 1 ELSE left
        /\ since' = IF since < Max(Timeouts) THEN since + 1 ELSE since
    BY DEF Tick, hostVars, guestVars
  <1> DEFINE longest == Max(Timeouts)
  <1>2. /\ longest \in Nat /\ wd_timeout \in 0..longest
        /\ left \in 0..longest /\ since \in 0..longest
    BY LongestIs DEF WatchdogInv, WatchdogTypeOK
  <1>3. since' = IF since < longest THEN since + 1 ELSE since
    BY <1>1
  <1>4. since' \in 0..longest /\ left' \in 0..longest
    <2> HIDE DEF longest
    <2> QED BY <1>1, <1>2, <1>3
  <1>5. WatchdogTypeOK'
    BY <1>1, <1>4 DEF WatchdogInv, WatchdogTypeOK
  <1>6. since + left >= wd_timeout => since' + left' >= wd_timeout
    <2> HIDE DEF longest
    <2> QED BY <1>1, <1>2, <1>3
  <1>7. Timed'
    BY <1>1, <1>6 DEF WatchdogInv, Timed
  <1>8. LastArmedIsTimed'
    BY <1>1 DEF WatchdogInv, LastArmedIsTimed, Depth
  <1> QED BY <1>1, <1>5, <1>7, <1>8, Beside DEF WatchdogInv

LEMMA ThreadStep == ASSUME WatchdogInv, Loop PROVE WatchdogInv'
  <1>1. CASE Begin \/ Idle \/ StartOver
    <2>1. Resume /\ thread # "none"
      BY <1>1 DEF Begin, Idle, StartOver
    <2> QED BY <2>1, ResumeStep
  <1>2. CASE Rewait
    <2>1. UNCHANGED <<wd_armed, wd_timeout, wd_generation, since, wd_running,
                      thread, gen, left, target, fires, host, starts,
                      active_runtime, raised, stack, ended>> /\ woken' = FALSE
      BY <1>2 DEF Rewait, armVars, threadVars, hostVars, guestVars
    <2>2. WatchdogTypeOK' /\ Timed' /\ LastArmedIsTimed'
      BY <2>1
      DEF WatchdogInv, WatchdogTypeOK, Timed, LastArmedIsTimed, Depth
    <2> QED BY <2>1, <2>2, Beside DEF WatchdogInv
  <1>3. CASE Fire
    BY <1>3, FireStep
  <1>4. CASE Interrupt
    <2>1. /\ UNCHANGED <<wd_armed, wd_timeout, wd_generation, since, wd_running,
                         gen, left, target, fires, host, starts,
                         active_runtime, stack, woken, ended>>
          /\ thread = "firing" /\ thread' = "begun"
          /\ raised' = raised \cup ({target} \cap Guests)
      BY <1>4 DEF Interrupt, armVars, hostVars
    <2>2. WatchdogTypeOK' /\ Timed' /\ LastArmedIsTimed'
      BY <2>1
      DEF WatchdogInv, WatchdogTypeOK, Timed, LastArmedIsTimed, Depth
    <2> QED BY <2>1, <2>2, Beside DEF WatchdogInv
  <1> QED BY <1>1, <1>2, <1>3, <1>4 DEF Loop

(* The engine comes up and goes down while nothing is executed.            *)
LEMMA EngineStep ==
  ASSUME WatchdogInv, StartThread \/ Shutdown \/ Join PROVE WatchdogInv'
  <1>1. stack = << >> /\ stack' = stack /\ active_runtime' = active_runtime
    BY DEF StartThread, Shutdown, Join, guestVars, WatchdogInv, Nests
  <1>2. Depth = 0 /\ Depth' = 0
    BY <1>1 DEF Depth
  <1>3. Nests' /\ LastArmedIsTimed'
    BY <1>1, <1>2 DEF Nests, LastArmedIsTimed
  <1>4. Routes'
    BY <1>1, <1>2 DEF WatchdogInv, Routes, Innermost
  <1>5. UNCHANGED <<wd_timeout, since, gen, left, target, fires, raised, ended>>
    BY DEF StartThread, Shutdown, Join, guestVars, armVars, threadVars
  <1>6. /\ wd_generation \in Nat /\ starts \in Nat /\ MaxArms \in Nat
        /\ MaxStarts \in Nat /\ gen \in Nat /\ Generations \subseteq Nat
        /\ starts <= MaxStarts
    BY WatchdogAssumption DEF WatchdogInv, WatchdogTypeOK, Generations
  <1>7. CASE StartThread
    <2>1. /\ host = "down" /\ host' = "up" /\ starts < MaxStarts
          /\ starts' = starts + 1 /\ wd_generation' = wd_generation + 1
          /\ wd_armed' = FALSE /\ wd_running' \in BOOLEAN
          /\ thread' \in {"none", "begun"} /\ woken' = woken
      BY <1>7 DEF StartThread
    <2>2. Needed = 0 /\ Needed' = 1
      BY <1>1, <2>1 DEF Needed
    <2>3. wd_generation <= MaxArms + 2 * starts
      BY <1>6, <2>2 DEF WatchdogInv, Counted
    <2>4. wd_generation' + 1 <= MaxArms + 2 * starts'
      BY <1>6, <2>1, <2>3
    <2>5. Counted'
      BY <1>6, <2>1, <2>2, <2>4 DEF Counted
    <2>6. wd_generation' \in Generations /\ starts' \in 0..MaxStarts
      BY <1>6, <2>1, <2>4 DEF Generations
    <2>7. WatchdogTypeOK'
      BY <1>1, <1>5, <2>1, <2>6 DEF WatchdogInv, WatchdogTypeOK
    <2>8. Timed'
      BY <1>5, <1>6, <2>1 DEF WatchdogInv, WatchdogTypeOK, Timed
    <2> QED BY <1>3, <1>4, <2>5, <2>7, <2>8 DEF WatchdogInv
  <1>8. CASE Shutdown
    <2>1. /\ host = "up" /\ host' \in {"down", "joining"} /\ starts' = starts
          /\ wd_generation' \in {wd_generation, wd_generation + 1}
          /\ wd_armed' = FALSE /\ wd_running' = FALSE /\ thread' = thread
          /\ woken' \in BOOLEAN
      BY <1>8 DEF Shutdown, CondSignal, threadVars, WatchdogInv, WatchdogTypeOK
    <2>2. Needed = 1 /\ Needed' = 0
      BY <1>1, <2>1 DEF Needed
    <2>3. wd_generation + 1 <= MaxArms + 2 * starts /\ wd_generation > 0
      BY <1>6, <2>1, <2>2 DEF WatchdogInv, Counted
    <2>4. wd_generation' <= MaxArms + 2 * starts /\ wd_generation' > 0
      BY <1>6, <2>1, <2>3
    <2>5. Counted'
      <3>1. \A m, k \in Nat : m <= k => m + 0 <= k
        OBVIOUS
      <3>2. MaxArms + 2 * starts \in Nat /\ wd_generation' \in Nat
        BY <1>6, <2>1
      <3>3. wd_generation' + Needed' <= MaxArms + 2 * starts
        BY <2>2, <2>4, <3>1, <3>2
      <3> QED BY <2>1, <2>4, <3>3 DEF Counted
    <2>6. wd_generation' \in Generations
      BY <1>6, <2>1, <2>4 DEF Generations
    <2>7. WatchdogTypeOK'
      BY <1>1, <1>5, <2>1, <2>6 DEF WatchdogInv, WatchdogTypeOK
    <2>8. Timed'
      BY <1>5, <1>6, <2>1 DEF WatchdogInv, WatchdogTypeOK, Timed
    <2> QED BY <1>3, <1>4, <2>5, <2>7, <2>8 DEF WatchdogInv
  <1>9. CASE Join
    <2>1. /\ host = "joining" /\ host' = "down" /\ thread' = "none"
          /\ UNCHANGED <<wd_armed, wd_generation, starts, wd_running, woken>>
      BY <1>9 DEF Join, armVars
    <2>2. Needed = 0 /\ Needed' = 0
      BY <1>1, <2>1 DEF Needed
    <2>3. Counted'
      BY <2>1, <2>2 DEF WatchdogInv, Counted
    <2>4. WatchdogTypeOK' /\ Timed'
      BY <1>1, <1>5, <2>1 DEF WatchdogInv, WatchdogTypeOK, Timed
    <2> QED BY <1>3, <1>4, <2>3, <2>4 DEF WatchdogInv
  <1> QED BY <1>7, <1>8, <1>9

LEMMA WatchdogStarts == ASSUME WatchdogInit PROVE WatchdogInv
  <1>1. stack = << >> /\ Depth = 0
    BY DEF WatchdogInit, Depth
  <1>2. Generations \subseteq Nat /\ 0 \in Generations
    BY WatchdogAssumption DEF Generations
  <1>3. WatchdogTypeOK
    BY <1>1, <1>2, LongestIs, WatchdogAssumption DEF WatchdogInit, WatchdogTypeOK
  <1>4. Routes /\ Nests /\ LastArmedIsTimed
    BY <1>1 DEF WatchdogInit, Routes, Nests, LastArmedIsTimed, Innermost
  <1>5. Needed = 0
    BY <1>1 DEF WatchdogInit, Needed
  <1>6. Counted
    BY <1>5, WatchdogAssumption DEF WatchdogInit, Counted
  <1>7. Timed
    BY <1>2 DEF WatchdogInit, Timed
  <1> QED BY <1>3, <1>4, <1>6, <1>7 DEF WatchdogInv

LEMMA WatchdogSteps ==
  ASSUME WatchdogInv, [WatchdogNext]_watchdogVars PROVE WatchdogInv'
  <1>1. CASE Loop
    BY <1>1, ThreadStep
  <1>2. CASE StartThread \/ Shutdown \/ Join
    BY <1>2, EngineStep
  <1>3. CASE \E kind \in {"task", "call", "cli"},
                r \in RuntimeIds \cup {RuntimeNone} : Execute(kind, r)
    BY <1>3, ExecuteStep
  <1>4. CASE Steps
    BY <1>4, StepsStep
  <1>5. CASE Tick
    BY <1>5, TickStep
  <1>6. CASE UNCHANGED watchdogVars
    <2>1. UNCHANGED <<wd_armed, wd_timeout, wd_generation, since, wd_running,
                      thread, gen, left, target, fires, host, starts,
                      active_runtime, raised, stack, woken, ended>>
      BY <1>6 DEF watchdogVars, armVars, threadVars, hostVars, guestVars
    <2>2. WatchdogTypeOK' /\ Timed' /\ LastArmedIsTimed'
      BY <2>1
      DEF WatchdogInv, WatchdogTypeOK, Timed, LastArmedIsTimed, Depth
    <2> QED BY <2>1, <2>2, Beside DEF WatchdogInv
  <1> QED BY <1>1, <1>2, <1>3, <1>4, <1>5, <1>6 DEF WatchdogNext, Golden, Steps

----------------------------------------------------------------------------
(* The theorems about the watchdog                                         *)

(* What executions that nest on the Golden Thread share stays right for    *)
(* the innermost (Engine.Call, Engine.Exec, SetupWatchdog): active_runtime *)
(* is its runtime, and the last one armed is timed until it disarms.       *)
THEOREM NestingStays == WatchdogSpec => []NestingIsKept
  <1>1. WatchdogInit => WatchdogInv
    BY WatchdogStarts
  <1>2. WatchdogInv /\ [WatchdogNext]_watchdogVars => WatchdogInv'
    BY WatchdogSteps
  <1>3. WatchdogInv => NestingIsKept
    BY InnermostIsMax DEF WatchdogInv, Routes, NestingIsKept
  <1> QED BY <1>1, <1>2, <1>3, PTL DEF WatchdogSpec

(* watchdog_loop decides to interrupt only when the whole timeout of the   *)
(* last Arm has passed and its execution has not disarmed, and once for an *)
(* Arm, however arms, disarms and the thread interleave.                   *)
THEOREM FiresOnlyAsArmed == WatchdogSpec => FiresAsArmed
  <1>1. WatchdogInit => WatchdogInv
    BY WatchdogStarts
  <1>2. WatchdogInv /\ [WatchdogNext]_watchdogVars => WatchdogInv'
    BY WatchdogSteps
  <1>3. WatchdogInv => FiresOncePerArm
    BY DEF WatchdogInv, Timed, FiresOncePerArm
  <1>4. WatchdogInv /\ [WatchdogNext]_watchdogVars
        => [Fire => since >= wd_timeout /\ wd_generation \notin ended]_watchdogVars
    <2> SUFFICES ASSUME WatchdogInv, Fire
                 PROVE  since >= wd_timeout /\ wd_generation \notin ended
      OBVIOUS
    <2>1. /\ thread = "timing" /\ wd_armed /\ gen = wd_generation /\ left = 0
      BY DEF Fire, Undisturbed
    <2>2. since \in Nat
      BY LongestIs DEF WatchdogInv, WatchdogTypeOK
    <2> QED BY <2>1, <2>2 DEF WatchdogInv, Timed
  <1> QED BY <1>1, <1>2, <1>3, <1>4, PTL
          DEF WatchdogSpec, FiresAsArmed, FiresOnTime
=============================================================================
