------------------------------ MODULE Watchdog ------------------------------
(***************************************************************************)
(* The watchdog pthread of pkg/watchdog and the executions it times on the *)
(* Golden Thread (pkg/engine, cmd/libomnivm).                              *)
(*                                                                         *)
(* The thread sleeps on a condition variable; what it does between two     *)
(* waits it does under wd_mutex, except for the interrupt itself, which it *)
(* raises after it has unlocked.  The Golden Thread nests executions of    *)
(* three kinds: a "task" of the dispatcher with the hooks of               *)
(* Engine.SetupWatchdog, a "call" of OmniCall or OmniExec, and the "cli"   *)
(* execution of ExecWithWatchdog.  Time passes in ticks.                   *)
(*                                                                         *)
(* since, fires and ended are history variables.                           *)
(***************************************************************************)
EXTENDS Integers, Sequences, FiniteSetsExt

CONSTANTS
  Guests,       (* runtimes the watchdog can interrupt                       *)
  Others,       (* runtimes it has no interrupt for (Go, Rust)             *)
  RuntimeNone,  (* no runtime                                                *)
  HostRuntime,  (* the runtime hosting libomnivm, whose calls are not timed  *)
  Timeouts,     (* timeouts of an execution, in ticks                        *)
  TaskTimeout,  (* Dispatcher.TaskTimeout, 0 for none                        *)
  Kinds,        (* kinds of execution that start on an idle Golden Thread    *)
  MaxArms,      (* bound: executions armed                                   *)
  MaxDepth,     (* bound: nested executions                                  *)
  MaxStarts     (* bound: calls of Init                                      *)

RuntimeIds == Guests \cup Others

ASSUME WatchdogAssumption ==
  /\ RuntimeNone \notin RuntimeIds /\ Guests \cap Others = {}
  /\ Timeouts \subseteq Nat \ {0}
  /\ \E longest \in Timeouts : \A t \in Timeouts : t <= longest
  /\ TaskTimeout \in Timeouts \cup {0}
  /\ Kinds \subseteq {"task", "call", "cli"}
  /\ MaxArms \in Nat /\ MaxDepth \in Nat /\ MaxStarts \in Nat

VARIABLES
  wd_armed, wd_timeout, wd_generation, wd_running,
  thread,      (* where watchdog_loop is; "none" when there is no thread     *)
  woken,       (* the thread has been signalled since it went to sleep       *)
  gen, left,   (* watchdog_loop: gen, and the ticks before its deadline      *)
  target,      (* watchdog_loop: rt                                          *)
  active_runtime,
  raised,      (* runtimes with an interrupt raised and not yet delivered    *)
  stack,       (* executions of the Golden Thread, innermost last            *)
  host,        (* the engine: "down", "up", or "joining" in Shutdown         *)
  starts,      (* calls of Init                                              *)
  since,       (* history: ticks since the last Arm, up to the longest       *)
  fires,       (* history: how often each generation has timed out           *)
  ended        (* history: generations whose execution has disarmed          *)

armVars == <<wd_armed, wd_timeout, wd_generation, since>>
threadVars == <<thread, gen, left, target, fires>>
hostVars == <<wd_running, host, starts>>
guestVars == <<active_runtime, raised, stack>>
watchdogVars == <<armVars, threadVars, hostVars, guestVars, woken, ended>>

(* The steps of an execution, in order: Arm, the new active_runtime, the   *)
(* guest code, the old active_runtime, Disarm.                             *)
Plan == [task |-> <<"arm", "run", "disarm">>,
         call |-> <<"arm", "enter", "run", "leave", "disarm">>,
         cli  |-> <<"enter", "arm", "run", "disarm", "leave">>]

(* Init and Shutdown, too, start a generation.                             *)
Generations == 0..(MaxArms + 2 * MaxStarts)
Frame == [kind : DOMAIN Plan, rt : RuntimeIds \cup {RuntimeNone},
          ms : Timeouts \cup {0}, step : 1..5, gen : Generations,
          prev : RuntimeIds \cup {RuntimeNone}]
Depth == Len(stack)
Top == stack[Depth]
Doing(f) == Plan[f.kind][f.step]
Does(what) == stack # << >> /\ Doing(Top) = what

WatchdogInit ==
  /\ wd_armed = FALSE /\ wd_timeout = 0 /\ wd_generation = 0
  /\ wd_running = FALSE /\ thread = "none" /\ woken = FALSE
  /\ gen = 0 /\ left = 0 /\ target = RuntimeNone
  /\ active_runtime = RuntimeNone /\ raised = {} /\ stack = << >>
  /\ host = "down" /\ starts = 0
  /\ since = 0 /\ fires = [g \in Generations |-> 0] /\ ended = {}

----------------------------------------------------------------------------
(* watchdog_loop                                                           *)

(* The top of the loop: exit, an untimed wait, or a new deadline.          *)
Resume ==
  /\ woken' = FALSE
  /\ \/ ~wd_running /\ thread' = "exited" /\ UNCHANGED <<gen, left>>
     \/ wd_running /\ ~wd_armed /\ thread' = "idle" /\ UNCHANGED <<gen, left>>
     \/ /\ wd_running /\ wd_armed
        /\ thread' = "timing" /\ gen' = wd_generation /\ left' = wd_timeout
  /\ UNCHANGED <<armVars, hostVars, guestVars, target, fires, ended>>

(* Mutant: the generation is not looked at.                                *)
UndisturbedAnyGen == wd_armed /\ wd_running

Undisturbed == wd_armed /\ wd_running /\ wd_generation = gen

Begin == thread = "begun" /\ Resume
Idle == thread = "idle" /\ Resume
StartOver == thread = "timing" /\ ~Undisturbed /\ Resume

Rewait ==
  /\ thread = "timing" /\ Undisturbed /\ left > 0
  /\ woken' = FALSE
  /\ UNCHANGED <<armVars, threadVars, hostVars, guestVars, ended>>

Fire ==
  /\ thread = "timing" /\ Undisturbed /\ left = 0
  /\ wd_armed' = FALSE
  /\ thread' = "firing" /\ target' = active_runtime /\ woken' = FALSE
  /\ fires' = [fires EXCEPT ![gen] = @ + 1]
  /\ UNCHANGED <<wd_timeout, wd_generation, since, gen, left, hostVars,
                 guestVars, ended>>

(* The interrupt, without the mutex.                                       *)
Interrupt ==
  /\ thread = "firing"
  /\ raised' = raised \cup ({target} \cap Guests)
  /\ thread' = "begun"
  /\ UNCHANGED <<armVars, gen, left, target, fires, hostVars, active_runtime,
                 stack, woken, ended>>

----------------------------------------------------------------------------
(* The Golden Thread                                                       *)

CondSignal == woken' = (woken \/ thread \in {"idle", "timing"})

(* omnivm_watchdog_init; pthread_create may fail.                          *)
StartThread ==
  /\ host = "down" /\ starts < MaxStarts
  /\ host' = "up" /\ starts' = starts + 1
  /\ wd_armed' = FALSE /\ wd_generation' = wd_generation + 1
  /\ \/ wd_running' = TRUE /\ thread' = "begun"
     \/ wd_running' = FALSE /\ thread' = "none"
  /\ UNCHANGED <<wd_timeout, since, gen, left, target, fires, guestVars, woken,
                 ended>>

(* omnivm_watchdog_shutdown, up to pthread_join and after it.              *)
Shutdown ==
  /\ host = "up" /\ stack = << >>
  /\ wd_running' = FALSE /\ wd_armed' = FALSE
  /\ IF thread = "none"
     THEN host' = "down" /\ UNCHANGED <<wd_generation, woken>>
     ELSE host' = "joining" /\ wd_generation' = wd_generation + 1 /\ CondSignal
  /\ UNCHANGED <<wd_timeout, since, threadVars, guestVars, starts, ended>>

Join ==
  /\ host = "joining" /\ thread = "exited"
  /\ host' = "down" /\ thread' = "none"
  /\ UNCHANGED <<armVars, gen, left, target, fires, guestVars, wd_running,
                 starts, woken, ended>>

(* An execution begins: on an idle Golden Thread, or out of guest code,    *)
(* in a nested PumpUntil or through the bridge.                            *)
Root(kind) == IF stack = << >> THEN kind ELSE stack[1].kind
MayBegin(kind) ==
  IF stack = << >> THEN kind \in Kinds
  ELSE /\ Doing(Top) = "run"
       /\ kind = "call" \/ (kind = "task" /\ Root(kind) = "task")

Budget(kind, r) ==
  CASE kind = "task" -> {TaskTimeout}
    [] kind = "cli"  -> Timeouts \cup {0}
    [] kind = "call" -> IF Root(kind) = "call" /\ r # HostRuntime
                        THEN Timeouts \cup {0} ELSE {0}

Execute(kind, r) ==
  /\ host = "up" /\ Depth < MaxDepth /\ MayBegin(kind)
  /\ (r = RuntimeNone) <=> (kind = "task")
  /\ \E ms \in Budget(kind, r) :
       /\ ms > 0 => wd_generation < MaxArms + 2 * starts - 1
       /\ stack' = Append(stack, [kind |-> kind, rt |-> r, ms |-> ms,
                                  step |-> 1, gen |-> 0, prev |-> RuntimeNone])
  /\ UNCHANGED <<armVars, threadVars, hostVars, active_runtime, raised, woken,
                 ended>>

Outer == SubSeq(stack, 1, Depth - 1)
Advance(f) == IF f.step = Len(Plan[f.kind]) THEN Outer
            ELSE Append(Outer, [f EXCEPT !.step = @ + 1])

(* Mutant: Arm does not wake the thread.                                   *)
ArmQuietly ==
  /\ Does("arm")
  /\ IF Top.ms > 0
     THEN /\ wd_armed' = TRUE /\ wd_timeout' = Top.ms
          /\ wd_generation' = wd_generation + 1 /\ since' = 0
          /\ stack' = Advance([Top EXCEPT !.gen = wd_generation + 1])
     ELSE stack' = Advance(Top) /\ UNCHANGED armVars
  /\ UNCHANGED <<threadVars, hostVars, active_runtime, raised, ended, woken>>

Arm ==
  /\ Does("arm")
  /\ IF Top.ms > 0
     THEN /\ wd_armed' = TRUE /\ wd_timeout' = Top.ms
          /\ wd_generation' = wd_generation + 1 /\ since' = 0
          /\ CondSignal
          /\ stack' = Advance([Top EXCEPT !.gen = wd_generation + 1])
     ELSE stack' = Advance(Top) /\ UNCHANGED <<armVars, woken>>
  /\ UNCHANGED <<threadVars, hostVars, active_runtime, raised, ended>>

(* SetActiveRuntime; ExecWithWatchdog does not keep the old one.           *)
Enter ==
  /\ Does("enter")
  /\ active_runtime' = Top.rt
  /\ stack' = Advance([Top EXCEPT
       !.prev = IF Top.kind = "call" THEN active_runtime ELSE RuntimeNone])
  /\ UNCHANGED <<armVars, threadVars, hostVars, raised, woken, ended>>

(* The guest code returns, or an interrupt is raised in it.                *)
Return ==
  /\ Does("run")
  /\ stack' = Advance(Top)
  /\ UNCHANGED <<armVars, threadVars, hostVars, active_runtime, raised, woken,
                 ended>>

Raise ==
  /\ Does("run") /\ Top.rt \in raised
  /\ raised' = raised \ {Top.rt}
  /\ stack' = Advance(Top)
  /\ UNCHANGED <<armVars, threadVars, hostVars, active_runtime, woken, ended>>

(* Mutant: the previous runtime is not restored.                           *)
LeaveToNone ==
  /\ Does("leave")
  /\ active_runtime' = RuntimeNone
  /\ stack' = Advance(Top)
  /\ UNCHANGED <<armVars, threadVars, hostVars, raised, woken, ended>>

Leave ==
  /\ Does("leave")
  /\ active_runtime' = Top.prev
  /\ stack' = Advance(Top)
  /\ UNCHANGED <<armVars, threadVars, hostVars, raised, woken, ended>>

(* OnTaskEnd and ExecWithWatchdog disarm whether they have armed or not.   *)
Disarms(f) == f.kind \in {"task", "cli"} \/ f.ms > 0

Disarm ==
  /\ Does("disarm")
  /\ IF Disarms(Top)
     THEN /\ wd_armed' = FALSE /\ CondSignal
          /\ ended' = ended \cup ({Top.gen} \ {0})
     ELSE UNCHANGED <<wd_armed, woken, ended>>
  /\ stack' = Advance(Top)
  /\ UNCHANGED <<wd_timeout, wd_generation, since, threadVars, hostVars,
                 active_runtime, raised>>

----------------------------------------------------------------------------
Tick ==
  /\ left' = IF thread = "timing" /\ left > 0 THEN left - 1 ELSE left
  /\ since' = IF since < Max(Timeouts) THEN since + 1 ELSE since
  /\ UNCHANGED <<wd_armed, wd_timeout, wd_generation, thread, gen, target,
                 fires, hostVars, guestVars, woken, ended>>

Loop == Begin \/ Idle \/ StartOver \/ Rewait \/ Fire \/ Interrupt

Golden ==
  \/ StartThread \/ Shutdown \/ Join
  \/ \E kind \in {"task", "call", "cli"}, r \in RuntimeIds \cup {RuntimeNone} :
       Execute(kind, r)
  \/ Arm \/ Enter \/ Return \/ Raise \/ Leave \/ Disarm

WatchdogNext == Loop \/ Golden \/ Tick

WatchdogSpec == WatchdogInit /\ [][WatchdogNext]_watchdogVars

(***************************************************************************)
(* The thread goes on when it is signalled and when its deadline passes,   *)
(* but need not be woken for nothing, as POSIX allows; time passes; the    *)
(* caller of Shutdown goes on.  Guest code need never return.              *)
(***************************************************************************)
Awake == \/ Begin \/ Fire \/ Interrupt
         \/ woken /\ (Idle \/ StartOver \/ Rewait)

WatchdogFairSpec ==
  /\ WatchdogSpec
  /\ WF_watchdogVars(Awake) /\ WF_watchdogVars(Tick) /\ WF_watchdogVars(Join)

----------------------------------------------------------------------------
(* Properties                                                              *)

WatchdogTypeOK ==
  /\ wd_armed \in BOOLEAN /\ wd_timeout \in Timeouts \cup {0}
  /\ wd_generation \in Generations /\ wd_running \in BOOLEAN
  /\ thread \in {"none", "begun", "idle", "timing", "firing", "exited"}
  /\ woken \in BOOLEAN /\ gen \in Generations
  /\ left \in 0..Max(Timeouts) /\ since \in 0..Max(Timeouts)
  /\ target \in RuntimeIds \cup {RuntimeNone}
  /\ active_runtime \in RuntimeIds \cup {RuntimeNone}
  /\ raised \subseteq Guests /\ stack \in Seq(Frame)
  /\ host \in {"down", "up", "joining"} /\ starts \in 0..MaxStarts
  /\ fires \in [Generations -> Nat]
  /\ ended \subseteq Generations

(* "A generation counter prevents stale timeouts after rapid arm/disarm    *)
(* cycles": the watchdog decides to interrupt only when the whole timeout  *)
(* of the last Arm has passed and its execution has not ended.             *)
FiresOnTime ==
  [][Fire => since >= wd_timeout /\ wd_generation \notin ended]_watchdogVars

(* "The interrupt fires once for the timed-out task."                      *)
FiresOncePerArm == \A g \in Generations : fires[g] <= 1

(* The watchdog fires when an Arm says so, and no more often.              *)
FiresAsArmed == FiresOnTime /\ []FiresOncePerArm

(* active_runtime is the runtime of the innermost execution on the Golden  *)
(* Thread, whatever nested before, so that an interrupt goes to the code   *)
(* that hangs and not to the one that called it.                           *)
Entered(f) ==
  /\ \E i \in 1..(f.step - 1) : Plan[f.kind][i] = "enter"
  /\ ~ \E i \in 1..(f.step - 1) : Plan[f.kind][i] = "leave"
ActiveIsInnermost ==
  LET inside == {i \in 1..Depth : Entered(stack[i])}
  IN  active_runtime =
        IF inside = {} THEN RuntimeNone ELSE stack[Max(inside)].rt

(* An execution with a timeout is timed, until it disarms itself or the    *)
(* watchdog has fired for it, unless another one has been armed since.     *)
LastArmedIsTimed ==
  \A i \in 1..Depth :
    /\ stack[i].gen = wd_generation /\ wd_generation \notin ended
    /\ thread # "none"
    => wd_armed \/ fires[wd_generation] > 0

(* What executions that nest share stays right for the innermost one.      *)
NestingIsKept == WatchdogTypeOK /\ ActiveIsInnermost /\ LastArmedIsTimed

(* Guest code that never returns is interrupted: no wakeup of the watchdog *)
(* is lost, whatever the thread is doing when Arm is called.               *)
OverdueIsInterrupted == (wd_armed /\ thread # "none") ~> ~wd_armed

(* Shutdown returns, and with it the thread has ended.                     *)
ShutdownReturns == host = "joining" ~> host = "down"

(* Neither overdue guest code nor a shutdown waits for ever.               *)
NothingHangs == OverdueIsInterrupted /\ ShutdownReturns
=============================================================================
