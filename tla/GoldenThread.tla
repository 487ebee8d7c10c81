---------------------------- MODULE GoldenThread ----------------------------
(***************************************************************************)
(* What pkg/dispatcher promises, without channels, loops or file           *)
(* descriptors: a task is submitted, and is then either refused for good   *)
(* or executed once.  One thread executes all tasks; when it takes a       *)
(* task while another one waits, the later task is finished first.         *)
(***************************************************************************)
EXTENDS Naturals, Sequences

CONSTANTS Tasks, None   (* None: a wait of the thread for somebody else      *)

VARIABLES
  stage,   (* how far each task has come                                     *)
  nest     (* tasks and waits of the thread, innermost last                  *)

Stages == {"new", "pending", "running", "completed", "refused"}
TypeOK == stage \in [Tasks -> Stages] /\ nest \in Seq(Tasks \cup {None})

Init == stage = [t \in Tasks |-> "new"] /\ nest = << >>

Held(t) == \E i \in 1..Len(nest) : nest[i] = t
Inner(t) == nest # << >> /\ nest[Len(nest)] = t
Outer == SubSeq(nest, 1, Len(nest) - 1)
Becomes(t, s) == stage' = [stage EXCEPT ![t] = s]

Submit(t) == stage[t] = "new" /\ Becomes(t, "pending") /\ UNCHANGED nest

(* A task the thread has not taken, or has taken and not begun.            *)
Refuse(t) ==
  /\ stage[t] \in {"new", "pending"}
  /\ Becomes(t, "refused")
  /\ \/ ~Held(t) /\ UNCHANGED nest
     \/ Inner(t) /\ nest' = Outer

Take(t) ==
  /\ stage[t] = "pending" /\ ~Held(t)
  /\ nest' = Append(nest, t)
  /\ UNCHANGED stage

Begin(t) ==
  /\ stage[t] = "pending" /\ Inner(t)
  /\ Becomes(t, "running")
  /\ UNCHANGED nest

Complete(t) ==
  /\ stage[t] = "running" /\ Inner(t)
  /\ Becomes(t, "completed")
  /\ UNCHANGED nest

Leave(t) ==
  /\ stage[t] = "completed" /\ Inner(t)
  /\ nest' = Outer
  /\ UNCHANGED stage

(* A running task, or the thread itself, begins or ends a wait.            *)
Wait ==
  /\ nest = << >> \/ \E t \in Tasks : Inner(t) /\ stage[t] = "running"
  /\ nest' = Append(nest, None)
  /\ UNCHANGED stage

EndWait == Inner(None) /\ nest' = Outer /\ UNCHANGED stage

Next ==
  \/ \E t \in Tasks : \/ Submit(t) \/ Refuse(t) \/ Take(t)
                      \/ Begin(t) \/ Complete(t) \/ Leave(t)
  \/ Wait \/ EndWait

Spec == Init /\ [][Next]_<<stage, nest>>
=============================================================================
