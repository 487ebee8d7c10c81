--------------------------- MODULE HandleLifetime ---------------------------
(***************************************************************************)
(* What pkg/handles promises of one handle, without locks, reference       *)
(* counts, scopes or queues: ids are handed out in order, a handle is live *)
(* until it begins to be released, its callback then runs once, and none   *)
(* of the three steps ever happens to it again.                            *)
(***************************************************************************)
EXTENDS Naturals

CONSTANT Handles   (* the ids that may be handed out                         *)

VARIABLE stage

Stages == {"unborn", "live", "releasing", "released"}
TypeOK == stage \in [Handles -> Stages]

Init == stage = [h \in Handles |-> "unborn"]

(* Ids are handed out in increasing order. *)
Open(h) ==
  /\ stage[h] = "unborn"
  /\ \A g \in Handles : g < h => stage[g] # "unborn"
  /\ stage' = [stage EXCEPT ![h] = "live"]

BeginRelease(h) ==
  /\ stage[h] = "live"
  /\ stage' = [stage EXCEPT ![h] = "releasing"]

FinishRelease(h) ==
  /\ stage[h] = "releasing"
  /\ stage' = [stage EXCEPT ![h] = "released"]

Next == \E h \in Handles : Open(h) \/ BeginRelease(h) \/ FinishRelease(h)

Spec == Init /\ [][Next]_stage
=============================================================================
