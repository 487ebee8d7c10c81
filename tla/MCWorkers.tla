----------------------------- MODULE MCWorkers ------------------------------
(* TLC instances of the workers of a server.  Each is a process with the   *)
(* library in it, and they share the cache of Rust units: nothing else is  *)
(* common to them.  So a behaviour is one of the library in one worker, or *)
(* one of the cache between them, as part says, while the other rests.     *)
EXTENDS Library, UnitCache, TLC

CONSTANTS w1, w2,   (* workers                                              *)
          g1, g2    (* a goroutine of each                                  *)

VARIABLE part       (* which of the two moves                               *)

OneEach == g1 :> w1 @@ g2 :> w2

(* The workspace is fresh, or its stamp is not of the dylib, and one edit  *)
(* makes the sources what the stamp says.                                  *)
Fresh == stamp = {} /\ dylib = 0
Mixed == stamp = {[version |-> 1, lock |-> {}]} /\ dylib = 0

MCInit ==
  /\ part \in {"library", "cache"} /\ Init
  /\ sources = 0 /\ lock = {} /\ newer = FALSE
  /\ Fresh \/ (part = "cache" /\ Mixed)
  /\ UnitInit
MCNext ==
  \/ part = "library" /\ Next /\ UNCHANGED <<unitVars, part>>
  \/ part = "cache" /\ UnitNext /\ UNCHANGED <<vars, part>>
MCFairness ==
  /\ WF_vars(part = "library" /\ Ends) /\ WF_vars(part = "library" /\ HostLoop)
  /\ \A x \in Execs : WF_vars(part = "library" /\ Goroutine(x))
  /\ \A w \in Procs : WF_unitVars(part = "cache" /\ Start(w))
  /\ \A t \in Threads : WF_unitVars(part = "cache" /\ Build(t))
MCSpec == MCInit /\ [][MCNext]_<<vars, unitVars, part>> /\ MCFairness
=============================================================================
