----------------------------- MODULE MCBindings -----------------------------
(* TLC instances of the bindings of a manifest.                            *)
EXTENDS Bindings

ValueSymmetry == Permutations(Values)

(* The last version is given only where one scope is open, and one piece   *)
(* of code runs at most; the one before only where they are three at most. *)
(* One name of the two is changed at a time, and none after the last       *)
(* version, when nobody could bind it again.                               *)
Small ==
  /\ Len(scopes) + nextBindingVersion <= MaxVersion + 1
  /\ Len(scopes) + Len(code) + nextBindingVersion <= MaxVersion + 2
  /\ \A r \in Runtimes : changed[r] # Names
Quiet ==
  nextBindingVersion = MaxVersion => \A r \in Runtimes : changed'[r] \subseteq changed[r]
MCSpec == Init /\ [][Next /\ Small' /\ Quiet]_vars
=============================================================================
