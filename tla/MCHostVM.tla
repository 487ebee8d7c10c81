------------------------------ MODULE MCHostVM ------------------------------
(* TLC instances of the VM.                                                *)
EXTENDS HostVM, TLC

CONSTANTS py, js, c1, c2

TwoCalls == {c1, c2}
Order == <<py, js>>
Ask(op, rt, ctx, runaway) ==
  [op |-> op, rt |-> rt, ctx |-> ctx, runaway |-> runaway]

(* A call that runs away or not beside a batch or an Execute elsewhere.    *)
TwoMenus ==
  (c1 :> {Ask("call", py, "none", TRUE)}) @@
  (c2 :> {Ask("batch", js, "live", FALSE), Ask("execute", py, "live", FALSE)})
=============================================================================
