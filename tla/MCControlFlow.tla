--------------------------- MODULE MCControlFlow ---------------------------
(* TLC instances of the control flow of the manifest executor.             *)
EXTENDS ControlFlow
=============================================================================
