--------------------------- MODULE MCHandleTable ---------------------------
(* TLC instances of the handle table.                                      *)
EXTENDS HandleTable, TLC

ThreadSymmetry == Permutations(Threads)
=============================================================================
