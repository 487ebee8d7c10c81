---------------------------- MODULE MCDispatcher ----------------------------
(* TLC instances of the dispatcher.                                        *)
EXTENDS Dispatcher
=============================================================================
