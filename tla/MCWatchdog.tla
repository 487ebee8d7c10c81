----------------------------- MODULE MCWatchdog -----------------------------
(* TLC instances of the watchdog.                                          *)
EXTENDS Watchdog
=============================================================================
