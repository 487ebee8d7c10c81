----------------------------- MODULE MCProxies -----------------------------
(* TLC instances of the proxies and their handles.                         *)
EXTENDS Proxies
=============================================================================
