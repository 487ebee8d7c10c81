----------------------------- MODULE MCChannels -----------------------------
(* TLC instances of the channels.                                          *)
EXTENDS Channels
=============================================================================
