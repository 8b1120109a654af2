------------------------------ MODULE FanoutMC ------------------------------
(* Small instances of Fanout for TLC.                                      *)
EXTENDS Fanout
=============================================================================
