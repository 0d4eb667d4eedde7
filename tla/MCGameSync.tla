----------------------------- MODULE MCGameSync -----------------------------
(* Instances of GameSync for TLC.                                           *)
EXTENDS GameSync, TLC
=============================================================================
