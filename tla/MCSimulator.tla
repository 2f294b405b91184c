---------------------------- MODULE MCSimulator ----------------------------
(* Simulator for TLC.                                                       *)
EXTENDS Simulator
=============================================================================
