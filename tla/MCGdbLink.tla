----------------------------- MODULE MCGdbLink -----------------------------
(* GdbLink for TLC.                                                         *)
EXTENDS GdbLink
=============================================================================
