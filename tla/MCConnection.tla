---------------------------- MODULE MCConnection ----------------------------
(* Instances of MtwConnection for TLC. *)
EXTENDS MtwConnection

CONSTANTS r1, r2
=============================================================================
