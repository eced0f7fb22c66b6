---------------------------- MODULE MCTimeTravel ----------------------------
(* TimeTravel for TLC. *)
EXTENDS TimeTravel
=============================================================================
