------------------------------- MODULE MCPlans ------------------------------
(* Plans for TLC. *)
EXTENDS Plans
=============================================================================
