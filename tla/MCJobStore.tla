------------------------------ MODULE MCJobStore ------------------------------
(* JobStore on two stacks, with more jobs than the store keeps. *)
EXTENDS JobStore

MCOutcomes == {"succeeded", "failed"}
================================================================================
