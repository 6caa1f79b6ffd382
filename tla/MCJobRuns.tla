------------------------------ MODULE MCJobRuns ------------------------------
(* Finite instances of JobRuns for TLC: two processes for one account. *)
EXTENDS JobRuns

CONSTANTS p1, p2
=============================================================================
