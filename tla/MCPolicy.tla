------------------------------- MODULE MCPolicy -------------------------------
(* Requests are interchangeable, for the runs MCPolicy*.cfg.                 *)
EXTENDS Policy, TLC

Symmetry == Permutations(Procs)
=============================================================================
