------------------------------- MODULE MCBottle -------------------------------
(* Three services with every dependency graph, two policies.                 *)
EXTENDS Bottle, TLC

CONSTANTS p1, p2

MCPolicies == <<p1, p2>>

Symmetry == Permutations(Procs) \cup Permutations(Services)
=============================================================================
