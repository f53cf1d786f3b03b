------------------------------- MODULE MCIpam -------------------------------
(* A small instance of the address manager: two pools at most, out of two   *)
(* networks with two addresses each to give away, for three bridge names.    *)
EXTENDS IpamScan, TLC

Symmetry == Permutations(Containers) \cup Permutations(Bridges \ {DefaultBridge})
=============================================================================
