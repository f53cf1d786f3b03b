---------------------------- MODULE MCContainer ----------------------------
(* Two containers on one network of two addresses, which ask for one name,  *)
(* one host port, and maybe for a network that does not exist.              *)
EXTENDS Container, TLC

Symmetry == Permutations(Containers)
=============================================================================
