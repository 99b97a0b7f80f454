---------------------------- MODULE MCK3sRemediate ----------------------------
(* Instances of K3sRemediate for TLC.                                      *)
EXTENDS K3sRemediate, TLC

Symmetry == Permutations(Owners) \cup Permutations(Jobs)
=============================================================================
