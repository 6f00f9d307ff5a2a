------------------------- MODULE MCStakeCertificate --------------------------
(* Instances of StakeCertificate for TLC. *)
EXTENDS StakeCertificate, TLC

CONSTANTS o1, o2, n1, n2

Symmetry == Permutations(Operators) \cup Permutations(Nodes)
==============================================================================
