-------------------------- MODULE MCStakingNetwork ---------------------------
(* Instances of StakingNetwork for TLC. *)
EXTENDS StakingNetwork

CONSTANTS o1, o2, n1, n2
==============================================================================
