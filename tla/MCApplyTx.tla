----------------------------- MODULE MCApplyTx ------------------------------
(* Instances of ApplyTx for TLC: addresses, slots and codes are model values. *)
EXTENDS ApplyTx, TLC

CONSTANTS sender, contract

Participants == {sender, contract}
=============================================================================
