----------------------------- MODULE MCEvmFrame ------------------------------
(* Instances of EvmFrame for TLC: prices in units that keep their order. *)
EXTENDS EvmFrame, TLC

ParamOf == [p \in Params |->
  CASE p = "quadCoeffDiv" -> 4 [] p = "callValueTransfer" -> 5 [] p = "callNewAccount" -> 3
    [] p = "callStipend" -> 3 [] p = "sstoreSentryGasEIP2200" -> 3
    [] p = "sstoreInitGasEIP2200" -> 6 [] p = "sstoreCleanGasEIP2200" -> 4
    [] p = "logData" -> 0 [] OTHER -> 1]
FeeOf == [op \in Opcodes |->
  CASE op \in HaltOps \cup {"STOP", "SSTORE"} -> 0 [] op \in CreateOps -> 4
    [] op \in MessageOps -> 2 [] OTHER -> 1]
BaseOf == [p \in Precompiled |-> IF p \in {"modexp", "blake2f"} THEN 0 ELSE 1]
UnitOf == [p \in Precompiled |-> IF p \in {"ecrecover", "ecadd", "ecmul"} THEN 0 ELSE 1]
UnitBytesOf == [p \in Precompiled |-> 2]
AnswerOf == [p \in Precompiled |-> IF p \in {"ecadd", "ecmul"} THEN 4 ELSE 2]
=============================================================================
