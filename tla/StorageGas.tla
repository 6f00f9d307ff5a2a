----------------------------- MODULE StorageGas ------------------------------
(***************************************************************************)
(* updateSstoreGasEIP2200: what a write to a slot costs and what it adds   *)
(* to or takes from the refund, by the value the slot had before the       *)
(* transaction, the one it has and the one it gets.  An empty value is 0.  *)
(***************************************************************************)
EXTENDS Integers

CONSTANTS
  sstoreNoopGas,     \* also the price of a dirty update (800)
  sstoreInitGas,     \* 20000
  sstoreCleanGas,    \* 5000
  sstoreInitRefund,  \* 19200
  sstoreCleanRefund, \* 4200
  sstoreClearRefund  \* 15000

ASSUME SstorePrices ==
  /\ {sstoreNoopGas, sstoreInitGas, sstoreCleanGas, sstoreClearRefund} \subseteq Nat
  /\ sstoreNoopGas <= sstoreInitGas /\ sstoreNoopGas <= sstoreCleanGas
  /\ sstoreInitRefund = sstoreInitGas - sstoreNoopGas
  /\ sstoreCleanRefund = sstoreCleanGas - sstoreNoopGas

\* least: the lowest that the refund gets on the way, relative to its start.
Price(cost, first, second) ==
  [cost |-> cost, refund |-> first + second, least |-> IF first < 0 THEN first ELSE 0]

\* Slip: a slot that is written again after its deletion keeps the refund.
updateSstoreGasKeeping(current, originally, value) ==
  IF current = value THEN Price(sstoreNoopGas, 0, 0)
  ELSE IF originally = current
       THEN IF originally = 0 THEN Price(sstoreInitGas, 0, 0)
            ELSE Price(sstoreCleanGas, IF value = 0 THEN sstoreClearRefund ELSE 0, 0)
       ELSE Price(sstoreNoopGas,
                  IF originally # 0 /\ value = 0 THEN sstoreClearRefund ELSE 0,
                  IF originally # value THEN 0
                  ELSE IF originally = 0 THEN sstoreInitRefund ELSE sstoreCleanRefund)

updateSstoreGasEIP2200(current, originally, value) ==
  IF current = value THEN Price(sstoreNoopGas, 0, 0)
  ELSE IF originally = current
       THEN IF originally = 0 THEN Price(sstoreInitGas, 0, 0)
            ELSE Price(sstoreCleanGas, IF value = 0 THEN sstoreClearRefund ELSE 0, 0)
       ELSE Price(sstoreNoopGas,
                  IF originally = 0 THEN 0
                  ELSE IF current = 0 THEN -sstoreClearRefund
                  ELSE IF value = 0 THEN sstoreClearRefund ELSE 0,
                  IF originally # value THEN 0
                  ELSE IF originally = 0 THEN sstoreInitRefund ELSE sstoreCleanRefund)

\* What a slot costs besides the price of each write, by its first and its last value.
Net(originally, now) ==
  IF originally = now THEN 0
  ELSE IF originally = 0 THEN sstoreInitRefund
  ELSE IF now = 0 THEN sstoreCleanRefund - sstoreClearRefund
  ELSE sstoreCleanRefund
=============================================================================
