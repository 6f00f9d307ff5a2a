------------------------------- MODULE Staking -------------------------------
(***************************************************************************)
(* The staking ledger: what apply() does to the account of an operator and *)
(* to the account of a node for each of the six staking transactions,      *)
(* their checks included.  A transaction that fails a check changes        *)
(* nothing.                                                                *)
(*                                                                         *)
(* Time is counted in cycles.  Fees, nonces, receipts and statistics are   *)
(* left out, and an operator that has no operatorAccountInfo yet has no    *)
(* stake, no nominee and no certificate (null and 0 are both "none").      *)
(***************************************************************************)
EXTENDS Integers

CONSTANTS
  Operators, Nodes,
  None,            \* no nominator, no nominee
  StakeAmounts,    \* what operators stake at a time
  MinStake,        \* network.current.stakeRequiredUsd
  InitialBalance,
  Rate,            \* reward of a node for a cycle
  PenaltyPercent,  \* network.current.slashing
  CertDuration,    \* certCycleDuration
  RestakeCooldown  \* network.current.restakeCooldown

ASSUME NoneAssumption == None \notin Operators /\ None \notin Nodes
ASSUME StakeAssumption == MinStake \in Nat \ {0} /\ StakeAmounts \subseteq Nat
ASSUME PaymentAssumption ==
  InitialBalance \in Nat /\ Rate \in Nat /\ PenaltyPercent \in 0..100
ASSUME DurationAssumption == CertDuration \in Nat /\ RestakeCooldown \in Nat

VARIABLES
  operators,  \* accounts of operators, with operatorAccountInfo
  nodes,      \* accounts of nodes (NodeAccount2)
  status,     \* where the nodes are, in the view of the network
  clock       \* the current cycle

ledger == <<operators, nodes>>

Operator == [balance : Int, stake : Int, nominee : Nodes \cup {None}, certExp : Nat]

Node ==
  [nominator : Operators \cup {None}, stakeLock : Int, stakeTimestamp : Nat,
   reward : Int, rewardStartTime : Nat, rewardEndTime : Nat, rewarded : BOOLEAN,
   lastPenaltyTime : Nat, timestamp : Nat]

Statuses == {"out", "standby", "syncing", "active"}

LedgerInit ==
  /\ operators = [o \in Operators |->
       [balance |-> InitialBalance, stake |-> 0, nominee |-> None, certExp |-> 0]]
  /\ nodes = [n \in Nodes |->
       [nominator |-> None, stakeLock |-> 0, stakeTimestamp |-> 0, reward |-> 0,
        rewardStartTime |-> 0, rewardEndTime |-> 0, rewarded |-> FALSE,
        lastPenaltyTime |-> 0, timestamp |-> 0]]

-----------------------------------------------------------------------------
(* Transactions of operators.                                              *)

\* Slip: a node may be staked by another operator.
VerifyStakeOfAnyNode(o, n, amount) ==
  /\ nodes[n].stakeTimestamp + RestakeCooldown <= clock
  /\ amount >= MinStake \/ (operators[o].stake # 0 /\ amount > 0)
  /\ operators[o].nominee \in {None, n}

VerifyStake(o, n, amount) ==
  /\ nodes[n].stakeTimestamp + RestakeCooldown <= clock
  /\ amount >= MinStake \/ (operators[o].stake # 0 /\ amount > 0)
  /\ nodes[n].nominator \in {None, o}
  /\ operators[o].nominee \in {None, n}

Staker(o, n, amount) ==
  [operators[o] EXCEPT !.balance = @ - amount, !.stake = @ + amount, !.nominee = n]

Staked(n, o, amount) ==
  [nodes[n] EXCEPT !.nominator = o, !.stakeLock = @ + amount,
     !.stakeTimestamp = clock, !.timestamp = clock]

\* Slip: nominator and nominee are mixed up.
StakeMixedUp(o, n, amount) ==
  /\ VerifyStake(o, n, amount)
  /\ operators[o].balance >= amount
  /\ operators' = [operators EXCEPT ![o] = Staker(o, o, amount)]
  /\ nodes' = [nodes EXCEPT ![n] = Staked(n, n, amount)]

Stake(o, n, amount) ==
  /\ VerifyStake(o, n, amount)
  /\ operators[o].balance >= amount
  /\ operators' = [operators EXCEPT ![o] = Staker(o, n, amount)]
  /\ nodes' = [nodes EXCEPT ![n] = Staked(n, o, amount)]

\* The active period of n has begun and not ended.
Running(n) == nodes[n].rewardEndTime = 0 /\ nodes[n].rewardStartTime > 0

VerifyUnstake(o, n, force) ==
  /\ nodes[n].nominator = o
  /\ nodes[n].stakeLock # 0
  /\ status[n] \notin {"standby", "active"}
  /\ Running(n) => force

NoBond(n) ==
  [nodes[n] EXCEPT !.nominator = None, !.stakeLock = 0, !.reward = 0,
     !.rewardStartTime = 0, !.rewardEndTime = 0, !.rewarded = FALSE,
     !.timestamp = clock]

\* What is paid out is the stake of the operator account and the reward of the
\* node account.
Repaid(o, n) ==
  LET reward == IF Running(n) THEN 0 ELSE nodes[n].reward
  IN [operators[o] EXCEPT !.balance = @ + operators[o].stake + reward,
        !.stake = 0, !.nominee = None, !.certExp = 0]

\* Slip: a certificate that is still good does not hold the stake back.
UnstakeAnyTime(o, n, force) ==
  /\ VerifyUnstake(o, n, force)
  /\ operators' = [operators EXCEPT ![o] = Repaid(o, n)]
  /\ nodes' = [nodes EXCEPT ![n] = NoBond(n)]

Unstake(o, n, force) ==
  /\ VerifyUnstake(o, n, force)
  /\ operators[o].certExp <= clock
  /\ operators' = [operators EXCEPT ![o] = Repaid(o, n)]
  /\ nodes' = [nodes EXCEPT ![n] = NoBond(n)]

SetCertTime(o) ==
  /\ operators[o].stake >= MinStake
  /\ operators' = [operators EXCEPT ![o].certExp = clock + CertDuration]
  /\ UNCHANGED nodes

-----------------------------------------------------------------------------
(* Internal transactions; a claim names the nominator and a penalty names  *)
(* the operator that the node had when the transaction was made.           *)

InitRewardTx == [type : {"init"}, node : Nodes, time : Nat, timestamp : Nat]
ClaimRewardTx ==
  [type : {"reward"}, node : Nodes, time : Nat, timestamp : Nat,
   operator : Operators \cup {None}]
PenaltyTx ==
  [type : {"left", "sync", "refuted"}, node : Nodes, time : Nat, timestamp : Nat,
   operator : Operators]

Started(tx) ==
  [nodes[tx.node] EXCEPT !.rewardStartTime = tx.time, !.rewardEndTime = 0,
     !.rewarded = FALSE, !.timestamp = tx.timestamp]

\* Slip: a transaction made before the last change of the node is applied.
InitRewardTimesAnyTime(tx) ==
  /\ nodes[tx.node].rewardStartTime < tx.time
  /\ nodes' = [nodes EXCEPT ![tx.node] = Started(tx)]
  /\ UNCHANGED operators

InitRewardTimes(tx) ==
  /\ nodes[tx.node].rewardStartTime < tx.time
  /\ nodes[tx.node].timestamp < tx.timestamp
  /\ nodes' = [nodes EXCEPT ![tx.node] = Started(tx)]
  /\ UNCHANGED operators

Claimed(tx) ==
  LET start == nodes[tx.node].rewardStartTime
      duration == IF start = 0 THEN 0 ELSE tx.time - start
  IN [nodes[tx.node] EXCEPT !.reward = @ + Rate * duration,
        !.rewardEndTime = tx.time, !.rewarded = TRUE, !.timestamp = tx.timestamp]

ClaimReward(tx) ==
  /\ nodes[tx.node].rewardEndTime < tx.time
  /\ nodes[tx.node].nominator = tx.operator /\ tx.operator # None
  /\ nodes[tx.node].rewardStartTime <= tx.time
  /\ ~nodes[tx.node].rewarded
  /\ nodes' = [nodes EXCEPT ![tx.node] = Claimed(tx)]
  /\ UNCHANGED operators

PenaltyAmount(n) ==
  LET lock == nodes[n].stakeLock
      amount == (lock * PenaltyPercent) \div 100
  IN IF amount > lock THEN lock ELSE amount

Penalized(tx) ==
  [nodes[tx.node] EXCEPT !.stakeLock = @ - PenaltyAmount(tx.node),
     !.rewardEndTime = IF tx.type = "left" /\ nodes[tx.node].rewardStartTime > 0
                       THEN tx.time ELSE @,
     !.lastPenaltyTime = tx.time, !.timestamp = tx.timestamp]

\* The stake of the operator goes down by what the lock of the node loses.
PayPenalty(tx) ==
  operators' = [operators EXCEPT ![tx.operator].stake = @ - PenaltyAmount(tx.node)]

\* Slip: the account of the operator is forgotten.
PenaltyOfNodeOnly(tx) ==
  /\ nodes[tx.node].lastPenaltyTime < tx.time
  /\ nodes' = [nodes EXCEPT ![tx.node] = Penalized(tx)]
  /\ UNCHANGED operators

\* Slip: the penalty may have been applied already.
PenaltyAgain(tx) ==
  /\ PayPenalty(tx)
  /\ nodes' = [nodes EXCEPT ![tx.node] = Penalized(tx)]

\* The result of validatePenaltyTX is an object and is tested as a boolean:
\* nothing is refused for it.
Penalty(tx) ==
  /\ nodes[tx.node].lastPenaltyTime < tx.time
  /\ PayPenalty(tx)
  /\ nodes' = [nodes EXCEPT ![tx.node] = Penalized(tx)]

-----------------------------------------------------------------------------
\* An operator nominates a node exactly if the node is nominated by it: no node
\* has two stakers, no operator stakes on two nodes, and neither account keeps
\* half of a bond that the other has given up (verifyStakeTx and both account
\* updates of a stake and of an unstake).
BondIsMutual ==
  \A o \in Operators, n \in Nodes :
    operators[o].nominee = n <=> nodes[n].nominator = o
==============================================================================
