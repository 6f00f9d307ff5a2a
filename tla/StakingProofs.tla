--------------------------- MODULE StakingProofs ---------------------------
(***************************************************************************)
(* Proofs about StakingNetwork and StakeCertificate, for any sets of       *)
(* operators and nodes (finite ones in StakingNetwork), any amounts and    *)
(* durations, and any number of cycles and transactions.                   *)
(*                                                                         *)
(* StakingNetwork: types, penalties, rewards, and, if there is one         *)
(* operator, that its stake is what its node locks.  StakeCertificate,     *)
(* from the section on certificates on: bonds, and what a certificate that *)
(* is good vouches for.                                                    *)
(***************************************************************************)
EXTENDS StakingNetwork, StakeCertificate, FoldLemmas, SequenceTheorems, TLAPS

LedgerTyped ==
  operators \in [Operators -> Operator] /\ nodes \in [Nodes -> Node]

QueueEntry == [type : {"init", "reward"}, time : 1..MaxTime]
Txs == InitRewardTx \cup ClaimRewardTx \cup PenaltyTx

NetworkTyped ==
  /\ status \in [Nodes -> Statuses]
  /\ clock \in 1..MaxTime
  /\ queue \in [Nodes -> Seq(QueueEntry)]
  /\ inFlight \subseteq Txs
  /\ activatedAt \in [Nodes -> 0..MaxTime]
  /\ lostAt \in [Nodes -> 0..MaxTime]
  /\ activeCycles \in [Nodes -> SUBSET (1..MaxTime)]

PaymentsTyped == paidUntil \in [Nodes -> Nat] /\ inOrder \in BOOLEAN

\* A node that is active has become so in some cycle.
ActiveSince == \A n \in Nodes : status[n] = "active" => activatedAt[n] # 0

TypeInv == LedgerTyped /\ NetworkTyped /\ PaymentsTyped /\ ActiveSince

LEMMA TypeOKInParts == TypeOK <=> LedgerTyped /\ NetworkTyped /\ PaymentsTyped
BY DEF TypeOK, LedgerTyped, NetworkTyped, PaymentsTyped, QueueEntry, Txs

-----------------------------------------------------------------------------
(* The ledger. *)

\* An account that a transaction writes is an account.
LEMMA StakeTypes ==
  ASSUME operators \in [Operators -> Operator], nodes \in [Nodes -> Node],
         clock \in Nat, NEW o \in Operators, NEW n \in Nodes,
         NEW amount \in StakeAmounts
  PROVE  Staker(o, n, amount) \in Operator /\ Staked(n, o, amount) \in Node
<1>1. operators[o] \in Operator /\ nodes[n] \in Node
  OBVIOUS
<1>2. amount \in Int
  BY StakeAssumption
<1> DEFINE balance == operators[o].balance - amount
           stake == operators[o].stake + amount
           lock == nodes[n].stakeLock + amount
<1>3. balance \in Int /\ stake \in Int /\ lock \in Int
  BY <1>1, <1>2 DEF Operator, Node
<1>4. Staker(o, n, amount) =
        [operators[o] EXCEPT !.balance = balance, !.stake = stake, !.nominee = n]
  BY DEF Staker
<1>5. Staked(n, o, amount) =
        [nodes[n] EXCEPT !.nominator = o, !.stakeLock = lock,
           !.stakeTimestamp = clock, !.timestamp = clock]
  BY DEF Staked
<1> HIDE DEF balance, stake, lock
<1>6. Staker(o, n, amount) \in Operator
  BY <1>1, <1>3, <1>4 DEF Operator
<1>7. Staked(n, o, amount) \in Node
  BY <1>1, <1>3, <1>5 DEF Node
<1> QED
  BY <1>6, <1>7

LEMMA UnstakeTypes ==
  ASSUME operators \in [Operators -> Operator], nodes \in [Nodes -> Node],
         clock \in Nat, NEW o \in Operators, NEW n \in Nodes
  PROVE  Repaid(o, n) \in Operator /\ NoBond(n) \in Node
<1>1. operators[o] \in Operator /\ nodes[n] \in Node
  OBVIOUS
<1> DEFINE zero == 0
           empty == [nodes[n] EXCEPT !.stakeLock = zero, !.reward = zero,
                       !.rewardStartTime = zero, !.rewardEndTime = zero,
                       !.timestamp = clock]
           free == [empty EXCEPT !.nominator = None]
           reward == IF Running(n) THEN 0 ELSE nodes[n].reward
           balance == operators[o].balance + operators[o].stake + reward
           paid == [operators[o] EXCEPT !.balance = balance, !.stake = zero,
                      !.certExp = zero]
<1>zero. zero \in Nat /\ zero \in Int
  OBVIOUS
<1>2. empty \in Node
  <2> HIDE DEF zero
  <2> QED
    BY <1>1, <1>zero DEF Node
<1>3. NoBond(n) = [free EXCEPT !.rewarded = FALSE]
  BY <1>1 DEF NoBond, Node
<1>4. free \in Node
  <2> HIDE DEF empty
  <2> QED
    BY <1>2 DEF Node
<1>5. NoBond(n) \in Node
  <2> HIDE DEF free
  <2> QED
    BY <1>3, <1>4 DEF Node
<1>6. reward \in Int
  BY <1>1 DEF Node
<1>7. balance \in Int
  <2> HIDE DEF reward
  <2> QED
    BY <1>1, <1>6 DEF Operator
<1>8. paid \in Operator
  <2> HIDE DEF zero, balance
  <2> QED
    BY <1>1, <1>zero, <1>7 DEF Operator
<1>9. Repaid(o, n) = [paid EXCEPT !.nominee = None]
  BY <1>1 DEF Repaid, Operator
<1>10. Repaid(o, n) \in Operator
  <2> HIDE DEF paid
  <2> QED
    BY <1>8, <1>9 DEF Operator
<1> QED
  BY <1>5, <1>10

LEMMA RewardTypes ==
  ASSUME nodes \in [Nodes -> Node], NEW tx, tx.node \in Nodes, tx.time \in Nat,
         tx.timestamp \in Nat
  PROVE  Started(tx) \in Node /\ Claimed(tx) \in Node
<1>1. nodes[tx.node] \in Node
  OBVIOUS
<1> DEFINE start == nodes[tx.node].rewardStartTime
           duration == IF start = 0 THEN 0 ELSE tx.time - start
           reward == nodes[tx.node].reward + Rate * duration
           begun == [nodes[tx.node] EXCEPT !.rewardStartTime = tx.time,
                       !.rewardEndTime = 0, !.timestamp = tx.timestamp]
           ended == [nodes[tx.node] EXCEPT !.reward = reward,
                       !.rewardEndTime = tx.time, !.timestamp = tx.timestamp]
<1>2. begun \in Node
  BY <1>1 DEF Node
<1>3. Started(tx) = [begun EXCEPT !.rewarded = FALSE]
  BY <1>1 DEF Started, Node
<1>4. duration \in Int /\ Rate \in Int
  BY <1>1, PaymentAssumption DEF Node
<1>5. Rate * duration \in Int
  BY <1>4
<1>6. reward \in Int
  <2> HIDE DEF duration
  <2> QED
    BY <1>1, <1>5 DEF Node
<1>7. Claimed(tx) = [ended EXCEPT !.rewarded = TRUE]
  BY <1>1 DEF Claimed, Node
<1>8. ended \in Node
  <2> HIDE DEF reward
  <2> QED
    BY <1>1, <1>6 DEF Node
<1> HIDE DEF begun, ended
<1>9. Started(tx) \in Node
  BY <1>2, <1>3 DEF Node
<1>10. Claimed(tx) \in Node
  BY <1>7, <1>8 DEF Node
<1> QED
  BY <1>9, <1>10

LEMMA PenaltyTypes ==
  ASSUME nodes \in [Nodes -> Node],
         NEW tx, tx.node \in Nodes, tx.time \in Nat, tx.timestamp \in Nat
  PROVE  PenaltyAmount(tx.node) \in Int /\ Penalized(tx) \in Node
<1>1. nodes[tx.node] \in Node
  OBVIOUS
<1>2. nodes[tx.node].stakeLock \in Int /\ PenaltyPercent \in Int
  BY <1>1, PaymentAssumption DEF Node
<1>3. nodes[tx.node].stakeLock * PenaltyPercent \in Int
  BY <1>2
<1>4. (nodes[tx.node].stakeLock * PenaltyPercent) \div 100 \in Int
  BY <1>3
<1>5. PenaltyAmount(tx.node) \in Int
  BY <1>2, <1>4 DEF PenaltyAmount
<1> DEFINE lock == nodes[tx.node].stakeLock - PenaltyAmount(tx.node)
           end == IF tx.type = "left" /\ nodes[tx.node].rewardStartTime > 0
                  THEN tx.time ELSE nodes[tx.node].rewardEndTime
<1>6. lock \in Int
  BY <1>2, <1>5
<1>7. end \in Nat
  BY <1>1 DEF Node
<1>8. Penalized(tx) =
        [nodes[tx.node] EXCEPT !.stakeLock = lock, !.rewardEndTime = end,
           !.lastPenaltyTime = tx.time, !.timestamp = tx.timestamp]
  BY DEF Penalized
<1> HIDE DEF lock, end
<1>9. Penalized(tx) \in Node
  BY <1>1, <1>6, <1>7, <1>8 DEF Node
<1> QED
  BY <1>5, <1>9


LedgerStep ==
  \/ OperatorTx
  \/ \E tx \in inFlight :
       ApplyInitRewardTimes(tx) \/ ApplyClaimReward(tx) \/ ApplyPenalty(tx)

LEMMA TxTypes ==
  ASSUME NEW tx \in Txs
  PROVE  /\ tx.node \in Nodes /\ tx.time \in Nat /\ tx.timestamp \in Nat
         /\ tx.type \in {"left", "sync", "refuted"} => tx.operator \in Operators
BY DEF Txs, InitRewardTx, ClaimRewardTx, PenaltyTx

LEMMA LedgerStepTypes ==
  ASSUME LedgerTyped, NetworkTyped, LedgerStep
  PROVE  LedgerTyped'
<1>1. clock \in Nat /\ \A tx \in inFlight : tx \in Txs
  BY BoundAssumption DEF NetworkTyped
<1> USE DEF LedgerTyped
<1>2. ASSUME NEW o \in Operators, NEW n \in Nodes, NEW amount \in StakeAmounts,
             Stake(o, n, amount)
      PROVE  LedgerTyped'
  BY <1>1, <1>2, StakeTypes DEF Stake
<1>3. ASSUME NEW o \in Operators, NEW n \in Nodes, NEW force \in BOOLEAN,
             Unstake(o, n, force)
      PROVE  LedgerTyped'
  BY <1>1, <1>3, UnstakeTypes DEF Unstake
<1>4. ASSUME NEW o \in Operators, SetCertTime(o)
      PROVE  LedgerTyped'
  <2> DEFINE time == clock + CertDuration
  <2>1. time \in Nat
    BY <1>1, DurationAssumption
  <2>2. operators' = [operators EXCEPT ![o] = [operators[o] EXCEPT !.certExp = time]]
    BY <1>4 DEF SetCertTime
  <2> HIDE DEF time
  <2>3. [operators[o] EXCEPT !.certExp = time] \in Operator
    BY <2>1 DEF Operator
  <2> QED
    BY <1>4, <2>2, <2>3 DEF SetCertTime
<1>5. ASSUME NEW tx \in inFlight, InitRewardTimes(tx) \/ ClaimReward(tx)
      PROVE  LedgerTyped'
  BY <1>1, <1>5, TxTypes, RewardTypes DEF InitRewardTimes, ClaimReward
<1>6. ASSUME NEW tx \in inFlight, tx.type \in {"left", "sync", "refuted"}, Penalty(tx)
      PROVE  LedgerTyped'
  <2>1. tx.node \in Nodes /\ tx.operator \in Operators
    BY <1>1, <1>6, TxTypes
  <2>2. PenaltyAmount(tx.node) \in Int /\ Penalized(tx) \in Node
    BY <1>1, TxTypes, PenaltyTypes
  <2> DEFINE stake == operators[tx.operator].stake - PenaltyAmount(tx.node)
  <2>3. stake \in Int
    BY <2>1, <2>2 DEF Operator
  <2>4. operators' =
          [operators EXCEPT ![tx.operator] = [operators[tx.operator] EXCEPT !.stake = stake]]
    BY <1>6, <2>1 DEF Penalty, PayPenalty
  <2> HIDE DEF stake
  <2>5. [operators[tx.operator] EXCEPT !.stake = stake] \in Operator
    BY <2>1, <2>3 DEF Operator
  <2>6. operators' \in [Operators -> Operator]
    BY <2>4, <2>5
  <2> QED
    BY <1>6, <2>2, <2>6 DEF Penalty
<1> QED
  BY <1>2, <1>3, <1>4, <1>5, <1>6
  DEF LedgerStep, OperatorTx, ApplyInitRewardTimes, ApplyClaimReward, ApplyPenalty

\* A claim pays up to a time, and order is true or false.
LEMMA LedgerStepTypesPayments ==
  ASSUME LedgerTyped, NetworkTyped, PaymentsTyped, LedgerStep
  PROVE  PaymentsTyped'
<1>1. \A tx \in inFlight : tx.node \in Nodes /\ tx.time \in Nat
  BY TxTypes DEF NetworkTyped
<1>2. CASE OperatorTx \/ \E tx \in inFlight : ApplyInitRewardTimes(tx)
  BY <1>2 DEF OperatorTx, ApplyInitRewardTimes, payments, PaymentsTyped
<1>3. ASSUME NEW tx \in inFlight, ApplyClaimReward(tx) \/ ApplyPenalty(tx)
      PROVE  PaymentsTyped'
  <2>1. inOrder' \in BOOLEAN
    BY <1>3 DEF ApplyClaimReward, ApplyPenalty, KeepsOrder
  <2>2. paidUntil' \in [Nodes -> Nat]
    BY <1>1, <1>3 DEF ApplyClaimReward, ApplyPenalty, PaymentsTyped
  <2> QED
    BY <2>1, <2>2 DEF PaymentsTyped
<1> QED
  BY <1>2, <1>3 DEF LedgerStep

LEMMA LedgerStepLeavesNetwork ==
  LedgerStep => UNCHANGED <<external, inFlight>>
BY DEF LedgerStep, OperatorTx, ApplyInitRewardTimes, ApplyClaimReward, ApplyPenalty

-----------------------------------------------------------------------------
(* The network. *)

NetworkStep ==
  \/ Tick
  \/ \E n \in Nodes : Join(n) \/ Activate(n) \/ LeftEarly(n) \/ SyncTimeout(n)
                    \/ Refuted(n)
  \/ \E n \in Nodes, early \in BOOLEAN : Deactivate(n, early)
  \/ \E n \in Nodes : InjectInitRewardTimes(n) \/ InjectClaimReward(n)
  \/ \E tx \in inFlight : DropTx(tx)

LEMMA NextInParts == Next <=> LedgerStep \/ NetworkStep
BY DEF Next, LedgerStep, NetworkStep

LEMMA NetworkStepLeavesLedger ==
  NetworkStep => UNCHANGED <<ledger, penalties, payments>>
BY DEF NetworkStep, Tick, Join, Activate, LeftEarly, SyncTimeout, Refuted, Deactivate,
       InjectInitRewardTimes, InjectClaimReward, DropTx

\* A transaction that is put has its type.
LEMMA PutTypes ==
  ASSUME NetworkTyped, LedgerTyped, NEW n \in Nodes, NEW kind \in {"left", "sync", "refuted"},
         InjectPenalty(n, kind)
  PROVE  inFlight' \subseteq Txs
<1>1. CASE UNCHANGED inFlight
  BY <1>1 DEF NetworkTyped
<1>2. ASSUME NEW timestamp \in Timestamps, nodes[n].nominator # None,
             Put([type |-> kind, node |-> n, time |-> clock, timestamp |-> timestamp,
                  operator |-> nodes[n].nominator])
      PROVE  inFlight' \subseteq Txs
  <2>1. clock \in Nat /\ timestamp \in Nat
    BY BoundAssumption DEF NetworkTyped, Timestamps
  <2>2. nodes[n].nominator \in Operators
    BY <1>2 DEF LedgerTyped, Node
  <2> QED
    BY <1>2, <2>1, <2>2 DEF Put, NetworkTyped, Txs, PenaltyTx
<1> QED
  BY <1>1, <1>2 DEF InjectPenalty

LEMMA NetworkStepTypes ==
  ASSUME TypeInv, NetworkStep
  PROVE  NetworkTyped' /\ ActiveSince'
<1>1. /\ LedgerTyped /\ NetworkTyped /\ ActiveSince
      /\ clock \in Nat /\ MaxTime \in Nat /\ 1 \in 1..MaxTime
  BY BoundAssumption DEF TypeInv, NetworkTyped
<1>2. CASE Tick
  <2>1. clock' = clock + 1 /\ clock' \in 1..MaxTime
    BY <1>1, <1>2 DEF Tick, NetworkTyped
  <2>2. queue' \in [Nodes -> Seq(QueueEntry)]
    <3>1. ASSUME NEW n \in Nodes
          PROVE  (IF queue[n] # <<>> /\ Applied(n, queue[n][1]) THEN Tail(queue[n])
                  ELSE queue[n]) \in Seq(QueueEntry)
      BY <1>1, HeadTailProperties DEF NetworkTyped
    <3> QED
      BY <1>2, <3>1 DEF Tick
  <2>3. /\ status' = status /\ activatedAt' = activatedAt /\ lostAt' = lostAt
        /\ activeCycles' = activeCycles /\ inFlight' = inFlight
    BY <1>2 DEF Tick
  <2>4. NetworkTyped'
    BY <1>1, <2>1, <2>2, <2>3 DEF NetworkTyped
  <2>5. ActiveSince'
    BY <1>1, <2>1, <2>3 DEF NetworkTyped, ActiveSince
  <2> QED
    BY <2>4, <2>5
<1>3. ASSUME NEW n \in Nodes, Join(n) \/ SyncTimeout(n)
      PROVE  NetworkTyped' /\ ActiveSince'
  <2>1. status[n] # "active" /\ \E s \in {"syncing", "out"} : MoveTo(n, s)
    BY <1>3 DEF Join, SyncTimeout
  <2>2. /\ clock' = clock /\ queue' = queue /\ activatedAt' = activatedAt
        /\ lostAt' = lostAt /\ activeCycles' = activeCycles
    BY <1>3 DEF Join, SyncTimeout
  <2>3. inFlight' \subseteq Txs
    BY <1>1, <1>3, PutTypes DEF Join, SyncTimeout, NetworkTyped
  <2>4. status' \in [Nodes -> Statuses]
    BY <1>1, <2>1 DEF MoveTo, NetworkTyped, Statuses
  <2>5. \A m \in Nodes : status'[m] = "active" <=> status[m] = "active"
    BY <1>1, <2>1 DEF MoveTo, NetworkTyped
  <2>6. ActiveSince'
    BY <1>1, <2>2, <2>5 DEF ActiveSince
  <2> QED
    BY <1>1, <2>2, <2>3, <2>4, <2>6 DEF NetworkTyped
<1>4. ASSUME NEW n \in Nodes, Activate(n)
      PROVE  NetworkTyped' /\ ActiveSince'
  <2>1. /\ status[n] = "syncing" /\ MoveTo(n, "active")
        /\ activatedAt' = [activatedAt EXCEPT ![n] = clock]
        /\ queue' = [queue EXCEPT ![n] = Append(@, [type |-> "init", time |-> clock])]
        /\ clock' = clock /\ lostAt' = lostAt /\ activeCycles' = activeCycles
        /\ inFlight' = inFlight
    BY <1>4 DEF Activate
  <2>2. Append(queue[n], [type |-> "init", time |-> clock]) \in Seq(QueueEntry)
    BY <1>1, AppendProperties DEF NetworkTyped, QueueEntry
  <2>3. NetworkTyped'
    BY <1>1, <2>1, <2>2 DEF NetworkTyped, MoveTo, Statuses
  <2>4. ActiveSince'
    BY <1>1, <2>1 DEF NetworkTyped, MoveTo, ActiveSince
  <2> QED
    BY <2>3, <2>4
<1>5. ASSUME NEW n \in Nodes, NEW early \in BOOLEAN, Deactivate(n, early)
      PROVE  NetworkTyped' /\ ActiveSince'
  <2> DEFINE cycles == activeCycles[n] \cup activatedAt[n]..(clock - 1)
  <2>1. /\ status[n] = "active" /\ activatedAt[n] < clock /\ MoveTo(n, "out")
        /\ queue' = [queue EXCEPT ![n] = Append(@, [type |-> "reward", time |-> clock])]
        /\ activeCycles' = [activeCycles EXCEPT ![n] = cycles]
        /\ activatedAt' = [activatedAt EXCEPT ![n] = 0]
        /\ lostAt' = [lostAt EXCEPT ![n] = IF early THEN clock ELSE 0]
        /\ clock' = clock /\ inFlight' = inFlight
    BY <1>5 DEF Deactivate
  <2>2. Append(queue[n], [type |-> "reward", time |-> clock]) \in Seq(QueueEntry)
    BY <1>1, AppendProperties DEF NetworkTyped, QueueEntry
  <2>3. cycles \in SUBSET (1..MaxTime)
    <3>1. activeCycles[n] \subseteq 1..MaxTime /\ activatedAt[n] \in 1..MaxTime
      BY <1>1, <2>1 DEF NetworkTyped, ActiveSince
    <3> QED
      BY <1>1, <3>1 DEF NetworkTyped
  <2> HIDE DEF cycles
  <2>5. NetworkTyped'
    <3>1. (IF early THEN clock ELSE 0) \in 0..MaxTime /\ 0 \in 0..MaxTime
      BY <1>1 DEF NetworkTyped
    <3> QED
      BY <1>1, <2>1, <2>2, <2>3, <3>1 DEF NetworkTyped, MoveTo, Statuses
  <2>6. ActiveSince'
    BY <1>1, <2>1 DEF NetworkTyped, MoveTo, ActiveSince
  <2> QED
    BY <2>5, <2>6
<1>6. ASSUME NEW n \in Nodes, LeftEarly(n) \/ Refuted(n)
      PROVE  NetworkTyped' /\ ActiveSince'
  <2>1. /\ status' = status /\ clock' = clock /\ queue' = queue
        /\ activatedAt' = activatedAt /\ activeCycles' = activeCycles
        /\ lostAt' = lostAt \/ lostAt' = [lostAt EXCEPT ![n] = 0]
    BY <1>6 DEF LeftEarly, Refuted, external
  <2>2. inFlight' \subseteq Txs
    BY <1>1, <1>6, PutTypes DEF LeftEarly, Refuted
  <2>3. lostAt' \in [Nodes -> 0..MaxTime]
    <3>1. 0 \in 0..MaxTime
      BY <1>1
    <3> QED
      BY <1>1, <2>1, <3>1 DEF NetworkTyped
  <2> QED
    BY <1>1, <2>1, <2>2, <2>3 DEF NetworkTyped, ActiveSince
<1>7. ASSUME NEW n \in Nodes, InjectInitRewardTimes(n) \/ InjectClaimReward(n)
      PROVE  NetworkTyped' /\ ActiveSince'
  <2>1. UNCHANGED external
    BY <1>7 DEF InjectInitRewardTimes, InjectClaimReward
  <2>2. queue[n] # <<>>
    BY <1>7 DEF InjectInitRewardTimes, InjectClaimReward, Offered
  <2>3. queue[n][1].time \in Nat
    <3>1. queue[n] \in Seq(QueueEntry) /\ Len(queue[n]) \in Nat /\ Len(queue[n]) # 0
      BY <1>1, <2>2, EmptySeq, LenProperties DEF NetworkTyped
    <3>2. queue[n][1] \in QueueEntry
      BY <3>1, ElementOfSeq
    <3> QED
      BY <1>1, <3>2 DEF QueueEntry
  <2>4. \A timestamp \in Timestamps : timestamp \in Nat
    BY <1>1 DEF Timestamps
  <2>5. nodes[n].nominator \in Operators \cup {None}
    BY <1>1 DEF LedgerTyped, Node
  <2>6. inFlight' \subseteq Txs
    BY <1>1, <1>7, <2>3, <2>4, <2>5
    DEF InjectInitRewardTimes, InjectClaimReward, Put, NetworkTyped, Txs, InitRewardTx,
        ClaimRewardTx
  <2> QED
    BY <1>1, <2>1, <2>6 DEF external, NetworkTyped, ActiveSince
<1>8. ASSUME NEW tx \in inFlight, DropTx(tx)
      PROVE  NetworkTyped' /\ ActiveSince'
  BY <1>1, <1>8 DEF DropTx, external, NetworkTyped, ActiveSince
<1> QED
  BY <1>2, <1>3, <1>4, <1>5, <1>6, <1>7, <1>8 DEF NetworkStep

LEMMA TypeInvInductive ==
  /\ Init => TypeInv
  /\ TypeInv /\ [Next]_vars => TypeInv'
<1>1. Init => TypeInv
  <2> SUFFICES ASSUME Init PROVE TypeInv
    OBVIOUS
  <2>1. LedgerTyped
    <3>1. operators \in [Operators -> Operator]
      BY PaymentAssumption DEF Init, LedgerInit, Operator
    <3>2. nodes \in [Nodes -> Node]
      BY DEF Init, LedgerInit, Node
    <3> QED
      BY <3>1, <3>2 DEF LedgerTyped
  <2>2. NetworkTyped
    <3>1. 0 \in 0..MaxTime /\ 1 \in 1..MaxTime
      BY BoundAssumption
    <3>2. <<>> \in Seq(QueueEntry)
      BY EmptySeq
    <3> QED
      BY <3>1, <3>2 DEF Init, NetworkTyped, Statuses
  <2>3. ActiveSince
    BY DEF Init, ActiveSince
  <2>4. PaymentsTyped
    BY DEF Init, PaymentsTyped
  <2> QED
    BY <2>1, <2>2, <2>3, <2>4 DEF TypeInv
<1>2. TypeInv /\ [Next]_vars => TypeInv'
  <2> SUFFICES ASSUME TypeInv, [Next]_vars PROVE TypeInv'
    OBVIOUS
  <2>1. CASE LedgerStep
    <3>1. LedgerTyped'
      BY <2>1, LedgerStepTypes DEF TypeInv
    <3>2. NetworkTyped' /\ ActiveSince'
      BY <2>1, LedgerStepLeavesNetwork DEF TypeInv, external, NetworkTyped, ActiveSince
    <3>3. PaymentsTyped'
      BY <2>1, LedgerStepTypesPayments DEF TypeInv
    <3> QED
      BY <3>1, <3>2, <3>3 DEF TypeInv
  <2>2. CASE NetworkStep
    <3>1. LedgerTyped' /\ PaymentsTyped'
      BY <2>2, NetworkStepLeavesLedger
      DEF TypeInv, ledger, payments, LedgerTyped, PaymentsTyped
    <3> QED
      BY <2>2, <3>1, NetworkStepTypes DEF TypeInv
  <2>3. CASE UNCHANGED vars
    BY <2>3 DEF vars, ledger, external, payments, TypeInv, LedgerTyped, NetworkTyped,
       PaymentsTyped, ActiveSince
  <2> QED
    BY <2>1, <2>2, <2>3, NextInParts
<1> QED
  BY <1>1, <1>2

\* Every variable keeps its type, for any sets of operators and nodes.
THEOREM TypeCorrect == Spec => []TypeOK
<1>1. TypeInv => TypeOK
  BY TypeOKInParts DEF TypeInv
<1> QED
  BY <1>1, TypeInvInductive, PTL DEF Spec

-----------------------------------------------------------------------------
(* Penalties. *)

\* A node remembers the time of the latest event it was penalized for, across stakes,
\* unstakes and rewards.
PenaltiesRemembered ==
  /\ penalties \in [Nodes -> Seq(Nat)]
  /\ \A n \in Nodes : \A i \in 1..Len(penalties[n]) :
       penalties[n][i] <= nodes[n].lastPenaltyTime
  /\ PenalizedOnce

\* No other transaction changes that.
LEMMA PenaltyTimeKept ==
  ASSUME LedgerTyped,
         \/ OperatorTx
         \/ \E tx \in inFlight : ApplyInitRewardTimes(tx) \/ ApplyClaimReward(tx)
  PROVE  \A n \in Nodes : nodes'[n].lastPenaltyTime = nodes[n].lastPenaltyTime
<1> USE DEF LedgerTyped
<1>1. ASSUME NEW o, NEW n, NEW amount, Stake(o, n, amount)
      PROVE  \A m \in Nodes : nodes'[m].lastPenaltyTime = nodes[m].lastPenaltyTime
  BY <1>1 DEF Stake, Staked, Node
<1>2. ASSUME NEW o, NEW n, NEW force, Unstake(o, n, force)
      PROVE  \A m \in Nodes : nodes'[m].lastPenaltyTime = nodes[m].lastPenaltyTime
  BY <1>2 DEF Unstake, NoBond, Node
<1>3. ASSUME NEW o, SetCertTime(o)
      PROVE  \A m \in Nodes : nodes'[m].lastPenaltyTime = nodes[m].lastPenaltyTime
  BY <1>3 DEF SetCertTime
<1>4. ASSUME NEW tx, InitRewardTimes(tx) \/ ClaimReward(tx)
      PROVE  \A m \in Nodes : nodes'[m].lastPenaltyTime = nodes[m].lastPenaltyTime
  <2>1. CASE InitRewardTimes(tx)
    BY <2>1 DEF InitRewardTimes, Started, Node
  <2>2. CASE ClaimReward(tx)
    BY <2>2 DEF ClaimReward, Claimed, Node
  <2> QED
    BY <1>4, <2>1, <2>2
<1> QED
  BY <1>1, <1>2, <1>3, <1>4 DEF OperatorTx, ApplyInitRewardTimes, ApplyClaimReward

\* If nothing that the penalties depend on has changed, they are still remembered.
LEMMA PenaltiesUntouched ==
  ASSUME PenaltiesRemembered, penalties' = penalties,
         \A n \in Nodes : nodes'[n].lastPenaltyTime = nodes[n].lastPenaltyTime
  PROVE  PenaltiesRemembered'
BY DEF PenaltiesRemembered, PenalizedOnce

\* The next penalty of a node is for a later event.
LEMMA PenaltyRemembered ==
  ASSUME TypeInv, PenaltiesRemembered, NEW tx \in inFlight, ApplyPenalty(tx)
  PROVE  PenaltiesRemembered'
<1> DEFINE n == tx.node
           old == penalties[n]
           new == Append(old, tx.time)
           last == nodes[n].lastPenaltyTime
<1>1. tx \in Txs /\ LedgerTyped
  BY DEF TypeInv, NetworkTyped
<1>2. n \in Nodes /\ tx.time \in Nat
  BY <1>1, TxTypes
<1>3. /\ last < tx.time
      /\ nodes' = [nodes EXCEPT ![n] = Penalized(tx)]
      /\ penalties' = [penalties EXCEPT ![n] = new]
  BY DEF ApplyPenalty, Penalty
<1>4. last \in Nat
  BY <1>1, <1>2 DEF LedgerTyped, Node
<1>5. Penalized(tx).lastPenaltyTime = tx.time
  BY <1>1, <1>2 DEF Penalized, LedgerTyped, Node
<1>6. old \in Seq(Nat) /\ Len(old) \in Nat
  BY <1>2, LenProperties DEF PenaltiesRemembered
<1>7. \A i \in 1..Len(old) : old[i] \in Nat /\ old[i] <= last
  BY <1>2, <1>6, ElementOfSeq DEF PenaltiesRemembered
<1>8. /\ new \in Seq(Nat) /\ Len(new) = Len(old) + 1
      /\ \A i \in 1..Len(old) : new[i] = old[i]
      /\ new[Len(old) + 1] = tx.time
  BY <1>2, <1>6, AppendProperties
<1> HIDE DEF new
<1> DEFINE k == Len(old)
<1>k. k \in Nat /\ Len(new) = k + 1 /\ new[k + 1] = tx.time
  BY <1>6, <1>8
<1>l. \A i \in 1..k : new[i] \in Nat /\ new[i] <= last
  BY <1>7, <1>8
<1> HIDE DEF k
<1>9. \A i \in 1..Len(new) : new[i] <= tx.time
  <2> SUFFICES ASSUME NEW i \in 1..(k + 1) PROVE new[i] <= tx.time
    BY <1>k
  <2>1. CASE i = k + 1
    BY <1>2, <1>k, <2>1
  <2>2. CASE i # k + 1
    <3>1. i \in 1..k
      BY <1>k, <2>2
    <3> HIDE DEF last
    <3> QED
      BY <1>2, <1>3, <1>4, <1>l, <3>1
  <2> QED
    BY <2>1, <2>2
<1>10. \A i \in 1..(Len(new) - 1) : new[i] < new[i + 1]
  <2>1. \A i \in 1..(Len(old) - 1) : old[i] < old[i + 1]
    BY <1>2 DEF PenaltiesRemembered, PenalizedOnce
  <2> SUFFICES ASSUME NEW i \in 1..(Len(new) - 1) PROVE new[i] < new[i + 1]
    OBVIOUS
  <2>2. CASE i = Len(old)
    <3>1. i = k /\ i \in 1..k
      BY <1>k, <2>2 DEF k
    <3>2. new[i] \in Nat /\ new[i] <= last /\ new[i + 1] = tx.time
      BY <1>k, <1>l, <3>1
    <3> HIDE DEF last
    <3> QED
      BY <1>2, <1>3, <1>4, <3>2
  <2>3. CASE i # Len(old)
    <3>1. i \in 1..(Len(old) - 1) /\ i \in 1..Len(old) /\ i + 1 \in 1..Len(old)
      BY <1>6, <1>8, <2>3
    <3>2. new[i] = old[i] /\ new[i + 1] = old[i + 1]
      BY <1>8, <3>1
    <3> QED
      BY <2>1, <3>1, <3>2
  <2> QED
    BY <2>2, <2>3
<1>11. /\ penalties' \in [Nodes -> Seq(Nat)]
       /\ penalties'[n] = new /\ nodes'[n].lastPenaltyTime = tx.time
       /\ \A m \in Nodes \ {n} : penalties'[m] = penalties[m] /\ nodes'[m] = nodes[m]
  BY <1>1, <1>2, <1>3, <1>5, <1>8 DEF PenaltiesRemembered, LedgerTyped
<1>12. \A m \in Nodes : \A i \in 1..Len(penalties'[m]) :
         penalties'[m][i] <= nodes'[m].lastPenaltyTime
  BY <1>9, <1>11 DEF PenaltiesRemembered
<1>13. \A m \in Nodes : \A i \in 1..(Len(penalties'[m]) - 1) :
         penalties'[m][i] < penalties'[m][i + 1]
  BY <1>10, <1>11 DEF PenaltiesRemembered, PenalizedOnce
<1> QED
  BY <1>11, <1>12, <1>13 DEF PenaltiesRemembered, PenalizedOnce

\* A penalty that is put by several nodes, applied late or applied again counts once,
\* for any number of events and of transactions in flight.
THEOREM PenaltiesCountOnce == Spec => []PenalizedOnce
<1>1. Init => PenaltiesRemembered
  BY EmptySeq DEF Init, PenaltiesRemembered, PenalizedOnce
<1>2. TypeInv /\ PenaltiesRemembered /\ [Next]_vars => PenaltiesRemembered'
  <2> SUFFICES ASSUME TypeInv, PenaltiesRemembered, [Next]_vars PROVE PenaltiesRemembered'
    OBVIOUS
  <2>1. CASE \/ OperatorTx
             \/ \E tx \in inFlight : ApplyInitRewardTimes(tx) \/ ApplyClaimReward(tx)
    <3>1. penalties' = penalties
      BY <2>1 DEF OperatorTx, ApplyInitRewardTimes, ApplyClaimReward
    <3> QED
      BY <2>1, <3>1, PenaltyTimeKept, PenaltiesUntouched DEF TypeInv
  <2>2. CASE \E tx \in inFlight : ApplyPenalty(tx)
    BY <2>2, PenaltyRemembered
  <2>3. CASE NetworkStep \/ UNCHANGED vars
    <3>1. penalties' = penalties /\ nodes' = nodes
      BY <2>3, NetworkStepLeavesLedger DEF ledger, vars
    <3> QED
      BY <3>1, PenaltiesUntouched
  <2> QED
    BY <2>1, <2>2, <2>3, NextInParts DEF LedgerStep
<1>3. PenaltiesRemembered => PenalizedOnce
  BY DEF PenaltiesRemembered
<1> QED
  BY <1>1, <1>2, <1>3, TypeInvInductive, PTL DEF Spec

-----------------------------------------------------------------------------
(* Stake and lock, if there is one operator. *)

OneOperator == \E o : Operators = {o}
TheOperator == CHOOSE o : Operators = {o}

\* The operator has its stake in the node it nominates, and no other node locks anything.
StakeIsInNominee ==
  /\ \A n \in Nodes :
       /\ nodes[n].nominator = TheOperator <=> operators[TheOperator].nominee = n
       /\ nodes[n].nominator = None => nodes[n].stakeLock = 0
       /\ nodes[n].nominator = TheOperator =>
            operators[TheOperator].stake = nodes[n].stakeLock
  /\ operators[TheOperator].nominee = None => operators[TheOperator].stake = 0

LEMMA TheOperatorIsTheOnlyOne ==
  ASSUME OneOperator
  PROVE  Operators = {TheOperator}
BY DEF OneOperator, TheOperator

LEMMA NominatorIsOperatorOrNone ==
  ASSUME OneOperator, LedgerTyped, NEW n \in Nodes
  PROVE  /\ nodes[n].nominator \in {TheOperator, None} /\ nodes[n].stakeLock \in Int
         /\ operators[TheOperator].stake \in Int
         /\ operators[TheOperator].nominee \in Nodes \cup {None}
         /\ TheOperator # None /\ n # None
<1>1. Operators = {TheOperator}
  BY TheOperatorIsTheOnlyOne
<1>2. operators[TheOperator] \in Operator /\ nodes[n] \in Node
  BY <1>1 DEF LedgerTyped
<1> QED
  BY <1>1, <1>2, NoneAssumption DEF Operator, Node

LEMMA StakeKeepsStakeInNominee ==
  ASSUME OneOperator, LedgerTyped, StakeIsInNominee, NEW o \in Operators, NEW n \in Nodes,
         NEW amount \in StakeAmounts, Stake(o, n, amount)
  PROVE  StakeIsInNominee'
<1>1. o = TheOperator /\ amount \in Int
  BY TheOperatorIsTheOnlyOne, StakeAssumption
<1>2. /\ operators'[o].stake = operators[o].stake + amount /\ operators'[o].nominee = n
      /\ nodes'[n].nominator = o /\ nodes'[n].stakeLock = nodes[n].stakeLock + amount
      /\ \A m \in Nodes \ {n} : nodes'[m] = nodes[m]
  BY DEF Stake, Staker, Staked, LedgerTyped, Operator, Node
<1>3. nodes[n].nominator \in {None, o} /\ operators[o].nominee \in {None, n}
  BY DEF Stake, VerifyStake
<1>4. operators[o].stake = nodes[n].stakeLock
  <2>1. CASE nodes[n].nominator = o
    BY <1>1, <2>1 DEF StakeIsInNominee
  <2>2. CASE nodes[n].nominator = None
    <3>1. operators[o].nominee # n
      BY <1>1, <2>2, NominatorIsOperatorOrNone DEF StakeIsInNominee
    <3> QED
      BY <1>1, <1>3, <2>2, <3>1 DEF StakeIsInNominee
  <2> QED
    BY <1>3, <2>1, <2>2
<1>5. \A m \in Nodes \ {n} : nodes[m].nominator = None
  BY <1>1, <1>3, NominatorIsOperatorOrNone DEF StakeIsInNominee
<1>6. o # None /\ n # None
  BY <1>1, NominatorIsOperatorOrNone
<1> QED
  BY <1>1, <1>2, <1>4, <1>5, <1>6 DEF StakeIsInNominee

LEMMA UnstakeKeepsStakeInNominee ==
  ASSUME OneOperator, LedgerTyped, StakeIsInNominee, NEW o \in Operators, NEW n \in Nodes,
         NEW force \in BOOLEAN, Unstake(o, n, force)
  PROVE  StakeIsInNominee'
<1>1. o = TheOperator
  BY TheOperatorIsTheOnlyOne
<1>2. /\ operators'[o].stake = 0 /\ operators'[o].nominee = None
      /\ nodes'[n].nominator = None /\ nodes'[n].stakeLock = 0
      /\ \A m \in Nodes \ {n} : nodes'[m] = nodes[m]
  BY DEF Unstake, Repaid, NoBond, LedgerTyped, Operator, Node
<1>3. nodes[n].nominator = o
  BY DEF Unstake, VerifyUnstake
<1>4. \A m \in Nodes \ {n} : nodes[m].nominator = None
  BY <1>1, <1>3, NominatorIsOperatorOrNone DEF StakeIsInNominee
<1>5. o # None /\ \A m \in Nodes : m # None
  BY <1>1, NominatorIsOperatorOrNone
<1> QED
  BY <1>1, <1>2, <1>4, <1>5 DEF StakeIsInNominee

\* A late penalty of a node that the operator has left is of nothing.
LEMMA PenaltyKeepsStakeInNominee ==
  ASSUME OneOperator, LedgerTyped, StakeIsInNominee, NEW tx \in Txs,
         tx.type \in {"left", "sync", "refuted"}, Penalty(tx)
  PROVE  StakeIsInNominee'
<1> DEFINE n == tx.node
           o == TheOperator
           amount == PenaltyAmount(n)
<1>1. n \in Nodes /\ tx.operator = o /\ tx.time \in Nat /\ tx.timestamp \in Nat
  BY TxTypes, TheOperatorIsTheOnlyOne
<1>2. amount \in Int
  BY <1>1, PenaltyTypes DEF LedgerTyped
<1>3. nodes[n].nominator = None => amount = 0
  <2>1. SUFFICES ASSUME nodes[n].stakeLock = 0 PROVE amount = 0
    BY <1>1 DEF StakeIsInNominee
  <2>2. 0 * PenaltyPercent = 0 /\ 0 \div 100 = 0
    BY PaymentAssumption
  <2> QED
    BY <2>1, <2>2 DEF PenaltyAmount
<1>4. operators' = [operators EXCEPT ![o].stake = @ - amount]
      /\ nodes' = [nodes EXCEPT ![n] = Penalized(tx)]
  BY <1>1 DEF Penalty, PayPenalty
<1>5. /\ Penalized(tx).nominator = nodes[n].nominator
      /\ Penalized(tx).stakeLock = nodes[n].stakeLock - amount
  BY <1>1 DEF Penalized, LedgerTyped, Node
<1> HIDE DEF amount
<1>6. operators'[o].stake = operators[o].stake - amount
      /\ operators'[o].nominee = operators[o].nominee
  <2>1. operators[o] \in Operator /\ o \in Operators
    BY TheOperatorIsTheOnlyOne DEF LedgerTyped
  <2> QED
    BY <1>4, <2>1 DEF LedgerTyped, Operator
<1>7. /\ nodes'[n].nominator = nodes[n].nominator
      /\ nodes'[n].stakeLock = nodes[n].stakeLock - amount
      /\ \A m \in Nodes \ {n} : nodes'[m] = nodes[m]
  BY <1>1, <1>4, <1>5 DEF LedgerTyped
<1>8. operators[o].stake \in Int /\ nodes[n].stakeLock \in Int
      /\ nodes[n].nominator \in {o, None}
  BY <1>1, NominatorIsOperatorOrNone
<1> HIDE DEF n, o
<1>9. CASE nodes[n].nominator = None
  <2>1. operators'[o].stake = operators[o].stake /\ nodes'[n].stakeLock = nodes[n].stakeLock
    BY <1>3, <1>6, <1>7, <1>8, <1>9
  <2> QED
    BY <1>6, <1>7, <2>1 DEF StakeIsInNominee, o
<1>10. CASE nodes[n].nominator = o
  <2>1. operators[o].nominee = n /\ n # None /\ o # None
    BY <1>1, <1>10, NominatorIsOperatorOrNone DEF StakeIsInNominee, o
  <2>2. \A m \in Nodes \ {n} : nodes[m].nominator # o
    BY <2>1 DEF StakeIsInNominee, o
  <2>3. operators'[o].stake = nodes'[n].stakeLock
    BY <1>1, <1>6, <1>7, <1>10 DEF StakeIsInNominee, o
  <2> QED
    BY <1>6, <1>7, <1>10, <2>1, <2>2, <2>3 DEF StakeIsInNominee, o
<1> QED
  BY <1>8, <1>9, <1>10

\* Steps that leave bonds, stakes and locks alone.
LEMMA StakeInNomineeUntouched ==
  ASSUME StakeIsInNominee,
         operators'[TheOperator].nominee = operators[TheOperator].nominee,
         operators'[TheOperator].stake = operators[TheOperator].stake,
         \A n \in Nodes : /\ nodes'[n].nominator = nodes[n].nominator
                          /\ nodes'[n].stakeLock = nodes[n].stakeLock
  PROVE  StakeIsInNominee'
BY DEF StakeIsInNominee

\* With one operator, what it has staked is what the node it stakes on locks: for any
\* number of nodes it may go to, and any penalty that is applied after it has gone.
THEOREM StakeIsLocked ==
  ASSUME OneOperator
  PROVE  Spec => []StakeMatchesLock
<1>1. Init => StakeIsInNominee
  <2>1. TheOperator \in Operators
    BY TheOperatorIsTheOnlyOne
  <2> QED
    BY <2>1, NoneAssumption DEF Init, LedgerInit, StakeIsInNominee
<1>2. TypeInv /\ StakeIsInNominee /\ [Next]_vars => StakeIsInNominee'
  <2> SUFFICES ASSUME TypeInv, StakeIsInNominee, [Next]_vars PROVE StakeIsInNominee'
    OBVIOUS
  <2>1. LedgerTyped /\ inFlight \subseteq Txs
    BY DEF TypeInv, NetworkTyped
  <2>2. ASSUME NEW o \in Operators, NEW n \in Nodes, NEW amount \in StakeAmounts,
               Stake(o, n, amount)
        PROVE  StakeIsInNominee'
    BY <2>1, <2>2, StakeKeepsStakeInNominee
  <2>3. ASSUME NEW o \in Operators, NEW n \in Nodes, NEW force \in BOOLEAN,
               Unstake(o, n, force)
        PROVE  StakeIsInNominee'
    BY <2>1, <2>3, UnstakeKeepsStakeInNominee
  <2>4. ASSUME NEW o \in Operators, SetCertTime(o)
        PROVE  StakeIsInNominee'
    <3>1. /\ operators'[TheOperator].nominee = operators[TheOperator].nominee
          /\ operators'[TheOperator].stake = operators[TheOperator].stake
          /\ nodes' = nodes
      BY <2>1, <2>4, TheOperatorIsTheOnlyOne DEF SetCertTime, LedgerTyped, Operator
    <3> QED
      BY <3>1, StakeInNomineeUntouched
  <2>5. ASSUME NEW tx \in inFlight, InitRewardTimes(tx) \/ ClaimReward(tx)
        PROVE  StakeIsInNominee'
    <3>1. tx.node \in Nodes
      BY <2>1, TxTypes
    <3>2. /\ Started(tx).nominator = nodes[tx.node].nominator
          /\ Started(tx).stakeLock = nodes[tx.node].stakeLock
          /\ Claimed(tx).nominator = nodes[tx.node].nominator
          /\ Claimed(tx).stakeLock = nodes[tx.node].stakeLock
      BY <2>1, <3>1 DEF Started, Claimed, LedgerTyped, Node
    <3>3. operators' = operators /\ \A n \in Nodes :
            /\ nodes'[n].nominator = nodes[n].nominator
            /\ nodes'[n].stakeLock = nodes[n].stakeLock
      BY <2>1, <2>5, <3>1, <3>2 DEF InitRewardTimes, ClaimReward, LedgerTyped
    <3> QED
      BY <3>3, StakeInNomineeUntouched
  <2>6. ASSUME NEW tx \in inFlight, ApplyPenalty(tx)
        PROVE  StakeIsInNominee'
    BY <2>1, <2>6, PenaltyKeepsStakeInNominee DEF ApplyPenalty
  <2>7. CASE NetworkStep \/ UNCHANGED vars
    <3>1. operators' = operators /\ nodes' = nodes
      BY <2>7, NetworkStepLeavesLedger DEF ledger, vars
    <3> QED
      BY <3>1, StakeInNomineeUntouched
  <2> QED
    BY <2>2, <2>3, <2>4, <2>5, <2>6, <2>7, NextInParts
    DEF LedgerStep, OperatorTx, ApplyInitRewardTimes, ApplyClaimReward
<1>3. TypeInv /\ StakeIsInNominee => StakeMatchesLock
  BY TheOperatorIsTheOnlyOne DEF StakeIsInNominee, StakeMatchesLock
<1> QED
  BY <1>1, <1>2, <1>3, TypeInvInductive, PTL DEF Spec

-----------------------------------------------------------------------------
(* Rewards: what a queue of network transactions looks like. *)

\* A reward from `from` to `to` is for cycles of the set.
Covers(cycles, from, to) == from # 0 /\ from <= to => from..(to - 1) \subseteq cycles

\* The start of a period that began in cycle `time` is not known to be applied.
Waits(q, time) == \E i \in 1..Len(q) : q[i] = [type |-> "init", time |-> time]

\* Starts and ends of periods take turns, in order, up to now.
QueueShape(q, cycles, now) ==
  /\ \A i \in 1..Len(q) : q[i].time <= now
  /\ \A i, j \in 1..Len(q) : i <= j => q[i].time <= q[j].time
  /\ \A i \in 1..(Len(q) - 1) :
       /\ q[i].type # q[i + 1].type
       /\ q[i].type = "init" => Covers(cycles, q[i].time, q[i + 1].time)

\* The next entry goes to the end of the queue, now, and is of the other type.
MayFollow(q, e, cycles, more, now) ==
  /\ q \in Seq(QueueEntry) /\ e \in QueueEntry /\ now \in Nat
  /\ QueueShape(q, cycles, now) /\ cycles \subseteq more
  /\ e.time = now
  /\ q # <<>> => /\ q[Len(q)].type # e.type
                 /\ q[Len(q)].type = "init" => Covers(more, q[Len(q)].time, e.time)

Appended(q, e, more, now) ==
  /\ QueueShape(Append(q, e), more, now)
  /\ \A time : Waits(Append(q, e), time) <=>
                 Waits(q, time) \/ e = [type |-> "init", time |-> time]
  /\ Append(q, e) # <<>> /\ Append(q, e)[Len(Append(q, e))] = e
  /\ q # <<>> => Append(q, e)[1] = q[1]
  /\ q = <<>> => Append(q, e)[1] = e

\* The queue keeps its shape, and only a start that is appended waits from then on.
LEMMA ShapeOfAppend ==
  ASSUME NEW q, NEW e, NEW cycles, NEW more, NEW now, MayFollow(q, e, cycles, more, now)
  PROVE  Appended(q, e, more, now)
<1> USE DEF MayFollow
<1> DEFINE r == Append(q, e)
           k == Len(q)
<1>1. /\ k \in Nat /\ Len(r) = k + 1 /\ r[k + 1] = e
      /\ \A i \in 1..k : r[i] = q[i] /\ q[i] \in QueueEntry
  BY AppendProperties, LenProperties, ElementOfSeq
<1>2. \A i \in 1..k : q[i].time \in Nat /\ q[i].time <= now
  BY <1>1, BoundAssumption DEF QueueEntry, QueueShape
<1>3. q # <<>> <=> k # 0
  BY <1>1, EmptySeq
<1>4. r # <<>>
  BY <1>1, EmptySeq
<1> HIDE DEF r, k
<1>5. \A i \in 1..(k + 1) : i \in 1..k \/ i = k + 1
  BY <1>1
<1>6. \A i \in 1..Len(r) : r[i].time <= now
  BY <1>1, <1>2, <1>5
<1>7. ASSUME NEW i \in 1..Len(r), NEW j \in 1..Len(r), i <= j
      PROVE  r[i].time <= r[j].time
  <2>1. CASE j = k + 1
    BY <1>1, <1>6, <2>1
  <2>2. CASE j \in 1..k
    <3>1. i \in 1..k
      BY <1>1, <1>7, <2>2
    <3> QED
      BY <1>1, <1>7, <2>2, <3>1 DEF QueueShape, k
  <2> QED
    BY <1>1, <1>5, <2>1, <2>2
<1>8. ASSUME NEW i \in 1..(Len(r) - 1)
      PROVE  /\ r[i].type # r[i + 1].type
             /\ r[i].type = "init" => Covers(more, r[i].time, r[i + 1].time)
  <2>1. i \in 1..k
    BY <1>1
  <2>2. CASE i = k
    BY <1>1, <1>3, <2>1, <2>2 DEF k
  <2>3. CASE i # k
    <3>1. i \in 1..(k - 1) /\ i + 1 \in 1..k
      BY <1>1, <2>1, <2>3
    <3> QED
      BY <1>1, <2>1, <3>1 DEF QueueShape, Covers, k
  <2> QED
    BY <2>2, <2>3
<1>9. QueueShape(r, more, now)
  BY <1>6, <1>7, <1>8 DEF QueueShape
<1>10. ASSUME NEW time
       PROVE  Waits(r, time) <=> Waits(q, time) \/ e = [type |-> "init", time |-> time]
  <2>1. ASSUME Waits(q, time) PROVE Waits(r, time)
    <3>1. PICK i \in 1..k : q[i] = [type |-> "init", time |-> time]
      BY <2>1 DEF Waits, k
    <3>2. i \in 1..Len(r)
      BY <1>1
    <3> QED
      BY <1>1, <3>1, <3>2 DEF Waits
  <2>2. ASSUME e = [type |-> "init", time |-> time] PROVE Waits(r, time)
    <3>1. k + 1 \in 1..Len(r)
      BY <1>1
    <3> QED
      BY <1>1, <2>2, <3>1 DEF Waits
  <2>3. ASSUME Waits(r, time) PROVE Waits(q, time) \/ e = [type |-> "init", time |-> time]
    <3>1. PICK i \in 1..(k + 1) : r[i] = [type |-> "init", time |-> time]
      BY <1>1, <2>3 DEF Waits
    <3>2. CASE i = k + 1
      BY <1>1, <3>1, <3>2
    <3>3. CASE i \in 1..k
      BY <1>1, <3>1, <3>3 DEF Waits, k
    <3> QED
      BY <1>5, <3>2, <3>3
  <2> QED
    BY <2>1, <2>2, <2>3
<1>11. (q # <<>> => r[1] = q[1]) /\ (q = <<>> => r[1] = e)
  BY <1>1, <1>3
<1> QED
  BY <1>1, <1>4, <1>9, <1>10, <1>11 DEF Appended, r

\* An entry that is applied goes from the front.
LEMMA ShapeOfTail ==
  ASSUME NEW q \in Seq(QueueEntry), q # <<>>, NEW now \in Nat, NEW cycles,
         QueueShape(q, cycles, now)
  PROVE  /\ QueueShape(Tail(q), cycles, now)
         /\ \A time : Waits(Tail(q), time) => Waits(q, time)
         /\ \A time : Waits(q, time) =>
                        Waits(Tail(q), time) \/ q[1] = [type |-> "init", time |-> time]
         /\ q[1] \in QueueEntry
         /\ Tail(q) # <<>> =>
              /\ Tail(q)[Len(Tail(q))] = q[Len(q)]
              /\ Tail(q)[1].type # q[1].type
              /\ Tail(q)[1] \in QueueEntry
              /\ q[1].type = "init" => Covers(cycles, q[1].time, Tail(q)[1].time)
         /\ Tail(q) = <<>> => q[Len(q)] = q[1]
<1> DEFINE r == Tail(q)
           k == Len(q)
<1>1. /\ k \in Nat \ {0} /\ r \in Seq(QueueEntry) /\ Len(r) = k - 1
      /\ \A i \in 1..(k - 1) : r[i] = q[i + 1]
  BY HeadTailProperties, LenProperties, EmptySeq
<1>2. 1 \in 1..k /\ \A i \in 1..k : q[i] \in QueueEntry
  BY <1>1, ElementOfSeq
<1>3. r # <<>> <=> k # 1
  <2> HIDE DEF r, k
  <2>1. r = <<>> <=> Len(r) = 0
    BY <1>1, EmptySeq
  <2> QED
    BY <1>1, <2>1
<1> HIDE DEF r, k
<1>4. \A i \in 1..Len(r) : i \in 1..(k - 1) /\ i + 1 \in 1..k /\ r[i] = q[i + 1]
  BY <1>1
<1>5. \A i \in 1..Len(r) : r[i].time <= now
  BY <1>4 DEF QueueShape, k
<1>6. ASSUME NEW i \in 1..Len(r), NEW j \in 1..Len(r), i <= j
      PROVE  r[i].time <= r[j].time
  <2>1. i + 1 <= j + 1 /\ i + 1 \in 1..k /\ j + 1 \in 1..k
    BY <1>4, <1>6
  <2>2. q[i + 1].time <= q[j + 1].time
    BY <2>1 DEF QueueShape, k
  <2> QED
    BY <1>4, <2>2
<1>7. ASSUME NEW i \in 1..(Len(r) - 1)
      PROVE  /\ r[i].type # r[i + 1].type
             /\ r[i].type = "init" => Covers(cycles, r[i].time, r[i + 1].time)
  <2>1. i \in 1..Len(r) /\ i + 1 \in 1..Len(r) /\ i + 1 \in 1..(k - 1)
    BY <1>1
  <2>2. /\ q[i + 1].type # q[i + 1 + 1].type
        /\ q[i + 1].type = "init" => Covers(cycles, q[i + 1].time, q[i + 1 + 1].time)
    BY <2>1 DEF QueueShape, k
  <2> QED
    BY <1>4, <2>1, <2>2
<1>8. QueueShape(r, cycles, now)
  BY <1>5, <1>6, <1>7 DEF QueueShape
<1>9. ASSUME NEW time, Waits(r, time)
      PROVE  Waits(q, time)
  BY <1>4, <1>9 DEF Waits, k
<1>10. ASSUME NEW time, Waits(q, time), q[1] # [type |-> "init", time |-> time]
       PROVE  Waits(r, time)
  <2>1. PICK i \in 1..k : q[i] = [type |-> "init", time |-> time]
    BY <1>10 DEF Waits, k
  <2>2. i # 1
    BY <1>10, <2>1
  <2>3. i - 1 \in 1..Len(r) /\ i - 1 + 1 = i
    BY <1>1, <2>2
  <2> QED
    BY <1>4, <2>1, <2>3 DEF Waits
<1>11. ASSUME r # <<>>
       PROVE  /\ r[Len(r)] = q[k] /\ r[1].type # q[1].type /\ r[1] \in QueueEntry
              /\ q[1].type = "init" => Covers(cycles, q[1].time, r[1].time)
  <2>1. /\ 1 \in 1..Len(r) /\ Len(r) \in 1..Len(r) /\ Len(r) + 1 = k
        /\ 1 \in 1..(k - 1) /\ 1 + 1 \in 1..k
    BY <1>1, <1>3, <1>11
  <2>2. r[1] = q[1 + 1] /\ r[Len(r)] = q[k]
    BY <1>4, <2>1
  <2> QED
    BY <1>2, <2>1, <2>2 DEF QueueShape, k
<1>12. r = <<>> => q[k] = q[1]
  BY <1>3
<1> QED
  BY <1>2, <1>8, <1>9, <1>10, <1>11, <1>12 DEF r, k

\* What waits is in the queue: not before its first entry.
LEMMA WaitingIsQueued ==
  ASSUME NEW q \in Seq(QueueEntry), NEW now \in Nat, NEW cycles,
         QueueShape(q, cycles, now), NEW time, Waits(q, time)
  PROVE  /\ time \in 1..MaxTime /\ time <= now /\ q # <<>>
         /\ q[1] \in QueueEntry /\ q[1].time <= time
<1>1. PICK i \in 1..Len(q) : q[i] = [type |-> "init", time |-> time]
  BY DEF Waits
<1>2. Len(q) \in Nat /\ 1 \in 1..Len(q) /\ 1 <= i
  BY <1>1, LenProperties
<1>3. q # <<>> /\ q[i] \in QueueEntry /\ q[1] \in QueueEntry
  BY <1>2, EmptySeq, ElementOfSeq
<1>4. q[1].time <= q[i].time /\ q[i].time <= now
  BY <1>2 DEF QueueShape
<1> QED
  BY <1>1, <1>3, <1>4 DEF QueueEntry

-----------------------------------------------------------------------------
(* Rewards: the periods of a node. *)

Start(n) == nodes[n].rewardStartTime

\* The queue of a node ends with the period that it is in.
QueueInv(n) ==
  /\ QueueShape(queue[n], activeCycles[n], clock)
  /\ queue[n] # <<>> =>
       /\ status[n] = "active" <=> queue[n][Len(queue[n])].type = "init"
       /\ status[n] = "active" => queue[n][Len(queue[n])].time = activatedAt[n]

\* What a node may be paid for next begins after what it was paid for, and ends
\* where the period ends: the account has no start that is older than the period.
NodeInv(n) ==
  /\ nodes[n].timestamp <= clock /\ paidUntil[n] <= clock
  /\ ~nodes[n].rewarded /\ Start(n) # 0 => paidUntil[n] <= Start(n)
  /\ \A time \in 1..MaxTime : Waits(queue[n], time) => paidUntil[n] <= time
  /\ queue[n] # <<>> /\ queue[n][1].type = "reward" =>
       Covers(activeCycles[n], Start(n), queue[n][1].time)
  /\ queue[n] = <<>> /\ status[n] = "active" /\ Start(n) # 0 =>
       activatedAt[n] <= Start(n)

\* A start that no longer waits is too old to be applied again, and what a claim
\* would pay the node was active for.
TxInv(tx) ==
  /\ tx.type = "init" =>
       /\ tx.timestamp <= clock + 1
       /\ \/ Waits(queue[tx.node], tx.time)
          \/ /\ tx.timestamp <= clock
             /\ tx.time <= Start(tx.node) \/ tx.timestamp <= nodes[tx.node].timestamp
  /\ tx.type = "reward" =>
       /\ tx.time <= clock
       /\ \A time \in 1..MaxTime : Waits(queue[tx.node], time) => tx.time <= time
       /\ Covers(activeCycles[tx.node], Start(tx.node), tx.time)

PeriodInv ==
  /\ \A n \in Nodes : QueueInv(n)
  /\ inOrder => (\A n \in Nodes : NodeInv(n)) /\ (\A tx \in inFlight : TxInv(tx))

\* A period is started only while its start waits.
LEMMA OnlyWaitingStarts ==
  ASSUME TypeInv, PeriodInv, inOrder, NEW tx \in inFlight, ApplyInitRewardTimes(tx)
  PROVE  Waits(queue[tx.node], tx.time)
<1>1. tx \in Txs /\ TxInv(tx) /\ tx.type = "init"
  BY DEF TypeInv, NetworkTyped, PeriodInv, ApplyInitRewardTimes
<1>2. tx.node \in Nodes /\ tx.time \in Nat /\ tx.timestamp \in Nat
  BY <1>1, TxTypes
<1>3. nodes[tx.node].rewardStartTime \in Nat /\ nodes[tx.node].timestamp \in Nat
  BY <1>2 DEF TypeInv, LedgerTyped, Node
<1>4. ~(tx.time <= Start(tx.node)) /\ ~(tx.timestamp <= nodes[tx.node].timestamp)
  BY <1>2, <1>3 DEF ApplyInitRewardTimes, InitRewardTimes, Start
<1> QED
  BY <1>1, <1>4 DEF TxInv

\* What a step does to the period of node m: nothing, or end it with the stake,
Untouched(m) ==
  /\ nodes'[m].rewardStartTime = nodes[m].rewardStartTime
  /\ nodes'[m].rewarded = nodes[m].rewarded
  /\ nodes[m].timestamp <= nodes'[m].timestamp
  /\ paidUntil'[m] = paidUntil[m]
Cleared(m) ==
  /\ nodes'[m].rewardStartTime = 0
  /\ nodes'[m].timestamp = clock
  /\ paidUntil'[m] = paidUntil[m]
\* or start it, or pay it.
Begun(tx, m) ==
  /\ tx.node = m /\ Waits(queue[m], tx.time)
  /\ nodes[m].rewardStartTime < tx.time
  /\ nodes[m].timestamp <= nodes'[m].timestamp
  /\ nodes'[m].rewardStartTime = tx.time
  /\ paidUntil'[m] = paidUntil[m]
PaidBy(tx, m) ==
  /\ tx.node = m /\ tx.type = "reward"
  /\ nodes'[m].rewardStartTime = nodes[m].rewardStartTime
  /\ nodes'[m].rewarded
  /\ nodes[m].timestamp <= nodes'[m].timestamp
  /\ paidUntil'[m] = IF nodes[m].rewardStartTime = 0 THEN paidUntil[m] ELSE tx.time

LedgerEffect(m) ==
  /\ nodes'[m].timestamp <= clock
  /\ \/ Untouched(m) \/ Cleared(m)
     \/ \E tx \in inFlight : Begun(tx, m) \/ PaidBy(tx, m)

\* Once out of order, the ledger stays so.
LEMMA OrderIsNotRestored ==
  ASSUME LedgerStep, inOrder'
  PROVE  inOrder
BY DEF LedgerStep, OperatorTx, ApplyInitRewardTimes, ApplyClaimReward, ApplyPenalty,
       KeepsOrder, payments

\* Every step of the ledger has one of these effects on a node.
LEMMA LedgerEffects ==
  ASSUME TypeInv, PeriodInv, LedgerStep, inOrder', NEW m \in Nodes
  PROVE  LedgerEffect(m)
<1>1. inOrder
  BY OrderIsNotRestored
<1>2. /\ nodes \in [Nodes -> Node] /\ nodes[m] \in Node /\ clock \in Nat
      /\ nodes[m].timestamp <= clock /\ nodes[m].timestamp \in Nat
      /\ paidUntil \in [Nodes -> Nat]
  BY <1>1, BoundAssumption
  DEF TypeInv, LedgerTyped, NetworkTyped, PaymentsTyped, PeriodInv, NodeInv, Node
<1>3. \A tx \in inFlight : tx \in Txs
  BY DEF TypeInv, NetworkTyped
<1>4. CASE OperatorTx
  <2>1. paidUntil' = paidUntil
    BY <1>4 DEF OperatorTx, payments
  <2>2. ASSUME NEW o \in Operators, NEW n \in Nodes, NEW amount \in StakeAmounts,
               Stake(o, n, amount)
        PROVE  LedgerEffect(m)
    <3>1. /\ nodes'[m].rewardStartTime = nodes[m].rewardStartTime
          /\ nodes'[m].timestamp = IF m = n THEN clock ELSE nodes[m].timestamp
      BY <1>2, <2>2 DEF Stake, Staked, Node
    <3>2. nodes'[m].rewarded = nodes[m].rewarded
      BY <1>2, <2>2 DEF Stake, Staked, Node
    <3> QED
      BY <1>2, <2>1, <3>1, <3>2 DEF LedgerEffect, Untouched
  <2>3. ASSUME NEW o \in Operators, NEW n \in Nodes, NEW force \in BOOLEAN,
               Unstake(o, n, force)
        PROVE  LedgerEffect(m)
    <3>1. CASE m = n
      <4>1. nodes'[m].rewardStartTime = 0 /\ nodes'[m].timestamp = clock
        BY <1>2, <2>3, <3>1 DEF Unstake, NoBond, Node
      <4> QED
        BY <1>2, <2>1, <4>1 DEF LedgerEffect, Cleared
    <3>2. CASE m # n
      <4>1. nodes'[m] = nodes[m]
        BY <1>2, <2>3, <3>2 DEF Unstake
      <4> QED
        BY <1>2, <2>1, <4>1 DEF LedgerEffect, Untouched
    <3> QED
      BY <3>1, <3>2
  <2>4. ASSUME NEW o \in Operators, SetCertTime(o)
        PROVE  LedgerEffect(m)
    BY <1>2, <2>1, <2>4 DEF SetCertTime, LedgerEffect, Untouched
  <2> QED
    BY <1>1, <1>4, <2>2, <2>3, <2>4 DEF OperatorTx
<1>5. ASSUME NEW tx \in inFlight, ApplyInitRewardTimes(tx)
      PROVE  LedgerEffect(m)
  <2>1. paidUntil' = paidUntil
    BY <1>5 DEF ApplyInitRewardTimes, payments
  <2>2. CASE m = tx.node
    <3>1. /\ nodes'[m].rewardStartTime = tx.time /\ nodes'[m].timestamp = tx.timestamp
          /\ nodes[m].rewardStartTime < tx.time /\ nodes[m].timestamp < tx.timestamp
          /\ tx.timestamp <= clock
      BY <1>2, <1>5, <2>2 DEF ApplyInitRewardTimes, InitRewardTimes, Started, Node
    <3>2. Waits(queue[m], tx.time)
      BY <1>1, <1>5, <2>2, OnlyWaitingStarts
    <3>3. tx.timestamp \in Nat
      BY <1>3, TxTypes
    <3>4. Begun(tx, m)
      BY <1>2, <2>1, <2>2, <3>1, <3>2, <3>3 DEF Begun
    <3> QED
      BY <3>1, <3>4 DEF LedgerEffect
  <2>3. CASE m # tx.node
    <3>1. nodes'[m] = nodes[m]
      BY <1>2, <1>5, <2>3 DEF ApplyInitRewardTimes, InitRewardTimes
    <3> QED
      BY <1>2, <2>1, <3>1 DEF LedgerEffect, Untouched
  <2> QED
    BY <2>2, <2>3
<1>6. ASSUME NEW tx \in inFlight, ApplyClaimReward(tx)
      PROVE  LedgerEffect(m)
  <2>1. CASE m = tx.node
    <3>1. /\ nodes'[m].rewardStartTime = nodes[m].rewardStartTime
          /\ nodes'[m].timestamp = tx.timestamp
          /\ tx.timestamp <= clock /\ tx.type = "reward"
      BY <1>2, <1>6, <2>1 DEF ApplyClaimReward, ClaimReward, Claimed, Node
    <3>2. nodes'[m].rewarded
      BY <1>2, <1>6, <2>1 DEF ApplyClaimReward, ClaimReward, Claimed, Node
    <3>3. nodes[m].timestamp <= tx.timestamp
      BY <1>6, <2>1 DEF ApplyClaimReward, KeepsOrder
    <3>4. tx.time \in Nat
      BY <1>3, TxTypes
    <3>5. paidUntil'[m] = IF nodes[m].rewardStartTime = 0 THEN paidUntil[m] ELSE tx.time
      BY <1>2, <1>6, <2>1 DEF ApplyClaimReward
    <3>6. PaidBy(tx, m)
      BY <2>1, <3>1, <3>2, <3>3, <3>5 DEF PaidBy
    <3> QED
      BY <3>1, <3>6 DEF LedgerEffect
  <2>2. CASE m # tx.node
    <3>1. nodes'[m] = nodes[m] /\ paidUntil'[m] = paidUntil[m]
      BY <1>2, <1>6, <2>2 DEF ApplyClaimReward, ClaimReward
    <3> QED
      BY <1>2, <3>1 DEF LedgerEffect, Untouched
  <2> QED
    BY <2>1, <2>2
<1>7. ASSUME NEW tx \in inFlight, ApplyPenalty(tx)
      PROVE  LedgerEffect(m)
  <2>1. paidUntil' = paidUntil
    BY <1>7 DEF ApplyPenalty
  <2>2. CASE m = tx.node
    <3>1. /\ nodes'[m].rewardStartTime = nodes[m].rewardStartTime
          /\ nodes'[m].timestamp = tx.timestamp
          /\ tx.timestamp <= clock
      BY <1>2, <1>7, <2>2 DEF ApplyPenalty, Penalty, Penalized, Node
    <3>2. nodes'[m].rewarded = nodes[m].rewarded
      BY <1>2, <1>7, <2>2 DEF ApplyPenalty, Penalty, Penalized, Node
    <3>3. nodes[m].timestamp <= tx.timestamp
      BY <1>7, <2>2 DEF ApplyPenalty, KeepsOrder
    <3> QED
      BY <2>1, <3>1, <3>2, <3>3 DEF LedgerEffect, Untouched
  <2>3. CASE m # tx.node
    <3>1. nodes'[m] = nodes[m]
      BY <1>2, <1>7, <2>3 DEF ApplyPenalty, Penalty
    <3> QED
      BY <1>2, <2>1, <3>1 DEF LedgerEffect, Untouched
  <2> QED
    BY <2>2, <2>3
<1> QED
  BY <1>1, <1>4, <1>5, <1>6, <1>7 DEF LedgerStep

\* The ledger keeps the invariant of the periods: it moves no queue.
LEMMA LedgerKeepsPeriods ==
  ASSUME TypeInv, PeriodInv, LedgerStep
  PROVE  PeriodInv'
<1>1. UNCHANGED <<status, clock, queue, activatedAt, activeCycles, inFlight>>
  BY LedgerStepLeavesNetwork DEF external
<1>2. \A n \in Nodes : QueueInv(n)'
  BY <1>1 DEF PeriodInv, QueueInv
<1>3. SUFFICES ASSUME inOrder'
               PROVE  /\ \A n \in Nodes : NodeInv(n)'
                      /\ \A tx \in inFlight : TxInv(tx)'
  BY <1>1, <1>2 DEF PeriodInv
<1>4. inOrder /\ \A m \in Nodes : LedgerEffect(m) /\ NodeInv(m)
  <2>1. inOrder
    BY <1>3, OrderIsNotRestored
  <2>2. \A m \in Nodes : NodeInv(m)
    BY <2>1 DEF PeriodInv
  <2>3. \A m \in Nodes : LedgerEffect(m)
    BY <1>3, LedgerEffects
  <2> QED
    BY <2>1, <2>2, <2>3
<1>5. \A m \in Nodes : /\ queue[m] \in Seq(QueueEntry) /\ clock \in Nat
                       /\ nodes[m].rewardStartTime \in Nat /\ nodes[m].timestamp \in Nat
                       /\ paidUntil[m] \in Nat
                       /\ QueueShape(queue[m], activeCycles[m], clock)
  BY BoundAssumption
  DEF TypeInv, NetworkTyped, LedgerTyped, PaymentsTyped, Node, PeriodInv, QueueInv
<1>6. \A tx \in inFlight : /\ tx.node \in Nodes /\ tx.time \in Nat /\ tx.timestamp \in Nat
                           /\ TxInv(tx)
  BY <1>4, TxTypes DEF TypeInv, NetworkTyped, PeriodInv
<1>7. \A m \in Nodes : nodes'[m].timestamp \in Nat /\ nodes'[m].rewardStartTime \in Nat
  BY LedgerStepTypes DEF TypeInv, LedgerTyped, Node
<1>8. ASSUME NEW m \in Nodes
      PROVE  NodeInv(m)'
  <2>1. nodes'[m].timestamp <= clock
    BY <1>4 DEF LedgerEffect
  <2>2. CASE Untouched(m)
    BY <1>1, <1>4, <2>1, <2>2 DEF NodeInv, Untouched, Start
  <2>3. CASE Cleared(m)
    BY <1>1, <1>4, <2>1, <2>3 DEF NodeInv, Cleared, Start, Covers
  <2>4. ASSUME NEW tx \in inFlight, Begun(tx, m)
        PROVE  NodeInv(m)'
    <3>1. /\ tx.time \in 1..MaxTime /\ queue[m] # <<>> /\ queue[m][1].time <= tx.time
          /\ queue[m][1] \in QueueEntry
      BY <1>5, <2>4, WaitingIsQueued DEF Begun
    <3>2. paidUntil[m] <= tx.time
      BY <1>4, <2>4, <3>1 DEF NodeInv, Begun
    <3>3. Covers(activeCycles[m], tx.time, queue[m][1].time)
      BY <3>1, BoundAssumption DEF Covers, QueueEntry
    <3> QED
      BY <1>1, <1>4, <2>1, <2>4, <3>1, <3>2, <3>3 DEF NodeInv, Begun, Start
  <2>5. ASSUME NEW tx \in inFlight, PaidBy(tx, m)
        PROVE  NodeInv(m)'
    <3>1. /\ tx.time <= clock
          /\ \A time \in 1..MaxTime : Waits(queue[m], time) => tx.time <= time
      BY <1>6, <2>5 DEF TxInv, PaidBy
    <3> QED
      BY <1>1, <1>4, <2>1, <2>5, <3>1 DEF NodeInv, PaidBy, Start
  <2> QED
    BY <1>4, <2>2, <2>3, <2>4, <2>5 DEF LedgerEffect
<1>9. ASSUME NEW tx \in inFlight
      PROVE  TxInv(tx)'
  <2> DEFINE m == tx.node
  <2>1. m \in Nodes
    BY <1>6
  <2>2. CASE Untouched(m)
    BY <1>1, <1>5, <1>6, <1>7, <2>1, <2>2 DEF TxInv, Untouched, Start
  <2>3. CASE Cleared(m)
    BY <1>1, <1>5, <1>6, <1>7, <2>1, <2>3 DEF TxInv, Cleared, Start, Covers
  <2>4. ASSUME NEW by \in inFlight, Begun(by, m)
        PROVE  TxInv(tx)'
    <3>1. by.time \in 1..MaxTime
      BY <1>5, <2>1, <2>4, WaitingIsQueued DEF Begun
    <3>2. tx.type = "reward" => tx.time <= by.time
      BY <1>6, <2>4, <3>1 DEF TxInv, Begun
    <3>3. tx.type = "reward" => Covers(activeCycles[m], by.time, tx.time)
      BY <1>6, <3>1, <3>2, BoundAssumption DEF Covers
    <3> QED
      BY <1>1, <1>5, <1>6, <1>7, <2>1, <2>4, <3>3 DEF TxInv, Begun, Start
  <2>5. ASSUME NEW by \in inFlight, PaidBy(by, m)
        PROVE  TxInv(tx)'
    BY <1>1, <1>5, <1>6, <1>7, <2>1, <2>5 DEF TxInv, PaidBy, Start
  <2> QED
    BY <1>4, <2>1, <2>2, <2>3, <2>4, <2>5 DEF LedgerEffect
<1> QED
  BY <1>8, <1>9

\* A step that moves no queue and puts only penalties.
LEMMA QuietStepKeepsPeriods ==
  ASSUME PeriodInv, UNCHANGED <<ledger, payments, clock, queue, activatedAt, activeCycles>>,
         \A n \in Nodes : status'[n] = "active" <=> status[n] = "active",
         \A tx \in inFlight' : tx \in inFlight \/ tx.type \notin {"init", "reward"}
  PROVE  PeriodInv'
<1>1. \A n \in Nodes : QueueInv(n)'
  BY DEF PeriodInv, QueueInv
<1>2. ASSUME inOrder, NEW n \in Nodes
      PROVE  NodeInv(n)'
  BY <1>2 DEF PeriodInv, NodeInv, ledger, payments, Start
<1>3. ASSUME inOrder, NEW tx \in inFlight'
      PROVE  TxInv(tx)'
  BY <1>3 DEF PeriodInv, TxInv, ledger, payments, Start
<1> QED
  BY <1>1, <1>2, <1>3 DEF PeriodInv, payments

\* The queue drops an entry only once the ledger shows it applied.
LEMMA TickKeepsPeriods ==
  ASSUME TypeInv, PeriodInv, Tick
  PROVE  PeriodInv'
<1>1. /\ clock' = clock + 1 /\ clock \in Nat
      /\ UNCHANGED <<nodes, status, activatedAt, activeCycles, inFlight, paidUntil, inOrder>>
  BY BoundAssumption DEF Tick, ledger, payments, TypeInv, NetworkTyped
<1>2. \A n \in Nodes : /\ queue[n] \in Seq(QueueEntry) /\ QueueInv(n)
                       /\ nodes[n].timestamp \in Nat /\ Start(n) \in Nat
                       /\ paidUntil[n] \in Nat /\ activatedAt[n] \in Nat
  BY BoundAssumption
  DEF TypeInv, NetworkTyped, LedgerTyped, PaymentsTyped, Node, PeriodInv, Start
<1>3. ASSUME NEW n \in Nodes
      PROVE  \/ queue'[n] = queue[n]
             \/ /\ queue'[n] = Tail(queue[n]) /\ queue[n] # <<>>
                /\ queue[n][1].type = "init" => queue[n][1].time <= Start(n)
  <2>1. queue'[n] = IF queue[n] # <<>> /\ Applied(n, queue[n][1]) THEN Tail(queue[n])
                    ELSE queue[n]
    BY DEF Tick
  <2>2. CASE queue[n] # <<>> /\ Applied(n, queue[n][1])
    <3>1. queue[n][1] \in QueueEntry
      BY <1>1, <1>2, <2>2, ShapeOfTail DEF QueueInv
    <3>2. queue[n][1].time \in Nat
      BY <3>1, BoundAssumption DEF QueueEntry
    <3>3. queue[n][1].type = "init" => queue[n][1].time <= Start(n)
      BY <1>2, <2>2, <3>2 DEF Applied, Start
    <3> QED
      BY <2>1, <2>2, <3>3
  <2>3. CASE ~(queue[n] # <<>> /\ Applied(n, queue[n][1]))
    BY <2>1, <2>3
  <2> QED
    BY <2>2, <2>3
<1>4. ASSUME NEW n \in Nodes
      PROVE  QueueShape(queue[n], activeCycles[n], clock + 1)
  <2>1. \A i \in 1..Len(queue[n]) : queue[n][i] \in QueueEntry
    BY <1>2, ElementOfSeq
  <2>2. \A i \in 1..Len(queue[n]) : queue[n][i].time \in Nat
    BY <2>1, BoundAssumption DEF QueueEntry
  <2>3. QueueShape(queue[n], activeCycles[n], clock)
    BY <1>2 DEF QueueInv
  <2>4. \A i \in 1..Len(queue[n]) : queue[n][i].time <= clock
    BY <2>3 DEF QueueShape
  <2>5. \A i \in 1..Len(queue[n]) : queue[n][i].time <= clock + 1
    BY <1>1, <2>2, <2>4
  <2> QED
    BY <2>3, <2>5 DEF QueueShape
<1>5. ASSUME NEW n \in Nodes
      PROVE  QueueInv(n)'
  <2>1. CASE queue'[n] = queue[n]
    BY <1>1, <1>2, <1>4, <2>1 DEF QueueInv
  <2>2. CASE queue'[n] = Tail(queue[n]) /\ queue[n] # <<>>
    <3>1. /\ QueueShape(queue'[n], activeCycles[n], clock + 1)
          /\ queue'[n] # <<>> => queue'[n][Len(queue'[n])] = queue[n][Len(queue[n])]
      BY <1>1, <1>2, <1>4, <2>2, ShapeOfTail
    <3> QED
      BY <1>1, <1>2, <2>2, <3>1 DEF QueueInv
  <2> QED
    BY <1>3, <2>1, <2>2
<1>6. ASSUME inOrder, NEW n \in Nodes
      PROVE  NodeInv(n)'
  <2>1. NodeInv(n)
    BY <1>6 DEF PeriodInv
  <2>2. CASE queue'[n] = queue[n]
    BY <1>1, <1>2, <2>1, <2>2 DEF NodeInv, Start
  <2>3. CASE /\ queue'[n] = Tail(queue[n]) /\ queue[n] # <<>>
             /\ queue[n][1].type = "init" => queue[n][1].time <= Start(n)
    <3>1. /\ \A time : Waits(queue'[n], time) => Waits(queue[n], time)
          /\ queue[n][1] \in QueueEntry
          /\ queue'[n] # <<>> =>
               /\ queue'[n][1].type # queue[n][1].type /\ queue'[n][1] \in QueueEntry
               /\ queue[n][1].type = "init" =>
                    Covers(activeCycles[n], queue[n][1].time, queue'[n][1].time)
          /\ queue'[n] = <<>> => queue[n][Len(queue[n])] = queue[n][1]
      BY <1>1, <1>2, <2>3, ShapeOfTail DEF QueueInv
    <3>2. \A time \in 1..MaxTime : Waits(queue'[n], time) => paidUntil[n] <= time
      BY <2>1, <3>1 DEF NodeInv
    <3>3. ASSUME queue'[n] # <<>>, queue'[n][1].type = "reward"
          PROVE  Covers(activeCycles[n], Start(n), queue'[n][1].time)
      <4>1. queue[n][1].type = "init"
        BY <3>1, <3>3 DEF QueueEntry
      <4>2. /\ queue[n][1].time \in 1..MaxTime /\ queue'[n][1].time \in 1..MaxTime
            /\ queue[n][1].time <= Start(n)
            /\ Covers(activeCycles[n], queue[n][1].time, queue'[n][1].time)
        BY <2>3, <3>1, <3>3, <4>1 DEF QueueEntry
      <4> QED
        BY <1>2, <4>2, BoundAssumption DEF Covers
    <3>4. ASSUME queue'[n] = <<>>, status[n] = "active"
          PROVE  activatedAt[n] <= Start(n)
      <4>1. queue[n][1].type = "init" /\ queue[n][1].time = activatedAt[n]
        BY <1>2, <2>3, <3>1, <3>4 DEF QueueInv
      <4> QED
        BY <2>3, <4>1
    <3> QED
      BY <1>1, <1>2, <2>1, <3>2, <3>3, <3>4 DEF NodeInv, Start
  <2> QED
    BY <1>3, <2>2, <2>3
<1>7. ASSUME inOrder, NEW tx \in inFlight
      PROVE  TxInv(tx)'
  <2> DEFINE n == tx.node
  <2>1. TxInv(tx) /\ n \in Nodes /\ tx.time \in Nat /\ tx.timestamp \in Nat
    BY <1>7, TxTypes DEF PeriodInv, TypeInv, NetworkTyped
  <2>2. CASE queue'[n] = queue[n]
    BY <1>1, <1>2, <2>1, <2>2 DEF TxInv, Start
  <2>3. CASE /\ queue'[n] = Tail(queue[n]) /\ queue[n] # <<>>
             /\ queue[n][1].type = "init" => queue[n][1].time <= Start(n)
    <3>1. /\ \A time : Waits(queue'[n], time) => Waits(queue[n], time)
          /\ \A time : Waits(queue[n], time) =>
               Waits(queue'[n], time) \/ queue[n][1] = [type |-> "init", time |-> time]
      BY <1>1, <1>2, <2>1, <2>3, ShapeOfTail DEF QueueInv
    <3>2. CASE tx.type = "init"
      <4>1. CASE queue[n][1] = [type |-> "init", time |-> tx.time]
        BY <1>1, <2>1, <2>3, <3>2, <4>1 DEF TxInv, Start
      <4>2. CASE queue[n][1] # [type |-> "init", time |-> tx.time]
        BY <1>1, <2>1, <3>1, <3>2, <4>2 DEF TxInv, Start
      <4> QED
        BY <4>1, <4>2
    <3>3. CASE tx.type # "init"
      BY <1>1, <2>1, <3>1, <3>3 DEF TxInv, Start
    <3> QED
      BY <3>2, <3>3
  <2> QED
    BY <1>3, <2>1, <2>2, <2>3
<1> QED
  BY <1>1, <1>5, <1>6, <1>7 DEF PeriodInv

\* The times of a node are natural numbers.
LEMMA PeriodsTyped ==
  ASSUME TypeInv
  PROVE  \A m \in Nodes : nodes[m].timestamp \in Nat /\ Start(m) \in Nat
                           /\ paidUntil[m] \in Nat
BY DEF TypeInv, LedgerTyped, PaymentsTyped, Node, Start

\* A period that begins is queued behind the end of the last one.
LEMMA ActivateKeepsPeriods ==
  ASSUME TypeInv, PeriodInv, NEW n \in Nodes, Activate(n)
  PROVE  PeriodInv'
<1> DEFINE e == [type |-> "init", time |-> clock]
<1>1. /\ clock \in Nat /\ clock \in 1..MaxTime /\ queue[n] \in Seq(QueueEntry)
      /\ e \in QueueEntry /\ e.type = "init" /\ e.time = clock /\ status[n] = "syncing"
      /\ \A m \in Nodes : nodes[m].timestamp \in Nat /\ Start(m) \in Nat
                          /\ paidUntil[m] \in Nat
  <2>1. TypeInv /\ clock \in 1..MaxTime
    BY DEF TypeInv, NetworkTyped
  <2>2. e \in QueueEntry /\ e.type = "init" /\ e.time = clock
    BY <2>1 DEF QueueEntry
  <2>3. clock \in Nat /\ queue[n] \in Seq(QueueEntry) /\ status[n] = "syncing"
    BY <2>1, BoundAssumption DEF Activate, TypeInv, NetworkTyped
  <2> QED
    BY <2>1, <2>2, <2>3, PeriodsTyped
<1>2. /\ UNCHANGED <<nodes, clock, activeCycles, inFlight, paidUntil, inOrder>>
      /\ status'[n] = "active" /\ activatedAt'[n] = clock
      /\ queue'[n] = Append(queue[n], e)
      /\ \A m \in Nodes \ {n} : /\ status'[m] = status[m]
                                /\ activatedAt'[m] = activatedAt[m] /\ queue'[m] = queue[m]
  BY DEF Activate, MoveTo, ledger, payments, TypeInv, NetworkTyped
<1>3. QueueInv(n)
  BY DEF PeriodInv
<1> HIDE DEF e
<1>4. queue[n] # <<>> => /\ queue[n][Len(queue[n])].type # e.type
                         /\ queue[n][Len(queue[n])].type # "init"
  BY <1>1, <1>3 DEF QueueInv
<1>5. /\ QueueShape(queue'[n], activeCycles[n], clock)
      /\ \A time : Waits(queue'[n], time) <=>
                     Waits(queue[n], time) \/ e = [type |-> "init", time |-> time]
      /\ queue'[n] # <<>> /\ queue'[n][Len(queue'[n])] = e
      /\ queue[n] # <<>> => queue'[n][1] = queue[n][1]
      /\ queue[n] = <<>> => queue'[n][1] = e
  <2>1. QueueShape(queue[n], activeCycles[n], clock)
    BY <1>3 DEF QueueInv
  <2>2. queue[n] # <<>> => /\ queue[n][Len(queue[n])].type # e.type
                           /\ queue[n][Len(queue[n])].type = "init" =>
                                Covers(activeCycles[n], queue[n][Len(queue[n])].time, e.time)
    BY <1>1, <1>4
  <2>3. MayFollow(queue[n], e, activeCycles[n], activeCycles[n], clock)
    BY <1>1, <2>1, <2>2 DEF MayFollow
  <2>4. Appended(queue[n], e, activeCycles[n], clock)
    BY <2>3, ShapeOfAppend
  <2> QED
    BY <1>2, <2>4 DEF Appended
<1>6. \A time : e = [type |-> "init", time |-> time] => time = clock
  BY DEF e
<1>7. ASSUME NEW m \in Nodes
      PROVE  QueueInv(m)'
  <2>1. CASE m = n
    BY <1>1, <1>2, <1>5, <2>1 DEF QueueInv
  <2>2. CASE m # n
    BY <1>2, <2>2 DEF PeriodInv, QueueInv
  <2> QED
    BY <2>1, <2>2
<1>8. ASSUME inOrder, NEW m \in Nodes
      PROVE  NodeInv(m)'
  <2>1. NodeInv(m)
    BY <1>8 DEF PeriodInv
  <2>2. CASE m = n
    <3>1. \A time \in 1..MaxTime : Waits(queue'[n], time) => paidUntil[n] <= time
      BY <1>5, <1>6, <2>1, <2>2 DEF NodeInv
    <3>2. queue'[n][1].type = "reward" =>
            queue[n] # <<>> /\ queue'[n][1] = queue[n][1]
      BY <1>1, <1>5
    <3> QED
      BY <1>1, <1>2, <1>5, <2>1, <2>2, <3>1, <3>2 DEF NodeInv, Start
  <2>3. CASE m # n
    BY <1>2, <2>1, <2>3 DEF NodeInv, Start
  <2> QED
    BY <2>2, <2>3
<1>9. ASSUME inOrder, NEW tx \in inFlight
      PROVE  TxInv(tx)'
  <2>1. TxInv(tx) /\ tx.node \in Nodes
    BY <1>9, TxTypes DEF PeriodInv, TypeInv, NetworkTyped
  <2>2. CASE tx.node = n
    BY <1>1, <1>2, <1>5, <1>6, <2>1, <2>2 DEF TxInv, Start
  <2>3. CASE tx.node # n
    BY <1>2, <2>1, <2>3 DEF TxInv, Start
  <2> QED
    BY <2>2, <2>3
<1> QED
  BY <1>2, <1>7, <1>8, <1>9 DEF PeriodInv

\* A period that ends is covered by the cycles that are counted as active.
LEMMA DeactivateKeepsPeriods ==
  ASSUME TypeInv, PeriodInv, NEW n \in Nodes, NEW early \in BOOLEAN, Deactivate(n, early)
  PROVE  PeriodInv'
<1> DEFINE e == [type |-> "reward", time |-> clock]
           since == activatedAt[n]
           more == activeCycles[n] \cup since..(clock - 1)
<1>1. /\ clock \in Nat /\ clock \in 1..MaxTime /\ queue[n] \in Seq(QueueEntry)
      /\ e \in QueueEntry /\ e.type = "reward" /\ e.time = clock /\ status[n] = "active"
      /\ since \in Nat \ {0} /\ since < clock
      /\ \A m \in Nodes : nodes[m].timestamp \in Nat /\ Start(m) \in Nat
                          /\ paidUntil[m] \in Nat
  <2>1. TypeInv /\ clock \in 1..MaxTime
    BY DEF TypeInv, NetworkTyped
  <2>2. e \in QueueEntry /\ e.type = "reward" /\ e.time = clock
    BY <2>1 DEF QueueEntry
  <2>3. clock \in Nat /\ queue[n] \in Seq(QueueEntry) /\ status[n] = "active"
    BY <2>1, BoundAssumption DEF Deactivate, TypeInv, NetworkTyped
  <2>4. since \in Nat \ {0} /\ since < clock
    BY <2>1, <2>3, BoundAssumption DEF Deactivate, TypeInv, NetworkTyped, ActiveSince
  <2> QED
    BY <2>1, <2>2, <2>3, <2>4, PeriodsTyped
<1>2. /\ UNCHANGED <<nodes, clock, inFlight, paidUntil, inOrder>>
      /\ status'[n] = "out" /\ activeCycles'[n] = more
      /\ queue'[n] = Append(queue[n], e)
      /\ \A m \in Nodes \ {n} :
           /\ status'[m] = status[m] /\ activatedAt'[m] = activatedAt[m]
           /\ queue'[m] = queue[m] /\ activeCycles'[m] = activeCycles[m]
  BY DEF Deactivate, MoveTo, ledger, payments, TypeInv, NetworkTyped
<1>3. QueueInv(n) /\ activeCycles[n] \subseteq more
  BY DEF PeriodInv
<1>4. Covers(more, since, clock)
  BY DEF Covers
<1> HIDE DEF e, more
<1>5. queue[n] # <<>> => /\ queue[n][Len(queue[n])].type # e.type
                         /\ queue[n][Len(queue[n])].time = since
  BY <1>1, <1>3 DEF QueueInv
<1>6. /\ QueueShape(queue'[n], more, clock)
      /\ \A time : Waits(queue'[n], time) <=>
                     Waits(queue[n], time) \/ e = [type |-> "init", time |-> time]
      /\ queue'[n] # <<>> /\ queue'[n][Len(queue'[n])] = e
      /\ queue[n] # <<>> => queue'[n][1] = queue[n][1]
      /\ queue[n] = <<>> => queue'[n][1] = e
  <2>1. QueueShape(queue[n], activeCycles[n], clock)
    BY <1>3 DEF QueueInv
  <2>2. queue[n] # <<>> => /\ queue[n][Len(queue[n])].type # e.type
                           /\ queue[n][Len(queue[n])].type = "init" =>
                                Covers(more, queue[n][Len(queue[n])].time, e.time)
    BY <1>1, <1>4, <1>5
  <2>3. MayFollow(queue[n], e, activeCycles[n], more, clock)
    BY <1>1, <1>3, <2>1, <2>2 DEF MayFollow
  <2>4. Appended(queue[n], e, more, clock)
    BY <2>3, ShapeOfAppend
  <2> QED
    BY <1>2, <2>4 DEF Appended
<1>7. \A time : e # [type |-> "init", time |-> time]
  BY DEF e
<1>8. \A from, to : Covers(activeCycles[n], from, to) => Covers(more, from, to)
  BY <1>3 DEF Covers
<1>9. ASSUME NEW m \in Nodes
      PROVE  QueueInv(m)'
  <2>1. CASE m = n
    BY <1>1, <1>2, <1>6, <2>1 DEF QueueInv
  <2>2. CASE m # n
    BY <1>2, <2>2 DEF PeriodInv, QueueInv
  <2> QED
    BY <2>1, <2>2
<1>10. ASSUME inOrder, NEW m \in Nodes
       PROVE  NodeInv(m)'
  <2>1. NodeInv(m)
    BY <1>10 DEF PeriodInv
  <2>2. CASE m = n
    <3>1. queue'[n][1].type = "reward" => Covers(more, Start(n), queue'[n][1].time)
      <4>1. CASE queue[n] = <<>>
        <5>1. Start(n) = 0 \/ since <= Start(n)
          BY <1>1, <2>1, <2>2, <4>1 DEF NodeInv
        <5>2. Covers(more, Start(n), clock)
          BY <1>1, <1>4, <5>1 DEF Covers
        <5> QED
          BY <1>1, <1>6, <4>1, <5>2
      <4>2. CASE queue[n] # <<>>
        BY <1>6, <1>8, <2>1, <2>2, <4>2 DEF NodeInv
      <4> QED
        BY <4>1, <4>2
    <3>2. \A time \in 1..MaxTime : Waits(queue'[n], time) => paidUntil[n] <= time
      BY <1>6, <1>7, <2>1, <2>2 DEF NodeInv
    <3> QED
      BY <1>1, <1>2, <1>6, <2>1, <2>2, <3>1, <3>2 DEF NodeInv, Start
  <2>3. CASE m # n
    BY <1>2, <2>1, <2>3 DEF NodeInv, Start
  <2> QED
    BY <2>2, <2>3
<1>11. ASSUME inOrder, NEW tx \in inFlight
       PROVE  TxInv(tx)'
  <2>1. TxInv(tx) /\ tx.node \in Nodes
    BY <1>11, TxTypes DEF PeriodInv, TypeInv, NetworkTyped
  <2>2. CASE tx.node = n
    BY <1>1, <1>2, <1>6, <1>7, <1>8, <2>1, <2>2 DEF TxInv, Start
  <2>3. CASE tx.node # n
    BY <1>2, <2>1, <2>3 DEF TxInv, Start
  <2> QED
    BY <2>2, <2>3
<1> QED
  BY <1>2, <1>9, <1>10, <1>11 DEF PeriodInv

\* A network transaction is made from the entry at the front of a queue.
LEMMA InjectKeepsPeriods ==
  ASSUME TypeInv, PeriodInv, NEW n \in Nodes,
         InjectInitRewardTimes(n) \/ InjectClaimReward(n)
  PROVE  PeriodInv'
<1> DEFINE e == queue[n][1]
<1>1. UNCHANGED <<ledger, external, payments>>
  BY DEF InjectInitRewardTimes, InjectClaimReward
<1>2. \A m \in Nodes : QueueInv(m)'
  BY <1>1 DEF PeriodInv, QueueInv, external
<1>3. ASSUME inOrder, NEW m \in Nodes
      PROVE  NodeInv(m)'
  BY <1>1, <1>3 DEF PeriodInv, NodeInv, external, ledger, payments, Start
<1>4. /\ clock \in Nat /\ queue[n] \in Seq(QueueEntry) /\ queue[n] # <<>>
      /\ QueueShape(queue[n], activeCycles[n], clock)
  BY BoundAssumption DEF TypeInv, NetworkTyped, PeriodInv, QueueInv, InjectInitRewardTimes,
     InjectClaimReward, Offered
<1>5. 1 \in 1..Len(queue[n]) /\ e \in QueueEntry
  <2>1. Len(queue[n]) \in Nat /\ Len(queue[n]) # 0
    BY <1>4, EmptySeq, LenProperties
  <2>2. 1 \in 1..Len(queue[n])
    BY <2>1
  <2> QED
    BY <1>4, <2>2, ElementOfSeq
<1>6. e.time <= clock
  BY <1>4, <1>5 DEF QueueShape
<1> HIDE DEF e
<1>7. ASSUME inOrder, NEW tx \in inFlight', tx \notin inFlight
      PROVE  TxInv(tx)
  <2>1. CASE InjectInitRewardTimes(n)
    <3>1. PICK timestamp \in Timestamps :
            tx = [type |-> "init", node |-> n, time |-> e.time, timestamp |-> timestamp]
      BY <1>7, <2>1 DEF InjectInitRewardTimes, Put, e
    <3>2. tx.type = "init" /\ tx.node = n /\ tx.time = e.time /\ tx.timestamp \in Timestamps
      BY <3>1
    <3>3. e = [type |-> "init", time |-> e.time]
      BY <1>5, <2>1 DEF InjectInitRewardTimes, Offered, e, QueueEntry
    <3>4. Waits(queue[n], e.time)
      BY <1>5, <3>3 DEF Waits, e
    <3>5. tx.timestamp <= clock + 1
      BY <1>4, <3>2 DEF Timestamps
    <3> QED
      BY <3>2, <3>4, <3>5 DEF TxInv
  <2>2. CASE InjectClaimReward(n)
    <3>1. PICK timestamp \in Timestamps :
            tx = [type |-> "reward", node |-> n, time |-> e.time, timestamp |-> timestamp,
                  operator |-> nodes[n].nominator]
      BY <1>7, <2>2 DEF InjectClaimReward, Put, e
    <3>2. tx.type = "reward" /\ tx.node = n /\ tx.time = e.time /\ e.type = "reward"
      BY <2>2, <3>1 DEF InjectClaimReward, Offered, e
    <3>3. Covers(activeCycles[n], Start(n), e.time)
      BY <1>4, <1>7, <3>2 DEF PeriodInv, NodeInv, e
    <3>4. \A time \in 1..MaxTime : Waits(queue[n], time) => e.time <= time
      BY <1>4, WaitingIsQueued DEF e
    <3> QED
      BY <1>6, <3>2, <3>3, <3>4 DEF TxInv
  <2> QED
    BY <2>1, <2>2
<1>8. ASSUME inOrder, NEW tx \in inFlight'
      PROVE  TxInv(tx)'
  <2>1. TxInv(tx)
    BY <1>7, <1>8 DEF PeriodInv
  <2> QED
    BY <1>1, <2>1 DEF TxInv, external, ledger, Start
<1> QED
  BY <1>1, <1>2, <1>3, <1>8 DEF PeriodInv, payments

\* The network keeps the invariant of the periods.
LEMMA NetworkKeepsPeriods ==
  ASSUME TypeInv, PeriodInv, NetworkStep
  PROVE  PeriodInv'
<1>1. ASSUME NEW n \in Nodes, Join(n) \/ SyncTimeout(n) \/ LeftEarly(n) \/ Refuted(n)
      PROVE  PeriodInv'
  <2>1. UNCHANGED <<ledger, payments, clock, queue, activatedAt, activeCycles>>
    BY <1>1 DEF Join, SyncTimeout, LeftEarly, Refuted, external
  <2>2. \A m \in Nodes : status'[m] = "active" <=> status[m] = "active"
    BY <1>1 DEF Join, SyncTimeout, LeftEarly, Refuted, external, MoveTo, TypeInv, NetworkTyped
  <2>3. \/ UNCHANGED inFlight
        \/ \E type \in {"left", "sync", "refuted"} : InjectPenalty(n, type)
    BY <1>1 DEF Join, SyncTimeout, LeftEarly, Refuted
  <2>4. \A tx \in inFlight' : tx \in inFlight \/ tx.type \notin {"init", "reward"}
    BY <2>3 DEF InjectPenalty, Put
  <2> QED
    BY <2>1, <2>2, <2>4, QuietStepKeepsPeriods
<1>2. ASSUME NEW tx \in inFlight, DropTx(tx)
      PROVE  PeriodInv'
  BY <1>2, QuietStepKeepsPeriods DEF DropTx, external
<1> QED
  BY <1>1, <1>2, TickKeepsPeriods, ActivateKeepsPeriods, DeactivateKeepsPeriods,
     InjectKeepsPeriods
  DEF NetworkStep

\* The invariant of the periods holds initially and is kept by every step.
LEMMA PeriodInvInductive ==
  /\ Init => PeriodInv
  /\ TypeInv /\ PeriodInv /\ [Next]_vars => PeriodInv'
<1>1. ASSUME Init
      PROVE  PeriodInv
  <2>1. Len(<<>>) = 0 /\ \A time : ~Waits(<<>>, time)
    BY EmptySeq DEF Waits
  <2>2. /\ inFlight = {} /\ clock = 1
        /\ \A n \in Nodes : /\ queue[n] = <<>> /\ status[n] = "out" /\ paidUntil[n] = 0
                            /\ nodes[n].timestamp = 0 /\ nodes[n].rewardStartTime = 0
    BY <1>1 DEF Init, LedgerInit
  <2>3. \A n \in Nodes : QueueInv(n)
    BY <2>1, <2>2 DEF QueueInv, QueueShape
  <2>4. \A n \in Nodes : NodeInv(n)
    BY <2>1, <2>2 DEF NodeInv, Start
  <2> QED
    BY <2>2, <2>3, <2>4 DEF PeriodInv
<1>2. ASSUME TypeInv, PeriodInv, [Next]_vars
      PROVE  PeriodInv'
  <2>1. CASE UNCHANGED vars
    BY <1>2, <2>1, QuietStepKeepsPeriods DEF vars, external
  <2> QED
    BY <1>2, <2>1, NextInParts, LedgerKeepsPeriods, NetworkKeepsPeriods
<1> QED
  BY <1>1, <1>2
-----------------------------------------------------------------------------
(* Rewards: the money. *)

Owned(o) == operators[o].balance + operators[o].stake
OperatorsOwn == SumFunction([o \in Operators |-> Owned(o)])
NodesHold == SumFunction([n \in Nodes |-> nodes[n].reward])

\* The cycles that a node was active in and has been paid for.
Earned(n) == Cardinality({c \in activeCycles[n] : c < paidUntil[n]})
Paid == SumFunction([n \in Nodes |-> Rate * Earned(n)])
AtFirst == SumFunction([o \in Operators |-> InitialBalance])

NothingNegative == \A n \in Nodes : nodes[n].reward >= 0 /\ nodes[n].stakeLock >= 0

\* Wealth grows only with the cycles that are paid.
WealthIsPaid == inOrder => OperatorsOwn + NodesHold <= AtFirst + Paid

MoneyInv == NothingNegative /\ WealthIsPaid

\* What is added up are integers: cycles of a node are finitely many.
LEMMA MoneyTypes ==
  ASSUME TypeInv
  PROVE  /\ \A o \in Operators : Owned(o) \in Int
         /\ \A n \in Nodes : nodes[n].reward \in Int /\ nodes[n].stakeLock \in Int
         /\ \A n \in Nodes : /\ IsFiniteSet(activeCycles[n]) /\ Earned(n) \in Nat
                             /\ Rate * Earned(n) \in Int
         /\ OperatorsOwn \in Int /\ NodesHold \in Int /\ Paid \in Int /\ AtFirst \in Int
<1>1. \A o \in Operators : Owned(o) \in Int
  BY DEF TypeInv, LedgerTyped, Operator, Owned
<1>2. \A n \in Nodes : nodes[n].reward \in Int /\ nodes[n].stakeLock \in Int
  BY DEF TypeInv, LedgerTyped, Node
<1>3. ASSUME NEW n \in Nodes
      PROVE  IsFiniteSet(activeCycles[n]) /\ Earned(n) \in Nat /\ Rate * Earned(n) \in Int
  <2>1. MaxTime \in Int /\ activeCycles[n] \in SUBSET (1..MaxTime)
    BY BoundAssumption DEF TypeInv, NetworkTyped
  <2>2. IsFiniteSet(1..MaxTime)
    BY <2>1, FS_Interval
  <2>3. IsFiniteSet(activeCycles[n])
    BY <2>1, <2>2, FS_Subset
  <2>4. {c \in activeCycles[n] : c < paidUntil[n]} \in SUBSET activeCycles[n]
    OBVIOUS
  <2>5. Earned(n) \in Nat
    BY <2>3, <2>4, FS_Subset, FS_CardinalityType DEF Earned
  <2> QED
    BY <2>3, <2>5, PaymentAssumption
<1>4. OperatorsOwn \in Int
  <2>1. [o \in Operators |-> Owned(o)] \in [Operators -> Int]
    BY <1>1
  <2> QED
    BY <2>1, FiniteAssumption, SumFunctionIsInt DEF OperatorsOwn
<1>5. NodesHold \in Int
  <2>1. [n \in Nodes |-> nodes[n].reward] \in [Nodes -> Int]
    BY <1>2
  <2> QED
    BY <2>1, FiniteAssumption, SumFunctionIsInt DEF NodesHold
<1>6. Paid \in Int
  <2>1. [n \in Nodes |-> Rate * Earned(n)] \in [Nodes -> Int]
    BY <1>3
  <2> QED
    BY <2>1, FiniteAssumption, SumFunctionIsInt DEF Paid
<1>7. AtFirst \in Int
  <2>1. [o \in Operators |-> InitialBalance] \in [Operators -> Int]
    BY PaymentAssumption
  <2> QED
    BY <2>1, FiniteAssumption, SumFunctionIsInt DEF AtFirst
<1> QED
  BY <1>1, <1>2, <1>3, <1>4, <1>5, <1>6, <1>7

\* The same of the state after a step.
LEMMA MoneyTypesNext ==
  TypeInv' => (OperatorsOwn \in Int /\ NodesHold \in Int /\ Paid \in Int)'
<1>1. TypeInv => OperatorsOwn \in Int /\ NodesHold \in Int /\ Paid \in Int
  BY MoneyTypes
<1> QED
  BY <1>1, PTL

\* What operators own changes as the account of the one that a step changes.
LEMMA OneOperatorChanges ==
  ASSUME TypeInv, TypeInv', NEW o \in Operators,
         \A p \in Operators \ {o} : operators'[p] = operators[p]
  PROVE  OperatorsOwn' = OperatorsOwn - Owned(o) + Owned(o)'
<1> DEFINE f == [p \in Operators |-> Owned(p)]
           h == [p \in Operators |-> Owned(p)']
<1>1. f \in [Operators -> Int]
  BY MoneyTypes
<1>2. h \in [Operators -> Int]
  BY DEF TypeInv, LedgerTyped, Operator, Owned
<1>3. \A p \in Operators \ {o} : f[p] = h[p]
  BY DEF Owned
<1>4. f[o] = Owned(o) /\ h[o] = Owned(o)'
  OBVIOUS
<1>5. OperatorsOwn = SumFunction(f) /\ OperatorsOwn' = SumFunction(h)
  BY DEF OperatorsOwn
<1> HIDE DEF f, h
<1> QED
  BY <1>1, <1>2, <1>3, <1>4, <1>5, FiniteAssumption, SumOfChanged

\* The same for the account of a node.
LEMMA OneNodeChanges ==
  ASSUME TypeInv, TypeInv', NEW n \in Nodes,
         \A m \in Nodes \ {n} : nodes'[m] = nodes[m]
  PROVE  NodesHold' = NodesHold - nodes[n].reward + nodes'[n].reward
<1> DEFINE f == [m \in Nodes |-> nodes[m].reward]
           h == [m \in Nodes |-> nodes'[m].reward]
<1>1. f \in [Nodes -> Int]
  BY MoneyTypes
<1>2. h \in [Nodes -> Int]
  BY DEF TypeInv, LedgerTyped, Node
<1>3. \A m \in Nodes \ {n} : f[m] = h[m]
  OBVIOUS
<1>4. f[n] = nodes[n].reward /\ h[n] = nodes'[n].reward
  OBVIOUS
<1>5. NodesHold = SumFunction(f) /\ NodesHold' = SumFunction(h)
  BY DEF NodesHold
<1> HIDE DEF f, h
<1> QED
  BY <1>1, <1>2, <1>3, <1>4, <1>5, FiniteAssumption, SumOfChanged

\* What is paid does not shrink as long as periods and payments only grow.
LEMMA PaidGrows ==
  ASSUME TypeInv, TypeInv',
         \A n \in Nodes : /\ activeCycles[n] \subseteq activeCycles'[n]
                          /\ paidUntil[n] <= paidUntil'[n]
  PROVE  (\A n \in Nodes : Earned(n) <= Earned(n)') /\ Paid <= Paid'
<1>1. ASSUME NEW n \in Nodes
      PROVE  Earned(n) <= Earned(n)' /\ Earned(n)' \in Nat
  <2> DEFINE s == {c \in activeCycles[n] : c < paidUntil[n]}
             t == {c \in activeCycles'[n] : c < paidUntil'[n]}
  <2>1. /\ activeCycles[n] \in SUBSET (1..MaxTime) /\ activeCycles'[n] \in SUBSET (1..MaxTime)
        /\ paidUntil[n] \in Nat /\ paidUntil'[n] \in Nat /\ MaxTime \in Nat
    BY BoundAssumption DEF TypeInv, NetworkTyped, PaymentsTyped
  <2>2. IsFiniteSet(1..MaxTime)
    BY <2>1, FS_Interval
  <2>3. IsFiniteSet(t)
    BY <2>1, <2>2, FS_Subset
  <2>4. s \in SUBSET t
    BY <2>1
  <2>5. Cardinality(s) <= Cardinality(t) /\ Cardinality(t) \in Nat
    BY <2>3, <2>4, FS_Subset, FS_CardinalityType
  <2> QED
    BY <2>5 DEF Earned
<1> DEFINE f == [n \in Nodes |-> Rate * Earned(n)]
           h == [n \in Nodes |-> Rate * Earned(n)']
<1>2. ASSUME NEW n \in Nodes
      PROVE  f[n] \in Int /\ h[n] \in Int /\ f[n] <= h[n]
  <2>1. Earned(n) \in Nat /\ Earned(n)' \in Nat /\ Earned(n) <= Earned(n)'
    BY <1>1, MoneyTypes
  <2>2. \A a, b \in Nat : a <= b => Rate * a <= Rate * b /\ Rate * a \in Int /\ Rate * b \in Int
    BY PaymentAssumption
  <2> QED
    BY <2>1, <2>2
<1>3. f \in [Nodes -> Int] /\ h \in [Nodes -> Int]
  BY <1>2
<1>4. Paid = SumFunction(f) /\ Paid' = SumFunction(h)
  BY DEF Paid
<1> HIDE DEF f, h
<1>5. Paid <= Paid'
  BY <1>2, <1>3, <1>4, FiniteAssumption, SumFunctionIsMonotonic
<1> QED
  BY <1>1, <1>5

\* A penalty takes no more than there is, and gives nothing.
LEMMA PenaltyIsNotNegative ==
  ASSUME TypeInv, NothingNegative, NEW n \in Nodes
  PROVE  /\ PenaltyAmount(n) \in Int /\ 0 <= PenaltyAmount(n)
         /\ PenaltyAmount(n) <= nodes[n].stakeLock
<1> DEFINE lock == nodes[n].stakeLock
<1>1. lock \in Nat
  BY MoneyTypes DEF NothingNegative
<1> HIDE DEF lock
<1>2. lock * PenaltyPercent \in Nat
  <2>1. PenaltyPercent \in Nat
    BY PaymentAssumption
  <2> QED
    BY <1>1, <2>1
<1>3. (lock * PenaltyPercent) \div 100 \in Nat
  BY <1>2
<1>4. PenaltyAmount(n) = IF (lock * PenaltyPercent) \div 100 > lock THEN lock
                         ELSE (lock * PenaltyPercent) \div 100
  BY DEF PenaltyAmount, lock
<1> QED
  BY <1>1, <1>3, <1>4 DEF lock
\* A claim pays the node for cycles that it was active in and has not been paid for.
LEMMA ClaimIsEarned ==
  ASSUME TypeInv, TypeInv', PeriodInv, inOrder, NEW tx \in inFlight, ApplyClaimReward(tx)
  PROVE  /\ NodesHold' - NodesHold <= Paid' - Paid
         /\ nodes[tx.node].reward <= nodes'[tx.node].reward
<1> DEFINE n == tx.node
           start == nodes[n].rewardStartTime
           duration == IF start = 0 THEN 0 ELSE tx.time - start
<1>1. /\ n \in Nodes /\ tx.time \in Nat /\ start \in Nat /\ Rate \in Nat
      /\ nodes \in [Nodes -> Node] /\ tx.type = "reward"
      /\ paidUntil \in [Nodes -> Nat]
      /\ TxInv(tx) /\ NodeInv(n)
  BY TxTypes, PaymentAssumption
  DEF TypeInv, LedgerTyped, NetworkTyped, PaymentsTyped, Node, PeriodInv, ApplyClaimReward
<1>2. /\ start <= tx.time /\ ~nodes[n].rewarded
      /\ nodes' = [nodes EXCEPT ![n] = Claimed(tx)]
      /\ paidUntil' = IF start = 0 THEN paidUntil ELSE [paidUntil EXCEPT ![n] = tx.time]
      /\ activeCycles' = activeCycles
  BY DEF ApplyClaimReward, ClaimReward, external
<1>0. ASSUME NEW m \in Nodes
      PROVE  Earned(m)' \in Nat
  <2> DEFINE t == {c \in activeCycles[m] : c < paidUntil'[m]}
  <2>1. IsFiniteSet(activeCycles[m]) /\ t \in SUBSET activeCycles[m]
    BY MoneyTypes
  <2>2. Cardinality(t) \in Nat
    BY <2>1, FS_Subset, FS_CardinalityType
  <2> QED
    BY <1>2, <2>2 DEF Earned
<1>3. duration \in Nat
  BY <1>1, <1>2
<1>4. Rate * duration \in Nat
  BY <1>1, <1>3
<1>5. nodes'[n].reward = nodes[n].reward + Rate * duration
  BY <1>1, <1>2 DEF Claimed, Node
<1>6. \A m \in Nodes \ {n} : nodes'[m] = nodes[m] /\ paidUntil'[m] = paidUntil[m]
  BY <1>1, <1>2
<1>7. NodesHold' = NodesHold + Rate * duration
  <2>1. NodesHold' = NodesHold - nodes[n].reward + nodes'[n].reward
    BY <1>1, <1>6, OneNodeChanges
  <2>2. NodesHold \in Int /\ nodes[n].reward \in Int
    BY <1>1, MoneyTypes
  <2> HIDE DEF duration
  <2>3. \A pay \in Nat : nodes'[n].reward = nodes[n].reward + pay =>
                           NodesHold' = NodesHold + pay
    BY <2>1, <2>2
  <2> QED
    BY <1>4, <1>5, <2>3
<1>8. Earned(n) + duration <= Earned(n)'
  <2> DEFINE s == {c \in activeCycles[n] : c < paidUntil[n]}
             t == {c \in activeCycles[n] : c < paidUntil'[n]}
             new == start..(tx.time - 1)
  <2>1. Earned(n) = Cardinality(s) /\ Earned(n)' = Cardinality(t)
    BY <1>2 DEF Earned
  <2>2. CASE start = 0
    BY <1>1, <1>2, <2>1, <2>2, MoneyTypes
  <2>3. CASE start # 0
    <3>1. /\ paidUntil[n] <= start /\ paidUntil'[n] = tx.time /\ new \subseteq activeCycles[n]
          /\ paidUntil[n] \in Nat /\ activeCycles[n] \subseteq 1..MaxTime /\ MaxTime \in Nat
      BY <1>1, <1>2, <2>3, BoundAssumption DEF NodeInv, TxInv, Covers, Start, TypeInv, NetworkTyped
    <3>2. IsFiniteSet(s) /\ IsFiniteSet(t)
      <4>1. IsFiniteSet(activeCycles[n])
        BY <1>1, MoneyTypes
      <4> QED
        BY <4>1, FS_Subset
    <3>3. IsFiniteSet(new) /\ Cardinality(new) = duration
      <4>1. start \in Int /\ tx.time - 1 \in Int
        BY <1>1
      <4>2. /\ IsFiniteSet(new)
            /\ Cardinality(new) = IF start > tx.time - 1 THEN 0 ELSE tx.time - 1 - start + 1
        BY <4>1, FS_Interval
      <4> QED
        BY <1>1, <1>2, <2>3, <4>2
    <3>4. s \cap new = {} /\ s \cup new \in SUBSET t
      BY <1>1, <1>2, <3>1
    <3> HIDE DEF s, t, new, duration
    <3>5. Cardinality(s \cup new) = Cardinality(s) + duration
      <4>1. Cardinality(s) \in Nat
        BY <3>2, FS_CardinalityType
      <4>2. Cardinality(s \cap new) = 0
        BY <3>4, FS_EmptySet
      <4>3. Cardinality(s \cup new) =
              Cardinality(s) + Cardinality(new) - Cardinality(s \cap new)
        BY <3>2, <3>3, FS_Union
      <4> QED
        BY <1>3, <3>3, <4>1, <4>2, <4>3
    <3>6. Cardinality(s \cup new) <= Cardinality(t)
      BY <3>2, <3>4, FS_Subset
    <3> QED
      BY <2>1, <3>5, <3>6
  <2> QED
    BY <2>2, <2>3
<1>9. Paid' - Paid = Rate * Earned(n)' - Rate * Earned(n)
  <2> DEFINE f == [m \in Nodes |-> Rate * Earned(m)]
             h == [m \in Nodes |-> Rate * Earned(m)']
  <2>2. f \in [Nodes -> Int] /\ h \in [Nodes -> Int]
    BY <1>1, <1>0, MoneyTypes
  <2>3. \A m \in Nodes \ {n} : f[m] = h[m]
    BY <1>2, <1>6 DEF Earned
  <2>4. f[n] = Rate * Earned(n) /\ h[n] = Rate * Earned(n)'
    BY <1>1
  <2>5. Paid = SumFunction(f) /\ Paid' = SumFunction(h)
    BY DEF Paid
  <2> HIDE DEF f, h
  <2>6. SumFunction(h) = SumFunction(f) - f[n] + h[n]
    BY <1>1, <2>2, <2>3, FiniteAssumption, SumOfChanged
  <2>7. SumFunction(f) \in Int /\ f[n] \in Int /\ h[n] \in Int
    BY <1>1, <2>2, FiniteAssumption, SumFunctionIsInt
  <2> QED
    BY <2>4, <2>5, <2>6, <2>7
<1>10. Rate * Earned(n) + Rate * duration <= Rate * Earned(n)'
  <2>1. \A a, b, c \in Nat : a + b <= c => Rate * a + Rate * b <= Rate * c
    <3>1. \A a, b \in Nat : Rate * a + Rate * b = Rate * (a + b)
      BY <1>1
    <3>2. \A d, c \in Nat : d <= c => Rate * d <= Rate * c
      BY <1>1
    <3> QED
      BY <3>1, <3>2
  <2>2. Earned(n) \in Nat /\ Earned(n)' \in Nat
    BY <1>0, <1>1, MoneyTypes
  <2> QED
    BY <1>3, <1>8, <2>1, <2>2
<1>11. Rate * Earned(n) \in Int /\ Rate * Earned(n)' \in Int /\ NodesHold \in Int
  BY <1>0, <1>1, MoneyTypes
<1> HIDE DEF duration
<1> DEFINE pay == Rate * duration
           before == Rate * Earned(n)
           after == Rate * Earned(n)'
<1>12. /\ pay \in Nat /\ before \in Int /\ after \in Int /\ before + pay <= after
       /\ NodesHold' = NodesHold + pay /\ NodesHold \in Int
       /\ Paid' - Paid = after - before
       /\ nodes'[n].reward = nodes[n].reward + pay
  BY <1>4, <1>5, <1>7, <1>9, <1>10, <1>11
<1>13. nodes[n].reward \in Int
  BY <1>1, MoneyTypes
<1> HIDE DEF pay, before, after
<1> QED
  BY <1>12, <1>13
\* A step of the ledger that is no claim makes nobody richer.
WealthFalls ==
  /\ OperatorsOwn' + NodesHold' <= OperatorsOwn + NodesHold
  /\ NothingNegative'

\* A stake is only moved within the account of the operator,
LEMMA StakeMovesMoney ==
  ASSUME TypeInv, TypeInv', NothingNegative, NEW o \in Operators, NEW n \in Nodes,
         NEW amount \in StakeAmounts, Stake(o, n, amount)
  PROVE  WealthFalls
<1>1. /\ operators \in [Operators -> Operator] /\ nodes \in [Nodes -> Node]
      /\ amount \in Nat
  BY StakeAssumption DEF TypeInv, LedgerTyped
<1>2. /\ operators'[o].balance = operators[o].balance - amount
      /\ operators'[o].stake = operators[o].stake + amount
      /\ \A p \in Operators \ {o} : operators'[p] = operators[p]
  BY <1>1 DEF Stake, Staker, Operator
<1>3. /\ nodes'[n].reward = nodes[n].reward
      /\ nodes'[n].stakeLock = nodes[n].stakeLock + amount
      /\ \A m \in Nodes \ {n} : nodes'[m] = nodes[m]
  BY <1>1 DEF Stake, Staked, Node
<1>4. Owned(o)' = Owned(o) /\ Owned(o) \in Int
  BY <1>1, <1>2 DEF Owned, Operator
<1>5. OperatorsOwn' = OperatorsOwn
  BY <1>2, <1>4, OneOperatorChanges, MoneyTypes
<1>6. NodesHold' = NodesHold
  BY <1>3, OneNodeChanges, MoneyTypes
<1>7. NothingNegative'
  BY <1>1, <1>3, MoneyTypes DEF NothingNegative
<1> QED
  BY <1>5, <1>6, <1>7, MoneyTypes DEF WealthFalls

\* an unstake pays out no more than the node holds,
LEMMA UnstakeMovesMoney ==
  ASSUME TypeInv, TypeInv', NothingNegative, NEW o \in Operators, NEW n \in Nodes,
         NEW force \in BOOLEAN, Unstake(o, n, force)
  PROVE  WealthFalls
<1> DEFINE reward == IF Running(n) THEN 0 ELSE nodes[n].reward
           balance == operators[o].balance + operators[o].stake + reward
<1>1. /\ operators \in [Operators -> Operator] /\ nodes \in [Nodes -> Node]
      /\ nodes[n].reward \in Nat
  BY MoneyTypes DEF TypeInv, LedgerTyped, NothingNegative
<1>2. /\ operators'[o].balance = balance
      /\ operators'[o].stake = 0
      /\ \A p \in Operators \ {o} : operators'[p] = operators[p]
  <2>1. operators' = [operators EXCEPT ![o] = Repaid(o, n)]
    BY DEF Unstake
  <2>2. Repaid(o, n) = [operators[o] EXCEPT !.balance = balance, !.stake = 0,
                          !.nominee = None, !.certExp = 0]
    BY DEF Repaid
  <2> HIDE DEF balance
  <2> QED
    BY <1>1, <2>1, <2>2 DEF Operator
<1>3. /\ nodes'[n].reward = 0 /\ nodes'[n].stakeLock = 0
      /\ \A m \in Nodes \ {n} : nodes'[m] = nodes[m]
  BY <1>1 DEF Unstake, NoBond, Node
<1>4. Owned(o) \in Int /\ reward \in Nat /\ reward <= nodes[n].reward
  BY <1>1, MoneyTypes
<1>5. Owned(o)' = Owned(o) + reward
  <2>1. balance = Owned(o) + reward
    BY DEF Owned
  <2> HIDE DEF balance, reward
  <2> QED
    BY <1>2, <1>4, <2>1 DEF Owned
<1> HIDE DEF balance, reward
<1>6. OperatorsOwn' = OperatorsOwn + reward
  BY <1>2, <1>4, <1>5, OneOperatorChanges, MoneyTypes
<1>7. NodesHold' = NodesHold - nodes[n].reward
  BY <1>3, OneNodeChanges, MoneyTypes
<1>8. NothingNegative'
  BY <1>3 DEF NothingNegative
<1> QED
  BY <1>1, <1>4, <1>6, <1>7, <1>8, MoneyTypes DEF WealthFalls

\* and a penalty is taken from the stake.
LEMMA PenaltyMovesMoney ==
  ASSUME TypeInv, TypeInv', NothingNegative, NEW tx \in inFlight, ApplyPenalty(tx)
  PROVE  WealthFalls
<1> DEFINE o == tx.operator
           n == tx.node
           amount == PenaltyAmount(n)
<1>1. /\ operators \in [Operators -> Operator] /\ nodes \in [Nodes -> Node]
      /\ o \in Operators /\ n \in Nodes
  BY TxTypes DEF TypeInv, LedgerTyped, NetworkTyped, ApplyPenalty
<1>2. amount \in Int /\ 0 <= amount /\ amount <= nodes[n].stakeLock
  BY <1>1, PenaltyIsNotNegative
<1>3. /\ operators' = [operators EXCEPT ![o].stake = @ - amount]
      /\ nodes' = [nodes EXCEPT ![n] = Penalized(tx)]
  BY DEF ApplyPenalty, Penalty, PayPenalty
<1>4. /\ operators'[o].balance = operators[o].balance
      /\ operators'[o].stake = operators[o].stake - amount
      /\ \A p \in Operators \ {o} : operators'[p] = operators[p]
  <2> HIDE DEF o, amount
  <2> QED
    BY <1>1, <1>3 DEF Operator
<1>5. /\ nodes'[n].reward = nodes[n].reward
      /\ nodes'[n].stakeLock = nodes[n].stakeLock - amount
      /\ \A m \in Nodes \ {n} : nodes'[m] = nodes[m]
  <2>1. /\ Penalized(tx).reward = nodes[n].reward
        /\ Penalized(tx).stakeLock = nodes[n].stakeLock - amount
    BY <1>1 DEF Penalized, Node
  <2> QED
    BY <1>1, <1>3, <2>1
<1> HIDE DEF amount, o, n
<1>6. OperatorsOwn' = OperatorsOwn - amount
  <2>1. Owned(o)' = Owned(o) - amount /\ Owned(o) \in Int
    BY <1>1, <1>2, <1>4 DEF Owned, Operator
  <2> QED
    BY <1>1, <1>2, <1>4, <2>1, OneOperatorChanges, MoneyTypes
<1>7. NodesHold' = NodesHold
  BY <1>1, <1>5, OneNodeChanges, MoneyTypes
<1>8. NothingNegative'
  BY <1>1, <1>2, <1>5, MoneyTypes DEF NothingNegative
<1> QED
  BY <1>2, <1>6, <1>7, <1>8, MoneyTypes DEF WealthFalls

\* The certificate and the start of a period move no money.
LEMMA OthersMoveNoMoney ==
  ASSUME TypeInv, TypeInv', NothingNegative,
         \/ \E o \in Operators : SetCertTime(o)
         \/ \E tx \in inFlight : ApplyInitRewardTimes(tx)
  PROVE  WealthFalls
<1>1. operators \in [Operators -> Operator] /\ nodes \in [Nodes -> Node]
  BY DEF TypeInv, LedgerTyped
<1>2. ASSUME NEW o \in Operators, SetCertTime(o)
      PROVE  WealthFalls
  <2>1. /\ operators'[o].balance = operators[o].balance
        /\ operators'[o].stake = operators[o].stake
        /\ \A p \in Operators \ {o} : operators'[p] = operators[p]
        /\ nodes' = nodes
    BY <1>1, <1>2 DEF SetCertTime, Operator
  <2>2. Owned(o)' = Owned(o)
    BY <2>1 DEF Owned
  <2>3. OperatorsOwn' = OperatorsOwn
    BY <2>1, <2>2, OneOperatorChanges, MoneyTypes
  <2>4. NodesHold' = NodesHold
    BY <2>1 DEF NodesHold
  <2>5. NothingNegative'
    BY <2>1 DEF NothingNegative
  <2> QED
    BY <2>3, <2>4, <2>5, MoneyTypes DEF WealthFalls
<1>3. ASSUME NEW tx \in inFlight, ApplyInitRewardTimes(tx)
      PROVE  WealthFalls
  <2> DEFINE n == tx.node
  <2>1. n \in Nodes
    BY TxTypes DEF TypeInv, NetworkTyped
  <2>2. operators' = operators /\ nodes' = [nodes EXCEPT ![n] = Started(tx)]
    BY <1>3 DEF ApplyInitRewardTimes, InitRewardTimes
  <2>3. /\ Started(tx).reward = nodes[n].reward
        /\ Started(tx).stakeLock = nodes[n].stakeLock
    BY <1>1, <2>1 DEF Started, Node
  <2>4. /\ nodes'[n].reward = nodes[n].reward /\ nodes'[n].stakeLock = nodes[n].stakeLock
        /\ \A m \in Nodes \ {n} : nodes'[m] = nodes[m]
    BY <1>1, <2>1, <2>2, <2>3
  <2> HIDE DEF n
  <2>5. NodesHold' = NodesHold
    BY <2>1, <2>4, OneNodeChanges, MoneyTypes
  <2>6. OperatorsOwn' = OperatorsOwn
    BY <2>2 DEF OperatorsOwn, Owned
  <2>7. NothingNegative'
    BY <2>1, <2>4 DEF NothingNegative
  <2> QED
    BY <2>5, <2>6, <2>7, MoneyTypes DEF WealthFalls
<1> QED
  BY <1>2, <1>3
\* A claim adds to what the node holds, and takes nothing from operators.
LEMMA ClaimMovesMoney ==
  ASSUME TypeInv, NothingNegative, NEW tx \in inFlight, ApplyClaimReward(tx)
  PROVE  NothingNegative' /\ OperatorsOwn' = OperatorsOwn
<1> DEFINE n == tx.node
           start == nodes[n].rewardStartTime
           duration == IF start = 0 THEN 0 ELSE tx.time - start
           pay == Rate * duration
<1>1. /\ n \in Nodes /\ tx.time \in Nat /\ start \in Nat /\ Rate \in Nat
      /\ nodes \in [Nodes -> Node]
  BY TxTypes, PaymentAssumption DEF TypeInv, LedgerTyped, NetworkTyped, Node
<1>2. /\ start <= tx.time /\ operators' = operators
      /\ nodes' = [nodes EXCEPT ![n] = Claimed(tx)]
  BY DEF ApplyClaimReward, ClaimReward
<1>3. pay \in Nat
  <2>1. duration \in Nat
    BY <1>1, <1>2
  <2> HIDE DEF duration
  <2> QED
    BY <1>1, <2>1
<1>4. Claimed(tx).reward = nodes[n].reward + pay /\ Claimed(tx).stakeLock = nodes[n].stakeLock
  BY <1>1 DEF Claimed, Node
<1> HIDE DEF pay, n
<1>5. nodes'[n].reward = nodes[n].reward + pay /\ nodes'[n].stakeLock = nodes[n].stakeLock
  BY <1>1, <1>2, <1>4
<1>6. \A m \in Nodes \ {n} : nodes'[m] = nodes[m]
  BY <1>1, <1>2
<1>7. NothingNegative'
  BY <1>1, <1>3, <1>5, <1>6, MoneyTypes DEF NothingNegative
<1>8. OperatorsOwn' = OperatorsOwn
  BY <1>2 DEF OperatorsOwn, Owned
<1> QED
  BY <1>7, <1>8

\* Cycles and payments of a node only add up, but for a claim that is out of order.
LEMMA PeriodsGrow ==
  ASSUME TypeInv, [Next]_vars, ~\E tx \in inFlight : ApplyClaimReward(tx)
  PROVE  /\ paidUntil' = paidUntil
         /\ \A n \in Nodes : activeCycles[n] \subseteq activeCycles'[n]
<1>1. CASE LedgerStep
  BY <1>1 DEF LedgerStep, OperatorTx, ApplyInitRewardTimes, ApplyPenalty, external, payments
<1>2. ASSUME NEW n \in Nodes, NEW early \in BOOLEAN, Deactivate(n, early)
      PROVE  /\ paidUntil' = paidUntil
             /\ \A m \in Nodes : activeCycles[m] \subseteq activeCycles'[m]
  BY <1>2 DEF Deactivate, payments, TypeInv, NetworkTyped
<1>3. CASE NetworkStep /\ UNCHANGED activeCycles
  BY <1>3, NetworkStepLeavesLedger DEF payments
<1>4. NetworkStep => \/ UNCHANGED activeCycles
                     \/ \E n \in Nodes, early \in BOOLEAN : Deactivate(n, early)
  BY DEF NetworkStep, Tick, Join, Activate, LeftEarly, SyncTimeout, Refuted,
         InjectInitRewardTimes, InjectClaimReward, DropTx, external
<1>5. CASE UNCHANGED vars
  BY <1>5 DEF vars, external, payments
<1> QED
  BY <1>1, <1>2, <1>3, <1>4, <1>5, NextInParts

\* Wealth is covered by what was there at first and what is paid.
LEMMA MoneyInvInductive ==
  /\ Init => MoneyInv
  /\ TypeInv /\ TypeInv' /\ PeriodInv /\ MoneyInv /\ [Next]_vars => MoneyInv'
<1>1. ASSUME Init
      PROVE  MoneyInv
  <2>1. TypeInv
    BY <1>1, TypeInvInductive
  <2>2. NothingNegative
    BY <1>1 DEF Init, LedgerInit, NothingNegative
  <2>3. OperatorsOwn = AtFirst
    <3>1. \A o \in Operators : Owned(o) = InitialBalance
      <4>1. \A o \in Operators : operators[o].balance = InitialBalance /\ operators[o].stake = 0
        BY <1>1 DEF Init, LedgerInit
      <4>2. InitialBalance + 0 = InitialBalance
        BY PaymentAssumption
      <4> QED
        BY <4>1, <4>2 DEF Owned
    <3>2. [o \in Operators |-> Owned(o)] = [o \in Operators |-> InitialBalance]
      BY <3>1
    <3> QED
      BY <3>2 DEF OperatorsOwn, AtFirst
  <2>4. NodesHold = Paid
    <3>1. \A n \in Nodes : nodes[n].reward = Rate * Earned(n)
      <4>1. \A n \in Nodes : nodes[n].reward = 0 /\ activeCycles[n] = {}
        BY <1>1 DEF Init, LedgerInit
      <4>2. \A n \in Nodes : Earned(n) = 0
        <5>1. Cardinality({}) = 0
          BY FS_EmptySet
        <5>2. \A n \in Nodes : {c \in activeCycles[n] : c < paidUntil[n]} = {}
          BY <4>1
        <5> QED
          BY <5>1, <5>2 DEF Earned
      <4> QED
        BY <4>1, <4>2, PaymentAssumption
    <3>2. [n \in Nodes |-> nodes[n].reward] = [n \in Nodes |-> Rate * Earned(n)]
      BY <3>1
    <3> QED
      BY <3>2 DEF NodesHold, Paid
  <2> QED
    BY <2>1, <2>2, <2>3, <2>4, MoneyTypes DEF MoneyInv, WealthIsPaid
<1>2. ASSUME TypeInv, TypeInv', PeriodInv, MoneyInv, [Next]_vars
      PROVE  MoneyInv'
  <2>1. /\ OperatorsOwn \in Int /\ NodesHold \in Int /\ Paid \in Int /\ AtFirst \in Int
    BY <1>2, MoneyTypes
  <2>2. inOrder' => inOrder
    BY <1>2, NextInParts, OrderIsNotRestored, NetworkStepLeavesLedger DEF vars, payments
  <2>3. CASE \E tx \in inFlight : ApplyClaimReward(tx)
    <3>1. PICK tx \in inFlight : ApplyClaimReward(tx)
      BY <2>3
    <3>2. NothingNegative' /\ OperatorsOwn' = OperatorsOwn
      BY <1>2, <3>1, ClaimMovesMoney DEF MoneyInv
    <3>3. inOrder => NodesHold' - NodesHold <= Paid' - Paid
      BY <1>2, <3>1, ClaimIsEarned
    <3>4. NodesHold' \in Int /\ Paid' \in Int
      BY <1>2, MoneyTypesNext
    <3>5. WealthIsPaid'
      <4>1. SUFFICES ASSUME inOrder'
                     PROVE  OperatorsOwn' + NodesHold' <= AtFirst + Paid'
        BY DEF WealthIsPaid, AtFirst
      <4>2. OperatorsOwn + NodesHold <= AtFirst + Paid
        BY <1>2, <2>2, <4>1 DEF MoneyInv, WealthIsPaid
      <4>3. NodesHold' - NodesHold <= Paid' - Paid /\ OperatorsOwn' = OperatorsOwn
        BY <2>2, <3>2, <3>3, <4>1
      <4> DEFINE hold == NodesHold'
                 paid == Paid'
      <4>4. hold \in Int /\ paid \in Int /\ hold - NodesHold <= paid - Paid
        BY <3>4, <4>3
      <4> HIDE DEF hold, paid
      <4>5. OperatorsOwn + hold <= AtFirst + paid
        BY <2>1, <4>2, <4>4
      <4> QED
        BY <4>3, <4>5 DEF hold, paid
    <3> QED
      BY <3>2, <3>5 DEF MoneyInv
  <2>4. CASE ~\E tx \in inFlight : ApplyClaimReward(tx)
    <3>1. WealthFalls
      <4>1. CASE LedgerStep
        <5>1. ASSUME OperatorTx
              PROVE  WealthFalls
          BY <1>2, <5>1, StakeMovesMoney, UnstakeMovesMoney, OthersMoveNoMoney
          DEF OperatorTx, MoneyInv
        <5>2. ASSUME NEW tx \in inFlight, ApplyInitRewardTimes(tx) \/ ApplyPenalty(tx)
              PROVE  WealthFalls
          BY <1>2, <5>2, PenaltyMovesMoney, OthersMoveNoMoney DEF MoneyInv
        <5> QED
          BY <2>4, <4>1, <5>1, <5>2 DEF LedgerStep
      <4>2. CASE UNCHANGED <<operators, nodes>>
        <5>1. OperatorsOwn' = OperatorsOwn /\ NodesHold' = NodesHold /\ NothingNegative'
          BY <1>2, <4>2 DEF OperatorsOwn, NodesHold, Owned, NothingNegative, MoneyInv
        <5> QED
          BY <2>1, <5>1 DEF WealthFalls
      <4> QED
        BY <1>2, <4>1, <4>2, NextInParts, NetworkStepLeavesLedger DEF vars, ledger
    <3>2. Paid <= Paid'
      <4>1. /\ paidUntil' = paidUntil
            /\ \A n \in Nodes : activeCycles[n] \subseteq activeCycles'[n]
        BY <1>2, <2>4, PeriodsGrow
      <4>2. \A n \in Nodes : paidUntil[n] <= paidUntil'[n]
        BY <1>2, <4>1 DEF TypeInv, PaymentsTyped
      <4> QED
        BY <1>2, <4>1, <4>2, PaidGrows
    <3>3. OperatorsOwn' \in Int /\ NodesHold' \in Int /\ Paid' \in Int
      BY <1>2, MoneyTypesNext
    <3>4. WealthIsPaid'
      <4>1. SUFFICES ASSUME inOrder'
                     PROVE  OperatorsOwn' + NodesHold' <= AtFirst + Paid'
        BY DEF WealthIsPaid, AtFirst
      <4>2. OperatorsOwn + NodesHold <= AtFirst + Paid
        BY <1>2, <2>2, <4>1 DEF MoneyInv, WealthIsPaid
      <4>3. OperatorsOwn' + NodesHold' <= OperatorsOwn + NodesHold
        BY <3>1 DEF WealthFalls
      <4> DEFINE wealth == OperatorsOwn' + NodesHold'
                 paid == Paid'
      <4>4. wealth \in Int /\ paid \in Int /\ Paid <= paid /\ wealth <= OperatorsOwn + NodesHold
        BY <3>2, <3>3, <4>3
      <4> HIDE DEF wealth, paid
      <4>5. wealth <= AtFirst + paid
        BY <2>1, <4>2, <4>4
      <4> QED
        BY <4>5 DEF wealth, paid
    <3> QED
      BY <3>1, <3>4 DEF MoneyInv, WealthFalls
  <2> QED
    BY <2>3, <2>4
<1> QED
  BY <1>1, <1>2

\* What is paid was earned in cycles of activity.
LEMMA PaidIsActive ==
  ASSUME TypeInv, MoneyInv
  PROVE  NothingUnearned
<1> DEFINE f == [n \in Nodes |-> Rate * Earned(n)]
           h == [n \in Nodes |-> Rate * Cardinality(activeCycles[n])]
<1>1. ASSUME NEW n \in Nodes
      PROVE  f[n] \in Int /\ h[n] \in Int /\ f[n] <= h[n]
  <2>1. Earned(n) \in Nat /\ IsFiniteSet(activeCycles[n])
    BY MoneyTypes
  <2>2. Earned(n) <= Cardinality(activeCycles[n]) /\ Cardinality(activeCycles[n]) \in Nat
    BY <2>1, FS_Subset, FS_CardinalityType DEF Earned
  <2>3. \A a, b \in Nat : a <= b => Rate * a <= Rate * b /\ Rate * a \in Int /\ Rate * b \in Int
    BY PaymentAssumption
  <2> QED
    BY <2>1, <2>2, <2>3
<1>2. f \in [Nodes -> Int] /\ h \in [Nodes -> Int]
  BY <1>1
<1>3. Paid = SumFunction(f)
  BY DEF Paid
<1>4. SumFunction(h) \in Int /\ Paid <= SumFunction(h)
  <2> HIDE DEF f, h
  <2> QED
    BY <1>1, <1>2, <1>3, FiniteAssumption, SumFunctionIsInt, SumFunctionIsMonotonic
<1>5. Wealth = OperatorsOwn + NodesHold
  BY DEF Wealth, OperatorsOwn, NodesHold, Owned
<1>6. NothingUnearned <=> (inOrder => Wealth <= AtFirst + SumFunction(h))
  BY DEF NothingUnearned, AtFirst
<1> HIDE DEF f, h
<1> QED
  BY <1>4, <1>5, <1>6, MoneyTypes DEF MoneyInv, WealthIsPaid

\* As long as no claim or penalty sets the time of a node account back, operators have
\* no more than they began with and the reward for the cycles their nodes were active in,
\* whatever is applied late, again, or around an unstake and a new stake (ClaimReward,
\* InitRewardTimes and the service queue that puts them).
THEOREM RewardsAreEarned == Spec => []NothingUnearned
<1>1. Init => TypeInv /\ PeriodInv /\ MoneyInv
  BY TypeInvInductive, PeriodInvInductive, MoneyInvInductive
<1>2. TypeInv /\ PeriodInv /\ MoneyInv /\ [Next]_vars => (TypeInv /\ PeriodInv /\ MoneyInv)'
  BY TypeInvInductive, PeriodInvInductive, MoneyInvInductive
<1>3. TypeInv /\ PeriodInv /\ MoneyInv => NothingUnearned
  BY PaidIsActive
<1> QED
  BY <1>1, <1>2, <1>3, PTL DEF Spec

-----------------------------------------------------------------------------
(***************************************************************************)
(* StakeCertificate: bonds are mutual, and what a certificate that is good *)
(* vouches for is there, for any sets of operators and nodes.              *)
(***************************************************************************)

\* What no operator account can have: a certificate time further away than the
\* duration of certificates.
CertTimesAreBounded ==
  \A o \in Operators : operators[o].certExp <= clock + CertDuration

\* The certificate time of an operator does not fall below that of a request or
\* of a certificate it was copied to, as long as that is good.
RequestsAreCovered ==
  \A cert \in requests :
    cert.certExp > clock => operators[cert.nominator].certExp >= cert.certExp

CertificatesAreCovered ==
  \A cert \in certificates :
    cert.certExp > clock =>
      /\ operators[cert.nominator].certExp >= cert.certExp
      /\ operators[cert.nominator].nominee = cert.nominee

CertificateInv ==
  /\ CertificateTypeOK
  /\ BondIsMutual
  /\ CertTimesAreBounded
  /\ RequestsAreCovered
  /\ CertificatesAreCovered

-----------------------------------------------------------------------------
(* What the transactions do to the part of the ledger that bonds and       *)
(* certificates depend on.                                                 *)

\* What a stake does to bonds and certificate times.
LEMMA StakeEffect ==
  ASSUME operators \in [Operators -> Operator], nodes \in [Nodes -> Node],
         NEW o \in Operators, NEW n \in Nodes, NEW amount \in StakeAmounts,
         Stake(o, n, amount)
  PROVE  /\ operators[o].nominee \in {None, n} /\ nodes[n].nominator \in {None, o}
         /\ \A p \in Operators :
              /\ operators'[p].nominee = IF p = o THEN n ELSE operators[p].nominee
              /\ operators'[p].certExp = operators[p].certExp
         /\ \A m \in Nodes :
              nodes'[m].nominator = IF m = n THEN o ELSE nodes[m].nominator
<1>1. operators' = [operators EXCEPT ![o] = Staker(o, n, amount)]
      /\ nodes' = [nodes EXCEPT ![n] = Staked(n, o, amount)]
  BY DEF Stake
<1>2. Staker(o, n, amount).nominee = n
      /\ Staker(o, n, amount).certExp = operators[o].certExp
  BY DEF Staker, Operator
<1>3. Staked(n, o, amount).nominator = o
  BY DEF Staked, Node
<1> QED
  BY <1>1, <1>2, <1>3 DEF Stake, VerifyStake

\* What an unstake does to them.
LEMMA UnstakeEffect ==
  ASSUME operators \in [Operators -> Operator], nodes \in [Nodes -> Node],
         NEW o \in Operators, NEW n \in Nodes, NEW force \in BOOLEAN,
         Unstake(o, n, force)
  PROVE  /\ nodes[n].nominator = o /\ operators[o].certExp <= clock
         /\ \A p \in Operators :
              /\ operators'[p].nominee = IF p = o THEN None ELSE operators[p].nominee
              /\ operators'[p].certExp = IF p = o THEN 0 ELSE operators[p].certExp
         /\ \A m \in Nodes :
              nodes'[m].nominator = IF m = n THEN None ELSE nodes[m].nominator
<1>1. operators' = [operators EXCEPT ![o] = Repaid(o, n)]
      /\ nodes' = [nodes EXCEPT ![n] = NoBond(n)]
  BY DEF Unstake
<1>2. Repaid(o, n).nominee = None /\ Repaid(o, n).certExp = 0
  BY DEF Repaid, Operator
<1>3. NoBond(n).nominator = None
  BY DEF NoBond, Node
<1> QED
  BY <1>1, <1>2, <1>3 DEF Unstake, VerifyUnstake

\* What the renewal of a certificate time does to them.
LEMMA SetCertTimeEffect ==
  ASSUME operators \in [Operators -> Operator], NEW o \in Operators, SetCertTime(o)
  PROVE  /\ \A p \in Operators :
              /\ operators'[p].nominee = operators[p].nominee
              /\ operators'[p].certExp =
                   IF p = o THEN clock + CertDuration ELSE operators[p].certExp
         /\ nodes' = nodes
BY DEF SetCertTime, Operator

\* Nothing of what bonds and certificates depend on has changed.
BondsUntouched ==
  /\ \A p \in Operators : /\ operators'[p].nominee = operators[p].nominee
                          /\ operators'[p].certExp = operators[p].certExp
  /\ \A m \in Nodes : nodes'[m].nominator = nodes[m].nominator

\* Internal transactions leave bonds and certificate times alone.
LEMMA InternalTxEffect ==
  ASSUME operators \in [Operators -> Operator], nodes \in [Nodes -> Node], InternalTx
  PROVE  BondsUntouched
<1>1. ASSUME NEW tx, tx.node \in Nodes, InitRewardTimes(tx)
      PROVE  BondsUntouched
  <2>1. Started(tx).nominator = nodes[tx.node].nominator
    BY <1>1 DEF Started, Node
  <2> QED
    BY <1>1, <2>1 DEF InitRewardTimes, BondsUntouched
<1>2. ASSUME NEW tx, tx.node \in Nodes, ClaimReward(tx)
      PROVE  BondsUntouched
  <2>1. Claimed(tx).nominator = nodes[tx.node].nominator
    BY <1>2 DEF Claimed, Node
  <2> QED
    BY <1>2, <2>1 DEF ClaimReward, BondsUntouched
<1>3. ASSUME NEW tx, tx.node \in Nodes, tx.operator \in Operators, Penalty(tx)
      PROVE  BondsUntouched
  <2>1. Penalized(tx).nominator = nodes[tx.node].nominator
    BY <1>3 DEF Penalized, Node
  <2>2. \A m \in Nodes : nodes'[m].nominator = nodes[m].nominator
    BY <1>3, <2>1 DEF Penalty
  <2>3. \A p \in Operators : /\ operators'[p].nominee = operators[p].nominee
                             /\ operators'[p].certExp = operators[p].certExp
    BY <1>3 DEF Penalty, PayPenalty, Operator
  <2> QED
    BY <2>2, <2>3 DEF BondsUntouched
<1> QED
  BY <1>1, <1>2, <1>3 DEF InternalTx

-----------------------------------------------------------------------------
(* CertificateInv holds at first and every step keeps each of its parts.   *)

LEMMA InitEstablishesCertificateInv == CertificateInit => CertificateInv
<1> SUFFICES ASSUME CertificateInit
             PROVE  CertificateInv
  OBVIOUS
<1> USE DEF CertificateInit, LedgerInit
<1>1. CertificateTypeOK
  <2>1. operators \in [Operators -> Operator]
    BY PaymentAssumption DEF Operator
  <2>2. nodes \in [Nodes -> Node]
    BY DEF Node
  <2> QED
    BY <2>1, <2>2 DEF CertificateTypeOK, Statuses
<1>2. BondIsMutual
  BY NoneAssumption DEF BondIsMutual
<1>3. CertTimesAreBounded
  <2>1. \A o \in Operators : operators[o].certExp = 0
    OBVIOUS
  <2>2. 0 <= clock + CertDuration
    BY DurationAssumption
  <2> QED
    BY <2>1, <2>2 DEF CertTimesAreBounded
<1>4. RequestsAreCovered /\ CertificatesAreCovered
  BY DEF RequestsAreCovered, CertificatesAreCovered
<1> QED
  BY <1>1, <1>2, <1>3, <1>4 DEF CertificateInv

\* A transaction of an operator writes accounts.
LEMMA OperatorTxKeepsTypes ==
  ASSUME CertificateTypeOK, OperatorActs
  PROVE  operators' \in [Operators -> Operator] /\ nodes' \in [Nodes -> Node]
<1>1. ASSUME NEW o \in Operators, NEW n \in Nodes, NEW amount \in StakeAmounts,
             Stake(o, n, amount)
      PROVE  operators' \in [Operators -> Operator] /\ nodes' \in [Nodes -> Node]
  BY <1>1, StakeTypes DEF CertificateTypeOK, Stake
<1>2. ASSUME NEW o \in Operators, NEW n \in Nodes, NEW force \in BOOLEAN,
             Unstake(o, n, force)
      PROVE  operators' \in [Operators -> Operator] /\ nodes' \in [Nodes -> Node]
  BY <1>2, UnstakeTypes DEF CertificateTypeOK, Unstake
<1>3. ASSUME NEW o \in Operators, SetCertTime(o)
      PROVE  operators' \in [Operators -> Operator] /\ nodes' \in [Nodes -> Node]
  <2> DEFINE time == clock + CertDuration
  <2>1. time \in Nat
    BY DurationAssumption DEF CertificateTypeOK
  <2>2. operators' = [operators EXCEPT ![o] = [operators[o] EXCEPT !.certExp = time]]
    BY <1>3 DEF SetCertTime, CertificateTypeOK
  <2> HIDE DEF time
  <2>3. [operators[o] EXCEPT !.certExp = time] \in Operator
    BY <2>1 DEF CertificateTypeOK, Operator
  <2> QED
    BY <1>3, <2>2, <2>3 DEF CertificateTypeOK, SetCertTime
<1> QED
  BY <1>1, <1>2, <1>3 DEF OperatorActs

\* So does an internal transaction.
LEMMA InternalTxKeepsTypes ==
  ASSUME CertificateTypeOK, InternalTx
  PROVE  operators' \in [Operators -> Operator] /\ nodes' \in [Nodes -> Node]
<1>1. ASSUME NEW tx, tx.node \in Nodes, tx.time \in Nat, tx.timestamp \in Nat,
             InitRewardTimes(tx) \/ ClaimReward(tx)
      PROVE  operators' \in [Operators -> Operator] /\ nodes' \in [Nodes -> Node]
  BY <1>1, RewardTypes DEF CertificateTypeOK, InitRewardTimes, ClaimReward
<1>2. ASSUME NEW tx, tx.node \in Nodes, tx.operator \in Operators, tx.time \in Nat,
             tx.timestamp \in Nat, Penalty(tx)
      PROVE  operators' \in [Operators -> Operator] /\ nodes' \in [Nodes -> Node]
  <2>1. nodes' \in [Nodes -> Node]
    BY <1>2, PenaltyTypes DEF CertificateTypeOK, Penalty
  <2> DEFINE stake == operators[tx.operator].stake - PenaltyAmount(tx.node)
  <2>2. stake \in Int
    BY <1>2, PenaltyTypes DEF CertificateTypeOK, Operator
  <2>3. operators' =
          [operators EXCEPT ![tx.operator] =
             [operators[tx.operator] EXCEPT !.stake = stake]]
    BY <1>2 DEF Penalty, PayPenalty, CertificateTypeOK
  <2> HIDE DEF stake
  <2>4. [operators[tx.operator] EXCEPT !.stake = stake] \in Operator
    BY <1>2, <2>2 DEF CertificateTypeOK, Operator
  <2>5. operators' \in [Operators -> Operator]
    BY <1>2, <2>3, <2>4 DEF CertificateTypeOK
  <2> QED
    BY <2>1, <2>5
<1>3. clock \in Nat
  BY DEF CertificateTypeOK
<1>4. \A time \in 1..clock : time \in Nat
  BY <1>3
<1> QED
  BY <1>1, <1>2, <1>3, <1>4 DEF InternalTx

LEMMA NextKeepsTypes == CertificateTypeOK /\ [CertificateNext]_certificateVars => CertificateTypeOK'
<1> SUFFICES ASSUME CertificateTypeOK, [CertificateNext]_certificateVars
             PROVE  CertificateTypeOK'
  OBVIOUS
<1>1. CASE OperatorActs
  BY <1>1, OperatorTxKeepsTypes DEF OperatorActs, CertificateTypeOK
<1>2. CASE InternalTx
  BY <1>2, InternalTxKeepsTypes DEF InternalTx, CertificateTypeOK
<1>3. CASE CycleEnds
  BY <1>3 DEF CycleEnds, CertificateTypeOK, ledger
<1>4. ASSUME NEW o \in Operators, NEW n \in Nodes, QueryCertificate(o, n)
      PROVE  CertificateTypeOK'
  <2> DEFINE cert == [nominator |-> o, nominee |-> n, stake |-> operators[o].stake,
                      certExp |-> operators[o].certExp]
  <2>1. operators[o].stake \in Int /\ operators[o].certExp \in Nat
    BY DEF CertificateTypeOK, Operator
  <2>2. cert \in Certificate
    BY <2>1 DEF Certificate
  <2>3. requests' = requests \cup {cert}
    BY <1>4 DEF QueryCertificate
  <2> HIDE DEF cert
  <2> QED
    BY <1>4, <2>2, <2>3 DEF QueryCertificate, CertificateTypeOK, ledger
<1>5. ASSUME NEW cert \in requests, SignCertificate(cert)
      PROVE  CertificateTypeOK'
  BY <1>5 DEF SignCertificate, CertificateTypeOK, ledger
<1>6. ASSUME NEW n \in Nodes, Admit(n) \/ ChangeStatus(n)
      PROVE  CertificateTypeOK'
  BY <1>6 DEF Admit, ChangeStatus, CertificateTypeOK, ledger, Statuses
<1>7. CASE UNCHANGED certificateVars
  BY <1>7 DEF certificateVars, ledger, CertificateTypeOK
<1> QED
  BY <1>1, <1>2, <1>3, <1>4, <1>5, <1>6, <1>7 DEF CertificateNext

\* A bond is made and given up by both accounts at once.
LEMMA NextKeepsBonds == CertificateInv /\ [CertificateNext]_certificateVars => BondIsMutual'
<1> SUFFICES ASSUME CertificateInv, [CertificateNext]_certificateVars
             PROVE  BondIsMutual'
  OBVIOUS
<1>1. CertificateTypeOK /\ BondIsMutual
  BY DEF CertificateInv
<1>2. CASE OperatorActs
  <2>1. ASSUME NEW o \in Operators, NEW n \in Nodes, NEW amount \in StakeAmounts,
               Stake(o, n, amount)
        PROVE  BondIsMutual'
    BY <1>1, <2>1, StakeEffect, NoneAssumption DEF CertificateTypeOK, BondIsMutual
  <2>2. ASSUME NEW o \in Operators, NEW n \in Nodes, NEW force \in BOOLEAN,
               Unstake(o, n, force)
        PROVE  BondIsMutual'
    BY <1>1, <2>2, UnstakeEffect, NoneAssumption DEF CertificateTypeOK, BondIsMutual
  <2>3. ASSUME NEW o \in Operators, SetCertTime(o)
        PROVE  BondIsMutual'
    BY <1>1, <2>3, SetCertTimeEffect DEF CertificateTypeOK, BondIsMutual
  <2> QED
    BY <1>2, <2>1, <2>2, <2>3 DEF OperatorActs
<1>3. CASE InternalTx
  BY <1>1, <1>3, InternalTxEffect DEF CertificateTypeOK, BondIsMutual, BondsUntouched
<1>4. CASE UNCHANGED ledger
  BY <1>1, <1>4 DEF BondIsMutual, ledger
<1> QED
  BY <1>2, <1>3, <1>4
  DEF CertificateNext, certificateVars, CycleEnds, QueryCertificate, SignCertificate, Admit, ChangeStatus

\* The clock does not go back.
LEMMA ClockOnlyRises == CertificateTypeOK /\ [CertificateNext]_certificateVars => clock' \in Nat /\ clock <= clock'
BY DEF CertificateTypeOK, CertificateNext, certificateVars, OperatorActs, InternalTx, CycleEnds, QueryCertificate,
       SignCertificate, Admit, ChangeStatus

\* The certificate time of an operator is changed by an unstake, which is refused
\* while a certificate is good, and by a renewal, which does not shorten it.
LEMMA CertTimesOnlyRise ==
  ASSUME CertificateInv, [CertificateNext]_certificateVars, NEW o \in Operators
  PROVE  /\ operators'[o].certExp <= clock' + CertDuration
         /\ operators[o].certExp > clock =>
              /\ operators'[o].certExp >= operators[o].certExp
              /\ operators'[o].nominee = operators[o].nominee
                 \/ operators[o].nominee = None
<1> DEFINE Goal == /\ operators'[o].certExp <= clock' + CertDuration
                   /\ operators[o].certExp > clock =>
                        /\ operators'[o].certExp >= operators[o].certExp
                        /\ operators'[o].nominee = operators[o].nominee
                           \/ operators[o].nominee = None
<1>1. CertificateTypeOK /\ operators[o].certExp <= clock + CertDuration
  BY DEF CertificateInv, CertTimesAreBounded
<1>2. operators[o].certExp \in Nat /\ clock \in Nat /\ CertDuration \in Nat
  BY <1>1, DurationAssumption DEF CertificateTypeOK, Operator
<1>3. CASE operators'[o].certExp = operators[o].certExp
           /\ operators'[o].nominee = operators[o].nominee
  BY <1>1, <1>2, <1>3, ClockOnlyRises
<1>4. CASE OperatorActs
  <2>1. clock' = clock
    BY <1>4 DEF OperatorActs
  <2>2. ASSUME NEW p \in Operators, NEW n \in Nodes, NEW amount \in StakeAmounts,
               Stake(p, n, amount)
        PROVE  Goal
    <3>1. /\ operators'[o].certExp = operators[o].certExp
          /\ operators'[o].nominee = operators[o].nominee
             \/ operators[o].nominee = None
      BY <1>1, <2>2, StakeEffect DEF CertificateTypeOK
    <3> QED
      BY <1>1, <1>2, <2>1, <3>1
  <2>3. ASSUME NEW p \in Operators, NEW n \in Nodes, NEW force \in BOOLEAN,
               Unstake(p, n, force)
        PROVE  Goal
    <3>1. CASE p = o
      <4>1. operators[o].certExp <= clock /\ operators'[o].certExp = 0
        BY <1>1, <2>3, <3>1, UnstakeEffect DEF CertificateTypeOK
      <4> QED
        BY <1>2, <2>1, <4>1
    <3>2. CASE p # o
      BY <1>1, <1>3, <2>3, <3>2, UnstakeEffect DEF CertificateTypeOK
    <3> QED
      BY <3>1, <3>2
  <2>4. ASSUME NEW p \in Operators, SetCertTime(p)
        PROVE  Goal
    <3>1. CASE p = o
      <4>1. operators'[o].certExp = clock + CertDuration
            /\ operators'[o].nominee = operators[o].nominee
        BY <1>1, <2>4, <3>1, SetCertTimeEffect DEF CertificateTypeOK
      <4> QED
        BY <1>1, <1>2, <2>1, <4>1
    <3>2. CASE p # o
      BY <1>1, <1>3, <2>4, <3>2, SetCertTimeEffect DEF CertificateTypeOK
    <3> QED
      BY <3>1, <3>2
  <2> QED
    BY <1>4, <2>2, <2>3, <2>4 DEF OperatorActs
<1>5. CASE InternalTx
  BY <1>1, <1>3, <1>5, InternalTxEffect DEF CertificateTypeOK, BondsUntouched
<1>6. CASE UNCHANGED ledger
  BY <1>3, <1>6 DEF ledger
<1> QED
  BY <1>4, <1>5, <1>6
  DEF CertificateNext, certificateVars, CycleEnds, QueryCertificate, SignCertificate, Admit, ChangeStatus

LEMMA NextKeepsCertTimesBounded == CertificateInv /\ [CertificateNext]_certificateVars => CertTimesAreBounded'
BY CertTimesOnlyRise DEF CertTimesAreBounded

\* A new request copies the certificate time of its operator.
LEMMA NextKeepsRequestsCovered == CertificateInv /\ [CertificateNext]_certificateVars => RequestsAreCovered'
<1> SUFFICES ASSUME CertificateInv, [CertificateNext]_certificateVars, NEW cert \in requests', cert.certExp > clock'
             PROVE  operators'[cert.nominator].certExp >= cert.certExp
  BY DEF RequestsAreCovered
<1>1. CertificateTypeOK /\ RequestsAreCovered /\ CertificateTypeOK'
  BY NextKeepsTypes DEF CertificateInv
<1>2. cert \in Certificate
  BY <1>1 DEF CertificateTypeOK
<1>3. /\ cert.nominator \in Operators /\ cert.certExp \in Nat
      /\ operators[cert.nominator].certExp \in Nat
      /\ operators'[cert.nominator].certExp \in Nat
      /\ clock \in Nat /\ clock' \in Nat /\ clock <= clock'
  BY <1>1, <1>2, ClockOnlyRises DEF Certificate, CertificateTypeOK, Operator
<1>4. CASE cert \in requests
  <2>1. operators[cert.nominator].certExp >= cert.certExp
    BY <1>1, <1>3, <1>4 DEF RequestsAreCovered
  <2>2. operators'[cert.nominator].certExp >= operators[cert.nominator].certExp
    BY <1>3, <2>1, CertTimesOnlyRise
  <2> QED
    BY <1>3, <2>1, <2>2
<1>5. CASE cert \notin requests
  <2>1. PICK o \in Operators, n \in Nodes : QueryCertificate(o, n)
    BY <1>5 DEF CertificateNext, certificateVars, OperatorActs, InternalTx, CycleEnds, SignCertificate, Admit,
                ChangeStatus
  <2>2. cert.nominator = o /\ cert.certExp = operators[o].certExp
        /\ operators' = operators
    BY <1>5, <2>1 DEF QueryCertificate, ledger
  <2> QED
    BY <1>3, <2>2
<1> QED
  BY <1>4, <1>5

\* A certificate is signed while its operator still has the nominee it names.
LEMMA NextKeepsCertificatesCovered == CertificateInv /\ [CertificateNext]_certificateVars => CertificatesAreCovered'
<1> SUFFICES ASSUME CertificateInv, [CertificateNext]_certificateVars, NEW cert \in certificates',
                    cert.certExp > clock'
             PROVE  /\ operators'[cert.nominator].certExp >= cert.certExp
                    /\ operators'[cert.nominator].nominee = cert.nominee
  BY DEF CertificatesAreCovered
<1>1. CertificateTypeOK /\ RequestsAreCovered /\ CertificatesAreCovered /\ CertificateTypeOK'
  BY NextKeepsTypes DEF CertificateInv
<1>2. cert \in Certificate
  BY <1>1 DEF CertificateTypeOK
<1>3. /\ cert.nominator \in Operators /\ cert.nominee \in Nodes
      /\ cert.certExp \in Nat
      /\ operators[cert.nominator].certExp \in Nat
      /\ operators'[cert.nominator].certExp \in Nat
      /\ clock \in Nat /\ clock' \in Nat /\ clock <= clock'
  BY <1>1, <1>2, ClockOnlyRises DEF Certificate, CertificateTypeOK, Operator
<1>4. CASE cert \in certificates
  <2>1. operators[cert.nominator].certExp >= cert.certExp
        /\ operators[cert.nominator].nominee = cert.nominee
    BY <1>1, <1>3, <1>4 DEF CertificatesAreCovered
  <2>2. /\ operators'[cert.nominator].certExp >= operators[cert.nominator].certExp
        /\ operators'[cert.nominator].nominee = operators[cert.nominator].nominee
    BY <1>3, <2>1, CertTimesOnlyRise, NoneAssumption
  <2> QED
    BY <1>3, <2>1, <2>2
<1>5. CASE cert \notin certificates
  <2>1. SignCertificate(cert)
    BY <1>5 DEF CertificateNext, certificateVars, OperatorActs, InternalTx, CycleEnds, QueryCertificate,
                SignCertificate, Admit, ChangeStatus
  <2>2. /\ cert \in requests /\ operators' = operators /\ clock' = clock
        /\ operators[cert.nominator].nominee = cert.nominee
    BY <2>1 DEF SignCertificate, ledger
  <2>3. operators[cert.nominator].certExp >= cert.certExp
    BY <1>1, <2>2 DEF RequestsAreCovered
  <2> QED
    BY <2>2, <2>3
<1> QED
  BY <1>4, <1>5

-----------------------------------------------------------------------------
(* The theorems.                                                           *)

\* CertificateInv is inductive: it holds in every state of every behaviour, for any number
\* of operators and nodes, any amounts, and any length of time.
THEOREM CertificateInvHolds == CertificateSpec => []CertificateInv
<1>1. CertificateInit => CertificateInv
  BY InitEstablishesCertificateInv
<1>2. CertificateInv /\ [CertificateNext]_certificateVars => CertificateInv'
  BY NextKeepsTypes, NextKeepsBonds, NextKeepsCertTimesBounded,
     NextKeepsRequestsCovered, NextKeepsCertificatesCovered DEF CertificateInv
<1> QED
  BY <1>1, <1>2, PTL DEF CertificateSpec

\* The accounts, the clock and the certificates keep their types under all six
\* staking transactions and everything that happens to certificates.
THEOREM CertificateTypesHold == CertificateSpec => []CertificateTypeOK
<1>1. CertificateInv => CertificateTypeOK
  BY DEF CertificateInv
<1> QED
  BY <1>1, CertificateInvHolds, PTL

\* An operator and a node account agree on who is bonded to whom, whatever
\* transactions apply() executes in whatever order.
THEOREM BondsAreMutual == CertificateSpec => []BondIsMutual
<1>1. CertificateInv => BondIsMutual
  BY DEF CertificateInv
<1> QED
  BY <1>1, CertificateInvHolds, PTL

\* A certificate that has been signed stands for a bond that is still there as
\* long as the certificate is good, although neither the node that made it nor
\* the nodes that signed it look at the accounts again.
THEOREM CertificatesAreBacked == CertificateSpec => []CertificateIsBacked
<1>1. CertificateInv => CertificateIsBacked
  <2> SUFFICES ASSUME CertificateInv, NEW cert \in certificates, cert.certExp > clock
               PROVE  /\ operators[cert.nominator].nominee = cert.nominee
                      /\ nodes[cert.nominee].nominator = cert.nominator
    BY DEF CertificateIsBacked
  <2>1. cert.nominator \in Operators /\ cert.nominee \in Nodes
    BY DEF CertificateInv, CertificateTypeOK, Certificate
  <2>2. operators[cert.nominator].nominee = cert.nominee
    BY DEF CertificateInv, CertificatesAreCovered
  <2> QED
    BY <2>1, <2>2 DEF CertificateInv, BondIsMutual
<1> QED
  BY <1>1, CertificateInvHolds, PTL
==============================================================================
