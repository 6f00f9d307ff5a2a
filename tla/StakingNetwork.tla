--------------------------- MODULE StakingNetwork ----------------------------
(***************************************************************************)
(* The staking ledger in the network: nodes come and go, the reward of an  *)
(* active period is started and claimed by network transactions that a     *)
(* service queue offers until the ledger shows them applied, penalties are *)
(* made from events, and every transaction made this way is applied later, *)
(* more than once, in any order, or never.                                 *)
(*                                                                         *)
(* The service queue, the event source and the transaction queue are not   *)
(* part of the repository: they are modelled from the callbacks that are   *)
(* registered with them.                                                   *)
(***************************************************************************)
EXTENDS Staking, Sequences, FiniteSets, Functions

CONSTANTS
  MaxTime,     \* bound: cycles
  MaxInFlight, \* bound: internal transactions in flight
  Slashing     \* violations that are penalized: the slashing flags

ASSUME FiniteAssumption == IsFiniteSet(Operators) /\ IsFiniteSet(Nodes)
ASSUME BoundAssumption == MaxTime \in Nat \ {0} /\ MaxInFlight \in Nat

VARIABLES
  queue,        \* per node, the network transactions that are not applied
  inFlight,     \* internal transactions that were put
  activatedAt,  \* cycle in which the node last became active
  lostAt,       \* cycle in which the node was lost, while no event tells so
  activeCycles, \* history: cycles the node was active in, up to its last leave
  penalties,    \* history: events a node was penalized for
  paidUntil,    \* history: end of the last period that a node was paid for
  inOrder       \* history: no claim or penalty has set the time of a node back

external == <<status, clock, queue, activatedAt, lostAt, activeCycles>>
payments == <<paidUntil, inOrder>>
vars == <<ledger, external, inFlight, penalties, payments>>

Init ==
  /\ LedgerInit
  /\ status = [n \in Nodes |-> "out"]
  /\ clock = 1
  /\ queue = [n \in Nodes |-> <<>>]
  /\ inFlight = {}
  /\ activatedAt = [n \in Nodes |-> 0]
  /\ lostAt = [n \in Nodes |-> 0]
  /\ activeCycles = [n \in Nodes |-> {}]
  /\ penalties = [n \in Nodes |-> <<>>]
  /\ paidUntil = [n \in Nodes |-> 0]
  /\ inOrder = TRUE

-----------------------------------------------------------------------------
(* Nodes come and go.                                                      *)

MoveTo(n, s) == status' = [status EXCEPT ![n] = s]

Join(n) ==
  /\ status[n] = "out"
  /\ nodes[n].nominator # None
  /\ operators[nodes[n].nominator].certExp >= clock
  /\ MoveTo(n, "syncing")
  /\ UNCHANGED <<ledger, clock, queue, activatedAt, lostAt, activeCycles, inFlight,
                 penalties, payments>>

Activate(n) ==
  /\ status[n] = "syncing"
  /\ MoveTo(n, "active")
  /\ activatedAt' = [activatedAt EXCEPT ![n] = clock]
  /\ queue' = [queue EXCEPT ![n] = Append(@, [type |-> "init", time |-> clock])]
  /\ UNCHANGED <<ledger, clock, lostAt, activeCycles, inFlight, penalties, payments>>

\* The node leaves, as it should or early; the claim is queued either way.
Deactivate(n, early) ==
  /\ status[n] = "active" /\ activatedAt[n] < clock
  /\ MoveTo(n, "out")
  /\ queue' = [queue EXCEPT ![n] = Append(@, [type |-> "reward", time |-> clock])]
  /\ activeCycles' = [activeCycles EXCEPT ![n] = @ \cup activatedAt[n]..(clock - 1)]
  /\ activatedAt' = [activatedAt EXCEPT ![n] = 0]
  /\ lostAt' = [lostAt EXCEPT ![n] = IF early THEN clock ELSE 0]
  /\ UNCHANGED <<ledger, clock, inFlight, penalties, payments>>

\* A transaction is given a timestamp that no node has to wait long for.
Timestamps == {clock, clock + 1}

Put(tx) ==
  /\ inFlight' = inFlight \cup {tx}
  /\ Cardinality(inFlight') <= MaxInFlight

\* The nodes next to the reported one put the penalty.  That the others record it
\* in penaltyTxsMap has no effect: the result of the check against it is not used.
InjectPenalty(n, type) ==
  IF type \in Slashing /\ nodes[n].nominator # None
  THEN \E timestamp \in Timestamps :
         Put([type |-> type, node |-> n, time |-> clock,
              timestamp |-> timestamp, operator |-> nodes[n].nominator])
  ELSE UNCHANGED inFlight

\* The event is made when a node that was lost is dropped, which is later.
LeftEarly(n) ==
  /\ lostAt[n] # 0 /\ lostAt[n] < clock
  /\ InjectPenalty(n, "left")
  /\ lostAt' = [lostAt EXCEPT ![n] = 0]
  /\ UNCHANGED <<ledger, status, clock, queue, activatedAt, activeCycles, penalties,
                 payments>>

SyncTimeout(n) ==
  /\ status[n] = "syncing"
  /\ InjectPenalty(n, "sync")
  /\ MoveTo(n, "out")
  /\ UNCHANGED <<ledger, clock, queue, activatedAt, lostAt, activeCycles, penalties,
                 payments>>

\* The node was reported lost, refuted it, and stays.
Refuted(n) ==
  /\ status[n] = "active"
  /\ InjectPenalty(n, "refuted")
  /\ UNCHANGED <<ledger, external, penalties, payments>>

-----------------------------------------------------------------------------
(* Network transactions.                                                   *)

Offered(n, type) == queue[n] # <<>> /\ queue[n][1].type = type

InjectInitRewardTimes(n) ==
  /\ Offered(n, "init")
  /\ nodes[n].nominator # None
  /\ nodes[n].rewardStartTime < queue[n][1].time
  /\ \E timestamp \in Timestamps :
       Put([type |-> "init", node |-> n, time |-> queue[n][1].time,
            timestamp |-> timestamp])
  /\ UNCHANGED <<ledger, external, penalties, payments>>

InjectClaimReward(n) ==
  /\ Offered(n, "reward")
  /\ nodes[n].rewardEndTime < queue[n][1].time
  /\ \E timestamp \in Timestamps :
       Put([type |-> "reward", node |-> n, time |-> queue[n][1].time,
            timestamp |-> timestamp, operator |-> nodes[n].nominator])
  /\ UNCHANGED <<ledger, external, penalties, payments>>

\* The apply verifiers.
Applied(n, entry) ==
  IF entry.type = "init"
  THEN nodes[n].rewardStartTime >= entry.time
  ELSE nodes[n].rewardEndTime = entry.time

\* With a new cycle the queue drops what is applied.
Tick ==
  /\ clock < MaxTime
  /\ clock' = clock + 1
  /\ queue' = [n \in Nodes |->
       IF queue[n] # <<>> /\ Applied(n, queue[n][1]) THEN Tail(queue[n])
       ELSE queue[n]]
  /\ UNCHANGED <<ledger, status, activatedAt, lostAt, activeCycles, inFlight,
                 penalties, payments>>

-----------------------------------------------------------------------------
(* The ledger.                                                             *)

OperatorTx ==
  /\ \/ \E o \in Operators, n \in Nodes, amount \in StakeAmounts : Stake(o, n, amount)
     \/ \E o \in Operators, n \in Nodes, force \in BOOLEAN : Unstake(o, n, force)
     \/ \E o \in Operators : SetCertTime(o)
  /\ UNCHANGED <<external, inFlight, penalties, payments>>

ApplyInitRewardTimes(tx) ==
  /\ tx.type = "init" /\ tx.timestamp <= clock
  /\ InitRewardTimes(tx)
  /\ UNCHANGED <<external, inFlight, penalties, payments>>

\* Neither a claim nor a penalty is refused for being older than the node account.
KeepsOrder(tx) == inOrder' = (inOrder /\ nodes[tx.node].timestamp <= tx.timestamp)

ApplyClaimReward(tx) ==
  /\ tx.type = "reward" /\ tx.timestamp <= clock
  /\ ClaimReward(tx)
  /\ KeepsOrder(tx)
  /\ paidUntil' = IF nodes[tx.node].rewardStartTime = 0 THEN paidUntil
                  ELSE [paidUntil EXCEPT ![tx.node] = tx.time]
  /\ UNCHANGED <<external, inFlight, penalties>>

ApplyPenalty(tx) ==
  /\ tx.type \in {"left", "sync", "refuted"} /\ tx.timestamp <= clock
  /\ Penalty(tx)
  /\ KeepsOrder(tx)
  /\ penalties' = [penalties EXCEPT ![tx.node] = Append(@, tx.time)]
  /\ UNCHANGED <<external, inFlight, paidUntil>>

\* A transaction expires in the queue of the network, or was lost.
DropTx(tx) ==
  /\ inFlight' = inFlight \ {tx}
  /\ UNCHANGED <<ledger, external, penalties, payments>>

Next ==
  \/ OperatorTx \/ Tick
  \/ \E n \in Nodes : Join(n) \/ Activate(n) \/ LeftEarly(n) \/ SyncTimeout(n)
                    \/ Refuted(n)
  \/ \E n \in Nodes, early \in BOOLEAN : Deactivate(n, early)
  \/ \E n \in Nodes : InjectInitRewardTimes(n) \/ InjectClaimReward(n)
  \/ \E tx \in inFlight :
       \/ ApplyInitRewardTimes(tx) \/ ApplyClaimReward(tx) \/ ApplyPenalty(tx)
       \/ DropTx(tx)

Spec == Init /\ [][Next]_vars

-----------------------------------------------------------------------------
\* Every variable keeps its type.
TypeOK ==
  /\ operators \in [Operators -> Operator]
  /\ nodes \in [Nodes -> Node]
  /\ status \in [Nodes -> Statuses]
  /\ clock \in 1..MaxTime
  /\ queue \in [Nodes -> Seq([type : {"init", "reward"}, time : 1..MaxTime])]
  /\ inFlight \subseteq InitRewardTx \cup ClaimRewardTx \cup PenaltyTx
  /\ activatedAt \in [Nodes -> 0..MaxTime]
  /\ lostAt \in [Nodes -> 0..MaxTime]
  /\ activeCycles \in [Nodes -> SUBSET (1..MaxTime)]
  /\ paidUntil \in [Nodes -> Nat]
  /\ inOrder \in BOOLEAN

\* What operators have, staked or not, with the rewards their nodes hold for them.
Wealth ==
  SumFunction([o \in Operators |-> operators[o].balance + operators[o].stake])
    + SumFunction([n \in Nodes |-> nodes[n].reward])

\* Operators come out with no more than they had, plus the reward for the cycles
\* in which their nodes were active: a period is paid once although its transactions
\* may be applied late, again and around an unstake and a new stake.  All of it hangs
\* on the time of the node account, which only a claim or a penalty may set back.
NothingUnearned ==
  inOrder =>
    Wealth <= SumFunction([o \in Operators |-> InitialBalance])
                + SumFunction([n \in Nodes |-> Rate * Cardinality(activeCycles[n])])

\* The node account locks what its operator has staked, so that both unstake and
\* penalties see one amount.
StakeMatchesLock ==
  \A n \in Nodes, o \in Operators :
    nodes[n].nominator = o => operators[o].stake = nodes[n].stakeLock

\* A node is penalized once for an event, and for later events only after it.
PenalizedOnce ==
  \A n \in Nodes : \A i \in 1..(Len(penalties[n]) - 1) :
    penalties[n][i] < penalties[n][i + 1]
==============================================================================
