----------------------------- MODULE MCAdmission -----------------------------
(* Instances of Admission for TLC: one transaction of every sort. *)
EXTENDS Admission

CONSTANTS slot1, slot2, price1, price2

Evm(to, n, list, order) ==
  [kind |-> "evm", to |-> to, nonce |-> n, list |-> list, order |-> order,
   reads |-> {}, signed |-> TRUE, chainId |-> TRUE, dataEmpty |-> FALSE]

OwnLists == {NoList, {[address |-> Target, storageKeys |-> {Pointer}]}}

Orders ==
  {NoOrder}
  \cup [internalTXType : {"stake"}, nominator : {Sender, Other}, nomineeValid : BOOLEAN,
        matchesValue : BOOLEAN, stake : {"zero", "short", "enough"}, force : {FALSE}]
  \cup [internalTXType : {"unstake"}, nominator : {Sender, Other}, nomineeValid : {TRUE},
        matchesValue : {TRUE}, stake : {"zero"}, force : BOOLEAN]

InternalTypes ==
  {"SetCertTime", "ClaimReward", "Penalty", "InitRewardTimes", "ChangeConfig",
   "ChangeNetworkParam", "ApplyChangeConfig", "ApplyNetworkParam", "InitNetwork"}

Sent ==
       {Evm(to, n, list, NoOrder) :
          to \in {NoAddress, Target}, n \in 0..MaxNonce, list \in OwnLists}
  \cup {[Evm(to, n, NoList, NoOrder) EXCEPT !.reads = {source}] :
          to \in {NoAddress, Target}, n \in 0..MaxNonce,
          source \in {"block", "price", "balance"}}
  \cup {Evm(StakeTarget, 0, NoList, order) : order \in Orders}
  \cup {[Evm(Target, 0, NoList, NoOrder) EXCEPT ![field] = ~@] :
          field \in {"signed", "chainId", "dataEmpty"}}
  \cup [kind : {"internal"}, type : InternalTypes, valid : BOOLEAN]

\* Node accounts are of no concern to a transaction that has no order.
MCInit == Init /\ (IsEvm /\ ~isStakingEVMTx => node = NoNode /\ staked = NoNode)
MCSpec == MCInit /\ [][Next]_vars
=============================================================================
