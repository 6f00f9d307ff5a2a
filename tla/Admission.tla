------------------------------ MODULE Admission ------------------------------
(***************************************************************************)
(* The way of one transaction from a client to apply(): txPreCrackData     *)
(* asks the network for accounts and runs the transaction to predict what  *)
(* it will touch, validateTxnFields judges it by those answers, crack      *)
(* turns them into the keys shardus locks, getRelevantData supplies the    *)
(* accounts of the keys, and apply() runs it later on a world that other   *)
(* transactions have changed, in another block and at another price.  An   *)
(* answer of the network is the account, nothing (also when the node that  *)
(* was asked failed), or an exception.                                     *)
(***************************************************************************)
EXTENDS AccessLists

CONSTANTS
  Transactions,          \* the transactions that may be sent
  Sender, Other,         \* EVM accounts: the sender, another operator
  Target,                \* whom a transaction calls or pays
  StakeTarget,           \* ShardeumFlags.stakeTargetAddress
  NoAddress,             \* of a transaction that deploys
  Node,                  \* the node account that orders name
  OtherNode, NoNode,
  NetworkAccount, Dev,
  Slots, Pointer,        \* slots of a contract; it keeps in Pointer which it writes
  Blocks, Prices,        \* blocks of the chain, gas prices of the network account
  MaxFunds,              \* bound: what the sender may have
  MaxNonce, MaxMoves     \* bounds: nonces, changes other transactions make

ASSUME SlotAssumption == Slots # {} /\ Pointer \notin Slots
ASSUME BoundAssumption == MaxNonce \in Nat /\ MaxMoves \in Nat /\ MaxFunds \in Nat
ASSUME ContextAssumption ==
  /\ Blocks # {} /\ Prices # {}
  /\ \A t \in Transactions : t.kind = "evm" => t.reads \subseteq {"block", "price", "balance"}
ASSUME AddressAssumption ==
  /\ \A n \in 0 .. MaxNonce : <<Sender, n>> # NoAddress
  /\ \A t \in Transactions : t.kind = "evm" => t.to \in {NoAddress, Target, StakeTarget}

VARIABLES
  tx, pc, retry,         \* the transaction, where it is, fetches of its sender
  nonce, funds,          \* the sender: its nonce, its balance (0: it cannot pay)
  target, slot,          \* Target: missing, plain or contract; the slot it writes
  node, staked,          \* the node account; the node the sender has staked to
  network,               \* does the network account exist
  coinTransferOnly,      \* shardusConfig.features.dappFeature1enabled
  txPause,               \* of the network account
  appData, keys, created, written,
  involved,              \* what apply() had to add to the keys
  missed, moved, moves,  \* history: an answer was lost; Target changed; bound
  foreseen, strayed      \* history: what the prediction's code saw; apply()'s saw another

world == <<nonce, funds, target, slot, node, staked, network, coinTransferOnly, txPause>>
result == <<keys, created, written, involved>>
history == <<missed, moved, moves, foreseen, strayed>>
vars == <<tx, pc, retry, world, appData, result, history>>

NoOrder == [internalTXType |-> "none"]
NoList == {}
NothingSeen == <<>>
NoAccount == [found |-> FALSE]
Found(data) == [found |-> TRUE, data |-> data]

New(n) == <<Sender, n>>
CodeOf(address, seen) == <<"code of", address, seen>>

NodeAccounts ==
  [nominator : {NoAddress, Sender, Other}, stakeLock : BOOLEAN,
   presence : {"out", "standby", "active"}, rewards : {"none", "started", "ended"}]
NewNode == [nominator |-> NoAddress, stakeLock |-> FALSE,
            presence |-> "out", rewards |-> "none"]

NoData ==
  [balance |-> FALSE, newCAAddr |-> NoAddress, accessList |-> {}, codeHashes |-> {},
   patterns |-> NoPatterns, internalTx |-> NoOrder, networkAccount |-> FALSE,
   nomineeAccount |-> NoAccount, nominatorAccount |-> NoAccount, sender |-> NoNode]

IsEvm == tx.kind = "evm"
isStakingEVMTx == IsEvm /\ tx.to = StakeTarget
isEIP2930 == tx.list # NoList
Deploys == tx.to = NoAddress

Init ==
  /\ tx \in Transactions
  /\ pc = IF IsEvm THEN "fetchSender" ELSE "validate"
  /\ retry = 0
  /\ nonce = 0 /\ funds \in 0 .. MaxFunds
  /\ target \in {"missing", "plain", "contract"} /\ slot \in Slots
  /\ node \in {NewNode, [NewNode EXCEPT !.nominator = Sender, !.stakeLock = TRUE],
               [NewNode EXCEPT !.nominator = Other, !.stakeLock = TRUE]} \cup {NoNode}
  /\ staked \in IF node # NoNode /\ node.nominator = Sender THEN {Node}
               ELSE {NoNode, OtherNode}
  /\ network \in BOOLEAN /\ (IsEvm => network)
  /\ coinTransferOnly = FALSE /\ txPause = FALSE
  /\ appData = NoData
  /\ keys = {} /\ created = {} /\ written = {} /\ involved = {}
  /\ missed = FALSE /\ moved = FALSE /\ moves = 0
  /\ foreseen = NothingSeen /\ strayed = FALSE

Refuse == pc' = "refused" /\ UNCHANGED <<appData, result>>
Put(data, next) == appData' = data /\ pc' = next /\ UNCHANGED result

-----------------------------------------------------------------------------
(* txPreCrackData.                                                         *)

\* A list is made for a contract that was found, and for a deployment.
shouldGenerateAccesslist(data, seen) ==
  /\ ~isStakingEVMTx
  /\ seen # "plain"
  /\ seen # "missing" \/ data.newCAAddr # NoAddress

isCoinTransfer(data, seen) ==
  seen = "plain" \/ (seen = "missing" /\ data.newCAAddr = NoAddress)

\* After the answers: coin transfers only, then the balance (only where a
\* list is generated), then on to the list, the stake order, or the end.
AfterFetches(data, seen) ==
  IF coinTransferOnly /\ ~isStakingEVMTx /\ ~isCoinTransfer(data, seen) THEN Refuse
  ELSE IF shouldGenerateAccesslist(data, seen)
    THEN IF data.balance THEN Put(data, "accessList") ELSE Refuse
  ELSE Put(data, IF isStakingEVMTx THEN "stakeOrder" ELSE "validate")

\* The sender is asked for three times.  The address of a new contract is
\* predicted with the nonce of the account.
FetchSender ==
  /\ pc = "fetchSender"
  /\ LET data == [appData EXCEPT !.balance = funds # 0, !.sender = staked,
                    !.newCAAddr = IF Deploys /\ ~isEIP2930 THEN New(nonce) ELSE NoAddress]
     IN  IF Deploys THEN AfterFetches(data, "missing") ELSE Put(data, "fetchTarget")
  /\ UNCHANGED <<tx, retry, world, history>>

FetchSenderFails ==
  /\ pc = "fetchSender"
  /\ retry' = retry + 1
  /\ pc' = IF retry' = 3 THEN "refused" ELSE pc
  /\ UNCHANGED <<tx, world, appData, result, history>>

FetchTarget ==
  /\ pc = "fetchTarget"
  /\ \E seen \in {target, "missing"} :
       /\ missed' = (missed \/ seen # target)
       /\ AfterFetches(appData, seen)
  /\ UNCHANGED <<tx, retry, world, moved, moves, foreseen, strayed>>

\* Nothing catches this exception in txPreCrackData.
FetchTargetThrows ==
  /\ pc = "fetchTarget" /\ Refuse
  /\ UNCHANGED <<tx, retry, world, history>>

\* What the code of the transaction sees of the block, the gas price and the
\* balance of its caller.  The price is that of the network account; the fee
\* has been taken from the balance before the code runs.
Seen(block, price, balance) ==
  LET context == [block |-> block, price |-> price, balance |-> <<balance, price>>] IN
  [x \in tx.reads |-> context[x]]

\* The run of a transaction of the given nonce.  A call writes the slot its
\* contract points to, a deployment a first slot of the new contract and its
\* code; which slot and which code depends on all that the code sees.
RunOf(n, seen, fails) ==
  LET at == IF Deploys THEN New(n) ELSE tx.to
      calls == ~Deploys /\ at = Target /\ target = "contract"
  IN  [sender |-> Sender, exceptionError |-> fails,
       accountReads |-> {Sender, at}, accountWrites |-> {Sender, at},
       slotReads |-> IF calls THEN {<<at, Pointer>>} ELSE {},
       slotWrites |-> IF Deploys THEN {<<at, <<Pointer, seen>>>>}
                      ELSE IF calls THEN {<<at, <<slot, seen>>>>} ELSE {},
       codeReads |-> IF calls THEN {<<at, CodeOf(at, NothingSeen)>>} ELSE {},
       codeWrites |-> IF Deploys THEN {<<at, CodeOf(at, seen)>>} ELSE {}]

\* Slip: the nonce of the account is left as it is.
accesslistNonceMissing(foundCaller) == IF foundCaller THEN nonce ELSE 0

\* The caller is given the nonce of the transaction; one that is not found
\* is replaced by a fake account.
accesslistNonce(foundCaller) == IF foundCaller THEN tx.nonce ELSE 0
accesslistBalance(foundCaller) == IF foundCaller THEN funds ELSE MaxFunds + 1

\* The prediction runs in the latest block of the node that makes it, with the
\* network account that node has cached.
generateAccessList ==
  /\ pc = "accessList"
  /\ \E foundCaller, fails \in BOOLEAN, latestBlock \in Blocks, price \in Prices :
       LET seen == Seen(latestBlock, price, accesslistBalance(foundCaller))
           run == RunOf(accesslistNonce(foundCaller), seen, fails)
       IN
       /\ missed' = (missed \/ ~foundCaller)
       /\ foreseen' = seen
       /\ IF FailedList(run) \/ accessList(run) = {} THEN Refuse
          ELSE Put([appData EXCEPT !.accessList = accessList(run),
                      !.codeHashes = codeHashes(run),
                      !.patterns = shardusMemoryPatterns(run)], "validate")
  /\ UNCHANGED <<tx, retry, world, moved, moves, strayed>>

\* No consensus node of a remote contract, or an empty answer of it.
RemoteListFails ==
  /\ pc = "accessList" /\ ~Deploys /\ Refuse
  /\ UNCHANGED <<tx, retry, world, history>>

\* The order in the data of a stake transaction.  Whatever is thrown is
\* swallowed: by the fetch or the parser nothing has been stored, by the
\* missing network account the order has.
CrackOrder ==
  /\ pc = "stakeOrder"
  /\ \/ Put(appData, "validate")
     \/ /\ tx.order # NoOrder
        /\ Put([appData EXCEPT !.internalTx = tx.order], "validate")
     \/ /\ tx.order # NoOrder
        /\ Put([appData EXCEPT !.internalTx = tx.order, !.networkAccount = TRUE],
               "nominee")
  /\ UNCHANGED <<tx, retry, world, history>>

FetchNominee ==
  /\ pc = "nominee"
  /\ \E answer \in {NoAccount} \cup (IF node = NoNode THEN {} ELSE {Found(node)}) :
       Put([appData EXCEPT !.nomineeAccount = answer,
                           !.nominatorAccount = Found(appData.sender)], "validate")
  /\ UNCHANGED <<tx, retry, world, history>>

FetchNomineeThrows ==
  /\ pc = "nominee" /\ Put(appData, "validate")
  /\ UNCHANGED <<tx, retry, world, history>>

-----------------------------------------------------------------------------
(* validateTxnFields.                                                      *)

\* The only place where a check that failed before is taken back: an order
\* below the minimum of a sender who has staked already.
ToppedUp ==
  appData.nominatorAccount.found /\ appData.nominatorAccount.data # NoNode
    /\ tx.order.stake # "zero"

StakeFields(passed) ==
  LET order == appData.internalTx IN
  /\ appData.networkAccount
  /\ order.nominator = Sender /\ order.nomineeValid /\ order.matchesValue
  /\ IF order.stake = "enough" THEN passed ELSE ToppedUp

StakeOfOthers ==
  /\ appData.nomineeAccount.found =>
       appData.nomineeAccount.data.nominator \in {NoAddress, appData.internalTx.nominator}
  /\ appData.nominatorAccount.found =>
       appData.nominatorAccount.data \in {NoNode, Node}

UnstakeFields ==
  LET order == appData.internalTx
      account == appData.nomineeAccount.data
  IN  /\ order.nominator = Sender
      /\ appData.nominatorAccount.found /\ appData.nomineeAccount.found
      /\ account.nominator = order.nominator /\ account.stakeLock
      /\ account.presence = "out"
      /\ account.rewards = "started" => order.force

\* Chain id and balance.
EvmFields == tx.chainId /\ appData.balance

\* In coin-transfer-only mode a transaction is now judged by its data.
Transferring ==
  coinTransferOnly => isStakingEVMTx \/ (~Deploys /\ tx.dataEmpty)

EvmValid ==
  /\ tx.signed /\ Transferring
  /\ CASE appData.internalTx.internalTXType = "stake" ->
            StakeFields(EvmFields) /\ StakeOfOthers
       [] appData.internalTx.internalTXType = "unstake" -> EvmFields /\ UnstakeFields
       [] OTHER -> EvmFields

\* The fields of an internal transaction have validators of their own.
InternalValid == tx.valid

ValidateTxnFields ==
  /\ pc = "validate"
  /\ IF IF IsEvm THEN EvmValid ELSE InternalValid
       THEN Put(appData, "crack") ELSE Refuse
  /\ UNCHANGED <<tx, retry, world, history>>

-----------------------------------------------------------------------------
(* crack: the keys of the transaction.                                     *)

InternalKeys ==
  CASE tx.type \in {"SetCertTime", "ClaimReward", "Penalty"} ->
         {OwnKey(Node), AccountKey(Sender), OwnKey(NetworkAccount)}
    [] tx.type = "InitRewardTimes" -> {OwnKey(Node), OwnKey(NetworkAccount)}
    [] tx.type \in {"ChangeConfig", "ChangeNetworkParam"} ->
         {OwnKey(Dev), OwnKey(NetworkAccount)}
    [] OTHER -> {OwnKey(NetworkAccount)}

Ordered == appData.internalTx.internalTXType \in {"stake", "unstake"}

\* Slip: the nominee of an order is taken for an address of the EVM.
OrderKeysConverted == IF Ordered THEN {AccountKey(Node), OwnKey(NetworkAccount)} ELSE {}

OrderKeys == IF Ordered THEN {OwnKey(Node), OwnKey(NetworkAccount)} ELSE {}

\* The receiver; the contract that a deployment was predicted to make.
TargetKeys ==
  IF ~Deploys /\ tx.to # StakeTarget THEN {AccountKey(tx.to)}
  ELSE IF appData.newCAAddr # NoAddress THEN {AccountKey(appData.newCAAddr)} ELSE {}

\* The sender's own list comes before the one that was generated.
ListKeys ==
  LET list == IF isEIP2930 THEN tx.list ELSE appData.accessList IN
  UNION {{AccountKey(item.address)}
           \cup {StorageKey(item.address, s) : s \in item.storageKeys} : item \in list}

codeHashKeys == {CodeKey(c[1], c[2]) : c \in appData.codeHashes}

Crack ==
  /\ pc = "crack" /\ pc' = "relevant"
  /\ keys' = IF IsEvm THEN {AccountKey(Sender)} \cup OrderKeys \cup TargetKeys
                             \cup ListKeys \cup codeHashKeys
             ELSE InternalKeys
  /\ UNCHANGED <<tx, retry, world, appData, created, written, involved, history>>

-----------------------------------------------------------------------------
(* getRelevantData: the accounts of the keys, created where there is none. *)

Exists(key) ==
  \/ key = AccountKey(Sender)
  \/ key = OwnKey(NetworkAccount) /\ network
  \/ key = OwnKey(Node) /\ node # NoNode
  \/ target # "missing" /\ key = AccountKey(Target)
  \/ target = "contract" /\ key \in {CodeKey(Target, CodeOf(Target, NothingSeen)),
                                     StorageKey(Target, Pointer)}

\* Missing accounts of an internal transaction are errors, but for the
\* account of a developer; only the start of a network makes the network
\* account, which must not exist.
InternalCreated(missing) ==
  IF tx.type = "InitNetwork" THEN missing = {OwnKey(NetworkAccount)}
  ELSE \/ missing = {}
       \/ tx.type \in {"ChangeConfig", "ChangeNetworkParam"} /\ missing = {OwnKey(Dev)}

\* A node account is made for an order to stake, never for one to unstake.
\* (The accounts of storage, code and EVM addresses are made empty.)
EvmCreated(missing) ==
  OwnKey(Node) \in missing => appData.internalTx.internalTXType = "stake"

GetRelevantData ==
  /\ pc = "relevant"
  /\ LET missing == {k \in keys : ~Exists(k)} IN
       IF IF IsEvm THEN EvmCreated(missing) ELSE InternalCreated(missing)
       THEN created' = missing /\ pc' = "apply" ELSE created' = {} /\ pc' = "refused"
  /\ UNCHANGED <<tx, retry, world, appData, keys, written, involved, history>>

-----------------------------------------------------------------------------
(* apply().                                                                *)

\* Everything but an internal transaction stops while the network pauses.
validateTransaction == IF IsEvm THEN ~txPause ELSE tx.valid

InternalWrites ==
  CASE tx.type \in {"ClaimReward", "Penalty"} -> {OwnKey(Node), AccountKey(Sender)}
    [] tx.type = "SetCertTime" -> {AccountKey(Sender)}
    [] tx.type = "InitRewardTimes" -> {OwnKey(Node)}
    [] tx.type \in {"ChangeConfig", "ChangeNetworkParam"} -> {}
    [] OTHER -> {OwnKey(NetworkAccount)}

\* The accounts and slots that a run asks shardus.tryInvolveAccount for; its
\* codes are never asked for.
Asked(run) ==
  {AccountKey(a) : a \in run.accountReads \cup run.accountWrites}
    \cup {StorageKey(s[1], s[2]) : s \in run.slotReads \cup run.slotWrites}

\* runTx insists on the nonce and on the funds.  It runs in the block of the
\* transaction's timestamp, with a network account that is fetched again.
\* Accounts that are no keys of the transaction are involved; if shardus
\* refuses one the transaction fails.
RunEvm ==
  /\ nonce = tx.nonce /\ funds # 0
  /\ \E blockForTx \in Blocks, price \in Prices :
       LET seen == Seen(blockForTx, price, funds)
           run == RunOf(tx.nonce, seen, FALSE)
       IN  /\ written' = writeSet(run)
           /\ involved' = Asked(run) \ keys
           /\ strayed' = (appData.accessList # NoList /\ seen # foreseen)

\* Orders and internal transactions write accounts they have been given.
WriteGiven ==
  /\ written' = IF IsEvm THEN {AccountKey(Sender), OwnKey(Node)} ELSE InternalWrites
  /\ UNCHANGED <<involved, strayed>>

Apply ==
  /\ pc = "apply" /\ pc' = "applied"
  /\ validateTransaction
  /\ IF IsEvm /\ ~Ordered THEN RunEvm ELSE WriteGiven
  /\ UNCHANGED <<tx, retry, world, appData, keys, created, missed, moved, moves, foreseen>>

\* The checks of verifyStakeTx, of runTx or of an internal transaction; an
\* account that cannot be involved.
ApplyFails ==
  /\ pc = "apply" /\ Refuse
  /\ UNCHANGED <<tx, retry, world, history>>

-----------------------------------------------------------------------------
(* What other transactions do meanwhile.                                   *)

Waiting == pc \notin {"applied", "refused"}

Move == Waiting /\ moves < MaxMoves /\ moves' = moves + 1
        /\ UNCHANGED <<tx, pc, retry, appData, result, missed, foreseen, strayed>>

\* It sends a transaction, or is paid by another one.
SenderMoves ==
  /\ Move
  /\ nonce' \in {nonce, nonce + 1} /\ nonce' <= MaxNonce
  /\ funds' \in 0 .. MaxFunds /\ (nonce' = nonce => funds' > funds)
  /\ UNCHANGED <<target, slot, node, staked, network, coinTransferOnly, txPause,
                 moved>>

\* Whatever its code reads of itself: the slot stands for storage and balance.
TargetMoves ==
  /\ Move
  /\ target' \in {"plain", "contract"} /\ (target # "missing" => target' = target)
  /\ slot' \in Slots
  /\ <<target', slot'>> # <<target, slot>>
  /\ moved' = TRUE
  /\ UNCHANGED <<nonce, funds, node, staked, network, coinTransferOnly, txPause>>

NodeMoves ==
  /\ Move
  /\ node' \in {n \in NodeAccounts : n.stakeLock = (n.nominator # NoAddress)} \ {node}
  /\ staked' = IF node'.nominator = Sender THEN Node
               ELSE IF staked = Node THEN NoNode ELSE staked
  /\ UNCHANGED <<nonce, funds, target, slot, network, coinTransferOnly, txPause,
                 moved>>

ConfigMoves ==
  /\ Move
  /\ \/ coinTransferOnly' = ~coinTransferOnly /\ UNCHANGED txPause
     \/ txPause' = ~txPause /\ UNCHANGED coinTransferOnly
  /\ UNCHANGED <<nonce, funds, target, slot, node, staked, network, moved>>

Next ==
  \/ FetchSender \/ FetchSenderFails \/ FetchTarget \/ FetchTargetThrows
  \/ generateAccessList \/ RemoteListFails
  \/ CrackOrder \/ FetchNominee \/ FetchNomineeThrows
  \/ ValidateTxnFields \/ Crack \/ GetRelevantData \/ Apply \/ ApplyFails
  \/ SenderMoves \/ TargetMoves \/ NodeMoves \/ ConfigMoves

Spec == Init /\ [][Next]_vars

-----------------------------------------------------------------------------
(* Properties.                                                             *)

\* What is not foreseen: a list of the sender's own; lost answers and changes
\* of the target, by where they go; code that reads the block, the gas price
\* or the balance of its caller and finds another value than the prediction;
\* a stake transaction whose order was not read.
Spoiled ==
  \/ IsEvm /\ isEIP2930
  \/ IsEvm /\ tx.to = Target /\ (missed \/ moved)
  \/ IsEvm /\ Deploys /\ missed
  \/ strayed
  \/ isStakingEVMTx /\ ~Ordered

\* The keys that crack locks cover all that apply() reads and writes, so that
\* no account has to be involved while it runs, and nothing it writes was
\* announced as read only: a deployment even if the nonce of its sender was
\* behind when the address was predicted; code that reads block, price or
\* balance as long as it finds what the prediction found; a call unless its
\* contract changed or an answer was lost; an order to stake whatever was
\* lost, as long as the order itself was read.
KeysCoverWrites ==
  pc = "applied" /\ ~Spoiled =>
    /\ involved = {} /\ written \subseteq keys
    /\ written \cap appData.patterns.ro = {}
=============================================================================
