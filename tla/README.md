# Shardeum in TLA+

Shardeum is an EVM ledger on top of a sharded consensus layer (`@shardus/core`).
The repository holds the application side of it: the callbacks the consensus layer
calls, the EVM and its state manager, and the staking system that decides who may
run a node and what the node earns or loses. This directory models the parts of
that code whose correctness depends on the order of things, checks the models with
TLC on small instances, and proves the main results with TLAPS.

Paths below are those of the repository, e.g. `src/index.ts` is the file
`src/src/index.ts` of PROJECT.json.

## 1. Inventory

| component | code | state | operations | hard behaviour |
|---|---|---|---|---|
| Transaction state | `src/state/transactionState.ts`, `shardeumState.ts` | first reads, committed writes, a stack of account write layers, flat maps of storage and code writes | get/put of accounts, slots and code, checkpoint, commit, revert, report of writes | nested checkpoints over three kinds of state with different rules; refusals lost in calls that are not awaited |
| `apply()` of an EVM transaction | `src/index.ts` 3844-4840, `src/vm_v7/runTx.ts`, `src/evm_v2/evm.ts`, `interpreter.ts` | `shardeumStateTXMap`, the run of one transaction | insert first reads, buy gas, nonce, message calls, creations, errors, report, receipts | an error that unwinds every call; the same transaction applied again over a used state object |
| Staking ledger | `src/index.ts` 4020-4466, `src/tx/` | `operatorAccountInfo` of operators, `NodeAccount2` of nodes | stake, unstake, set certificate time, start and claim a reward, penalty | six transactions on two accounts that must agree |
| Stake certificates | `src/handlers/queryCertificate.ts`, `signAppData` and `validateJoinRequest` in `src/index.ts` | requests and signed certificates held outside the ledger | query, sign, join | what was read is signed and used later |
| Rewards and penalties from network events | `eventNotify` and `registerApplyVerifier` in `src/index.ts`, `injectPenaltyTX` etc. in `src/tx/` | service queue, transactions in flight | put, inject, apply late, again or never, drop | transactions that name an operator and a time of their making |
| Shared EVM instance | `src/index.ts` (`EVM.stateManager`) | one VM for applications, gas estimates and access lists | bind, run | a binding that is taken after an await |
| Message calls | `src/evm_v2/evm.ts`, `interpreter.ts` | interpreters, each with a copy of its contract's account | call, static, delegate and code calls, create, self-destruct, return, fail | a copy that must follow the state through re-entry and reverts |
| Journal and transient storage | `src/evm_v2/journal.ts`, `transientStorage.ts` | warm addresses, touched accounts, a change list with indices | put, checkpoint, commit, revert | checkpoints again, in another representation |
| Network parameters and the change queue | `src/index.ts` 2610-2793, 7468-7935 | `listOfChanges` and `current` of the network account, the configuration of the process | change_config, change_network_param and the messages they send, apply what is due, prune, rebuild the configuration at the start | nodes prune and apply at their own moments, restart in between, and must agree on the account |
| Version migrations | `src/versioning/` | which were applied | `onActiveVersionChange` | a migration that throws; a node that joins later |
| Service points limiter | `src/index.ts` 240-330 | a list of debits | `trySpendServicePoints` | a window in time |
| Blocks for RPC | `src/index.ts`, `src/block/` | blocks by number and hash | create per cycle, prune | - |
| Remote account lookup | `tryGetRemoteAccountCB` | warm-up cache | get, retry | an error taken for an absent account |
| RI accounts cache | `src/storage/riAccountsCache.ts`, `storage.ts` | a table of contract code of other shards | read, insert, count, delete the oldest | calls that nobody awaits run at once; capacity |
| Account storage and data sync | `src/storage/`, `getAccountDataByRange`, `setAccountData` in `src/index.ts` | the table of accounts by id and timestamp | write, clear, pages of a range | a copy by pages of a table that changes, between nodes that crash |
| Readiness to join | `isReadyToJoin`, `validateJoinRequest` in `src/index.ts`, `injectSetCertTimeTx`, `queryCertificate`, `putAdminCertificateHandler` | `stakeCert`, `adminCert`, `lastCertTimeTxTimestamp`, `lastCertTimeTxCycle`, the cached network account | fetch, inject, query, keep, decide, join | five awaits per call that may fail or last into the next cycle; what was kept is used later |
| Admission of a transaction | `txPreCrackData`, `crack`, `getRelevantData`, `generateAccessList` in `src/index.ts`, `src/setup/`, `src/shardeum/evmAddress.ts` | `appData` of the transaction | fetch accounts, predict, validate, make keys, supply accounts | what is locked is decided by a run on a world, in a block and at a price that have changed when the transaction is applied |
| Opcodes and precompiles | `src/evm_v2/opcodes/`, `interpreter.ts`, `memory.ts`, `stack.ts`, `precompiles/` | gas, memory, stack, program counter, refund of a frame | the instructions | prices and limits that hang together over many steps; arithmetic wrapped by hand |
| Serialization | `src/utils/serialization/`, `src/types/` | none | encode, decode | - |
| Genesis, debug copies | `src/setup/sync.ts`, `src/debug/` | - | - | run once, or off line |

How they interact: the consensus layer calls `apply(tx, wrappedStates)`. For an EVM
transaction `apply` finds or makes the state object of the transaction id, inserts
the accounts it was given, runs the EVM over it and reports the written accounts;
a receipt callback later deletes the state object. For a staking transaction `apply`
changes the operator account and the node account directly. A network event
(`eventNotify`) makes the nodes around the subject put network transactions into a
service queue or inject penalties; those come back through `apply` with a timestamp
of their own. A node reads the operator account to get a stake certificate, other
nodes sign it, and the consensus layer asks `validateJoinRequest` whether it is good.
Before a transaction reaches `apply`, the consensus layer calls `txPreCrackData` on the node
that received it (which asks other nodes for accounts and may run the transaction on the
shared EVM), validates it, and calls `crack` for the keys to lock and `getRelevantData` for
the accounts of those keys. A change of the network parameters is a transaction that sends a
message to all nodes; the message appends to the network account, and the consensus layer
applies the list cycle by cycle. A node that starts copies the accounts of its range from
another node and builds its configuration from the network account.

### What makes each part correct

- Transaction state and `apply`: what `getAccount` returns follows checkpoint, commit
  and revert exactly; no write of a reverted frame is reported; a transaction that
  threw reports nothing; one that succeeded reports its sender.
- Shared EVM instance: a run charges its caller gas, value and nonce in the state
  object it was started for.
- Message calls: the running interpreter's copy of its account is the account; coins are
  neither made nor lost; nothing called under a static call writes.
- Staking ledger: the bond is mutual, the node locks what its operator staked, no
  coins are made except rewards for time that was served, one event is punished once.
- Certificates: a certificate that is good is backed by the bond it was signed for.
- Readiness: a node that says it is ready is let in and has its stake; it becomes
  ready again once requests are answered; an old version stops.
- Admission: as long as the run finds what its prediction found, the keys that are locked cover
  every account it reads or writes, and none that it writes was announced as read only.
- A frame of the EVM: what is called and what is touched is paid for, a static frame writes
  nothing, every frame ends; jumps go only to instructions that are destinations; an opcode
  pushes the word it means; the price of storage writes is that of their net effect.
- Network parameters: nodes that have seen the same messages have the same list, and the same
  configuration as one that never stopped, also after a restart and after pruning.
- Data sync: a copy misses no account and ends; the cache stays within its size.

## 2. Modules

| module | models | extends |
|---|---|---|
| `TransactionState` | the state object: variables are the maps of the class, operators its methods | - |
| `WorldState` | abstract: a value per key, nested checkpoints | - |
| `ApplyTx` | `apply` and `runTx` around the state object | `TransactionState` |
| `VmBinding` | applications and estimates over the one VM | - |
| `MessageCalls` | the call machine of the EVM: interpreters, payments, reverts | - |
| `Staking` | the ledger part of six transactions | - |
| `StakeCertificate` | certificates against an arbitrary network | `Staking` |
| `StakingNetwork` | events, service queue, injection, late application | `Staking` |
| `JoinReadiness` | a node that wants to join, over many cycles | - |
| `EvmFrame` | gas, memory and calls of one frame over any opcodes | `Precompiles` |
| `Precompiles` | what precompiled contracts use and return | - |
| `Interpreter` | a given code: jumps, stack, arithmetic, storage writes | `WordOps`, `StorageGas` |
| `WordOps` | arithmetic opcodes as computed, and as meant | - |
| `StorageGas` | the price of one storage write, and the net price of many | - |
| `NetworkParameters` | the list of changes of the network account, migrations, restarts | - |
| `RIAccountsCache` | the code cache and the calls on it | - |
| `DataSync` | the copy of accounts from one node to another | `RIAccountsCache` |
| `AccessLists` | keys of accounts, the access list and memory patterns of a run | - |
| `Admission` | one transaction from the client to `apply()` | `AccessLists` |
| `MC*` | instances for TLC | the module named |
| `ApplyTxProofs` | lemmas on layers and checkpoints, invariants of `ApplyTx`, it implements `WorldState` | `ApplyTx` |
| `StakingProofs` | invariants of `StakingNetwork` and of `StakeCertificate` | both, `FoldLemmas` |
| `MessageCallsProofs` | invariants of `MessageCalls` | `MessageCalls`, `FoldLemmas` |
| `EvmFrameProofs` | invariants of `EvmFrame`, and what every step burns | `EvmFrame` |
| `EvmProofs` | invariants of `VmBinding`; the arithmetic of `WordOps`; invariants of `Interpreter` | these, `FoldLemmas` |
| `NodeProofs` | invariants of `DataSync`, `NetworkParameters` and `JoinReadiness` | the three, `FoldLemmas` |
| `AdmissionProofs` | locked keys cover writes | `Admission` |
| `FoldLemmas` | lemmas on sums over finite sets, folds over sequences, recursive functions | - |

Components whose proofs share a module are independent of each other; their specifications have
names of their own (`CertificateSpec`, `ParametersSpec`, `DataSpec`, `CodeSpec`) for that reason.

Definitions whose comment begins with "Slip:" are not part of the model. Each is a
mistake the code could have made in the definition that follows it; with the slip in its
place TLC finds the property violated that PROJECT.json names beside it.

### TransactionState and ApplyTx

A JavaScript `Map` is a total function with `NoEntry` for absent keys. An account
keeps two components: `data` (balance and nonce, which nothing here tells apart) and
`code` (its code hash). Code bytes are identified with their hash. One operator stands
for each method; `Checkpoint`, `Commit` and `Revert` have the code's asymmetry:
account writes are layered, storage and code writes are two flat maps that a revert
clears whole. `firstAccountReads` is written by `putAccount` when no checkpoint is
open, as in the code.

`ApplyTx` follows `pc`: `idle` (between applications), `load` (the loop over
`wrappedStates`), `start` to `commit` (`runTx`: checkpoint, gas, nonce, call,
settlement, commit), `applied` or `thrown`, `reported`. In `frame` the EVM runs: any
read or write, another call (`RunCall`), its success (`Return`) or its failure
(`Fail`). `Throw` is the error that is not the EVM's own: it leaves every open call as it
is and `runTx` reverts once, so layers of the open calls stay in the state object.
`BeginApply` replaces a used state object only if `cleanStaleShardeumStateMap` is set.
The flag, and `expiredTransactionStateFix`, are constants: migrations set them (versions
1.11.2 and 1.10.2, the package is 1.14.2), so the runs set both to TRUE. The history
variables `live` and `savedLive` record the writes of frames that were not reverted, and
`refused` that a write was refused; they guard nothing.

### VmBinding

The repository has one VM whose `stateManager` every application, gas estimate and access
list sets before it awaits; `_runTx` takes it two awaits later. The state objects are kept
apart (`objects`), the VM is one variable, and each run goes through its awaits: bind,
(an estimate also reads the network account), checkpoint, take the VM's state and read
the caller, buy gas, call, read the caller again, settle. `disturbed` is a history variable:
another run has bound the VM before this one took it. The writes go through the journal of
the run's own EVM, which is why the wrong object can be read but not written.
`eth_call` runs on an EVM of its own and is left out.

### MessageCalls

`frames` is the stack of interpreters, the outermost first. Each has the address it runs
for, its copy `contract` of that account, and the static flag. `saved` has the accounts at the
checkpoint of each message. The code of a contract is arbitrary: in any state the top
interpreter may make any call, creation or self-destruct, return or fail. A sender is
asked for its funds on the copy (`MayPay`) by calls and on the account by messages
(`ExecuteCall`), where an insufficient balance is an error that is kept while the
receiver is credited, and reverted after. `Refreshed` is the reload of the copy after a
call that succeeded. `destroyed` counts the coins that were paid to the virtual zero
address or by a self-destruct to itself, and is taken back with a revert.

`deleteAccount` of the state manager does nothing, so a self-destructed contract keeps its
nonce and code, as modelled. Gas is left out: running out of it is a `Fail` at any point.

### Staking, StakeCertificate, StakingNetwork

`operators[o]` and `nodes[n]` are the two accounts, with the field names of the code.
Every transaction is one operator with its checks first: a check that fails means the
operator is not enabled (the account does not change; fees are left out). `clock` counts
cycles, and stands for the cycle, its start time and the time of transactions made in it.

`StakeCertificate` is the certificate protocol in the most general surroundings: any
internal transaction with any time may be applied, with any operator. What holds there
holds in every network.

`StakingNetwork` makes the internal transactions the way the code does. `queue` is the
service queue of a node (init and reward entries, in order; the head is offered until
the apply verifier says it is applied, then dropped with a new cycle), `inFlight` is
the set of injected transactions (never removed by application, so a transaction may
be applied again), and each has a timestamp of the present or the next cycle before which
it is not applied. A penalty names the operator that the node account had when
it was made. `activeCycles`, `paidUntil` and `inOrder` are history variables: the cycles in which
a node was active, the end of the last period it was paid for, and whether every claim and
penalty was at least as late as the node account it was applied to.

### JoinReadiness

One node and its operator. `pc` is the await the running call of `isReadyToJoin` is in:
`fetch` (network account), `first`, `renew`, `soon`, `newSoon` (the four injections) and
`query`. A cycle may begin while a call waits; the call then goes on with the cycle it was
given (`ticked`), which is what the code's `latestCycle` is. Between two awaits a call is one
step. `certLeft`, `stakeCert` and `adminCert.left` are cycles left, `setCycle` and
`setTime` ages, so that no clock has to be bounded; ages are capped where no condition tells
them apart. `result` says why the node is ready: without staking (`open`), by an admin
certificate (`mustUseAdminCert` of the code) or by its stake certificate.
`validateJoinRequest` is the operator another node evaluates on the join data. `network` folds
the number of nodes and the mode into the three cases the code distinguishes; `validateJoinRequest`
counts active nodes only and is never stricter for it.

### EvmFrame and Precompiles

A step runs the gas handler of its opcode (`subMemUsage` charges memory, in the order of the
code), takes the gas (`Paid`, or `OutOfGas` with the memory already counted as in the code) and
touches the memory. Neither code nor values are kept: every step runs any opcode of the
active rules (Istanbul and PUSH0) with any operands, and may find the stack too short, too full
or a bad jump (`Fault`). A call leaves the frame waiting (`calling`); the callee, a contract or a
precompile, uses any gas up to what the message got and returns any length. `touched` and
`wrote` are history variables. Prices, word size, container size and the sixty-fourth are
constants with the relations the properties need as assumptions.

### Interpreter, WordOps, StorageGas

`Interpreter` runs a given code. Bytes are small numbers, and `decode` says which opcode a byte
is, so one byte can be an opcode, a part of a pushed number, or the place of a jump. The
analysis of jump destinations runs at the first jump, from the start of the code, as in the
code. `WordOps` has each arithmetic opcode twice: as its handler computes it, with unbounded
integers and explicit wraps and with the special cases the handlers have, and `Means`, what
the opcode means on a word of `ByteBits * WordBytes` bits. `StorageGas` is `updateSstoreGasEIP2200`
and `Net`, the price of what a row of writes did to a slot in the end.

### NetworkParameters

`messages` are the global messages in their order; each node has seen a prefix of them
(`seen`), has its own list, parameters (`current`), configuration and set of migrations. A
transaction sends a message for a later cycle (three cycles for the configuration, one for
parameters, or a cycle it names). `ProcessCycle` is what core does with each cycle: apply what
is due, then `pruneNetworkChangeQueue`, which goes from the newest change to the oldest and counts
paths. `Start` is the process start: `updateConfigFromNetworkAccount` over the list of another
node, or nothing if no archiver answers; `SyncAccount` is the copy of the network account, maybe of
another node than the list came from. Histories are `built`, which messages the configuration was
built from, and `settled`, that nothing has come since the list was pruned. A key
of a change stands for a path in the configuration, and 0 for a value that is false in a condition.

### RIAccountsCache and DataSync

Each call of `setCachedRIAccount` is a process that waits for one query after the other
(`at`); calls run at once since no caller awaits them. `DataSync` has the two tables, the range
and the page that is asked for. The first page of a copy is `queryAccountsEntryByRanges2`,
every later one `queryAccountsEntryByRanges3`, which begins with the last account of the page
before. The loop that asks for pages is in `@shardus/core`, and external: it is modelled by
the parameters the two queries expect. The node that is asked goes on applying transactions,
which gives accounts new timestamps and so new places in the order of the pages. A page is the set
of rows that come first in the order of timestamp and id (`Limited`); they are stored one by one. A crash keeps the
tables and loses the calls.

### AccessLists and Admission

One transaction, from the fetch of its sender to `apply()`, in any of the kinds the code
distinguishes: a transfer, a call, a deployment, with or without a list of its own (EIP-2930), an
order to stake or unstake, and the internal transactions. `pc` names the await it is in. Every answer
may be lost (`missed`) or be an exception, and between any two steps other transactions may
change the sender, the target, the node account or the configuration (`moved` is set when the
target changed). `RunOf` is the run of the transaction: a call writes the slot its contract
points to, so a list that is stale misses a slot. Each form of transaction has a set `reads` of what its
code looks at besides its own storage: the block, the gas price, the balance of its caller. The values it
sees (`Seen`) are a part of the slot it writes and of the code it deploys, as in a mapping that is keyed by the block number or an immutable
that holds the time: the worst case, in which every difference shows. The prediction
(`generateAccessList`) sees the latest block and the cached network account of the node that makes it and the caller as it is then, or a fake
one; `RunEvm` sees the block of the transaction's timestamp, a network account fetched again
and the caller as it is now. Block and price are chosen anew each time, so they may differ or not. `foreseen` is what the
prediction saw, `strayed` that a run with a list saw something else. The balance is seen after the fee, which
depends on the price, so it counts as changed if either has. Accounts and slots that the run touches and
that are no keys are asked for with `shardus.tryInvolveAccount` (`Asked`): either all are granted
(`involved`), or the transaction fails (`ApplyFails`). Codes are never asked for. `AccessLists` makes from the reads and writes
of a run the list, code hashes and memory patterns as `generateAccessList` does. A key is a tuple
of what it is made of, so two keys are one exactly when the code's hash inputs are the same.

## 3. Runs

| run | question | bounds |
|---|---|---|
| `applytx_accounts` | do accounts refine `WorldState`; is the sender charged | two accounts, two values, two open calls, two applications of the transaction |
| `applytx_contracts` | do reverted storage or code writes leak | two accounts, one slot with two words, one code, two open calls |
| `vm_binding` | does a run that was not disturbed charge its caller | two applications and an estimate |
| `message_calls` | copies, coins and static calls | an outer account, two contracts, one address to create at, amounts up to 2, two open calls, nonces up to 2 |
| `certificate` | bond and certificates | two operators, one node |
| `network` | is time paid once, are penalties applied once, is stake equal to lock | one operator and node, three cycles, three transactions in flight, two kinds of penalty |
| `join_readiness` | is a ready node let in and backed, does it become ready again, does an old version stop | certificates of 7 cycles, transactions in flight for at most one, a cache and admin certificates of one |
| `evm_frame` | are memory and calls paid for, does a static frame write, does every frame end | 10 gas, two offsets, two lengths, two gas arguments; prices from 0 to 6 in the order of the real ones; words of 2 bytes, containers of 4, a fourth instead of a sixty-fourth |
| `evm_code` | jumps, arithmetic, storage prices | all codes of 6 bytes over jumps and pushes and of 4 over stack opcodes; each arithmetic opcode on 13 x 13 (or 5 x 5 x 5) words of 8 bits; all rows of four writes to two slots |
| `parameters` | do lists agree, do nodes end with the same configuration | two nodes, two messages, six cycles, one change and one cycle kept, two migrations |
| `data_sync` | does every account arrive, does the copy end, is the cache bounded | four ids (one with letters), pages of two, timestamps to 3, a crash, two calls at once |
| `admission` | do locked keys cover writes | one transaction of any of 70 forms, two blocks, two prices, balances to 2, nonces to 1, one change by others at any point; the node account exists only for orders and internal transactions (`MCInit`) |

Why these bounds are enough to be of interest: two open calls on top of the layer of
`runTx` give three layers, so a commit into a layer that is not the last, a revert above a
commit and an unwinding over several layers all happen; two applications reach the reuse
of a state object. In `message_calls` two open calls allow a contract to be re-entered
through another one, and a static call to have a call under it. In `vm_binding` an estimate
and a second application can both come between the binding and the taking of the VM. Two
operators on one node is the way a bond goes wrong that TLC checks; one operator on two nodes
is covered by the theorem `BondsAreMutual`. The clock bound lets a certificate be queried,
signed, used, expire and be renewed, and a node be active twice. Three transactions in flight
let a start, a claim and a penalty be late together: it takes all three for the time of a node to
be set back under an old start (difference 12 below). With seven cycles the 30 % a certificate in use
has left are just enough for the two cycles a validator wants (with six, TLC finds
`ReadyIsAccepted` violated; the code's default is 30). With the small prices of `evm_frame` a frame
runs up to ten steps, can afford two extensions of its memory and a call that pays; the prices
keep the relations that matter (the stipend is less than the price of paying, the sentry of
SSTORE equals the stipend). Words of 8 bits have every special case of the handlers: the sign
bit, shifts beyond the width, the byte index out of range. One kept change and one kept cycle
make pruning happen in the first cycles, and six cycles let both messages take effect, in either
order of the cycles they name, and be pruned while a node is away. A node that builds from the
list of one node and goes on with that of another which is behind needs three nodes, and more
messages only lengthen the list; both are covered by `ConfigStaysEqual`. Three accounts of one timestamp are more than a
page. Deadlock checks are off where the
bounds, or a node that has stopped, end the system.

### Fairness

`EvmFrame` assumes weak fairness of its steps: `runInterpreter` is one loop, and an awaited call
comes back because it is a frame itself, with less gas. `FrameEnds` is the argument that makes this
well founded. `DataSync` assumes that the copying loop goes on and the database answers; crashes
and other transactions are not fair, and are bounded. `SyncEnds` allows the copy to fail, as the
code does when it refuses its arguments.

`JoinReadiness` assumes that cycles go on and every request
ends (weak fairness of `Tick` and of the node's steps: the cycle is driven by the network, and
requests have timeouts), that a transaction in flight is applied or dropped, and strong
fairness of `FetchSucceeds`, because each fetch asks three archivers drawn at random.
No request to another node is assumed to succeed. Instead `EventuallyReady` says in its
premise what it needs: from some time on requests that could be met are met, and no
transaction is lost. What it shows is recovery: whichever requests failed before, the marks
they left (`lastCertTimeTxTimestamp`, `lastCertTimeTxCycle`, a kept certificate) never lock
the node out.

### Where code and words differ

Met while modelling, and excepted by the properties that say so:

1. `revert` of the transaction state clears the storage and code writes of the whole transaction
   (`src/state/transactionState.ts:1032`), so the failure of an inner call also erases what its
   caller wrote before the call, while `src/state/shardeumState.ts:482` says "Reverts the current
   change-set to the instance since the last call to checkpoint." The steps are `WriteSlot`,
   `RunCall`, `Fail` of `ApplyTx`.
2. A refused storage or code write does not fail the transaction, because the async method is
   not awaited (`src/state/shardeumState.ts:264` and `422`); `src/index.ts:655` says it must
   (`RefuseWrite` of `ApplyTx`, which sets `refused` and nothing else).
3. An estimate that binds the VM between the binding and the run of `apply` makes the run read
   its caller from the estimate's state object: the nonce is not used and the coins are wrong.
   `UndisturbedRunCharges` excepts it.
4. A penalty is taken from the operator that was nominator when the transaction was made
   (`src/tx/penalty/transaction.ts:328`). With two operators, an unstake and a stake by the other one
   before its timestamp leave a negative stake and a lock that is less than the stake; run
   `network` has one operator for this reason.
5. A golden ticket that is over makes `validateJoinRequest` refuse a node that `isReadyToJoin`
   found ready by its stake certificate; the ticket stays in the join data. `ReadyIsAccepted`
   excepts it.
6. `patchObject` skips values that are false, and every change whatever its cycle, when a node starts,
   while a running node sets them all and in time. `StartsWithLatest` excepts false values, and
   `ConfigAgrees` changes for cycles out of the order of the list.
7. `queryAccountsEntryByRanges3` refuses ids with letters ("arguments should be numbers"), so a copy
   of addresses beyond one page is refused; and its time range leaves the end out, which that
   of `queryAccountsEntryByRanges2` includes (`src/storage/storage.ts:182` and `231`).
   `EveryAccountArrives` excepts accounts of the last time, `SyncEnds` allows the refusal.
8. A lost answer for the target (null, which is also an absent account) makes a call look like a
   transfer: no list is made, and the check that only coins are transferred passes. The same holds
   for the order of a stake transaction whose fetch throws: it goes on as a transfer to an address that no
   key was made for. `KeysCoverWrites` excepts both.
   With a list of the sender (EIP-2930) the generated one is ignored, and its storage keys are filed
   under a shardus address.
9. `validateTxnFields` sets `success` back to true for additional stakes below the minimum, also when
   chain id or balance had failed (`ToppedUp`).
10. `CALLCODE` compares its fee with the gas after the stipend was added, unlike `CALL`: a frame that lacks
    less than the stipend goes on with the gas of the stipend. All properties of `EvmFrame`
    hold all the same.
11. The table of the RI cache may stay above its size when the process ends between the insert and
    the removal (`lost` in `CacheIsBounded`).
12. `initRewardTimes.ts:146` refuses a start that is older than the node account, which is what keeps an
    old start from opening a paid period again; but a claim (`claimReward.ts:279`) and a penalty
    (`penalty/transaction.ts:348`) set the time of the account to their own without a check. One that is
    applied late sets it back, after which an old start and an old claim pay a period twice.
    `NothingUnearned` holds as long as this has not happened (`inOrder`).
13. A node that starts builds its configuration from the list of an archiver, with every change of
    it whatever its cycle (`src/index.ts:7918`), and syncs the network account later. If that is the account
    of a node that is behind, the configuration has values that are not in the list yet.
    `ConfigAgrees` leaves the configuration out until the list has caught up.
14. The keys are predicted in `blocks[latestBlock]`, with the cached network account and the sender's
    balance of that moment (`src/index.ts:3501`), and the transaction is applied in the block of its timestamp, with a
    network account fetched again and the sender as it is then (`src/index.ts:4531`). Code whose path depends on
    the block, the gas price or its caller's balance may then read and write accounts that were
    never locked. `tryInvolveAccount` may let it go on or make it fail (`src/index.ts:622`), except for the key of
    a new contract's code, which is never asked for: a contract with an immutable that holds the block's time, or a
    deployment with a list of its own, stores its code under a key that is neither locked nor
    involved. `KeysCoverWrites` excepts such runs (`strayed`, `isEIP2930`).
15. `getContractStorage` asks for a slot it reads as a write, and `putContractStorage` for one it
    writes as a read (`src/state/transactionState.ts:757` and `849`); the parameter is called
    `isRead`. What shardus makes of it is external.
16. `setAccount` (`src/storage/accountStorage.ts:159`) and `setCachedRIAccount`
    (`src/storage/riAccountsCache.ts:55`) catch every error of the database and return as if all were well, and
    `setAccount` does so for an account with timestamp 0 too. A page of data sync then goes on without the account, and a
    cache whose count or delete failed keeps a row too many although no call was lost. `DataSync` and `RIAccountsCache`
    assume that the database answers and that timestamps are not 0: `EveryAccountArrives`, `CacheIsBounded`,
    and the theorems about the two modules hold under this assumption only.
17. `patchObject` goes two levels deep and replaces a nested object whole (`src/index.ts:7866`), where
    `patchAndUpdate` of a running node goes on into it: a change that names a part of such an object
    loses the other parts at the next start. `NetworkParameters` flattens changes to paths and has no third level,
    so `StartsWithLatest` does not see it.

Assumed without a check in the code:

- A migration does not throw. One that does counts as applied (`src/versioning/index.ts:35`).
- A stake, an unstake and a `SetCertTime` carry the present time in `Staking`. The code writes the transaction's
  timestamp unchecked (`src/index.ts:4100`, `4239`, `4334`, `src/tx/setCertTime.ts:268`); shardus bounds how late it may be. A `SetCertTime` that is
  applied after a later one would set `certExp` back; `CertificateIsBacked` relies on a renewal that never
  shortens it.
- `MessageCalls` leaves out the early returns for a creator whose nonce is at its limit (EIP-2681), a value
  no account gets to, and for init code that is too long (EIP-3860), which no hard fork in force has.

Further: a left-early penalty sets `rewardEndTime` to a time later than that of the queued claim,
which then can not be applied while its verifier waits for it
(`src/tx/penalty/transaction.ts:316`), `putContractCode` sets no code hash though its comment says so, the check of
`penaltyTxsMap` refuses nothing, the account object of the virtual zero address is changed in
place (`transactionState.ts:359`), `isReadyToJoinLatestValue` keeps its old value when a call
throws, the penalty percent times 100 must be an integer in floating point
(`violation.ts:31`), internal penalties and claims are not awaited (`src/index.ts:2816`), the reader
of `BLAKE2F` views the whole buffer its data is a part of (`09-blake2f.ts:182`).

## 4. Proofs

All theorems hold for every value of the constants that satisfies the named assumptions of
the modules. Where a component is named below, its invariant is stated in the module of proofs that
section 2 gives for it.

Sums, lists and recursive definitions. `FoldLemmas` holds the inductions that the other modules rest
on. The library's induction theorems take a predicate as a parameter and cannot be used, so each
induction is a least counterexample: the set of naturals for which the claim fails has no
least element, hence is empty (`NoLeastCounterexample`, from the well-foundedness of `<`). This gives: how
sums over a finite set change with one element, and are ordered as their terms are; what `FoldLeft` and
`FoldRight` do with one more element; and that a function exists whose values
are given by its values of lower rank (`RecursionHasSolution`, for any ranks that are naturals), without which
nothing can be said about a recursive function of TLA+.

`StakeCertificate`. `BondIsMutual` and `CertificateIsBacked` are not inductive. The
invariant `CertificateInv` adds: every request and every signed certificate that is still good carries an
expiry no later than its operator's `certExp`, provided that the operator has not unstaked
since, and `certExp` is at most `clock + CertDuration`, so that a renewal never shortens it.
Unstaking is refused while `certExp > clock`, hence a good certificate has seen no
unstake, and a stake cannot move to another node. Results: `CertificateTypesHold`, `BondsAreMutual`,
`CertificatesAreBacked`.

`ApplyTx`. `TypeCorrect` and `CollectedWritesLive` need no flag: storage and code writes
are `NoEntry` or equal to `live`, at the top and (the induction) after any revert, because a revert
clears both maps. `ThrownReportsNothing` and `SuccessIsCharged` assume
`cleanStaleShardeumStateMap`. Their invariant `PhaseInv` says for each phase how many layers the
stack has (one more than open calls), that nothing has been flushed before the commit of
`runTx`, and that the layer of `runTx` holds the caller from `buyGas` on.

The refinement: `StateObjectImplementsWorldState` maps `world` to what `getAccount`
returns, `saved` to what it would return over the older layers only, `running` to the phases
of `runTx`. Every action is mapped to one abstract action or to a stutter. The lemmas at the
start of `ApplyTxProofs` say that a layer decides a read exactly if it is the newest with an entry (it exists by well-foundedness of the naturals), and that `Commit` keeps and
`DropTopLayer` restores the view. The theorem assumes `cleanStaleShardeumStateMap`: without it
a second application starts over layers that are still open.

`VmBinding`. `UndisturbedCharges` needs to know what a run that was not disturbed has
paid at each place: `RunsInv` says that until the VM is taken it is bound to the run's object, and
then, place by place, which balance and nonce the caller has in that object. It holds for any
number of runs and any prices. `RunTypesHold` (no negative balance) holds for disturbed runs
too.

`MessageCalls`. The invariant says that the top copy is the account, that every saved
point is a typed set of accounts, and for each interpreter below the top that its copy is the
account at the checkpoint of the call it waits for: that is what makes the copy right again
after a revert, when the code does not reload it. For static calls: the accounts at the
checkpoint of a static frame equal the present ones, and all frames above it are static too.
Results: `TypeCorrect`, `ContractsAreCurrent`, `StaticCallsWriteNothing`. For coins, `CoinInv` says of the
accounts, and of those at every checkpoint with what was destroyed until then, that the balances and the
destroyed coins are what the accounts began with: a failure brings one of those back. A payment is a
change of two terms of a sum, a self-destruct may pay itself. Result: `NoCoinIsLost`.

`JoinReadiness`. The invariant `JoinInv` adds to the types: no transaction in flight would
shorten the operator's time (`NoneShortens`); a kept certificate that is good ends no later than
that time, and its operator has its stake (`Backed`, because unstaking waits for the end of
the time); what a ready node relies on lasts until it is asked again (`Fresh`).
`MarginAssumption` gives the certificate seven cycles at least. Results: `JoinTypesHold`,
`ReadyNodesAreAccepted`, `ReadyNodesAreStaked`.

`StakingNetwork`. `PenaltiesRemembered` says that the account of a node remembers the latest event it was penalized
for and that no stake, unstake or reward forgets it; with it a penalty that several nodes put, or that is
applied again, counts once (`PenaltiesCountOnce`). `StakeIsLocked` assumes that there is one operator, as in
the run (difference 4 below the runs says why), and any number of nodes: `StakeIsInNominee` says
that the operator has its stake in the node it nominates and that any other node locks nothing,
so that a penalty applied after the operator has left its node is of nothing.

Rewards, with any number of operators. That nobody is paid for time that was not served rests on two
invariants. `PeriodInv` is about time. `QueueInv`: the entries of the service queue of a node are its active
periods in order, starts and ends by turns. `NodeInv`, for the account of a node: what it may be paid for next
begins after what it was paid for, and what lies between the start it has and the end of the period at the head of
its queue are cycles in which it was active. `TxInv`, for each transaction in flight: a start whose entry has left the
queue is too old to be applied, by the time of the account, and a claim ends where the node was active
since the start the account has. The last two hold only as long as no claim or penalty sets the time of an
account back (`inOrder`). `MoneyInv` is about coins: what operators own and nodes hold for them is at most what
they began with and the rate times the cycles up to `paidUntil`; no lock and no reward is negative. A claim pays
for cycles between `paidUntil` and its end, in all of which the node was active, so the sum over nodes of the
cycles paid stays within the sum of the cycles of activity. Result: `RewardsAreEarned`.

`DataSync` and `RIAccountsCache`. `CacheInv`: the table is finite and within its bound, counting the calls that have
inserted and not removed yet. That it is inductive is a count: an insert adds at most one row and one such call, a count lets the call go only if the table is within its size, and
a removal takes away one call and at least one row, or leaves the table empty. `SyncInv` says of each account that the copy owes, those of the range at its start:
it has arrived, or is in the page, or is behind the cursor in the order of timestamp and id at its present
place and another page will be asked for, or its time is past the end of the range. A write moves an
account forward only, a page takes all rows up to its last one. Results: `CacheStaysBounded`, `CopyIsComplete`.
Why a copy ends: between crashes its cursor never goes back, and a full page, which has two rows at least, moves
it on even when the row it began with comes again; the cursor stays within the time range, so the code never
refuses a range the wrong way round in time. Result: `PagesAdvance`.

`NetworkParameters`. `ParametersInv` has these parts for each node, over the log of the messages it has seen.
`ListHolds`: its list is an extract of the log at certain positions that lacks only what pruning would drop
now (`Lacks`); a change that has lost all its keys to newer ones never gets one back, so this stays true as
cycles and messages come. Pruning an extract from which only such changes are missing then gives what pruning the whole log
gives; this needs the fold of `pruneNetworkChangeQueue` as a function of positions. `HasApplied`: what of the list is applied. `ValuesHold`, when changes are for cycles in the order of the list: each key
has what the last applied change that sets it says, and an applied change has no unapplied one before it in the list
(`AppliedInOrder`). `DefaultsKept`: a key that no change sets has its default. `StartHolds`: the same of the configuration of a node that starts, built by another fold, where values
are not false. Pruning never takes the last change of a key, since at least one is kept. Results: `ListsStayEqual`,
`ConfigStaysEqual`, `StartIsLatest`.

`Admission`. The lock must cover a run that is made later, on accounts as they are then.
`ListFits` says of a transaction whose accounts were all fetched and whose target has not
changed since: the list of accounts and slots it carries is made of the run that its code makes under
the block, price and balance the prediction saw (`foreseen`); it says nothing of what `apply()` will find. Only
the step of `apply()` compares the two, and needs them equal when there is a list; a call that reaches no code needs neither (`PlainRun`).
`ListCoversRun` and `ListCoversAsked` say that the list, the code hashes and the sender's key
cover what the run they were made of writes and asks for, and `PatternsFit` that the memory patterns call no
written key read only. `TypesFit`, `PlacesFit` and `DataFits` give what each place of the
procedure may hold; `KeysFit` carries the result from `crack` to the end. What others change in
between, and code that finds another block, price or balance, is excepted by the property itself. Result:
`LockedKeysCoverWrites`.

`EvmFrame`. Two invariants that do not need each other. `GasInv`: the price that is
remembered is the price of the memory as it is (so that any row of expansions costs what one
expansion costs), gas left and that price are together at most the gas of the message, the bytes that a
call's output may fill are charged for before the call is made, and the gas of a message is still
there while it runs. `Good` says what `subMemUsage` returns of any memory, `PaidStep` that any step that
pays its memory and its stipend keeps `GasInv`, and one lemma per opcode family that it is such a
step. `CALLCODE`, which may live on its stipend for a moment, needs the case in which less than
nothing is left before the stipend (`MessageGas`). `ShapeInv`: a static frame has
written nothing and waits only for static calls. The arithmetic (`divCeil`, the squared price of memory,
quotients rounded to zero) is in lemmas at the start. Results: `TypeCorrect`, `ChildrenArePaid`,
`MemoryIsAlwaysPaid`, `MemoryStaysBounded`, `StaticFramesWriteNothing`.

Why a frame ends: `Fuel` is twice the gas left, one for a frame that runs and one for a call that is waited for.
`Burns` says of every action that it ends the frame, takes gas, or is the return of a call, which makes the frame
wait no more. Taking gas needs the prices: a base fee that is not zero, or a price of SSTORE that is not, and for
a call that it costs more than the stipend it adds (`MessagesCost`). A STOP, RETURN or REVERT costs
nothing and ends the frame. So a frame takes at most `2 * gasLimit + 1` steps whatever its code does.
Result: `EveryStepBurns`. `FrameEnds` is this and the fairness of the steps.

`Interpreter`. `JumpInv` says that the destinations, once found, are those of the code. The work is before it:
the scan of `_getValidJumpDests` and the instructions the code has when it is run from its first byte (`Starts`) are
two recursive functions with different steps; that both exist, and that the first marks just the JUMPDESTs among the
second, is by induction on the bytes that are left. A jump then needs a destination that is one of them.
Result: `JumpsStayValid`, an action property. `GasInv` is `WritesCostTheirEffect` with what makes it inductive: the
refund covers what each slot may still take back (`Owing`, a sum over the slots). `WriteIsPriced` goes through the
cases of `updateSstoreGasEIP2200`: what a slot was before the transaction, is, and becomes; that a write changes one
term of two sums is from `FoldLemmas`. Result: `WritesCostWhatTheyChange`.

`WordOps`, for words of any width. The provers know nothing of `2^n`, not even that it is positive, so powers of
two are a recursive function (`TwoTo`) and what is needed of them is proved: products, growth, what division
by one leaves. `OpcodesAreRight` then says of each arithmetic opcode that what `functions.ts` computes is a word and
is what the opcode means, in families. A word is determined by its bits (`BitsDetermine`), and the word made of given
bits has them (`WordOfBits`): AND, OR, XOR, NOT, BYTE and the masks of SAR and SIGNEXTEND are compared bit by bit.
Signed opcodes go through the number a word stands for (`SignedIs`, `ToWordIs`), with bigint division,
which rounds towards zero (`QuotientIs`, `ModIs`); SDIV of the least number by minus one wraps. EXP is a loop
over the bits of the exponent from the low end, while `Power` halves the exponent: both are reduced to the same
squares (`PowersOfSquare`, `ExpIsRight`).

`WordsInv` carries this to the runs of `Interpreter`: stack and slots hold words whatever is pushed, copied, swapped, computed
or loaded, so the operands of an opcode are words. Results: `CodeTypesHold`, and `ArithmeticIsRight`, an action property.

Only model-checked is liveness: `EventuallyReady`, `OldNodeStops`, `FrameEnds` and `SyncEnds`. Fairness and ENABLED
are out of reach of the prover; of the last two the safety argument is proved (`EveryStepBurns`, `PagesAdvance`). Every
other property of a run is stated by a theorem.

## 5. Not modelled

- What precompiles compute, the value of KECCAK256, the order of bytes in a word; instructions
  of hard forks after the one in force, Istanbul with PUSH0 (`src/index.ts:510`), and with them the
  journal's warm addresses and transient storage, which no rule in force reads.
- Logs and receipts; the miner's account; the state manager's `deleteAccount`, which does nothing.
- `@shardus/core`: the transaction queue, the node list, the service queue, the votes and the
  loop of data sync are modelled only by the calls the repository gets from or makes to them.
- SQL as such: queries of `storage.ts` are modelled by the rows they return.
- Fees and statistics of the staking transactions; `chargeConstantTxFee` is off by default.
- Signatures, multi-signatures and developer keys, which are taken as made and checked correctly.
- Service points, blocks for RPC, the warm-up cache of remote lookup, HTTP handlers, the archiver:
  local caches and answers that no ledger state depends on.
- Serialization (formats), genesis (runs once, before there is a network), the debug copies of
  the state classes and the offline tools.
- In the parts that are modelled: code that a run of `Admission` reaches beyond the target, and the
  balances of others that it may read;
  the second node of a transaction between shards, which gets the same accounts; `estimateGas`
  as an RPC beyond what it does to the shared EVM.

## 6. Plan

Done: state object, `apply` and its refinement; the shared VM; message calls; frames, opcodes
and precompiles of the EVM; the staking ledger, certificates, network of staking transactions
and readiness; network parameters and migrations; the code cache and data sync; admission.

What is left, in this order:

1. `StakingNetwork` liveness: is every queued reward paid or dropped; what a left-early penalty
   does to the claim at the head of the queue.
2. The calls of `applyInternalTx` that are not awaited, with the order of the reports to the
   consensus layer.
3. The window of service points against a reference definition; blocks and caches.
