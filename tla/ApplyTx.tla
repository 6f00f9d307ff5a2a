------------------------------- MODULE ApplyTx -------------------------------
(***************************************************************************)
(* apply() of an EVM transaction, from the lookup of its state object to   *)
(* the response: the reads it is given are inserted, runTx opens the       *)
(* checkpoint of the transaction, every message call opens one of its own  *)
(* and closes it by commit or revert, an error that is not the EVM's own   *)
(* unwinds all calls to runTx, and what the state object has collected is  *)
(* reported.  The same transaction may be applied again: the state object  *)
(* is found by transaction id.                                             *)
(***************************************************************************)
EXTENDS TransactionState

CONSTANTS
  Caller,                     \* the sender of the transaction
  MaxDepth,                   \* bound: nested message calls
  MaxApplies,                 \* bound: how often the transaction is applied
  cleanStaleShardeumStateMap, \* ShardeumFlags: replace a used state object
  expiredTransactionStateFix  \* ShardeumFlags: delete it when a receipt fails

ASSUME CallerAssumption == Caller \in Addresses
ASSUME BoundAssumption == MaxDepth \in Nat \ {0} /\ MaxApplies \in Nat

VARIABLES
  pc,           \* where apply() is
  depth,        \* message calls that are open
  usedByApply,  \* the state object went through apply() before
  applies,      \* how often apply() was called
  response,     \* what the last apply() reported
  refused,      \* history: a write was refused by tryInvolveAccount
  live,         \* history: writes of frames that were not reverted
  savedLive     \* history: live at each open checkpoint

control == <<pc, depth, usedByApply, applies, response>>
history == <<refused, live, savedLive>>
vars == <<stored, txVars, control, history>>

NothingLive == [slots |-> NoSlots, codes |-> NoCodes]
NoResponse == [ok |-> FALSE, accounts |-> NoAccounts,
               slots |-> NoSlots, codes |-> NoCodes]

Init ==
  /\ storedAccounts \in AccountMap
  /\ \A a \in Addresses : storedAccounts[a] # NoEntry => storedAccounts[a].code = NoCode
  /\ storedSlots \in SlotMap
  /\ InitData
  /\ pc = "idle" /\ depth = 0 /\ usedByApply = FALSE /\ applies = 0
  /\ response = NoResponse
  /\ refused = FALSE /\ live = NothingLive /\ savedLive = <<>>

-----------------------------------------------------------------------------
(* History variables follow the checkpoints.                               *)

SaveLive == savedLive' = Append(savedLive, live) /\ UNCHANGED <<refused, live>>

KeepLive ==
  /\ savedLive' = SubSeq(savedLive, 1, Len(savedLive) - 1)
  /\ UNCHANGED <<refused, live>>

RestoreLive ==
  /\ live' = savedLive[Len(savedLive)]
  /\ savedLive' = SubSeq(savedLive, 1, Len(savedLive) - 1)
  /\ UNCHANGED refused

ForgetLive == refused' = FALSE /\ live' = NothingLive /\ savedLive' = <<>>

-----------------------------------------------------------------------------
(* apply() up to runTx.                                                    *)

\* Slip: a state object is never replaced.
BeginApplyReusing ==
  /\ pc = "idle" /\ applies < MaxApplies
  /\ refused' = FALSE /\ usedByApply' = TRUE
  /\ applies' = applies + 1
  /\ pc' = "load"
  /\ UNCHANGED <<stored, txVars, depth, response, live, savedLive>>

BeginApply ==
  /\ pc = "idle" /\ applies < MaxApplies
  /\ \/ /\ usedByApply /\ cleanStaleShardeumStateMap
        /\ InitDataAgain
        /\ ForgetLive
     \/ /\ ~usedByApply \/ ~cleanStaleShardeumStateMap
        /\ UNCHANGED txVars
        /\ refused' = FALSE
        /\ UNCHANGED <<live, savedLive>>
  /\ usedByApply' = TRUE
  /\ applies' = applies + 1
  /\ pc' = "load"
  /\ UNCHANGED <<stored, depth, response>>

\* The loop over wrappedStates; an account that may not be involved ends
\* apply() with what was inserted before.
LoadReads ==
  /\ pc = "load"
  /\ \E accounts \in SUBSET Addresses, slots \in SUBSET Slots :
       InsertFirstReads(accounts, slots)
  /\ pc' \in {"start", "idle"}
  /\ UNCHANGED <<stored, depth, usedByApply, applies, response, history>>

RunTx ==
  /\ pc = "start"
  /\ Checkpoint /\ SaveLive
  /\ pc' = "buyGas"
  /\ UNCHANGED <<stored, depth, usedByApply, applies, response>>

\* The fee comes off the caller, then the nonce of the caller goes up, and
\* after the call the rest of the fee is put back.
TouchCaller(from, to) ==
  /\ pc = from
  /\ \E data \in Data :
       PutAccount(Caller, [data |-> data, code |-> AccountView(Caller).code])
  /\ pc' = to
  /\ UNCHANGED <<stored, storageVars, codeVars, depth, usedByApply, applies,
                 response, history>>

BuyGas == TouchCaller("buyGas", "nonce")
RaiseNonce == TouchCaller("nonce", "call")
Settle == TouchCaller("settle", "commit")

-----------------------------------------------------------------------------
(* Message calls.                                                          *)

RunCall ==
  /\ \/ pc = "call"
     \/ pc = "frame" /\ depth < MaxDepth
  /\ Checkpoint /\ SaveLive
  /\ depth' = depth + 1
  /\ pc' = "frame"
  /\ UNCHANGED <<stored, usedByApply, applies, response>>

Return ==
  /\ pc = "frame"
  /\ Commit /\ KeepLive
  /\ depth' = depth - 1
  /\ pc' = IF depth = 1 THEN "settle" ELSE "frame"
  /\ UNCHANGED <<stored, usedByApply, applies, response>>

Fail ==
  /\ pc = "frame"
  /\ Revert /\ RestoreLive
  /\ depth' = depth - 1
  /\ pc' = IF depth = 1 THEN "settle" ELSE "frame"
  /\ UNCHANGED <<stored, usedByApply, applies, response>>

ReadAccount(a) ==
  /\ pc = "frame"
  /\ GetAccount(a)
  /\ UNCHANGED <<stored, storageVars, codeVars, control, history>>

WriteAccount(a, data) ==
  /\ pc = "frame"
  /\ PutAccount(a, [data |-> data, code |-> AccountView(a).code])
  /\ UNCHANGED <<stored, storageVars, codeVars, control, history>>

ReadSlot(s) ==
  /\ pc = "frame"
  /\ GetContractStorage(s)
  /\ UNCHANGED <<stored, accountVars, codeVars, control, history>>

WriteSlot(s, word) ==
  /\ pc = "frame"
  /\ PutContractStorage(s, word)
  /\ live' = [live EXCEPT !.slots[s] = word]
  /\ UNCHANGED <<stored, accountVars, codeVars, control, refused, savedLive>>

ReadCode(a) ==
  /\ pc = "frame"
  /\ GetContractCode(a)
  /\ UNCHANGED <<stored, storageVars, control, history>>

\* The init code of a new contract has returned its code; the account was put
\* when the call began.
DeployCode(a, code) ==
  /\ pc = "frame" /\ a # Caller
  /\ AccountView(a).code = NoCode
  /\ Newest(Len(allAccountWritesStack), Len(allAccountWritesStack), a)
  /\ PutContractCode(a, code)
  /\ live' = [live EXCEPT !.codes[a] = code]
  /\ UNCHANGED <<stored, accountVars, storageVars, control, refused, savedLive>>

\* putContractStorage and putContractCode of the state object are not awaited:
\* when tryInvolveAccount refuses, their error reaches no caller.
RefuseWrite ==
  /\ pc = "frame"
  /\ refused' = TRUE
  /\ UNCHANGED <<stored, txVars, control, live, savedLive>>

-----------------------------------------------------------------------------
(* The end of runTx and of apply().                                        *)

CommitTx ==
  /\ pc = "commit"
  /\ Commit /\ KeepLive
  /\ pc' = "applied"
  /\ UNCHANGED <<stored, depth, usedByApply, applies, response>>

\* Slip: the error of runTx is passed on without a revert.
ThrowWithoutRevert ==
  /\ pc \in {"buyGas", "nonce", "call", "frame", "settle"}
  /\ pc' = "thrown"
  /\ depth' = 0
  /\ UNCHANGED <<stored, txVars, usedByApply, applies, response, history>>

\* A check of runTx fails, or an account may not be involved: the error leaves
\* every open call as it is and runTx reverts once.
Throw ==
  /\ pc \in {"buyGas", "nonce", "call", "frame", "settle"}
  /\ Revert /\ RestoreLive
  /\ pc' = "thrown"
  /\ depth' = 0
  /\ UNCHANGED <<stored, usedByApply, applies, response>>

\* An account whose contract code is reported gets its hash here.
Report ==
  /\ pc \in {"applied", "thrown"}
  /\ response' =
       [ok |-> pc = "applied",
        accounts |->
          [a \in Addresses |->
             IF WrittenAccounts[a] # NoEntry /\ WrittenCodes[a] # NoEntry
             THEN [WrittenAccounts[a] EXCEPT !.code = WrittenCodes[a]]
             ELSE WrittenAccounts[a]],
        slots |-> WrittenSlots,
        codes |-> WrittenCodes]
  /\ pc' = "reported"
  /\ UNCHANGED <<stored, txVars, depth, usedByApply, applies, history>>

\* The receipt passes: the accounts are updated and the state object deleted.
ReceiptPass ==
  /\ pc = "reported"
  /\ storedAccounts' = Merge(storedAccounts, response.accounts)
  /\ storedSlots' = Merge(storedSlots, response.slots)
  /\ InitDataAgain /\ ForgetLive
  /\ usedByApply' = FALSE
  /\ pc' = "idle"
  /\ UNCHANGED <<depth, applies, response>>

ReceiptFail ==
  /\ pc = "reported" /\ expiredTransactionStateFix
  /\ InitDataAgain /\ ForgetLive
  /\ usedByApply' = FALSE
  /\ pc' = "idle"
  /\ UNCHANGED <<stored, depth, applies, response>>

\* No receipt comes, or it fails and there is no fix: the object stays.
NoReceipt ==
  /\ pc = "reported"
  /\ pc' = "idle"
  /\ UNCHANGED <<stored, txVars, depth, usedByApply, applies, response, history>>

-----------------------------------------------------------------------------
FrameStep ==
  \/ \E a \in Addresses : ReadAccount(a)
  \/ \E a \in Addresses : ReadCode(a)
  \/ \E a \in Addresses, data \in Data : WriteAccount(a, data)
  \/ \E s \in Slots : ReadSlot(s)
  \/ \E s \in Slots, word \in Words : WriteSlot(s, word)
  \/ \E a \in Addresses, code \in Codes : DeployCode(a, code)
  \/ RefuseWrite

Next ==
  \/ BeginApply \/ LoadReads \/ RunTx \/ BuyGas \/ RaiseNonce \/ Settle
  \/ RunCall \/ Return \/ Fail \/ FrameStep
  \/ CommitTx \/ Throw \/ Report \/ ReceiptPass
  \/ ReceiptFail \/ NoReceipt

Spec == Init /\ [][Next]_vars

-----------------------------------------------------------------------------
(* Properties.                                                             *)

\* Every variable keeps its type; checkpointCount counts the layers of the
\* stack, and one live snapshot is kept for each of them.
TypeOK ==
  /\ StateTypeOK
  /\ pc \in {"idle", "load", "start", "buyGas", "nonce", "call", "frame",
             "settle", "commit", "applied", "thrown", "reported"}
  /\ depth \in 0..MaxDepth
  /\ usedByApply \in BOOLEAN
  /\ applies \in 0..MaxApplies
  /\ response \in [ok : BOOLEAN, accounts : AccountMap, slots : SlotMap,
                   codes : CodeMap]
  /\ refused \in BOOLEAN
  /\ live \in [slots : SlotMap, codes : CodeMap]
  /\ savedLive \in Seq([slots : SlotMap, codes : CodeMap])
  /\ Len(savedLive) = checkpointCount

\* The accounts behave as the world state the EVM expects: what getAccount
\* returns changes only by putAccount, a commit, nested or last, changes nothing
\* that getAccount returns, and a revert brings back exactly the accounts of the
\* matching checkpoint (checkpoint, commit, flushToCommittedValues and revert
\* over allAccountWritesStack).
Accounts == INSTANCE WorldState WITH
  Keys <- Addresses,
  Values <- Account,
  world <- [a \in Addresses |-> AccountView(a)],
  saved <- [n \in 1..Len(allAccountWritesStack) |->
              [a \in Addresses |-> AccountAt(n - 1, a)]],
  running <- pc \notin {"idle", "load", "reported"}

AccountsImplementWorldState == Accounts!Spec

\* A storage or code write that is about to be reported is the latest write of
\* frames none of which was reverted: no frame that failed, and no frame inside
\* one that failed, leaves a trace (revert clears both flat maps).
CollectedWritesAreLive ==
  /\ \A s \in Slots : WrittenSlots[s] # NoEntry => WrittenSlots[s] = live.slots[s]
  /\ \A a \in Addresses : WrittenCodes[a] # NoEntry => WrittenCodes[a] = live.codes[a]

\* A transaction whose runTx threw reports no write at all, however deep the
\* call was in which the error arose, and although runTx reverts one checkpoint
\* only.
ThrownTxReportsNothing ==
  pc = "reported" /\ ~response.ok =>
    /\ response.accounts = NoAccounts
    /\ response.slots = NoSlots
    /\ response.codes = NoCodes

\* A transaction that succeeded reports its sender: fee and nonce of a
\* successful transaction reach the ledger.
SuccessChargesCaller ==
  pc = "reported" /\ response.ok => response.accounts[Caller] # NoEntry

=============================================================================
