-------------------------- MODULE TransactionState --------------------------
(***************************************************************************)
(* The per-transaction state object of the EVM (class TransactionState):   *)
(* the maps that hold what a transaction has read and written before the   *)
(* result is handed to the consensus layer.  Accounts are kept in a stack  *)
(* of maps, one per open checkpoint; contract storage and contract code    *)
(* are kept in flat maps that know nothing of checkpoints.                 *)
(*                                                                         *)
(* A JavaScript Map is a function that is NoEntry where the map has no     *)
(* key.  Code bytes stand for their hash, so a map from code hash to code  *)
(* is the set of the codes it holds.                                       *)
(***************************************************************************)
EXTENDS Integers, Sequences

CONSTANTS
  Addresses,  \* EVM addresses other than the zero address, which is ignored
  Slots,      \* storage slots: a contract address with a storage key
  Data,       \* balance and nonce of an account
  NewData,    \* those of a freshly constructed Account
  Words,      \* storage words
  EmptyWord,  \* what an unset slot reads as
  Codes,      \* contract codes, identified with their hashes
  NoCode,     \* the hash of the empty code
  NoEntry     \* the map has no such key

ASSUME DataAssumption == NewData \in Data
ASSUME WordAssumption == EmptyWord \in Words
ASSUME CodeAssumption == NoCode \notin Codes

VARIABLES
  storedAccounts,         \* AccountsStorage: the accounts this node holds
  storedSlots,            \* AccountsStorage: the storage this node holds
  firstAccountReads, committedAccountWrites,
  allAccountWritesStack, checkpointCount,
  firstContractStorageReads, allContractStorageWrites,
  firstContractBytesReads, allContractBytesWrites,
  allContractBytesWritesByAddress

stored == <<storedAccounts, storedSlots>>
accountVars == <<firstAccountReads, committedAccountWrites,
                 allAccountWritesStack, checkpointCount>>
storageVars == <<firstContractStorageReads, allContractStorageWrites>>
codeVars == <<firstContractBytesReads, allContractBytesWrites,
              allContractBytesWritesByAddress>>
txVars == <<accountVars, storageVars, codeVars>>

Account == [data : Data, code : Codes \cup {NoCode}]
NewAccount == [data |-> NewData, code |-> NoCode]

\* No value of a map is mistaken for a missing key.
ASSUME EntryAssumption ==
  NoEntry \notin Account /\ NoEntry \notin Words /\ NoEntry \notin Codes

AccountMap == [Addresses -> Account \cup {NoEntry}]
SlotMap == [Slots -> Words \cup {NoEntry}]
CodeMap == [Addresses -> Codes \cup {NoEntry}]
NoAccounts == [a \in Addresses |-> NoEntry]
NoSlots == [s \in Slots |-> NoEntry]
NoCodes == [a \in Addresses |-> NoEntry]

\* map.set(key, value) for every entry of the newer map
Merge(older, newer) ==
  [k \in DOMAIN older |-> IF newer[k] # NoEntry THEN newer[k] ELSE older[k]]

InitData ==
  /\ firstAccountReads = NoAccounts
  /\ committedAccountWrites = NoAccounts
  /\ allAccountWritesStack = <<>>
  /\ checkpointCount = 0
  /\ firstContractStorageReads = NoSlots
  /\ allContractStorageWrites = NoSlots
  /\ firstContractBytesReads = {}
  /\ allContractBytesWrites = {}
  /\ allContractBytesWritesByAddress = NoCodes

\* A new object takes the place of the old one.
InitDataAgain ==
  /\ firstAccountReads' = NoAccounts
  /\ committedAccountWrites' = NoAccounts
  /\ allAccountWritesStack' = <<>>
  /\ checkpointCount' = 0
  /\ firstContractStorageReads' = NoSlots
  /\ allContractStorageWrites' = NoSlots
  /\ firstContractBytesReads' = {}
  /\ allContractBytesWrites' = {}
  /\ allContractBytesWritesByAddress' = NoCodes

-----------------------------------------------------------------------------
(* Reads.                                                                  *)

\* Layer i is the newest of the oldest n layers to have an entry for a.
Newest(i, n, a) ==
  /\ i \in 1..n
  /\ allAccountWritesStack[i][a] # NoEntry
  /\ \A j \in (i + 1)..n : allAccountWritesStack[j][a] = NoEntry

Unwritten(n, a) == \A i \in 1..n : allAccountWritesStack[i][a] = NoEntry

\* What getAccount falls back on under the stack.
BaseAccount(a) ==
  CASE committedAccountWrites[a] # NoEntry -> committedAccountWrites[a]
    [] committedAccountWrites[a] = NoEntry /\ firstAccountReads[a] # NoEntry
         -> firstAccountReads[a]
    [] committedAccountWrites[a] = NoEntry /\ firstAccountReads[a] = NoEntry
       /\ storedAccounts[a] # NoEntry -> storedAccounts[a]
    [] OTHER -> NewAccount

\* What getAccount would return if only the oldest n layers were there.
AccountAt(n, a) ==
  IF Unwritten(n, a)
  THEN BaseAccount(a)
  ELSE allAccountWritesStack[CHOOSE i \in 1..n : Newest(i, n, a)][a]

AccountView(a) == AccountAt(Len(allAccountWritesStack), a)

SlotView(s) ==
  CASE allContractStorageWrites[s] # NoEntry -> allContractStorageWrites[s]
    [] allContractStorageWrites[s] = NoEntry
       /\ firstContractStorageReads[s] # NoEntry -> firstContractStorageReads[s]
    [] allContractStorageWrites[s] = NoEntry
       /\ firstContractStorageReads[s] = NoEntry
       /\ storedSlots[s] # NoEntry -> storedSlots[s]
    [] OTHER -> EmptyWord

CodeView(a) ==
  LET hash == AccountView(a).code
  IN IF hash \notin allContractBytesWrites
        /\ allContractBytesWritesByAddress[a] # NoEntry
     THEN allContractBytesWritesByAddress[a]
     ELSE hash

\* The account becomes a first read when the storage layer answers.
GetAccount(a) ==
  /\ firstAccountReads' =
       IF /\ Unwritten(Len(allAccountWritesStack), a)
          /\ committedAccountWrites[a] = NoEntry
          /\ firstAccountReads[a] = NoEntry
       THEN [firstAccountReads EXCEPT ![a] = storedAccounts[a]]
       ELSE firstAccountReads
  /\ UNCHANGED <<committedAccountWrites, allAccountWritesStack, checkpointCount>>

\* A slot that nobody has is recorded as read and empty.
GetContractStorage(s) ==
  /\ firstContractStorageReads' =
       IF /\ allContractStorageWrites[s] = NoEntry
          /\ firstContractStorageReads[s] = NoEntry
       THEN [firstContractStorageReads EXCEPT ![s] = SlotView(s)]
       ELSE firstContractStorageReads
  /\ UNCHANGED allContractStorageWrites

GetContractCode(a) ==
  /\ GetAccount(a)
  /\ LET hash == AccountView(a).code
     IN firstContractBytesReads' =
          IF hash \in allContractBytesWrites \cup {NoCode}
             \/ allContractBytesWritesByAddress[a] # NoEntry
          THEN firstContractBytesReads
          ELSE firstContractBytesReads \cup {hash}
  /\ UNCHANGED <<allContractBytesWrites, allContractBytesWritesByAddress>>

\* getWrittenAccounts with fixContractBytes: what apply() reports.
WrittenAccounts == committedAccountWrites
WrittenSlots == allContractStorageWrites
WrittenCodes == allContractBytesWritesByAddress

-----------------------------------------------------------------------------
(* Writes.                                                                 *)

PutAccount(a, account) ==
  LET top == Len(allAccountWritesStack)
  IN /\ IF top > 0
        THEN /\ allAccountWritesStack' =
                  [allAccountWritesStack EXCEPT ![top][a] = account]
             /\ UNCHANGED firstAccountReads
        ELSE /\ firstAccountReads' = [firstAccountReads EXCEPT ![a] = account]
             /\ UNCHANGED allAccountWritesStack
     /\ UNCHANGED <<committedAccountWrites, checkpointCount>>

PutContractStorage(s, word) ==
  /\ allContractStorageWrites' = [allContractStorageWrites EXCEPT ![s] = word]
  /\ UNCHANGED firstContractStorageReads

\* The account that will hold the code is not touched.
PutContractCode(a, code) ==
  /\ allContractBytesWrites' = allContractBytesWrites \cup {code}
  /\ allContractBytesWritesByAddress' =
       [allContractBytesWritesByAddress EXCEPT ![a] = code]
  /\ UNCHANGED firstContractBytesReads

\* apply() hands in the accounts, slots and codes of wrappedStates.
InsertFirstReads(accounts, slots) ==
  /\ firstAccountReads' =
       [a \in Addresses |->
          IF a \notin accounts THEN firstAccountReads[a]
          ELSE IF storedAccounts[a] # NoEntry THEN storedAccounts[a]
          ELSE NewAccount]
  /\ firstContractStorageReads' =
       [s \in Slots |->
          IF s \notin slots THEN firstContractStorageReads[s]
          ELSE IF storedSlots[s] # NoEntry THEN storedSlots[s]
          ELSE EmptyWord]
  /\ firstContractBytesReads' =
       firstContractBytesReads \cup
         {storedAccounts[a].code : a \in {b \in accounts :
            storedAccounts[b] # NoEntry /\ storedAccounts[b].code # NoCode}}
  /\ UNCHANGED <<committedAccountWrites, allAccountWritesStack, checkpointCount,
                 allContractStorageWrites, allContractBytesWrites,
                 allContractBytesWritesByAddress>>

-----------------------------------------------------------------------------
(* Checkpoints.                                                            *)

Checkpoint ==
  /\ allAccountWritesStack' = Append(allAccountWritesStack, NoAccounts)
  /\ checkpointCount' = checkpointCount + 1
  /\ UNCHANGED <<firstAccountReads, committedAccountWrites, storageVars, codeVars>>

\* Slip: the layer below wins over the layer that is committed.
CommitKeepsOlder ==
  LET top == Len(allAccountWritesStack)
      layer == allAccountWritesStack[top]
      rest == SubSeq(allAccountWritesStack, 1, top - 1)
  IN /\ checkpointCount' = checkpointCount - 1
     /\ \/ /\ checkpointCount' > 0
           /\ allAccountWritesStack' = [rest EXCEPT ![top - 1] = Merge(layer, @)]
           /\ UNCHANGED committedAccountWrites
        \/ /\ checkpointCount' = 0
           /\ allAccountWritesStack' = rest
           /\ committedAccountWrites' = Merge(layer, committedAccountWrites)
     /\ UNCHANGED <<firstAccountReads, storageVars, codeVars>>

\* A nested commit merges the top layer into the next; the last one flushes
\* it, and keeps what an earlier flush has left.
Commit ==
  LET top == Len(allAccountWritesStack)
      layer == allAccountWritesStack[top]
      rest == SubSeq(allAccountWritesStack, 1, top - 1)
  IN /\ checkpointCount' = checkpointCount - 1
     /\ \/ /\ checkpointCount' > 0
           /\ allAccountWritesStack' = [rest EXCEPT ![top - 1] = Merge(@, layer)]
           /\ UNCHANGED committedAccountWrites
        \/ /\ checkpointCount' = 0
           /\ allAccountWritesStack' = rest
           /\ committedAccountWrites' = Merge(layer, committedAccountWrites)
     /\ UNCHANGED <<firstAccountReads, storageVars, codeVars>>

DropTopLayer ==
  allAccountWritesStack' =
    SubSeq(allAccountWritesStack, 1, Len(allAccountWritesStack) - 1)

\* Slip: the count of checkpoints is not kept.
RevertWithoutCount ==
  /\ DropTopLayer
  /\ allContractStorageWrites' = NoSlots
  /\ allContractBytesWritesByAddress' = NoCodes
  /\ UNCHANGED <<firstAccountReads, committedAccountWrites, checkpointCount,
                 firstContractStorageReads, firstContractBytesReads,
                 allContractBytesWrites>>

\* Slip: the flat maps are left alone.
RevertOfAccountsOnly ==
  /\ DropTopLayer
  /\ checkpointCount' = checkpointCount - 1
  /\ UNCHANGED <<firstAccountReads, committedAccountWrites, storageVars, codeVars>>

\* Storage and code writes are dropped whatever the frame that made them;
\* the map from code hash to code is not.
Revert ==
  /\ DropTopLayer
  /\ checkpointCount' = checkpointCount - 1
  /\ allContractStorageWrites' = NoSlots
  /\ allContractBytesWritesByAddress' = NoCodes
  /\ UNCHANGED <<firstAccountReads, committedAccountWrites,
                 firstContractStorageReads, firstContractBytesReads,
                 allContractBytesWrites>>

-----------------------------------------------------------------------------
StateTypeOK ==
  /\ storedAccounts \in AccountMap
  /\ storedSlots \in SlotMap
  /\ firstAccountReads \in AccountMap
  /\ committedAccountWrites \in AccountMap
  /\ allAccountWritesStack \in Seq(AccountMap)
  /\ checkpointCount = Len(allAccountWritesStack)
  /\ firstContractStorageReads \in SlotMap
  /\ allContractStorageWrites \in SlotMap
  /\ firstContractBytesReads \subseteq Codes
  /\ allContractBytesWrites \subseteq Codes
  /\ allContractBytesWritesByAddress \in CodeMap
=============================================================================
