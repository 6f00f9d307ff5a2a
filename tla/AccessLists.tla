----------------------------- MODULE AccessLists -----------------------------
(***************************************************************************)
(* The keys of accounts, and the access list generateAccessList makes of a *)
(* run of the transaction: what the run read and wrote, per contract, the  *)
(* hashes of the code it met, and for every key whether it was read,       *)
(* written or both.                                                        *)
(***************************************************************************)
EXTENDS Integers, FiniteSets

-----------------------------------------------------------------------------
(* Shardus addresses.  An address is 20 bytes and is padded; a storage key *)
(* is hashed together with its contract; a code is known by its hash       *)
(* alone, whichever contract it belongs to (contractCodeKeySilo is off);   *)
(* node and network accounts are their own key.                            *)

AccountKey(address) == <<"account", address>>
StorageKey(address, slot) == <<"storage", address, slot>>
CodeKey(address, hash) == <<"code", hash>>
OwnKey(id) == <<"id", id>>

\* The key an account is filed under when it is stored.
getAccountShardusAddress(account) ==
  CASE account.accountType = "ContractStorage" ->
         StorageKey(account.ethAddress, account.key)
    [] account.accountType = "ContractCode" ->
         CodeKey(account.contractAddress, account.ethAddress)
    [] account.accountType = "Account" -> AccountKey(account.ethAddress)
    [] OTHER -> OwnKey(account.id)

-----------------------------------------------------------------------------
(* A run is what TransactionState has collected when runTx returns:        *)
(* accounts read and written, <<contract, slot>> pairs read and written,   *)
(* and <<contract, code hash>> pairs read and written.                     *)

readSet(run) ==
       {AccountKey(run.sender)}
  \cup {AccountKey(a) : a \in run.accountReads}
  \cup {AccountKey(s[1]) : s \in run.slotReads}
  \cup {StorageKey(s[1], s[2]) : s \in run.slotReads}
  \cup {CodeKey(c[1], c[2]) : c \in run.codeReads}

writeSet(run) ==
       {AccountKey(run.sender)}
  \cup {AccountKey(a) : a \in run.accountWrites}
  \cup {StorageKey(s[1], s[2]) : s \in run.slotWrites}
  \cup {CodeKey(c[1], c[2]) : c \in run.codeWrites}

NoPatterns == [ro |-> {}, rw |-> {}, wo |-> {}, on |-> {}, ri |-> {}]

\* Read only, read and written, written only; codes are written once, and a
\* code that was read never changes.
shardusMemoryPatterns(run) ==
  [ro |-> readSet(run) \ writeSet(run),
   rw |-> readSet(run) \cap writeSet(run),
   wo |-> writeSet(run) \ readSet(run),
   on |-> {CodeKey(c[1], c[2]) : c \in run.codeWrites},
   ri |-> {CodeKey(c[1], c[2]) : c \in run.codeReads}]

allInvolvedContracts(run) ==
       run.accountReads \cup run.accountWrites
  \cup {s[1] : s \in run.slotReads \cup run.slotWrites \cup run.codeReads
                                   \cup run.codeWrites}

\* Slip: only the slots that were read make the list.
accessListRead(run) ==
  {[address |-> a, storageKeys |-> {s[2] : s \in {t \in run.slotReads : t[1] = a}}] :
     a \in allInvolvedContracts(run)}

accessList(run) ==
  {[address |-> a,
    storageKeys |-> {s[2] : s \in {t \in run.slotReads \cup run.slotWrites : t[1] = a}}] :
     a \in allInvolvedContracts(run)}

\* One hash for each contract: the one that was read, if there is one.
codeHashes(run) ==
  run.codeReads \cup {c \in run.codeWrites : \A r \in run.codeReads : r[1] # c[1]}

\* A list without a code is taken for a failure: so is a run that reverts.
FailedList(run) == run.exceptionError \/ codeHashes(run) = {}
=============================================================================
