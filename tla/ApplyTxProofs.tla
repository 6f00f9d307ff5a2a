---------------------------- MODULE ApplyTxProofs ----------------------------
(***************************************************************************)
(* Proofs about ApplyTx, for any number of accounts, slots and codes, and  *)
(* any depth of message calls.  In order: what getAccount finds in the     *)
(* stack of layers, and what the operations on checkpoints do to it;       *)
(* types; what apply() reports; the stack of layers implements WorldState. *)
(***************************************************************************)
EXTENDS ApplyTx, WellFoundedInduction, SequenceTheorems, TLAPS

-----------------------------------------------------------------------------
(* The operators of TransactionState.                                      *)

\* A nonempty set of naturals has a least element.
LEMMA LeastNatural ==
  ASSUME NEW T, T \subseteq Nat, T # {}
  PROVE  \E x \in T : \A y \in T : ~(y < x)
<1> DEFINE R == OpToRel(<, Nat)
<1>1. IsWellFoundedOn(R, Nat)
  BY NatLessThanWellFounded
<1>2. \A x, y \in Nat : y < x => <<y, x>> \in R
  BY DEF OpToRel
<1> HIDE DEF R
<1>3. \E x \in T : \A y \in T : ~(<<y, x>> \in R)
  BY <1>1, WFMin
<1> QED
  BY <1>2, <1>3

\* If one of the oldest n layers has an entry for an account, one is the newest.
LEMMA NewestExists ==
  ASSUME NEW n \in Nat, NEW a, ~Unwritten(n, a)
  PROVE  \E i \in 1..n : Newest(i, n, a)
<1> DEFINE T == {k \in Nat : k < n /\ allAccountWritesStack[n - k][a] # NoEntry}
<1>1. PICK i \in 1..n : allAccountWritesStack[i][a] # NoEntry
  BY DEF Unwritten
<1>2. n - i \in T
  <2>1. n - (n - i) = i
    OBVIOUS
  <2> QED
    BY <1>1, <2>1
<1>3. PICK k \in T : \A y \in T : ~(y < k)
  <2>1. T \subseteq Nat /\ T # {}
    BY <1>2
  <2> HIDE DEF T
  <2> QED
    BY <2>1, LeastNatural
<1>4. ASSUME NEW j \in (n - k + 1)..n, allAccountWritesStack[j][a] # NoEntry
      PROVE  FALSE
  <2>1. n - j \in Nat /\ n - j < n /\ n - j < k /\ n - (n - j) = j
    BY <1>3
  <2>2. n - j \in T
    BY <1>4, <2>1
  <2> QED
    BY <1>3, <2>1, <2>2
<1>5. Newest(n - k, n, a)
  BY <1>3, <1>4 DEF Newest
<1> QED
  BY <1>5 DEF Newest

\* Only one is.
LEMMA NewestIsUnique ==
  ASSUME NEW n \in Nat, NEW a, NEW i, Newest(i, n, a), NEW j, Newest(j, n, a)
  PROVE  i = j
BY DEF Newest

\* What getAccount finds above the base.
LEMMA AccountAtNewest ==
  ASSUME NEW n \in Nat, NEW a, NEW i, Newest(i, n, a)
  PROVE  AccountAt(n, a) = allAccountWritesStack[i][a]
<1>1. i \in 1..n /\ ~Unwritten(n, a)
  BY DEF Newest, Unwritten
<1>2. (CHOOSE j \in 1..n : Newest(j, n, a)) = i
  BY <1>1, NewestIsUnique
<1> QED
  BY <1>1, <1>2 DEF AccountAt

\* What getAccount returns: the entry of the newest layer that has one, or else
\* what lies under the stack.
AccountIsFound(n, a) ==
  \/ Unwritten(n, a) /\ AccountAt(n, a) = BaseAccount(a)
  \/ \E i \in 1..n : Newest(i, n, a) /\ AccountAt(n, a) = allAccountWritesStack[i][a]

LEMMA AccountAtValue == \A n \in Nat, a \in Addresses : AccountIsFound(n, a)
<1> SUFFICES ASSUME NEW n \in Nat, NEW a \in Addresses
             PROVE  AccountIsFound(n, a)
  OBVIOUS
<1>1. CASE Unwritten(n, a)
  BY <1>1 DEF AccountAt, AccountIsFound
<1>2. CASE ~Unwritten(n, a)
  BY <1>2, NewestExists, AccountAtNewest DEF AccountIsFound
<1> QED
  BY <1>1, <1>2

LEMMA AccountAtValueNext == \A n \in Nat, a \in Addresses : AccountIsFound(n, a)'
<1>1. (\A n \in Nat, a \in Addresses : AccountIsFound(n, a))'
  BY AccountAtValue, PTL
<1> QED
  BY <1>1

\* A step that leaves the oldest n layers and what lies under them as they are
\* for an account does not change what getAccount would find there.
LEMMA OldLayersDecide ==
  ASSUME NEW n \in Nat, NEW a \in Addresses,
         BaseAccount(a)' = BaseAccount(a),
         \A i \in 1..n : allAccountWritesStack'[i][a] = allAccountWritesStack[i][a]
  PROVE  AccountAt(n, a)' = AccountAt(n, a)
<1>1. AccountIsFound(n, a) /\ AccountIsFound(n, a)'
  BY AccountAtValue, AccountAtValueNext
<1>2. Unwritten(n, a)' <=> Unwritten(n, a)
  BY DEF Unwritten
<1>3. \A i : Newest(i, n, a)' <=> Newest(i, n, a)
  BY DEF Newest
<1> QED
  BY <1>1, <1>2, <1>3, NewestIsUnique DEF AccountIsFound, Newest, Unwritten

-----------------------------------------------------------------------------
(* Types.                                                                  *)

LEMMA MergeAccounts ==
  ASSUME NEW older \in AccountMap, NEW newer \in AccountMap
  PROVE  Merge(older, newer) \in AccountMap
BY DEF Merge, AccountMap

LEMMA EmptyMaps ==
  NoAccounts \in AccountMap /\ NoSlots \in SlotMap /\ NoCodes \in CodeMap
BY DEF NoAccounts, NoSlots, NoCodes, AccountMap, SlotMap, CodeMap

\* getAccount returns an account.
LEMMA AccountAtType ==
  ASSUME StateTypeOK, NEW n \in 0..Len(allAccountWritesStack), NEW a \in Addresses
  PROVE  AccountAt(n, a) \in Account
<1>1. allAccountWritesStack \in Seq(AccountMap) /\ n \in Nat
  BY LenProperties DEF StateTypeOK
<1>2. NewAccount \in Account
  BY DataAssumption DEF NewAccount, Account
<1>3. BaseAccount(a) \in Account
  BY <1>2 DEF BaseAccount, StateTypeOK, AccountMap
<1>4. ASSUME NEW i \in 1..n, Newest(i, n, a)
      PROVE  allAccountWritesStack[i][a] \in Account
  <2>1. allAccountWritesStack[i] \in AccountMap
    BY <1>1, LenProperties, ElementOfSeq
  <2> QED
    BY <1>4, <2>1 DEF Newest, AccountMap
<1> QED
  BY <1>1, <1>3, <1>4, AccountAtValue DEF AccountIsFound

\* A new object is well typed.
LEMMA InitDataAgainTypes ==
  ASSUME InitDataAgain, storedAccounts' \in AccountMap, storedSlots' \in SlotMap
  PROVE  StateTypeOK'
BY EmptyMaps, EmptySeq DEF InitDataAgain, StateTypeOK

-----------------------------------------------------------------------------
(* Checkpoints.                                                            *)

\* A checkpoint puts an empty layer on the stack.
LEMMA CheckpointEffect ==
  ASSUME StateTypeOK, Checkpoint
  PROVE  /\ allAccountWritesStack' \in Seq(AccountMap)
         /\ Len(allAccountWritesStack') = Len(allAccountWritesStack) + 1
         /\ \A i \in 1..Len(allAccountWritesStack) :
              allAccountWritesStack'[i] = allAccountWritesStack[i]
         /\ allAccountWritesStack'[Len(allAccountWritesStack) + 1] = NoAccounts
BY EmptyMaps, AppendProperties DEF StateTypeOK, Checkpoint

\* All layers but the top one.
LEMMA RestOfStack ==
  ASSUME NEW stack \in Seq(AccountMap), Len(stack) > 0
  PROVE  LET rest == SubSeq(stack, 1, Len(stack) - 1)
         IN /\ rest \in Seq(AccountMap) /\ Len(rest) = Len(stack) - 1
            /\ \A i \in 1..(Len(stack) - 1) : rest[i] = stack[i]
<1> DEFINE top == Len(stack)
           rest == SubSeq(stack, 1, top - 1)
<1>1. top \in Nat /\ top > 0
  BY LenProperties
<1>2. \A i \in 1..(top - 1) : stack[i] \in AccountMap
  BY <1>1, ElementOfSeq
<1>3. top - 1 \in Int /\ 1 \in Int
  BY <1>1
<1> HIDE DEF top
<1>4. /\ rest \in Seq(AccountMap)
      /\ Len(rest) = IF 1 <= top - 1 THEN (top - 1) - 1 + 1 ELSE 0
      /\ \A i \in 1..((top - 1) - 1 + 1) : rest[i] = stack[1 + i - 1]
  BY <1>2, <1>3, SubSeqProperties
<1>5. Len(rest) = top - 1 /\ \A i \in 1..(top - 1) : rest[i] = stack[i]
  BY <1>1, <1>4
<1> QED
  BY <1>4, <1>5 DEF top

\* To drop the top layer is to keep those below it.
LEMMA DropTopLayerEffect ==
  ASSUME StateTypeOK, DropTopLayer, checkpointCount > 0
  PROVE  /\ allAccountWritesStack' \in Seq(AccountMap)
         /\ Len(allAccountWritesStack') = Len(allAccountWritesStack) - 1
         /\ \A i \in 1..(Len(allAccountWritesStack) - 1) :
              allAccountWritesStack'[i] = allAccountWritesStack[i]
<1>1. allAccountWritesStack \in Seq(AccountMap) /\ Len(allAccountWritesStack) > 0
  BY DEF StateTypeOK
<1> QED
  BY <1>1, RestOfStack DEF DropTopLayer

\* A nested commit merges the top layer into the one below, the last commit into
\* the committed writes.
LEMMA CommitEffect ==
  ASSUME StateTypeOK, Commit, checkpointCount > 0
  PROVE  LET top == Len(allAccountWritesStack)
         IN /\ allAccountWritesStack' \in Seq(AccountMap)
            /\ Len(allAccountWritesStack') = top - 1
            /\ checkpointCount' = checkpointCount - 1
            /\ committedAccountWrites' \in AccountMap
            /\ \A i \in 1..(top - 2) :
                 allAccountWritesStack'[i] = allAccountWritesStack[i]
            /\ \/ /\ top > 1 /\ committedAccountWrites' = committedAccountWrites
                  /\ allAccountWritesStack'[top - 1] =
                       Merge(allAccountWritesStack[top - 1], allAccountWritesStack[top])
               \/ /\ top = 1
                  /\ committedAccountWrites' =
                       Merge(allAccountWritesStack[1], committedAccountWrites)
<1> DEFINE top == Len(allAccountWritesStack)
           rest == SubSeq(allAccountWritesStack, 1, top - 1)
<1>1. /\ allAccountWritesStack \in Seq(AccountMap) /\ top \in Nat /\ top > 0
      /\ checkpointCount = top
  BY LenProperties DEF StateTypeOK
<1>2. \A i \in 1..top : allAccountWritesStack[i] \in AccountMap
  BY <1>1, ElementOfSeq
<1>3. /\ rest \in Seq(AccountMap) /\ Len(rest) = top - 1
      /\ \A i \in 1..(top - 1) : rest[i] = allAccountWritesStack[i]
  BY <1>1, RestOfStack
<1>4. CASE top > 1
  <2> DEFINE merged == Merge(allAccountWritesStack[top - 1], allAccountWritesStack[top])
  <2>1. merged \in AccountMap
    BY <1>1, <1>2, <1>4, MergeAccounts
  <2>2. allAccountWritesStack' =
          [rest EXCEPT ![top - 1] = Merge(@, allAccountWritesStack[top])]
        /\ committedAccountWrites' = committedAccountWrites
        /\ checkpointCount' = checkpointCount - 1
    BY <1>1, <1>4 DEF Commit
  <2>3. allAccountWritesStack' = [rest EXCEPT ![top - 1] = merged]
    BY <1>1, <1>3, <1>4, <2>2
  <2> HIDE DEF merged, rest
  <2>4. /\ allAccountWritesStack' \in Seq(AccountMap)
        /\ Len(allAccountWritesStack') = top - 1
        /\ \A i \in 1..(top - 1) :
             allAccountWritesStack'[i] = IF i = top - 1 THEN merged ELSE rest[i]
    BY <1>1, <1>3, <1>4, <2>1, <2>3, ExceptSeq
  <2> QED
    BY <1>1, <1>3, <1>4, <2>2, <2>4 DEF StateTypeOK, merged
<1>5. CASE top = 1
  <2>1. allAccountWritesStack' = rest
        /\ committedAccountWrites' =
             Merge(allAccountWritesStack[1], committedAccountWrites)
        /\ checkpointCount' = checkpointCount - 1
    BY <1>1, <1>5 DEF Commit
  <2>2. committedAccountWrites' \in AccountMap
    BY <1>1, <1>2, <1>5, <2>1, MergeAccounts DEF StateTypeOK
  <2> QED
    BY <1>1, <1>3, <1>5, <2>1, <2>2
<1> QED
  BY <1>1, <1>4, <1>5

-----------------------------------------------------------------------------
(* What getAccount returns after each operation on accounts.               *)

\* A read changes nothing that getAccount returns.
LEMMA GetAccountKeepsView ==
  ASSUME NEW b \in Addresses, GetAccount(b), storedAccounts' = storedAccounts,
         StateTypeOK
  PROVE  \A n \in Nat, a \in Addresses : AccountAt(n, a)' = AccountAt(n, a)
<1> SUFFICES ASSUME NEW n \in Nat, NEW a \in Addresses
             PROVE  AccountAt(n, a)' = AccountAt(n, a)
  OBVIOUS
<1>1. BaseAccount(a)' = BaseAccount(a)
  BY DEF BaseAccount, GetAccount, StateTypeOK, AccountMap
<1> QED
  BY <1>1, OldLayersDecide DEF GetAccount

\* A checkpoint changes nothing either, under the new layer or at it.
LEMMA CheckpointKeepsView ==
  ASSUME StateTypeOK, Checkpoint, storedAccounts' = storedAccounts,
         NEW top \in Nat, top = Len(allAccountWritesStack)
  PROVE  \A a \in Addresses :
           /\ \A n \in 0..top : AccountAt(n, a)' = AccountAt(n, a)
           /\ AccountAt(top + 1, a)' = AccountAt(top, a)
<1> SUFFICES ASSUME NEW a \in Addresses
             PROVE  /\ \A n \in 0..top : AccountAt(n, a)' = AccountAt(n, a)
                    /\ AccountAt(top + 1, a)' = AccountAt(top, a)
  OBVIOUS
<1>2. BaseAccount(a)' = BaseAccount(a)
  BY DEF BaseAccount, Checkpoint
<1>3. /\ \A i \in 1..top : allAccountWritesStack'[i] = allAccountWritesStack[i]
      /\ allAccountWritesStack'[top + 1][a] = NoEntry
  BY CheckpointEffect DEF NoAccounts
<1>4. \A n \in 0..top : AccountAt(n, a)' = AccountAt(n, a)
  BY <1>2, <1>3, OldLayersDecide
<1>5. AccountAt(top + 1, a)' = AccountAt(top, a)
  <2>1. AccountIsFound(top, a) /\ AccountIsFound(top + 1, a)'
    BY AccountAtValue, AccountAtValueNext
  <2>2. Unwritten(top + 1, a)' <=> Unwritten(top, a)
    BY <1>3 DEF Unwritten
  <2>3. \A i : Newest(i, top + 1, a)' <=> Newest(i, top, a)
    BY <1>3 DEF Newest
  <2>4. CASE Unwritten(top, a)
    BY <1>2, <2>1, <2>2, <2>4 DEF AccountIsFound, Newest, Unwritten
  <2>5. CASE ~Unwritten(top, a)
    <3>1. PICK i \in 1..top :
            Newest(i, top, a) /\ AccountAt(top, a) = allAccountWritesStack[i][a]
      BY <2>1, <2>5 DEF AccountIsFound
    <3>2. PICK j \in 1..(top + 1) :
            /\ Newest(j, top + 1, a)'
            /\ AccountAt(top + 1, a)' = allAccountWritesStack'[j][a]
      BY <2>1, <2>2, <2>5 DEF AccountIsFound
    <3>3. i = j
      BY <2>3, <3>1, <3>2, NewestIsUnique
    <3> QED
      BY <1>3, <3>1, <3>2, <3>3
  <2> QED
    BY <2>4, <2>5
<1> QED
  BY <1>4, <1>5

\* What is below the layer that a revert drops stays as it is.
LEMMA RevertKeepsOldView ==
  ASSUME StateTypeOK, Revert, checkpointCount > 0, storedAccounts' = storedAccounts
  PROVE  \A n \in 0..(Len(allAccountWritesStack) - 1), a \in Addresses :
           AccountAt(n, a)' = AccountAt(n, a)
<1> SUFFICES ASSUME NEW n \in 0..(Len(allAccountWritesStack) - 1), NEW a \in Addresses
             PROVE  AccountAt(n, a)' = AccountAt(n, a)
  OBVIOUS
<1>1. Len(allAccountWritesStack) \in Nat
  BY LenProperties DEF StateTypeOK
<1>2. BaseAccount(a)' = BaseAccount(a)
  BY DEF BaseAccount, Revert
<1>3. \A i \in 1..(Len(allAccountWritesStack) - 1) :
        allAccountWritesStack'[i] = allAccountWritesStack[i]
  BY DropTopLayerEffect DEF Revert
<1> QED
  BY <1>1, <1>2, <1>3, OldLayersDecide

\* A write is what getAccount returns from then on; the layers below the top do
\* not see it.
LEMMA PutAccountView ==
  ASSUME StateTypeOK, NEW b \in Addresses, NEW account \in Account,
         PutAccount(b, account), storedAccounts' = storedAccounts,
         NoEntry \notin Account,
         NEW top \in Nat, top = Len(allAccountWritesStack), top > 0
  PROVE  \A a \in Addresses :
           /\ \A n \in 0..(top - 1) : AccountAt(n, a)' = AccountAt(n, a)
           /\ AccountAt(top, a)' = IF a = b THEN account ELSE AccountAt(top, a)
<1> SUFFICES ASSUME NEW a \in Addresses
             PROVE  /\ \A n \in 0..(top - 1) : AccountAt(n, a)' = AccountAt(n, a)
                    /\ AccountAt(top, a)' = IF a = b THEN account ELSE AccountAt(top, a)
  OBVIOUS
<1>1. allAccountWritesStack \in Seq(AccountMap) /\ checkpointCount > 0
  BY DEF StateTypeOK
<1>2. BaseAccount(a)' = BaseAccount(a)
  BY <1>1 DEF BaseAccount, PutAccount
<1>3. \A i \in 1..top : allAccountWritesStack[i] \in AccountMap
  BY <1>1, ElementOfSeq
<1>4. \A i \in 1..top : allAccountWritesStack'[i][a] =
        IF i = top /\ a = b THEN account ELSE allAccountWritesStack[i][a]
  <2>1. allAccountWritesStack' = [allAccountWritesStack EXCEPT ![top][b] = account]
    BY <1>1 DEF PutAccount
  <2>2. DOMAIN allAccountWritesStack = 1..top
    BY <1>1, LenProperties
  <2> QED
    BY <1>1, <1>3, <2>1, <2>2 DEF AccountMap
<1>5. \A n \in 0..(top - 1) : AccountAt(n, a)' = AccountAt(n, a)
  BY <1>1, <1>2, <1>4, OldLayersDecide
<1>6. CASE a # b
  <2>1. AccountAt(top, a)' = AccountAt(top, a)
    BY <1>1, <1>2, <1>4, <1>6, OldLayersDecide
  <2> QED
    BY <1>5, <1>6, <2>1
<1>7. CASE a = b
  <2>1. AccountIsFound(top, a)'
    BY <1>1, AccountAtValueNext
  <2>2. ~Unwritten(top, a)' /\ \A i : Newest(i, top, a)' => i = top
    BY <1>1, <1>4, <1>7 DEF Unwritten, Newest
  <2>3. AccountAt(top, a)' = allAccountWritesStack'[top][a]
    BY <2>1, <2>2 DEF AccountIsFound
  <2> QED
    BY <1>1, <1>4, <1>5, <1>7, <2>3
<1> QED
  BY <1>6, <1>7

\* A commit changes nothing that getAccount returns, also when it is the last.
LEMMA CommitKeepsView ==
  ASSUME StateTypeOK, Commit, storedAccounts' = storedAccounts,
         committedAccountWrites = NoAccounts,
         NEW top \in Nat, top = Len(allAccountWritesStack), top > 0
  PROVE  \A a \in Addresses :
           /\ \A n \in 0..(top - 2) : AccountAt(n, a)' = AccountAt(n, a)
           /\ AccountAt(top - 1, a)' = AccountAt(top, a)
<1> SUFFICES ASSUME NEW a \in Addresses
             PROVE  /\ \A n \in 0..(top - 2) : AccountAt(n, a)' = AccountAt(n, a)
                    /\ AccountAt(top - 1, a)' = AccountAt(top, a)
  OBVIOUS
<1>1. allAccountWritesStack \in Seq(AccountMap) /\ checkpointCount > 0
  BY DEF StateTypeOK
<1>2. \A i \in 1..top : allAccountWritesStack[i] \in AccountMap
  BY <1>1, ElementOfSeq
<1>3. firstAccountReads' = firstAccountReads
  BY DEF Commit
<1>4. \A i \in 1..(top - 2) : allAccountWritesStack'[i] = allAccountWritesStack[i]
  BY <1>1, CommitEffect
<1>5. AccountIsFound(top, a) /\ AccountIsFound(top - 1, a)'
  BY <1>1, AccountAtValue, AccountAtValueNext
<1>6. CASE top > 1
  <2>1. committedAccountWrites' = committedAccountWrites
        /\ allAccountWritesStack'[top - 1] =
             Merge(allAccountWritesStack[top - 1], allAccountWritesStack[top])
    BY <1>1, <1>6, CommitEffect
  <2>2. BaseAccount(a)' = BaseAccount(a)
    BY <1>3, <2>1 DEF BaseAccount
  <2>3. allAccountWritesStack'[top - 1][a] =
          IF allAccountWritesStack[top][a] # NoEntry
          THEN allAccountWritesStack[top][a] ELSE allAccountWritesStack[top - 1][a]
    BY <1>1, <1>2, <1>6, <2>1 DEF Merge, AccountMap
  <2>4. \A n \in 0..(top - 2) : AccountAt(n, a)' = AccountAt(n, a)
    BY <1>1, <1>4, <2>2, OldLayersDecide
  <2>5. Unwritten(top - 1, a)' <=> Unwritten(top, a)
    <3>1. 1..top = (1..(top - 2)) \cup {top - 1, top}
          /\ 1..(top - 1) = (1..(top - 2)) \cup {top - 1}
      BY <1>6
    <3>2. (\A i \in 1..(top - 2) : allAccountWritesStack'[i][a] = NoEntry)
          <=> \A i \in 1..(top - 2) : allAccountWritesStack[i][a] = NoEntry
      BY <1>4
    <3>3. allAccountWritesStack'[top - 1][a] = NoEntry
          <=> /\ allAccountWritesStack[top - 1][a] = NoEntry
              /\ allAccountWritesStack[top][a] = NoEntry
      BY <2>3
    <3> QED
      BY <3>1, <3>2, <3>3, Zenon DEF Unwritten
  <2>6. ASSUME NEW i \in 1..top, Newest(i, top, a),
               NEW j \in 1..(top - 1), Newest(j, top - 1, a)'
        PROVE  allAccountWritesStack'[j][a] = allAccountWritesStack[i][a]
    BY <1>1, <1>4, <1>6, <2>3, <2>6 DEF Newest
  <2>7. AccountAt(top - 1, a)' = AccountAt(top, a)
    BY <1>1, <1>5, <2>2, <2>5, <2>6 DEF AccountIsFound, Newest, Unwritten
  <2> QED
    BY <2>4, <2>7
<1>7. CASE top = 1
  <2>1. committedAccountWrites' =
          Merge(allAccountWritesStack[1], committedAccountWrites)
    BY <1>1, <1>7, CommitEffect
  <2>2. committedAccountWrites'[a] = allAccountWritesStack[1][a]
        /\ committedAccountWrites[a] = NoEntry
    BY <1>2, <1>7, <2>1 DEF Merge, AccountMap, NoAccounts
  <2>3. AccountAt(0, a)' = BaseAccount(a)'
    BY <1>5, <1>7 DEF AccountIsFound
  <2>4. BaseAccount(a)' = IF allAccountWritesStack[1][a] # NoEntry
                          THEN allAccountWritesStack[1][a] ELSE BaseAccount(a)
    BY <1>3, <2>2 DEF BaseAccount
  <2>5. AccountAt(1, a) = IF allAccountWritesStack[1][a] # NoEntry
                          THEN allAccountWritesStack[1][a] ELSE BaseAccount(a)
    BY <1>5, <1>7 DEF AccountIsFound, Unwritten, Newest
  <2> QED
    BY <1>7, <2>3, <2>4, <2>5
<1> QED
  BY <1>1, <1>6, <1>7

-----------------------------------------------------------------------------
(* The maps keep their types.                                              *)

AccountsTyped ==
  /\ firstAccountReads \in AccountMap
  /\ committedAccountWrites \in AccountMap
  /\ allAccountWritesStack \in Seq(AccountMap)
  /\ checkpointCount = Len(allAccountWritesStack)

WritesTyped ==
  /\ firstContractStorageReads \in SlotMap
  /\ allContractStorageWrites \in SlotMap
  /\ firstContractBytesReads \subseteq Codes
  /\ allContractBytesWrites \subseteq Codes
  /\ allContractBytesWritesByAddress \in CodeMap

LEMMA TypesInParts ==
  StateTypeOK <=> /\ storedAccounts \in AccountMap /\ storedSlots \in SlotMap
                  /\ AccountsTyped /\ WritesTyped
BY DEF StateTypeOK, AccountsTyped, WritesTyped

LEMMA TypesInPartsNext ==
  (StateTypeOK <=> /\ storedAccounts \in AccountMap /\ storedSlots \in SlotMap
                   /\ AccountsTyped /\ WritesTyped)'
BY TypesInParts, PTL

LEMMA GetAccountTypes ==
  ASSUME StateTypeOK, NEW a \in Addresses, GetAccount(a)
  PROVE  AccountsTyped'
<1>1. firstAccountReads' \in AccountMap
  BY DEF GetAccount, StateTypeOK, AccountMap
<1> QED
  BY <1>1 DEF GetAccount, StateTypeOK, AccountsTyped

LEMMA PutAccountTypes ==
  ASSUME StateTypeOK, NEW a \in Addresses, NEW account \in Account,
         PutAccount(a, account), checkpointCount > 0
  PROVE  /\ AccountsTyped' /\ checkpointCount' = checkpointCount
         /\ committedAccountWrites' = committedAccountWrites
         /\ Len(allAccountWritesStack') = Len(allAccountWritesStack)
         /\ allAccountWritesStack'[Len(allAccountWritesStack)][a] = account
<1> DEFINE top == Len(allAccountWritesStack)
           layer == [allAccountWritesStack[top] EXCEPT ![a] = account]
<1>1. /\ allAccountWritesStack \in Seq(AccountMap) /\ top \in Nat /\ top > 0
      /\ top \in 1..top
  BY LenProperties DEF StateTypeOK
<1>2. allAccountWritesStack[top] \in AccountMap
  BY <1>1, ElementOfSeq
<1>3. layer \in AccountMap /\ layer[a] = account
  BY <1>2 DEF AccountMap
<1>4. allAccountWritesStack' = [allAccountWritesStack EXCEPT ![top] = layer]
  <2>1. DOMAIN allAccountWritesStack = 1..top
    BY <1>1, LenProperties
  <2> QED
    BY <1>1, <2>1 DEF PutAccount
<1> HIDE DEF layer
<1>5. /\ allAccountWritesStack' \in Seq(AccountMap)
      /\ Len(allAccountWritesStack') = top
      /\ allAccountWritesStack'[top] = layer
  BY <1>1, <1>3, <1>4, ExceptSeq
<1> QED
  BY <1>1, <1>3, <1>5 DEF PutAccount, AccountsTyped, StateTypeOK

LEMMA CheckpointTypes ==
  ASSUME StateTypeOK, Checkpoint
  PROVE  AccountsTyped' /\ WritesTyped'
BY CheckpointEffect
DEF Checkpoint, storageVars, codeVars, StateTypeOK, AccountsTyped, WritesTyped

LEMMA CommitTypes ==
  ASSUME StateTypeOK, Commit, checkpointCount > 0
  PROVE  AccountsTyped' /\ WritesTyped'
<1>1. AccountsTyped'
  BY CommitEffect DEF Commit, StateTypeOK, AccountsTyped
<1> QED
  BY <1>1 DEF Commit, storageVars, codeVars, StateTypeOK, WritesTyped

LEMMA RevertTypes ==
  ASSUME StateTypeOK, Revert, checkpointCount > 0
  PROVE  AccountsTyped' /\ WritesTyped'
<1>1. AccountsTyped'
  BY DropTopLayerEffect DEF Revert, StateTypeOK, AccountsTyped
<1> QED
  BY <1>1, EmptyMaps DEF Revert, StateTypeOK, WritesTyped

LEMMA StorageTypes ==
  ASSUME StateTypeOK, NEW s \in Slots, NEW word \in Words, UNCHANGED codeVars,
         GetContractStorage(s) \/ PutContractStorage(s, word)
  PROVE  WritesTyped'
<1>1. SlotView(s) \in Words
  BY WordAssumption DEF SlotView, StateTypeOK, SlotMap
<1>2. firstContractStorageReads' \in SlotMap /\ allContractStorageWrites' \in SlotMap
  BY <1>1 DEF GetContractStorage, PutContractStorage, StateTypeOK, SlotMap
<1> QED
  BY <1>2 DEF codeVars, StateTypeOK, WritesTyped

\* A read of code records the code hash of the account, unless it is empty.
LEMMA GetContractCodeTypes ==
  ASSUME StateTypeOK, NEW a \in Addresses, GetContractCode(a), UNCHANGED storageVars
  PROVE  AccountsTyped' /\ WritesTyped'
<1>1. AccountsTyped'
  BY GetAccountTypes DEF GetContractCode
<1>2. AccountView(a).code \in Codes \cup {NoCode}
  BY AccountAtType, LenProperties DEF AccountView, Account, StateTypeOK
<1>3. firstContractBytesReads' \subseteq Codes
  BY <1>2 DEF GetContractCode, StateTypeOK
<1> QED
  BY <1>1, <1>3 DEF GetContractCode, storageVars, StateTypeOK, WritesTyped

LEMMA PutContractCodeTypes ==
  ASSUME StateTypeOK, NEW a \in Addresses, NEW code \in Codes,
         PutContractCode(a, code), UNCHANGED storageVars
  PROVE  WritesTyped'
<1>1. allContractBytesWritesByAddress' \in CodeMap
  BY DEF PutContractCode, StateTypeOK, CodeMap
<1> QED
  BY <1>1 DEF PutContractCode, storageVars, StateTypeOK, WritesTyped

LEMMA InsertFirstReadsTypes ==
  ASSUME StateTypeOK, NEW accounts, NEW slots, InsertFirstReads(accounts, slots),
         accounts \subseteq Addresses
  PROVE  AccountsTyped' /\ WritesTyped'
<1>1. NewAccount \in Account
  BY DataAssumption DEF NewAccount, Account
<1>2. firstAccountReads' \in AccountMap
  BY <1>1 DEF InsertFirstReads, StateTypeOK, AccountMap
<1>3. firstContractStorageReads' \in SlotMap
  BY WordAssumption DEF InsertFirstReads, StateTypeOK, SlotMap
<1>4. firstContractBytesReads' \subseteq Codes
  BY DEF InsertFirstReads, StateTypeOK, AccountMap, Account
<1> QED
  BY <1>2, <1>3, <1>4 DEF InsertFirstReads, StateTypeOK, AccountsTyped, WritesTyped


-----------------------------------------------------------------------------
(* Types.  They need to know that a frame has a layer of its own.          *)

Live == [slots : SlotMap, codes : CodeMap]

HistoryTyped ==
  /\ refused \in BOOLEAN
  /\ live \in Live
  /\ savedLive \in Seq(Live)
  /\ Len(savedLive) = checkpointCount

ResponseTyped ==
  response \in [ok : BOOLEAN, accounts : AccountMap, slots : SlotMap, codes : CodeMap]

ControlTyped ==
  /\ pc \in {"idle", "load", "start", "buyGas", "nonce", "call", "frame",
             "settle", "commit", "applied", "thrown", "reported"}
  /\ depth \in 0..MaxDepth
  /\ usedByApply \in BOOLEAN
  /\ applies \in 0..MaxApplies

\* Between runTx's checkpoint and its commit there is one layer more than there
\* are frames, or even more of them.
LayersSuffice ==
  /\ pc \in {"buyGas", "nonce", "call", "frame", "settle", "commit"} =>
       checkpointCount > depth
  /\ pc = "frame" <=> depth > 0

TypeInv == TypeOK /\ LayersSuffice

LEMMA TypeOKInParts ==
  TypeOK <=> StateTypeOK /\ HistoryTyped /\ ResponseTyped /\ ControlTyped
BY DEF TypeOK, HistoryTyped, ResponseTyped, ControlTyped, Live

LEMMA TypeOKInPartsNext ==
  (TypeOK <=> StateTypeOK /\ HistoryTyped /\ ResponseTyped /\ ControlTyped)'
BY TypeOKInParts, PTL

LEMMA InitTypes == Init => TypeInv
<1> SUFFICES ASSUME Init
             PROVE  TypeInv
  OBVIOUS
<1>1. StateTypeOK
  BY EmptyMaps, EmptySeq DEF Init, InitData, StateTypeOK
<1>2. HistoryTyped
  BY EmptyMaps, EmptySeq DEF Init, InitData, HistoryTyped, NothingLive, Live
<1>3. ResponseTyped
  BY EmptyMaps DEF Init, NoResponse, ResponseTyped
<1>4. ControlTyped
  <2>1. 0 \in 0..MaxDepth /\ 0 \in 0..MaxApplies
    BY BoundAssumption
  <2> QED
    BY <2>1 DEF Init, ControlTyped
<1>5. LayersSuffice
  BY DEF Init, LayersSuffice
<1> QED
  BY <1>1, <1>2, <1>3, <1>4, <1>5, TypeOKInParts DEF TypeInv

\* The history variables follow the checkpoints.
LEMMA SaveLiveTypes ==
  ASSUME TypeOK, Checkpoint, SaveLive
  PROVE  HistoryTyped'
<1>1. savedLive' \in Seq(Live) /\ Len(savedLive') = Len(savedLive) + 1
  BY AppendProperties DEF TypeOK, SaveLive, Live
<1> QED
  BY <1>1 DEF TypeOK, SaveLive, Checkpoint, HistoryTyped, Live

LEMMA DropSaved ==
  ASSUME TypeOK, checkpointCount > 0
  PROVE  /\ SubSeq(savedLive, 1, Len(savedLive) - 1) \in Seq(Live)
         /\ Len(SubSeq(savedLive, 1, Len(savedLive) - 1)) = Len(savedLive) - 1
         /\ savedLive[Len(savedLive)] \in Live
<1> DEFINE top == Len(savedLive)
           rest == SubSeq(savedLive, 1, top - 1)
<1>1. savedLive \in Seq(Live) /\ top \in Nat /\ top > 0
  BY LenProperties DEF TypeOK, Live
<1>2. \A i \in 1..top : savedLive[i] \in Live
  BY <1>1, ElementOfSeq
<1>3. rest \in Seq(Live) /\ Len(rest) = IF 1 <= top - 1 THEN (top - 1) - 1 + 1 ELSE 0
  <2> HIDE DEF top
  <2> QED
    BY <1>1, <1>2, SubSeqProperties
<1>4. Len(rest) = top - 1
  <2> HIDE DEF rest, top
  <2> QED
    BY <1>1, <1>3
<1> QED
  BY <1>1, <1>2, <1>3, <1>4

LEMMA KeepLiveTypes ==
  ASSUME TypeOK, checkpointCount > 0, KeepLive, checkpointCount' = checkpointCount - 1
  PROVE  HistoryTyped'
BY DropSaved DEF TypeOK, KeepLive, HistoryTyped, Live

LEMMA RestoreLiveTypes ==
  ASSUME TypeOK, checkpointCount > 0, RestoreLive,
         checkpointCount' = checkpointCount - 1
  PROVE  HistoryTyped'
BY DropSaved DEF TypeOK, RestoreLive, HistoryTyped, Live

LEMMA ForgetLiveTypes ==
  ASSUME InitDataAgain, ForgetLive
  PROVE  HistoryTyped'
BY EmptyMaps, EmptySeq DEF InitDataAgain, ForgetLive, HistoryTyped, NothingLive, Live

-----------------------------------------------------------------------------
(* Every action keeps TypeInv.                                             *)

\* apply() and what surrounds it.
LEMMA OuterStepTypes ==
  ASSUME TypeInv,
         BeginApply \/ LoadReads \/ Report \/ ReceiptPass \/ ReceiptFail \/ NoReceipt
  PROVE  TypeInv'
<1>1. StateTypeOK /\ HistoryTyped /\ ResponseTyped /\ ControlTyped /\ LayersSuffice
  BY TypeOKInParts DEF TypeInv
<1>2. CASE BeginApply
  <2>1. ControlTyped'
    BY <1>1, <1>2, BoundAssumption DEF BeginApply, ControlTyped
  <2>2. CASE InitDataAgain /\ ForgetLive
    <3>1. StateTypeOK' /\ HistoryTyped'
      BY <1>1, <1>2, <2>2, InitDataAgainTypes, ForgetLiveTypes
      DEF BeginApply, stored, StateTypeOK
    <3> QED
      BY <1>1, <1>2, <2>1, <3>1, TypeOKInPartsNext
      DEF TypeInv, BeginApply, ResponseTyped, LayersSuffice
  <2>3. CASE UNCHANGED txVars /\ refused' = FALSE /\ UNCHANGED <<live, savedLive>>
    <3>1. StateTypeOK' /\ HistoryTyped'
      BY <1>1, <1>2, <2>3
      DEF BeginApply, stored, txVars, accountVars, storageVars, codeVars,
          StateTypeOK, HistoryTyped
    <3> QED
      BY <1>1, <1>2, <2>1, <3>1, TypeOKInPartsNext
      DEF TypeInv, BeginApply, ResponseTyped, LayersSuffice
  <2> QED
    BY <1>2, <2>2, <2>3 DEF BeginApply
<1>3. CASE LoadReads
  <2>1. StateTypeOK'
    <3>1. PICK accounts \in SUBSET Addresses, slots \in SUBSET Slots :
            InsertFirstReads(accounts, slots)
      BY <1>3 DEF LoadReads
    <3>2. AccountsTyped' /\ WritesTyped'
      BY <1>1, <3>1, InsertFirstReadsTypes
    <3>3. storedAccounts' \in AccountMap /\ storedSlots' \in SlotMap
      BY <1>1, <1>3 DEF LoadReads, stored, StateTypeOK
    <3> QED
      BY <3>2, <3>3, TypesInPartsNext
  <2>2. HistoryTyped' /\ ResponseTyped' /\ ControlTyped' /\ LayersSuffice'
    BY <1>1, <1>3
    DEF LoadReads, InsertFirstReads, history, HistoryTyped, ResponseTyped,
        ControlTyped, LayersSuffice
  <2> QED
    BY <2>1, <2>2, TypeOKInPartsNext DEF TypeInv
<1>4. CASE Report
  <2>1. ResponseTyped'
    <3> DEFINE accounts ==
          [a \in Addresses |->
             IF WrittenAccounts[a] # NoEntry /\ WrittenCodes[a] # NoEntry
             THEN [WrittenAccounts[a] EXCEPT !.code = WrittenCodes[a]]
             ELSE WrittenAccounts[a]]
    <3>1. ASSUME NEW a \in Addresses, WrittenAccounts[a] # NoEntry,
                 WrittenCodes[a] # NoEntry
          PROVE  [WrittenAccounts[a] EXCEPT !.code = WrittenCodes[a]] \in Account
      <4> DEFINE account == WrittenAccounts[a]
                 code == WrittenCodes[a]
      <4>1. account \in Account /\ code \in Codes
        BY <1>1, <3>1
        DEF WrittenAccounts, WrittenCodes, StateTypeOK, AccountMap, CodeMap
      <4>2. [data |-> account.data, code |-> code] \in Account
        BY <4>1 DEF Account
      <4>3. [account EXCEPT !.code = code] = [data |-> account.data, code |-> code]
        BY <4>1 DEF Account
      <4> QED
        BY <4>2, <4>3
    <3>2. accounts \in AccountMap
      BY <1>1, <3>1 DEF WrittenAccounts, StateTypeOK, AccountMap
    <3> HIDE DEF accounts
    <3>3. WrittenSlots \in SlotMap /\ WrittenCodes \in CodeMap
      BY <1>1 DEF WrittenSlots, WrittenCodes, StateTypeOK
    <3>4. (pc = "applied") \in BOOLEAN
      OBVIOUS
    <3>5. response' = [ok |-> pc = "applied", accounts |-> accounts,
                       slots |-> WrittenSlots, codes |-> WrittenCodes]
      BY <1>4 DEF Report, accounts
    <3> QED
      BY <3>2, <3>3, <3>4, <3>5, Zenon DEF ResponseTyped
  <2>2. StateTypeOK' /\ HistoryTyped'
    BY <1>1, <1>4
    DEF Report, stored, txVars, accountVars, storageVars, codeVars, history,
        StateTypeOK, HistoryTyped
  <2>3. ControlTyped' /\ LayersSuffice'
    BY <1>1, <1>4 DEF Report, ControlTyped, LayersSuffice
  <2> QED
    BY <2>1, <2>2, <2>3, TypeOKInPartsNext DEF TypeInv
<1>5. CASE ReceiptPass
  <2>1. storedAccounts' \in AccountMap
    BY <1>1, <1>5 DEF ReceiptPass, ResponseTyped, StateTypeOK, Merge, AccountMap
  <2>2. storedSlots' \in SlotMap
    BY <1>1, <1>5 DEF ReceiptPass, ResponseTyped, StateTypeOK, Merge, SlotMap
  <2>3. StateTypeOK' /\ HistoryTyped'
    BY <1>5, <2>1, <2>2, InitDataAgainTypes, ForgetLiveTypes DEF ReceiptPass
  <2>4. ResponseTyped' /\ ControlTyped' /\ LayersSuffice'
    BY <1>1, <1>5 DEF ReceiptPass, ResponseTyped, ControlTyped, LayersSuffice
  <2> QED
    BY <2>3, <2>4, TypeOKInPartsNext DEF TypeInv
<1>6. CASE ReceiptFail
  <2>1. StateTypeOK' /\ HistoryTyped'
    BY <1>1, <1>6, InitDataAgainTypes, ForgetLiveTypes
    DEF ReceiptFail, stored, StateTypeOK
  <2>2. ResponseTyped' /\ ControlTyped' /\ LayersSuffice'
    BY <1>1, <1>6 DEF ReceiptFail, ResponseTyped, ControlTyped, LayersSuffice
  <2> QED
    BY <2>1, <2>2, TypeOKInPartsNext DEF TypeInv
<1>7. CASE NoReceipt
  <2>1. StateTypeOK' /\ HistoryTyped'
    BY <1>1, <1>7
    DEF NoReceipt, stored, txVars, accountVars, storageVars, codeVars, history,
        StateTypeOK, HistoryTyped
  <2>2. ResponseTyped' /\ ControlTyped' /\ LayersSuffice'
    BY <1>1, <1>7
    DEF NoReceipt, ResponseTyped, ControlTyped, LayersSuffice
  <2> QED
    BY <2>1, <2>2, TypeOKInPartsNext DEF TypeInv
<1> QED
  BY <1>2, <1>3, <1>4, <1>5, <1>6, <1>7

\* The checkpoints of runTx and of message calls.
LEMMA CheckpointStepTypes ==
  ASSUME TypeInv, RunTx \/ RunCall \/ Return \/ Fail \/ CommitTx \/ Throw
  PROVE  TypeInv'
<1>1. StateTypeOK /\ HistoryTyped /\ ResponseTyped /\ ControlTyped /\ LayersSuffice
  BY TypeOKInParts DEF TypeInv
<1>2. TypeOK /\ checkpointCount \in Nat /\ depth \in Nat /\ MaxDepth \in Nat
      /\ MaxDepth > 0
  BY <1>1, LenProperties, BoundAssumption DEF StateTypeOK, ControlTyped, TypeInv
<1>3. CASE RunTx
  <2>1. AccountsTyped' /\ WritesTyped' /\ HistoryTyped'
    BY <1>1, <1>2, <1>3, CheckpointTypes, SaveLiveTypes DEF RunTx
  <2>2. StateTypeOK'
    BY <1>1, <1>3, <2>1, TypesInPartsNext DEF RunTx, stored, StateTypeOK
  <2>3. ResponseTyped' /\ ControlTyped'
    BY <1>1, <1>3 DEF RunTx, ResponseTyped, ControlTyped
  <2>4. LayersSuffice'
    BY <1>1, <1>2, <1>3 DEF RunTx, Checkpoint, LayersSuffice
  <2> QED
    BY <2>1, <2>2, <2>3, <2>4, TypeOKInPartsNext DEF TypeInv
<1>4. CASE RunCall
  <2>1. AccountsTyped' /\ WritesTyped' /\ HistoryTyped'
    BY <1>1, <1>2, <1>4, CheckpointTypes, SaveLiveTypes DEF RunCall
  <2>2. StateTypeOK'
    BY <1>1, <1>4, <2>1, TypesInPartsNext DEF RunCall, stored, StateTypeOK
  <2>3. ResponseTyped' /\ ControlTyped'
    BY <1>1, <1>2, <1>4 DEF RunCall, ResponseTyped, ControlTyped, LayersSuffice
  <2>4. LayersSuffice'
    BY <1>1, <1>2, <1>4 DEF RunCall, Checkpoint, LayersSuffice
  <2> QED
    BY <2>1, <2>2, <2>3, <2>4, TypeOKInPartsNext DEF TypeInv
<1>5. CASE Return \/ Fail
  <2>1. checkpointCount > depth /\ depth > 0 /\ checkpointCount > 0
    BY <1>1, <1>2, <1>5 DEF Return, Fail, LayersSuffice
  <2>2. checkpointCount' = checkpointCount - 1
    BY <1>5 DEF Return, Fail, Commit, Revert
  <2>3. AccountsTyped' /\ WritesTyped' /\ HistoryTyped'
    BY <1>1, <1>2, <1>5, <2>1, <2>2, CommitTypes, RevertTypes, KeepLiveTypes,
       RestoreLiveTypes DEF Return, Fail
  <2>4. StateTypeOK'
    BY <1>1, <1>5, <2>3, TypesInPartsNext DEF Return, Fail, stored, StateTypeOK
  <2>5. ResponseTyped' /\ ControlTyped'
    BY <1>1, <1>2, <1>5, <2>1 DEF Return, Fail, ResponseTyped, ControlTyped
  <2>6. LayersSuffice'
    BY <1>1, <1>2, <1>5, <2>1, <2>2 DEF Return, Fail, LayersSuffice
  <2> QED
    BY <2>3, <2>4, <2>5, <2>6, TypeOKInPartsNext DEF TypeInv
<1>6. CASE CommitTx \/ Throw
  <2>1. checkpointCount > depth /\ checkpointCount > 0
    BY <1>1, <1>2, <1>6 DEF CommitTx, Throw, LayersSuffice
  <2>2. checkpointCount' = checkpointCount - 1
    BY <1>6 DEF CommitTx, Throw, Commit, Revert
  <2>3. AccountsTyped' /\ WritesTyped' /\ HistoryTyped'
    BY <1>1, <1>2, <1>6, <2>1, <2>2, CommitTypes, RevertTypes, KeepLiveTypes,
       RestoreLiveTypes DEF CommitTx, Throw
  <2>4. StateTypeOK'
    BY <1>1, <1>6, <2>3, TypesInPartsNext DEF CommitTx, Throw, stored, StateTypeOK
  <2>5. ResponseTyped' /\ ControlTyped' /\ LayersSuffice'
    BY <1>1, <1>2, <1>6
    DEF CommitTx, Throw, ResponseTyped, ControlTyped, LayersSuffice
  <2> QED
    BY <2>3, <2>4, <2>5, TypeOKInPartsNext DEF TypeInv
<1> QED
  BY <1>3, <1>4, <1>5, <1>6

\* What runTx and a frame do to one account, slot or code.
LEMMA AccessStepTypes ==
  ASSUME TypeInv, BuyGas \/ RaiseNonce \/ Settle \/ FrameStep
  PROVE  TypeInv'
<1>1. StateTypeOK /\ HistoryTyped /\ ResponseTyped /\ ControlTyped /\ LayersSuffice
  BY TypeOKInParts DEF TypeInv
<1>2. checkpointCount \in Nat /\ depth \in Nat
  BY <1>1, LenProperties DEF StateTypeOK, ControlTyped
<1>3. checkpointCount > 0
  <2>1. pc \in {"buyGas", "nonce", "settle", "frame"}
    BY DEF BuyGas, RaiseNonce, Settle, TouchCaller, FrameStep, ReadAccount, ReadCode,
           WriteAccount, ReadSlot, WriteSlot, DeployCode, RefuseWrite
  <2> QED
    BY <1>1, <1>2, <2>1 DEF LayersSuffice
<1>4. \A a \in Addresses, data \in Data :
        [data |-> data, code |-> AccountView(a).code] \in Account
  <2>1. \A a \in Addresses : AccountView(a) \in Account
    BY <1>1, AccountAtType, LenProperties DEF AccountView, StateTypeOK
  <2> QED
    BY <2>1 DEF Account
<1>5. ASSUME NEW from \in {"buyGas", "nonce", "settle"},
             NEW to \in {"nonce", "call", "commit"}, TouchCaller(from, to)
      PROVE  TypeInv'
  <2>1. AccountsTyped' /\ checkpointCount' = checkpointCount
    BY <1>1, <1>3, <1>4, <1>5, CallerAssumption, PutAccountTypes DEF TouchCaller
  <2>2. StateTypeOK'
    BY <1>1, <1>5, <2>1, TypesInPartsNext
    DEF TouchCaller, stored, storageVars, codeVars, StateTypeOK, WritesTyped
  <2>3. HistoryTyped' /\ ResponseTyped' /\ ControlTyped' /\ LayersSuffice'
    BY <1>1, <1>2, <1>5, <2>1
    DEF TouchCaller, history, HistoryTyped, ResponseTyped, ControlTyped,
        LayersSuffice
  <2> QED
    BY <2>2, <2>3, TypeOKInPartsNext DEF TypeInv
<1>6. ASSUME UNCHANGED <<stored, control, savedLive>>, AccountsTyped', WritesTyped',
             live' \in Live, refused' \in BOOLEAN, checkpointCount' = checkpointCount
      PROVE  TypeInv'
  <2>1. StateTypeOK'
    BY <1>1, <1>6, TypesInPartsNext DEF stored, StateTypeOK
  <2>2. HistoryTyped' /\ ResponseTyped' /\ ControlTyped' /\ LayersSuffice'
    BY <1>1, <1>6
    DEF control, HistoryTyped, ResponseTyped, ControlTyped, LayersSuffice
  <2> QED
    BY <2>1, <2>2, TypeOKInPartsNext DEF TypeInv
<1>7. CASE FrameStep
  <2>1. ASSUME NEW a \in Addresses, ReadAccount(a)
        PROVE  TypeInv'
    <3>1. AccountsTyped' /\ checkpointCount' = checkpointCount
      BY <1>1, <2>1, GetAccountTypes DEF ReadAccount, GetAccount
    <3> QED
      BY <1>1, <1>6, <2>1, <3>1
      DEF ReadAccount, storageVars, codeVars, history, HistoryTyped, StateTypeOK,
          WritesTyped
  <2>2. ASSUME NEW a \in Addresses, ReadCode(a)
        PROVE  TypeInv'
    <3>1. AccountsTyped' /\ WritesTyped' /\ checkpointCount' = checkpointCount
      BY <1>1, <2>2, GetContractCodeTypes DEF ReadCode, GetContractCode, GetAccount
    <3> QED
      BY <1>1, <1>6, <2>2, <3>1 DEF ReadCode, history, HistoryTyped
  <2>3. ASSUME NEW a \in Addresses, NEW data \in Data, WriteAccount(a, data)
        PROVE  TypeInv'
    <3>1. AccountsTyped' /\ checkpointCount' = checkpointCount
      BY <1>1, <1>3, <1>4, <2>3, PutAccountTypes DEF WriteAccount
    <3> QED
      BY <1>1, <1>6, <2>3, <3>1
      DEF WriteAccount, storageVars, codeVars, history, HistoryTyped, StateTypeOK,
          WritesTyped
  <2>4. ASSUME NEW s \in Slots, ReadSlot(s)
        PROVE  TypeInv'
    <3>1. WritesTyped'
      BY <1>1, <2>4, StorageTypes, WordAssumption DEF ReadSlot
    <3> QED
      BY <1>1, <1>6, <2>4, <3>1
      DEF ReadSlot, accountVars, history, HistoryTyped, StateTypeOK, AccountsTyped
  <2>5. ASSUME NEW s \in Slots, NEW word \in Words, WriteSlot(s, word)
        PROVE  TypeInv'
    <3>1. WritesTyped'
      BY <1>1, <2>5, StorageTypes DEF WriteSlot
    <3>2. live' \in Live
      BY <1>1, <2>5 DEF WriteSlot, HistoryTyped, Live, SlotMap
    <3> QED
      BY <1>1, <1>6, <2>5, <3>1, <3>2
      DEF WriteSlot, accountVars, HistoryTyped, StateTypeOK, AccountsTyped
  <2>6. ASSUME NEW a \in Addresses, NEW code \in Codes, DeployCode(a, code)
        PROVE  TypeInv'
    <3>1. WritesTyped'
      BY <1>1, <2>6, PutContractCodeTypes DEF DeployCode
    <3>2. live' \in Live
      BY <1>1, <2>6 DEF DeployCode, HistoryTyped, Live, CodeMap
    <3> QED
      BY <1>1, <1>6, <2>6, <3>1, <3>2
      DEF DeployCode, accountVars, HistoryTyped, StateTypeOK, AccountsTyped
  <2>7. CASE RefuseWrite
    BY <1>1, <1>6, <2>7
    DEF RefuseWrite, txVars, accountVars, storageVars, codeVars, HistoryTyped,
        StateTypeOK, AccountsTyped, WritesTyped
  <2> QED
    BY <1>7, <2>1, <2>2, <2>3, <2>4, <2>5, <2>6, <2>7 DEF FrameStep
<1> QED
  BY <1>5, <1>7 DEF BuyGas, RaiseNonce, Settle

LEMMA NextKeepsTypeInv == TypeInv /\ [Next]_vars => TypeInv'
<1> SUFFICES ASSUME TypeInv, [Next]_vars
             PROVE  TypeInv'
  OBVIOUS
<1>1. CASE UNCHANGED vars
  BY <1>1
  DEF vars, stored, txVars, accountVars, storageVars, codeVars, control, history,
      TypeInv, TypeOK, StateTypeOK, LayersSuffice
<1> QED
  BY <1>1, OuterStepTypes, CheckpointStepTypes, AccessStepTypes DEF Next

THEOREM TypeInvHolds == Spec => []TypeInv
BY InitTypes, NextKeepsTypeInv, PTL DEF Spec

\* Every map, the stack of layers and the response keep their types, and
\* checkpointCount is the height of the stack, through any nesting of calls,
\* errors and repeated applies.
THEOREM TypeCorrect == Spec => []TypeOK
<1>1. TypeInv => TypeOK
  BY DEF TypeInv
<1> QED
  BY <1>1, TypeInvHolds, PTL

-----------------------------------------------------------------------------
(* Storage and code that were written by reverted frames.                  *)

\* The flat maps hold nothing but what is live: a revert clears them.
THEOREM CollectedWritesLive == Spec => []CollectedWritesAreLive
<1>1. Init => CollectedWritesAreLive
  BY DEF Init, InitData, CollectedWritesAreLive, WrittenSlots, WrittenCodes, NoSlots,
         NoCodes
<1>2. ASSUME TypeInv, CollectedWritesAreLive, [Next]_vars
      PROVE  CollectedWritesAreLive'
  <2>1. CASE allContractStorageWrites' = NoSlots
             /\ allContractBytesWritesByAddress' = NoCodes
    BY <2>1 DEF CollectedWritesAreLive, WrittenSlots, WrittenCodes, NoSlots, NoCodes
  <2>2. CASE UNCHANGED <<allContractStorageWrites, allContractBytesWritesByAddress,
                         live>>
    BY <1>2, <2>2 DEF CollectedWritesAreLive, WrittenSlots, WrittenCodes
  <2>3. ASSUME NEW s \in Slots, NEW word \in Words, WriteSlot(s, word)
        PROVE  CollectedWritesAreLive'
    BY <1>2, <2>3, TypeOKInParts
    DEF WriteSlot, PutContractStorage, codeVars, CollectedWritesAreLive, WrittenSlots,
        WrittenCodes, TypeInv, StateTypeOK, SlotMap, HistoryTyped, Live
  <2>4. ASSUME NEW a \in Addresses, NEW code \in Codes, DeployCode(a, code)
        PROVE  CollectedWritesAreLive'
    BY <1>2, <2>4, TypeOKInParts
    DEF DeployCode, PutContractCode, storageVars, CollectedWritesAreLive, WrittenSlots,
        WrittenCodes, TypeInv, StateTypeOK, CodeMap, HistoryTyped, Live
  <2>5. CASE BeginApply \/ ReceiptPass \/ ReceiptFail
    BY <2>1, <2>2, <2>5
    DEF BeginApply, ReceiptPass, ReceiptFail, InitDataAgain, txVars, storageVars,
        codeVars
  <2>6. CASE Fail \/ Throw
    BY <2>1, <2>6 DEF Fail, Throw, Revert
  <2>7. CASE RunTx \/ RunCall
    BY <2>2, <2>7 DEF RunTx, RunCall, Checkpoint, SaveLive, storageVars, codeVars
  <2>8. CASE Return \/ CommitTx
    BY <2>2, <2>8 DEF Return, CommitTx, Commit, KeepLive, storageVars, codeVars
  <2>9. CASE BuyGas \/ RaiseNonce \/ Settle
    BY <2>2, <2>9
    DEF BuyGas, RaiseNonce, Settle, TouchCaller, storageVars, codeVars, history
  <2>10. CASE LoadReads \/ Report \/ NoReceipt \/ UNCHANGED vars
    BY <2>2, <2>10
    DEF LoadReads, InsertFirstReads, Report, NoReceipt, vars, txVars, storageVars,
        codeVars, history
  <2>11. CASE \/ \E a \in Addresses : ReadAccount(a) \/ ReadCode(a)
              \/ \E a \in Addresses, data \in Data : WriteAccount(a, data)
              \/ \E s \in Slots : ReadSlot(s)
    BY <2>2, <2>11
    DEF ReadAccount, ReadCode, WriteAccount, ReadSlot, GetContractStorage,
        GetContractCode, storageVars, codeVars, history
  <2>12. CASE RefuseWrite
    BY <2>2, <2>12 DEF RefuseWrite, txVars, storageVars, codeVars
  <2> QED
    BY <1>2, <2>3, <2>4, <2>5, <2>6, <2>7, <2>8, <2>9, <2>10, <2>11, <2>12
    DEF Next, FrameStep
<1> QED
  BY <1>1, <1>2, TypeInvHolds, PTL DEF Spec

-----------------------------------------------------------------------------
(* What is reported, when used state objects are replaced.                 *)

\* No transaction has left anything in the accounts.
Fresh ==
  /\ firstAccountReads = NoAccounts
  /\ committedAccountWrites = NoAccounts
  /\ checkpointCount = 0

\* Nothing is flushed before runTx commits, there is exactly one layer more than
\* there are frames, and the caller is in the layer of runTx when that commits.
Phases ==
  /\ pc = "idle" /\ ~usedByApply => Fresh
  /\ pc # "idle" => usedByApply
  /\ pc = "load" => Fresh
  /\ pc = "start" => checkpointCount = 0
  /\ pc \in {"buyGas", "nonce", "call", "settle", "commit"} => checkpointCount = 1
  /\ pc = "frame" => checkpointCount = depth + 1
  /\ pc \in {"start", "buyGas", "nonce", "call", "frame", "settle", "commit", "thrown"}
       => committedAccountWrites = NoAccounts
  /\ pc = "thrown" => /\ allContractStorageWrites = NoSlots
                      /\ allContractBytesWritesByAddress = NoCodes
  /\ pc = "commit" => allAccountWritesStack[1][Caller] # NoEntry
  /\ pc = "applied" => committedAccountWrites[Caller] # NoEntry

PhaseInv == TypeInv /\ Phases /\ ThrownTxReportsNothing /\ SuccessChargesCaller

LEMMA InitPhases == Init => PhaseInv
<1> SUFFICES ASSUME Init
             PROVE  PhaseInv
  OBVIOUS
<1>1. TypeInv
  BY InitTypes
<1>2. Phases
  BY DEF Init, InitData, Phases, Fresh
<1>3. ThrownTxReportsNothing /\ SuccessChargesCaller
  BY DEF Init, ThrownTxReportsNothing, SuccessChargesCaller
<1> QED
  BY <1>1, <1>2, <1>3 DEF PhaseInv

LEMMA OuterStepPhases ==
  ASSUME PhaseInv, cleanStaleShardeumStateMap,
         BeginApply \/ LoadReads \/ Report \/ ReceiptPass \/ ReceiptFail \/ NoReceipt
  PROVE  (Phases /\ ThrownTxReportsNothing /\ SuccessChargesCaller)'
<1>1. TypeInv /\ Phases /\ ThrownTxReportsNothing /\ SuccessChargesCaller
  BY DEF PhaseInv
<1>2. CASE BeginApply
  <2>1. Fresh'
    <3>1. CASE InitDataAgain
      BY <3>1 DEF InitDataAgain, Fresh
    <3>2. CASE ~usedByApply /\ UNCHANGED txVars
      BY <1>1, <1>2, <3>2 DEF BeginApply, Phases, Fresh, txVars, accountVars
    <3> QED
      BY <1>2, <3>1, <3>2 DEF BeginApply
  <2> QED
    BY <1>2, <2>1
    DEF BeginApply, Phases, ThrownTxReportsNothing, SuccessChargesCaller
<1>3. CASE LoadReads
  BY <1>1, <1>3
  DEF LoadReads, InsertFirstReads, Phases, Fresh, ThrownTxReportsNothing,
      SuccessChargesCaller
<1>4. CASE Report
  <2>1. Phases'
    BY <1>1, <1>4 DEF Report, Phases
  <2>2. pc = "thrown" => /\ response'.accounts = NoAccounts
                         /\ response'.slots = NoSlots /\ response'.codes = NoCodes
    BY <1>1, <1>4
    DEF Report, Phases, WrittenAccounts, WrittenSlots, WrittenCodes, NoAccounts
  <2>3. pc = "applied" => response'.accounts[Caller] # NoEntry
    <3> SUFFICES ASSUME pc = "applied"
                 PROVE  response'.accounts[Caller] # NoEntry
      OBVIOUS
    <3>1. response' \in [ok : BOOLEAN, accounts : AccountMap, slots : SlotMap,
                         codes : CodeMap]
      BY <1>1, <1>4, OuterStepTypes, TypeOKInPartsNext DEF TypeInv, ResponseTyped
    <3> DEFINE account == WrittenAccounts[Caller]
               code == WrittenCodes[Caller]
    <3>2. response'.accounts[Caller] =
            IF account # NoEntry /\ code # NoEntry
            THEN [account EXCEPT !.code = code] ELSE account
      BY <1>4, CallerAssumption DEF Report
    <3>3. account # NoEntry /\ account \in Account \cup {NoEntry}
          /\ code \in Codes \cup {NoEntry}
      BY <1>1, CallerAssumption, TypeOKInParts
      DEF Phases, TypeInv, StateTypeOK, AccountMap, CodeMap, WrittenAccounts,
          WrittenCodes
    <3> HIDE DEF account, code
    <3>4. code # NoEntry => [account EXCEPT !.code = code] \in Account
      <4>1. code # NoEntry =>
              /\ [account EXCEPT !.code = code] = [data |-> account.data, code |-> code]
              /\ [data |-> account.data, code |-> code] \in Account
        BY <3>3 DEF Account
      <4> QED
        BY <4>1
    <3> QED
      BY <3>2, <3>3, <3>4, EntryAssumption
  <2>4. response'.ok <=> pc = "applied"
    BY <1>4 DEF Report
  <2> QED
    BY <1>4, <2>1, <2>2, <2>3, <2>4
    DEF Report, ThrownTxReportsNothing, SuccessChargesCaller
<1>5. CASE ReceiptPass \/ ReceiptFail
  BY <1>5
  DEF ReceiptPass, ReceiptFail, InitDataAgain, Phases, Fresh, ThrownTxReportsNothing,
      SuccessChargesCaller
<1>6. CASE NoReceipt
  BY <1>1, <1>6 DEF NoReceipt, Phases, ThrownTxReportsNothing, SuccessChargesCaller
<1> QED
  BY <1>2, <1>3, <1>4, <1>5, <1>6

LEMMA CheckpointStepPhases ==
  ASSUME PhaseInv, RunTx \/ RunCall \/ Return \/ Fail \/ CommitTx \/ Throw
  PROVE  (Phases /\ ThrownTxReportsNothing /\ SuccessChargesCaller)'
<1>1. TypeInv /\ Phases
  BY DEF PhaseInv
<1>2. StateTypeOK /\ checkpointCount \in Nat /\ depth \in Nat
      /\ (pc = "frame" <=> depth > 0)
  BY <1>1, TypeOKInParts, LenProperties
  DEF TypeInv, StateTypeOK, ControlTyped, LayersSuffice
<1>3. CASE RunTx \/ RunCall
  BY <1>1, <1>2, <1>3
  DEF RunTx, RunCall, Checkpoint, Phases, ThrownTxReportsNothing, SuccessChargesCaller
<1>4. CASE Return
  <2>1. checkpointCount' = checkpointCount - 1 /\ checkpointCount > 1
        /\ committedAccountWrites' = committedAccountWrites
    BY <1>1, <1>2, <1>4 DEF Return, Commit, Phases
  <2> QED
    BY <1>1, <1>2, <1>4, <2>1
    DEF Return, Phases, ThrownTxReportsNothing, SuccessChargesCaller
<1>5. CASE Fail
  BY <1>1, <1>2, <1>5
  DEF Fail, Revert, Phases, ThrownTxReportsNothing, SuccessChargesCaller
<1>6. CASE CommitTx
  <2>1. Len(allAccountWritesStack) = 1 /\ allAccountWritesStack[1][Caller] # NoEntry
        /\ allAccountWritesStack[1] \in AccountMap
    BY <1>1, <1>2, <1>6, LenProperties, ElementOfSeq DEF CommitTx, Phases, StateTypeOK
  <2>2. committedAccountWrites' =
          Merge(allAccountWritesStack[1], committedAccountWrites)
    BY <1>1, <1>2, <1>6, <2>1, CommitEffect DEF CommitTx, Phases
  <2>3. committedAccountWrites = NoAccounts
    BY <1>1, <1>6 DEF CommitTx, Phases
  <2>4. committedAccountWrites'[Caller] = allAccountWritesStack[1][Caller]
    BY <2>1, <2>2, <2>3, CallerAssumption DEF Merge, NoAccounts, AccountMap
  <2> QED
    BY <1>1, <1>6, <2>1, <2>4
    DEF CommitTx, Phases, ThrownTxReportsNothing, SuccessChargesCaller
<1>7. CASE Throw
  BY <1>1, <1>7
  DEF Throw, Revert, Phases, ThrownTxReportsNothing, SuccessChargesCaller
<1> QED
  BY <1>3, <1>4, <1>5, <1>6, <1>7

LEMMA AccessStepPhases ==
  ASSUME PhaseInv, BuyGas \/ RaiseNonce \/ Settle \/ FrameStep
  PROVE  (Phases /\ ThrownTxReportsNothing /\ SuccessChargesCaller)'
<1>1. TypeInv /\ Phases
  BY DEF PhaseInv
<1>2. StateTypeOK /\ checkpointCount \in Nat /\ depth \in Nat
  BY <1>1, TypeOKInParts, LenProperties DEF TypeInv, StateTypeOK, ControlTyped
<1>3. ASSUME pc = "frame", UNCHANGED control, checkpointCount' = checkpointCount,
             committedAccountWrites' = committedAccountWrites
      PROVE  (Phases /\ ThrownTxReportsNothing /\ SuccessChargesCaller)'
  BY <1>1, <1>3 DEF control, Phases, ThrownTxReportsNothing, SuccessChargesCaller
<1>4. CASE FrameStep
  <2>1. pc = "frame" /\ UNCHANGED control
    BY <1>4
    DEF FrameStep, ReadAccount, ReadCode, WriteAccount, ReadSlot, WriteSlot, DeployCode,
        RefuseWrite
  <2>2. checkpointCount' = checkpointCount
        /\ committedAccountWrites' = committedAccountWrites
    BY <1>4
    DEF FrameStep, ReadAccount, ReadCode, WriteAccount, ReadSlot, WriteSlot, DeployCode,
        RefuseWrite, GetAccount, GetContractCode, PutAccount, txVars, accountVars
  <2> QED
    BY <1>3, <2>1, <2>2
<1>5. CASE BuyGas \/ RaiseNonce \/ Settle
  <2>1. checkpointCount = 1 /\ committedAccountWrites = NoAccounts
    BY <1>1, <1>5 DEF BuyGas, RaiseNonce, Settle, TouchCaller, Phases
  <2>2. PICK data \in Data :
          PutAccount(Caller, [data |-> data, code |-> AccountView(Caller).code])
    BY <1>5 DEF BuyGas, RaiseNonce, Settle, TouchCaller
  <2> DEFINE account == [data |-> data, code |-> AccountView(Caller).code]
  <2>3. account \in Account
    BY <1>2, AccountAtType, LenProperties, CallerAssumption
    DEF AccountView, Account, StateTypeOK
  <2>4. PutAccount(Caller, account)
    BY <2>2
  <2> HIDE DEF account
  <2>5. /\ checkpointCount' = 1 /\ committedAccountWrites' = NoAccounts
        /\ allAccountWritesStack'[1][Caller] = account
    BY <1>2, <2>1, <2>3, <2>4, CallerAssumption, PutAccountTypes DEF StateTypeOK
  <2> QED
    BY <1>1, <1>5, <2>3, <2>5, EntryAssumption
    DEF BuyGas, RaiseNonce, Settle, TouchCaller, Phases, ThrownTxReportsNothing,
        SuccessChargesCaller
<1> QED
  BY <1>4, <1>5

THEOREM PhaseInvHolds ==
  ASSUME cleanStaleShardeumStateMap
  PROVE  Spec => []PhaseInv
<1>1. PhaseInv /\ [Next]_vars => PhaseInv'
  <2> SUFFICES ASSUME PhaseInv, [Next]_vars
               PROVE  PhaseInv'
    OBVIOUS
  <2>1. TypeInv'
    BY NextKeepsTypeInv DEF PhaseInv
  <2>2. CASE UNCHANGED vars
    BY <2>1, <2>2
    DEF vars, txVars, accountVars, storageVars, codeVars, control, PhaseInv, Phases,
        Fresh, ThrownTxReportsNothing, SuccessChargesCaller
  <2> QED
    BY <2>1, <2>2, OuterStepPhases, CheckpointStepPhases, AccessStepPhases
    DEF Next, PhaseInv
<1> QED
  BY <1>1, InitPhases, PTL DEF Spec

\* runTx reverts one checkpoint only, and that is enough: with used state objects
\* replaced, a transaction that threw at any depth of calls reports no account,
\* no slot and no code.
THEOREM ThrownReportsNothing ==
  ASSUME cleanStaleShardeumStateMap
  PROVE  Spec => []ThrownTxReportsNothing
<1>1. PhaseInv => ThrownTxReportsNothing
  BY DEF PhaseInv
<1> QED
  BY <1>1, PhaseInvHolds, PTL

\* The account of the sender is in what a successful transaction reports: the
\* layers of its frames reach the committed writes.
THEOREM SuccessIsCharged ==
  ASSUME cleanStaleShardeumStateMap
  PROVE  Spec => []SuccessChargesCaller
<1>1. PhaseInv => SuccessChargesCaller
  BY DEF PhaseInv
<1> QED
  BY <1>1, PhaseInvHolds, PTL

-----------------------------------------------------------------------------
(* The stack of layers of the state object implements WorldState. *)


\* The refinement mapping of ApplyTx, by name.
World == [a \in Addresses |-> AccountView(a)]
Saved == [n \in 1..Len(allAccountWritesStack) |->
            [a \in Addresses |-> AccountAt(n - 1, a)]]
Running == pc \notin {"idle", "load", "reported"}

Worlds == [Addresses -> Account]

\* World and the saved ones are worlds; there is one for each layer.
LEMMA MappingTypes ==
  TypeInv => World \in Worlds /\ Saved \in Seq(Worlds) /\ Len(Saved) = checkpointCount
<1> SUFFICES ASSUME TypeInv
             PROVE  /\ World \in Worlds /\ Saved \in Seq(Worlds)
                    /\ Len(Saved) = checkpointCount
  OBVIOUS
<1> DEFINE top == Len(allAccountWritesStack)
<1>1. StateTypeOK /\ top \in Nat /\ checkpointCount = top
  BY TypeOKInParts, LenProperties DEF TypeInv, StateTypeOK
<1>2. \A n \in 0..top, a \in Addresses : AccountAt(n, a) \in Account
  BY <1>1, AccountAtType
<1>3. World \in Worlds
  BY <1>1, <1>2 DEF World, Worlds, AccountView
<1>4. Saved \in [1..top -> Worlds]
  BY <1>1, <1>2 DEF Saved, Worlds
<1> HIDE DEF top
<1>5. Saved \in Seq(Worlds) /\ Len(Saved) = top
  BY <1>1, <1>4
<1> QED
  BY <1>1, <1>3, <1>5

LEMMA MappingTypesNext ==
  (TypeInv =>
     World \in Worlds /\ Saved \in Seq(Worlds) /\ Len(Saved) = checkpointCount)'
BY MappingTypes, PTL

\* A step under which getAccount returns the same at every height.
LEMMA SameView ==
  ASSUME TypeInv, Len(allAccountWritesStack)' = Len(allAccountWritesStack),
         \A n \in 0..Len(allAccountWritesStack), a \in Addresses :
           AccountAt(n, a)' = AccountAt(n, a)
  PROVE  World' = World /\ Saved' = Saved
<1>1. Len(allAccountWritesStack) \in Nat
  BY TypeOKInParts, LenProperties DEF TypeInv, StateTypeOK
<1>2. PICK top \in Nat : top = Len(allAccountWritesStack)
  BY <1>1
<1>3. World' = World
  <2>1. \A a \in Addresses : AccountView(a)' = AccountView(a)
    BY <1>2 DEF AccountView
  <2> QED
    BY <2>1 DEF World
<1>4. Saved' = Saved
  BY <1>2 DEF Saved
<1> QED
  BY <1>3, <1>4

-----------------------------------------------------------------------------
(* Each operation does to World and Saved what WorldState says.            *)

LEMMA PutMaps ==
  ASSUME TypeInv, NEW b \in Addresses, NEW account \in Account,
         PutAccount(b, account), checkpointCount > 0, storedAccounts' = storedAccounts
  PROVE  World' = [World EXCEPT ![b] = account] /\ Saved' = Saved
<1>1. StateTypeOK /\ Len(allAccountWritesStack) \in Nat
      /\ checkpointCount = Len(allAccountWritesStack)
  BY TypeOKInParts, LenProperties DEF TypeInv, StateTypeOK
<1>2. PICK top \in Nat : top = Len(allAccountWritesStack) /\ top > 0
  BY <1>1
<1>3. Len(allAccountWritesStack)' = top
  BY <1>1, <1>2, PutAccountTypes
<1>4. \A a \in Addresses :
        /\ \A n \in 0..(top - 1) : AccountAt(n, a)' = AccountAt(n, a)
        /\ AccountAt(top, a)' = IF a = b THEN account ELSE AccountAt(top, a)
  BY <1>1, <1>2, EntryAssumption, PutAccountView
<1>5. World' = [World EXCEPT ![b] = account]
  <2>1. World = [a \in Addresses |-> AccountAt(top, a)]
    BY <1>2 DEF World, AccountView
  <2>2. World' = [a \in Addresses |-> AccountAt(top, a)']
    BY <1>3 DEF World, AccountView
  <2> QED
    BY <1>4, <2>1, <2>2
<1>6. Saved' = Saved
  <2>1. Saved = [n \in 1..top |-> [a \in Addresses |-> AccountAt(n - 1, a)]]
    BY <1>2 DEF Saved
  <2>2. Saved' = [n \in 1..top |-> [a \in Addresses |-> AccountAt(n - 1, a)']]
    BY <1>3 DEF Saved
  <2>3. \A n \in 1..top, a \in Addresses : AccountAt(n - 1, a)' = AccountAt(n - 1, a)
    BY <1>2, <1>4
  <2> QED
    BY <2>1, <2>2, <2>3
<1> QED
  BY <1>5, <1>6

LEMMA CheckpointMaps ==
  ASSUME TypeInv, TypeInv', Checkpoint, storedAccounts' = storedAccounts
  PROVE  World' = World /\ Saved' = Append(Saved, World)
<1>1. StateTypeOK /\ Len(allAccountWritesStack) \in Nat
      /\ checkpointCount = Len(allAccountWritesStack)
  BY TypeOKInParts, LenProperties DEF TypeInv, StateTypeOK
<1>2. PICK top \in Nat : top = Len(allAccountWritesStack)
  BY <1>1
<1>3. Len(allAccountWritesStack)' = top + 1
  BY <1>1, <1>2, CheckpointEffect
<1>4. \A a \in Addresses :
        /\ \A n \in 0..top : AccountAt(n, a)' = AccountAt(n, a)
        /\ AccountAt(top + 1, a)' = AccountAt(top, a)
  BY <1>1, <1>2, CheckpointKeepsView
<1>5. World = [a \in Addresses |-> AccountAt(top, a)]
  BY <1>2 DEF World, AccountView
<1>6. World' = World
  <2>1. World' = [a \in Addresses |-> AccountAt(top + 1, a)']
    BY <1>3 DEF World, AccountView
  <2> QED
    BY <1>4, <1>5, <2>1
<1>7. Saved' = Append(Saved, World)
  <2>1. World \in Worlds /\ Saved \in Seq(Worlds) /\ Len(Saved) = top
        /\ Saved' \in Seq(Worlds)
    BY <1>1, <1>2, MappingTypes, MappingTypesNext
  <2>2. Len(Saved') = top + 1
    BY <1>3, LenProperties, <2>1, MappingTypesNext, TypeOKInPartsNext
    DEF TypeInv, StateTypeOK
  <2>3. \A n \in 1..top : Saved[n] = [a \in Addresses |-> AccountAt(n - 1, a)]
    BY <1>2 DEF Saved
  <2>4. \A n \in 1..(top + 1) : Saved'[n] = [a \in Addresses |-> AccountAt(n - 1, a)']
    BY <1>3 DEF Saved
  <2>5. \A n \in 1..(top + 1), a \in Addresses :
          AccountAt(n - 1, a)' = AccountAt(n - 1, a)
    BY <1>2, <1>4
  <2>6. /\ Append(Saved, World) \in Seq(Worlds) /\ Len(Append(Saved, World)) = top + 1
        /\ \A n \in 1..top : Append(Saved, World)[n] = Saved[n]
        /\ Append(Saved, World)[top + 1] = World
    BY <2>1, AppendProperties
  <2>7. \A n \in 1..(top + 1) : Saved'[n] = Append(Saved, World)[n]
    <3> SUFFICES ASSUME NEW n \in 1..(top + 1)
                 PROVE  Saved'[n] = Append(Saved, World)[n]
      OBVIOUS
    <3>1. Saved'[n] = [a \in Addresses |-> AccountAt(n - 1, a)]
      <4>1. \A a \in Addresses : AccountAt(n - 1, a)' = AccountAt(n - 1, a)
        BY <2>5
      <4>2. Saved'[n] = [a \in Addresses |-> AccountAt(n - 1, a)']
        BY <2>4
      <4> QED
        BY <4>1, <4>2
    <3>2. CASE n \in 1..top
      <4>1. Saved[n] = [a \in Addresses |-> AccountAt(n - 1, a)]
        BY <2>3, <3>2
      <4>2. Append(Saved, World)[n] = Saved[n]
        BY <2>6, <3>2
      <4> QED
        BY <3>1, <4>1, <4>2, Zenon
    <3>3. CASE n = top + 1
      BY <1>5, <2>6, <3>1, <3>3
    <3>4. n \in 1..top \/ n = top + 1
      OBVIOUS
    <3> QED
      BY <3>2, <3>3, <3>4, Zenon
  <2> QED
    BY <2>1, <2>2, <2>6, <2>7, SeqEqual
<1> QED
  BY <1>6, <1>7

\* Saved without its last world.
LEMMA DropMaps ==
  ASSUME TypeInv, TypeInv', NEW top \in Nat, top > 0, top = Len(allAccountWritesStack),
         Len(allAccountWritesStack)' = top - 1,
         \A n \in 0..(top - 2), a \in Addresses : AccountAt(n, a)' = AccountAt(n, a)
  PROVE  Saved' = SubSeq(Saved, 1, Len(Saved) - 1)
<1>1. Saved \in Seq(Worlds) /\ Len(Saved) = top /\ Saved' \in Seq(Worlds)
      /\ Len(Saved') = top - 1
  BY MappingTypes, MappingTypesNext, TypeOKInParts, TypeOKInPartsNext
  DEF TypeInv, StateTypeOK
<1>2. \A n \in 1..top : Saved[n] = [a \in Addresses |-> AccountAt(n - 1, a)]
  BY DEF Saved
<1>3. \A n \in 1..(top - 1) : Saved'[n] = [a \in Addresses |-> AccountAt(n - 1, a)']
  BY DEF Saved
<1>4. \A n \in 1..(top - 1), a \in Addresses :
        AccountAt(n - 1, a)' = AccountAt(n - 1, a)
  OBVIOUS
<1>5. \A n \in 1..(top - 1) : Saved'[n] = Saved[n]
  <2> SUFFICES ASSUME NEW n \in 1..(top - 1)
               PROVE  Saved'[n] = Saved[n]
    OBVIOUS
  <2>1. \A a \in Addresses : AccountAt(n - 1, a)' = AccountAt(n - 1, a)
    BY <1>4
  <2>2. Saved'[n] = [a \in Addresses |-> AccountAt(n - 1, a)']
    BY <1>3
  <2>3. Saved[n] = [a \in Addresses |-> AccountAt(n - 1, a)]
    BY <1>2
  <2> QED
    BY <2>1, <2>2, <2>3
<1> DEFINE rest == SubSeq(Saved, 1, top - 1)
<1>6. \A n \in 1..(top - 1) : Saved[n] \in Worlds
  BY <1>1, ElementOfSeq
<1>7. /\ rest \in Seq(Worlds)
      /\ Len(rest) = IF 1 <= top - 1 THEN (top - 1) - 1 + 1 ELSE 0
      /\ \A n \in 1..((top - 1) - 1 + 1) : rest[n] = Saved[1 + n - 1]
  <2>1. top - 1 \in Int
    OBVIOUS
  <2> QED
    BY <1>6, <2>1, SubSeqProperties
<1> HIDE DEF rest
<1>8. Len(rest) = top - 1 /\ \A n \in 1..(top - 1) : rest[n] = Saved[n]
  BY <1>7
<1>9. Saved' = rest
  BY <1>1, <1>5, <1>7, <1>8, SeqEqual
<1> QED
  BY <1>1, <1>9 DEF rest

LEMMA RevertMaps ==
  ASSUME TypeInv, TypeInv', Revert, checkpointCount > 0,
         storedAccounts' = storedAccounts
  PROVE  World' = Saved[Len(Saved)] /\ Saved' = SubSeq(Saved, 1, Len(Saved) - 1)
<1>1. StateTypeOK /\ Len(allAccountWritesStack) \in Nat
      /\ checkpointCount = Len(allAccountWritesStack)
  BY TypeOKInParts, LenProperties DEF TypeInv, StateTypeOK
<1>2. PICK top \in Nat : top = Len(allAccountWritesStack) /\ top > 0
  BY <1>1
<1>3. Len(allAccountWritesStack)' = top - 1
  BY <1>1, <1>2, DropTopLayerEffect DEF Revert
<1>4. \A n \in 0..(top - 1), a \in Addresses : AccountAt(n, a)' = AccountAt(n, a)
  BY <1>1, <1>2, RevertKeepsOldView
<1>5. World' = Saved[Len(Saved)]
  <2>1. World' = [a \in Addresses |-> AccountAt(top - 1, a)']
    BY <1>3 DEF World, AccountView
  <2>2. Len(Saved) = top
    BY <1>1, <1>2, MappingTypes
  <2>3. Saved[top] = [a \in Addresses |-> AccountAt(top - 1, a)]
    BY <1>2 DEF Saved
  <2>4. \A a \in Addresses : AccountAt(top - 1, a)' = AccountAt(top - 1, a)
    BY <1>2, <1>4
  <2> QED
    BY <2>1, <2>2, <2>3, <2>4
<1>6. Saved' = SubSeq(Saved, 1, Len(Saved) - 1)
  <2>1. \A n \in 0..(top - 2), a \in Addresses : AccountAt(n, a)' = AccountAt(n, a)
    BY <1>2, <1>4
  <2> QED
    BY <1>2, <1>3, <2>1, DropMaps
<1> QED
  BY <1>5, <1>6

LEMMA CommitMaps ==
  ASSUME TypeInv, TypeInv', Commit, checkpointCount > 0,
         storedAccounts' = storedAccounts, committedAccountWrites = NoAccounts
  PROVE  World' = World /\ Saved' = SubSeq(Saved, 1, Len(Saved) - 1)
<1>1. StateTypeOK /\ Len(allAccountWritesStack) \in Nat
      /\ checkpointCount = Len(allAccountWritesStack)
  BY TypeOKInParts, LenProperties DEF TypeInv, StateTypeOK
<1>2. PICK top \in Nat : top = Len(allAccountWritesStack) /\ top > 0
  BY <1>1
<1>3. Len(allAccountWritesStack)' = top - 1
  BY <1>1, <1>2, CommitEffect
<1>4. \A a \in Addresses :
        /\ \A n \in 0..(top - 2) : AccountAt(n, a)' = AccountAt(n, a)
        /\ AccountAt(top - 1, a)' = AccountAt(top, a)
  BY <1>1, <1>2, CommitKeepsView
<1>5. World' = World
  <2>1. World' = [a \in Addresses |-> AccountAt(top - 1, a)']
    BY <1>3 DEF World, AccountView
  <2>2. World = [a \in Addresses |-> AccountAt(top, a)]
    BY <1>2 DEF World, AccountView
  <2> QED
    BY <1>4, <2>1, <2>2
<1>6. Saved' = SubSeq(Saved, 1, Len(Saved) - 1)
  BY <1>2, <1>3, <1>4, DropMaps
<1> QED
  BY <1>5, <1>6

-----------------------------------------------------------------------------
(* Every step of ApplyTx is a step of WorldState, or none.                 *)

Stuttering == UNCHANGED <<World, Saved, Running>>

LEMMA AbstractSteps ==
  /\ Stuttering => UNCHANGED Accounts!vars
  /\ ~Running /\ Saved = <<>> /\ Running' /\ World' = World /\ Saved' = Saved
       => Accounts!Next
  /\ \A k \in Addresses, v \in Account :
       Running /\ World' = [World EXCEPT ![k] = v] /\ Saved' = Saved
       /\ Running' = Running
         => Accounts!Next
  /\ Running /\ World' = World /\ Saved' = Append(Saved, World) /\ Running' = Running
       => Accounts!Next
  /\ Running /\ Saved # <<>> /\ World' = World
     /\ Saved' = SubSeq(Saved, 1, Len(Saved) - 1) /\ Running' = Running
       => Accounts!Next
  /\ Running /\ Saved # <<>> /\ World' = Saved[Len(Saved)]
     /\ Saved' = SubSeq(Saved, 1, Len(Saved) - 1) /\ Running' = Running
       => Accounts!Next
  /\ Running /\ ~Running' /\ World' = World /\ Saved' = Saved
       => Accounts!Next
  /\ ~Running /\ World' \in Worlds /\ Saved' = <<>> /\ Running' = Running
       => Accounts!Next
<1>1. Stuttering => UNCHANGED Accounts!vars
  BY DEF Stuttering, Accounts!vars, World, Saved, Running
<1>2. ~Running /\ Saved = <<>> /\ Running' /\ World' = World /\ Saved' = Saved
        => Accounts!Next
  BY DEF Accounts!Next, Accounts!Begin, World, Saved, Running
<1>3. ASSUME NEW k \in Addresses, NEW v \in Account, Running,
             World' = [World EXCEPT ![k] = v], Saved' = Saved, Running' = Running
      PROVE  Accounts!Next
  BY <1>3 DEF Accounts!Next, Accounts!Put, World, Saved, Running
<1>4. Running /\ World' = World /\ Saved' = Append(Saved, World) /\ Running' = Running
        => Accounts!Next
  BY DEF Accounts!Next, Accounts!Checkpoint, World, Saved, Running
<1>5. Running /\ Saved # <<>> /\ World' = World
      /\ Saved' = SubSeq(Saved, 1, Len(Saved) - 1) /\ Running' = Running
        => Accounts!Next
  BY DEF Accounts!Next, Accounts!Commit, Accounts!Drop, World, Saved, Running
<1>6. Running /\ Saved # <<>> /\ World' = Saved[Len(Saved)]
      /\ Saved' = SubSeq(Saved, 1, Len(Saved) - 1) /\ Running' = Running
        => Accounts!Next
  BY DEF Accounts!Next, Accounts!Revert, Accounts!Drop, World, Saved, Running
<1>7. Running /\ ~Running' /\ World' = World /\ Saved' = Saved => Accounts!Next
  BY DEF Accounts!Next, Accounts!End, World, Saved, Running
<1>8. ~Running /\ World' \in Worlds /\ Saved' = <<>> /\ Running' = Running
        => Accounts!Next
  BY DEF Accounts!Next, Accounts!Replace, World, Worlds, Saved, Running
<1> QED
  BY <1>1, <1>2, <1>3, <1>4, <1>5, <1>6, <1>7, <1>8

\* Worlds depend on the accounts only.
LEMMA UnchangedAccounts ==
  ASSUME UNCHANGED accountVars, storedAccounts' = storedAccounts, TypeInv
  PROVE  World' = World /\ Saved' = Saved
<1>1. \A n \in Nat, a \in Addresses : AccountAt(n, a)' = AccountAt(n, a)
  BY OldLayersDecide DEF accountVars, BaseAccount
<1>2. Len(allAccountWritesStack)' = Len(allAccountWritesStack)
  BY DEF accountVars
<1>3. Len(allAccountWritesStack) \in Nat
  BY TypeOKInParts, LenProperties DEF TypeInv, StateTypeOK
<1> QED
  BY <1>1, <1>2, <1>3, SameView

LEMMA UnchangedByRead ==
  ASSUME NEW a \in Addresses, GetAccount(a), storedAccounts' = storedAccounts, TypeInv
  PROVE  World' = World /\ Saved' = Saved
<1>1. \A n \in Nat, b \in Addresses : AccountAt(n, b)' = AccountAt(n, b)
  BY TypeOKInParts, GetAccountKeepsView DEF TypeInv
<1>2. Len(allAccountWritesStack)' = Len(allAccountWritesStack)
  BY DEF GetAccount
<1>3. Len(allAccountWritesStack) \in Nat
  BY TypeOKInParts, LenProperties DEF TypeInv, StateTypeOK
<1> QED
  BY <1>1, <1>2, <1>3, SameView

\* What apply() inserts is what it would have found, if the state object is new.
LEMMA LoadReadsMaps ==
  ASSUME PhaseInv, LoadReads
  PROVE  World' = World /\ Saved' = Saved /\ Saved = <<>>
<1>1. StateTypeOK /\ TypeInv /\ Fresh
  BY TypeOKInParts DEF PhaseInv, TypeInv, Phases, LoadReads
<1>2. PICK accounts \in SUBSET Addresses, slots \in SUBSET Slots :
        InsertFirstReads(accounts, slots)
  BY DEF LoadReads
<1>3. NewAccount \in Account
  BY DataAssumption DEF NewAccount, Account
<1>4. \A a \in Addresses : BaseAccount(a)' = BaseAccount(a)
  BY <1>1, <1>2, <1>3, EntryAssumption
  DEF BaseAccount, InsertFirstReads, Fresh, NoAccounts, LoadReads, stored
<1>5. allAccountWritesStack' = allAccountWritesStack
  BY <1>2 DEF InsertFirstReads
<1>6. \A n \in Nat, a \in Addresses : AccountAt(n, a)' = AccountAt(n, a)
  BY <1>4, <1>5, OldLayersDecide
<1>7. Len(allAccountWritesStack) \in Nat
  BY <1>1, LenProperties DEF StateTypeOK
<1>8. Saved \in Seq(Worlds) /\ Len(Saved) = 0
  BY <1>1, MappingTypes DEF Fresh
<1>9. Saved = <<>>
  BY <1>8, EmptySeq
<1> QED
  BY <1>1, <1>5, <1>6, <1>7, <1>9, SameView

LEMMA EveryStepMaps ==
  ASSUME PhaseInv, PhaseInv', [Next]_vars, cleanStaleShardeumStateMap
  PROVE  Accounts!Next \/ Stuttering
<1>1. TypeInv /\ TypeInv' /\ Phases /\ Phases'
  BY DEF PhaseInv
<1>2. /\ StateTypeOK /\ checkpointCount \in Nat
      /\ (pc \in {"buyGas", "nonce", "call", "frame", "settle", "commit"}
            => checkpointCount > 0)
  BY <1>1, TypeOKInParts, LenProperties
  DEF TypeInv, StateTypeOK, ControlTyped, LayersSuffice
<1>3. checkpointCount > 0 => Saved # <<>>
  BY <1>1, MappingTypes, EmptySeq
<1>4. World' \in Worlds /\ Saved' \in Seq(Worlds)
      /\ (checkpointCount' = 0 => Saved' = <<>>)
  BY <1>1, MappingTypesNext, EmptySeq
<1>5. CASE BeginApply
  <2>1. checkpointCount' = 0
    BY <1>1, <1>5 DEF BeginApply, Phases, Fresh
  <2>2. ~Running /\ ~Running'
    BY <1>5 DEF BeginApply, Running
  <2> QED
    BY <1>4, <2>1, <2>2, AbstractSteps DEF Running
<1>6. CASE LoadReads
  <2>1. World' = World /\ Saved' = Saved /\ Saved = <<>>
    BY <1>6, LoadReadsMaps
  <2>2. ~Running /\ (Running' \/ Running' = Running)
    BY <1>6 DEF LoadReads, Running
  <2> QED
    BY <2>1, <2>2, AbstractSteps DEF Stuttering
<1>7. CASE RunTx \/ RunCall
  <2>1. World' = World /\ Saved' = Append(Saved, World)
    BY <1>1, <1>7, CheckpointMaps DEF RunTx, RunCall, stored
  <2>2. Running /\ Running'
    BY <1>7 DEF RunTx, RunCall, Running
  <2> QED
    BY <2>1, <2>2, AbstractSteps DEF Running
<1>8. CASE BuyGas \/ RaiseNonce \/ Settle
  <2>1. PICK data \in Data :
          PutAccount(Caller, [data |-> data, code |-> AccountView(Caller).code])
    BY <1>8 DEF BuyGas, RaiseNonce, Settle, TouchCaller
  <2> DEFINE account == [data |-> data, code |-> AccountView(Caller).code]
  <2>2. account \in Account
    BY <1>2, AccountAtType, LenProperties, CallerAssumption
    DEF AccountView, Account, StateTypeOK
  <2>3. PutAccount(Caller, account) /\ checkpointCount > 0
        /\ storedAccounts' = storedAccounts /\ Running /\ Running'
    BY <1>2, <1>8, <2>1 DEF BuyGas, RaiseNonce, Settle, TouchCaller, stored, Running
  <2> HIDE DEF account
  <2>4. World' = [World EXCEPT ![Caller] = account] /\ Saved' = Saved
    BY <1>1, <2>2, <2>3, CallerAssumption, PutMaps
  <2> QED
    BY <2>2, <2>3, <2>4, CallerAssumption, AbstractSteps DEF Running
<1>9. CASE Return \/ CommitTx
  <2>1. World' = World /\ Saved' = SubSeq(Saved, 1, Len(Saved) - 1)
    BY <1>1, <1>2, <1>9, CommitMaps DEF Return, CommitTx, Phases, stored
  <2>2. Running /\ Running' /\ checkpointCount > 0
    BY <1>2, <1>9 DEF Return, CommitTx, Running
  <2> QED
    BY <1>3, <2>1, <2>2, AbstractSteps DEF Running
<1>10. CASE Fail \/ Throw
  <2>1. World' = Saved[Len(Saved)] /\ Saved' = SubSeq(Saved, 1, Len(Saved) - 1)
    BY <1>1, <1>2, <1>10, RevertMaps DEF Fail, Throw, stored
  <2>2. Running /\ Running' /\ checkpointCount > 0
    BY <1>2, <1>10 DEF Fail, Throw, Running
  <2> QED
    BY <1>3, <2>1, <2>2, AbstractSteps DEF Running
<1>11. CASE FrameStep
  <2>1. ASSUME NEW a \in Addresses, NEW data \in Data, WriteAccount(a, data)
        PROVE  Accounts!Next
    <3> DEFINE account == [data |-> data, code |-> AccountView(a).code]
    <3>1. account \in Account
      BY <1>2, AccountAtType, LenProperties DEF AccountView, Account, StateTypeOK
    <3>2. PutAccount(a, account) /\ checkpointCount > 0
          /\ storedAccounts' = storedAccounts /\ Running /\ Running'
      BY <1>2, <2>1 DEF WriteAccount, stored, control, Running
    <3> HIDE DEF account
    <3>3. World' = [World EXCEPT ![a] = account] /\ Saved' = Saved
      BY <1>1, <3>1, <3>2, PutMaps
    <3> QED
      BY <3>1, <3>2, <3>3, AbstractSteps DEF Running
  <2>2. ASSUME NEW a \in Addresses, ReadAccount(a) \/ ReadCode(a)
        PROVE  Stuttering
    BY <1>1, <2>2, UnchangedByRead
    DEF ReadAccount, ReadCode, GetContractCode, stored, control, Running, Stuttering
  <2>3. ASSUME UNCHANGED accountVars, UNCHANGED stored, UNCHANGED control
        PROVE  Stuttering
    BY <1>1, <2>3, UnchangedAccounts DEF stored, control, Running, Stuttering
  <2>4. ASSUME NEW s \in Slots, ReadSlot(s)
        PROVE  Stuttering
    BY <2>3, <2>4 DEF ReadSlot
  <2>5. ASSUME NEW s \in Slots, NEW word \in Words, WriteSlot(s, word)
        PROVE  Stuttering
    BY <2>3, <2>5 DEF WriteSlot
  <2>6. ASSUME NEW a \in Addresses, NEW code \in Codes, DeployCode(a, code)
        PROVE  Stuttering
    BY <2>3, <2>6 DEF DeployCode
  <2>7. CASE RefuseWrite
    BY <2>3, <2>7 DEF RefuseWrite, txVars
  <2> QED
    BY <1>11, <2>1, <2>2, <2>4, <2>5, <2>6, <2>7 DEF FrameStep
<1>12. CASE Report
  <2>1. World' = World /\ Saved' = Saved
    BY <1>1, <1>12, UnchangedAccounts DEF Report, txVars, stored
  <2>2. Running /\ ~Running'
    BY <1>12 DEF Report, Running
  <2> QED
    BY <2>1, <2>2, AbstractSteps
<1>13. CASE ReceiptPass \/ ReceiptFail
  <2>1. checkpointCount' = 0 /\ ~Running /\ ~Running'
    BY <1>13 DEF ReceiptPass, ReceiptFail, InitDataAgain, Running
  <2> QED
    BY <1>4, <2>1, AbstractSteps DEF Running
<1>14. CASE NoReceipt \/ UNCHANGED vars
  <2>1. World' = World /\ Saved' = Saved
    BY <1>1, <1>14, UnchangedAccounts DEF NoReceipt, vars, txVars, stored
  <2>2. Running' = Running
    BY <1>14 DEF NoReceipt, vars, control, Running
  <2> QED
    BY <2>1, <2>2 DEF Stuttering
<1> QED
  BY <1>5, <1>6, <1>7, <1>8, <1>9, <1>10, <1>11, <1>12, <1>13, <1>14 DEF Next

\* The accounts of the state object, a stack of maps over committed writes over
\* first reads over storage, are a world with nested checkpoints: for any depth of
\* message calls, any order of commits, failures and errors, and any number of
\* applies of the transaction, if used state objects are replaced.
THEOREM StateObjectImplementsWorldState ==
  ASSUME cleanStaleShardeumStateMap
  PROVE  Spec => AccountsImplementWorldState
<1>1. Init => Accounts!Init
  <2> SUFFICES ASSUME Init
               PROVE  Accounts!Init
    OBVIOUS
  <2>1. TypeInv /\ checkpointCount = 0 /\ ~Running
    BY InitTypes DEF Init, InitData, Running
  <2>2. World \in Worlds /\ Saved = <<>>
    BY <2>1, MappingTypes, EmptySeq
  <2> QED
    BY <2>1, <2>2 DEF Accounts!Init, World, Worlds, Saved, Running
<1>2. PhaseInv /\ PhaseInv' /\ [Next]_vars => [Accounts!Next]_(Accounts!vars)
  BY EveryStepMaps, AbstractSteps
<1> QED
  BY <1>1, <1>2, PhaseInvHolds, PTL DEF Spec, Accounts!Spec, AccountsImplementWorldState
==============================================================================
