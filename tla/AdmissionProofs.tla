--------------------------- MODULE AdmissionProofs ---------------------------
(***************************************************************************)
(* The keys that crack locks cover what apply() writes, for any            *)
(* transactions, slots, nonces, blocks and prices and any number of        *)
(* changes that other transactions make.                                   *)
(***************************************************************************)
EXTENDS Admission, TLAPS

KeysOfList(list) ==
  UNION {{AccountKey(item.address)}
           \cup {StorageKey(item.address, s) : s \in item.storageKeys} : item \in list}
KeysOfHashes(hashes) == {CodeKey(c[1], c[2]) : c \in hashes}

\* The list and the hashes that are made of a run cover what it writes, if no contract
\* has one code read and another one written.
LEMMA ListCoversRun ==
  ASSUME NEW run,
         \A c \in run.codeWrites, r \in run.codeReads : r[1] # c[1]
  PROVE  writeSet(run) \subseteq
           {AccountKey(run.sender)} \cup KeysOfList(accessList(run))
             \cup KeysOfHashes(codeHashes(run))
<1> DEFINE slotsOf(a) == {s[2] : s \in {t \in run.slotReads \cup run.slotWrites : t[1] = a}}
           itemOf(a) == [address |-> a, storageKeys |-> slotsOf(a)]
<1>1. ASSUME NEW a \in allInvolvedContracts(run)
      PROVE  itemOf(a) \in accessList(run)
  BY DEF accessList
<1>2. ASSUME NEW a \in run.accountWrites
      PROVE  AccountKey(a) \in KeysOfList(accessList(run))
  <2>1. a \in allInvolvedContracts(run)
    BY DEF allInvolvedContracts
  <2>2. itemOf(a) \in accessList(run) /\ itemOf(a).address = a
    BY <1>1, <2>1
  <2>. QED
    BY <2>2 DEF KeysOfList
<1>3. ASSUME NEW s \in run.slotWrites
      PROVE  StorageKey(s[1], s[2]) \in KeysOfList(accessList(run))
  <2>1. s[1] \in allInvolvedContracts(run)
    BY DEF allInvolvedContracts
  <2>2. s[2] \in slotsOf(s[1])
    OBVIOUS
  <2> DEFINE item == itemOf(s[1])
  <2>3. item \in accessList(run) /\ item.address = s[1] /\ s[2] \in item.storageKeys
    BY <1>1, <2>1, <2>2
  <2> HIDE DEF item
  <2>4. StorageKey(item.address, s[2]) \in KeysOfList(accessList(run))
    BY <2>3 DEF KeysOfList
  <2>. QED
    BY <2>3, <2>4
<1>4. ASSUME NEW c \in run.codeWrites
      PROVE  CodeKey(c[1], c[2]) \in KeysOfHashes(codeHashes(run))
  BY DEF codeHashes, KeysOfHashes
<1>. QED
  BY <1>2, <1>3, <1>4 DEF writeSet

\* The list covers every account and slot of its run.
LEMMA ListCoversAsked ==
  ASSUME NEW run
  PROVE  Asked(run) \subseteq KeysOfList(accessList(run))
<1> DEFINE slotsOf(a) == {s[2] : s \in {t \in run.slotReads \cup run.slotWrites : t[1] = a}}
           itemOf(a) == [address |-> a, storageKeys |-> slotsOf(a)]
<1>1. ASSUME NEW a \in allInvolvedContracts(run)
      PROVE  itemOf(a) \in accessList(run)
  BY DEF accessList
<1>2. ASSUME NEW a \in run.accountReads \cup run.accountWrites
      PROVE  AccountKey(a) \in KeysOfList(accessList(run))
  <2>1. a \in allInvolvedContracts(run)
    BY DEF allInvolvedContracts
  <2>2. itemOf(a) \in accessList(run) /\ itemOf(a).address = a
    BY <1>1, <2>1
  <2>. QED
    BY <2>2 DEF KeysOfList
<1>3. ASSUME NEW s \in run.slotReads \cup run.slotWrites
      PROVE  StorageKey(s[1], s[2]) \in KeysOfList(accessList(run))
  <2>1. s[1] \in allInvolvedContracts(run)
    BY DEF allInvolvedContracts
  <2>2. s[2] \in slotsOf(s[1])
    OBVIOUS
  <2> DEFINE item == itemOf(s[1])
  <2>3. item \in accessList(run) /\ item.address = s[1] /\ s[2] \in item.storageKeys
    BY <1>1, <2>1, <2>2
  <2> HIDE DEF item
  <2>4. StorageKey(item.address, s[2]) \in KeysOfList(accessList(run))
    BY <2>3 DEF KeysOfList
  <2>. QED
    BY <2>3, <2>4
<1>. QED
  BY <1>2, <1>3 DEF Asked

\* What apply() writes is never announced as read only.
LEMMA PatternsFit ==
  ASSUME NEW run
  PROVE  writeSet(run) \cap shardusMemoryPatterns(run).ro = {}
BY DEF shardusMemoryPatterns

-----------------------------------------------------------------------------
(* The invariant.                                                          *)

Places == {"fetchSender", "fetchTarget", "accessList", "stakeOrder", "nominee",
           "validate", "crack", "relevant", "apply", "applied", "refused"}
Prepared == {"validate", "crack", "relevant", "apply", "applied"}

TypesFit ==
  /\ tx \in Transactions
  /\ pc \in Places
  /\ nonce \in 0 .. MaxNonce
  /\ target \in {"missing", "plain", "contract"}
  /\ DOMAIN appData = DOMAIN NoData

\* Which transactions come to which place.
PlacesFit ==
  /\ ~IsEvm => pc \in Prepared \cup {"refused"}
  /\ pc = "fetchTarget" => ~Deploys
  /\ pc = "accessList" => ~isStakingEVMTx /\ (~Deploys => target = "contract")
  /\ pc \in {"stakeOrder", "nominee"} => isStakingEVMTx

\* What has not been fetched yet is not in the data of the transaction.
DataFits ==
  /\ pc \in {"fetchSender", "fetchTarget"} \/ (IsEvm /\ ~Deploys)
       => appData.newCAAddr = NoAddress
  /\ ~isStakingEVMTx => appData.internalTx = NoOrder
  /\ pc \in {"fetchSender", "fetchTarget", "accessList"} \/ isStakingEVMTx \/ ~IsEvm
       => appData.patterns = NoPatterns

\* The run that apply() makes if its code sees what that of the prediction saw, while the
\* target is as it is.
Foreseen == RunOf(tx.nonce, foreseen, FALSE)

ListForeseen ==
  /\ appData.accessList = accessList(Foreseen)
  /\ appData.codeHashes = codeHashes(Foreseen)
  /\ appData.patterns = shardusMemoryPatterns(Foreseen)

\* No answer was lost, and what the run depends on has not changed.
Undisturbed ==
  /\ IsEvm /\ ~isStakingEVMTx /\ ~isEIP2930 /\ ~missed
  /\ tx.to = Target => ~moved

\* A transaction that has been prepared and not disturbed has the list of that run, or
\* calls no contract.  Nothing is said of the block, the price and the balance that
\* apply() will find.
ListFits ==
  pc \in Prepared /\ Undisturbed =>
    IF Deploys \/ target = "contract" THEN ListForeseen
    ELSE appData.patterns = NoPatterns

\* The keys are those of the data.
KeysFit ==
  pc \in {"relevant", "apply", "applied"} =>
    keys = IF IsEvm THEN {AccountKey(Sender)} \cup OrderKeys \cup TargetKeys
                           \cup ListKeys \cup codeHashKeys
           ELSE InternalKeys

\* Nothing is involved before apply() runs.
NotInvolved == pc # "applied" => involved = {}

Core == TypesFit /\ PlacesFit /\ DataFits /\ ListFits /\ KeysFit
IInv == Core /\ NotInvolved /\ KeysCoverWrites

-----------------------------------------------------------------------------
LEMMA InitHolds == Init => IInv
<1> SUFFICES ASSUME Init PROVE IInv
  OBVIOUS
<1>1. TypesFit
  BY BoundAssumption DEF Init, TypesFit, Places
<1>2. PlacesFit
  BY DEF Init, PlacesFit, Prepared
<1>3. DataFits
  BY DEF Init, DataFits, NoData
<1>4. ListFits
  BY DEF Init, ListFits, Undisturbed, Prepared
<1>5. KeysFit /\ NotInvolved /\ KeysCoverWrites
  BY DEF Init, KeysFit, NotInvolved, KeysCoverWrites
<1>. QED
  BY <1>1, <1>2, <1>3, <1>4, <1>5 DEF IInv, Core

LEMMA ForeseenStays ==
  ASSUME tx' = tx, target' = target, slot' = slot, foreseen' = foreseen
  PROVE  Foreseen' = Foreseen
BY DEF Foreseen, RunOf, Deploys

\* A deployment does not depend on the target.
LEMMA ForeseenOfDeployment ==
  ASSUME tx' = tx, foreseen' = foreseen, Deploys
  PROVE  Foreseen' = Foreseen
BY DEF Foreseen, RunOf, Deploys

\* Once a transaction is prepared, a step that keeps its data and what its run depends on
\* keeps the list.
LEMMA KeptList ==
  ASSUME Core, pc \in Prepared,
         UNCHANGED <<tx, appData, target, slot, missed, moved, foreseen>>
  PROVE  ListFits'
<1>1. Foreseen' = Foreseen
  BY ForeseenStays
<1>2. Undisturbed' => Undisturbed
  BY DEF Undisturbed, IsEvm, isStakingEVMTx, isEIP2930
<1>. QED
  BY <1>1, <1>2 DEF Core, ListFits, ListForeseen, Deploys

\* The steps that only change the place, between two places where that is all there is
\* to say.
LEMMA KeptData ==
  ASSUME Core, UNCHANGED <<tx, nonce, appData, target>>, pc' \in Places,
         pc' \notin {"fetchSender", "fetchTarget", "accessList", "stakeOrder", "nominee"}
  PROVE  TypesFit' /\ PlacesFit' /\ DataFits'
<1>1. TypesFit'
  BY DEF Core, TypesFit
<1>2. PlacesFit'
  BY DEF Core, PlacesFit, IsEvm, Places, Prepared
<1>3. DataFits'
  BY DEF Core, DataFits, IsEvm, isStakingEVMTx, Deploys
<1>. QED
  BY <1>1, <1>2, <1>3

-----------------------------------------------------------------------------
(* txPreCrackData. *)

LEMMA AfterFetchesOutcome ==
  ASSUME NEW data, NEW seen, AfterFetches(data, seen)
  PROVE  /\ UNCHANGED result
         /\ \/ pc' = "refused" /\ appData' = appData
            \/ /\ pc' = "accessList" /\ appData' = data
               /\ shouldGenerateAccesslist(data, seen)
            \/ pc' = "stakeOrder" /\ appData' = data /\ isStakingEVMTx
            \/ /\ pc' = "validate" /\ appData' = data
               /\ ~isStakingEVMTx /\ ~shouldGenerateAccesslist(data, seen)
BY DEF AfterFetches, Refuse, Put

\* The answers are there: what goes to the list, and what needs none.
LEMMA Fetched ==
  ASSUME Core, pc \in {"fetchSender", "fetchTarget"},
         NEW data, NEW seen, AfterFetches(data, seen),
         UNCHANGED <<tx, nonce, target>>,
         DOMAIN data = DOMAIN NoData,
         data.internalTx = appData.internalTx, data.patterns = appData.patterns,
         Deploys => seen = "missing" /\ (isEIP2930 \/ data.newCAAddr # NoAddress),
         ~Deploys => /\ data.newCAAddr = NoAddress
                     /\ seen = target \/ (seen = "missing" /\ missed')
  PROVE  Core'
<1>1. IsEvm /\ appData.patterns = NoPatterns
  BY DEF Core, PlacesFit, DataFits, Prepared
<1>2. pc' \in {"refused", "accessList", "stakeOrder", "validate"}
  BY AfterFetchesOutcome
<1>3. CASE pc' = "refused" /\ appData' = appData
  <2>1. TypesFit' /\ PlacesFit' /\ DataFits'
    BY <1>3, KeptData DEF Places
  <2>2. ListFits' /\ KeysFit'
    BY <1>3 DEF ListFits, KeysFit, Prepared
  <2>. QED
    BY <2>1, <2>2 DEF Core
<1>4. CASE appData' = data
  <2>1. TypesFit'
    BY <1>2, <1>4 DEF Core, TypesFit, Places
  <2>2. PlacesFit'
    <3>1. CASE pc' = "accessList"
      <4>1. ~isStakingEVMTx /\ seen # "plain"
            /\ (seen # "missing" \/ data.newCAAddr # NoAddress)
        BY <3>1, AfterFetchesOutcome DEF shouldGenerateAccesslist
      <4>2. ~Deploys => target = "contract"
        BY <4>1 DEF Core, TypesFit
      <4>. QED
        BY <1>1, <3>1, <4>1, <4>2 DEF PlacesFit, IsEvm, isStakingEVMTx, Deploys
    <3>2. CASE pc' = "stakeOrder"
      <4>1. isStakingEVMTx
        BY <3>2, AfterFetchesOutcome
      <4>. QED
        BY <1>1, <3>2, <4>1 DEF PlacesFit, IsEvm, isStakingEVMTx
    <3>. QED
      BY <1>1, <1>2, <3>1, <3>2 DEF PlacesFit, IsEvm, Prepared
  <2>3. DataFits'
    BY <1>1, <1>2, <1>4 DEF Core, DataFits, IsEvm, isStakingEVMTx, Deploys
  <2>4. ListFits'
    <3> SUFFICES ASSUME pc' \in Prepared, Undisturbed'
                 PROVE  ~(Deploys \/ target = "contract")
      BY <1>1, <1>4 DEF ListFits, Deploys
    <3>1. pc' = "validate" /\ ~isStakingEVMTx /\ ~shouldGenerateAccesslist(data, seen)
      BY <1>2, AfterFetchesOutcome DEF Prepared
    <3>2. ~isEIP2930 /\ ~missed'
      BY DEF Undisturbed, isEIP2930
    <3>. QED
      BY <3>1, <3>2 DEF shouldGenerateAccesslist
  <2>5. KeysFit'
    BY <1>2 DEF KeysFit
  <2>. QED
    BY <2>1, <2>2, <2>3, <2>4, <2>5 DEF Core
<1>. QED
  BY <1>3, <1>4, AfterFetchesOutcome

LEMMA FetchSenderStep ==
  ASSUME Core, FetchSender
  PROVE  Core'
<1> DEFINE address == IF Deploys /\ ~isEIP2930 THEN New(nonce) ELSE NoAddress
           data == [appData EXCEPT !.balance = funds # 0, !.sender = staked,
                                   !.newCAAddr = address]
<1>1. DOMAIN appData = DOMAIN NoData
  BY DEF Core, TypesFit
<1>2. /\ DOMAIN data = DOMAIN NoData
      /\ data.internalTx = appData.internalTx /\ data.patterns = appData.patterns
      /\ data.newCAAddr = address
  BY <1>1 DEF NoData
<1>3. /\ pc = "fetchSender" /\ UNCHANGED <<tx, retry, world, history>>
      /\ IF Deploys THEN AfterFetches(data, "missing") ELSE Put(data, "fetchTarget")
  BY DEF FetchSender
<1> HIDE DEF data
<1>4. CASE Deploys
  <2>1. address # NoAddress \/ isEIP2930
    BY <1>4, AddressAssumption DEF Core, TypesFit, New
  <2>. QED
    BY <1>2, <1>3, <1>4, <2>1, Fetched DEF world
<1>5. CASE ~Deploys
  <2>1. pc' = "fetchTarget" /\ appData' = data /\ address = NoAddress
    BY <1>3, <1>5 DEF Put
  <2>2. TypesFit'
    BY <1>2, <1>3, <2>1 DEF Core, TypesFit, Places, world
  <2>3. PlacesFit'
    BY <1>3, <1>5, <2>1 DEF Core, PlacesFit, IsEvm, Deploys, Prepared
  <2>4. DataFits'
    BY <1>2, <1>3, <2>1 DEF Core, DataFits, IsEvm, isStakingEVMTx, Deploys
  <2>5. ListFits' /\ KeysFit'
    BY <2>1 DEF ListFits, KeysFit, Prepared
  <2>. QED
    BY <2>2, <2>3, <2>4, <2>5 DEF Core
<1>. QED
  BY <1>4, <1>5

LEMMA FetchTargetStep ==
  ASSUME Core, FetchTarget
  PROVE  Core'
<1>1. PICK seen \in {target, "missing"} :
        missed' = (missed \/ seen # target) /\ AfterFetches(appData, seen)
  BY DEF FetchTarget
<1>2. pc = "fetchTarget" /\ UNCHANGED <<tx, nonce, target>>
  BY DEF FetchTarget, world
<1>3. ~Deploys /\ appData.newCAAddr = NoAddress /\ DOMAIN appData = DOMAIN NoData
  BY <1>2 DEF Core, TypesFit, PlacesFit, DataFits
<1>4. seen = target \/ (seen = "missing" /\ missed')
  BY <1>1
<1>. QED
  BY <1>1, <1>2, <1>3, <1>4, Fetched

LEMMA GenerateStep ==
  ASSUME Core, generateAccessList
  PROVE  Core'
<1>1. PICK foundCaller \in BOOLEAN, fails \in BOOLEAN, latestBlock \in Blocks,
           price \in Prices :
        LET seen == Seen(latestBlock, price, accesslistBalance(foundCaller))
            run == RunOf(accesslistNonce(foundCaller), seen, fails)
        IN
        /\ missed' = (missed \/ ~foundCaller)
        /\ foreseen' = seen
        /\ IF FailedList(run) \/ accessList(run) = {} THEN Refuse
           ELSE Put([appData EXCEPT !.accessList = accessList(run),
                       !.codeHashes = codeHashes(run),
                       !.patterns = shardusMemoryPatterns(run)], "validate")
  BY DEF generateAccessList
<1> DEFINE seen == Seen(latestBlock, price, accesslistBalance(foundCaller))
           run == RunOf(accesslistNonce(foundCaller), seen, fails)
           data == [appData EXCEPT !.accessList = accessList(run),
                                   !.codeHashes = codeHashes(run),
                                   !.patterns = shardusMemoryPatterns(run)]
<1>2. pc = "accessList" /\ UNCHANGED <<tx, retry, world, moved, moves, strayed>>
  BY DEF generateAccessList
<1>3. ~isStakingEVMTx /\ IsEvm /\ (~Deploys => target = "contract")
  BY <1>2 DEF Core, PlacesFit, Prepared
<1>4. CASE Refuse
  <2>1. TypesFit' /\ PlacesFit' /\ DataFits'
    BY <1>2, <1>4, KeptData DEF Refuse, Places, world
  <2>2. ListFits' /\ KeysFit'
    BY <1>4 DEF ListFits, KeysFit, Prepared, Refuse
  <2>. QED
    BY <2>1, <2>2 DEF Core
<1>5. CASE ~FailedList(run) /\ Put(data, "validate")
  <2>1. DOMAIN appData = DOMAIN NoData
    BY DEF Core, TypesFit
  <2>2. /\ DOMAIN data = DOMAIN NoData
        /\ data.internalTx = appData.internalTx /\ data.newCAAddr = appData.newCAAddr
        /\ data.accessList = accessList(run) /\ data.codeHashes = codeHashes(run)
        /\ data.patterns = shardusMemoryPatterns(run)
    BY <2>1 DEF NoData
  <2>3. fails = FALSE
    BY <1>5 DEF FailedList, RunOf
  <2>4. appData' = data /\ pc' = "validate"
    BY <1>5 DEF Put
  <2>5. foundCaller => run = Foreseen'
    <3>1. foreseen' = seen
      BY <1>1
    <3>2. foundCaller => accesslistNonce(foundCaller) = tx.nonce
      BY DEF accesslistNonce
    <3> HIDE DEF seen
    <3>3. Foreseen' = RunOf(tx.nonce, seen, FALSE)
      BY <1>2, <3>1 DEF Foreseen, RunOf, Deploys, world
    <3>. QED
      BY <2>3, <3>2, <3>3
  <2> HIDE DEF data, run
  <2>6. TypesFit'
    BY <1>2, <2>2, <2>4 DEF Core, TypesFit, Places, world
  <2>7. PlacesFit'
    BY <1>2, <1>3, <2>4 DEF PlacesFit, IsEvm, Prepared
  <2>8. DataFits'
    BY <1>2, <1>3, <2>2, <2>4 DEF Core, DataFits, IsEvm, isStakingEVMTx, Deploys
  <2>9. ListFits'
    <3> SUFFICES ASSUME Undisturbed'
                 PROVE  (Deploys \/ target = "contract")' /\ ListForeseen'
      BY <2>4 DEF ListFits
    <3>1. foundCaller
      BY <1>1 DEF Undisturbed
    <3>2. run = Foreseen'
      BY <2>5, <3>1
    <3>3. ListForeseen'
      BY <2>2, <2>4, <3>2 DEF ListForeseen
    <3>. QED
      BY <1>2, <1>3, <3>3 DEF Deploys, world
  <2>10. KeysFit'
    BY <2>4 DEF KeysFit
  <2>. QED
    BY <2>6, <2>7, <2>8, <2>9, <2>10 DEF Core
<1>. QED
  BY <1>1, <1>4, <1>5

\* The steps to a place where nothing has to be said of lists and keys, or that only fill
\* in what a stake transaction wants.
LEMMA RefuseStep ==
  ASSUME Core, Refuse, UNCHANGED <<tx, nonce, target>>
  PROVE  Core'
<1>1. TypesFit' /\ PlacesFit' /\ DataFits'
  BY KeptData DEF Refuse, Places
<1>2. ListFits' /\ KeysFit'
  BY DEF Refuse, ListFits, KeysFit, Prepared
<1>. QED
  BY <1>1, <1>2 DEF Core

LEMMA FetchSenderFailsStep ==
  ASSUME Core, FetchSenderFails
  PROVE  Core'
<1>1. CASE pc' = pc
  BY <1>1 DEF Core, FetchSenderFails, TypesFit, PlacesFit, DataFits, ListFits, KeysFit,
              Prepared, IsEvm, isStakingEVMTx, Deploys, world
<1>2. CASE pc' = "refused"
  <2>1. TypesFit' /\ PlacesFit' /\ DataFits'
    BY <1>2, KeptData DEF FetchSenderFails, Places, world
  <2>2. ListFits' /\ KeysFit'
    BY <1>2 DEF ListFits, KeysFit, Prepared
  <2>. QED
    BY <2>1, <2>2 DEF Core
<1>. QED
  BY <1>1, <1>2 DEF FetchSenderFails

LEMMA StakeDataStep ==
  ASSUME Core, pc \in {"stakeOrder", "nominee"}, pc' \in {"nominee", "validate"},
         UNCHANGED <<tx, nonce, target>>,
         DOMAIN appData' = DOMAIN appData,
         appData'.newCAAddr = appData.newCAAddr, appData'.patterns = appData.patterns
  PROVE  Core'
<1>1. isStakingEVMTx /\ IsEvm
  BY DEF Core, PlacesFit, isStakingEVMTx
<1>2. TypesFit'
  BY DEF Core, TypesFit, Places
<1>3. PlacesFit'
  BY <1>1 DEF PlacesFit, IsEvm, isStakingEVMTx, Prepared
<1>4. DataFits'
  BY <1>1 DEF Core, DataFits, IsEvm, isStakingEVMTx, Deploys
<1>5. ListFits' /\ KeysFit'
  BY <1>1 DEF ListFits, Undisturbed, IsEvm, isStakingEVMTx, KeysFit
<1>. QED
  BY <1>2, <1>3, <1>4, <1>5 DEF Core

LEMMA CrackOrderStep ==
  ASSUME Core, CrackOrder
  PROVE  Core'
<1> USE DEF Put
<1>1. pc = "stakeOrder" /\ UNCHANGED <<tx, nonce, target>>
  BY DEF CrackOrder, world
<1>2. DOMAIN appData = DOMAIN NoData
  BY DEF Core, TypesFit
<1>3. CASE Put(appData, "validate")
  BY <1>1, <1>3, StakeDataStep
<1>4. CASE Put([appData EXCEPT !.internalTx = tx.order], "validate")
  BY <1>1, <1>2, <1>4, StakeDataStep DEF NoData
<1>5. CASE Put([appData EXCEPT !.internalTx = tx.order, !.networkAccount = TRUE],
               "nominee")
  <2> DEFINE data == [appData EXCEPT !.internalTx = tx.order, !.networkAccount = TRUE]
  <2>1. /\ DOMAIN data = DOMAIN appData
        /\ data.newCAAddr = appData.newCAAddr /\ data.patterns = appData.patterns
    BY <1>2 DEF NoData
  <2>. QED
    BY <1>1, <1>5, <2>1, StakeDataStep
<1>. QED
  BY <1>3, <1>4, <1>5 DEF CrackOrder

LEMMA FetchNomineeStep ==
  ASSUME Core, FetchNominee \/ FetchNomineeThrows
  PROVE  Core'
<1>1. pc = "nominee" /\ UNCHANGED <<tx, nonce, target>>
  BY DEF FetchNominee, FetchNomineeThrows, world
<1>2. DOMAIN appData = DOMAIN NoData
  BY DEF Core, TypesFit
<1>3. CASE FetchNomineeThrows
  BY <1>1, <1>3, StakeDataStep DEF FetchNomineeThrows, Put
<1>4. CASE FetchNominee
  <2>1. PICK answer :
          Put([appData EXCEPT !.nomineeAccount = answer,
                              !.nominatorAccount = Found(appData.sender)], "validate")
    BY <1>4 DEF FetchNominee
  <2> DEFINE data == [appData EXCEPT !.nomineeAccount = answer,
                                     !.nominatorAccount = Found(appData.sender)]
  <2>2. /\ DOMAIN data = DOMAIN appData
        /\ data.newCAAddr = appData.newCAAddr /\ data.patterns = appData.patterns
    BY <1>2 DEF NoData
  <2>3. appData' = data /\ pc' = "validate"
    BY <2>1 DEF Put
  <2>. QED
    BY <1>1, <2>2, <2>3, StakeDataStep
<1>. QED
  BY <1>3, <1>4

-----------------------------------------------------------------------------
(* From validateTxnFields to apply(). *)

LEMMA ValidateStep ==
  ASSUME Core, ValidateTxnFields
  PROVE  Core'
<1>1. pc = "validate" /\ UNCHANGED <<tx, nonce, target, slot, missed, moved, foreseen>>
  BY DEF ValidateTxnFields, world, history
<1>2. CASE Refuse
  BY <1>1, <1>2, RefuseStep
<1>3. CASE Put(appData, "crack")
  <2>1. TypesFit' /\ PlacesFit' /\ DataFits'
    BY <1>1, <1>3, KeptData DEF Put, Places
  <2>2. ListFits'
    BY <1>1, <1>3, KeptList DEF Put, Prepared
  <2>3. KeysFit'
    BY <1>3 DEF Put, KeysFit
  <2>. QED
    BY <2>1, <2>2, <2>3 DEF Core
<1>. QED
  BY <1>2, <1>3 DEF ValidateTxnFields

LEMMA CrackStep ==
  ASSUME Core, Crack
  PROVE  Core'
<1>1. /\ pc = "crack" /\ pc' = "relevant"
      /\ UNCHANGED <<tx, nonce, target, slot, missed, moved, foreseen, appData>>
  BY DEF Crack, world, history
<1>2. TypesFit' /\ PlacesFit' /\ DataFits'
  BY <1>1, KeptData DEF Places
<1>3. ListFits'
  BY <1>1, KeptList DEF Prepared
<1>4. KeysFit'
  BY <1>1 DEF Crack, KeysFit, IsEvm, OrderKeys, Ordered, TargetKeys, Deploys, ListKeys,
              isEIP2930, codeHashKeys, InternalKeys
<1>. QED
  BY <1>2, <1>3, <1>4 DEF Core

\* The keys stay what they are.
LEMMA KeptKeys ==
  ASSUME Core, pc \in {"relevant", "apply", "applied"}, UNCHANGED <<tx, appData, keys>>
  PROVE  KeysFit'
BY DEF Core, KeysFit, IsEvm, OrderKeys, Ordered, TargetKeys, Deploys, ListKeys,
       isEIP2930, codeHashKeys, InternalKeys

LEMMA RelevantStep ==
  ASSUME Core, GetRelevantData
  PROVE  Core'
<1>1. /\ pc = "relevant" /\ pc' \in {"apply", "refused"}
      /\ UNCHANGED <<tx, nonce, target, slot, missed, moved, foreseen, appData, keys>>
  BY DEF GetRelevantData, world, history
<1>2. TypesFit' /\ PlacesFit' /\ DataFits'
  BY <1>1, KeptData DEF Places
<1>3. ListFits'
  BY <1>1, KeptList DEF Prepared
<1>4. KeysFit'
  BY <1>1, KeptKeys
<1>. QED
  BY <1>2, <1>3, <1>4 DEF Core

LEMMA ApplyStep ==
  ASSUME Core, Apply
  PROVE  Core'
<1>1. /\ pc = "apply" /\ pc' = "applied"
      /\ UNCHANGED <<tx, nonce, target, slot, missed, moved, foreseen, appData, keys>>
  BY DEF Apply, world, history
<1>2. TypesFit' /\ PlacesFit' /\ DataFits'
  BY <1>1, KeptData DEF Places
<1>3. ListFits'
  BY <1>1, KeptList DEF Prepared
<1>4. KeysFit'
  BY <1>1, KeptKeys
<1>. QED
  BY <1>2, <1>3, <1>4 DEF Core

-----------------------------------------------------------------------------
(* What other transactions do meanwhile. *)

\* Changes that leave the target alone.
LEMMA OtherMoves ==
  ASSUME Core, UNCHANGED <<tx, pc, appData, keys, target, slot, missed, moved, foreseen>>,
         nonce' \in 0 .. MaxNonce
  PROVE  Core'
<1>1. TypesFit' /\ PlacesFit' /\ DataFits'
  BY DEF Core, TypesFit, PlacesFit, DataFits, IsEvm, isStakingEVMTx, Deploys
<1>2. ListFits'
  BY KeptList DEF ListFits
<1>3. KeysFit'
  BY KeptKeys DEF KeysFit
<1>. QED
  BY <1>1, <1>2, <1>3 DEF Core

\* The target changes: a contract stays one, and a deployment does not depend on it.
LEMMA TargetMovesStep ==
  ASSUME Core, TargetMoves
  PROVE  Core'
<1>1. /\ UNCHANGED <<tx, pc, appData, keys, nonce, missed, foreseen>>
      /\ target' \in {"plain", "contract"} /\ (target # "missing" => target' = target)
      /\ moved'
  BY DEF TargetMoves, Move, result
<1>2. TypesFit' /\ PlacesFit' /\ DataFits'
  BY <1>1 DEF Core, TypesFit, PlacesFit, DataFits, IsEvm, isStakingEVMTx, Deploys
<1>3. ListFits'
  <2> SUFFICES ASSUME pc' \in Prepared, Undisturbed'
               PROVE  Deploys' /\ ListForeseen'
    BY DEF ListFits
  <2>1. IsEvm /\ ~isStakingEVMTx /\ ~isEIP2930 /\ ~missed /\ tx.to # Target
    BY <1>1 DEF Undisturbed, IsEvm, isStakingEVMTx, isEIP2930
  <2>2. Deploys
    BY <2>1, AddressAssumption DEF Core, TypesFit, IsEvm, isStakingEVMTx, Deploys
  <2>3. Undisturbed
    BY <2>1 DEF Undisturbed
  <2>4. Foreseen' = Foreseen
    BY <1>1, <2>2, ForeseenOfDeployment
  <2>5. ListForeseen
    BY <1>1, <2>2, <2>3 DEF Core, ListFits
  <2>. QED
    BY <1>1, <2>2, <2>4, <2>5 DEF ListForeseen, Deploys
<1>4. KeysFit'
  BY <1>1, KeptKeys DEF KeysFit
<1>. QED
  BY <1>2, <1>3, <1>4 DEF Core

-----------------------------------------------------------------------------
(* What is written is covered. *)

\* A run reads code of the contract it calls, or writes that of the one it makes.
LEMMA OneCode ==
  \A c \in Foreseen.codeWrites, r \in Foreseen.codeReads : r[1] # c[1]
<1>1. Foreseen.codeWrites = {} \/ Foreseen.codeReads = {}
  BY DEF Foreseen, RunOf
<1>. QED
  BY <1>1

\* A list is never empty: the sender is in it.
LEMMA ListOfForeseen == accessList(Foreseen) # NoList
<1>1. Sender \in allInvolvedContracts(Foreseen)
  BY DEF allInvolvedContracts, Foreseen, RunOf
<1> DEFINE itemOf(a) ==
             [address |-> a,
              storageKeys |-> {s[2] : s \in {t \in Foreseen.slotReads \cup Foreseen.slotWrites :
                                               t[1] = a}}]
<1>2. accessList(Foreseen) = {itemOf(a) : a \in allInvolvedContracts(Foreseen)}
  BY DEF accessList
<1> HIDE DEF itemOf
<1>3. itemOf(Sender) \in accessList(Foreseen)
  BY <1>1, <1>2
<1>. QED
  BY <1>3 DEF NoList

\* A plain call writes, and asks for, the accounts of its two ends, whatever it sees.
LEMMA PlainRun ==
  ASSUME NEW seen, ~Deploys, target # "contract"
  PROVE  LET run == RunOf(tx.nonce, seen, FALSE)
             ends == {AccountKey(Sender), AccountKey(tx.to)}
         IN  writeSet(run) = ends /\ Asked(run) = ends
<1> DEFINE run == RunOf(tx.nonce, seen, FALSE)
<1>1. /\ run.sender = Sender
      /\ run.accountReads = {Sender, tx.to} /\ run.accountWrites = {Sender, tx.to}
      /\ run.slotReads = {} /\ run.slotWrites = {} /\ run.codeWrites = {}
  BY DEF RunOf
<1> HIDE DEF run
<1>2. writeSet(run) = {AccountKey(Sender), AccountKey(tx.to)}
  BY <1>1 DEF writeSet
<1>3. Asked(run) = {AccountKey(Sender), AccountKey(tx.to)}
  BY <1>1 DEF Asked
<1>. QED
  BY <1>2, <1>3 DEF run

LEMMA ApplyCovers ==
  ASSUME Core, NotInvolved, Apply
  PROVE  KeysCoverWrites'
<1>1. /\ pc = "apply"
      /\ UNCHANGED <<tx, target, slot, missed, moved, foreseen, appData, keys>>
      /\ IF IsEvm /\ ~Ordered THEN RunEvm ELSE WriteGiven
  BY DEF Apply, world
<1> SUFFICES ASSUME ~Spoiled'
             PROVE  /\ involved' = {} /\ written' \subseteq keys
                    /\ written' \cap appData.patterns.ro = {}
  BY <1>1 DEF KeysCoverWrites
<1>2. /\ ~(IsEvm /\ isEIP2930)
      /\ ~(IsEvm /\ tx.to = Target /\ (missed \/ moved))
      /\ ~(IsEvm /\ Deploys /\ missed)
      /\ ~strayed'
      /\ ~(isStakingEVMTx /\ ~Ordered)
  BY <1>1 DEF Spoiled, IsEvm, isEIP2930, Deploys, isStakingEVMTx, Ordered
<1>3. CASE ~IsEvm
  <2>1. written' = InternalWrites /\ keys = InternalKeys /\ appData.patterns = NoPatterns
    BY <1>1, <1>3 DEF Core, KeysFit, DataFits, WriteGiven
  <2>2. InternalWrites \subseteq InternalKeys
    BY DEF InternalWrites, InternalKeys
  <2>3. involved' = {}
    BY <1>1, <1>3 DEF WriteGiven, NotInvolved
  <2>. QED
    BY <2>1, <2>2, <2>3 DEF NoPatterns
<1>4. CASE IsEvm /\ Ordered
  <2>1. isStakingEVMTx
    BY <1>4 DEF Core, DataFits, Ordered, NoOrder
  <2>2. appData.patterns = NoPatterns
    BY <2>1 DEF Core, DataFits
  <2>3. written' = {AccountKey(Sender), OwnKey(Node)} /\ involved' = {}
    BY <1>1, <1>4 DEF WriteGiven, NotInvolved
  <2>4. {AccountKey(Sender), OwnKey(Node)} \subseteq keys
    BY <1>1, <1>4 DEF Core, KeysFit, OrderKeys
  <2>. QED
    BY <2>2, <2>3, <2>4 DEF NoPatterns
<1>5. CASE IsEvm /\ ~Ordered
  <2>1. ~isStakingEVMTx /\ ~isEIP2930
    BY <1>2, <1>5
  <2>2. Deploys \/ tx.to = Target
    BY <1>5, <2>1, AddressAssumption
       DEF Core, TypesFit, IsEvm, isStakingEVMTx, Deploys
  <2>3. Undisturbed
    BY <1>2, <1>5, <2>1, <2>2 DEF Undisturbed
  <2>4. PICK seen :
          /\ written' = writeSet(RunOf(tx.nonce, seen, FALSE))
          /\ involved' = Asked(RunOf(tx.nonce, seen, FALSE)) \ keys
          /\ strayed' = (appData.accessList # NoList /\ seen # foreseen)
    <3>1. RunEvm
      BY <1>1, <1>5
    <3>. QED
      BY <3>1 DEF RunEvm
  <2>5. keys = {AccountKey(Sender)} \cup OrderKeys \cup TargetKeys
                 \cup ListKeys \cup codeHashKeys
    BY <1>1, <1>5 DEF Core, KeysFit
  <2>6. CASE Deploys \/ target = "contract"
    <3>1. ListForeseen
      BY <1>1, <2>3, <2>6 DEF Core, ListFits, Prepared
    <3>2. seen = foreseen
      BY <1>2, <2>4, <3>1, ListOfForeseen DEF ListForeseen
    <3>3. written' = writeSet(Foreseen) /\ involved' = Asked(Foreseen) \ keys
      BY <2>4, <3>2 DEF Foreseen
    <3>4. ListKeys = KeysOfList(accessList(Foreseen))
      BY <2>1, <3>1 DEF ListKeys, KeysOfList, ListForeseen
    <3>5. codeHashKeys = KeysOfHashes(codeHashes(Foreseen))
      BY <3>1 DEF codeHashKeys, KeysOfHashes, ListForeseen
    <3>6. Foreseen.sender = Sender
      BY DEF Foreseen, RunOf
    <3>7. writeSet(Foreseen) \subseteq keys
      BY <2>5, <3>4, <3>5, <3>6, OneCode, ListCoversRun
    <3>8. Asked(Foreseen) \subseteq keys
      BY <2>5, <3>4, ListCoversAsked
    <3>9. writeSet(Foreseen) \cap appData.patterns.ro = {}
      BY <3>1, PatternsFit DEF ListForeseen
    <3>. QED
      BY <3>3, <3>7, <3>8, <3>9
  <2>7. CASE ~(Deploys \/ target = "contract")
    <3>1. appData.patterns = NoPatterns
      BY <1>1, <2>3, <2>7 DEF Core, ListFits, Prepared
    <3>2. /\ written' = {AccountKey(Sender), AccountKey(tx.to)}
          /\ involved' = {AccountKey(Sender), AccountKey(tx.to)} \ keys
      BY <2>4, <2>7, PlainRun
    <3>3. TargetKeys = {AccountKey(tx.to)}
      BY <1>5, <2>1, <2>7 DEF TargetKeys, isStakingEVMTx
    <3>. QED
      BY <2>5, <3>1, <3>2, <3>3 DEF NoPatterns
  <2>. QED
    BY <2>6, <2>7
<1>. QED
  BY <1>3, <1>4, <1>5

-----------------------------------------------------------------------------
(* Every step. *)

LEMMA StepKeepsCore ==
  ASSUME Core, [Next]_vars
  PROVE  Core'
<1>1. CASE FetchSender
  BY <1>1, FetchSenderStep
<1>2. CASE FetchSenderFails
  BY <1>2, FetchSenderFailsStep
<1>3. CASE FetchTarget
  BY <1>3, FetchTargetStep
<1>4. CASE FetchTargetThrows \/ RemoteListFails \/ ApplyFails
  BY <1>4, RefuseStep DEF FetchTargetThrows, RemoteListFails, ApplyFails, world
<1>5. CASE generateAccessList
  BY <1>5, GenerateStep
<1>6. CASE CrackOrder
  BY <1>6, CrackOrderStep
<1>7. CASE FetchNominee \/ FetchNomineeThrows
  BY <1>7, FetchNomineeStep
<1>8. CASE ValidateTxnFields
  BY <1>8, ValidateStep
<1>9. CASE Crack
  BY <1>9, CrackStep
<1>10. CASE GetRelevantData
  BY <1>10, RelevantStep
<1>11. CASE Apply
  BY <1>11, ApplyStep
<1>12. CASE SenderMoves
  <2>1. nonce' \in 0 .. MaxNonce
    BY <1>12, BoundAssumption DEF Core, TypesFit, SenderMoves
  <2>. QED
    BY <1>12, <2>1, OtherMoves DEF SenderMoves, Move, result
<1>13. CASE NodeMoves \/ ConfigMoves
  <2>1. UNCHANGED <<tx, pc, appData, keys, target, slot, missed, moved, foreseen, nonce>>
    BY <1>13 DEF NodeMoves, ConfigMoves, Move, result
  <2>. QED
    BY <2>1, OtherMoves DEF Core, TypesFit
<1>14. CASE TargetMoves
  BY <1>14, TargetMovesStep
<1>15. CASE UNCHANGED vars
  <2>1. UNCHANGED <<tx, pc, appData, keys, target, slot, missed, moved, foreseen, nonce>>
    BY <1>15 DEF vars, world, result, history
  <2>. QED
    BY <2>1, OtherMoves DEF Core, TypesFit
<1>. QED
  BY <1>1, <1>2, <1>3, <1>4, <1>5, <1>6, <1>7, <1>8, <1>9, <1>10, <1>11, <1>12, <1>13,
     <1>14, <1>15 DEF Next

\* Nothing happens to a transaction that has been applied, and only apply() involves
\* accounts.
LEMMA StepKeepsCover ==
  ASSUME Core, NotInvolved, KeysCoverWrites, [Next]_vars
  PROVE  NotInvolved' /\ KeysCoverWrites'
<1>1. CASE Apply
  <2>1. pc' = "applied"
    BY <1>1 DEF Apply
  <2>. QED
    BY <1>1, <2>1, ApplyCovers DEF NotInvolved
<1>2. CASE UNCHANGED vars
  BY <1>2 DEF vars, world, result, history, KeysCoverWrites, NotInvolved, Spoiled, IsEvm,
              isEIP2930, Deploys, isStakingEVMTx, Ordered
<1>3. CASE FetchSender \/ FetchSenderFails \/ FetchTarget \/ FetchTargetThrows
  <2>1. pc # "applied" /\ pc' # "applied" /\ involved' = involved
    <3>1. CASE FetchSender
      BY <3>1, AfterFetchesOutcome DEF FetchSender, Put, result
    <3>2. CASE FetchTarget
      BY <3>2, AfterFetchesOutcome DEF FetchTarget, result
    <3>. QED
      BY <1>3, <3>1, <3>2 DEF FetchSenderFails, FetchTargetThrows, Refuse, result
  <2>. QED
    BY <2>1 DEF KeysCoverWrites, NotInvolved
<1>4. CASE \/ generateAccessList \/ RemoteListFails \/ CrackOrder \/ FetchNominee
           \/ FetchNomineeThrows \/ ValidateTxnFields \/ Crack \/ GetRelevantData
           \/ ApplyFails
  <2>1. pc # "applied" /\ pc' # "applied" /\ involved' = involved
    BY <1>4 DEF generateAccessList, RemoteListFails, CrackOrder, FetchNominee,
                FetchNomineeThrows, ValidateTxnFields, Crack, GetRelevantData, ApplyFails,
                Refuse, Put, result
  <2>. QED
    BY <2>1 DEF KeysCoverWrites, NotInvolved
<1>5. CASE SenderMoves \/ TargetMoves \/ NodeMoves \/ ConfigMoves
  <2>1. pc # "applied" /\ pc' # "applied" /\ involved' = involved
    BY <1>5 DEF SenderMoves, TargetMoves, NodeMoves, ConfigMoves, Move, Waiting, result
  <2>. QED
    BY <2>1 DEF KeysCoverWrites, NotInvolved
<1>. QED
  BY <1>1, <1>2, <1>3, <1>4, <1>5 DEF Next

-----------------------------------------------------------------------------
\* In every reachable state the place of a transaction, what it has fetched, its list and
\* its keys fit together: the list is the one of the run under the block, the price and the
\* balance that the prediction saw, and nothing is involved before apply().
THEOREM InductiveInvariant == Spec => []IInv
<1>1. Init => IInv
  BY InitHolds
<1>2. IInv /\ [Next]_vars => IInv'
  BY StepKeepsCore, StepKeepsCover DEF IInv
<1>. QED
  BY <1>1, <1>2, PTL DEF Spec

\* The keys that crack locks cover what apply() reads and writes, whatever other
\* transactions do in between and in whatever block and at whatever price it runs, unless
\* the transaction brings a list of its own, an answer of the network was lost, the contract
\* it calls has changed, its code reads a block, a price or a balance that differs from what
\* the prediction saw, or its order to stake was not read.
THEOREM LockedKeysCoverWrites == Spec => []KeysCoverWrites
<1>1. IInv => KeysCoverWrites
  BY DEF IInv
<1>. QED
  BY <1>1, InductiveInvariant, PTL
=============================================================================
