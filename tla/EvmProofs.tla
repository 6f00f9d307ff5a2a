------------------------------ MODULE EvmProofs ------------------------------
(***************************************************************************)
(* Proofs about the EVM, in three parts that use only the assumptions of   *)
(* their own component: one VM under runs that overlap (VmBinding), what   *)
(* the arithmetic opcodes compute (WordOps), and one frame that runs a     *)
(* given code (Interpreter).                                               *)
(***************************************************************************)
EXTENDS VmBinding, Interpreter, FoldLemmas, SequenceTheorems, TLAPS

-----------------------------------------------------------------------------
(***************************************************************************)
(* VmBinding: a run that was not disturbed holds, at each place, an exact  *)
(* account of what its caller has paid so far.  Progress says which, and is*)
(* kept by the steps of the run itself; the steps of other runs touch      *)
(* nothing of it but the VM.                                               *)
(***************************************************************************)

\* What a run of apply() holds at each of its places.
Progress(r) ==
  LET caller == objects[r][Sender[r]]
      receiver == objects[r][Receiver[r]]
  IN /\ r \in Exposed => stateManager = r
     /\ pc[r] \in {"read", "buyGas", "call", "readAgain", "settle"} => state[r] = r
     /\ pc[r] \in {"ready", "network", "cleanup", "checkpoint", "read", "buyGas"} =>
          caller = LedgerAccount(Sender[r]) /\ receiver = LedgerAccount(Receiver[r])
     /\ pc[r] = "buyGas" => fromAccount[r] = caller
     /\ pc[r] = "call" =>
          /\ caller = [balance |-> Funds[Sender[r]] - GasCost, nonce |-> 0]
          /\ receiver = LedgerAccount(Receiver[r])
     /\ pc[r] \in {"readAgain", "settle"} =>
          /\ caller = [balance |-> Funds[Sender[r]] - GasCost - results[r].paid,
                       nonce |-> 1]
          /\ receiver = [balance |-> Funds[Receiver[r]] + results[r].paid, nonce |-> 0]
     /\ pc[r] = "settle" => fromAccount[r] = caller
     /\ pc[r] = "done" => Charged(r)

UndisturbedProgress == \A r \in Applies : ~disturbed[r] => Progress(r)

\* Once a run has begun the VM is bound, and what a run took from it is a run.
VmIsBound ==
  \A r \in Runs :
    /\ pc[r] # "ready" => stateManager \in Runs
    /\ pc[r] \in {"read", "buyGas", "call", "readAgain", "settle"} => state[r] \in Runs

RunsInv == TypeOK /\ VmIsBound /\ UndisturbedProgress

\* The initial states have the types of the variables.
LEMMA InitTyped == Init => TypeOK
<1> SUFFICES ASSUME Init PROVE TypeOK
  OBVIOUS
<1>1. \A a \in Accounts : LedgerAccount(a) \in Account
  BY AmountAssumption DEF LedgerAccount, Account
<1>2. [paid |-> 0, gas |-> 0] \in Result
  BY AmountAssumption DEF Result
<1> QED
  BY <1>1, <1>2, PartyAssumption DEF Init, TypeOK, Places

\* A write of the caller with an account keeps the types of the objects.
LEMMA WriteCallerTyped ==
  ASSUME TypeOK, NEW r \in Runs, NEW account \in Account, WriteCaller(r, account)
  PROVE  objects' \in [Runs -> [Accounts -> Account]]
BY PartyAssumption DEF TypeOK, WriteCaller

\* A read of the caller through a state object gives an account.
LEMMA ReadCallerTyped ==
  ASSUME TypeOK, NEW r \in Runs, state[r] \in Runs, ReadCaller(r)
  PROVE  fromAccount' \in [Runs -> Account]
BY PartyAssumption DEF TypeOK, ReadCaller

\* A step of a run touches nothing of another run but the VM, and a run that it
\* leaves without the VM is disturbed.
LEMMA OthersUntouched ==
  ASSUME TypeOK, NEW s \in Runs, RunStep(s), NEW r \in Runs, r # s
  PROVE  /\ pc'[r] = pc[r] /\ objects'[r] = objects[r] /\ state'[r] = state[r]
         /\ fromAccount'[r] = fromAccount[r] /\ results'[r] = results[r]
         /\ disturbed[r] => disturbed'[r]
         /\ stateManager' = stateManager \/ r \notin Exposed \/ disturbed'[r]
<1> USE DEF TypeOK, Goto
<1>1. CASE Bind(s)
  BY <1>1 DEF Bind
<1>2. CASE NetworkRead(s) \/ CheckpointTx(s) \/ Capture(s) \/ Throw(s)
  BY <1>2 DEF NetworkRead, CheckpointTx, Capture, Throw
<1>3. CASE ReadBefore(s) \/ ReadAfter(s)
  BY <1>3 DEF ReadBefore, ReadAfter, ReadCaller
<1>4. CASE BuyGas(s) \/ Settle(s)
  BY <1>4 DEF BuyGas, Settle, WriteCaller
<1>5. CASE \E gas \in 0..GasCost : RunCall(s, gas)
  BY <1>5 DEF RunCall
<1> QED
  BY <1>1, <1>2, <1>3, <1>4, <1>5 DEF RunStep

\* What a call that pays `spent` does to the accounts of its run.
CallEffect(r, gas, spent) ==
  LET caller == objects[r][Sender[r]]
      receiver == objects[r][Receiver[r]]
  IN /\ spent <= caller.balance
     /\ objects'[r][Sender[r]] =
          [balance |-> caller.balance - spent, nonce |-> caller.nonce + 1]
     /\ objects'[r][Receiver[r]] =
          [balance |-> receiver.balance + spent, nonce |-> receiver.nonce]
     /\ \A a \in Accounts \ {Sender[r], Receiver[r]} : objects'[r][a] = objects[r][a]
     /\ objects'[r] = [a \in Accounts |-> objects'[r][a]]
     /\ objects' = [objects EXCEPT ![r] = objects'[r]]
     /\ results' = [results EXCEPT ![r] = [paid |-> spent, gas |-> gas]]

\* A call has the effect of some payment.
LEMMA RunCallEffect ==
  ASSUME TypeOK, NEW r \in Runs, NEW gas \in 0..GasCost, RunCall(r, gas)
  PROVE  \E spent \in {0, Value} : CallEffect(r, gas, spent)
<1>1. PICK spent \in {0, Value} :
        /\ spent <= objects[r][Sender[r]].balance
        /\ objects' = [objects EXCEPT
             ![r][Sender[r]] = [balance |-> @.balance - spent, nonce |-> @.nonce + 1],
             ![r][Receiver[r]].balance = @ + spent]
        /\ results' = [results EXCEPT ![r] = [paid |-> spent, gas |-> gas]]
  BY DEF RunCall
<1> DEFINE caller == objects[r][Sender[r]]
           receiver == objects[r][Receiver[r]]
           debited == [balance |-> caller.balance - spent, nonce |-> caller.nonce + 1]
           credited == [receiver EXCEPT !.balance = @ + spent]
           half == [objects[r] EXCEPT ![Sender[r]] = debited]
           full == [half EXCEPT ![Receiver[r]] = credited]
<1>2. objects[r] \in [Accounts -> Account] /\ DOMAIN objects = Runs
  BY DEF TypeOK
<1>3. half[Receiver[r]] = receiver
  BY <1>2, PartyAssumption
<1>4. objects' = [objects EXCEPT ![r] = full]
  BY <1>1, <1>2, <1>3
<1>5. credited = [balance |-> receiver.balance + spent, nonce |-> receiver.nonce]
  BY <1>2, PartyAssumption DEF Account
<1>6. objects'[r] = full
  BY <1>4, <1>2
<1> HIDE DEF debited, credited
<1>7. /\ full[Sender[r]] = debited /\ full[Receiver[r]] = credited
      /\ \A a \in Accounts \ {Sender[r], Receiver[r]} : full[a] = objects[r][a]
      /\ full = [a \in Accounts |-> full[a]]
  BY <1>2, PartyAssumption
<1> HIDE DEF full
<1>8. objects' = [objects EXCEPT ![r] = objects'[r]]
  BY <1>4, <1>6
<1>9. /\ objects'[r][Sender[r]] = debited /\ objects'[r][Receiver[r]] = credited
      /\ \A a \in Accounts \ {Sender[r], Receiver[r]} : objects'[r][a] = objects[r][a]
      /\ objects'[r] = [a \in Accounts |-> objects'[r][a]]
  BY <1>6, <1>7
<1> WITNESS spent \in {0, Value}
<1> HIDE DEF caller, receiver
<1> QED
  BY <1>1, <1>5, <1>8, <1>9 DEF debited, caller, receiver, CallEffect

\* What has been bought leaves a balance that is not negative.
LEMMA BuyGasTyped ==
  ASSUME TypeOK, NEW r \in Runs
  PROVE  [balance |-> BalanceAfterGas(r), nonce |-> fromAccount[r].nonce] \in Account
BY AmountAssumption DEF TypeOK, BalanceAfterGas, Account

\* Every step of a run keeps the types.
LEMMA StepTyped ==
  ASSUME TypeOK, VmIsBound, NEW r \in Runs, RunStep(r)
  PROVE  TypeOK'
<1>1. CASE Bind(r)
  BY <1>1 DEF TypeOK, Bind, Goto, Places, Exposed
<1>2. CASE NetworkRead(r) \/ CheckpointTx(r) \/ Throw(r)
  BY <1>2 DEF TypeOK, NetworkRead, CheckpointTx, Throw, Goto, Places
<1>3. CASE Capture(r)
  BY <1>3 DEF TypeOK, Capture, Goto, Places
<1>4. CASE ReadBefore(r) \/ ReadAfter(r)
  <2>1. fromAccount' \in [Runs -> Account]
    BY <1>4, ReadCallerTyped DEF VmIsBound, ReadBefore, ReadAfter, Goto
  <2> QED
    BY <1>4, <2>1 DEF TypeOK, ReadBefore, ReadAfter, Goto, Places
<1>5. CASE BuyGas(r)
  <2>1. objects' \in [Runs -> [Accounts -> Account]]
    BY <1>5, BuyGasTyped, WriteCallerTyped DEF BuyGas
  <2> QED
    BY <1>5, <2>1 DEF TypeOK, BuyGas, Goto, Places
<1>6. CASE \E gas \in 0..GasCost : RunCall(r, gas)
  <2>1. PICK gas \in 0..GasCost : RunCall(r, gas)
    BY <1>6
  <2>2. PICK spent \in {0, Value} : CallEffect(r, gas, spent)
    BY <2>1, RunCallEffect
  <2>3. objects' \in [Runs -> [Accounts -> Account]]
    <3>1. objects[r] \in [Accounts -> Account]
      BY DEF TypeOK
    <3>2. /\ objects'[r][Sender[r]] \in Account
          /\ objects'[r][Receiver[r]] \in Account
      BY <2>2, <3>1, PartyAssumption, AmountAssumption DEF Account, CallEffect
    <3>3. \A a \in Accounts : objects'[r][a] \in Account
      BY <2>2, <3>1, <3>2 DEF CallEffect
    <3>4. objects'[r] \in [Accounts -> Account]
      BY <2>2, <3>3 DEF CallEffect
    <3> QED
      BY <2>2, <3>4 DEF TypeOK, CallEffect
  <2>4. results' \in [Runs -> Result]
    BY <2>2 DEF TypeOK, Result, CallEffect
  <2> QED
    BY <2>1, <2>3, <2>4 DEF TypeOK, RunCall, Goto, Places
<1>7. CASE Settle(r)
  <2>1. [fromAccount[r] EXCEPT !.balance = @ + (GasCost - results[r].gas)] \in Account
    <3>1. fromAccount[r] \in Account /\ results[r] \in Result
      BY DEF TypeOK
    <3>2. GasCost - results[r].gas \in Nat
      BY <3>1, AmountAssumption DEF Result
    <3> QED
      BY <3>1, <3>2 DEF Account
  <2>2. objects' \in [Runs -> [Accounts -> Account]]
    BY <1>7, <2>1, WriteCallerTyped DEF Settle
  <2> QED
    BY <1>7, <2>2 DEF TypeOK, Settle, Goto, Places
<1> QED
  BY <1>1, <1>2, <1>3, <1>4, <1>5, <1>6, <1>7 DEF RunStep

\* Every step keeps the VM bound once a run has begun.
LEMMA StepBound ==
  ASSUME TypeOK, VmIsBound, NEW r \in Runs, RunStep(r)
  PROVE  VmIsBound'
<1> USE DEF TypeOK, VmIsBound, Goto
<1>1. CASE Bind(r)
  BY <1>1 DEF Bind
<1>2. CASE NetworkRead(r) \/ CheckpointTx(r) \/ Throw(r)
  BY <1>2 DEF NetworkRead, CheckpointTx, Throw
<1>3. CASE Capture(r)
  BY <1>3 DEF Capture
<1>4. CASE ReadBefore(r) \/ ReadAfter(r)
  BY <1>4 DEF ReadBefore, ReadAfter
<1>5. CASE BuyGas(r) \/ Settle(r)
  BY <1>5 DEF BuyGas, Settle
<1>6. CASE \E gas \in 0..GasCost : RunCall(r, gas)
  BY <1>6 DEF RunCall
<1> QED
  BY <1>1, <1>2, <1>3, <1>4, <1>5, <1>6 DEF RunStep

\* A step of the run itself keeps its account of what it has paid.
LEMMA OwnStep ==
  ASSUME TypeOK, NEW r \in Applies, RunStep(r), Progress(r)
  PROVE  Progress(r)'
<1> r \in Runs
  BY RunAssumption
<1>a. /\ Sender[r] \in Accounts /\ Receiver[r] \in Accounts /\ Sender[r] # Receiver[r]
      /\ Funds[Sender[r]] \in Nat /\ Funds[Receiver[r]] \in Nat
  BY PartyAssumption, AmountAssumption
<1> USE <1>a DEF TypeOK, Goto, Exposed, Progress
<1>1. CASE Bind(r)
  BY <1>1 DEF Bind
<1>2. CASE NetworkRead(r) \/ CheckpointTx(r) \/ Throw(r)
  BY <1>2 DEF NetworkRead, CheckpointTx, Throw
<1>3. CASE Capture(r)
  BY <1>3 DEF Capture
<1>4. CASE ReadBefore(r) \/ ReadAfter(r)
  BY <1>4 DEF ReadBefore, ReadAfter, ReadCaller
<1>5. CASE BuyGas(r)
  <2>1. fromAccount[r] = LedgerAccount(Sender[r])
    BY <1>5 DEF BuyGas
  <2>2. [balance |-> BalanceAfterGas(r), nonce |-> fromAccount[r].nonce]
          = [balance |-> Funds[Sender[r]] - GasCost, nonce |-> 0]
    BY <1>5, <2>1, AmountAssumption
    DEF BuyGas, MayBuyGas, BalanceAfterGas, LedgerAccount
  <2>3. /\ objects'[r][Sender[r]] = [balance |-> Funds[Sender[r]] - GasCost, nonce |-> 0]
        /\ objects'[r][Receiver[r]] = objects[r][Receiver[r]]
    BY <1>5, <2>2 DEF BuyGas, WriteCaller
  <2> QED
    BY <1>5, <2>3 DEF BuyGas
<1>6. CASE \E gas \in 0..GasCost : RunCall(r, gas)
  <2>1. PICK gas \in 0..GasCost : RunCall(r, gas)
    BY <1>6
  <2>2. PICK spent \in {0, Value} : CallEffect(r, gas, spent)
    BY <2>1, RunCallEffect
  <2>3. results'[r].paid = spent
    BY <2>2 DEF CallEffect
  <2>4. /\ objects[r][Sender[r]] = [balance |-> Funds[Sender[r]] - GasCost, nonce |-> 0]
        /\ objects[r][Receiver[r]] = LedgerAccount(Receiver[r])
    BY <2>1 DEF RunCall
  <2>5. /\ objects'[r][Sender[r]] =
             [balance |-> Funds[Sender[r]] - GasCost - results'[r].paid, nonce |-> 1]
        /\ objects'[r][Receiver[r]] =
             [balance |-> Funds[Receiver[r]] + results'[r].paid, nonce |-> 0]
    BY <2>2, <2>3, <2>4 DEF LedgerAccount, CallEffect
  <2>6. pc[r] = "call" /\ pc' = [pc EXCEPT ![r] = "readAgain"] /\ UNCHANGED state
    BY <2>1 DEF RunCall
  <2> QED
    BY <2>5, <2>6
<1>7. CASE Settle(r)
  <2>1. /\ fromAccount[r] =
             [balance |-> Funds[Sender[r]] - GasCost - results[r].paid, nonce |-> 1]
        /\ objects[r][Receiver[r]] =
             [balance |-> Funds[Receiver[r]] + results[r].paid, nonce |-> 0]
    BY <1>7 DEF Settle
  <2>2. results[r] \in Result
    OBVIOUS
  <2>3. results[r].gas \in Int /\ results[r].paid \in Int
    BY <2>2, AmountAssumption DEF Result
  <2>4. [fromAccount[r] EXCEPT !.balance = @ + (GasCost - results[r].gas)] =
          [balance |-> Funds[Sender[r]] - results[r].gas - results[r].paid, nonce |-> 1]
    BY <2>1, <2>3, AmountAssumption
  <2>5. /\ objects'[r][Sender[r]] =
             [balance |-> Funds[Sender[r]] - results[r].gas - results[r].paid, nonce |-> 1]
        /\ objects'[r][Receiver[r]] = objects[r][Receiver[r]]
    BY <1>7, <2>4 DEF Settle, WriteCaller
  <2>6. Charged(r)'
    BY <1>7, <2>1, <2>5 DEF Settle, Charged
  <2> QED
    BY <1>7, <2>6 DEF Settle
<1> QED
  BY <1>1, <1>2, <1>3, <1>4, <1>5, <1>6, <1>7 DEF RunStep

\* A step of another run keeps it too, unless it takes the VM away.
LEMMA OthersStep ==
  ASSUME TypeOK, NEW r \in Applies, NEW s \in Runs, s # r, RunStep(s),
         Progress(r), ~disturbed'[r]
  PROVE  Progress(r)'
<1> r \in Runs
  BY RunAssumption
<1>1. /\ pc'[r] = pc[r] /\ objects'[r] = objects[r] /\ state'[r] = state[r]
      /\ fromAccount'[r] = fromAccount[r] /\ results'[r] = results[r]
      /\ stateManager' = stateManager \/ r \notin Exposed
  BY OthersUntouched
<1>2. r \in Exposed' <=> r \in Exposed
  BY <1>1 DEF Exposed
<1>3. Charged(r) <=> Charged(r)'
  BY <1>1 DEF Charged
<1> QED
  BY <1>1, <1>2, <1>3 DEF Progress

\* A run that is disturbed stays so.
LEMMA DisturbedStays ==
  ASSUME TypeOK, NEW s \in Runs, RunStep(s), NEW r \in Runs, disturbed[r]
  PROVE  disturbed'[r]
BY DEF TypeOK, RunStep, Bind, NetworkRead, CheckpointTx, Capture, ReadBefore, BuyGas,
       RunCall, ReadAfter, Settle, Throw

\* The strengthened invariant holds in every reachable state, for any number of
\* runs, accounts and amounts.
THEOREM RunsInvHolds == Spec => []RunsInv
<1>1. Init => RunsInv
  <2> SUFFICES ASSUME Init PROVE RunsInv
    OBVIOUS
  <2>1. TypeOK
    BY InitTyped
  <2>2. VmIsBound
    BY DEF Init, VmIsBound
  <2>3. \A r \in Applies : Progress(r)
    BY RunAssumption, PartyAssumption DEF Init, Progress, Exposed
  <2> QED
    BY <2>1, <2>2, <2>3 DEF RunsInv, UndisturbedProgress
<1>2. RunsInv /\ [Next]_vars => RunsInv'
  <2>1. CASE UNCHANGED vars
    BY <2>1 DEF RunsInv, vars, TypeOK, VmIsBound, UndisturbedProgress, Progress, Exposed,
                Charged
  <2>2. ASSUME RunsInv, NEW s \in Runs, RunStep(s) PROVE RunsInv'
    <3>1. TypeOK'
      BY <2>2, StepTyped DEF RunsInv
    <3>2. VmIsBound'
      BY <2>2, StepBound DEF RunsInv
    <3>3. ASSUME NEW r \in Applies, ~disturbed'[r] PROVE Progress(r)'
      <4> r \in Runs
        BY RunAssumption
      <4>1. Progress(r)
        BY <2>2, <3>3, DisturbedStays DEF RunsInv, UndisturbedProgress
      <4> QED
        BY <2>2, <3>3, <4>1, OwnStep, OthersStep DEF RunsInv
    <3> QED
      BY <3>1, <3>2, <3>3 DEF RunsInv, UndisturbedProgress
  <2> QED
    BY <2>1, <2>2 DEF Next
<1> QED
  BY <1>1, <1>2, PTL DEF Spec

\* The types hold in every reachable state: no balance goes below zero, whichever
\* state object the caller is read from.
THEOREM RunTypesHold == Spec => []TypeOK
<1>1. RunsInv => TypeOK
  BY DEF RunsInv
<1> QED
  BY <1>1, RunsInvHolds, PTL

\* An application that no other run disturbed before it took the VM charges its
\* caller exactly (runTx, index.ts apply()).
THEOREM UndisturbedCharges == Spec => []UndisturbedRunCharges
<1>1. RunsInv => UndisturbedRunCharges
  BY DEF RunsInv, UndisturbedProgress, Progress, UndisturbedRunCharges
<1> QED
  BY <1>1, RunsInvHolds, PTL

-----------------------------------------------------------------------------
(***************************************************************************)
(* WordOps: for words of any width, each opcode gives the word that it     *)
(* means.  Numbers are followed bit by bit where the handlers shift and    *)
(* mask, and as signed numbers where they divide; what a recursive function*)
(* is follows from a solution of its recursion, which has to be shown.     *)
(***************************************************************************)

-----------------------------------------------------------------------------
(* Powers of two, and division *)

\* The powers of two: the recursion has a solution.
LEMMA TwoToExists ==
  \E f \in [Nat -> Nat] : f = [n \in Nat |-> IF n = 0 THEN 1 ELSE 2 * f[n - 1]]
<1> DEFINE G == [p \in [Nat -> Nat] \X Nat |-> IF p[2] = 0 THEN 1 ELSE 2 * p[1][p[2] - 1]]
           rank == [n \in Nat |-> n]
<1>1. \A h \in [Nat -> Nat], i \in Nat : G[<<h, i>>] = IF i = 0 THEN 1 ELSE 2 * h[i - 1]
  OBVIOUS
<1>2. G \in [[Nat -> Nat] \X Nat -> Nat]
  <2>1. \A p \in [Nat -> Nat] \X Nat : (IF p[2] = 0 THEN 1 ELSE 2 * p[1][p[2] - 1]) \in Nat
    <3> TAKE p \in [Nat -> Nat] \X Nat
    <3>1. p[1] \in [Nat -> Nat] /\ p[2] \in Nat
      OBVIOUS
    <3>2. p[2] # 0 => p[2] - 1 \in Nat
      BY <3>1
    <3>3. p[2] # 0 => p[1][p[2] - 1] \in Nat
      BY <3>1, <3>2
    <3> QED
      BY <3>3
  <2> QED
    BY <2>1
<1> HIDE DEF G
<1>3. ASSUME NEW h \in [Nat -> Nat], NEW k \in [Nat -> Nat], NEW i \in Nat,
             \A j \in Nat : rank[j] < rank[i] => h[j] = k[j]
      PROVE  G[<<h, i>>] = G[<<k, i>>]
  <2>1. i # 0 => i - 1 \in Nat /\ i - 1 < i
    OBVIOUS
  <2>2. i # 0 => h[i - 1] = k[i - 1]
    BY <1>3, <2>1
  <2> QED
    BY <1>1, <2>2
<1>4. IsRanked(G, Nat, Nat, rank)
  BY <1>2, <1>3 DEF IsRanked
<1> HIDE DEF rank
<1>5. HasSolution(G, Nat, Nat)
  <2>1. Nat # {}
    BY 0 \in Nat
  <2> QED
    BY <1>4, <2>1, RecursionHasSolution
<1>6. PICK f \in [Nat -> Nat] : \A i \in Nat : f[i] = G[<<f, i>>]
  BY <1>5 DEF HasSolution
<1>7. f = [n \in Nat |-> IF n = 0 THEN 1 ELSE 2 * f[n - 1]]
  <2>1. \A i \in Nat : f[i] = IF i = 0 THEN 1 ELSE 2 * f[i - 1]
    BY <1>1, <1>6
  <2> QED
    BY <2>1
<1> QED
  BY <1>7

\* So TwoTo is what its definition says.
LEMMA TwoToIs ==
  /\ TwoTo \in [Nat -> Nat]
  /\ TwoTo[0] = 1
  /\ \A n \in Nat : TwoTo[n + 1] = 2 * TwoTo[n]
<1>1. TwoTo = [n \in Nat |-> IF n = 0 THEN 1 ELSE 2 * TwoTo[n - 1]]
  BY TwoToExists DEF TwoTo
<1>2. TwoTo \in [Nat -> Nat]
  <2>1. PICK f \in [Nat -> Nat] : f = [n \in Nat |-> IF n = 0 THEN 1 ELSE 2 * f[n - 1]]
    BY TwoToExists
  <2> DEFINE T == {n \in Nat : f[n] # TwoTo[n]}
  <2>2. ASSUME NEW n \in T PROVE \E m \in T : m < n
    <3>1. f[n] = IF n = 0 THEN 1 ELSE 2 * f[n - 1]
      BY <2>1
    <3>2. TwoTo[n] = IF n = 0 THEN 1 ELSE 2 * TwoTo[n - 1]
      BY <1>1
    <3>3. n # 0 /\ n - 1 \in Nat /\ n - 1 < n /\ f[n - 1] # TwoTo[n - 1]
      BY <3>1, <3>2
    <3> QED
      BY <3>3
  <2>3. T = {}
    <3>1. T \subseteq Nat
      OBVIOUS
    <3> HIDE DEF T
    <3> QED
      BY <2>2, <3>1, NoLeastCounterexample
  <2>4. \A n \in Nat : TwoTo[n] \in Nat
    BY <2>3
  <2> QED
    BY <1>1, <2>4
<1>3. TwoTo[0] = 1
  BY <1>1
<1>4. ASSUME NEW n \in Nat PROVE TwoTo[n + 1] = 2 * TwoTo[n]
  <2>1. n + 1 \in Nat /\ n + 1 # 0 /\ (n + 1) - 1 = n
    OBVIOUS
  <2> QED
    BY <1>1, <2>1
<1> QED
  BY <1>2, <1>3, <1>4

\* Of multiples of n, different ones are n apart at least.
LEMMA Products ==
  ASSUME NEW n \in Nat, NEW x \in Int, NEW y \in Int, x < y
  PROVE  n * x + n <= n * y
<1>1. y - x - 1 \in Nat
  OBVIOUS
<1>2. n * (y - x - 1) \in Nat
  BY <1>1
<1>3. n * (y - x - 1) = n * y - n * x - n
  OBVIOUS
<1>4. n * y \in Int /\ n * x \in Int
  OBVIOUS
<1> DEFINE a == n * x
           b == n * y
<1> HIDE DEF a, b
<1>5. b - a - n \in Nat
  BY <1>2, <1>3 DEF a, b
<1>6. a \in Int /\ b \in Int
  BY <1>4 DEF a, b
<1>7. a + n <= b
  BY <1>5, <1>6
<1> QED
  BY <1>7 DEF a, b

\* What the prover knows of division,
LEMMA DivMod ==
  ASSUME NEW x \in Int, NEW n \in Nat \ {0}
  PROVE  /\ x \div n \in Int /\ x % n \in Nat /\ x % n < n
         /\ x = n * (x \div n) + (x % n)
OBVIOUS

\* and that no other quotient and remainder do the same.
LEMMA DivModIs ==
  ASSUME NEW x \in Int, NEW n \in Nat \ {0}, NEW q \in Int, NEW r \in Nat, r < n,
         x = n * q + r
  PROVE  x \div n = q /\ x % n = r
<1> DEFINE p == x \div n
           s == x % n
           a == n * p
           b == n * q
<1>1. p \in Int /\ s \in Nat /\ s < n /\ a \in Int /\ b \in Int /\ x = a + s /\ x = b + r
  BY DivMod
<1>2. p < q => a + n <= b
  BY <1>1, Products
<1>3. q < p => b + n <= a
  BY <1>1, Products
<1> HIDE DEF p, s, a, b
<1>4. ~(p < q) /\ ~(q < p)
  BY <1>1, <1>2, <1>3
<1>5. p = q
  BY <1>1, <1>4
<1>6. a = b
  BY <1>5 DEF a, b
<1>7. s = r
  BY <1>1, <1>6
<1> QED
  BY <1>5, <1>7 DEF p, s

\* Multiples of n change the quotient only.
LEMMA ModOfMore ==
  ASSUME NEW x \in Int, NEW n \in Nat \ {0}, NEW k \in Int
  PROVE  (x + n * k) % n = x % n /\ (x + n * k) \div n = x \div n + k
<1> DEFINE q == x \div n
           r == x % n
<1>1. q \in Int /\ r \in Nat /\ r < n /\ x = n * q + r
  BY DivMod
<1> HIDE DEF q, r
<1>2. x + n * k = n * (q + k) + r
  BY <1>1
<1>3. x + n * k \in Int /\ q + k \in Int
  BY <1>1
<1>4. (x + n * k) \div n = q + k /\ (x + n * k) % n = r
  BY <1>1, <1>2, <1>3, DivModIs
<1> QED
  BY <1>4 DEF q, r

LEMMA ModOfSmall ==
  ASSUME NEW n \in Nat \ {0}, NEW x \in Nat, x < n
  PROVE  x % n = x /\ x \div n = 0
BY x = n * 0 + x, DivModIs

\* 2^(m + n) = 2^m * 2^n.
LEMMA TwoToProduct ==
  ASSUME NEW m \in Nat, NEW n \in Nat
  PROVE  TwoTo[m + n] = TwoTo[m] * TwoTo[n]
<1> DEFINE T == {i \in Nat : TwoTo[m + i] # TwoTo[m] * TwoTo[i]}
<1>1. ASSUME NEW i \in T
      PROVE  \E j \in T : j < i
  <2>1. i # 0
    <3>1. TwoTo[m] \in Nat /\ m + 0 = m
      BY TwoToIs
    <3> QED
      BY <3>1, TwoToIs
  <2>2. i - 1 \in Nat /\ i - 1 < i /\ m + (i - 1) \in Nat
    BY <2>1
  <2>3. TwoTo[i] = 2 * TwoTo[i - 1] /\ TwoTo[m + i] = 2 * TwoTo[m + (i - 1)]
    <3>1. (i - 1) + 1 = i /\ (m + (i - 1)) + 1 = m + i
      OBVIOUS
    <3> QED
      BY <2>2, <3>1, TwoToIs
  <2>4. TwoTo[m + (i - 1)] # TwoTo[m] * TwoTo[i - 1]
    <3> DEFINE a == TwoTo[m]
               b == TwoTo[i - 1]
    <3>1. a \in Nat /\ b \in Nat
      BY <2>2, TwoToIs
    <3>2. a * (2 * b) = 2 * (a * b)
      BY <3>1
    <3> QED
      BY <2>3, <3>2
  <2> QED
    BY <2>2, <2>4
<1>2. T = {}
  <2>1. T \subseteq Nat
    OBVIOUS
  <2> HIDE DEF T
  <2> QED
    BY <1>1, <2>1, NoLeastCounterexample
<1> QED
  BY <1>2

LEMMA TwoToPositive ==
  ASSUME NEW n \in Nat
  PROVE  TwoTo[n] \in Nat \ {0}
<1> DEFINE T == {i \in Nat : TwoTo[i] = 0}
<1>1. ASSUME NEW i \in T
      PROVE  \E j \in T : j < i
  <2>1. i # 0
    BY TwoToIs
  <2>2. i - 1 \in Nat /\ i - 1 < i /\ (i - 1) + 1 = i
    BY <2>1
  <2>3. TwoTo[i] = 2 * TwoTo[i - 1] /\ TwoTo[i - 1] \in Nat
    BY <2>2, TwoToIs
  <2>4. TwoTo[i - 1] = 0
    BY <2>3
  <2> QED
    BY <2>2, <2>4
<1>2. T = {}
  <2>1. T \subseteq Nat
    OBVIOUS
  <2> HIDE DEF T
  <2> QED
    BY <1>1, <2>1, NoLeastCounterexample
<1> QED
  BY <1>2, TwoToIs

LEMMA TwoToGrows ==
  ASSUME NEW m \in Nat, NEW n \in Nat, m <= n
  PROVE  /\ n - m \in Nat /\ TwoTo[n] = TwoTo[m] * TwoTo[n - m]
         /\ TwoTo[m] <= TwoTo[n]
<1>1. n - m \in Nat /\ m + (n - m) = n
  OBVIOUS
<1>2. TwoTo[n] = TwoTo[m] * TwoTo[n - m]
  BY <1>1, TwoToProduct
<1> DEFINE a == TwoTo[m]
           b == TwoTo[n - m]
<1>3. a \in Nat /\ b \in Nat \ {0}
  BY <1>1, TwoToPositive
<1> HIDE DEF a, b
<1>4. a <= a * b
  <2>1. b - 1 \in Nat
    BY <1>3
  <2>2. a * (b - 1) \in Nat /\ a * b \in Nat
    BY <1>3, <2>1
  <2>3. a * b = a * (b - 1) + a
    BY <1>3
  <2> QED
    BY <1>3, <2>2, <2>3
<1> QED
  BY <1>1, <1>2, <1>4 DEF a, b

\* 2^n is an even multiple of each smaller power.
LEMMA TwoToSplit ==
  ASSUME NEW n \in Nat, NEW i \in Nat, i < n
  PROVE  n - i - 1 \in Nat /\ TwoTo[n] = TwoTo[i] * (2 * TwoTo[n - i - 1])
<1> DEFINE d == n - i - 1
<1>1. d \in Nat /\ n = i + (d + 1)
  OBVIOUS
<1> HIDE DEF d
<1>2. TwoTo[i + (d + 1)] = TwoTo[i] * TwoTo[d + 1]
  BY <1>1, TwoToProduct
<1>3. TwoTo[d + 1] = 2 * TwoTo[d]
  BY <1>1, TwoToIs
<1> QED
  BY <1>1, <1>2, <1>3 DEF d

-----------------------------------------------------------------------------
(* Bits *)

LEMMA QuotientOfQuotient ==
  ASSUME NEW x \in Int, NEW a \in Nat, NEW i \in Nat
  PROVE  /\ (x \div TwoTo[a]) \div TwoTo[i] = x \div TwoTo[a + i]
         /\ x % TwoTo[a + i] = TwoTo[a] * ((x \div TwoTo[a]) % TwoTo[i]) + (x % TwoTo[a])
<1> DEFINE m == TwoTo[a]
           n == TwoTo[i]
           w == TwoTo[a + i]
<1>0. /\ m \in Nat \ {0} /\ n \in Nat \ {0} /\ w \in Nat \ {0} /\ w = m * n
  BY TwoToPositive, TwoToProduct
<1> HIDE DEF m, n, w
<1> DEFINE q == x \div m
           r == x % m
           p == q \div n
           s == q % n
           y == m * s + r
<1>1. q \in Int /\ r \in Nat /\ r < m /\ x = m * q + r
  BY <1>0, DivMod
<1>2. p \in Int /\ s \in Nat /\ s < n /\ q = n * p + s
  BY <1>0, <1>1, DivMod
<1> HIDE DEF q, r, p, s
<1>4. x = w * p + y
  <2>1. m * (n * p + s) = w * p + m * s
    BY <1>0, <1>2
  <2> QED
    BY <1>0, <1>1, <1>2, <2>1
<1>5. y \in Nat /\ y < w
  <2>1. m * s + m <= m * n
    BY <1>0, <1>2, Products
  <2>2. m * s \in Nat
    BY <1>0, <1>2
  <2> DEFINE d == m * s
  <2> HIDE DEF d
  <2>3. d + r \in Nat /\ d + r < w
    BY <2>1, <2>2, <1>0, <1>1 DEF d
  <2> QED
    BY <2>3 DEF d
<1> HIDE DEF y
<1>6. x \div w = p /\ x % w = y
  BY <1>0, <1>2, <1>4, <1>5, DivModIs
<1> QED
  BY <1>6 DEF m, n, w, q, r, p, s, y

\* A bit is what two remainders, or two quotients, differ by.
LEMMA BitIs ==
  ASSUME NEW x \in Int, NEW i \in Nat
  PROVE  /\ BitAt(x, i) \in {0, 1}
         /\ x \div TwoTo[i] = 2 * (x \div TwoTo[i + 1]) + BitAt(x, i)
         /\ x % TwoTo[i + 1] = (x % TwoTo[i]) + TwoTo[i] * BitAt(x, i)
<1> DEFINE m == TwoTo[i]
           t == TwoTo[i + 1]
           q == x \div m
           r == x % m
           b == q % 2
<1>1. m \in Nat \ {0} /\ t \in Nat \ {0} /\ t = m * 2
  BY TwoToPositive, TwoToIs
<1> HIDE DEF m, t
<1>2. q \in Int /\ r \in Int
  BY <1>1, DivMod
<1>3. q \div 2 = x \div t /\ x % t = m * b + r
  <2>1. TwoTo[1] = 2
    <3>1. TwoTo[0 + 1] = 2 * TwoTo[0]
      BY TwoToIs
    <3> QED
      BY <3>1, TwoToIs
  <2>2. /\ (x \div TwoTo[i]) \div TwoTo[1] = x \div TwoTo[i + 1]
        /\ x % TwoTo[i + 1] = TwoTo[i] * ((x \div TwoTo[i]) % TwoTo[1]) + (x % TwoTo[i])
    BY 1 \in Nat, QuotientOfQuotient
  <2> QED
    BY <2>1, <2>2 DEF m, t
<1> HIDE DEF q, r
<1>4. b \in {0, 1} /\ q = 2 * (q \div 2) + b
  BY <1>2
<1>5. BitAt(x, i) = b
  BY DEF BitAt, q, m
<1> HIDE DEF b
<1>6. m * b + r = r + m * b
  BY <1>1, <1>2, <1>4
<1> QED
  BY <1>3, <1>4, <1>5, <1>6 DEF q, r, m, t

\* A quotient has the bits from a on.
LEMMA BitOfQuotient ==
  ASSUME NEW x \in Int, NEW a \in Nat, NEW i \in Nat, NEW y, y = x \div TwoTo[a]
  PROVE  BitAt(y, i) = BitAt(x, a + i)
BY QuotientOfQuotient DEF BitAt

\* Bits below n do not depend on what is above.
LEMMA BitOfMore ==
  ASSUME NEW x \in Int, NEW k \in Int, NEW n \in Nat, NEW i \in Nat, i < n
  PROVE  BitAt(x + TwoTo[n] * k, i) = BitAt(x, i)
<1> DEFINE m == TwoTo[i]
           e == TwoTo[n - i - 1]
           q == x \div m
<1>2. m \in Nat \ {0} /\ e \in Nat \ {0}
  BY TwoToSplit, TwoToPositive
<1>3. TwoTo[n] = m * (2 * e)
  BY TwoToSplit
<1>4. q \in Int
  BY <1>2, DivMod
<1>5. (x + TwoTo[n] * k) \div m = q + 2 * (e * k)
  <2> HIDE DEF m, e
  <2>1. (2 * e) * k \in Int /\ e * k \in Int
    BY <1>2
  <2>2. (m * (2 * e)) * k = m * ((2 * e) * k) /\ (2 * e) * k = 2 * (e * k)
    BY <1>2
  <2>3. (x + m * ((2 * e) * k)) \div m = x \div m + (2 * e) * k
    BY <1>2, <2>1, ModOfMore
  <2> QED
    BY <1>3, <2>2, <2>3
<1>6. (q + 2 * (e * k)) % 2 = q % 2
  <2>1. e * k \in Int
    BY <1>2
  <2> DEFINE f == e * k
  <2> HIDE DEF q, f
  <2> QED
    BY <1>4, <2>1, 2 \in Nat \ {0}, ModOfMore DEF f
<1> QED
  BY <1>5, <1>6 DEF BitAt

\* A remainder has the bits below n, and
LEMMA BitOfMod ==
  ASSUME NEW x \in Int, NEW n \in Nat, NEW i \in Nat, i < n
  PROVE  BitAt(x % TwoTo[n], i) = BitAt(x, i)
<1> DEFINE m == TwoTo[n]
           q == x \div m
           r == x % m
<1>1. m \in Nat \ {0}
  BY TwoToPositive
<1> HIDE DEF m
<1>2. q \in Int /\ r \in Int /\ x = m * q + r
  BY <1>1, DivMod
<1>3. m * q \in Int
  BY <1>1, <1>2
<1>4. x = r + m * q
  BY <1>2, <1>3
<1> HIDE DEF q, r
<1>5. BitAt(r + TwoTo[n] * q, i) = BitAt(r, i)
  BY <1>2, BitOfMore
<1> QED
  BY <1>4, <1>5 DEF m, r

\* numbers below 2^n have no others.
LEMMA BitAbove ==
  ASSUME NEW n \in Nat, NEW x \in 0 .. TwoTo[n] - 1, NEW i \in Nat, i >= n
  PROVE  BitAt(x, i) = 0
<1>1. TwoTo[n] \in Nat \ {0} /\ TwoTo[i] \in Nat \ {0} /\ TwoTo[n] <= TwoTo[i]
  BY TwoToPositive, TwoToGrows
<1>2. x \in Nat /\ x < TwoTo[i]
  BY <1>1
<1>3. x \div TwoTo[i] = 0
  BY <1>1, <1>2, ModOfSmall
<1> QED
  BY <1>3 DEF BitAt

\* A multiple by 2^a has the bits a places higher.
LEMMA BitOfShifted ==
  ASSUME NEW x \in Int, NEW a \in Nat, NEW i \in Nat
  PROVE  /\ x * TwoTo[a] \in Int
         /\ BitAt(x * TwoTo[a], i) = IF i < a THEN 0 ELSE BitAt(x, i - a)
<1> DEFINE y == x * TwoTo[a]
<1>0. TwoTo[a] \in Nat \ {0} /\ y \in Int
  BY TwoToPositive
<1>1. CASE i < a
  <2>1. BitAt(0 + TwoTo[a] * x, i) = BitAt(0, i)
    BY <1>1, BitOfMore
  <2>2. y = 0 + TwoTo[a] * x
    BY <1>0
  <2>3. BitAt(0, i) = 0
    <3>1. TwoTo[i] \in Nat \ {0}
      BY TwoToPositive
    <3>2. 0 \div TwoTo[i] = 0
      BY <3>1, ModOfSmall
    <3> QED
      BY <3>2 DEF BitAt
  <2> QED
    BY <1>0, <1>1, <2>1, <2>2, <2>3
<1>2. CASE i >= a
  <2>1. i - a \in Nat /\ a + (i - a) = i
    BY <1>2
  <2>2. y \div TwoTo[a] = x
    <3>1. y = TwoTo[a] * x + 0
      BY <1>0
    <3> HIDE DEF y
    <3> QED
      BY <1>0, <3>1, DivModIs
  <2> DEFINE j == i - a
  <2> HIDE DEF y, j
  <2>3. BitAt(x, j) = BitAt(y, a + j)
    BY <1>0, <2>1, <2>2, BitOfQuotient DEF j
  <2> QED
    BY <1>0, <1>2, <2>1, <2>3 DEF y, j
<1> QED
  BY <1>1, <1>2

\* Taking x from 2^n - 1 turns its bits around.
LEMMA BitOfNot ==
  ASSUME NEW n \in Nat, NEW x \in Int, NEW i \in Nat, i < n
  PROVE  BitAt(TwoTo[n] - 1 - x, i) = 1 - BitAt(x, i)
<1> DEFINE m == TwoTo[i]
           e == TwoTo[n - i - 1]
           q == x \div m
           r == x % m
           y == TwoTo[n] - 1 - x
<1>1. m \in Nat \ {0} /\ e \in Nat \ {0} /\ TwoTo[n] = m * (2 * e)
  BY TwoToSplit, TwoToPositive
<1> HIDE DEF m, e
<1>2. q \in Int /\ r \in Nat /\ r < m /\ x = m * q + r
  BY <1>1, DivMod
<1> HIDE DEF q, r
<1>3. y \in Int /\ y = m * (2 * e - 1 - q) + (m - 1 - r)
  <2>1. m * (2 * e - 1 - q) = m * (2 * e) - m - m * q
    BY <1>1, <1>2
  <2> DEFINE f == m * (2 * e)
             g == m * q
  <2>2. f \in Int /\ g \in Int
    BY <1>1, <1>2
  <2>3. y = f - 1 - (g + r) /\ m * (2 * e - 1 - q) = f - m - g
    BY <1>1, <1>2, <2>1
  <2> HIDE DEF f, g, y
  <2>4. f - 1 - (g + r) = (f - m - g) + (m - 1 - r)
    BY <2>2, <1>1, <1>2
  <2>5. f - 1 - (g + r) \in Int
    BY <2>2, <1>2
  <2> QED
    BY <2>3, <2>4, <2>5
<1> HIDE DEF y
<1>4. y \div m = 2 * e - 1 - q
  <2> DEFINE p == 2 * e - 1 - q
             s == m - 1 - r
  <2>1. p \in Int /\ s \in Nat /\ s < m /\ y = m * p + s
    BY <1>1, <1>2, <1>3
  <2> HIDE DEF p, s
  <2>2. y \div m = p
    BY <1>1, <1>3, <2>1, DivModIs
  <2> QED
    BY <2>2 DEF p
<1>5. (2 * e - 1 - q) % 2 = 1 - (q % 2)
  BY <1>1, <1>2
<1> QED
  BY <1>4, <1>5 DEF BitAt, y, m, q

\* Numbers below 2^n with the same bits are the same.
LEMMA BitsDetermine ==
  ASSUME NEW n \in Nat, NEW x \in 0 .. TwoTo[n] - 1, NEW y \in 0 .. TwoTo[n] - 1,
         \A i \in 0 .. n - 1 : BitAt(x, i) = BitAt(y, i)
  PROVE  x = y
<1> DEFINE T == {i \in Nat : i <= n /\ x % TwoTo[i] # y % TwoTo[i]}
<1>0. x \in Int /\ y \in Int
  BY TwoToPositive
<1>1. ASSUME NEW i \in T
      PROVE  \E j \in T : j < i
  <2>1. i # 0
    <3>1. x % 1 = 0 /\ y % 1 = 0
      BY <1>0
    <3> QED
      BY <3>1, TwoToIs
  <2> DEFINE j == i - 1
  <2>2. j \in Nat /\ j + 1 = i /\ j < i /\ j <= n /\ j \in 0 .. n - 1
    BY <2>1
  <2> HIDE DEF j
  <2>3. /\ x % TwoTo[j + 1] = (x % TwoTo[j]) + TwoTo[j] * BitAt(x, j)
        /\ y % TwoTo[j + 1] = (y % TwoTo[j]) + TwoTo[j] * BitAt(y, j)
    BY <1>0, <2>2, BitIs
  <2>4. x % TwoTo[j] # y % TwoTo[j]
    BY <2>2, <2>3
  <2> QED
    BY <2>2, <2>4
<1>2. T = {}
  <2>1. T \subseteq Nat
    OBVIOUS
  <2> HIDE DEF T
  <2> QED
    BY <1>1, <2>1, NoLeastCounterexample
<1>3. x % TwoTo[n] = y % TwoTo[n]
  BY <1>2
<1>4. x % TwoTo[n] = x /\ y % TwoTo[n] = y
  <2> DEFINE m == TwoTo[n]
  <2>1. m \in Nat \ {0} /\ x \in Nat /\ y \in Nat /\ x < m /\ y < m
    BY TwoToPositive
  <2> HIDE DEF m
  <2>2. x % m = x /\ y % m = y
    BY <2>1, ModOfSmall
  <2> QED
    BY <2>2 DEF m
<1> QED
  BY <1>3, <1>4

\* Words.
LEMMA WidthIs ==
  /\ Width \in Nat \ {0} /\ Positions = 0 .. Width - 1
  /\ TwoPow \in Nat \ {0} /\ TwoPow = TwoTo[Width]
  /\ MaxInteger = TwoPow - 1 /\ MaxInteger \in Nat \ {0} /\ Words = 0 .. TwoPow - 1
<1>1. Width \in Nat \ {0}
  BY WordAssumption DEF Width
<1>2. Width - 1 \in Nat /\ Width = (Width - 1) + 1
  BY <1>1
<1>3. TwoTo[Width] = 2 * TwoTo[Width - 1] /\ TwoTo[Width - 1] \in Nat \ {0}
  BY <1>2, TwoToIs, TwoToPositive
<1> QED
  BY <1>1, <1>3 DEF Positions, TwoPow, MaxInteger, Words

IsWordSum(f, bits) ==
  f = [i \in 0 .. Width |-> IF i = 0 THEN 0 ELSE f[i - 1] + bits[i - 1] * TwoTo[i - 1]]

\* The sum that WordOf recurs on.
LEMMA WordSumExists ==
  ASSUME NEW bits \in [Positions -> {0, 1}]
  PROVE  \E f \in [0 .. Width -> Int] : IsWordSum(f, bits)
<1> DEFINE D == 0 .. Width
           G == [p \in [D -> Int] \X D |->
                  IF p[2] = 0 THEN 0 ELSE p[1][p[2] - 1] + bits[p[2] - 1] * TwoTo[p[2] - 1]]
           rank == [n \in D |-> n]
<1>0. \A i \in D : i \in Nat /\ (i # 0 => i - 1 \in D /\ i - 1 \in Positions /\ i - 1 < i)
  BY WidthIs
<1>1. \A h \in [D -> Int], i \in D :
        G[<<h, i>>] = IF i = 0 THEN 0 ELSE h[i - 1] + bits[i - 1] * TwoTo[i - 1]
  OBVIOUS
<1>2. G \in [[D -> Int] \X D -> Int]
  <2>1. ASSUME NEW h \in [D -> Int], NEW i \in D, i # 0
        PROVE  h[i - 1] + bits[i - 1] * TwoTo[i - 1] \in Int
    <3>1. i - 1 \in D /\ i - 1 \in Positions /\ i - 1 \in Nat
      BY <1>0, <2>1, WidthIs
    <3> DEFINE j == i - 1
    <3> HIDE DEF j, D
    <3>2. h[j] \in Int /\ bits[j] \in Int /\ TwoTo[j] \in Int
      BY <3>1, TwoToIs DEF j
    <3>3. h[j] + bits[j] * TwoTo[j] \in Int
      BY <3>2
    <3> QED
      BY <3>3 DEF j
  <2> HIDE DEF D
  <2>2. \A p \in [D -> Int] \X D :
          (IF p[2] = 0 THEN 0
           ELSE p[1][p[2] - 1] + bits[p[2] - 1] * TwoTo[p[2] - 1]) \in Int
    BY <2>1
  <2> QED
    BY <2>2
<1> HIDE DEF G
<1>3. ASSUME NEW h \in [D -> Int], NEW k \in [D -> Int], NEW i \in D,
             \A j \in D : rank[j] < rank[i] => h[j] = k[j]
      PROVE  G[<<h, i>>] = G[<<k, i>>]
  <2>1. i # 0 => h[i - 1] = k[i - 1]
    BY <1>0, <1>3
  <2> QED
    BY <1>1, <2>1
<1>4. IsRanked(G, D, Int, rank)
  BY <1>0, <1>2, <1>3 DEF IsRanked
<1> HIDE DEF rank, D
<1>5. HasSolution(G, D, Int)
  BY <1>4, 0 \in Int, RecursionHasSolution
<1>6. PICK f \in [D -> Int] : \A i \in D : f[i] = G[<<f, i>>]
  BY <1>5 DEF HasSolution
<1>7. \A i \in D : f[i] = IF i = 0 THEN 0 ELSE f[i - 1] + bits[i - 1] * TwoTo[i - 1]
  BY <1>1, <1>6
<1>8. f = [i \in D |-> IF i = 0 THEN 0 ELSE f[i - 1] + bits[i - 1] * TwoTo[i - 1]]
  BY <1>7
<1> QED
  BY <1>8 DEF IsWordSum, D

WordSumOf(bits) ==
  LET f == CHOOSE f : IsWordSum(f, bits) IN f[Width]

LEMMA WordOfIs ==
  ASSUME NEW bits
  PROVE  WordOf(bits) = WordSumOf(bits)
BY DEF WordOf, WordSumOf, IsWordSum

\* A word made from bits has them.
LEMMA WordOfBits ==
  ASSUME NEW bits \in [Positions -> {0, 1}]
  PROVE  WordOf(bits) \in Words /\ \A i \in Positions : BitAt(WordOf(bits), i) = bits[i]
<1> DEFINE f == CHOOSE f : IsWordSum(f, bits)
           w == Width
<1>0. w \in Nat /\ Positions = 0 .. w - 1 /\ TwoPow = TwoTo[w] /\ Words = 0 .. TwoPow - 1
  BY WidthIs
<1>1. IsWordSum(f, bits)
  BY WordSumExists
<1> HIDE DEF f
<1>2. \A i \in 0 .. w : f[i] = IF i = 0 THEN 0 ELSE f[i - 1] + bits[i - 1] * TwoTo[i - 1]
  BY <1>1 DEF IsWordSum
<1> HIDE DEF w
<1> DEFINE Right(i) == /\ f[i] \in Nat /\ f[i] < TwoTo[i]
                       /\ \A j \in Nat : j < i => BitAt(f[i], j) = bits[j]
           T == {i \in Nat : i <= w /\ ~Right(i)}
<1>3. ASSUME NEW i \in T
      PROVE  \E j \in T : j < i
  <2>1. CASE i = 0
    <3>1. 0 \in 0 .. w
      BY <1>0
    <3>2. f[0] = 0 /\ TwoTo[0] = 1
      BY <1>2, <3>1, TwoToIs
    <3> QED
      BY <3>2, <2>1
  <2>2. CASE i # 0
    <3> DEFINE k == i - 1
               m == TwoTo[k]
               b == bits[k]
               x == f[k]
    <3>1. k \in Nat /\ k + 1 = i /\ k < i /\ k <= w /\ k \in Positions /\ i \in 0 .. w
      BY <2>2, <1>0
    <3>2. f[i] = x + b * m
      BY <1>2, <2>2, <3>1
    <3>3. m \in Nat \ {0} /\ TwoTo[i] = 2 * m /\ b \in {0, 1}
      BY <3>1, TwoToIs, TwoToPositive
    <3>4. SUFFICES ASSUME Right(k) PROVE Right(i)
      BY <3>1
    <3>5. x \in Nat /\ x < m /\ \A j \in Nat : j < k => BitAt(x, j) = bits[j]
      BY <3>4
    <3> DEFINE y == f[i]
    <3> HIDE DEF x, m, b, k, Right, y
    <3>6. y \in Nat /\ y < 2 * m /\ y = m * b + x
      BY <3>2, <3>3, <3>5 DEF y
    <3>7. y \div m = b /\ y % m = x
      BY <3>3, <3>5, <3>6, DivModIs
    <3>8. ASSUME NEW j \in Nat, j < i PROVE BitAt(y, j) = bits[j]
      <4>1. CASE j = k
        <5>1. b % 2 = b
          BY <3>3
        <5> QED
          BY <4>1, <5>1, <3>7 DEF BitAt, m, b
      <4>2. CASE j < k
        <5>1. BitAt(y % TwoTo[k], j) = BitAt(y, j)
          BY <3>1, <3>6, <4>2, BitOfMod
        <5> QED
          BY <5>1, <4>2, <3>5, <3>7 DEF m
      <4> QED
        BY <3>1, <3>8, <4>1, <4>2
    <3> QED
      BY <3>3, <3>6, <3>8 DEF Right, y
  <2> QED
    BY <2>1, <2>2
<1>4. T = {}
  <2>1. T \subseteq Nat
    OBVIOUS
  <2> HIDE DEF T
  <2> QED
    BY <1>3, <2>1, NoLeastCounterexample
<1>5. Right(w)
  BY <1>0, <1>4
<1>6. WordOf(bits) = f[w]
  BY WordOfIs DEF WordSumOf, f, w
<1>7. f[w] \in Words /\ \A i \in Positions : BitAt(f[w], i) = bits[i]
  <2>1. \A i \in Positions : i \in Nat /\ i < w
    BY <1>0
  <2>2. TwoTo[w] \in Nat
    BY <1>0, TwoToPositive
  <2> QED
    BY <1>0, <1>5, <2>1, <2>2
<1> QED
  BY <1>6, <1>7

-----------------------------------------------------------------------------
(* Division towards zero *)

LEMMA QuotientIs ==
  ASSUME NEW x \in Int, NEW y \in Int, y # 0
  PROVE  /\ Quotient(x, y) \in Int /\ Remainder(x, y) \in Int
         /\ x = y * Quotient(x, y) + Remainder(x, y)
         /\ Abs(Remainder(x, y)) < Abs(y)
         /\ x >= 0 => Remainder(x, y) >= 0
         /\ x <= 0 => Remainder(x, y) <= 0
         /\ Abs(Quotient(x, y)) <= Abs(x)
<1> DEFINE a == Abs(x)
           b == Abs(y)
           p == a \div b
           r == a % b
<1>1. a \in Nat /\ b \in Nat \ {0}
  BY DEF Abs
<1>2. x = Sign(x) * a /\ y = Sign(y) * b /\ Sign(x) \in {-1, 1} /\ Sign(y) \in {-1, 1}
  BY DEF Abs, Sign
<1> HIDE DEF a, b
<1>3. p \in Int /\ r \in Nat /\ r < b /\ a = b * p + r
  BY <1>1, DivMod
<1>4. p >= 0 /\ p <= a
  <2>1. ~(p < 0)
    <3>1. p < 0 => b * p + b <= b * 0
      BY <1>1, <1>3, Products
    <3> DEFINE c == b * p
    <3>2. c \in Int /\ b * 0 = 0
      BY <1>1, <1>3
    <3> HIDE DEF c
    <3>3. p < 0 => c + b <= 0
      BY <3>1, <3>2 DEF c
    <3>4. a = c + r
      BY <1>3 DEF c
    <3> QED
      BY <1>1, <1>3, <3>2, <3>3, <3>4
  <2>2. p <= b * p
    <3>1. (b - 1) * p \in Nat
      <4>1. b - 1 \in Nat /\ p \in Nat
        BY <1>1, <1>3, <2>1
      <4> QED
        BY <4>1
    <3>2. (b - 1) * p = b * p - p /\ b * p \in Int
      BY <1>1, <1>3
    <3> DEFINE c == b * p
    <3> HIDE DEF c
    <3>3. c - p \in Nat /\ c \in Int
      BY <3>1, <3>2 DEF c
    <3>4. p <= c
      BY <3>3, <1>3
    <3> QED
      BY <3>4 DEF c
  <2> DEFINE c == b * p
  <2>3. c \in Int
    BY <1>1, <1>3
  <2>4. a = c + r /\ p <= c
    BY <1>3, <2>2
  <2> HIDE DEF c
  <2> QED
    BY <1>1, <1>3, <2>1, <2>3, <2>4
<1> DEFINE sx == Sign(x)
           sy == Sign(y)
<1>5. Quotient(x, y) = sx * sy * p
  BY DEF Quotient, a, b, p
<1>6. y * (sx * sy * p) = sx * (b * p)
  <2> HIDE DEF p, sx, sy
  <2>1. sx \in Int /\ sy \in Int /\ y = sy * b /\ sy * sy = 1 /\ p \in Int /\ b \in Int
    BY <1>1, <1>2, <1>3 DEF sx, sy
  <2>2. (sy * b) * (sx * sy * p) = (sy * sy) * (sx * (b * p))
    BY <2>1
  <2>3. sx * (b * p) \in Int
    BY <2>1
  <2> QED
    BY <2>1, <2>2, <2>3
<1>7. Remainder(x, y) = sx * r
  <2>1. Remainder(x, y) = x - sx * (b * p)
    BY <1>5, <1>6 DEF Remainder
  <2> HIDE DEF p, sx, r
  <2>2. x = sx * (b * p + r) /\ sx \in Int /\ b * p \in Int /\ r \in Int
    BY <1>1, <1>2, <1>3 DEF sx
  <2>3. sx * (b * p + r) = sx * (b * p) + sx * r /\ sx * (b * p) \in Int /\ sx * r \in Int
    BY <2>2
  <2> DEFINE c == sx * (b * p)
             d == sx * r
  <2> HIDE DEF c, d
  <2>4. Remainder(x, y) = x - c /\ x = c + d /\ c \in Int /\ d \in Int
    BY <2>1, <2>2, <2>3 DEF c, d
  <2> QED
    BY <2>4 DEF d
<1>8. sx \in {-1, 1} /\ sy \in {-1, 1} /\ (sx = -1 <=> x < 0)
  BY DEF Sign
<1> HIDE DEF p, r, sx, sy
<1>9. sx * sy * p \in {p, -p} /\ sx * r = IF x < 0 THEN -r ELSE r
  BY <1>3, <1>8
<1>10. Quotient(x, y) \in {p, -p} /\ Remainder(x, y) = IF x < 0 THEN -r ELSE r
  BY <1>5, <1>7, <1>9
<1>11. Abs(Quotient(x, y)) <= a /\ Abs(Remainder(x, y)) < b
  BY <1>1, <1>3, <1>4, <1>10 DEF Abs
<1>12. x <= 0 => Remainder(x, y) <= 0
  <2>1. x = 0 => r = 0
    <3>1. x = 0 => a = 0
      BY DEF a, Abs
    <3> QED
      BY <3>1, <1>1, ModOfSmall DEF r
  <2> QED
    BY <1>3, <1>10, <2>1
<1>13. x = y * Quotient(x, y) + Remainder(x, y)
  <2> DEFINE c == y * Quotient(x, y)
  <2>1. c \in Int
    BY <1>3, <1>10
  <2>2. Remainder(x, y) = x - c
    BY DEF Remainder
  <2> HIDE DEF c
  <2> QED
    BY <2>1, <2>2 DEF c
<1> QED
  BY <1>3, <1>10, <1>11, <1>12, <1>13 DEF a, b

LEMMA SameSigns ==
  ASSUME NEW x \in Int, NEW y \in Int
  PROVE  /\ (-x) * (-y) = x * y
         /\ x >= 0 /\ y >= 0 => x * y >= 0
         /\ x <= 0 /\ y <= 0 => x * y >= 0
<1>1. (-x) * (-y) = x * y
  OBVIOUS
<1>2. x >= 0 /\ y >= 0 => x * y \in Nat
  OBVIOUS
<1>3. x <= 0 /\ y <= 0 => (-x) * (-y) \in Nat
  OBVIOUS
<1> QED
  BY <1>1, <1>2, <1>3

\* On natural numbers they are the ones of the language.
LEMMA NaturalQuotient ==
  ASSUME NEW x \in Nat, NEW y \in Nat \ {0}
  PROVE  Quotient(x, y) = x \div y /\ Remainder(x, y) = x % y
<1> DEFINE q == x \div y
           r == x % y
<1>1. q \in Int /\ r \in Nat /\ x = y * q + r
  BY DivMod
<1>2. Quotient(x, y) = q
  <2>1. Abs(x) = x /\ Abs(y) = y /\ Sign(x) = 1 /\ Sign(y) = 1
    BY DEF Abs, Sign
  <2>2. Quotient(x, y) = 1 * 1 * q
    BY <2>1 DEF Quotient
  <2> HIDE DEF q
  <2> QED
    BY <2>2, <1>1
<1> DEFINE c == y * q
<1>3. c \in Int
  BY <1>1
<1>4. Remainder(x, y) = x - c
  BY <1>2 DEF Remainder
<1> HIDE DEF c
<1>5. Remainder(x, y) = r
  <2> HIDE DEF r
  <2>1. x = c + r
    BY <1>1 DEF c
  <2> QED
    BY <2>1, <1>1, <1>3, <1>4
<1> QED
  BY <1>2, <1>5

\* mod wraps as % does, from below zero too.
LEMMA ModIs ==
  ASSUME NEW x \in Int, NEW n \in Nat \ {0}
  PROVE  mod(x, n) = x % n
<1> DEFINE q == Quotient(x, n)
           r == Remainder(x, n)
           c == n * q
<1>1. /\ q \in Int /\ r \in Int /\ x = c + r /\ Abs(r) < Abs(n)
      /\ x >= 0 => r >= 0
  BY QuotientIs
<1>2. Abs(n) = n /\ (r >= 0 => r < n) /\ (r < 0 => -r < n)
  BY <1>1 DEF Abs
<1>3. mod(x, n) = IF r < 0 THEN n + r ELSE r
  BY DEF mod
<1> HIDE DEF q, r
<1>4. CASE r >= 0
  <2>1. r \in Nat /\ r < n /\ x = n * q + r
    BY <1>1, <1>2, <1>4
  <2>2. x % n = r
    BY <1>1, <2>1, DivModIs
  <2> QED
    BY <1>1, <1>3, <1>4, <2>2
<1>5. CASE r < 0
  <2> DEFINE p == q - 1
             s == n + r
  <2>1. p \in Int /\ s \in Nat /\ s < n
    BY <1>1, <1>2, <1>5
  <2>2. x = n * p + s
    <3>1. n * (q - 1) = n * q - n /\ n * q \in Int
      BY <1>1
    <3> HIDE DEF c
    <3>2. n * p = c - n /\ c \in Int
      BY <3>1 DEF c
    <3> QED
      BY <3>2, <1>1
  <2> HIDE DEF p, s
  <2>3. x % n = s
    BY <2>1, <2>2, DivModIs
  <2> QED
    BY <1>3, <1>5, <2>3 DEF s
<1> QED
  BY <1>1, <1>4, <1>5

-----------------------------------------------------------------------------
(* Signed numbers *)

Half == TwoTo[Width - 1]

LEMMA HalfIs ==
  Half \in Nat \ {0} /\ TwoPow = 2 * Half /\ TwoPow \div 2 = Half
<1>1. Width - 1 \in Nat /\ (Width - 1) + 1 = Width
  BY WidthIs
<1>2. TwoTo[(Width - 1) + 1] = 2 * Half /\ Half \in Nat \ {0}
  BY <1>1, TwoToIs, TwoToPositive DEF Half
<1>3. TwoPow = 2 * Half
  BY <1>1, <1>2, WidthIs
<1> QED
  BY <1>2, <1>3

\* The highest bit says whether a word is negative.
LEMMA SignBit ==
  ASSUME NEW x \in Words
  PROVE  BitAt(x, Width - 1) = IF x >= Half THEN 1 ELSE 0
<1> DEFINE h == Half
           q == x \div h
<1>1. h \in Nat \ {0} /\ x \in Nat /\ x < 2 * h
  BY HalfIs, WidthIs
<1> HIDE DEF h
<1>2. x >= h => q = 1
  <2>1. x >= h => x - h \in Nat /\ x - h < h /\ x = h * 1 + (x - h)
    BY <1>1
  <2> QED
    BY <1>1, <2>1, DivModIs
<1>3. x < h => q = 0
  BY <1>1, ModOfSmall
<1>4. BitAt(x, Width - 1) = q % 2
  BY DEF BitAt, Half, h
<1> HIDE DEF q
<1> QED
  BY <1>1, <1>2, <1>3, <1>4 DEF h

\* fromTwos reads a word as the signed number that it means.
LEMMA SignedIs ==
  ASSUME NEW x \in Words
  PROVE  /\ fromTwos(x) = Signed(x)
         /\ Signed(x) = IF x >= Half THEN x - TwoPow ELSE x
         /\ Signed(x) \in Int /\ -Half <= Signed(x) /\ Signed(x) < Half
         /\ ToWord(Signed(x)) = x
<1>1. Half \in Nat \ {0} /\ TwoPow = 2 * Half /\ TwoPow \div 2 = Half
  BY HalfIs
<1>2. x \in Nat /\ x < TwoPow
  BY WidthIs
<1>3. Signed(x) = IF x >= Half THEN x - TwoPow ELSE x
  BY SignBit DEF Signed
<1>4. fromTwos(x) = IF x >= Half THEN x - TwoPow ELSE x
  BY <1>1 DEF fromTwos
<1>5. x % TwoPow = x /\ (x - TwoPow) % TwoPow = x
  <2> DEFINE m == TwoPow
             y == x - m
  <2>1. m \in Nat \ {0} /\ y \in Int /\ y = m * (-1) + x /\ x = m * 0 + x
    BY <1>1, <1>2
  <2> HIDE DEF m, y
  <2>2. y % m = x /\ x % m = x
    BY <1>2, <2>1, DivModIs DEF m
  <2> QED
    BY <2>2 DEF m, y
<1> QED
  BY <1>1, <1>2, <1>3, <1>4, <1>5 DEF ToWord

\* Both ways of wrapping give the word of a number.
LEMMA ToWordIs ==
  ASSUME NEW v \in Int
  PROVE  ToWord(v) \in Words /\ toTwos(v) = ToWord(v) /\ mod(v, TwoPow) = ToWord(v)
<1>1. TwoPow \in Nat \ {0}
  BY WidthIs
<1>2. v % TwoPow \in Nat /\ v % TwoPow < TwoPow
  BY <1>1, DivMod
<1>3. mod(v, TwoPow) = v % TwoPow
  BY <1>1, ModIs
<1> QED
  BY <1>2, <1>3, WidthIs DEF ToWord, toTwos

\* Signed numbers survive the way to a word and back.
LEMMA SignedOfWord ==
  ASSUME NEW v \in Int, -Half <= v, v < Half
  PROVE  Signed(ToWord(v)) = v
<1> DEFINE m == TwoPow
           w == ToWord(v)
<1>1. Half \in Nat \ {0} /\ m = 2 * Half /\ m \in Nat \ {0}
  BY HalfIs
<1> HIDE DEF m
<1>2. CASE v >= 0
  <2>1. v \in Nat /\ v < m
    BY <1>1, <1>2
  <2>2. v % m = v
    BY <1>1, <2>1, ModOfSmall
  <2> QED
    BY <1>1, <2>1, <2>2, ToWordIs, SignedIs DEF ToWord, m
<1>3. CASE v < 0
  <2> DEFINE s == v + m
  <2>1. s \in Nat /\ s < m /\ v = m * (-1) + s /\ s >= Half
    BY <1>1, <1>3
  <2>2. v % m = s
    BY <1>1, <2>1, DivModIs
  <2>3. Signed(w) = s - m
    BY <2>1, <2>2, ToWordIs, SignedIs DEF ToWord, m
  <2> HIDE DEF w
  <2> QED
    BY <1>1, <2>3 DEF w
<1> QED
  BY <1>2, <1>3

\* x and y leave the same when they differ by a multiple of n.
LEMMA Differs ==
  ASSUME NEW x \in Int, NEW n \in Nat \ {0}
  PROVE  /\ x % n \in Nat /\ x % n < n
         /\ (x - (x % n)) % n = 0
<1> DEFINE q == x \div n
           r == x % n
           c == n * q
<1>1. q \in Int /\ r \in Nat /\ r < n /\ x = c + r
  BY DivMod
<1>2. c \in Int /\ c = n * q + 0
  BY <1>1
<1>3. c % n = 0
  <2> HIDE DEF c, q
  <2> QED
    BY <1>1, <1>2, DivModIs
<1> HIDE DEF c, r
<1>4. x - r = c
  BY <1>1, <1>2
<1> QED
  BY <1>1, <1>3, <1>4 DEF r

-----------------------------------------------------------------------------
(* The opcodes, in families *)

Right(op, a, b, c) ==
  Compute(op, a, b, c) \in Words /\ Means(op, a, b, c, Compute(op, a, b, c))

LEMMA WordsAre ==
  /\ TwoPow \in Nat \ {0} /\ \A x \in Int : x \in Words <=> x >= 0 /\ x < TwoPow
  /\ \A x \in Words : x \in Nat
  /\ 0 \in Words /\ 1 \in Words
BY WidthIs

LEMMA SumsAreRight ==
  ASSUME NEW a \in Words, NEW b \in Words, NEW c, NEW op \in {"ADD", "MUL", "SUB"}
  PROVE  Right(op, a, b, c)
<1>1. a \in Int /\ b \in Int
  BY WordsAre
<1>2. a + b \in Int /\ a * b \in Int /\ a - b \in Int
  BY <1>1
<1>3. ToWord(a + b) \in Words /\ mod(a + b, TwoPow) = ToWord(a + b)
  BY <1>2, ToWordIs
<1>4. ToWord(a * b) \in Words /\ mod(a * b, TwoPow) = ToWord(a * b)
  BY <1>2, ToWordIs
<1>5. ToWord(a - b) \in Words /\ mod(a - b, TwoPow) = ToWord(a - b)
  BY <1>2, ToWordIs
<1> QED
  BY <1>3, <1>4, <1>5 DEF Right, Compute, Means

LEMMA ModuliAreRight ==
  ASSUME NEW a \in Words, NEW b \in Words, NEW c \in Words, NEW op \in {"MOD", "ADDMOD", "MULMOD"}
  PROVE  Right(op, a, b, c)
<1>1. a \in Nat /\ b \in Nat /\ c \in Nat
  BY WordsAre
<1>2. a + b \in Int /\ a * b \in Int /\ a \in Int
  BY <1>1
<1>3. ASSUME NEW x \in Int, NEW n \in Words, n # 0
      PROVE  mod(x, n) \in Words /\ mod(x, n) < n /\ (x - mod(x, n)) % n = 0
  <2>1. n \in Nat \ {0} /\ n < TwoPow
    BY <1>3, WordsAre
  <2>2. mod(x, n) = x % n
    BY <2>1, ModIs
  <2>3. x % n \in Nat /\ x % n < n /\ (x - (x % n)) % n = 0
    BY <2>1, Differs
  <2> QED
    BY <2>1, <2>2, <2>3, WordsAre
<1>4. CASE op = "MOD"
  BY <1>2, <1>3, <1>4, WordsAre DEF Right, Compute, Means
<1>5. CASE op = "ADDMOD"
  BY <1>2, <1>3, <1>5, WordsAre DEF Right, Compute, Means
<1>6. CASE op = "MULMOD"
  BY <1>2, <1>3, <1>6, WordsAre DEF Right, Compute, Means
<1> QED
  BY <1>4, <1>5, <1>6

LEMMA ComparisonsAreRight ==
  ASSUME NEW a \in Words, NEW b \in Words, NEW c,
         NEW op \in {"LT", "GT", "SLT", "SGT", "EQ", "ISZERO"}
  PROVE  Right(op, a, b, c)
<1>1. 0 \in Words /\ 1 \in Words
  BY WordsAre
<1>2. a \in Int /\ b \in Int /\ Signed(a) \in Int /\ Signed(b) \in Int
  BY WordsAre, SignedIs
<1>3. fromTwos(a) = Signed(a) /\ fromTwos(b) = Signed(b)
  BY SignedIs
<1> USE <1>1 DEF Right, Compute, Means, Truth
<1>4. CASE op = "LT"
  BY <1>4
<1>5. CASE op = "GT"
  BY <1>2, <1>5
<1>6. CASE op = "SLT"
  BY <1>3, <1>6
<1>7. CASE op = "SGT"
  BY <1>2, <1>3, <1>7
<1>8. CASE op = "EQ"
  BY <1>8
<1>9. CASE op = "ISZERO"
  BY <1>9
<1> QED
  BY <1>4, <1>5, <1>6, <1>7, <1>8, <1>9

\* The quotient of the most negative word by -1 wraps.
LEMMA QuotientsAreRight ==
  ASSUME NEW a \in Words, NEW b \in Words, NEW c, NEW op \in {"DIV", "SDIV"}
  PROVE  Right(op, a, b, c)
<1>0. /\ TwoPow \in Nat \ {0} /\ Half \in Nat \ {0} /\ TwoPow = 2 * Half
      /\ MaxInteger = TwoPow - 1
  BY WidthIs, HalfIs
<1>1. /\ a \in Nat /\ b \in Nat /\ a < TwoPow /\ b < TwoPow /\ 0 \in Words
      /\ fromTwos(a) = Signed(a) /\ fromTwos(b) = Signed(b)
      /\ Signed(a) \in Int /\ -Half <= Signed(a) /\ Signed(a) < Half
      /\ Signed(b) \in Int /\ (b # 0 => Signed(b) # 0)
  <2>1. b # 0 => Signed(b) # 0
    <3>1. Signed(b) = (IF b >= Half THEN b - TwoPow ELSE b) /\ b \in Nat /\ b < TwoPow
      BY SignedIs, WordsAre
    <3> QED
      BY <1>0, <3>1
  <2> QED
    BY <2>1, WordsAre, SignedIs
<1>2. CASE b = 0
  BY <1>1, <1>2 DEF Right, Compute, Means
<1>3. CASE b # 0
  <2>1. ASSUME NEW x \in Int, NEW y \in Int, y # 0
        PROVE  IsQuotient(Quotient(x, y), x, y)
    <3> DEFINE q == Quotient(x, y)
               r == Remainder(x, y)
    <3>1. /\ q \in Int /\ r \in Int /\ x = y * q + r /\ Abs(r) < Abs(y)
          /\ (x >= 0 => r >= 0) /\ (x <= 0 => r <= 0)
      BY <2>1, QuotientIs
    <3> HIDE DEF q, r
    <3>2. x - q * y = r
      <4> DEFINE d == y * q
      <4>1. d \in Int /\ q * y = d
        BY <3>1
      <4> HIDE DEF d
      <4> QED
        BY <3>1, <4>1 DEF d
    <3>3. r * x >= 0
      BY <3>1, SameSigns
    <3> QED
      BY <3>1, <3>2, <3>3 DEF IsQuotient, q
  <2>2. CASE op = "DIV"
    <3> DEFINE q == Quotient(a, b)
    <3>1. q = a \div b
      BY <1>1, <1>3, NaturalQuotient
    <3>2. q \in Int /\ Abs(q) <= Abs(a) /\ q >= 0
      <4>1. q \in Int /\ Abs(q) <= Abs(a)
        BY <1>1, <1>3, QuotientIs
      <4>2. a \div b >= 0
        BY <1>1, <1>3
      <4> QED
        BY <3>1, <4>1, <4>2
    <3> HIDE DEF q
    <3>3. q \in Nat /\ q < TwoPow
      BY <1>0, <1>1, <3>2 DEF Abs
    <3>4. mod(q, TwoPow) = q /\ q \in Words
      <4>1. q % TwoPow = q /\ q \in Words
        BY <1>0, <3>3, ModOfSmall, WordsAre
      <4>2. mod(q, TwoPow) = q % TwoPow
        BY <1>0, <3>3, ModIs
      <4> QED
        BY <4>1, <4>2
    <3>5. IsQuotient(q, a, b)
      BY <1>1, <1>3, <2>1 DEF q
    <3>6. Compute(op, a, b, c) = mod(q, TwoPow)
      BY <2>2, <1>3 DEF Compute, q
    <3> QED
      BY <2>2, <1>3, <3>4, <3>5, <3>6 DEF Right, Means
  <2>3. CASE op = "SDIV"
    <3> DEFINE q == Quotient(Signed(a), Signed(b))
    <3>1. q \in Int /\ Abs(q) <= Abs(Signed(a)) /\ IsQuotient(q, Signed(a), Signed(b))
      BY <1>1, <1>3, <2>1, QuotientIs
    <3>2. Compute(op, a, b, c) = toTwos(q)
      BY <2>3, <1>1, <1>3 DEF Compute
    <3> HIDE DEF q
    <3>3. Abs(q) <= Half
      BY <1>0, <1>1, <3>1 DEF Abs
    <3>4. q \in -(MaxInteger) .. MaxInteger
      BY <1>0, <3>1, <3>3 DEF Abs
    <3>5. toTwos(q) = ToWord(q) /\ ToWord(q) \in Words
      BY <3>1, ToWordIs
    <3> QED
      BY <2>3, <1>3, <3>1, <3>2, <3>4, <3>5 DEF Right, Means
  <2> QED
    BY <2>2, <2>3
<1> QED
  BY <1>2, <1>3

LEMMA SignedModulusIsRight ==
  ASSUME NEW a \in Words, NEW b \in Words, NEW c
  PROVE  Right("SMOD", a, b, c)
<1> DEFINE x == Signed(a)
           y == Signed(b)
           q == Quotient(x, y)
           r == Remainder(x, y)
           t == Compute("SMOD", a, b, c)
<1>0. /\ TwoPow \in Nat \ {0} /\ Half \in Nat \ {0} /\ TwoPow = 2 * Half
      /\ MaxInteger = TwoPow - 1
  BY WidthIs, HalfIs
<1>1. /\ b \in Nat /\ b < TwoPow /\ fromTwos(a) = x /\ fromTwos(b) = y
      /\ x \in Int /\ -Half <= x /\ x < Half
      /\ y \in Int /\ -Half <= y /\ y < Half
      /\ y = IF b >= Half THEN b - TwoPow ELSE b
  BY SignedIs, WordsAre
<1>2. CASE b = 0
  BY <1>2, WordsAre DEF Right, Compute, Means
<1>3. CASE b # 0
  <2>1. y # 0
    BY <1>0, <1>1, <1>3
  <2>2. /\ q \in Int /\ r \in Int /\ x = y * q + r /\ Abs(r) < Abs(y)
        /\ (x >= 0 => r >= 0) /\ (x <= 0 => r <= 0)
    BY <1>1, <2>1, QuotientIs
  <2>3. t = toTwos(r)
    BY <1>1, <1>3 DEF Compute
  <2> HIDE DEF x, y, q, r
  <2>4. -Half <= r /\ r < Half
    BY <1>0, <1>1, <2>2 DEF Abs
  <2>5. t \in Words /\ Signed(t) = r
    BY <2>2, <2>3, <2>4, ToWordIs, SignedOfWord
  <2>6. (x - r) % Abs(y) = 0
    <3> DEFINE d == Abs(y)
               e == IF y < 0 THEN -q ELSE q
               f == y * q
    <3>1. d \in Nat \ {0} /\ e \in Int
      BY <1>1, <2>1, <2>2 DEF Abs
    <3>2. d * e = f /\ f \in Int
      <4>1. (-y) * (-q) = y * q /\ y * q \in Int
        BY <1>1, <2>2, SameSigns
      <4> QED
        BY <4>1 DEF Abs
    <3> HIDE DEF d, e, f
    <3>3. x - r = f
      BY <1>1, <2>2, <3>2 DEF f
    <3>4. f = d * e + 0
      BY <3>2
    <3>5. f % d = 0
      BY <3>1, <3>2, <3>4, DivModIs
    <3> QED
      BY <3>3, <3>5 DEF d
  <2>7. r * x >= 0
    BY <1>1, <2>2, SameSigns
  <2> HIDE DEF t
  <2>8. /\ Abs(Signed(t)) < Abs(y) /\ (x - Signed(t)) % Abs(y) = 0 /\ Signed(t) * x >= 0
    BY <2>2, <2>5, <2>6, <2>7
  <2>9. Means("SMOD", a, b, c, t)
    BY <1>3, <2>8 DEF Means, x, y
  <2> QED
    BY <2>5, <2>9 DEF Right, t
<1> QED
  BY <1>2, <1>3

LEMMA WordBits ==
  ASSUME NEW x \in Words
  PROVE  /\ x \in Nat
         /\ \A i \in Nat : BitAt(x, i) \in {0, 1}
         /\ \A i \in Nat : i >= Width => BitAt(x, i) = 0
         /\ \A i \in Positions : i \in Nat /\ i < Width
<1>1. x \in 0 .. TwoTo[Width] - 1 /\ Width \in Nat
  BY WidthIs
<1>2. x \in Nat /\ x \in Int
  BY WordsAre
<1>3. \A i \in Nat : BitAt(x, i) \in {0, 1}
  BY <1>2, BitIs
<1>4. \A i \in Nat : i >= Width => BitAt(x, i) = 0
  BY <1>1, BitAbove
<1>5. \A i \in Positions : i \in Nat /\ i < Width
  BY WidthIs
<1> QED
  BY <1>2, <1>3, <1>4, <1>5

LEMMA ZeroBits == \A i \in Nat : BitAt(0, i) = 0
<1> TAKE i \in Nat
<1>1. TwoTo[i] \in Nat \ {0}
  BY TwoToPositive
<1>2. 0 \div TwoTo[i] = 0
  BY <1>1, ModOfSmall
<1> QED
  BY <1>2 DEF BitAt

\* The bitwise opcodes, bit by bit.
LEMMA AndIs ==
  ASSUME NEW x \in Words, NEW y \in Words
  PROVE  /\ BitAnd(x, y) \in Words
         /\ \A i \in Positions : BitAt(BitAnd(x, y), i) = BitAt(x, i) * BitAt(y, i)
<1> DEFINE bits == [i \in Positions |-> BitAt(x, i) * BitAt(y, i)]
<1>1. bits \in [Positions -> {0, 1}]
  BY WordBits
<1>2. BitAnd(x, y) = WordOf(bits)
  BY DEF BitAnd
<1>3. \A i \in Positions : bits[i] = BitAt(x, i) * BitAt(y, i)
  OBVIOUS
<1> HIDE DEF bits
<1> QED
  BY <1>1, <1>2, <1>3, WordOfBits

LEMMA OrIs ==
  ASSUME NEW x \in Words, NEW y \in Words
  PROVE  /\ BitOr(x, y) \in Words
         /\ \A i \in Positions :
              BitAt(BitOr(x, y), i) = IF BitAt(x, i) + BitAt(y, i) > 0 THEN 1 ELSE 0
<1> DEFINE bits == [i \in Positions |-> IF BitAt(x, i) + BitAt(y, i) > 0 THEN 1 ELSE 0]
<1>1. bits \in [Positions -> {0, 1}]
  OBVIOUS
<1>2. BitOr(x, y) = WordOf(bits)
  BY DEF BitOr
<1>3. \A i \in Positions : bits[i] = IF BitAt(x, i) + BitAt(y, i) > 0 THEN 1 ELSE 0
  OBVIOUS
<1> HIDE DEF bits
<1> QED
  BY <1>1, <1>2, <1>3, WordOfBits

LEMMA XorIs ==
  ASSUME NEW x \in Words, NEW y \in Words
  PROVE  /\ BitXor(x, y) \in Words
         /\ \A i \in Positions :
              BitAt(BitXor(x, y), i) = (BitAt(x, i) + BitAt(y, i)) % 2
<1> DEFINE bits == [i \in Positions |-> (BitAt(x, i) + BitAt(y, i)) % 2]
<1>1. bits \in [Positions -> {0, 1}]
  <2>1. \A i \in Positions : BitAt(x, i) \in Int /\ BitAt(y, i) \in Int
    BY WordBits
  <2>2. \A v \in Int : v % 2 \in {0, 1}
    OBVIOUS
  <2>3. \A i \in Positions : (BitAt(x, i) + BitAt(y, i)) % 2 \in {0, 1}
    BY <2>1, <2>2
  <2> QED
    BY <2>3
<1>2. BitXor(x, y) = WordOf(bits)
  BY DEF BitXor
<1>3. \A i \in Positions : bits[i] = (BitAt(x, i) + BitAt(y, i)) % 2
  OBVIOUS
<1> HIDE DEF bits
<1> QED
  BY <1>1, <1>2, <1>3, WordOfBits

LEMMA NotIs ==
  ASSUME NEW x \in Words
  PROVE  BitNot(x) \in Words /\ \A i \in Positions : BitAt(BitNot(x), i) = 1 - BitAt(x, i)
<1>1. x \in Int /\ Width \in Nat /\ BitNot(x) = TwoTo[Width] - 1 - x /\ BitNot(x) \in Words
  <2>1. x \in Nat /\ x < TwoPow /\ TwoPow \in Nat
    BY WordsAre
  <2>2. TwoPow - 1 - x \in Words
    BY <2>1, WordsAre
  <2> QED
    BY <2>1, <2>2, WidthIs DEF BitNot
<1>2. \A i \in Positions : i \in Nat /\ i < Width
  BY WidthIs
<1> QED
  BY <1>1, <1>2, BitOfNot

LEMMA BitwiseAreRight ==
  ASSUME NEW a \in Words, NEW b \in Words, NEW c, NEW op \in {"AND", "OR", "XOR", "NOT"}
  PROVE  Right(op, a, b, c)
<1>1. \A i \in Positions : BitAt(a, i) \in {0, 1} /\ BitAt(b, i) \in {0, 1}
  BY WordBits
<1>2. CASE op = "AND"
  <2>1. BitAnd(a, b) \in Words
    BY AndIs
  <2>2. \A i \in Positions : BitAt(BitAnd(a, b), i) = BitAt(a, i) * BitAt(b, i)
    BY AndIs
  <2>3. \A i \in Positions :
          BitAt(BitAnd(a, b), i) = 1 <=> BitAt(a, i) = 1 /\ BitAt(b, i) = 1
    BY <1>1, <2>2
  <2> QED
    BY <1>2, <2>1, <2>3 DEF Right, Compute, Means
<1>3. CASE op = "OR"
  <2>1. BitOr(a, b) \in Words
    BY OrIs
  <2>2. \A i \in Positions :
          BitAt(BitOr(a, b), i) = IF BitAt(a, i) + BitAt(b, i) > 0 THEN 1 ELSE 0
    BY OrIs
  <2>3. \A i \in Positions :
          BitAt(BitOr(a, b), i) = 1 <=> BitAt(a, i) = 1 \/ BitAt(b, i) = 1
    BY <1>1, <2>2
  <2> QED
    BY <1>3, <2>1, <2>3 DEF Right, Compute, Means
<1>4. CASE op = "XOR"
  <2>1. BitXor(a, b) \in Words
    BY XorIs
  <2>2. \A i \in Positions : BitAt(BitXor(a, b), i) = (BitAt(a, i) + BitAt(b, i)) % 2
    BY XorIs
  <2>3. \A i \in Positions : BitAt(BitXor(a, b), i) = 1 <=> BitAt(a, i) # BitAt(b, i)
    <3>1. 0 % 2 = 0 /\ 1 % 2 = 1 /\ 2 % 2 = 0
      OBVIOUS
    <3> TAKE i \in Positions
    <3> DEFINE x == BitAt(a, i)
               y == BitAt(b, i)
    <3>2. x \in {0, 1} /\ y \in {0, 1} /\ BitAt(BitXor(a, b), i) = (x + y) % 2
      BY <1>1, <2>2
    <3> HIDE DEF x, y
    <3> QED
      BY <3>1, <3>2 DEF x, y
  <2> QED
    BY <1>4, <2>1, <2>3 DEF Right, Compute, Means
<1>5. CASE op = "NOT"
  <2>1. BitNot(a) \in Words
    BY NotIs
  <2>2. \A i \in Positions : BitAt(BitNot(a), i) # BitAt(a, i)
    BY <1>1, NotIs
  <2> QED
    BY <1>5, <2>1, <2>2 DEF Right, Compute, Means
<1> QED
  BY <1>2, <1>3, <1>4, <1>5

\* Shifts by natural numbers.
LEMMA ShiftsAre ==
  ASSUME NEW x \in Int, NEW n \in Nat
  PROVE  /\ ShiftLeft(x, n) = x * TwoTo[n] /\ ShiftRight(x, n) = x \div TwoTo[n]
         /\ x * TwoTo[n] \in Int /\ x \div TwoTo[n] \in Int
         /\ \A i \in Nat : BitAt(x \div TwoTo[n], i) = BitAt(x, n + i)
<1> DEFINE m == TwoTo[n]
<1>0. m \in Nat \ {0} /\ (n = 0 => m = 1)
  BY TwoToPositive, TwoToIs
<1>1. ShiftLeft(x, n) = x * m
  BY DEF ShiftLeft
<1>2. ShiftRight(x, n) = IF -n >= 0 THEN x * TwoTo[-n] ELSE x \div TwoTo[-(-n)]
  BY DEF ShiftRight, ShiftLeft
<1>3. -(-n) = n /\ (-n >= 0 <=> n = 0)
  OBVIOUS
<1>4. n = 0 => x * TwoTo[-n] = x \div m
  <2>1. n = 0 => -n = 0
    <3>1. \A k \in Nat : k <= 0 => -k = 0
      OBVIOUS
    <3> QED
      BY <3>1, n <= 0 <=> n = 0
  <2>2. x \div 1 = x /\ x * 1 = x
    OBVIOUS
  <2>3. n = 0 => TwoTo[-n] = 1 /\ m = 1
    BY <2>1, TwoToIs
  <2> HIDE DEF m
  <2> QED
    BY <2>2, <2>3
<1>5. ShiftRight(x, n) = x \div m
  BY <1>2, <1>3, <1>4
<1>6. x * m \in Int /\ x \div m \in Int
  <2> HIDE DEF m
  <2> QED
    BY <1>0, DivMod
<1> QED
  BY <1>1, <1>5, <1>6, BitOfQuotient

\* A quotient of a word is a word.
LEMMA QuotientIsWord ==
  ASSUME NEW x \in Words, NEW n \in Nat
  PROVE  x \div TwoTo[n] \in Words
<1> DEFINE m == TwoTo[n]
           q == x \div m
<1>1. m \in Nat \ {0} /\ x \in Nat
  BY TwoToPositive, WordsAre
<1> HIDE DEF m
<1>2. Quotient(x, m) = q /\ Abs(Quotient(x, m)) <= Abs(x) /\ q \in Int
  <2>1. x \in Int /\ m \in Int /\ m # 0
    BY <1>1
  <2>2. Abs(Quotient(x, m)) <= Abs(x)
    BY <2>1, QuotientIs
  <2>3. q \in Int
    BY <1>1, DivMod
  <2> QED
    BY <1>1, <2>2, <2>3, NaturalQuotient
<1>3. q >= 0
  BY <1>1
<1> HIDE DEF q
<1>4. q \in Nat /\ q <= x
  BY <1>1, <1>2, <1>3 DEF Abs
<1> QED
  BY <1>4, WordsAre DEF q, m

\* A shift by Width is not cut short by the handlers and gives 0 all the same.
LEMMA ShiftsAreRight ==
  ASSUME NEW a \in Words, NEW b \in Words, NEW c, NEW op \in {"SHL", "SHR"}
  PROVE  Right(op, a, b, c)
<1>1. /\ a \in Nat /\ b \in Nat /\ b \in Int /\ Width \in Nat /\ 0 \in Words
      /\ \A i \in Positions : i \in Nat /\ i < Width
  BY WordBits, WordsAre, WidthIs
<1>2. \A i \in Nat : BitAt(0, i) = 0
  BY ZeroBits
<1>3. CASE op = "SHL"
  <2>1. CASE a > Width
    <3>1. Compute(op, a, b, c) = 0
      BY <1>3, <2>1 DEF Compute, Shl
    <3>2. \A i \in Positions : i < a
      BY <1>1, <2>1
    <3> QED
      BY <1>1, <1>2, <1>3, <3>1, <3>2 DEF Right, Means
  <2>2. CASE ~(a > Width)
    <3> DEFINE y == b * TwoTo[a]
               r == ToWord(y)
    <3>1. y \in Int /\ \A i \in Nat : BitAt(y, i) = IF i < a THEN 0 ELSE BitAt(b, i - a)
      BY <1>1, BitOfShifted
    <3>2. Compute(op, a, b, c) = r
      BY <1>1, <1>3, <2>2, ShiftsAre DEF Compute, Shl, ToWord
    <3> HIDE DEF y
    <3>3. r \in Words
      BY <3>1, ToWordIs
    <3>4. \A i \in Positions : BitAt(r, i) = BitAt(y, i)
      BY <1>1, <3>1, BitOfMod, WidthIs DEF ToWord
    <3> HIDE DEF r
    <3>5. \A i \in Positions : BitAt(r, i) = IF i < a THEN 0 ELSE BitAt(b, i - a)
      BY <1>1, <3>1, <3>4
    <3> QED
      BY <1>3, <3>2, <3>3, <3>5 DEF Right, Means
  <2> QED
    BY <2>1, <2>2
<1>4. CASE op = "SHR"
  <2>1. CASE a > Width
    <3>1. Compute(op, a, b, c) = 0
      BY <1>4, <2>1 DEF Compute, Shr
    <3>2. \A i \in Positions : i + a >= Width
      BY <1>1, <2>1
    <3> QED
      BY <1>1, <1>2, <1>4, <3>1, <3>2 DEF Right, Means
  <2>2. CASE ~(a > Width)
    <3> DEFINE r == b \div TwoTo[a]
    <3>1. Compute(op, a, b, c) = r
      BY <1>1, <1>4, <2>2, ShiftsAre DEF Compute, Shr
    <3>2. r \in Words
      BY <1>1, QuotientIsWord
    <3>3. \A i \in Positions : BitAt(r, i) = IF i + a >= Width THEN 0 ELSE BitAt(b, i + a)
      <4> TAKE i \in Positions
      <4>1. i \in Nat /\ i + a = a + i /\ a + i \in Nat
        BY <1>1
      <4>2. BitAt(r, i) = BitAt(b, i + a)
        BY <1>1, <4>1, ShiftsAre
      <4>3. i + a >= Width => BitAt(b, i + a) = 0
        BY <4>1, WordBits
      <4> QED
        BY <4>2, <4>3
    <3> HIDE DEF r
    <3> QED
      BY <1>4, <3>1, <3>2, <3>3 DEF Right, Means
  <2> QED
    BY <2>1, <2>2
<1> QED
  BY <1>3, <1>4

\* Shifts by negative numbers go the other way.
LEMMA ShiftsBack ==
  ASSUME NEW x \in Int, NEW n \in Nat \ {0}, NEW k \in Int, k = -n
  PROVE  ShiftRight(x, k) = x * TwoTo[n] /\ ShiftLeft(x, k) = x \div TwoTo[n]
<1>1. -k = n /\ n >= 0 /\ ~(k >= 0)
  OBVIOUS
<1> QED
  BY <1>1 DEF ShiftRight, ShiftLeft

LEMMA ByteFits ==
  /\ ByteBits \in Nat \ {0} /\ WordBytes \in Nat \ {0} /\ ByteBits <= Width
  /\ TwoTo[ByteBits] \in Nat \ {0} /\ TwoTo[ByteBits] <= TwoPow
<1>1. ByteBits \in Nat \ {0} /\ WordBytes \in Nat \ {0}
  BY WordAssumption
<1>2. ByteBits <= Width
  <2>1. ByteBits * 0 + ByteBits <= ByteBits * WordBytes
    BY <1>1, Products
  <2> QED
    BY <1>1, <2>1 DEF Width
<1>3. TwoTo[ByteBits] \in Nat \ {0}
  BY <1>1, TwoToPositive
<1>4. TwoTo[ByteBits] <= TwoTo[Width]
  BY <1>1, <1>2, WidthIs, TwoToGrows
<1> QED
  BY <1>1, <1>2, <1>3, <1>4, WidthIs

\* For pos = WordBytes the handler shifts the other way, and nothing is left.
LEMMA ByteIsRight ==
  ASSUME NEW a \in Words, NEW b \in Words, NEW c
  PROVE  Right("BYTE", a, b, c)
<1> DEFINE w == TwoTo[ByteBits]
<1>1. /\ a \in Nat /\ b \in Nat /\ w \in Nat \ {0} /\ w <= TwoPow /\ 0 \in Words
      /\ ByteBits \in Nat \ {0} /\ WordBytes \in Nat \ {0}
  BY WordsAre, ByteFits
<1>2. CASE a > WordBytes
  BY <1>1, <1>2 DEF Right, Compute, Means, Byte
<1>3. CASE a = WordBytes
  <2>1. (WordBytes - 1 - a) * ByteBits = -ByteBits /\ -ByteBits \in Int
    BY <1>1, <1>3
  <2>2. ShiftRight(b, (WordBytes - 1 - a) * ByteBits) = b * w
    <3> DEFINE k == (WordBytes - 1 - a) * ByteBits
    <3>1. k \in Int /\ k = -ByteBits
      BY <2>1
    <3> HIDE DEF k
    <3>2. ShiftRight(b, k) = b * TwoTo[ByteBits]
      BY <1>1, <3>1, ShiftsBack
    <3> QED
      BY <3>2 DEF k
  <2>3. (b * w) % w = 0
    <3> HIDE DEF w
    <3>1. b * w = w * b + 0 /\ b * w \in Int
      BY <1>1
    <3> QED
      BY <1>1, <3>1, DivModIs
  <2>4. Compute("BYTE", a, b, c) = 0
    BY <1>1, <1>3, <2>2, <2>3 DEF Compute, Byte
  <2> QED
    BY <1>1, <1>3, <2>4 DEF Right, Means
<1>4. CASE a < WordBytes
  <2> DEFINE n == (WordBytes - 1 - a) * ByteBits
             r == (b \div TwoTo[n]) % w
  <2>1. n \in Nat
    <3>1. WordBytes - 1 - a \in Nat
      BY <1>1, <1>4
    <3> QED
      BY <1>1, <3>1
  <2>2. ShiftRight(b, n) = b \div TwoTo[n] /\ b \div TwoTo[n] \in Int
    <3>1. b \in Int
      BY <1>1
    <3> HIDE DEF n
    <3> QED
      BY <2>1, <3>1, ShiftsAre
  <2>3. Compute("BYTE", a, b, c) = r
    BY <1>1, <1>4, <2>2 DEF Compute, Byte
  <2>4. r \in Words
    <3>1. r \in Nat /\ r < w
      BY <1>1, <2>2, DivMod
    <3> HIDE DEF r, w
    <3> QED
      BY <1>1, <3>1, WordsAre
  <2> QED
    BY <1>1, <1>4, <2>3, <2>4 DEF Right, Means
<1> QED
  BY <1>1, <1>2, <1>3, <1>4

\* The highest bits, from the given one on.
LEMMA MaskIs ==
  ASSUME NEW t \in Int, t >= -1
  PROVE  /\ ShiftLeft(ShiftRight(MaxInteger, t), t) \in Words
         /\ \A i \in Positions :
              BitAt(ShiftLeft(ShiftRight(MaxInteger, t), t), i) = IF i >= t THEN 1 ELSE 0
<1> DEFINE x == MaxInteger
           mask == ShiftLeft(ShiftRight(x, t), t)
<1>1. x \in Words /\ x \in Nat /\ \A i \in Positions : i \in Nat /\ BitAt(x, i) = 1
  <2>1. 0 \in Words /\ BitNot(0) = x
    BY WordsAre, WidthIs DEF BitNot
  <2>2. \A i \in Positions : i \in Nat
    BY WidthIs
  <2> QED
    BY <2>1, <2>2, NotIs, ZeroBits, WordsAre
<1> HIDE DEF x
<1>2. CASE t >= 0
  <2> DEFINE m == TwoTo[t]
             q == x \div m
  <2>1. t \in Nat /\ m \in Nat \ {0}
    BY <1>2, TwoToPositive
  <2>2. ShiftRight(x, t) = q /\ q \in Int /\ \A i \in Nat : BitAt(q, i) = BitAt(x, t + i)
    <3>1. x \in Int
      BY <1>1
    <3> QED
      BY <2>1, <3>1, ShiftsAre
  <2> HIDE DEF q
  <2>3. mask = q * m
    BY <2>1, <2>2, ShiftsAre
  <2>4. mask \in Words
    <3> HIDE DEF mask
    <3>1. x = m * q + (x % m) /\ x % m \in Nat
      <4> HIDE DEF m
      <4> QED
        BY <1>1, <2>1, DivMod DEF q
    <3>2. q >= 0
      <4>1. x \div m \in Words
        BY <1>1, <2>1, QuotientIsWord
      <4> QED
        BY <4>1, WordsAre DEF q
    <3>3. m * q \in Nat /\ q * m = m * q
      BY <2>1, <2>2, <3>2
    <3> DEFINE y == m * q
               s == x % m
    <3> HIDE DEF y, s
    <3>4. y \in Nat /\ y <= x /\ mask = y
      BY <1>1, <2>3, <3>1, <3>3 DEF y, s
    <3> QED
      BY <1>1, <3>4, WordsAre
  <2>5. ASSUME NEW i \in Positions PROVE BitAt(q * m, i) = IF i >= t THEN 1 ELSE 0
    <3>1. i \in Nat
      BY <1>1
    <3>2. BitAt(q * m, i) = IF i < t THEN 0 ELSE BitAt(q, i - t)
      BY <2>1, <2>2, <3>1, BitOfShifted
    <3>3. i >= t => i - t \in Nat /\ t + (i - t) = i
      BY <2>1, <3>1
    <3>4. i >= t => BitAt(q, i - t) = 1
      BY <1>1, <2>2, <3>3
    <3> QED
      BY <2>1, <3>1, <3>2, <3>4
  <2> QED
    BY <2>3, <2>4, <2>5 DEF x
<1>3. CASE t = -1
  <2>1. TwoTo[1] = 2
    <3>1. TwoTo[0 + 1] = 2 * TwoTo[0]
      BY TwoToIs
    <3> QED
      BY <3>1, TwoToIs
  <2>2. ShiftRight(x, t) = x * 2
    BY <1>1, <1>3, <2>1, 1 \in Nat \ {0}, ShiftsBack
  <2>3. x * 2 \in Int /\ (x * 2) \div 2 = x
    BY <1>1
  <2>4. mask = (x * 2) \div TwoTo[1]
    BY <1>3, <2>2, <2>3, 1 \in Nat \ {0}, ShiftsBack
  <2>5. mask = x
    BY <2>1, <2>3, <2>4
  <2>6. \A i \in Positions : i >= t
    BY <1>1, <1>3
  <2> QED
    BY <1>1, <2>5, <2>6 DEF x
<1> QED
  BY <1>2, <1>3

\* For a = Width the mask is shifted by -1, and is full.
LEMMA SarIsRight ==
  ASSUME NEW a \in Words, NEW b \in Words, NEW c
  PROVE  Right("SAR", a, b, c)
<1> DEFINE w == Width
           top == BitAt(b, w - 1)
           t == w - 1 - a
           q == b \div TwoTo[a]
           mask == ShiftLeft(ShiftRight(MaxInteger, t), t)
           r == Compute("SAR", a, b, c)
           Wanted(i) == BitAt(b, IF i + a >= w THEN w - 1 ELSE i + a)
<1>1. /\ a \in Nat /\ b \in Nat /\ w \in Nat \ {0} /\ 0 \in Words /\ t \in Int
      /\ \A i \in Positions : i \in Nat /\ i < w
  BY WordsAre, WidthIs, WordBits
<1>2. top \in {0, 1} /\ (fromTwos(b) < 0 <=> top = 1)
  <2>1. top = IF b >= Half THEN 1 ELSE 0
    BY SignBit
  <2>2. fromTwos(b) = IF b >= Half THEN b - TwoPow ELSE b
    BY SignedIs
  <2>3. Half \in Nat /\ b \in Nat /\ b < TwoPow /\ TwoPow \in Nat
    BY HalfIs, WordsAre
  <2> HIDE DEF top
  <2> QED
    BY <2>1, <2>2, <2>3
<1> HIDE DEF top
<1>3. ASSUME a <= w PROVE q \in Words /\ \A i \in Positions : BitAt(q, i) = BitAt(b, i + a)
  <2>1. \A i \in Positions : i \in Nat /\ i + a = a + i
    BY <1>1
  <2>2. \A i \in Nat : BitAt(q, i) = BitAt(b, a + i)
    <3>1. b \in Int
      BY <1>1
    <3> QED
      BY <1>1, <3>1, ShiftsAre
  <2>3. q \in Words
    BY <1>1, QuotientIsWord
  <2> HIDE DEF q
  <2> QED
    BY <2>1, <2>2, <2>3
<1>4. a <= w => ShiftRight(b, a) = q
  BY <1>1, ShiftsAre
<1>5. r = IF a > w THEN IF top = 1 THEN MaxInteger ELSE 0
          ELSE IF top = 1 THEN BitOr(ShiftRight(b, a), mask) ELSE ShiftRight(b, a)
  BY <1>2 DEF Compute, Sar
<1> HIDE DEF r, q, mask
<1>6. \A i \in Positions : i + a >= w => Wanted(i) = top
  BY DEF top
<1>7. r \in Words /\ \A i \in Positions : BitAt(r, i) = Wanted(i)
  <2>1. CASE a > w
    <3>1. \A i \in Positions : Wanted(i) = top
      <4>1. \A i \in Positions : i + a >= w
        BY <1>1, <2>1
      <4> QED
        BY <4>1, <1>6
    <3> HIDE DEF Wanted
    <3>2. CASE top = 1
      <4>1. BitNot(0) = MaxInteger
        BY WidthIs DEF BitNot
      <4>2. r = BitNot(0)
        BY <1>5, <2>1, <3>2, <4>1
      <4>3. \A i \in Positions : BitAt(0, i) = 0
        BY <1>1, ZeroBits
      <4> QED
        BY <1>1, <3>1, <3>2, <4>2, <4>3, NotIs
    <3>3. CASE top = 0
      <4>1. r = 0
        BY <1>5, <2>1, <3>3
      <4> QED
        BY <1>1, <3>1, <3>3, <4>1, ZeroBits
    <3> QED
      BY <1>2, <3>2, <3>3
  <2>2. CASE ~(a > w)
    <3>1. a <= w
      BY <1>1, <2>2
    <3>2. CASE top = 1
      <4>1. r = BitOr(q, mask)
        BY <1>4, <1>5, <2>2, <3>1, <3>2
      <4>2. t >= -1
        BY <1>1, <3>1
      <4>3. mask \in Words /\ \A i \in Positions : BitAt(mask, i) = IF i >= t THEN 1 ELSE 0
        BY <1>1, <4>2, MaskIs DEF mask
      <4>4. r \in Words /\ \A i \in Positions :
              BitAt(r, i) = IF BitAt(q, i) + BitAt(mask, i) > 0 THEN 1 ELSE 0
        BY <1>3, <3>1, <4>1, <4>3, OrIs
      <4>5. ASSUME NEW i \in Positions PROVE BitAt(r, i) = Wanted(i)
        <5>1. BitAt(q, i) \in {0, 1} /\ BitAt(q, i) = BitAt(b, i + a) /\ i \in Nat /\ i < w
          BY <1>1, <1>3, <3>1, WordBits
        <5>2. i >= t => BitAt(r, i) = 1
          BY <4>3, <4>4, <5>1
        <5>3. ~(i >= t) => BitAt(r, i) = BitAt(q, i)
          BY <4>3, <4>4, <5>1
        <5>4. i >= t => i + a >= w \/ i + a = w - 1
          BY <1>1, <5>1
        <5>5. i + a = w - 1 => Wanted(i) = top
          BY DEF top
        <5>6. ~(i >= t) => ~(i + a >= w)
          BY <1>1, <5>1
        <5>7. ~(i >= t) => Wanted(i) = BitAt(b, i + a)
          BY <5>6
        <5> HIDE DEF Wanted
        <5> QED
          BY <1>6, <3>2, <5>1, <5>2, <5>3, <5>4, <5>5, <5>7
      <4> QED
        BY <4>4, <4>5
    <3>3. CASE top = 0
      <4>1. r = q
        BY <1>4, <1>5, <2>2, <3>1, <3>3
      <4>2. ASSUME NEW i \in Positions PROVE BitAt(q, i) = Wanted(i)
        <5>1. BitAt(q, i) = BitAt(b, i + a) /\ i + a \in Nat
          BY <1>1, <1>3, <3>1
        <5>2. i + a >= w => BitAt(b, i + a) = 0
          BY <5>1, WordBits
        <5> QED
          BY <1>6, <3>3, <5>1, <5>2
      <4> QED
        BY <1>3, <3>1, <4>1, <4>2
    <3> QED
      BY <1>2, <3>2, <3>3
  <2> QED
    BY <2>1, <2>2
<1>8. Means("SAR", a, b, c, r)
  BY <1>7 DEF Means
<1> QED
  BY <1>7, <1>8 DEF Right, r

\* BitOr with the mask wraps as the signed number of the low bytes does.
LEMMA SignExtendIsRight ==
  ASSUME NEW a \in Words, NEW b \in Words, NEW c
  PROVE  Right("SIGNEXTEND", a, b, c)
<1> DEFINE s == a * ByteBits + (ByteBits - 1)
           h == TwoTo[s]
           n == TwoTo[s + 1]
           y == b % n
           r == Compute("SIGNEXTEND", a, b, c)
<1>1. /\ a \in Nat /\ b \in Nat /\ b < TwoPow /\ TwoPow \in Nat \ {0} /\ Width \in Nat
      /\ ByteBits \in Nat \ {0} /\ WordBytes \in Nat \ {0}
      /\ \A i \in Positions : i \in Nat /\ i < Width
  BY WordsAre, ByteFits, WordBits, WidthIs
<1>2. /\ s \in Nat /\ (a + 1) * ByteBits = s + 1
      /\ a < WordBytes - 1 => s + 1 < Width
      /\ a = WordBytes - 1 => s + 1 = Width
  <2> DEFINE d == a * ByteBits
  <2>1. d \in Nat /\ (a + 1) * ByteBits = d + ByteBits
    BY <1>1
  <2>2. a + 1 < WordBytes => ByteBits * (a + 1) + ByteBits <= ByteBits * WordBytes
    BY <1>1, Products
  <2>3. ByteBits * (a + 1) = d + ByteBits
    BY <1>1
  <2>4. Width = ByteBits * WordBytes
    BY DEF Width
  <2>5. a = WordBytes - 1 => Width = d + ByteBits
    BY <1>1, <2>3, <2>4
  <2> HIDE DEF d
  <2>6. a < WordBytes - 1 => (d + ByteBits) + ByteBits <= Width
    BY <1>1, <2>2, <2>3, <2>4
  <2>7. s = d + (ByteBits - 1)
    BY DEF d
  <2> HIDE DEF s
  <2>8. s \in Nat /\ s + 1 = d + ByteBits
    BY <1>1, <2>1, <2>7
  <2> QED
    BY <1>1, <2>1, <2>5, <2>6, <2>8
<1> DEFINE mask == ShiftLeft(1, s) - 1
<1>3. r = IF a >= WordBytes - 1 THEN b
          ELSE IF BitAt(b, s) = 1 THEN BitOr(b, BitNot(mask)) ELSE BitAnd(b, mask)
  BY DEF Compute, SignExtend
<1> HIDE DEF r, s
<1>4. /\ h \in Nat \ {0} /\ n \in Nat \ {0} /\ n = 2 * h /\ n \div 2 = h
      /\ mask = h - 1
  <2>1. h \in Nat \ {0} /\ n = 2 * h
    BY <1>2, TwoToIs, TwoToPositive
  <2>2. ShiftLeft(1, s) = 1 * h
    BY <1>2, 1 \in Int, ShiftsAre
  <2> HIDE DEF h, n
  <2> QED
    BY <2>1, <2>2
<1>5. y \in Nat /\ y < n /\ (BitAt(b, s) = 1 <=> y >= h) /\ BitAt(b, s) \in {0, 1}
  <2> DEFINE v == BitAt(b, s)
  <2>1. v \in {0, 1} /\ y = (b % h) + h * v /\ b \in Int
    BY <1>1, <1>2, BitIs
  <2> HIDE DEF h, n, v
  <2>2. b % h \in Nat /\ b % h < h /\ y \in Nat /\ y < n
    BY <1>4, <2>1, DivMod
  <2>3. v = 1 => y >= h
    BY <1>4, <2>1, <2>2
  <2>4. v = 0 => y < h
    BY <1>4, <2>1, <2>2
  <2> HIDE DEF y
  <2> QED
    BY <1>4, <2>1, <2>2, <2>3, <2>4 DEF v
<1>6. Low(a, b) = IF y >= h THEN y - n ELSE y
  BY <1>2, <1>4 DEF Low
<1> HIDE DEF h, n, y, mask
<1>7. CASE a >= WordBytes
  BY <1>1, <1>3, <1>7 DEF Right, Means, r
<1>8. CASE a = WordBytes - 1
  <2>1. n = TwoPow
    BY <1>2, <1>8, WidthIs DEF n
  <2>2. y = b
    BY <1>1, <2>1, ModOfSmall DEF y
  <2>3. ToWord(y) = b /\ ToWord(y - n) = b
    <3> DEFINE z == b - TwoPow
    <3>1. z \in Int /\ z = TwoPow * (-1) + b
      BY <1>1
    <3> HIDE DEF z
    <3>2. z % TwoPow = b /\ b % TwoPow = b
      BY <1>1, <3>1, DivModIs, ModOfSmall
    <3> QED
      BY <2>1, <2>2, <3>2 DEF ToWord, z
  <2>4. r = ToWord(Low(a, b))
    BY <1>1, <1>3, <1>6, <1>8, <2>3
  <2> QED
    BY <1>1, <1>3, <1>8, <2>4 DEF Right, Means, r
<1>9. CASE a < WordBytes - 1
  <2>1. s + 1 < Width /\ s + 1 \in Nat /\ n <= TwoPow
    BY <1>1, <1>2, <1>9, TwoToGrows, WidthIs DEF n
  <2>2. y \in Words /\ mask \in Words
    <3>1. h - 1 \in Nat /\ h - 1 < TwoPow /\ y < TwoPow
      BY <1>1, <1>4, <1>5, <2>1
    <3> QED
      BY <1>4, <1>5, <3>1, WordsAre
  <2>3. \A i \in Positions : BitAt(mask, i) = IF i < s THEN 1 ELSE 0
    <3> TAKE i \in Positions
    <3>1. i \in Nat /\ s \in Nat
      BY <1>1, <1>2
    <3>2. i < s => BitAt(TwoTo[s] - 1 - 0, i) = 1 - BitAt(0, i)
      BY <3>1, 0 \in Int, BitOfNot
    <3>3. mask = TwoTo[s] - 1 - 0 /\ mask \in 0 .. TwoTo[s] - 1
      BY <1>4 DEF h
    <3>4. BitAt(0, i) = 0
      BY <3>1, ZeroBits
    <3>5. i >= s => BitAt(mask, i) = 0
      BY <3>1, <3>3, BitAbove
    <3> QED
      BY <3>1, <3>2, <3>3, <3>4, <3>5
  <2>4. \A i \in Positions : i < s + 1 => BitAt(y, i) = BitAt(b, i)
    <3> TAKE i \in Positions
    <3>1. i \in Nat /\ b \in Int
      BY <1>1
    <3> QED
      BY <2>1, <3>1, BitOfMod DEF y, n
  <2>5. r \in Words /\ r = ToWord(Low(a, b))
    <3>1. CASE BitAt(b, s) = 1
      <4> DEFINE z == n - 1 - y
                 w == BitNot(z)
      <4>1. z \in Nat /\ z < n /\ z \in Words
        <5>1. z \in Nat /\ z < n /\ z < TwoPow
          BY <1>1, <1>4, <1>5, <2>1
        <5> QED
          BY <5>1, WordsAre
      <4>2. w \in Words /\ \A i \in Positions : BitAt(w, i) = 1 - BitAt(z, i)
        BY <4>1, NotIs
      <4>3. w = ToWord(Low(a, b))
        <5> DEFINE u == y - n
        <5>1. Low(a, b) = u
          BY <1>5, <1>6, <3>1
        <5>2. w = TwoPow - 1 - (n - 1 - y)
          BY WidthIs DEF BitNot
        <5>3. u \in Int /\ w \in Nat /\ w < TwoPow /\ u = TwoPow * (-1) + w
          <6>1. w \in Nat /\ w < TwoPow
            BY <4>2, WordsAre
          <6> HIDE DEF w
          <6> QED
            BY <1>1, <1>4, <1>5, <5>2, <6>1
        <5> HIDE DEF u, w
        <5>4. u % TwoPow = w
          BY <1>1, <5>3, DivModIs
        <5> QED
          BY <5>1, <5>4 DEF ToWord
      <4>4. BitNot(mask) \in Words /\ \A i \in Positions : BitAt(BitNot(mask), i) = 1 - BitAt(mask, i)
        BY <2>2, NotIs
      <4> DEFINE g == BitNot(mask)
      <4>5. r = BitOr(b, g)
        BY <1>1, <1>3, <1>9, <3>1
      <4> HIDE DEF g, z, w
      <4>6. r \in Words /\ \A i \in Positions :
              BitAt(r, i) = IF BitAt(b, i) + BitAt(g, i) > 0 THEN 1 ELSE 0
        BY <4>4, <4>5, OrIs DEF g
      <4>7. ASSUME NEW i \in Positions PROVE BitAt(r, i) = BitAt(w, i)
        <5>1. i \in Nat /\ s \in Nat /\ BitAt(b, i) \in {0, 1}
          BY <1>1, <1>2, WordBits
        <5>2. i < s => BitAt(r, i) = BitAt(b, i)
          <6>1. i < s => BitAt(g, i) = 0
            BY <2>3, <4>4 DEF g
          <6> QED
            BY <4>6, <5>1, <6>1
        <5>3. i >= s => BitAt(r, i) = 1
          <6>1. i >= s => BitAt(g, i) = 1
            BY <2>3, <4>4, <5>1 DEF g
          <6> QED
            BY <4>6, <5>1, <6>1
        <5>4. i < s + 1 => BitAt(w, i) = BitAt(b, i)
          <6>1. i < s + 1 => BitAt(TwoTo[s + 1] - 1 - y, i) = 1 - BitAt(y, i)
            BY <1>5, <2>1, <5>1, BitOfNot
          <6>2. i < s + 1 => BitAt(z, i) = 1 - BitAt(b, i)
            BY <2>4, <6>1 DEF z, n
          <6>3. BitAt(w, i) = 1 - BitAt(z, i)
            BY <4>2
          <6> QED
            BY <5>1, <6>2, <6>3
        <5>5. i >= s + 1 => BitAt(w, i) = 1
          <6>1. z \in 0 .. TwoTo[s + 1] - 1
            BY <1>4, <4>1 DEF n
          <6>2. i >= s + 1 => BitAt(z, i) = 0
            BY <2>1, <5>1, <6>1, BitAbove
          <6> QED
            BY <4>2, <6>2
        <5>6. i < s \/ i = s \/ i >= s + 1
          BY <5>1
        <5>7. i = s => BitAt(b, i) = 1
          BY <3>1
        <5> QED
          BY <5>1, <5>2, <5>3, <5>4, <5>5, <5>6, <5>7
      <4>8. r = w
        <5>1. r \in 0 .. TwoTo[Width] - 1 /\ w \in 0 .. TwoTo[Width] - 1
          BY <4>2, <4>6, WidthIs
        <5>2. \A i \in 0 .. Width - 1 : BitAt(r, i) = BitAt(w, i)
          BY <4>7, WidthIs
        <5> QED
          BY <1>1, <5>1, <5>2, BitsDetermine
      <4> QED
        BY <4>3, <4>6, <4>8
    <3>2. CASE BitAt(b, s) = 0
      <4>1. r = BitAnd(b, mask)
        BY <1>1, <1>3, <1>9, <3>2
      <4>2. r \in Words /\ \A i \in Positions : BitAt(r, i) = BitAt(b, i) * BitAt(mask, i)
        BY <2>2, <4>1, AndIs
      <4>3. ASSUME NEW i \in Positions PROVE BitAt(r, i) = BitAt(y, i)
        <5>1. i \in Nat /\ s \in Nat /\ BitAt(b, i) \in {0, 1}
          BY <1>1, <1>2, WordBits
        <5>2. i < s => BitAt(r, i) = BitAt(b, i)
          BY <2>3, <4>2, <5>1
        <5>3. i >= s => BitAt(r, i) = 0
          BY <2>3, <4>2, <5>1
        <5>4. i < s + 1 => BitAt(y, i) = BitAt(b, i)
          BY <2>4
        <5>5. i >= s + 1 => BitAt(y, i) = 0
          <6>1. y \in 0 .. TwoTo[s + 1] - 1
            BY <1>4, <1>5 DEF n
          <6> QED
            BY <2>1, <5>1, <6>1, BitAbove
        <5>6. i < s \/ i = s \/ i >= s + 1
          BY <5>1
        <5> QED
          BY <3>2, <5>1, <5>2, <5>3, <5>4, <5>5, <5>6
      <4>4. r = y
        <5>1. r \in 0 .. TwoTo[Width] - 1 /\ y \in 0 .. TwoTo[Width] - 1
          BY <2>2, <4>2, WidthIs
        <5>2. \A i \in 0 .. Width - 1 : BitAt(r, i) = BitAt(y, i)
          BY <4>3, WidthIs
        <5> QED
          BY <1>1, <5>1, <5>2, BitsDetermine
      <4>5. Low(a, b) = y
        BY <1>5, <1>6, <3>2
      <4>6. ToWord(y) = y
        <5>1. y < TwoPow
          BY <2>2, WordsAre
        <5> QED
          BY <1>1, <1>5, <5>1, ModOfSmall DEF ToWord
      <4> QED
        BY <4>2, <4>4, <4>5, <4>6
    <3> QED
      BY <1>5, <3>1, <3>2
  <2>6. ~(a >= WordBytes)
    BY <1>1, <1>9
  <2> QED
    BY <2>5, <2>6 DEF Right, Means, r
<1> QED
  BY <1>1, <1>7, <1>8, <1>9

-----------------------------------------------------------------------------
(* Powers: the loop of exponentiation and the definition of Power multiply *)
(* the same squares, in another order                                      *)

Times(x, y) == ToWord(x * y)

\* Wrapping a factor changes nothing.
LEMMA WordOfTimes ==
  ASSUME NEW x \in Int, NEW y \in Int
  PROVE  ToWord(ToWord(x) * y) = ToWord(x * y)
<1> DEFINE m == TwoPow
           q == x \div m
           r == x % m
           k == q * y
           p == r * y
<1>1. m \in Nat \ {0}
  BY WidthIs
<1>2. q \in Int /\ r \in Int /\ x = m * q + r
  <2> HIDE DEF m
  <2> QED
    BY <1>1, DivMod
<1>3. k \in Int /\ p \in Int /\ x * y = p + m * k
  <2> HIDE DEF m, q, r
  <2>1. (m * q + r) * y = m * (q * y) + r * y
    BY <1>1, <1>2
  <2>2. m * (q * y) \in Int /\ r * y \in Int /\ q * y \in Int
    BY <1>1, <1>2
  <2> QED
    BY <1>2, <2>1, <2>2
<1> HIDE DEF m, k, p
<1>4. (p + m * k) % m = p % m
  BY <1>1, <1>3, ModOfMore
<1>5. ToWord(x) * y = p
  BY DEF ToWord, p, m
<1> QED
  BY <1>3, <1>4, <1>5 DEF ToWord, m

\* Products of words.
LEMMA TimesIs ==
  /\ \A x, y \in Words : Times(x, y) \in Words /\ Times(x, y) = Times(y, x)
  /\ \A x, y, z \in Words : Times(Times(x, y), z) = Times(x, Times(y, z))
  /\ \A x \in Words : Times(1, x) = x /\ Times(0, x) = 0
<1>1. \A x, y \in Words : Times(x, y) \in Words /\ Times(x, y) = Times(y, x)
  <2> TAKE x, y \in Words
  <2>1. x \in Int /\ y \in Int
    BY WordsAre
  <2>2. x * y \in Int /\ x * y = y * x
    BY <2>1
  <2> QED
    BY <2>2, ToWordIs DEF Times
<1>2. \A x, y, z \in Words : Times(Times(x, y), z) = Times(x, Times(y, z))
  <2> TAKE x, y, z \in Words
  <2>1. x \in Int /\ y \in Int /\ z \in Int
    BY WordsAre
  <2> DEFINE u == x * y
             v == y * z
  <2>2. u \in Int /\ v \in Int /\ u * z = v * x
    <3>1. (x * y) * z = (y * z) * x /\ x * y \in Int /\ y * z \in Int
      BY <2>1
    <3> QED
      BY <3>1
  <2>3. Times(Times(x, y), z) = ToWord(u * z)
    <3>1. Times(Times(x, y), z) = ToWord(ToWord(u) * z)
      BY DEF Times
    <3> HIDE DEF u
    <3> QED
      BY <2>1, <2>2, <3>1, WordOfTimes
  <2>4. Times(Times(y, z), x) = ToWord(v * x)
    <3>1. Times(Times(y, z), x) = ToWord(ToWord(v) * x)
      BY DEF Times
    <3> HIDE DEF v
    <3> QED
      BY <2>1, <2>2, <3>1, WordOfTimes
  <2>5. Times(Times(y, z), x) = Times(x, Times(y, z))
    BY <1>1
  <2> HIDE DEF u, v
  <2> QED
    BY <2>2, <2>3, <2>4, <2>5
<1>3. \A x \in Words : Times(1, x) = x /\ Times(0, x) = 0
  <2> TAKE x \in Words
  <2>1. x \in Nat /\ x < TwoPow /\ TwoPow \in Nat \ {0} /\ 1 * x = x /\ 0 * x = 0
    BY WordsAre
  <2>2. x % TwoPow = x /\ 0 % TwoPow = 0
    BY <2>1, ModOfSmall
  <2> QED
    BY <2>1, <2>2 DEF Times, ToWord
<1> QED
  BY <1>1, <1>2, <1>3

\* What the power of n is made from, p being the powers below it.
NextPower(p, base, n) ==
  LET half == p[n \div 2]
  IN ToWord(ToWord(half * half) * (IF n % 2 = 0 THEN 1 ELSE base))
IsPower(p, base) == p = [n \in Nat |-> IF n = 0 THEN 1 ELSE NextPower(p, base, n)]

LEMMA Halves ==
  ASSUME NEW n \in Nat
  PROVE  n \div 2 \in Nat /\ (n # 0 => n \div 2 < n) /\ n % 2 \in {0, 1}
OBVIOUS

LEMMA PowerExists ==
  ASSUME NEW base \in Words
  PROVE  \E p : IsPower(p, base)
<1> DEFINE G == [q \in [Nat -> Words] \X Nat |->
                  IF q[2] = 0 THEN 1 ELSE NextPower(q[1], base, q[2])]
           rank == [n \in Nat |-> n]
<1>1. \A h \in [Nat -> Words], n \in Nat :
        G[<<h, n>>] = IF n = 0 THEN 1 ELSE NextPower(h, base, n)
  OBVIOUS
<1>2. ASSUME NEW h \in [Nat -> Words], NEW n \in Nat
      PROVE  NextPower(h, base, n) \in Words
  <2> DEFINE half == h[n \div 2]
             more == IF n % 2 = 0 THEN 1 ELSE base
  <2>1. half \in Words /\ more \in Words
    BY Halves, WordsAre
  <2>2. NextPower(h, base, n) = Times(Times(half, half), more)
    BY DEF NextPower, Times
  <2> HIDE DEF half, more
  <2> QED
    BY <2>1, <2>2, TimesIs
<1>3. G \in [[Nat -> Words] \X Nat -> Words]
  <2>1. \A q \in [Nat -> Words] \X Nat :
          (IF q[2] = 0 THEN 1 ELSE NextPower(q[1], base, q[2])) \in Words
    BY <1>2, WordsAre
  <2> QED
    BY <2>1
<1> HIDE DEF G
<1>4. ASSUME NEW h \in [Nat -> Words], NEW k \in [Nat -> Words], NEW n \in Nat,
             \A j \in Nat : rank[j] < rank[n] => h[j] = k[j]
      PROVE  G[<<h, n>>] = G[<<k, n>>]
  <2>1. n # 0 => h[n \div 2] = k[n \div 2]
    BY <1>4, Halves
  <2> QED
    BY <1>1, <2>1 DEF NextPower
<1>5. IsRanked(G, Nat, Words, rank)
  BY <1>3, <1>4 DEF IsRanked
<1> HIDE DEF rank
<1>6. HasSolution(G, Nat, Words)
  BY <1>5, WordsAre, RecursionHasSolution
<1>7. PICK f \in [Nat -> Words] : \A n \in Nat : f[n] = G[<<f, n>>]
  BY <1>6 DEF HasSolution
<1>8. f = [n \in Nat |-> IF n = 0 THEN 1 ELSE NextPower(f, base, n)]
  BY <1>1, <1>7
<1> QED
  BY <1>8 DEF IsPower

Powers(base) == CHOOSE p : IsPower(p, base)

LEMMA PowerIs ==
  ASSUME NEW base, NEW n
  PROVE  Power(base, n) = Powers(base)[n]
BY DEF Power, Powers, IsPower, NextPower

LEMMA PowersAre ==
  ASSUME NEW base \in Words
  PROVE  /\ \A n \in Nat : Powers(base)[n] \in Words
         /\ Powers(base)[0] = 1
         /\ \A n \in Nat \ {0} :
              Powers(base)[n] =
                Times(Times(Powers(base)[n \div 2], Powers(base)[n \div 2]),
                      IF n % 2 = 0 THEN 1 ELSE base)
<1> DEFINE p == Powers(base)
<1>1. IsPower(p, base)
  BY PowerExists DEF Powers
<1> HIDE DEF p
<1>2. \A n \in Nat : p[n] = IF n = 0 THEN 1 ELSE NextPower(p, base, n)
  BY <1>1 DEF IsPower
<1>3. p[0] = 1
  BY <1>2
<1>4. \A n \in Nat \ {0} :
        p[n] = Times(Times(p[n \div 2], p[n \div 2]), IF n % 2 = 0 THEN 1 ELSE base)
  BY <1>2 DEF NextPower, Times
<1> DEFINE T == {n \in Nat : p[n] \notin Words}
<1>5. ASSUME NEW n \in T
      PROVE  \E m \in T : m < n
  <2>1. n # 0
    BY <1>3, WordsAre
  <2> DEFINE half == p[n \div 2]
             more == IF n % 2 = 0 THEN 1 ELSE base
  <2>2. p[n] = Times(Times(half, half), more) /\ more \in Words
    BY <1>4, <2>1, WordsAre
  <2> HIDE DEF more, half
  <2>3. half \notin Words
    <3>1. half \in Words => Times(half, half) \in Words
      BY TimesIs
    <3>2. half \in Words => Times(Times(half, half), more) \in Words
      BY <2>2, <3>1, TimesIs
    <3>3. p[n] \notin Words
      OBVIOUS
    <3> QED
      BY <2>2, <3>2, <3>3
  <2> QED
    BY <2>1, <2>3, Halves DEF half
<1>6. T = {}
  <2>1. T \subseteq Nat
    OBVIOUS
  <2> HIDE DEF T
  <2> QED
    BY <1>5, <2>1, NoLeastCounterexample
<1> QED
  BY <1>3, <1>4, <1>6 DEF p

\* The square of a product is the product of the squares.
LEMMA SquareOfTimes ==
  ASSUME NEW x \in Words, NEW y \in Words
  PROVE  Times(Times(x, x), Times(y, y)) = Times(Times(x, y), Times(x, y))
<1>1. Times(x, y) \in Words /\ Times(x, x) \in Words /\ Times(y, y) \in Words
  BY TimesIs
<1>2. Times(Times(x, x), Times(y, y)) = Times(x, Times(x, Times(y, y)))
  BY <1>1, TimesIs
<1>3. Times(x, Times(y, y)) = Times(Times(x, y), y)
  BY TimesIs
<1>4. Times(Times(x, y), y) = Times(y, Times(x, y))
  BY <1>1, TimesIs
<1>5. Times(x, Times(y, Times(x, y))) = Times(Times(x, y), Times(x, y))
  BY <1>1, TimesIs
<1> QED
  BY <1>2, <1>3, <1>4, <1>5

\* The powers of a square are the squares of the powers.
LEMMA PowersOfSquare ==
  ASSUME NEW base \in Words, NEW n \in Nat
  PROVE  Powers(Times(base, base))[n] = Times(Powers(base)[n], Powers(base)[n])
<1> DEFINE square == Times(base, base)
           p == Powers(base)
           q == Powers(square)
           T == {i \in Nat : q[i] # Times(p[i], p[i])}
<1>0. square \in Words /\ 1 \in Words /\ Times(1, 1) = 1
  BY TimesIs, WordsAre
<1>1. /\ \A i \in Nat : p[i] \in Words
      /\ p[0] = 1
      /\ \A i \in Nat \ {0} :
           p[i] = Times(Times(p[i \div 2], p[i \div 2]), IF i % 2 = 0 THEN 1 ELSE base)
  BY PowersAre
<1>2. /\ q[0] = 1
      /\ \A i \in Nat \ {0} :
           q[i] = Times(Times(q[i \div 2], q[i \div 2]), IF i % 2 = 0 THEN 1 ELSE square)
  <2>1. square \in Words
    BY <1>0
  <2> HIDE DEF square
  <2> QED
    BY <2>1, PowersAre
<1> HIDE DEF p, q
<1>3. ASSUME NEW i \in T
      PROVE  \E j \in T : j < i
  <2>1. i # 0
    BY <1>0, <1>1, <1>2
  <2> DEFINE j == i \div 2
             h == p[j]
             more == IF i % 2 = 0 THEN 1 ELSE base
  <2>2. j \in Nat /\ j < i /\ h \in Words /\ more \in Words
    BY <1>0, <1>1, <2>1, Halves
  <2>3. SUFFICES ASSUME q[j] = Times(h, h) PROVE q[i] = Times(p[i], p[i])
    BY <2>2
  <2>4. p[i] = Times(Times(h, h), more)
    BY <1>1, <2>1
  <2>5. (IF i % 2 = 0 THEN 1 ELSE square) = Times(more, more)
    BY <1>0
  <2>6. q[i] = Times(Times(Times(h, h), Times(h, h)), Times(more, more))
    BY <1>2, <2>1, <2>3, <2>5
  <2> HIDE DEF h, more
  <2>7. Times(h, h) \in Words
    BY <2>2, TimesIs
  <2> QED
    BY <2>2, <2>4, <2>6, <2>7, SquareOfTimes
<1>4. T = {}
  <2>1. T \subseteq Nat
    OBVIOUS
  <2> HIDE DEF T
  <2> QED
    BY <1>3, <2>1, NoLeastCounterexample
<1> QED
  BY <1>4 DEF p, q

\* States of the loop.
LoopStates == [t : Words, bas : Words, exp : Words]
NextState(s) == [t |-> IF s.exp % 2 # 0 THEN (s.t * s.bas) % TwoPow ELSE s.t,
                 bas |-> (s.bas * s.bas) % TwoPow,
                 exp |-> s.exp \div 2]
IsLoop(f) == f = [s \in LoopStates |-> IF s.exp = 0 THEN s.t ELSE f[NextState(s)]]

LEMMA NextStateIs ==
  ASSUME NEW s \in LoopStates
  PROVE  /\ NextState(s) \in LoopStates
         /\ NextState(s).exp = s.exp \div 2
         /\ NextState(s).bas = Times(s.bas, s.bas)
         /\ NextState(s).t = IF s.exp % 2 = 0 THEN s.t ELSE Times(s.t, s.bas)
         /\ s.t \in Words /\ s.bas \in Words /\ s.exp \in Nat
         /\ s.exp # 0 => NextState(s).exp < s.exp
<1>1. s.t \in Words /\ s.bas \in Words /\ s.exp \in Words
  BY DEF LoopStates
<1>2. s.exp \in Nat /\ s.exp < TwoPow /\ TwoPow \in Nat
  BY <1>1, WordsAre
<1> DEFINE e == s.exp
<1>3. e \div 2 \in Nat /\ (e # 0 => e \div 2 < e) /\ e % 2 \in {0, 1}
  BY <1>2, Halves
<1>4. e \div 2 \in Words
  <2>1. e = 0 => e \div 2 = 0
    OBVIOUS
  <2>2. e \div 2 < TwoPow
    BY <1>2, <1>3, <2>1
  <2> QED
    BY <1>3, <2>2, WordsAre
<1>5. NextState(s) = [t |-> IF e % 2 # 0 THEN Times(s.t, s.bas) ELSE s.t,
                      bas |-> Times(s.bas, s.bas), exp |-> e \div 2]
  BY DEF NextState, Times, ToWord
<1>6. Times(s.t, s.bas) \in Words /\ Times(s.bas, s.bas) \in Words
  BY <1>1, TimesIs
<1> HIDE DEF e
<1> QED
  BY <1>1, <1>2, <1>3, <1>4, <1>5, <1>6 DEF LoopStates, e

LEMMA LoopExists == \E f : IsLoop(f)
<1> DEFINE D == LoopStates
           G == [q \in [D -> Words] \X D |->
                  IF q[2].exp = 0 THEN q[2].t ELSE q[1][NextState(q[2])]]
           rank == [s \in D |-> s.exp]
<1>1. \A h \in [D -> Words], s \in D :
        G[<<h, s>>] = IF s.exp = 0 THEN s.t ELSE h[NextState(s)]
  OBVIOUS
<1>2. G \in [[D -> Words] \X D -> Words]
  <2> HIDE DEF D
  <2>1. \A q \in [D -> Words] \X D :
          (IF q[2].exp = 0 THEN q[2].t ELSE q[1][NextState(q[2])]) \in Words
    BY NextStateIs DEF D
  <2> QED
    BY <2>1
<1> HIDE DEF G
<1>3. \A s \in D : rank[s] \in Nat /\ (s.exp # 0 => rank[NextState(s)] < rank[s])
  BY NextStateIs
<1>4. ASSUME NEW h \in [D -> Words], NEW k \in [D -> Words], NEW s \in D,
             \A j \in D : rank[j] < rank[s] => h[j] = k[j]
      PROVE  G[<<h, s>>] = G[<<k, s>>]
  <2>1. s.exp # 0 => h[NextState(s)] = k[NextState(s)]
    BY <1>3, <1>4, NextStateIs
  <2> QED
    BY <1>1, <2>1
<1>5. IsRanked(G, D, Words, rank)
  BY <1>2, <1>3, <1>4 DEF IsRanked
<1> HIDE DEF rank, D
<1>6. HasSolution(G, D, Words)
  BY <1>5, WordsAre, RecursionHasSolution
<1>7. PICK f \in [D -> Words] : \A s \in D : f[s] = G[<<f, s>>]
  BY <1>6 DEF HasSolution
<1>8. f = [s \in D |-> IF s.exp = 0 THEN s.t ELSE f[NextState(s)]]
  BY <1>1, <1>7
<1> QED
  BY <1>8 DEF IsLoop, D

LoopOf == CHOOSE f : IsLoop(f)

LEMMA ExponentiationIs ==
  ASSUME NEW base, NEW n
  PROVE  exponentiation(base, n) = LoopOf[[t |-> 1, bas |-> base, exp |-> n]]
BY DEF exponentiation, LoopOf, IsLoop, LoopStates, NextState

\* What is multiplied already times what is left to multiply.
LEMMA LoopIs ==
  ASSUME NEW s \in LoopStates
  PROVE  LoopOf[s] = Times(s.t, Powers(s.bas)[s.exp])
<1> DEFINE f == LoopOf
           Wrong(x) == f[x] # Times(x.t, Powers(x.bas)[x.exp])
           T == {n \in Nat : \E x \in LoopStates : x.exp = n /\ Wrong(x)}
<1>1. IsLoop(f)
  BY LoopExists DEF LoopOf
<1> HIDE DEF f
<1>2. \A x \in LoopStates : f[x] = IF x.exp = 0 THEN x.t ELSE f[NextState(x)]
  BY <1>1 DEF IsLoop
<1>3. ASSUME NEW n \in T
      PROVE  \E m \in T : m < n
  <2>1. PICK x \in LoopStates : x.exp = n /\ Wrong(x)
    OBVIOUS
  <2> DEFINE y == NextState(x)
             b == x.bas
             h == Powers(b)[n \div 2]
             hh == Times(h, h)
  <2>2. /\ y \in LoopStates /\ y.exp = n \div 2 /\ y.bas = Times(b, b)
        /\ y.t = (IF n % 2 = 0 THEN x.t ELSE Times(x.t, b))
        /\ x.t \in Words /\ b \in Words /\ n \in Nat /\ (n # 0 => n \div 2 < n)
        /\ n \div 2 \in Nat
    BY <2>1, NextStateIs, Halves
  <2>3. n # 0
    <3>1. n = 0 => f[x] = x.t
      BY <1>2, <2>1
    <3>2. Powers(b)[0] = 1 /\ Times(x.t, 1) = x.t
      <4>1. Times(x.t, 1) = Times(1, x.t) /\ Times(1, x.t) = x.t
        BY <2>2, TimesIs, WordsAre
      <4> QED
        BY <4>1, <2>2, PowersAre
    <3> QED
      BY <2>1, <3>1, <3>2
  <2>4. h \in Words /\ hh \in Words /\ Powers(Times(b, b))[n \div 2] = hh
    <3>1. h \in Words
      BY <2>2, PowersAre
    <3>2. Powers(Times(b, b))[n \div 2] = hh
      BY <2>2, PowersOfSquare
    <3> QED
      BY <3>1, <3>2, TimesIs
  <2>5. Powers(b)[n] = Times(hh, IF n % 2 = 0 THEN 1 ELSE b)
    BY <2>2, <2>3, PowersAre
  <2>6. f[x] = f[y]
    BY <1>2, <2>1, <2>3
  <2>7. Times(x.t, Powers(b)[n]) = Times(y.t, hh)
    <3> HIDE DEF h, hh
    <3>1. CASE n % 2 = 0
      <4>1. Times(hh, 1) = hh
        BY <2>4, TimesIs, WordsAre
      <4> QED
        BY <2>2, <2>5, <3>1, <4>1
    <3>2. CASE n % 2 # 0
      <4>1. Times(hh, b) = Times(b, hh)
        BY <2>2, <2>4, TimesIs
      <4>2. Times(Times(x.t, b), hh) = Times(x.t, Times(b, hh))
        <5> DEFINE u == x.t
        <5>1. u \in Words /\ b \in Words /\ hh \in Words
          BY <2>2, <2>4
        <5> HIDE DEF u, b
        <5>2. Times(Times(u, b), hh) = Times(u, Times(b, hh))
          BY <5>1, TimesIs
        <5> QED
          BY <5>2 DEF u
      <4> QED
        BY <2>2, <2>5, <3>2, <4>1, <4>2
    <3> QED
      BY <3>1, <3>2
  <2>8. Wrong(y)
    BY <2>1, <2>2, <2>4, <2>6, <2>7
  <2> HIDE DEF y, Wrong
  <2> QED
    BY <2>2, <2>3, <2>8
<1>4. T = {}
  <2>1. T \subseteq Nat
    OBVIOUS
  <2> HIDE DEF T
  <2> QED
    BY <1>3, <2>1, NoLeastCounterexample
<1>5. s.exp \in Nat
  BY NextStateIs
<1> QED
  BY <1>4, <1>5 DEF f

\* The handler answers for base 0 itself.
LEMMA PowersOfZero ==
  ASSUME NEW n \in Nat \ {0}
  PROVE  Powers(0)[n] = 0
<1> DEFINE p == Powers(0)
           T == {i \in Nat : i # 0 /\ p[i] # 0}
<1>0. 0 \in Words /\ 1 \in Words
  BY WordsAre
<1>1. /\ \A i \in Nat : p[i] \in Words
      /\ p[0] = 1
      /\ \A i \in Nat \ {0} :
           p[i] = Times(Times(p[i \div 2], p[i \div 2]), IF i % 2 = 0 THEN 1 ELSE 0)
  BY <1>0, PowersAre
<1> HIDE DEF p
<1>2. ASSUME NEW i \in T
      PROVE  \E j \in T : j < i
  <2> DEFINE h == p[i \div 2]
  <2>1. i \in Nat \ {0} /\ i \div 2 \in Nat /\ i \div 2 < i /\ i % 2 \in {0, 1} /\ h \in Words
    BY <1>1, Halves
  <2>2. i % 2 = 0
    <3>1. i % 2 = 1 => p[i] = Times(Times(h, h), 0)
      BY <1>1, <2>1
    <3>2. Times(Times(h, h), 0) = 0
      BY <1>0, <2>1, TimesIs
    <3> QED
      BY <2>1, <3>1, <3>2
  <2>3. i \div 2 # 0
    BY <2>1, <2>2
  <2>4. p[i] = Times(Times(h, h), 1)
    BY <1>1, <2>1, <2>2
  <2>5. Times(0, 0) = 0 /\ Times(0, 1) = 0
    BY <1>0, TimesIs
  <2>6. h # 0
    BY <2>4, <2>5
  <2> QED
    BY <2>1, <2>3, <2>6
<1>3. T = {}
  <2>1. T \subseteq Nat
    OBVIOUS
  <2> HIDE DEF T
  <2> QED
    BY <1>2, <2>1, NoLeastCounterexample
<1> QED
  BY <1>3 DEF p

\* The loop of exponentiation gives the power.
LEMMA ExpIsRight ==
  ASSUME NEW a \in Words, NEW b \in Words, NEW c
  PROVE  Right("EXP", a, b, c)
<1>1. /\ b \in Nat /\ 1 \in Words /\ 0 \in Words /\ Powers(a)[0] = 1
      /\ Powers(a)[b] \in Words
  BY WordsAre, PowersAre
<1>2. Exp(a, b) = Powers(a)[b]
  <2>1. CASE b = 0
    BY <1>1, <2>1 DEF Exp
  <2>2. CASE b # 0 /\ a = 0
    BY <1>1, <2>2, PowersOfZero DEF Exp
  <2>3. CASE b # 0 /\ a # 0
    <3> DEFINE s == [t |-> 1, bas |-> a, exp |-> b]
    <3>1. s \in LoopStates /\ s.t = 1 /\ s.bas = a /\ s.exp = b
      BY <1>1 DEF LoopStates
    <3>2. LoopOf[s] = Times(1, Powers(a)[b])
      <4> HIDE DEF s
      <4> QED
        BY <3>1, LoopIs
    <3>3. Times(1, Powers(a)[b]) = Powers(a)[b]
      BY <1>1, TimesIs
    <3> QED
      BY <2>3, <3>2, <3>3, ExponentiationIs DEF Exp
  <2> QED
    BY <2>1, <2>2, <2>3
<1>3. Compute("EXP", a, b, c) = Exp(a, b)
  BY DEF Compute
<1>4. Means("EXP", a, b, c, Powers(a)[b])
  BY PowerIs DEF Means
<1> QED
  BY <1>1, <1>2, <1>3, <1>4 DEF Right

\* Every opcode leaves a word, and it is the one that the opcode means.
LEMMA OpcodesAreRight ==
  ASSUME NEW op \in WordOpcodes, NEW a \in Words, NEW b \in Words, NEW c \in Words
  PROVE  Right(op, a, b, c)
<1>1. CASE op \in {"ADD", "MUL", "SUB"}
  BY <1>1, SumsAreRight
<1>2. CASE op \in {"MOD", "ADDMOD", "MULMOD"}
  BY <1>2, ModuliAreRight
<1>3. CASE op \in {"LT", "GT", "SLT", "SGT", "EQ", "ISZERO"}
  BY <1>3, ComparisonsAreRight
<1>4. CASE op \in {"DIV", "SDIV"}
  BY <1>4, QuotientsAreRight
<1>5. CASE op \in {"AND", "OR", "XOR", "NOT"}
  BY <1>5, BitwiseAreRight
<1>6. CASE op \in {"SHL", "SHR"}
  BY <1>6, ShiftsAreRight
<1>7. CASE op \in {"SMOD", "BYTE", "SAR", "SIGNEXTEND", "EXP"}
  BY <1>7, SignedModulusIsRight, ByteIsRight, SarIsRight, SignExtendIsRight, ExpIsRight
<1> QED
  BY <1>1, <1>2, <1>3, <1>4, <1>5, <1>6, <1>7
     DEF WordOpcodes, UnaryOps, BinaryOps, TernaryOps

-----------------------------------------------------------------------------
(***************************************************************************)
(* Interpreter: the run of any code jumps to instructions only, and writes *)
(* to slots cost what they change, for any codes, storage and widths.      *)
(***************************************************************************)

-----------------------------------------------------------------------------
(* The analysis of a code c, whose bytes are opcodes by d *)

OpIn(c, d, i) == IF c[i + 1] \in DOMAIN d THEN d[c[i + 1]] ELSE "INVALID"

\* Where the instruction at i ends.
After(c, d, i) == i + 1 + PushLength(OpIn(c, d, i))

Offsets(c) == 0 .. Len(c) + 2

\* f and g are the functions that the analysis, and the definition of starts, recur on.
IsFound(f, c, d) ==
  f = [i \in Offsets(c) |->
        IF i >= Len(c) THEN {}
        ELSE IF OpIn(c, d, i) = "JUMPDEST" THEN {i} \cup f[i + 1]
        ELSE f[i + 1 + PushLength(OpIn(c, d, i))]]
IsFrom(g, c, d) ==
  g = [i \in Offsets(c) |-> IF i >= Len(c) THEN {}
                           ELSE {i} \cup g[i + 1 + PushLength(OpIn(c, d, i))]]

DestsOf(c, d) == LET f == CHOOSE f : IsFound(f, c, d) IN f[0]
StartsOf(c, d) == LET g == CHOOSE g : IsFrom(g, c, d) IN g[0]

LEMMA AnalysisIs ==
  _getValidJumpDests = DestsOf(code, decode) /\ Starts = StartsOf(code, decode)
BY DEF _getValidJumpDests, Starts, DestsOf, StartsOf, IsFound, IsFrom, OpIn, OpAt, Offsets

LEMMA InstructionsEnd ==
  ASSUME NEW c \in Seq(Nat), NEW d, NEW i \in Offsets(c), ~(i >= Len(c))
  PROVE  /\ i + 1 \in Offsets(c) /\ After(c, d, i) \in Offsets(c)
         /\ i < i + 1 /\ i < After(c, d, i)
         /\ OpIn(c, d, i) = "JUMPDEST" => After(c, d, i) = i + 1
<1>1. PushLength(OpIn(c, d, i)) \in 0 .. 2
  BY DEF PushLength
<1>2. OpIn(c, d, i) = "JUMPDEST" => PushLength(OpIn(c, d, i)) = 0
  BY DEF PushLength
<1> DEFINE n == PushLength(OpIn(c, d, i))
           l == Len(c)
<1>3. l \in Nat
  OBVIOUS
<1>4. n \in 0 .. 2 /\ i \in 0 .. l + 2 /\ ~(i >= l)
  BY <1>1 DEF Offsets
<1> HIDE DEF n, l
<1>5. /\ i + 1 \in 0 .. l + 2 /\ i + 1 + n \in 0 .. l + 2 /\ i < i + 1 /\ i < i + 1 + n
      /\ n = 0 => i + 1 + n = i + 1
  BY <1>3, <1>4
<1> QED
  BY <1>2, <1>5 DEF n, l, After, Offsets

\* What a recursion over places that goes on behind i satisfies has a solution.
LEMMA PlacesHaveSolution ==
  ASSUME NEW c \in Seq(Nat), NEW V, V # {}, NEW G \in [[Offsets(c) -> V] \X Offsets(c) -> V],
         \A h, k \in [Offsets(c) -> V], i \in Offsets(c) :
           (\A j \in Offsets(c) : i < j => h[j] = k[j]) => G[<<h, i>>] = G[<<k, i>>]
  PROVE  HasSolution(G, Offsets(c), V)
<1> DEFINE n == Len(c) + 2
           D == Offsets(c)
           rank == [i \in D |-> n - i]
<1>1. n \in Nat
  OBVIOUS
<1>2. D = 0 .. n
  BY DEF Offsets
<1> HIDE DEF n, D
<1>3. rank \in [D -> Nat]
  BY <1>1, <1>2
<1>4. \A i, j \in D : i < j => rank[j] < rank[i]
  BY <1>1, <1>2
<1> HIDE DEF rank
<1>5. IsRanked(G, D, V, rank)
  <2>1. \A h, k \in [D -> V], i \in D :
          (\A j \in D : rank[j] < rank[i] => h[j] = k[j]) => G[<<h, i>>] = G[<<k, i>>]
    BY <1>4 DEF D
  <2>2. G \in [[D -> V] \X D -> V]
    BY DEF D
  <2> QED
    BY <1>3, <2>1, <2>2 DEF IsRanked
<1> QED
  BY <1>5, RecursionHasSolution DEF D

LEMMA FoundExists ==
  ASSUME NEW c \in Seq(Nat), NEW d
  PROVE  \E f : IsFound(f, c, d)
<1> DEFINE D == Offsets(c)
           V == SUBSET D
           G == [p \in [D -> V] \X D |->
                  IF p[2] >= Len(c) THEN {}
                  ELSE IF OpIn(c, d, p[2]) = "JUMPDEST" THEN {p[2]} \cup p[1][p[2] + 1]
                  ELSE p[1][After(c, d, p[2])]]
<1>1. \A h \in [D -> V], i \in D :
        G[<<h, i>>] = IF i >= Len(c) THEN {}
                      ELSE IF OpIn(c, d, i) = "JUMPDEST" THEN {i} \cup h[i + 1]
                      ELSE h[After(c, d, i)]
  OBVIOUS
<1>2. \A i \in D : ~(i >= Len(c)) =>
        /\ i + 1 \in D /\ After(c, d, i) \in D /\ i < i + 1 /\ i < After(c, d, i)
  BY InstructionsEnd
<1>3. G \in [[D -> V] \X D -> V]
  BY <1>2
<1> HIDE DEF G
<1>4. \A h, k \in [D -> V], i \in D :
        (\A j \in D : i < j => h[j] = k[j]) => G[<<h, i>>] = G[<<k, i>>]
  BY <1>1, <1>2
<1>5. HasSolution(G, D, V)
  BY <1>3, <1>4, PlacesHaveSolution
<1>6. PICK f \in [D -> V] : \A i \in D : f[i] = G[<<f, i>>]
  BY <1>5 DEF HasSolution
<1>7. \A i \in D : f[i] = IF i >= Len(c) THEN {}
                          ELSE IF OpIn(c, d, i) = "JUMPDEST" THEN {i} \cup f[i + 1]
                          ELSE f[i + 1 + PushLength(OpIn(c, d, i))]
  BY <1>1, <1>6 DEF After
<1> QED
  BY <1>6, <1>7 DEF IsFound

LEMMA FromExists ==
  ASSUME NEW c \in Seq(Nat), NEW d
  PROVE  \E g : IsFrom(g, c, d)
<1> DEFINE D == Offsets(c)
           V == SUBSET D
           G == [p \in [D -> V] \X D |->
                  IF p[2] >= Len(c) THEN {} ELSE {p[2]} \cup p[1][After(c, d, p[2])]]
<1>1. \A h \in [D -> V], i \in D :
        G[<<h, i>>] = IF i >= Len(c) THEN {} ELSE {i} \cup h[After(c, d, i)]
  OBVIOUS
<1>2. \A i \in D : ~(i >= Len(c)) => After(c, d, i) \in D /\ i < After(c, d, i)
  BY InstructionsEnd
<1>3. G \in [[D -> V] \X D -> V]
  BY <1>2
<1> HIDE DEF G
<1>4. \A h, k \in [D -> V], i \in D :
        (\A j \in D : i < j => h[j] = k[j]) => G[<<h, i>>] = G[<<k, i>>]
  BY <1>1, <1>2
<1>5. HasSolution(G, D, V)
  BY <1>3, <1>4, PlacesHaveSolution
<1>6. PICK g \in [D -> V] : \A i \in D : g[i] = G[<<g, i>>]
  BY <1>5 DEF HasSolution
<1>7. \A i \in D : g[i] = IF i >= Len(c) THEN {}
                          ELSE {i} \cup g[i + 1 + PushLength(OpIn(c, d, i))]
  BY <1>1, <1>6 DEF After
<1> QED
  BY <1>6, <1>7 DEF IsFrom

\* The analysis finds the instructions that are JUMPDEST.
LEMMA DestsAreStarts ==
  ASSUME NEW c \in Seq(Nat), NEW d
  PROVE  /\ DestsOf(c, d) = {i \in StartsOf(c, d) : OpIn(c, d, i) = "JUMPDEST"}
         /\ StartsOf(c, d) \subseteq 0 .. Len(c) - 1
<1> DEFINE f == CHOOSE f : IsFound(f, c, d)
           g == CHOOSE g : IsFrom(g, c, d)
           D == Offsets(c)
           n == Len(c) + 2
<1>1. IsFound(f, c, d) /\ IsFrom(g, c, d)
  BY FoundExists, FromExists
<1>2. n \in Nat /\ Len(c) \in Nat /\ D = 0 .. n
  BY DEF Offsets
<1> HIDE DEF f, g, D
<1>3. ASSUME NEW i \in D
      PROVE  /\ f[i] = IF i >= Len(c) THEN {}
                       ELSE IF OpIn(c, d, i) = "JUMPDEST" THEN {i} \cup f[i + 1]
                       ELSE f[After(c, d, i)]
             /\ g[i] = IF i >= Len(c) THEN {} ELSE {i} \cup g[After(c, d, i)]
  BY <1>1 DEF IsFound, IsFrom, After, D
<1> DEFINE Agree(i) == /\ f[i] = {j \in g[i] : OpIn(c, d, j) = "JUMPDEST"}
                       /\ g[i] \subseteq 0 .. Len(c) - 1
           T == {m \in Nat : \E i \in D : m = n - i /\ ~Agree(i)}
<1>4. ASSUME NEW m \in T
      PROVE  \E x \in T : x < m
  <2>1. PICK i \in D : m = n - i /\ ~Agree(i)
    OBVIOUS
  <2>2. i \in Int /\ 0 <= i
    BY <1>2
  <2>3. ~(i >= Len(c))
    BY <1>3, <2>1
  <2> DEFINE e == After(c, d, i)
  <2>4. e \in D /\ i < e /\ (OpIn(c, d, i) = "JUMPDEST" => e = i + 1)
    BY <2>3, InstructionsEnd DEF D
  <2>5. ~Agree(e)
    <3> SUFFICES ASSUME Agree(e) PROVE FALSE
      OBVIOUS
    <3>1. g[i] = {i} \cup g[e]
      BY <1>3, <2>3
    <3>2. f[i] = IF OpIn(c, d, i) = "JUMPDEST" THEN {i} \cup f[e] ELSE f[e]
      BY <1>3, <2>3, <2>4
    <3>3. i \in 0 .. Len(c) - 1
      BY <1>2, <2>2, <2>3
    <3> HIDE DEF e
    <3> QED
      BY <2>1, <3>1, <3>2, <3>3
  <2> HIDE DEF e, Agree
  <2>6. n - e \in Nat /\ n - e < m
    BY <1>2, <2>1, <2>2, <2>4
  <2> QED
    BY <2>4, <2>5, <2>6
<1>5. T = {}
  <2> HIDE DEF T
  <2>1. T \subseteq Nat
    BY DEF T
  <2> QED
    BY <1>4, <2>1, NoLeastCounterexample
<1>6. Agree(0)
  <2>1. 0 \in D /\ n - 0 \in Nat
    BY <1>2
  <2> HIDE DEF Agree
  <2> QED
    BY <2>1, <1>5
<1> QED
  BY <1>6 DEF DestsOf, StartsOf, f, g

-----------------------------------------------------------------------------
(* Jumps *)

\* Destinations, once found, are those of the code.
JumpInv ==
  /\ code \in Seq(Nat) /\ programCounter \in Nat
  /\ shouldDoJumpAnalysis \in BOOLEAN
  /\ ~shouldDoJumpAnalysis => validJumps = DestsOf(code, decode)

Dests == IF shouldDoJumpAnalysis THEN _getValidJumpDests ELSE validJumps

LEMMA DestsAre ==
  ASSUME JumpInv
  PROVE  /\ Dests = {i \in Starts : OpAt(i) = "JUMPDEST"}
         /\ Dests \subseteq 0 .. Len(code) - 1 /\ Len(code) \in Nat
<1>1. Dests = DestsOf(code, decode)
  BY AnalysisIs DEF Dests, JumpInv
<1>2. /\ DestsOf(code, decode) = {i \in StartsOf(code, decode) : OpIn(code, decode, i) = "JUMPDEST"}
      /\ StartsOf(code, decode) \subseteq 0 .. Len(code) - 1
  BY DestsAreStarts DEF JumpInv
<1>3. \A i : OpIn(code, decode, i) = OpAt(i)
  BY DEF OpIn, OpAt
<1>4. Len(code) \in Nat
  BY DEF JumpInv
<1> QED
  BY <1>1, <1>2, <1>3, <1>4, AnalysisIs

\* What every step does: the code stays, and the analysis is made or waits.
Flows ==
  /\ UNCHANGED <<code, decode, original>>
  /\ Analyse \/ UNCHANGED <<validJumps, shouldDoJumpAnalysis>>
  /\ programCounter' \in Nat

LEMMA EndFlows ==
  ASSUME JumpInv, NEW how, EndWith(how)
  PROVE  Flows
BY DEF EndWith, Flows, JumpInv

LEMMA StepFlows ==
  ASSUME JumpInv, NEW next \in Nat, NEW newStack, Step(next, newStack)
  PROVE  Flows
BY DEF Step, Flows

LEMMA PopPushFlows ==
  ASSUME JumpInv, NEW n, NEW value, NEW next \in Nat, PopPush(n, value, next)
  PROVE  Flows
BY EndFlows, StepFlows DEF PopPush

LEMMA NextCounter ==
  ASSUME JumpInv
  PROVE  /\ Next1 \in Nat /\ Next1 + PushLength(Op) \in Nat /\ PushLength(Op) \in 0 .. 2
<1>1. PushLength(Op) \in 0 .. 2
  BY DEF PushLength
<1>2. Next1 \in Nat
  BY DEF JumpInv, Next1
<1> DEFINE n == PushLength(Op)
<1> HIDE DEF n
<1>3. n \in 0 .. 2
  BY <1>1 DEF n
<1>4. Next1 + n \in Nat
  BY <1>2, <1>3
<1> QED
  BY <1>1, <1>2, <1>4 DEF n

LEMMA JumpFlows ==
  ASSUME JumpInv, NEW dest, NEW n, JumpTo(dest, n)
  PROVE  Flows
<1>1. dest \in Dests => dest \in Nat
  BY DestsAre
<1> QED
  BY <1>1, EndFlows, StepFlows DEF JumpTo, Dests

LEMMA NextFlows ==
  ASSUME JumpInv, CodeNext
  PROVE  Flows
<1>0. Next1 \in Nat /\ Next1 + PushLength(Op) \in Nat
  BY NextCounter
<1>1. CASE EndOfCode
  BY <1>1 DEF EndOfCode, Flows, flow, JumpInv
<1>2. CASE Stop \/ Invalid
  BY <1>2, EndFlows DEF Stop, Invalid
<1>3. CASE Arithmetic \/ Pc
  BY <1>0, <1>3, PopPushFlows DEF Arithmetic, Pc
<1>4. CASE Pop
  BY <1>0, <1>4, EndFlows, StepFlows DEF Pop
<1>5. CASE Push
  <2>1. PICK value : PopPush(0, value, Next1 + PushLength(Op))
    BY <1>5 DEF Push
  <2> QED
    BY <2>1, <1>0, PopPushFlows
<1>6. CASE Dup
  BY <1>0, <1>6, EndFlows, PopPushFlows DEF Dup
<1>7. CASE Swap
  BY <1>0, <1>7, EndFlows, StepFlows DEF Swap
<1>8. CASE JumpDest
  BY <1>0, <1>8, StepFlows DEF JumpDest
<1>9. CASE Jump
  BY <1>9, EndFlows, JumpFlows DEF Jump
<1>10. CASE JumpI
  BY <1>0, <1>10, EndFlows, StepFlows, JumpFlows DEF JumpI
<1>11. CASE SLoad
  BY <1>0, <1>11, EndFlows, PopPushFlows DEF SLoad
<1>12. CASE SStore
  <2>1. \/ \E how : EndWith(how)
        \/ Step(Next1, Popped(2))
    BY <1>12 DEF SStore
  <2> QED
    BY <2>1, <1>0, EndFlows, StepFlows
<1> QED
  BY <1>1, <1>2, <1>3, <1>4, <1>5, <1>6, <1>7, <1>8, <1>9, <1>10, <1>11, <1>12 DEF CodeNext

LEMMA JumpInvariant == CodeSpec => []JumpInv
<1>1. CodeInit => JumpInv
  BY ProgramsAssumption DEF CodeInit, JumpInv
<1>2. JumpInv /\ [CodeNext]_codeVars => JumpInv'
  <2> SUFFICES ASSUME JumpInv, [CodeNext]_codeVars
               PROVE  JumpInv'
    OBVIOUS
  <2>1. CASE UNCHANGED codeVars
    BY <2>1 DEF codeVars, flow, JumpInv
  <2>2. CASE CodeNext
    <3>1. Flows
      BY <2>2, NextFlows
    <3>2. Analyse => \/ validJumps' = DestsOf(code, decode) /\ shouldDoJumpAnalysis' = FALSE
                     \/ UNCHANGED <<validJumps, shouldDoJumpAnalysis>>
      BY AnalysisIs DEF Analyse
    <3>3. code' = code /\ decode' = decode /\ programCounter' \in Nat
      BY <3>1 DEF Flows
    <3>4. CASE validJumps' = DestsOf(code, decode) /\ shouldDoJumpAnalysis' = FALSE
      BY <3>3, <3>4 DEF JumpInv
    <3>5. CASE validJumps' = validJumps /\ shouldDoJumpAnalysis' = shouldDoJumpAnalysis
      BY <3>3, <3>5 DEF JumpInv
    <3> QED
      BY <3>1, <3>2, <3>4, <3>5 DEF Flows
  <2> QED
    BY <2>1, <2>2
<1> QED
  BY <1>1, <1>2, PTL DEF CodeSpec

\* What a jump does in a step: it goes to its destination, or ends the run.
Jumps ==
  IF Top(1) \in Starts /\ OpAt(Top(1)) = "JUMPDEST"
  THEN status' = "running" /\ programCounter' = Top(1)
  ELSE status' = "INVALID_JUMP"

LEMMA JumpToJumps ==
  ASSUME JumpInv, Running, NEW n, JumpTo(Top(1), n)
  PROVE  Jumps
<1> DEFINE dest == Top(1)
<1>1. Dests = {i \in Starts : OpAt(i) = "JUMPDEST"} /\ \A i \in Dests : ~(i > Len(code))
  BY DestsAre
<1>2. CASE dest \notin Dests /\ EndWith("INVALID_JUMP")
  BY <1>1, <1>2 DEF EndWith, Jumps
<1>3. CASE dest \in Dests /\ Step(dest, Popped(n))
  BY <1>1, <1>3 DEF Step, Running, Jumps
<1> HIDE DEF dest
<1>4. \/ (dest > Len(code) \/ dest \notin Dests) /\ EndWith("INVALID_JUMP")
      \/ dest \in Dests /\ Step(dest, Popped(n))
  BY DEF JumpTo, Dests, dest
<1> QED
  BY <1>1, <1>2, <1>3, <1>4

\* A jump is refused exactly when its destination is no JUMPDEST that is an instruction:
\* _getValidJumpDests, made at the first jump, finds them all and no byte of a number.
THEOREM JumpsStayValid == CodeSpec => JumpsWhereItMay
<1>1. JumpInv /\ [CodeNext]_codeVars =>
        [/\ Running /\ Op \in JumpOps
         /\ IF Op = "JUMP" THEN Len(stack) > 0 ELSE Len(stack) > 1 /\ Top(2) # 0
         => IF Top(1) \in Starts /\ OpAt(Top(1)) = "JUMPDEST"
            THEN status' = "running" /\ programCounter' = Top(1)
            ELSE status' = "INVALID_JUMP"]_codeVars
  <2> SUFFICES ASSUME JumpInv, CodeNext, Running, Op \in JumpOps,
                      IF Op = "JUMP" THEN Len(stack) > 0 ELSE Len(stack) > 1 /\ Top(2) # 0
               PROVE  Jumps
    BY DEF Jumps
  <2>1. Op = "JUMP" \/ Op = "JUMPI"
    BY DEF JumpOps
  <2>2. Jump \/ JumpI
    BY <2>1 DEF CodeNext, EndOfCode, Running, Stop, Invalid, Arithmetic, Pop, Pc, Push, Dup, Swap,
                JumpDest, SLoad, SStore, JumpInv, WordOpcodes, UnaryOps, BinaryOps, TernaryOps
  <2>3. CASE Jump
    <3>1. Op = "JUMP"
      BY <2>3 DEF Jump
    <3>2. Len(stack) > 0
      BY <3>1
    <3> QED
      BY <2>3, <3>2, JumpToJumps DEF Jump
  <2>4. CASE JumpI
    BY <2>4, JumpToJumps DEF JumpI
  <2> QED
    BY <2>2, <2>3, <2>4
<1> QED
  BY <1>1, JumpInvariant, PTL DEF CodeSpec, JumpsWhereItMay

-----------------------------------------------------------------------------
(* Writes to slots *)

\* What is to be taken back from the refund when the slot is written again: it was deleted.
Owed(originally, now) == IF originally # 0 /\ now = 0 THEN sstoreClearRefund ELSE 0

Nets(at, first) == SumFunction([slot \in DOMAIN at |-> Net(StoredAt(slot, first), at[slot])])
Owing(at, first) == SumFunction([slot \in DOMAIN at |-> Owed(StoredAt(slot, first), at[slot])])

\* Whatever the values are, a write pays for what it changes, and takes back no more than
\* what was given for the slot.
LEMMA WriteIsPriced ==
  ASSUME NEW current, NEW originally, NEW value, NEW price,
         price = updateSstoreGasEIP2200(current, originally, value)
  PROVE  /\ price.cost \in Nat /\ price.refund \in Int /\ price.least \in Int
         /\ price.cost - price.refund
              = sstoreNoopGas + Net(originally, value) - Net(originally, current)
         /\ price.refund >= Owed(originally, value) - Owed(originally, current)
         /\ price.least >= -Owed(originally, current)
         /\ Net(originally, value) \in Int /\ Net(originally, current) \in Int
         /\ Owed(originally, value) \in Nat /\ Owed(originally, current) \in Nat
<1>1. /\ sstoreNoopGas \in Nat /\ sstoreInitGas \in Nat /\ sstoreCleanGas \in Nat
      /\ sstoreClearRefund \in Nat
      /\ sstoreInitRefund = sstoreInitGas - sstoreNoopGas /\ sstoreInitRefund >= 0
      /\ sstoreCleanRefund = sstoreCleanGas - sstoreNoopGas /\ sstoreCleanRefund >= 0
  BY SstorePrices
<1>2. CASE current = value
  BY <1>1, <1>2 DEF updateSstoreGasEIP2200, Price, Net, Owed
<1>3. CASE current # value /\ originally = current
  BY <1>1, <1>3 DEF updateSstoreGasEIP2200, Price, Net, Owed
<1>4. CASE current # value /\ originally # current /\ originally = 0
  BY <1>1, <1>4 DEF updateSstoreGasEIP2200, Price, Net, Owed
<1>5. CASE current # value /\ originally # current /\ originally # 0 /\ current = 0
  BY <1>1, <1>5 DEF updateSstoreGasEIP2200, Price, Net, Owed
<1>6. CASE current # value /\ originally # current /\ originally # 0 /\ current # 0
  BY <1>1, <1>6 DEF updateSstoreGasEIP2200, Price, Net, Owed
<1> QED
  BY <1>2, <1>3, <1>4, <1>5, <1>6

\* Slots are found in what the transaction has begun with or in what it has written.
HasSlots(at, first) == IsFiniteSet(DOMAIN at) /\ DOMAIN first \subseteq DOMAIN at

Written(at, slot, value) ==
  [s \in DOMAIN at \cup {slot} |-> IF s = slot THEN value ELSE at[s]]

LEMMA TermsAreNumbers ==
  ASSUME NEW originally, NEW now
  PROVE  Net(originally, now) \in Int /\ Owed(originally, now) \in Nat
BY WriteIsPriced

LEMMA WriteChangesSums ==
  ASSUME NEW at, NEW first, HasSlots(at, first), NEW slot, NEW value
  PROVE  /\ HasSlots(Written(at, slot, value), first)
         /\ Nets(Written(at, slot, value), first)
              = Nets(at, first) + Net(StoredAt(slot, first), value)
                  - Net(StoredAt(slot, first), StoredAt(slot, at))
         /\ Owing(Written(at, slot, value), first)
              = Owing(at, first) + Owed(StoredAt(slot, first), value)
                  - Owed(StoredAt(slot, first), StoredAt(slot, at))
         /\ Owing(at, first) >= Owed(StoredAt(slot, first), StoredAt(slot, at))
         /\ Nets(at, first) \in Int /\ Owing(at, first) \in Int /\ Owing(at, first) >= 0
<1> DEFINE S == DOMAIN at
           w == Written(at, slot, value)
           o == StoredAt(slot, first)
           nets == [s \in S |-> Net(StoredAt(s, first), at[s])]
           nets2 == [s \in S \cup {slot} |-> Net(StoredAt(s, first), w[s])]
           owing == [s \in S |-> Owed(StoredAt(s, first), at[s])]
           owing2 == [s \in S \cup {slot} |-> Owed(StoredAt(s, first), w[s])]
<1>1. IsFiniteSet(S) /\ DOMAIN first \subseteq S
  BY DEF HasSlots
<1>2. /\ DOMAIN w = S \cup {slot} /\ w[slot] = value
      /\ \A s \in S \ {slot} : w[s] = at[s]
  BY DEF Written
<1>3. HasSlots(w, first)
  <2>1. IsFiniteSet(S \cup {slot})
    BY <1>1, FS_AddElement
  <2> QED
    BY <2>1, <1>1, <1>2 DEF HasSlots
<1>4. slot \notin S => o = 0 /\ StoredAt(slot, at) = 0
  BY <1>1 DEF StoredAt
<1>5. slot \in S => StoredAt(slot, at) = at[slot]
  BY DEF StoredAt
<1>6. /\ nets \in [S -> Int] /\ nets2 \in [S \cup {slot} -> Int]
      /\ owing \in [S -> Nat] /\ owing \in [S -> Int] /\ owing2 \in [S \cup {slot} -> Int]
  BY TermsAreNumbers
<1>7. /\ \A s \in S \ {slot} : nets[s] = nets2[s] /\ owing[s] = owing2[s]
      /\ nets2[slot] = Net(o, value) /\ owing2[slot] = Owed(o, value)
  BY <1>2
<1>8. /\ slot \in S => nets[slot] = Net(o, StoredAt(slot, at)) /\ owing[slot] = Owed(o, StoredAt(slot, at))
      /\ slot \notin S => Net(o, StoredAt(slot, at)) = 0 /\ Owed(o, StoredAt(slot, at)) = 0
  BY <1>4, <1>5 DEF Net, Owed
<1>9. /\ Nets(at, first) = SumFunction(nets) /\ Owing(at, first) = SumFunction(owing)
      /\ Nets(w, first) = SumFunction(nets2) /\ Owing(w, first) = SumFunction(owing2)
  BY <1>2 DEF Nets, Owing
<1>10. /\ SumFunction(nets) \in Int /\ SumFunction(owing) \in Int /\ SumFunction(owing) >= 0
       /\ slot \in S => SumFunction(owing) >= owing[slot]
  <2> HIDE DEF nets, owing, S
  <2> QED
    BY <1>1, <1>6, SumFunctionIsInt, SumHasItsTerms
<1>11. /\ SumFunction(nets2) = SumFunction(nets) - (IF slot \in S THEN nets[slot] ELSE 0)
                                 + nets2[slot]
       /\ SumFunction(owing2) = SumFunction(owing) - (IF slot \in S THEN owing[slot] ELSE 0)
                                  + owing2[slot]
  <2> HIDE DEF nets, nets2, owing, owing2, S
  <2> QED
    BY <1>1, <1>6, <1>7, SumOfOneMore
<1> DEFINE a == SumFunction(nets)
           b == SumFunction(owing)
           x == Net(o, value)
           y == Net(o, StoredAt(slot, at))
           u == Owed(o, value)
           v == Owed(o, StoredAt(slot, at))
<1>12. x \in Int /\ y \in Int /\ u \in Int /\ v \in Int
  BY TermsAreNumbers
<1>13. /\ Nets(w, first) = a - y + x /\ Owing(w, first) = b - v + u /\ b >= v
  <2> HIDE DEF nets, nets2, owing, owing2, S, w, o
  <2> QED
    BY <1>7, <1>8, <1>9, <1>10, <1>11, <1>12
<1>14. a \in Int /\ b \in Int /\ b >= 0 /\ Nets(at, first) = a /\ Owing(at, first) = b
  BY <1>9, <1>10
<1> HIDE DEF a, b, x, y, u, v, nets, nets2, owing, owing2
<1>15. /\ Nets(w, first) = a + x - y /\ Owing(w, first) = b + u - v
  BY <1>12, <1>13, <1>14
<1> HIDE DEF w
<1>16. /\ Nets(w, first) = Nets(at, first) + x - y
       /\ Owing(w, first) = Owing(at, first) + u - v
       /\ Owing(at, first) >= v
  BY <1>13, <1>14, <1>15
<1> QED
  BY <1>3, <1>14, <1>16 DEF x, y, u, v, w, o

GasInv ==
  /\ HasSlots(storage, original)
  /\ gasRefund \in Int /\ paid \in Nat /\ writes \in Nat
  /\ status # "REFUND_EXHAUSTED"
  /\ Owing(storage, original) <= gasRefund
  /\ paid - gasRefund = writes * sstoreNoopGas + Nets(storage, original)

\* Steps that write to no slot.
Quiet == UNCHANGED <<original, slots>> /\ status' # "REFUND_EXHAUSTED"

LEMMA EndIsQuiet ==
  ASSUME NEW how, how # "REFUND_EXHAUSTED", EndWith(how)
  PROVE  Quiet
BY DEF EndWith, Quiet

LEMMA StepIsQuiet ==
  ASSUME GasInv, NEW next, NEW newStack, Step(next, newStack), UNCHANGED slots
  PROVE  Quiet
BY DEF Step, Quiet, GasInv

LEMMA PopPushIsQuiet ==
  ASSUME GasInv, NEW n, NEW value, NEW next, PopPush(n, value, next)
  PROVE  Quiet
BY EndIsQuiet, StepIsQuiet DEF PopPush

LEMMA JumpIsQuiet ==
  ASSUME GasInv, NEW dest, NEW n, JumpTo(dest, n)
  PROVE  Quiet
BY EndIsQuiet, StepIsQuiet DEF JumpTo

LEMMA OthersAreQuiet ==
  ASSUME GasInv, CodeNext
  PROVE  Quiet \/ SStore
<1>1. CASE EndOfCode
  BY <1>1 DEF EndOfCode, Quiet
<1>2. CASE Stop \/ Invalid
  BY <1>2, EndIsQuiet DEF Stop, Invalid
<1>3. CASE Arithmetic \/ Pc
  BY <1>3, PopPushIsQuiet DEF Arithmetic, Pc
<1>4. CASE Pop
  BY <1>4, EndIsQuiet, StepIsQuiet DEF Pop
<1>5. CASE Push
  <2>1. PICK value : PopPush(0, value, Next1 + PushLength(Op))
    BY <1>5 DEF Push
  <2> QED
    BY <2>1, PopPushIsQuiet
<1>6. CASE Dup
  BY <1>6, EndIsQuiet, PopPushIsQuiet DEF Dup
<1>7. CASE Swap
  BY <1>7, EndIsQuiet, StepIsQuiet DEF Swap
<1>8. CASE JumpDest
  BY <1>8, StepIsQuiet DEF JumpDest
<1>9. CASE Jump
  BY <1>9, EndIsQuiet, JumpIsQuiet DEF Jump
<1>10. CASE JumpI
  BY <1>10, EndIsQuiet, StepIsQuiet, JumpIsQuiet DEF JumpI
<1>11. CASE SLoad
  BY <1>11, EndIsQuiet, PopPushIsQuiet DEF SLoad
<1> QED
  BY <1>1, <1>2, <1>3, <1>4, <1>5, <1>6, <1>7, <1>8, <1>9, <1>10, <1>11 DEF CodeNext

\* A write: what recreating a slot takes back is there.
LEMMA WriteKeepsGas ==
  ASSUME GasInv, SStore
  PROVE  GasInv'
<1> DEFINE slot == Top(1)
           value == Top(2)
           o == StoredAt(slot, original)
           c == StoredAt(slot, storage)
           price == updateSstoreGasEIP2200(c, o, value)
           w == Written(storage, slot, value)
<1>1. HasSlots(storage, original)
  BY DEF GasInv
<1> DEFINE N == Nets(storage, original)
           W == Owing(storage, original)
           N2 == Nets(w, original)
           W2 == Owing(w, original)
           cost == price.cost
           refund == price.refund
           least == price.least
           x == Net(o, value)
           y == Net(o, c)
           u == Owed(o, value)
           v == Owed(o, c)
<1>2. /\ cost \in Nat /\ refund \in Int /\ least \in Int
      /\ cost - refund = sstoreNoopGas + x - y /\ refund >= u - v /\ least >= -v
      /\ x \in Int /\ y \in Int /\ u \in Nat /\ v \in Nat
  <2> HIDE DEF o, c, value
  <2> QED
    BY WriteIsPriced
<1>3. /\ HasSlots(w, original) /\ N2 = N + x - y /\ W2 = W + u - v /\ W >= v
      /\ N \in Int /\ W \in Int
  <2> HIDE DEF slot, value
  <2> QED
    BY <1>1, WriteChangesSums
<1>4. /\ gasRefund \in Int /\ paid \in Nat /\ writes \in Nat /\ W <= gasRefund
      /\ paid - gasRefund = writes * sstoreNoopGas + N /\ status # "REFUND_EXHAUSTED"
      /\ sstoreNoopGas \in Nat
  BY SstorePrices DEF GasInv
<1>5. \/ Quiet
      \/ gasRefund + least < 0
      \/ /\ Step(Next1, Popped(2))
         /\ gasRefund' = gasRefund + refund /\ paid' = paid + cost /\ writes' = writes + 1
         /\ storage' = w
  <2> HIDE DEF price
  <2> QED
    BY EndIsQuiet DEF SStore, Written, price
<1> HIDE DEF price, w, cost, refund, least, x, y, u, v, N, W, N2, W2, o, c
<1>6. ~(gasRefund + least < 0)
  BY <1>2, <1>3, <1>4
<1>7. CASE Quiet
  BY <1>7 DEF Quiet, slots, GasInv
<1>8. CASE /\ Step(Next1, Popped(2))
           /\ gasRefund' = gasRefund + refund /\ paid' = paid + cost /\ writes' = writes + 1
           /\ storage' = w
  <2> DEFINE g2 == gasRefund + refund
             p2 == paid + cost
             n2 == writes + 1
  <2>1. g2 \in Int /\ p2 \in Nat /\ n2 \in Nat /\ W2 <= g2
    BY <1>2, <1>3, <1>4
  <2>2. n2 * sstoreNoopGas = writes * sstoreNoopGas + sstoreNoopGas
        /\ writes * sstoreNoopGas \in Int
    BY <1>4
  <2>3. p2 - g2 = n2 * sstoreNoopGas + N2
    <3> DEFINE m == writes * sstoreNoopGas
               m2 == n2 * sstoreNoopGas
    <3>1. m2 = m + sstoreNoopGas /\ m \in Int /\ paid - gasRefund = m + N
      BY <2>2, <1>4
    <3> HIDE DEF m, m2
    <3> QED
      BY <3>1, <1>2, <1>3, <1>4
  <2>4. original' = original /\ status' = status
    BY <1>8 DEF Step
  <2>5. gasRefund' = g2 /\ paid' = p2 /\ writes' = n2 /\ storage' = w
    BY <1>8
  <2> HIDE DEF g2, p2, n2
  <2>6. HasSlots(storage, original)' /\ (Owing(storage, original))' = W2
        /\ (Nets(storage, original))' = N2
    BY <2>4, <2>5, <1>3 DEF W2, N2
  <2> QED
    BY <2>1, <2>3, <2>4, <2>5, <2>6, <1>4 DEF GasInv
<1> QED
  BY <1>5, <1>6, <1>7, <1>8

LEMMA GasInvariant == CodeSpec => []GasInv
<1>1. CodeInit => GasInv
  <2> SUFFICES ASSUME CodeInit
               PROVE  GasInv
    OBVIOUS
  <2>1. storage = original /\ gasRefund = 0 /\ writes = 0 /\ paid = 0 /\ status = "running"
    BY DEF CodeInit
  <2>2. IsFiniteSet(DOMAIN original)
    BY ProgramsAssumption DEF CodeInit
  <2> DEFINE nets == [slot \in DOMAIN original |-> Net(StoredAt(slot, original), original[slot])]
             owing == [slot \in DOMAIN original |-> Owed(StoredAt(slot, original), original[slot])]
  <2>3. \A slot \in DOMAIN original : nets[slot] = 0 /\ owing[slot] = 0
    BY DEF Net, Owed, StoredAt
  <2>4. Nets(storage, original) = 0 /\ Owing(storage, original) = 0
    <3>1. Nets(storage, original) = SumFunctionOnSet(nets, DOMAIN original)
          /\ Owing(storage, original) = SumFunctionOnSet(owing, DOMAIN original)
      BY <2>1 DEF Nets, Owing, SumFunction
    <3> HIDE DEF nets, owing
    <3> QED
      BY <3>1, <2>2, <2>3, SumOfZeros
  <2>5. 0 * sstoreNoopGas = 0
    BY SstorePrices
  <2> QED
    BY <2>1, <2>2, <2>4, <2>5 DEF GasInv, HasSlots
<1>2. GasInv /\ [CodeNext]_codeVars => GasInv'
  <2> SUFFICES ASSUME GasInv, [CodeNext]_codeVars
               PROVE  GasInv'
    OBVIOUS
  <2>1. CASE UNCHANGED codeVars
    BY <2>1 DEF codeVars, slots, GasInv
  <2>2. CASE Quiet
    BY <2>2 DEF Quiet, slots, GasInv
  <2> QED
    BY <2>1, <2>2, OthersAreQuiet, WriteKeepsGas
<1> QED
  BY <1>1, <1>2, PTL DEF CodeSpec

\* The price of any row of writes, less the refund, is that of writes that change nothing and
\* of the difference that they make, and SSTORE never takes back more than there is.
THEOREM WritesCostWhatTheyChange == CodeSpec => []WritesCostTheirEffect
<1>1. GasInv => WritesCostTheirEffect
  BY DEF GasInv, WritesCostTheirEffect, Nets
<1> QED
  BY <1>1, GasInvariant, PTL

-----------------------------------------------------------------------------
(* Words on the stack *)

Statuses == {"running", "STOP", "INVALID_OPCODE", "STACK_UNDERFLOW", "STACK_OVERFLOW",
             "OUT_OF_RANGE", "INVALID_JUMP", "REFUND_EXHAUSTED"}

\* The stack and the slots hold words, which is what the opcodes need of their operands.
WordsInv ==
  /\ stack \in Seq(Words) /\ Len(stack) <= maxHeight
  /\ \A s \in DOMAIN storage : storage[s] \in Words
  /\ validJumps \subseteq Nat
  /\ status \in Statuses

LEMMA OperandsAreWords ==
  ASSUME WordsInv
  PROVE  /\ Len(stack) \in Nat /\ maxHeight \in Nat
         /\ \A n \in Nat \ {0} : n <= Len(stack) => Top(n) \in Words
         /\ Operand(1) \in Words /\ Operand(2) \in Words /\ Operand(3) \in Words
         /\ \A n \in Nat : n <= Len(stack) => /\ Popped(n) \in Seq(Words)
                                              /\ Len(Popped(n)) = Len(stack) - n
<1>1. stack \in Seq(Words) /\ Len(stack) \in Nat /\ maxHeight \in Nat
  BY ProgramsAssumption DEF WordsInv
<1>2. ASSUME NEW n \in Nat \ {0}, n <= Len(stack) PROVE Top(n) \in Words
  <2> DEFINE i == Len(stack) + 1 - n
  <2>1. i \in 1 .. Len(stack)
    BY <1>1, <1>2
  <2> HIDE DEF i
  <2>2. stack[i] \in Words
    BY <1>1, <2>1
  <2> QED
    BY <2>2 DEF Top, i
<1>3. Operand(1) \in Words /\ Operand(2) \in Words /\ Operand(3) \in Words
  BY <1>1, <1>2, WordsAre DEF Operand
<1>4. ASSUME NEW n \in Nat, n <= Len(stack)
      PROVE  Popped(n) \in Seq(Words) /\ Len(Popped(n)) = Len(stack) - n
  <2> DEFINE k == Len(stack) - n
  <2>1. k \in Nat /\ k <= Len(stack)
    BY <1>1, <1>4
  <2> HIDE DEF k
  <2>2. SubSeq(stack, 1, k) \in Seq(Words) /\ Len(SubSeq(stack, 1, k)) = k
    BY <1>1, <2>1
  <2> QED
    BY <2>2 DEF Popped, k
<1> QED
  BY <1>1, <1>2, <1>3, <1>4

\* The analysis keeps numbers.
LEMMA JumpsAreNumbers ==
  ASSUME JumpInv, WordsInv, Analyse
  PROVE  validJumps' \subseteq Nat
<1>1. _getValidJumpDests \subseteq 0 .. Len(code) - 1
  <2>1. DestsOf(code, decode) \subseteq StartsOf(code, decode)
        /\ StartsOf(code, decode) \subseteq 0 .. Len(code) - 1
    BY DestsAreStarts DEF JumpInv
  <2> QED
    BY <2>1, AnalysisIs
<1>2. validJumps' = _getValidJumpDests \/ validJumps' = validJumps
  BY DEF Analyse
<1>3. validJumps \subseteq Nat /\ \A n \in Int : 0 .. n \subseteq Nat
  BY DEF WordsInv
<1>4. Len(code) - 1 \in Int
  BY DEF JumpInv
<1>5. _getValidJumpDests \subseteq Nat
  BY <1>1, <1>3, <1>4
<1> QED
  BY <1>2, <1>3, <1>5

LEMMA EndKeepsWords ==
  ASSUME JumpInv, WordsInv, NEW how \in Statuses, EndWith(how)
  PROVE  WordsInv'
BY JumpsAreNumbers DEF EndWith, WordsInv, slots

LEMMA StepKeepsWords ==
  ASSUME JumpInv, WordsInv, NEW next, NEW newStack \in Seq(Words), Len(newStack) <= maxHeight,
         Step(next, newStack), \A s \in DOMAIN storage' : storage'[s] \in Words
  PROVE  WordsInv'
BY JumpsAreNumbers DEF Step, WordsInv

LEMMA PopPushKeepsWords ==
  ASSUME JumpInv, WordsInv, NEW n \in Nat, NEW value \in Nat, NEW next, PopPush(n, value, next)
  PROVE  WordsInv'
<1>1. CASE \E how \in Statuses : EndWith(how)
  BY <1>1, EndKeepsWords
<1>2. CASE /\ Len(stack) >= n /\ value <= MaxInteger /\ Len(stack) - n < maxHeight
           /\ Step(next, Append(Popped(n), value)) /\ UNCHANGED slots
  <2> DEFINE rest == Popped(n)
  <2>1. rest \in Seq(Words) /\ Len(rest) = Len(stack) - n /\ Len(stack) \in Nat /\ maxHeight \in Nat
    BY <1>2, OperandsAreWords
  <2>2. value \in Words
    BY <1>2, WordsAre, WidthIs
  <2> HIDE DEF rest
  <2>3. Append(rest, value) \in Seq(Words) /\ Len(Append(rest, value)) = Len(rest) + 1
    BY <2>1, <2>2
  <2>4. Len(Append(rest, value)) <= maxHeight
    BY <1>2, <2>1, <2>3
  <2>5. \A s \in DOMAIN storage' : storage'[s] \in Words
    BY <1>2 DEF slots, WordsInv
  <2> QED
    BY <1>2, <2>3, <2>4, <2>5, StepKeepsWords DEF rest
<1> QED
  BY <1>1, <1>2 DEF PopPush, Statuses

LEMMA PopKeepsWords ==
  ASSUME JumpInv, WordsInv, NEW n \in Nat, n <= Len(stack), NEW next, Step(next, Popped(n)),
         \A s \in DOMAIN storage' : storage'[s] \in Words
  PROVE  WordsInv'
<1> DEFINE rest == Popped(n)
<1>1. rest \in Seq(Words) /\ Len(rest) = Len(stack) - n /\ Len(stack) \in Nat /\ maxHeight \in Nat
  BY OperandsAreWords
<1>2. Len(rest) <= maxHeight
  BY <1>1 DEF WordsInv
<1> HIDE DEF rest
<1> QED
  BY <1>1, <1>2, StepKeepsWords DEF rest

LEMMA JumpKeepsWords ==
  ASSUME JumpInv, WordsInv, NEW dest, NEW n \in Nat, n <= Len(stack), JumpTo(dest, n)
  PROVE  WordsInv'
<1>1. CASE EndWith("INVALID_JUMP")
  BY <1>1, EndKeepsWords DEF Statuses
<1>2. CASE Step(dest, Popped(n)) /\ UNCHANGED slots
  BY <1>2, PopKeepsWords DEF slots, WordsInv
<1> QED
  BY <1>1, <1>2 DEF JumpTo

\* The number behind a push, that the action recurs on.
IsNumber(f, n) ==
  f = [i \in 0 .. n |->
        IF i = 0 THEN 0
        ELSE IF programCounter + 1 + i > Len(code) THEN f[i - 1]
        ELSE f[i - 1] * TwoTo[ByteBits] + code[programCounter + 1 + i]]

LEMMA NumberExists ==
  ASSUME JumpInv, NEW n \in 0 .. 2
  PROVE  \E f \in [0 .. n -> Nat] : IsNumber(f, n)
<1> DEFINE D == 0 .. n
           w == TwoTo[ByteBits]
           G == [p \in [D -> Nat] \X D |->
                  IF p[2] = 0 THEN 0
                  ELSE IF programCounter + 1 + p[2] > Len(code) THEN p[1][p[2] - 1]
                  ELSE p[1][p[2] - 1] * w + code[programCounter + 1 + p[2]]]
           rank == [i \in D |-> i]
<1>0. /\ \A i \in D : i \in Nat /\ (i # 0 => i - 1 \in D /\ i - 1 < i)
      /\ w \in Nat /\ programCounter \in Nat /\ Len(code) \in Nat /\ code \in Seq(Nat)
  BY ByteFits DEF JumpInv
<1> HIDE DEF w
<1>1. \A h \in [D -> Nat], i \in D :
        G[<<h, i>>] = IF i = 0 THEN 0
                      ELSE IF programCounter + 1 + i > Len(code) THEN h[i - 1]
                      ELSE h[i - 1] * w + code[programCounter + 1 + i]
  OBVIOUS
<1>2. ASSUME NEW h \in [D -> Nat], NEW i \in D, i # 0
      PROVE  /\ h[i - 1] \in Nat
             /\ ~(programCounter + 1 + i > Len(code)) =>
                  h[i - 1] * w + code[programCounter + 1 + i] \in Nat
  <2> DEFINE j == programCounter + 1 + i
             v == h[i - 1]
             c == code[j]
  <2>1. v \in Nat
    BY <1>0, <1>2
  <2>2. ~(j > Len(code)) => j \in 1 .. Len(code)
    BY <1>0
  <2>3. ~(j > Len(code)) => c \in Nat
    <3> HIDE DEF j
    <3> QED
      BY <1>0, <2>2
  <2> HIDE DEF v, c
  <2>4. c \in Nat => v * w + c \in Nat
    BY <1>0, <2>1
  <2> QED
    BY <2>1, <2>3, <2>4 DEF v, c
<1> HIDE DEF D
<1>3. G \in [[D -> Nat] \X D -> Nat]
  <2>1. \A p \in [D -> Nat] \X D :
          (IF p[2] = 0 THEN 0
           ELSE IF programCounter + 1 + p[2] > Len(code) THEN p[1][p[2] - 1]
           ELSE p[1][p[2] - 1] * w + code[programCounter + 1 + p[2]]) \in Nat
    BY <1>2
  <2> QED
    BY <2>1
<1> HIDE DEF G
<1>4. ASSUME NEW h \in [D -> Nat], NEW k \in [D -> Nat], NEW i \in D,
             \A j \in D : rank[j] < rank[i] => h[j] = k[j]
      PROVE  G[<<h, i>>] = G[<<k, i>>]
  <2>1. i # 0 => h[i - 1] = k[i - 1]
    BY <1>0, <1>4
  <2> QED
    BY <1>1, <2>1
<1>5. IsRanked(G, D, Nat, rank)
  BY <1>0, <1>3, <1>4 DEF IsRanked
<1> HIDE DEF rank
<1>6. HasSolution(G, D, Nat)
  BY <1>5, 0 \in Nat, RecursionHasSolution
<1>7. PICK f \in [D -> Nat] : \A i \in D : f[i] = G[<<f, i>>]
  BY <1>6 DEF HasSolution
<1>8. f = [i \in D |-> IF i = 0 THEN 0
                       ELSE IF programCounter + 1 + i > Len(code) THEN f[i - 1]
                       ELSE f[i - 1] * w + code[programCounter + 1 + i]]
  BY <1>1, <1>7
<1> QED
  BY <1>8 DEF IsNumber, D, w

\* So a push gives a number; that it fits is checked by the stack.
NumberOf(n) == LET f == CHOOSE f : IsNumber(f, n) IN f[n]

LEMMA PushIs ==
  ASSUME JumpInv, Push
  PROVE  \E value \in Nat : PopPush(0, value, Next1 + PushLength(Op))
<1> DEFINE n == PushLength(Op)
<1>1. n \in 0 .. 2
  BY NextCounter
<1>2. PopPush(0, NumberOf(n), Next1 + n)
  BY DEF Push, NumberOf, IsNumber
<1>3. NumberOf(n) \in Nat
  <2> DEFINE f == CHOOSE f : IsNumber(f, n)
  <2> HIDE DEF n
  <2>1. IsNumber(f, n)
    BY <1>1, NumberExists
  <2> HIDE DEF f
  <2>2. \A i \in 0 .. n : f[i] = IF i = 0 THEN 0
          ELSE IF programCounter + 1 + i > Len(code) THEN f[i - 1]
          ELSE f[i - 1] * TwoTo[ByteBits] + code[programCounter + 1 + i]
    BY <2>1 DEF IsNumber
  <2>3. /\ TwoTo[ByteBits] \in Nat /\ programCounter \in Nat /\ Len(code) \in Nat
        /\ code \in Seq(Nat)
    BY ByteFits DEF JumpInv
  <2> DEFINE w == TwoTo[ByteBits]
  <2>4. ASSUME NEW i \in Nat, i # 0, i <= n, f[i - 1] \in Nat PROVE f[i] \in Nat
    <3> DEFINE j == programCounter + 1 + i
               v == f[i - 1]
    <3>1. f[i] = IF j > Len(code) THEN v ELSE v * w + code[j]
      BY <1>1, <2>2, <2>4
    <3>2. ~(j > Len(code)) => j \in 1 .. Len(code)
      BY <2>3
    <3> HIDE DEF j, v, w
    <3>3. ~(j > Len(code)) => code[j] \in Nat
      BY <2>3, <3>2
    <3>4. v \in Nat /\ w \in Nat
      BY <2>3, <2>4 DEF v, w
    <3>5. code[j] \in Nat => v * w + code[j] \in Nat
      BY <3>4
    <3> QED
      BY <3>1, <3>3, <3>4, <3>5
  <2> HIDE DEF w
  <2>5. f[0] \in Nat
    BY <1>1, <2>2
  <2>6. n >= 1 => f[1] \in Nat
    BY <1>1, <2>4, <2>5
  <2>7. n >= 2 => f[2] \in Nat
    BY <1>1, <2>4, <2>6
  <2>8. f[n] \in Nat
    BY <1>1, <2>5, <2>6, <2>7
  <2> QED
    BY <2>8 DEF NumberOf, f
<1> QED
  BY <1>2, <1>3

\* Every action keeps words: the arithmetic because it is right.
LEMMA NextKeepsWords ==
  ASSUME JumpInv, WordsInv, CodeNext
  PROVE  WordsInv'
<1>0. /\ Len(stack) \in Nat /\ programCounter \in Nat /\ Next1 \in Nat
      /\ \A n \in Nat \ {0} : n <= Len(stack) => Top(n) \in Words
      /\ \A v \in Words : v \in Nat
      /\ 0 \in Nat /\ 1 \in Nat /\ 2 \in Nat
  BY OperandsAreWords, WordsAre, NextCounter DEF JumpInv
<1>1. CASE EndOfCode
  BY <1>1 DEF EndOfCode, flow, slots, WordsInv, Statuses
<1>2. CASE Stop \/ Invalid
  BY <1>2, EndKeepsWords DEF Stop, Invalid, Statuses
<1>3. CASE Arithmetic
  <2> DEFINE value == Compute(Op, Operand(1), Operand(2), Operand(3))
  <2>1. value \in Nat
    <3>1. Right(Op, Operand(1), Operand(2), Operand(3))
      BY <1>3, OperandsAreWords, OpcodesAreRight DEF Arithmetic
    <3> QED
      BY <1>0, <3>1 DEF Right
  <2>2. Arity(Op) \in Nat
    BY DEF Arity
  <2>3. PopPush(Arity(Op), value, Next1)
    BY <1>3 DEF Arithmetic
  <2> HIDE DEF value
  <2> QED
    BY <2>1, <2>2, <2>3, PopPushKeepsWords
<1>4. CASE Pc
  <2>1. Next1 - 1 \in Nat /\ PopPush(0, Next1 - 1, Next1)
    BY <1>0, <1>4 DEF Pc, Next1
  <2> QED
    BY <1>0, <2>1, PopPushKeepsWords
<1>5. CASE Push
  BY <1>0, <1>5, PushIs, PopPushKeepsWords
<1>6. CASE Pop
  <2>1. CASE EndWith("STACK_UNDERFLOW")
    BY <2>1, EndKeepsWords DEF Statuses
  <2>2. CASE Len(stack) >= 1 /\ Step(Next1, Popped(1)) /\ UNCHANGED slots
    BY <1>0, <2>2, PopKeepsWords DEF slots, WordsInv
  <2> QED
    BY <1>6, <2>1, <2>2 DEF Pop
<1>7. CASE Dup
  <2>1. CASE EndWith("STACK_UNDERFLOW")
    BY <2>1, EndKeepsWords DEF Statuses
  <2>2. CASE Len(stack) >= 1 /\ PopPush(0, Top(1), Next1)
    <3>1. Top(1) \in Nat
      BY <1>0, <2>2
    <3> QED
      BY <1>0, <2>2, <3>1, PopPushKeepsWords
  <2> QED
    BY <1>7, <2>1, <2>2 DEF Dup
<1>8. CASE Swap
  <2>1. CASE EndWith("STACK_UNDERFLOW")
    BY <2>1, EndKeepsWords DEF Statuses
  <2>2. CASE /\ Len(stack) > 1 /\ Step(Next1, Popped(2) \o <<Top(1), Top(2)>>)
             /\ UNCHANGED slots
    <3> DEFINE rest == Popped(2)
               two == <<Top(1), Top(2)>>
    <3>1. rest \in Seq(Words) /\ Len(rest) = Len(stack) - 2
      BY <1>0, <2>2, OperandsAreWords
    <3>2. Top(1) \in Words /\ Top(2) \in Words
      BY <1>0, <2>2
    <3>3. two \in Seq(Words) /\ Len(two) = 2
      BY <3>2
    <3> HIDE DEF rest, two
    <3>4. rest \o two \in Seq(Words) /\ Len(rest \o two) = Len(rest) + 2
      <4>1. rest \o two \in Seq(Words) /\ Len(rest \o two) = Len(rest) + Len(two)
        BY <3>1, <3>3, ConcatProperties
      <4> QED
        BY <3>3, <4>1
    <3>5. Len(rest \o two) <= maxHeight
      BY <1>0, <3>1, <3>4 DEF WordsInv
    <3> QED
      BY <2>2, <3>4, <3>5, StepKeepsWords DEF rest, two, slots, WordsInv
  <2> QED
    BY <1>8, <2>1, <2>2 DEF Swap
<1>9. CASE JumpDest
  BY <1>9, StepKeepsWords DEF JumpDest, slots, WordsInv
<1>10. CASE Jump
  <2>1. CASE EndWith("STACK_UNDERFLOW")
    BY <2>1, EndKeepsWords DEF Statuses
  <2>2. CASE Len(stack) >= 1 /\ JumpTo(Top(1), 1)
    BY <1>0, <2>2, JumpKeepsWords
  <2> QED
    BY <1>10, <2>1, <2>2 DEF Jump
<1>11. CASE JumpI
  <2>1. CASE EndWith("STACK_UNDERFLOW")
    BY <2>1, EndKeepsWords DEF Statuses
  <2>2. CASE Len(stack) >= 2 /\ JumpTo(Top(1), 2)
    BY <1>0, <2>2, JumpKeepsWords
  <2>3. CASE Len(stack) >= 2 /\ Step(Next1, Popped(2)) /\ UNCHANGED slots
    BY <1>0, <2>3, PopKeepsWords DEF slots, WordsInv
  <2> QED
    BY <1>11, <2>1, <2>2, <2>3 DEF JumpI
<1>12. CASE SLoad
  <2>1. CASE EndWith("STACK_UNDERFLOW")
    BY <2>1, EndKeepsWords DEF Statuses
  <2>2. CASE Len(stack) >= 1 /\ PopPush(1, StoredAt(Top(1), storage), Next1)
    <3>1. StoredAt(Top(1), storage) \in Nat
      BY <1>0 DEF StoredAt, WordsInv
    <3> QED
      BY <1>0, <2>2, <3>1, PopPushKeepsWords
  <2> QED
    BY <1>12, <2>1, <2>2 DEF SLoad
<1>13. CASE SStore
  <2>1. CASE EndWith("STACK_UNDERFLOW") \/ EndWith("REFUND_EXHAUSTED")
    BY <2>1, EndKeepsWords DEF Statuses
  <2>2. CASE /\ Len(stack) >= 2 /\ Step(Next1, Popped(2))
             /\ storage' = [s \in DOMAIN storage \cup {Top(1)} |->
                              IF s = Top(1) THEN Top(2) ELSE storage[s]]
    <3>1. Top(2) \in Words
      BY <1>0, <2>2
    <3>2. \A s \in DOMAIN storage' : storage'[s] \in Words
      BY <2>2, <3>1 DEF WordsInv
    <3> QED
      BY <1>0, <2>2, <3>2, PopKeepsWords
  <2> QED
    BY <1>13, <2>1, <2>2 DEF SStore
<1> QED
  BY <1>1, <1>2, <1>3, <1>4, <1>5, <1>6, <1>7, <1>8, <1>9, <1>10, <1>11, <1>12, <1>13
     DEF CodeNext

LEMMA WordsInvariant == CodeSpec => []WordsInv
<1>1. CodeInit => WordsInv
  <2> SUFFICES ASSUME CodeInit
               PROVE  WordsInv
    OBVIOUS
  <2>1. stack = <<>> /\ storage = original /\ validJumps = {} /\ status = "running"
    BY DEF CodeInit
  <2>2. \A s \in DOMAIN original : original[s] \in Words
    BY ProgramsAssumption DEF CodeInit
  <2>3. <<>> \in Seq(Words) /\ Len(<<>>) = 0 /\ maxHeight \in Nat
    BY ProgramsAssumption
  <2> QED
    BY <2>1, <2>2, <2>3 DEF WordsInv, Statuses
<1>2. JumpInv /\ WordsInv /\ [CodeNext]_codeVars => WordsInv'
  <2> SUFFICES ASSUME JumpInv, WordsInv, [CodeNext]_codeVars
               PROVE  WordsInv'
    OBVIOUS
  <2>1. CASE UNCHANGED codeVars
    BY <2>1 DEF codeVars, flow, slots, WordsInv
  <2> QED
    BY <2>1, NextKeepsWords
<1> QED
  BY <1>1, <1>2, JumpInvariant, PTL DEF CodeSpec

\* Handlers that wrap by hand leave words on a stack of any height and words of any width,
\* the slots hold words, and the refund is never below nothing.
THEOREM CodeTypesHold == CodeSpec => []CodeTypeOK
<1>1. JumpInv /\ GasInv /\ WordsInv => CodeTypeOK
  <2> SUFFICES ASSUME JumpInv, GasInv, WordsInv
               PROVE  CodeTypeOK
    OBVIOUS
  <2>1. gasRefund \in Nat
    <3> DEFINE S == DOMAIN storage
               owed == [slot \in S |-> Owed(StoredAt(slot, original), storage[slot])]
    <3>1. IsFiniteSet(S)
      BY DEF GasInv, HasSlots
    <3>2. owed \in [S -> Nat]
      BY TermsAreNumbers
    <3> HIDE DEF S
    <3>3. SumFunction(owed) >= 0 /\ SumFunction(owed) \in Int
      BY <3>1, <3>2, SumHasItsTerms, SumFunctionIsInt
    <3>4. Owing(storage, original) = SumFunction(owed)
      BY DEF Owing, S
    <3> HIDE DEF owed
    <3> QED
      BY <3>3, <3>4 DEF GasInv
  <2>2. \A i \in 1 .. Len(stack) : stack[i] \in Words
    BY DEF WordsInv
  <2> QED
    BY <2>1, <2>2 DEF JumpInv, GasInv, WordsInv, CodeTypeOK, Statuses
<1> QED
  BY <1>1, JumpInvariant, GasInvariant, WordsInvariant, PTL

\* An arithmetic opcode never ends the run when its operands are there, and pushes the word
\* that it means, for words of any width: the handlers in functions.ts wrap, shift and mask
\* as they should at every limit.
THEOREM ArithmeticIsRight == CodeSpec => ArithmeticMeans
<1>1. JumpInv /\ WordsInv /\ [CodeNext]_codeVars =>
        [Running /\ Op \in WordOpcodes /\ Len(stack) >= Arity(Op) =>
           /\ status' = "running"
           /\ Means(Op, Operand(1), Operand(2), Operand(3), stack'[Len(stack')])]_codeVars
  <2> DEFINE value == Compute(Op, Operand(1), Operand(2), Operand(3))
             n == Arity(Op)
             rest == Popped(n)
  <2> SUFFICES ASSUME JumpInv, WordsInv, CodeNext, Running, Op \in WordOpcodes, Len(stack) >= n
               PROVE  /\ status' = "running"
                      /\ Means(Op, Operand(1), Operand(2), Operand(3), stack'[Len(stack')])
    OBVIOUS
  <2>1. Arithmetic
    BY DEF CodeNext, EndOfCode, Running, Stop, Invalid, Pop, Pc, Push, Dup, Swap, JumpDest,
           Jump, JumpI, SLoad, SStore, JumpInv, WordOpcodes, UnaryOps, BinaryOps, TernaryOps
  <2>2. PopPush(n, value, Next1)
    BY <2>1 DEF Arithmetic
  <2>3. value \in Words /\ Means(Op, Operand(1), Operand(2), Operand(3), value)
    <3>1. Right(Op, Operand(1), Operand(2), Operand(3))
      BY OperandsAreWords, OpcodesAreRight
    <3> QED
      BY <3>1 DEF Right
  <2>4. n \in 1 .. 3 /\ Len(stack) \in Nat /\ maxHeight \in Nat /\ Len(stack) <= maxHeight
    BY OperandsAreWords DEF Arity, WordsInv
  <2>5. rest \in Seq(Words)
    BY <2>4, OperandsAreWords
  <2> HIDE DEF value, n, rest
  <2>6. ~(value > MaxInteger) /\ ~(Len(stack) < n) /\ ~(Len(stack) - n >= maxHeight)
    <3>1. value \in Nat /\ value < TwoPow /\ TwoPow \in Nat /\ MaxInteger = TwoPow - 1
      BY <2>3, WordsAre, WidthIs
    <3> QED
      BY <2>4, <3>1
  <2>7. Step(Next1, Append(rest, value))
    BY <2>2, <2>6 DEF PopPush, rest
  <2>8. status' = "running" /\ stack' = Append(rest, value)
    BY <2>7 DEF Step, Running
  <2>9. Append(rest, value)[Len(Append(rest, value))] = value
    BY <2>3, <2>5
  <2> QED
    BY <2>3, <2>8, <2>9
<1> QED
  BY <1>1, JumpInvariant, WordsInvariant, PTL DEF CodeSpec, ArithmeticMeans
==============================================================================
