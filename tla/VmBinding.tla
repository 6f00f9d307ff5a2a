------------------------------ MODULE VmBinding ------------------------------
(***************************************************************************)
(* Runs of EVM transactions that share one VM.  apply(), estimateGas and   *)
(* generateAccessList each make a state object and an EVM of their own,    *)
(* but they all set EVM.stateManager of the one VM and call its runTx,     *)
(* which awaits twice before _runTx takes the state manager from the VM.   *)
(* The caller is read through that state manager and written through the   *)
(* journal of the run's own EVM.                                           *)
(*                                                                         *)
(* Every action is the code between two awaits.  The message call is one   *)
(* action: it works on the run's own state object only.                    *)
(***************************************************************************)
EXTENDS Integers

CONSTANTS
  Runs,      \* runs that may overlap
  Applies,   \* those that apply() makes; the others only estimate
  Accounts,
  Sender,    \* the caller of each run
  Receiver,  \* whom each run pays
  NoRun,
  Funds,     \* balance of each account in the ledger
  Value,     \* what each run pays
  GasCost,   \* the gas limit at the price of the network account
  Bid        \* the gas limit at the price the transaction names

ASSUME RunAssumption == Applies \subseteq Runs /\ NoRun \notin Runs
ASSUME PartyAssumption ==
  /\ Sender \in [Runs -> Accounts] /\ Receiver \in [Runs -> Accounts]
  /\ \A r \in Runs : Sender[r] # Receiver[r]
ASSUME AmountAssumption ==
  Funds \in [Accounts -> Nat] /\ Value \in Nat /\ GasCost \in Nat /\ Bid \in Nat

VARIABLES
  stateManager, \* EVM.stateManager: the run whose state object it is
  pc,           \* where each run is
  objects,      \* accounts in the state object of each run
  state,        \* what _runTx took from the VM
  fromAccount,  \* the caller as the run has last read it
  results,      \* what the message call returned: what it paid and its gas
  disturbed     \* history: another run bound the VM since this one did

vars == <<stateManager, pc, objects, state, fromAccount, results, disturbed>>

Account == [balance : Nat, nonce : Nat]
Result == [paid : {0, Value}, gas : 0..GasCost]

LedgerAccount(a) == [balance |-> Funds[a], nonce |-> 0]

Init ==
  /\ stateManager = NoRun
  /\ pc = [r \in Runs |-> "ready"]
  /\ objects = [r \in Runs |-> [a \in Accounts |-> LedgerAccount(a)]]
  /\ state = [r \in Runs |-> NoRun]
  /\ fromAccount = [r \in Runs |-> LedgerAccount(Sender[r])]
  /\ results = [r \in Runs |-> [paid |-> 0, gas |-> 0]]
  /\ disturbed = [r \in Runs |-> FALSE]

Goto(r, from, to) == pc[r] = from /\ pc' = [pc EXCEPT ![r] = to]

\* The runs between their binding and their capture of the VM.
Exposed == {r \in Runs : pc[r] \in {"network", "cleanup", "checkpoint"}}

\* The VM is bound; apply() enters runTx at once, the others first await the
\* network account.
Bind(r) ==
  /\ Goto(r, "ready", IF r \in Applies THEN "cleanup" ELSE "network")
  /\ stateManager' = r
  /\ disturbed' = [s \in Runs |-> disturbed[s] \/ s \in Exposed]
  /\ UNCHANGED <<objects, state, fromAccount, results>>

NetworkRead(r) ==
  /\ Goto(r, "network", "cleanup")
  /\ UNCHANGED <<stateManager, objects, state, fromAccount, results, disturbed>>

\* runTx cleans the journal and takes its checkpoint.
CheckpointTx(r) ==
  /\ Goto(r, "cleanup", "checkpoint")
  /\ UNCHANGED <<stateManager, objects, state, fromAccount, results, disturbed>>

Capture(r) ==
  /\ Goto(r, "checkpoint", "read")
  /\ state' = [state EXCEPT ![r] = stateManager]
  /\ UNCHANGED <<stateManager, objects, fromAccount, results, disturbed>>

\* The caller comes from the state object of the VM, and goes to the run's own.
ReadCaller(r) ==
  fromAccount' = [fromAccount EXCEPT ![r] = objects[state[r]][Sender[r]]]

WriteCaller(r, account) ==
  objects' = [objects EXCEPT ![r][Sender[r]] = account]

ReadBefore(r) ==
  /\ Goto(r, "read", "buyGas")
  /\ ReadCaller(r)
  /\ UNCHANGED <<stateManager, objects, state, results, disturbed>>

\* The checks of apply(): funds for what the transaction names, the nonce, and
\* an account that can be written.  An estimate need not pay for its gas.
MayBuyGas(r) ==
  r \in Applies =>
    /\ fromAccount[r].balance >= Bid + Value
    /\ fromAccount[r].nonce = 0
    /\ fromAccount[r].balance >= GasCost

BalanceAfterGas(r) ==
  LET balance == fromAccount[r].balance
      raised == IF balance < Bid + Value THEN Bid + Value ELSE balance
  IN IF raised < GasCost THEN 0 ELSE raised - GasCost

BuyGas(r) ==
  /\ Goto(r, "buyGas", "call")
  /\ MayBuyGas(r)
  /\ WriteCaller(r, [balance |-> BalanceAfterGas(r), nonce |-> fromAccount[r].nonce])
  /\ UNCHANGED <<stateManager, state, fromAccount, results, disturbed>>

\* Slip: what the call pays is not compared with what the caller has.
RunCallUnchecked(r, gas) ==
  /\ Goto(r, "call", "readAgain")
  /\ objects' = [objects EXCEPT
       ![r][Sender[r]] = [balance |-> @.balance - Value, nonce |-> @.nonce + 1],
       ![r][Receiver[r]].balance = @ + Value]
  /\ results' = [results EXCEPT ![r] = [paid |-> Value, gas |-> gas]]
  /\ UNCHANGED <<stateManager, state, fromAccount, disturbed>>

\* The nonce goes up whatever becomes of the call; the value moves if it succeeds.
RunCall(r, gas) ==
  /\ Goto(r, "call", "readAgain")
  /\ \E paid \in {0, Value} :
       /\ paid <= objects[r][Sender[r]].balance
       /\ objects' = [objects EXCEPT
            ![r][Sender[r]] = [balance |-> @.balance - paid, nonce |-> @.nonce + 1],
            ![r][Receiver[r]].balance = @ + paid]
       /\ results' = [results EXCEPT ![r] = [paid |-> paid, gas |-> gas]]
  /\ UNCHANGED <<stateManager, state, fromAccount, disturbed>>

\* Slip: the caller is not read again after the call.
ReadNothingAfter(r) ==
  /\ Goto(r, "readAgain", "settle")
  /\ UNCHANGED <<stateManager, objects, state, fromAccount, results, disturbed>>

ReadAfter(r) ==
  /\ Goto(r, "readAgain", "settle")
  /\ ReadCaller(r)
  /\ UNCHANGED <<stateManager, objects, state, results, disturbed>>

\* The gas that was not used is put back.
Settle(r) ==
  /\ Goto(r, "settle", "done")
  /\ WriteCaller(r, [fromAccount[r] EXCEPT !.balance = @ + (GasCost - results[r].gas)])
  /\ UNCHANGED <<stateManager, state, fromAccount, results, disturbed>>

\* A check fails, or the state object refuses the read or the write of the caller.
Throw(r) ==
  /\ pc[r] \in {"read", "buyGas"}
  /\ pc' = [pc EXCEPT ![r] = "thrown"]
  /\ UNCHANGED <<stateManager, objects, state, fromAccount, results, disturbed>>

RunStep(r) ==
  \/ Bind(r) \/ NetworkRead(r) \/ CheckpointTx(r) \/ Capture(r) \/ ReadBefore(r)
  \/ BuyGas(r) \/ (\E gas \in 0..GasCost : RunCall(r, gas))
  \/ ReadAfter(r) \/ Settle(r) \/ Throw(r)

Next == \E r \in Runs : RunStep(r)

Spec == Init /\ [][Next]_vars

-----------------------------------------------------------------------------
Places == {"ready", "network", "cleanup", "checkpoint", "read", "buyGas", "call",
           "readAgain", "settle", "done", "thrown"}

\* Every variable keeps its type: in particular no account goes below zero,
\* although the gas is bought with a caller that may come from another run.
TypeOK ==
  /\ stateManager \in Runs \cup {NoRun}
  /\ pc \in [Runs -> Places]
  /\ objects \in [Runs -> [Accounts -> Account]]
  /\ state \in [Runs -> Runs \cup {NoRun}]
  /\ fromAccount \in [Runs -> Account]
  /\ results \in [Runs -> Result]
  /\ disturbed \in [Runs -> BOOLEAN]

\* The caller has paid its gas and the value and has used its nonce, and the
\* receiver has what the caller paid.
Charged(r) ==
  /\ objects[r][Sender[r]] =
       [balance |-> Funds[Sender[r]] - results[r].gas - results[r].paid, nonce |-> 1]
  /\ objects[r][Receiver[r]] =
       [balance |-> Funds[Receiver[r]] + results[r].paid, nonce |-> 0]

\* A run that no other run disturbed between its binding and its capture of the
\* VM charges its caller exactly, although others bind the VM, run and write
\* before and after (runTx reads the caller again after the call).
UndisturbedRunCharges ==
  \A r \in Applies : pc[r] = "done" /\ ~disturbed[r] => Charged(r)

=============================================================================
