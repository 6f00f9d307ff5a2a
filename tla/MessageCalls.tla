---------------------------- MODULE MessageCalls ----------------------------
(***************************************************************************)
(* Message calls of the EVM: value transfers, nested calls, creations and  *)
(* self-destructs, over accounts that checkpoints save and reverts bring   *)
(* back (WorldState).  Each interpreter keeps a copy of the account of its *)
(* contract, checks and writes through it, and takes a fresh one when a    *)
(* call it made has succeeded.                                             *)
(*                                                                         *)
(* The address of a new contract is any address, as it is for CREATE2 with *)
(* any salt.  One transaction runs; gas and storage are left out.          *)
(***************************************************************************)
EXTENDS Integers, Sequences, FiniteSets, Functions

CONSTANTS
  Addresses,  \* accounts of the ledger; the virtual zero address is not one
  Origin,     \* who signs the transactions
  Contracts,  \* accounts that have code in the ledger
  Zero,       \* the virtual zero address
  Funds,      \* balance of each account in the ledger
  Values,     \* what messages may pay
  stackLimit, \* greatest depth of a message
  MaxNonce    \* bound on the nonces of creators

ASSUME AddressAssumption ==
  /\ IsFiniteSet(Addresses) /\ Origin \in Addresses
  /\ Contracts \subseteq Addresses \ {Origin} /\ Zero \notin Addresses
ASSUME AmountAssumption ==
  Funds \in [Addresses -> Nat] /\ Values \subseteq Nat /\ 0 \in Values
ASSUME BoundAssumption == stackLimit \in Nat /\ MaxNonce \in Nat

VARIABLES
  accounts,    \* the accounts as the state object has them
  deployed,    \* addresses whose code was put in the running transaction
  frames,      \* the interpreters, the outermost first
  saved,       \* accounts and destroyed at the checkpoint of each message
  destroyed    \* history: coins that transactions have taken out of the ledger

vars == <<accounts, deployed, frames, saved, destroyed>>

Account == [balance : Nat, nonce : Nat]

Init ==
  /\ accounts = [a \in Addresses |->
       [balance |-> Funds[a], nonce |-> IF a \in Contracts THEN 1 ELSE 0]]
  /\ deployed = {}
  /\ frames = <<>>
  /\ saved = <<>>
  /\ destroyed = 0

Drop(seq) == SubSeq(seq, 1, Len(seq) - 1)
Top == frames[Len(frames)]
HasCode(a) == a \in Contracts \cup deployed

Debit(accts, a, value) == [accts EXCEPT ![a].balance = @ - value]
Credit(accts, a, value) ==
  IF a = Zero THEN accts ELSE [accts EXCEPT ![a].balance = @ + value]
Transfer(accts, from, to, value) == Credit(Debit(accts, from, value), to, value)
RaiseNonce(accts, a) == [accts EXCEPT ![a].nonce = @ + 1]

\* The interpreters once the message of the top one has succeeded.
Refreshed(callers, accts) ==
  IF callers = <<>> THEN <<>>
  ELSE [callers EXCEPT ![Len(callers)].contract = accts[callers[Len(callers)].address]]

\* The message goes on to run code at `to`.  base: the accounts at its checkpoint;
\* after: with its value paid; callers: the interpreters that wait for it.
Enter(base, after, callers, to, isStatic, creating) ==
  /\ accounts' = after
  /\ saved' = Append(saved, [accounts |-> base, destroyed |-> destroyed])
  /\ frames' = Append(callers, [address |-> to, contract |-> after[to],
                                isStatic |-> isStatic, creating |-> creating])
  /\ UNCHANGED <<deployed, destroyed>>

\* The message succeeds without code to run.
PassThrough(after, callers, to, value) ==
  /\ accounts' = after
  /\ frames' = Refreshed(callers, after)
  /\ destroyed' = destroyed + (IF to = Zero THEN value ELSE 0)
  /\ UNCHANGED <<deployed, saved>>

\* The message fails before it runs code: a revert, which forgets all code put.
FailAtOnce(base, callers) ==
  /\ accounts' = base
  /\ frames' = callers
  /\ deployed' = {}
  /\ UNCHANGED <<saved, destroyed>>

\* Slip: the sender is not asked whether it can pay.
ExecuteCallUnchecked(base, from, to, value, code, isStatic) ==
  LET after == Transfer(base, from, to, value)
  IN \/ HasCode(code) /\ Enter(base, after, frames, to, isStatic, FALSE)
     \/ ~HasCode(code) /\ PassThrough(after, frames, to, value)

\* A sender that cannot pay is an error that shows after the credit, and reverts it.
ExecuteCall(base, from, to, value, code, isStatic) ==
  LET after == Transfer(base, from, to, value)
      paid == base[from].balance >= value
  IN \/ paid /\ HasCode(code) /\ Enter(base, after, frames, to, isStatic, FALSE)
     \/ paid /\ ~HasCode(code) /\ PassThrough(after, frames, to, value)
     \/ ~paid /\ FailAtOnce(base, frames)

Collides(accts, a) == accts[a].nonce > 0 \/ a \in Contracts

\* In base and in callers the creator has its new nonce.
ExecuteCreate(base, callers, from, new, value) ==
  LET after == RaiseNonce(Transfer(base, from, new, value), new)
  IN \/ ~Collides(base, new) /\ Enter(base, after, callers, new, FALSE, TRUE)
     \/ ~Collides(base, new) /\ PassThrough(after, callers, new, value)
     \/ Collides(base, new) /\ FailAtOnce(base, callers)

-----------------------------------------------------------------------------
\* Depth 0: the nonce goes up before the checkpoint of the message.

Idle == frames = <<>> /\ accounts[Origin].nonce = 0

CallTx(to, value) ==
  /\ Idle
  /\ ExecuteCall(RaiseNonce(accounts, Origin), Origin, to, value, to, FALSE)

\* A creation that cannot be paid throws and leaves everything as it was.
CreateTx(new, value) ==
  /\ Idle
  /\ accounts[Origin].balance >= value
  /\ ExecuteCreate(RaiseNonce(accounts, Origin), frames, Origin, new, value)

-----------------------------------------------------------------------------
\* Depth 1 and more: what the code of the top interpreter does.

MayPay(value) ==
  frames # <<>> /\ Len(frames) <= stackLimit /\ Top.contract.balance >= value

Call(to, value) ==
  /\ MayPay(value)
  /\ Top.isStatic => value = 0
  /\ ExecuteCall(accounts, Top.address, to, value, to, Top.isStatic)

CallStatic(to) ==
  /\ MayPay(0)
  /\ ExecuteCall(accounts, Top.address, to, 0, to, TRUE)

CallCode(code, value) ==
  /\ MayPay(value)
  /\ ExecuteCall(accounts, Top.address, Top.address, value, code, Top.isStatic)

\* Slip: the message forgets that its caller may not write.
CallDelegateWriting(code) ==
  /\ MayPay(0)
  /\ ExecuteCall(accounts, Top.address, Top.address, 0, code, FALSE)

CallDelegate(code) ==
  /\ MayPay(0)
  /\ ExecuteCall(accounts, Top.address, Top.address, 0, code, Top.isStatic)

\* The copy of the contract's account gets the nonce, and is written.
Create(new, value) ==
  LET copy == [Top.contract EXCEPT !.nonce = @ + 1]
  IN /\ MayPay(value)
     /\ ~Top.isStatic
     /\ Top.contract.nonce < MaxNonce
     /\ ExecuteCreate([accounts EXCEPT ![Top.address] = copy],
                      [frames EXCEPT ![Len(frames)].contract = copy],
                      Top.address, new, value)

\* Slip: the caller goes on with its old copy.
PopStale(after) == accounts' = after /\ frames' = Drop(frames) /\ saved' = Drop(saved)

\* The message succeeds, with the accounts as its code has left them.
Pop(after) ==
  /\ accounts' = after
  /\ frames' = Refreshed(Drop(frames), after)
  /\ saved' = Drop(saved)

\* The code returns; what a creation returns becomes the code of the contract.
Return(code) ==
  /\ frames # <<>>
  /\ deployed' = IF code /\ Top.creating THEN deployed \cup {Top.address} ELSE deployed
  /\ Pop(accounts)
  /\ UNCHANGED destroyed

\* Slip: the balance of the contract is paid out and kept.
NotEmptied(accts, a) == accts

Emptied(accts, a) == [accts EXCEPT ![a].balance = 0]

SelfDestruct(heir) ==
  LET balance == Top.contract.balance
      paid == IF heir = Top.address THEN accounts ELSE Credit(accounts, heir, balance)
  IN /\ frames # <<>>
     /\ ~Top.isStatic
     /\ destroyed' = destroyed + (IF heir \in {Zero, Top.address} THEN balance ELSE 0)
     /\ Pop(Emptied(paid, Top.address))
     /\ UNCHANGED deployed

\* An error of the code: the message is reverted.
Fail ==
  /\ frames # <<>>
  /\ accounts' = saved[Len(saved)].accounts
  /\ destroyed' = saved[Len(saved)].destroyed
  /\ deployed' = {}
  /\ frames' = Drop(frames)
  /\ saved' = Drop(saved)

Next ==
  \/ \E to \in Addresses \cup {Zero}, value \in Values :
       CallTx(to, value) \/ Call(to, value)
  \/ \E a \in Addresses, value \in Values :
       CreateTx(a, value) \/ Create(a, value) \/ CallCode(a, value)
  \/ \E a \in Addresses : CallStatic(a) \/ CallDelegate(a)
  \/ \E heir \in Addresses \cup {Zero} : SelfDestruct(heir)
  \/ \E code \in BOOLEAN : Return(code)
  \/ Fail

Spec == Init /\ [][Next]_vars
-----------------------------------------------------------------------------
Frame == [address : Addresses, contract : Account, isStatic : BOOLEAN,
          creating : BOOLEAN]

\* Every variable keeps its type; in particular no balance is ever negative,
\* although balances are checked on the copy of the interpreter.
TypeOK ==
  /\ accounts \in [Addresses -> Account]
  /\ deployed \subseteq Addresses
  /\ frames \in Seq(Frame)
  /\ saved \in Seq([accounts : [Addresses -> Account], destroyed : Nat])
  /\ Len(saved) = Len(frames)
  /\ destroyed \in Nat

\* The copy of the running interpreter is the account as the state object has
\* it: what _baseCall, create and _selfDestruct check, pay out and write back is
\* not stale, after any calls into and out of the contract, failed or not.
ContractIsCurrent == frames # <<>> => Top.contract = accounts[Top.address]

\* Coins in the ledger.
Coins(accts) == SumFunction([a \in Addresses |-> accts[a].balance])

\* Coins are neither made nor lost by calls, creations and reverts: what is gone
\* was paid to the virtual address or by a contract that destroyed itself.
CoinsConserved == Coins(accounts) + destroyed = SumFunction(Funds)

\* Until it returns, a static call and all calls made in it leave every account
\* as they found it.
StaticCallWritesNothing ==
  \A i \in DOMAIN frames : frames[i].isStatic => accounts = saved[i].accounts
=============================================================================
