-------------------------- MODULE MessageCallsProofs --------------------------
(***************************************************************************)
(* Proofs about message calls.  A message that succeeds, fails or goes on  *)
(* to run code keeps one condition on the accounts and the interpreters    *)
(* that wait for it, Consistent; the lemmas on outcomes say so once, for   *)
(* all the operations that send messages.                                  *)
(***************************************************************************)
EXTENDS MessageCalls, FoldLemmas, SequenceTheorems, TLAPS

Accounts == [Addresses -> Account]
Saved == [accounts : Accounts, destroyed : Nat]

\* The interpreters `callers` fit the accounts `accts`: the running one has the
\* account of its contract, each of the others the one at the checkpoint of the
\* message it waits for; static calls are nested, and have written nothing.
Consistent(accts, callers) ==
  /\ callers # <<>> =>
       callers[Len(callers)].contract = accts[callers[Len(callers)].address]
  /\ \A i \in 1..(Len(callers) - 1) :
       callers[i].contract = saved[i + 1].accounts[callers[i].address]
  /\ \A i, j \in 1..Len(callers) :
       i <= j /\ callers[i].isStatic => callers[j].isStatic
  /\ \A i \in 1..Len(callers) : callers[i].isStatic => accts = saved[i].accounts

IInv == TypeOK /\ Consistent(accounts, frames)

-----------------------------------------------------------------------------
\* Operators on accounts and interpreters.

LEMMA TransferTyped ==
  ASSUME NEW accts \in Accounts, NEW from \in Addresses, NEW to \in Addresses \cup {Zero},
         NEW value \in Nat, accts[from].balance >= value
  PROVE  Transfer(accts, from, to, value) \in Accounts
<1> DEFINE debited == Debit(accts, from, value)
<1>1. debited \in Accounts
  BY DEF Debit, Accounts, Account
<1> HIDE DEF debited
<1>2. Credit(debited, to, value) \in Accounts
  BY <1>1 DEF Credit, Accounts, Account
<1> QED
  BY <1>2 DEF Transfer, debited

\* Nothing moves when nothing is paid, or when an account pays itself.
LEMMA TransferNothing ==
  ASSUME NEW accts \in Accounts, NEW from \in Addresses, NEW to \in Addresses \cup {Zero},
         NEW value \in Nat, value = 0 \/ to = from
  PROVE  Transfer(accts, from, to, value) = accts
<1> DEFINE debited == Debit(accts, from, value)
           balance == accts[from].balance
<1>1. \A a \in Addresses : accts[a] = [balance |-> accts[a].balance, nonce |-> accts[a].nonce]
  BY DEF Accounts, Account
<1>2. accts \in [Addresses -> Account] /\ debited \in [Addresses -> [balance : Int, nonce : Nat]]
  BY DEF Debit, Accounts, Account
<1>3. \A a \in Addresses : debited[a] =
        [balance |-> IF a = from THEN balance - value ELSE accts[a].balance,
         nonce |-> accts[a].nonce]
  BY <1>1, <1>2 DEF Debit
<1> HIDE DEF debited
<1>4. CASE to = Zero
  <2>1. value = 0
    BY <1>4, AddressAssumption
  <2>2. \A a \in Addresses : debited[a] = accts[a]
    BY <1>1, <1>2, <1>3, <2>1 DEF Account
  <2> QED
    BY <1>2, <1>4, <2>2 DEF Transfer, Credit, debited
<1>5. CASE to # Zero
  <2>1. \A a \in Addresses : Credit(debited, to, value)[a] =
          [balance |-> IF a = to THEN debited[a].balance + value ELSE debited[a].balance,
           nonce |-> debited[a].nonce]
    BY <1>2, <1>3, <1>5 DEF Credit
  <2>2. \A a \in Addresses : Credit(debited, to, value)[a] = accts[a]
    BY <1>1, <1>2, <1>3, <2>1 DEF Account
  <2> QED
    BY <1>2, <1>5, <2>2 DEF Transfer, Credit, debited
<1> QED
  BY <1>4, <1>5

LEMMA RaiseNonceTyped ==
  ASSUME NEW accts \in Accounts, NEW a \in Addresses
  PROVE  RaiseNonce(accts, a) \in Accounts
BY DEF RaiseNonce, Accounts, Account

LEMMA EmptiedTyped ==
  ASSUME NEW accts \in Accounts, NEW a \in Addresses
  PROVE  Emptied(accts, a) \in Accounts
BY DEF Emptied, Accounts, Account

LEMMA CreditTyped ==
  ASSUME NEW accts \in Accounts, NEW a \in Addresses \cup {Zero}, NEW value \in Nat
  PROVE  Credit(accts, a, value) \in Accounts
BY DEF Credit, Accounts, Account

LEMMA DropSeq ==
  ASSUME NEW S, NEW seq \in Seq(S), seq # <<>>
  PROVE  /\ Drop(seq) \in Seq(S) /\ Len(Drop(seq)) = Len(seq) - 1
         /\ \A i \in 1..(Len(seq) - 1) : Drop(seq)[i] = seq[i]
<1> DEFINE n == Len(seq)
           rest == SubSeq(seq, 1, n - 1)
<1>1. n \in Nat \ {0} /\ 1 \in Int /\ n - 1 \in Int
  OBVIOUS
<1>2. \A i \in 1..(n - 1) : seq[i] \in S
  OBVIOUS
<1> HIDE DEF n
<1>3. /\ rest \in Seq(S)
      /\ Len(rest) = IF 1 <= n - 1 THEN n - 1 - 1 + 1 ELSE 0
      /\ \A i \in 1..(n - 1 - 1 + 1) : rest[i] = seq[1 + i - 1]
  BY <1>1, <1>2, SubSeqProperties
<1> HIDE DEF rest
<1>4. rest \in Seq(S) /\ Len(rest) = n - 1 /\ \A i \in 1..(n - 1) : rest[i] = seq[i]
  BY <1>1, <1>3
<1> QED
  BY <1>4 DEF Drop, rest, n

\* Only the last interpreter is refreshed, and only its copy of the account.
LEMMA RefreshedSeq ==
  ASSUME NEW callers \in Seq(Frame), NEW accts \in Accounts
  PROVE  /\ Refreshed(callers, accts) \in Seq(Frame)
         /\ Len(Refreshed(callers, accts)) = Len(callers)
         /\ \A i \in 1..Len(callers) :
              /\ Refreshed(callers, accts)[i].isStatic = callers[i].isStatic
              /\ Refreshed(callers, accts)[i].address = callers[i].address
         /\ \A i \in 1..(Len(callers) - 1) : Refreshed(callers, accts)[i] = callers[i]
         /\ callers # <<>> => Refreshed(callers, accts)[Len(callers)].contract
                                = accts[callers[Len(callers)].address]
<1>1. CASE callers = <<>>
  BY <1>1 DEF Refreshed
<1>2. CASE callers # <<>>
  <2> DEFINE n == Len(callers)
             last == [callers[n] EXCEPT !.contract = accts[callers[n].address]]
  <2>1. n \in Nat \ {0} /\ n \in 1..Len(callers)
    BY <1>2
  <2>2. callers[n] \in Frame
    BY <2>1
  <2>3. last \in Frame /\ last.isStatic = callers[n].isStatic
        /\ last.address = callers[n].address /\ last.contract = accts[callers[n].address]
    BY <2>2 DEF Frame, Accounts
  <2>4. Refreshed(callers, accts) = [callers EXCEPT ![n] = last]
    BY <1>2 DEF Refreshed
  <2> HIDE DEF last
  <2>5. /\ [callers EXCEPT ![n] = last] \in Seq(Frame)
        /\ Len([callers EXCEPT ![n] = last]) = n
        /\ [callers EXCEPT ![n] = last][n] = last
        /\ \A i \in 1..n : i # n => [callers EXCEPT ![n] = last][i] = callers[i]
    BY <2>1, <2>3
  <2> QED
    BY <2>1, <2>3, <2>4, <2>5
<1> QED
  BY <1>1, <1>2

-----------------------------------------------------------------------------
\* The outcomes of a message.

\* A message that goes on to run code: if it may not write, it has not paid.
LEMMA EnterKeeps ==
  ASSUME TypeOK, NEW base \in Accounts, NEW after \in Accounts, NEW callers \in Seq(Frame),
         Len(callers) = Len(frames), Consistent(base, callers),
         NEW to \in Addresses, NEW isStatic \in BOOLEAN, NEW creating \in BOOLEAN,
         Enter(base, after, callers, to, isStatic, creating),
         callers # <<>> /\ callers[Len(callers)].isStatic => isStatic,
         isStatic => after = base
  PROVE  /\ frames' \in Seq(Frame) /\ saved' \in Seq(Saved) /\ Len(saved') = Len(frames')
         /\ accounts' \in Accounts
         /\ Consistent(accounts, frames)'
<1> DEFINE n == Len(callers)
           new == [address |-> to, contract |-> after[to],
                   isStatic |-> isStatic, creating |-> creating]
           point == [accounts |-> base, destroyed |-> destroyed]
<1>1. new \in Frame /\ point \in Saved
  BY DEF Frame, Accounts, Saved, TypeOK
<1>2. /\ new.address = to /\ new.contract = after[to] /\ new.isStatic = isStatic
      /\ point.accounts = base
  OBVIOUS
<1>3. accounts' = after /\ frames' = Append(callers, new) /\ saved' = Append(saved, point)
  BY DEF Enter
<1>4. n \in Nat /\ saved \in Seq(Saved) /\ Len(saved) = n
  BY DEF TypeOK, Saved, Accounts
<1> HIDE DEF new, point
<1>5. /\ frames' \in Seq(Frame) /\ Len(frames') = n + 1 /\ frames'[n + 1] = new
      /\ \A i \in 1..n : frames'[i] = callers[i]
  BY <1>1, <1>3, <1>4
<1>6. /\ saved' \in Seq(Saved) /\ Len(saved') = n + 1 /\ saved'[n + 1] = point
      /\ \A i \in 1..n : saved'[i] = saved[i]
  BY <1>1, <1>3, <1>4
<1>7. frames'[n + 1].contract = accounts'[frames'[n + 1].address]
  BY <1>2, <1>3, <1>5
<1>8. ASSUME NEW i \in 1..n
      PROVE  frames'[i].contract = saved'[i + 1].accounts[frames'[i].address]
  <2>1. CASE i = n
    BY <1>2, <1>4, <1>5, <1>6, <2>1 DEF Consistent
  <2>2. CASE i \in 1..(n - 1)
    BY <1>4, <1>5, <1>6, <2>2 DEF Consistent
  <2> QED
    BY <1>4, <2>1, <2>2
<1>9. ASSUME NEW i \in 1..(n + 1), NEW j \in 1..(n + 1), i <= j, frames'[i].isStatic
      PROVE  frames'[j].isStatic
  <2>1. CASE j \in 1..n
    BY <1>4, <1>5, <1>9, <2>1 DEF Consistent
  <2>2. CASE j = n + 1 /\ i \in 1..n
    <3>1. callers[i].isStatic /\ n \in 1..n
      BY <1>4, <1>5, <1>9, <2>2
    <3>2. callers[n].isStatic
      BY <1>4, <3>1, <2>2 DEF Consistent
    <3>3. callers # <<>>
      BY <3>1
    <3> QED
      BY <1>2, <1>5, <2>2, <3>2, <3>3
  <2>3. CASE j = n + 1 /\ i = n + 1
    BY <1>9, <2>3
  <2> QED
    BY <1>4, <2>1, <2>2, <2>3
<1>10. ASSUME NEW i \in 1..(n + 1), frames'[i].isStatic
       PROVE  accounts' = saved'[i].accounts
  <2>1. frames'[n + 1].isStatic
    BY <1>4, <1>9, <1>10
  <2>2. after = base
    BY <1>2, <1>5, <2>1
  <2>3. CASE i = n + 1
    BY <1>2, <1>3, <1>6, <2>2, <2>3
  <2>4. CASE i \in 1..n
    BY <1>3, <1>4, <1>5, <1>6, <1>10, <2>2, <2>4 DEF Consistent
  <2> QED
    BY <1>4, <2>3, <2>4
<1> QED
  BY <1>3, <1>4, <1>5, <1>6, <1>7, <1>8, <1>9, <1>10 DEF Consistent

\* The interpreters that wait for a message that has succeeded, with the accounts
\* `after`, are refreshed; under a static call the accounts are as before.
LEMMA RefreshedConsistent ==
  ASSUME NEW base \in Accounts, NEW after \in Accounts, NEW callers \in Seq(Frame),
         Consistent(base, callers),
         callers # <<>> /\ callers[Len(callers)].isStatic => after = base
  PROVE  Consistent(after, Refreshed(callers, after))
<1> DEFINE n == Len(callers)
           refreshed == Refreshed(callers, after)
<1>1. n \in Nat
  OBVIOUS
<1>2. /\ refreshed \in Seq(Frame) /\ Len(refreshed) = n
      /\ \A i \in 1..n : /\ refreshed[i].isStatic = callers[i].isStatic
                         /\ refreshed[i].address = callers[i].address
      /\ \A i \in 1..(n - 1) : refreshed[i] = callers[i]
      /\ callers # <<>> => refreshed[n].contract = after[callers[n].address]
  BY RefreshedSeq
<1> HIDE DEF refreshed
<1>3. refreshed # <<>> => refreshed[n].contract = after[refreshed[n].address]
  BY <1>1, <1>2
<1>4. \A i \in 1..(n - 1) :
        refreshed[i].contract = saved[i + 1].accounts[refreshed[i].address]
  BY <1>1, <1>2 DEF Consistent
<1>5. \A i, j \in 1..n : i <= j /\ refreshed[i].isStatic => refreshed[j].isStatic
  BY <1>1, <1>2 DEF Consistent
<1>6. ASSUME NEW i \in 1..n, refreshed[i].isStatic PROVE after = saved[i].accounts
  <2>1. callers[i].isStatic /\ n \in 1..n /\ callers # <<>>
    BY <1>1, <1>2, <1>6
  <2>2. callers[n].isStatic
    BY <1>1, <2>1 DEF Consistent
  <2> QED
    BY <2>1, <2>2 DEF Consistent
<1>7. Consistent(after, refreshed)
  BY <1>2, <1>3, <1>4, <1>5, <1>6 DEF Consistent
<1> QED
  BY <1>7 DEF refreshed

LEMMA PassThroughKeeps ==
  ASSUME TypeOK, NEW base \in Accounts, NEW after \in Accounts, NEW callers \in Seq(Frame),
         Len(callers) = Len(frames), Consistent(base, callers),
         NEW to \in Addresses \cup {Zero}, NEW value \in Nat,
         PassThrough(after, callers, to, value),
         callers # <<>> /\ callers[Len(callers)].isStatic => after = base
  PROVE  /\ frames' \in Seq(Frame) /\ saved' \in Seq(Saved) /\ Len(saved') = Len(frames')
         /\ accounts' \in Accounts
         /\ Consistent(accounts, frames)'
<1>1. accounts' = after /\ frames' = Refreshed(callers, after) /\ saved' = saved
  BY DEF PassThrough
<1>2. Consistent(after, Refreshed(callers, after))
  BY RefreshedConsistent
<1>3. Consistent(accounts, frames)'
  BY <1>1, <1>2 DEF Consistent
<1>4. frames' \in Seq(Frame) /\ Len(frames') = Len(callers)
  BY <1>1, RefreshedSeq
<1> QED
  BY <1>1, <1>3, <1>4 DEF TypeOK, Saved, Accounts

LEMMA FailAtOnceKeeps ==
  ASSUME TypeOK, NEW base \in Accounts, NEW callers \in Seq(Frame),
         Len(callers) = Len(frames), Consistent(base, callers), FailAtOnce(base, callers)
  PROVE  /\ frames' \in Seq(Frame) /\ saved' \in Seq(Saved) /\ Len(saved') = Len(frames')
         /\ accounts' \in Accounts
         /\ Consistent(accounts, frames)'
<1>1. accounts' = base /\ frames' = callers /\ saved' = saved
  BY DEF FailAtOnce
<1>2. Consistent(accounts, frames)'
  BY <1>1 DEF Consistent
<1> QED
  BY <1>1, <1>2 DEF TypeOK, Saved, Accounts

\* The interpreters below the running one fit the accounts at its checkpoint, and
\* once they are refreshed the accounts it leaves.
LEMMA CallersConsistent ==
  ASSUME TypeOK, Consistent(accounts, frames), frames # <<>>
  PROVE  /\ saved[Len(frames)].accounts \in Accounts
         /\ Drop(frames) \in Seq(Frame) /\ Drop(saved) \in Seq(Saved)
         /\ Len(Drop(frames)) = Len(frames) - 1 /\ Len(Drop(saved)) = Len(frames) - 1
         /\ \A i \in 1..(Len(frames) - 1) : Drop(saved)[i] = saved[i]
         /\ Consistent(saved[Len(frames)].accounts, Drop(frames))
<1> DEFINE n == Len(frames)
           point == saved[n].accounts
<1>1. /\ n \in Nat \ {0} /\ n \in 1..n /\ frames \in Seq(Frame)
      /\ saved \in Seq(Saved) /\ Len(saved) = n /\ saved # <<>>
  BY DEF TypeOK, Saved, Accounts
<1>2. point \in Accounts
  <2>1. saved[n] \in Saved
    BY <1>1
  <2> QED
    BY <2>1 DEF Saved
<1>3. /\ Drop(frames) \in Seq(Frame) /\ Len(Drop(frames)) = n - 1
      /\ \A i \in 1..(n - 1) : Drop(frames)[i] = frames[i]
  BY <1>1, DropSeq
<1>4. /\ Drop(saved) \in Seq(Saved) /\ Len(Drop(saved)) = n - 1
      /\ \A i \in 1..(n - 1) : Drop(saved)[i] = saved[i]
  BY <1>1, DropSeq
<1>5. Drop(frames) # <<>> => Drop(frames)[n - 1].contract = point[Drop(frames)[n - 1].address]
  <2> SUFFICES ASSUME Drop(frames) # <<>>
               PROVE  Drop(frames)[n - 1].contract = point[Drop(frames)[n - 1].address]
    OBVIOUS
  <2>1. n - 1 \in 1..(n - 1)
    BY <1>1, <1>3
  <2> QED
    BY <1>1, <1>3, <2>1 DEF Consistent
<1>6. \A i \in 1..(n - 2) :
        Drop(frames)[i].contract = saved[i + 1].accounts[Drop(frames)[i].address]
  BY <1>1, <1>3 DEF Consistent
<1>7. \A i, j \in 1..(n - 1) :
        i <= j /\ Drop(frames)[i].isStatic => Drop(frames)[j].isStatic
  BY <1>1, <1>3 DEF Consistent
<1>8. ASSUME NEW i \in 1..(n - 1), Drop(frames)[i].isStatic PROVE point = saved[i].accounts
  <2>1. frames[i].isStatic /\ i \in 1..n
    BY <1>1, <1>3, <1>8
  <2>2. frames[n].isStatic
    BY <1>1, <2>1 DEF Consistent
  <2>3. accounts = saved[i].accounts /\ accounts = point
    BY <1>1, <2>1, <2>2 DEF Consistent
  <2> QED
    BY <2>3
<1>9. Consistent(point, Drop(frames))
  BY <1>1, <1>3, <1>5, <1>6, <1>7, <1>8 DEF Consistent
<1> QED
  BY <1>2, <1>3, <1>4, <1>9

\* The same interpreters fit when the last checkpoint has been dropped.
LEMMA DroppedConsistent ==
  ASSUME TypeOK, frames # <<>>, NEW accts \in Accounts, NEW callers \in Seq(Frame),
         Len(callers) = Len(frames) - 1, Consistent(accts, callers),
         accounts' = accts, frames' = callers, saved' = Drop(saved),
         \A i \in 1..(Len(frames) - 1) : Drop(saved)[i] = saved[i]
  PROVE  Consistent(accounts, frames)'
<1> DEFINE n == Len(frames)
<1>1. n \in Nat \ {0} /\ Len(callers) = n - 1
  BY DEF TypeOK
<1>2. \A i \in 1..(n - 1) : saved'[i] = saved[i]
  OBVIOUS
<1> HIDE DEF n
<1>3. \A i \in 1..(Len(callers) - 1) : saved'[i + 1] = saved[i + 1]
  BY <1>1, <1>2
<1>4. \A i \in 1..Len(callers) : saved'[i] = saved[i]
  BY <1>1, <1>2
<1> QED
  BY <1>3, <1>4 DEF Consistent

LEMMA PopKeeps ==
  ASSUME TypeOK, Consistent(accounts, frames), frames # <<>>, NEW after \in Accounts,
         Top.isStatic => after = accounts, Pop(after)
  PROVE  /\ frames' \in Seq(Frame) /\ saved' \in Seq(Saved) /\ Len(saved') = Len(frames')
         /\ accounts' \in Accounts
         /\ Consistent(accounts, frames)'
<1> DEFINE n == Len(frames)
           callers == Drop(frames)
           point == saved[n].accounts
           refreshed == Refreshed(callers, after)
<1>1. n \in Nat \ {0} /\ n \in 1..n /\ frames \in Seq(Frame)
  BY DEF TypeOK
<1>2. /\ point \in Accounts
      /\ callers \in Seq(Frame) /\ Drop(saved) \in Seq(Saved)
      /\ Len(callers) = n - 1 /\ Len(Drop(saved)) = n - 1
      /\ \A i \in 1..(n - 1) : Drop(saved)[i] = saved[i]
      /\ Consistent(point, callers)
  BY CallersConsistent
<1>3. \A i \in 1..(n - 1) : callers[i] = frames[i]
  BY <1>1, DropSeq
<1>4. ASSUME callers # <<>>, callers[Len(callers)].isStatic PROVE after = point
  <2>1. n - 1 \in 1..n /\ frames[n - 1].isStatic
    BY <1>1, <1>2, <1>3, <1>4
  <2>2. frames[n].isStatic
    BY <1>1, <2>1 DEF Consistent
  <2>3. accounts = point
    BY <1>1, <2>2 DEF Consistent
  <2> QED
    BY <2>2, <2>3 DEF Top
<1> HIDE DEF callers, point
<1>5. Consistent(after, refreshed)
  BY <1>2, <1>4, RefreshedConsistent
<1>6. refreshed \in Seq(Frame) /\ Len(refreshed) = n - 1
  BY <1>2, RefreshedSeq
<1>7. accounts' = after /\ frames' = refreshed /\ saved' = Drop(saved)
  BY DEF Pop, callers
<1> HIDE DEF refreshed
<1>8. Consistent(accounts, frames)'
  BY <1>2, <1>5, <1>6, <1>7, DroppedConsistent
<1> QED
  BY <1>2, <1>6, <1>7, <1>8

-----------------------------------------------------------------------------
\* The operations.

\* What a call does, whoever sends it: a call that may not write pays nothing, or
\* pays its own sender.
LEMMA ExecuteCallKeeps ==
  ASSUME TypeOK, NEW base \in Accounts, Consistent(base, frames),
         NEW from \in Addresses, NEW to \in Addresses \cup {Zero}, NEW value \in Nat,
         NEW code \in Addresses \cup {Zero}, code = to \/ to \in Addresses,
         NEW isStatic \in BOOLEAN,
         frames # <<>> /\ Top.isStatic => isStatic,
         isStatic => value = 0 \/ to = from,
         ExecuteCall(base, from, to, value, code, isStatic)
  PROVE  IInv'
<1> DEFINE after == Transfer(base, from, to, value)
<1>2. isStatic => after = base
  BY TransferNothing
<1>3. frames \in Seq(Frame) /\ frames # <<>> => frames[Len(frames)] = Top
  BY DEF TypeOK, Top
<1>4. base[from].balance >= value => after \in Accounts
  BY TransferTyped
<1>5. HasCode(code) => to \in Addresses
  BY AddressAssumption DEF HasCode, TypeOK
<1> HIDE DEF after
<1>6. CASE /\ base[from].balance >= value /\ HasCode(code)
           /\ Enter(base, after, frames, to, isStatic, FALSE)
  <2>1. deployed' \subseteq Addresses /\ destroyed' \in Nat
    BY <1>6 DEF Enter, TypeOK
  <2>2. frames \in Seq(Frame) /\ after \in Accounts /\ to \in Addresses
    BY <1>4, <1>5, <1>6 DEF TypeOK
  <2>3. /\ frames' \in Seq(Frame) /\ saved' \in Seq(Saved) /\ Len(saved') = Len(frames')
        /\ accounts' \in Accounts
        /\ Consistent(accounts, frames)'
    BY <1>2, <1>6, <2>2, EnterKeeps DEF Top
  <2> QED
    BY <2>1, <2>3 DEF IInv, TypeOK, Saved, Accounts
<1>7. CASE base[from].balance >= value /\ PassThrough(after, frames, to, value)
  <2>1. deployed' \subseteq Addresses /\ destroyed' \in Nat
    BY <1>7 DEF PassThrough, TypeOK
  <2>2. frames \in Seq(Frame) /\ after \in Accounts
    BY <1>4, <1>7 DEF TypeOK
  <2>3. /\ frames' \in Seq(Frame) /\ saved' \in Seq(Saved) /\ Len(saved') = Len(frames')
        /\ accounts' \in Accounts
        /\ Consistent(accounts, frames)'
    BY <1>2, <1>7, <2>2, PassThroughKeeps DEF Top
  <2> QED
    BY <2>1, <2>3 DEF IInv, TypeOK, Saved, Accounts
<1>8. CASE FailAtOnce(base, frames)
  <2>1. deployed' \subseteq Addresses /\ destroyed' \in Nat
    BY <1>8 DEF FailAtOnce, TypeOK
  <2>2. frames \in Seq(Frame)
    BY DEF TypeOK
  <2>3. /\ frames' \in Seq(Frame) /\ saved' \in Seq(Saved) /\ Len(saved') = Len(frames')
        /\ accounts' \in Accounts
        /\ Consistent(accounts, frames)'
    BY <1>8, <2>2, FailAtOnceKeeps
  <2> QED
    BY <2>1, <2>3 DEF IInv, TypeOK, Saved, Accounts
<1> QED
  BY <1>6, <1>7, <1>8 DEF ExecuteCall, after

\* What a creation does, whoever sends it; its sender may write and can pay.
LEMMA ExecuteCreateKeeps ==
  ASSUME TypeOK, NEW base \in Accounts, NEW callers \in Seq(Frame),
         Len(callers) = Len(frames), Consistent(base, callers),
         NEW from \in Addresses, NEW new \in Addresses, NEW value \in Nat,
         base[from].balance >= value,
         callers # <<>> => ~callers[Len(callers)].isStatic,
         ExecuteCreate(base, callers, from, new, value)
  PROVE  IInv'
<1> DEFINE after == RaiseNonce(Transfer(base, from, new, value), new)
<1>1. after \in Accounts
  BY TransferTyped, RaiseNonceTyped
<1> HIDE DEF after
<1>3. CASE Enter(base, after, callers, new, FALSE, TRUE)
  <2>1. deployed' \subseteq Addresses /\ destroyed' \in Nat
    BY <1>3 DEF Enter, TypeOK
  <2>2. /\ frames' \in Seq(Frame) /\ saved' \in Seq(Saved) /\ Len(saved') = Len(frames')
        /\ accounts' \in Accounts
        /\ Consistent(accounts, frames)'
    BY <1>1, <1>3, EnterKeeps
  <2> QED
    BY <2>1, <2>2 DEF IInv, TypeOK, Saved, Accounts
<1>4. CASE PassThrough(after, callers, new, value)
  <2>1. deployed' \subseteq Addresses /\ destroyed' \in Nat
    BY <1>4 DEF PassThrough, TypeOK
  <2>2. /\ frames' \in Seq(Frame) /\ saved' \in Seq(Saved) /\ Len(saved') = Len(frames')
        /\ accounts' \in Accounts
        /\ Consistent(accounts, frames)'
    BY <1>1, <1>4, PassThroughKeeps
  <2> QED
    BY <2>1, <2>2 DEF IInv, TypeOK, Saved, Accounts
<1>5. CASE FailAtOnce(base, callers)
  <2>1. deployed' \subseteq Addresses /\ destroyed' \in Nat
    BY <1>5 DEF FailAtOnce, TypeOK
  <2>2. /\ frames' \in Seq(Frame) /\ saved' \in Seq(Saved) /\ Len(saved') = Len(frames')
        /\ accounts' \in Accounts
        /\ Consistent(accounts, frames)'
    BY <1>5, FailAtOnceKeeps
  <2> QED
    BY <2>1, <2>2 DEF IInv, TypeOK, Saved, Accounts
<1> QED
  BY <1>3, <1>4, <1>5 DEF ExecuteCreate, after

\* The running interpreter: its account, which may pay what its copy may.
LEMMA TopTyped ==
  ASSUME IInv, frames # <<>>
  PROVE  /\ Top \in Frame /\ Top.address \in Addresses /\ Top.isStatic \in BOOLEAN
         /\ Top.contract = accounts[Top.address]
         /\ Top.contract \in Account
         /\ accounts \in Accounts
         /\ Consistent(accounts, frames)
<1>1. Len(frames) \in 1..Len(frames) /\ frames \in Seq(Frame)
  BY DEF IInv, TypeOK
<1>2. Top \in Frame
  BY <1>1 DEF Top
<1> QED
  BY <1>2 DEF IInv, TypeOK, Consistent, Top, Frame, Accounts

\* The four kinds of calls that code sends.
LEMMA CallsKeep ==
  ASSUME IInv, NEW a \in Addresses, NEW to \in Addresses \cup {Zero}, NEW value \in Values,
         Call(to, value) \/ CallStatic(a) \/ CallCode(a, value) \/ CallDelegate(a)
  PROVE  IInv'
<1>1. value \in Nat /\ 0 \in Nat /\ frames # <<>>
  BY AmountAssumption DEF Call, CallStatic, CallCode, CallDelegate, MayPay
<1>2. /\ Top.address \in Addresses /\ Top.isStatic \in BOOLEAN
      /\ accounts \in Accounts /\ Consistent(accounts, frames) /\ TypeOK
  BY <1>1, TopTyped DEF IInv
<1>3. CASE Call(to, value)
  <2>1. Top.isStatic => value = 0
    BY <1>3 DEF Call
  <2>2. ExecuteCall(accounts, Top.address, to, value, to, Top.isStatic)
    BY <1>3 DEF Call
  <2> QED
    BY <1>1, <1>2, <2>1, <2>2, ExecuteCallKeeps
<1>4. CASE CallStatic(a)
  <2>1. ExecuteCall(accounts, Top.address, a, 0, a, TRUE)
    BY <1>4 DEF CallStatic
  <2> QED
    BY <1>1, <1>2, <2>1, ExecuteCallKeeps
<1>5. CASE CallCode(a, value)
  <2>1. ExecuteCall(accounts, Top.address, Top.address, value, a, Top.isStatic)
    BY <1>5 DEF CallCode
  <2> QED
    BY <1>1, <1>2, <2>1, ExecuteCallKeeps
<1>6. CASE CallDelegate(a)
  <2>1. ExecuteCall(accounts, Top.address, Top.address, 0, a, Top.isStatic)
    BY <1>6 DEF CallDelegate
  <2> QED
    BY <1>1, <1>2, <2>1, ExecuteCallKeeps
<1> QED
  BY <1>3, <1>4, <1>5, <1>6

\* With no interpreter anything is consistent.
LEMMA NoneConsistent ==
  ASSUME NEW accts, frames = <<>>
  PROVE  Consistent(accts, frames)
BY DEF Consistent

\* The two kinds of transactions.
LEMMA TransactionsKeep ==
  ASSUME IInv, NEW a \in Addresses, NEW to \in Addresses \cup {Zero}, NEW value \in Values,
         CallTx(to, value) \/ CreateTx(a, value)
  PROVE  IInv'
<1> DEFINE base == RaiseNonce(accounts, Origin)
<1>1. /\ frames = <<>> /\ frames \in Seq(Frame) /\ value \in Nat
      /\ Origin \in Addresses /\ TypeOK
  BY AddressAssumption, AmountAssumption DEF CallTx, CreateTx, Idle, IInv, TypeOK
<1>2. accounts \in Accounts
  BY DEF IInv, TypeOK, Accounts
<1>3. base \in Accounts /\ base[Origin].balance = accounts[Origin].balance
  <2>1. base \in Accounts
    BY <1>1, <1>2, RaiseNonceTyped
  <2> QED
    BY <1>1, <1>2, <2>1 DEF RaiseNonce, Accounts, Account
<1> HIDE DEF base
<1>4. Consistent(base, frames)
  BY <1>1, NoneConsistent
<1>5. CASE CallTx(to, value)
  <2>1. ExecuteCall(base, Origin, to, value, to, FALSE)
    BY <1>5 DEF CallTx, base
  <2> QED
    BY <1>1, <1>3, <1>4, <2>1, ExecuteCallKeeps
<1>6. CASE CreateTx(a, value)
  <2>1. /\ ExecuteCreate(base, frames, Origin, a, value)
        /\ base[Origin].balance >= value
    BY <1>3, <1>6 DEF CreateTx, base
  <2> QED
    BY <1>1, <1>3, <1>4, <2>1, ExecuteCreateKeeps
<1> QED
  BY <1>5, <1>6

\* A creation by code: the copy of the creator's account is raised and written.
LEMMA CreateKeeps ==
  ASSUME IInv, NEW new \in Addresses, NEW value \in Values, Create(new, value)
  PROVE  IInv'
<1> DEFINE n == Len(frames)
           copy == [Top.contract EXCEPT !.nonce = @ + 1]
           last == [Top EXCEPT !.contract = copy]
           base == [accounts EXCEPT ![Top.address] = copy]
           callers == [frames EXCEPT ![n].contract = copy]
<1>1. /\ frames # <<>> /\ frames \in Seq(Frame) /\ value \in Nat /\ ~Top.isStatic /\ TypeOK
      /\ Top.contract.balance >= value
  BY AmountAssumption DEF Create, MayPay, IInv, TypeOK
<1>2. /\ Top \in Frame /\ Top.address \in Addresses
      /\ Top.contract = accounts[Top.address] /\ Top.contract \in Account
      /\ accounts \in Accounts /\ Consistent(accounts, frames)
  BY <1>1, TopTyped
<1>3. n \in Nat \ {0} /\ n \in 1..n /\ frames[n] = Top
  BY <1>1 DEF Top
<1>4. copy \in Account /\ copy.balance = Top.contract.balance
  BY <1>2 DEF Account
<1>5. ExecuteCreate(base, callers, Top.address, new, value)
  BY DEF Create
<1>6. callers = [frames EXCEPT ![n] = last]
  BY <1>1, <1>3
<1> HIDE DEF copy, callers
<1>7. /\ last \in Frame /\ last.contract = copy /\ last.address = Top.address
      /\ last.isStatic = Top.isStatic
  BY <1>2, <1>4 DEF Frame
<1>8. /\ base \in Accounts /\ base[Top.address] = copy
  BY <1>2, <1>4 DEF Accounts
<1> HIDE DEF last, base
<1>9. /\ callers \in Seq(Frame) /\ Len(callers) = n /\ callers[n] = last
      /\ \A i \in 1..n : i # n => callers[i] = frames[i]
      /\ \A i \in 1..n : callers[i].isStatic = frames[i].isStatic
  BY <1>1, <1>3, <1>6, <1>7
<1>10. \A i \in 1..n : ~frames[i].isStatic
  BY <1>1, <1>2, <1>3 DEF Consistent
<1>11. \A i \in 1..(n - 1) :
         callers[i].contract = saved[i + 1].accounts[callers[i].address]
  BY <1>2, <1>3, <1>9 DEF Consistent
<1>12. Consistent(base, callers)
  BY <1>3, <1>7, <1>8, <1>9, <1>10, <1>11 DEF Consistent
<1>13. base[Top.address].balance >= value /\ ~callers[Len(callers)].isStatic
  BY <1>1, <1>4, <1>7, <1>8, <1>9
<1> QED
  BY <1>1, <1>2, <1>5, <1>8, <1>9, <1>12, <1>13, ExecuteCreateKeeps

\* The ways in which the running code ends well.
LEMMA EndsKeep ==
  ASSUME IInv, NEW heir \in Addresses \cup {Zero}, NEW code \in BOOLEAN,
         Return(code) \/ SelfDestruct(heir)
  PROVE  IInv'
<1>1. frames # <<>> /\ TypeOK
  BY DEF Return, SelfDestruct, IInv
<1>2. /\ Top.address \in Addresses /\ Top.contract \in Account
      /\ accounts \in Accounts /\ Consistent(accounts, frames)
  BY <1>1, TopTyped
<1>3. CASE Return(code)
  <2>1. Pop(accounts)
    BY <1>3 DEF Return
  <2>2. /\ frames' \in Seq(Frame) /\ saved' \in Seq(Saved) /\ Len(saved') = Len(frames')
        /\ accounts' \in Accounts
        /\ Consistent(accounts, frames)'
    BY <1>1, <1>2, <2>1, PopKeeps
  <2>3. deployed' \subseteq Addresses /\ destroyed' \in Nat
    BY <1>1, <1>2, <1>3 DEF Return, TypeOK
  <2> QED
    BY <2>2, <2>3 DEF IInv, TypeOK, Saved, Accounts
<1>4. CASE SelfDestruct(heir)
  <2> DEFINE balance == Top.contract.balance
             paid == IF heir = Top.address THEN accounts ELSE Credit(accounts, heir, balance)
             after == Emptied(paid, Top.address)
  <2>1. balance \in Nat
    BY <1>2 DEF Account
  <2>2. paid \in Accounts
    BY <1>2, <2>1, CreditTyped
  <2>3. after \in Accounts
    BY <1>2, <2>2, EmptiedTyped
  <2>4. Pop(after) /\ ~Top.isStatic
    BY <1>4 DEF SelfDestruct
  <2>5. deployed' \subseteq Addresses /\ destroyed' \in Nat
    BY <1>1, <1>4, <2>1 DEF SelfDestruct, TypeOK
  <2> HIDE DEF after
  <2>6. /\ frames' \in Seq(Frame) /\ saved' \in Seq(Saved) /\ Len(saved') = Len(frames')
        /\ accounts' \in Accounts
        /\ Consistent(accounts, frames)'
    BY <1>1, <1>2, <2>3, <2>4, PopKeeps
  <2> QED
    BY <2>5, <2>6 DEF IInv, TypeOK, Saved, Accounts
<1> QED
  BY <1>3, <1>4

LEMMA FailKeeps ==
  ASSUME IInv, Fail
  PROVE  IInv'
<1> DEFINE point == saved[Len(frames)].accounts
           callers == Drop(frames)
<1>1. frames # <<>> /\ TypeOK /\ Consistent(accounts, frames) /\ Len(saved) = Len(frames)
  BY DEF Fail, IInv, TypeOK
<1>2. /\ point \in Accounts /\ callers \in Seq(Frame) /\ Drop(saved) \in Seq(Saved)
      /\ Len(callers) = Len(frames) - 1 /\ Len(Drop(saved)) = Len(frames) - 1
      /\ \A i \in 1..(Len(frames) - 1) : Drop(saved)[i] = saved[i]
      /\ Consistent(point, callers)
  BY <1>1, CallersConsistent
<1>3. accounts' = point /\ frames' = callers /\ saved' = Drop(saved)
  BY <1>1 DEF Fail
<1>4. destroyed' \in Nat /\ deployed' \subseteq Addresses
  <2>1. saved \in Seq(Saved) /\ Len(saved) \in 1..Len(saved)
    BY <1>1 DEF TypeOK, Saved, Accounts
  <2>2. saved[Len(saved)] \in Saved
    BY <2>1
  <2> QED
    BY <1>1, <2>2 DEF Fail, Saved, TypeOK
<1> HIDE DEF point, callers
<1>5. Consistent(accounts, frames)'
  BY <1>1, <1>2, <1>3, DroppedConsistent
<1> QED
  BY <1>2, <1>3, <1>4, <1>5 DEF IInv, TypeOK, Saved, Accounts

-----------------------------------------------------------------------------
\* In every reachable state the interpreters fit the accounts and the checkpoints,
\* for any accounts, amounts and depth.
THEOREM InductiveInvariant == Spec => []IInv
<1>1. Init => IInv
  <2> SUFFICES ASSUME Init PROVE IInv
    OBVIOUS
  <2>1. accounts \in [Addresses -> Account]
    BY AmountAssumption DEF Init, Account
  <2>2. frames = <<>> /\ saved = <<>>
    BY DEF Init
  <2>3. frames \in Seq(Frame) /\ saved \in Seq(Saved) /\ Len(saved) = Len(frames)
    <3> HIDE DEF Frame, Saved
    <3> QED
      BY <2>2
  <2>4. deployed = {} /\ destroyed = 0
    BY DEF Init
  <2>5. deployed \subseteq Addresses /\ destroyed \in Nat
    BY <2>4
  <2>6. TypeOK
    BY <2>1, <2>3, <2>5 DEF TypeOK, Saved, Accounts
  <2> QED
    BY <2>2, <2>6, NoneConsistent DEF IInv
<1>2. IInv /\ [Next]_vars => IInv'
  <2> SUFFICES ASSUME IInv, [Next]_vars PROVE IInv'
    OBVIOUS
  <2>1. CASE UNCHANGED vars
    BY <2>1 DEF vars, IInv, TypeOK, Consistent
  <2>2. CASE \E to \in Addresses \cup {Zero}, value \in Values :
               CallTx(to, value) \/ Call(to, value)
    BY <2>2, TransactionsKeep, CallsKeep, AddressAssumption
  <2>3. CASE \E a \in Addresses, value \in Values :
               CreateTx(a, value) \/ Create(a, value) \/ CallCode(a, value)
    BY <2>3, TransactionsKeep, CreateKeeps, CallsKeep
  <2>4. CASE \E a \in Addresses : CallStatic(a) \/ CallDelegate(a)
    BY <2>4, CallsKeep, AmountAssumption
  <2>5. CASE \E heir \in Addresses \cup {Zero} : SelfDestruct(heir)
    BY <2>5, EndsKeep
  <2>6. CASE \E code \in BOOLEAN : Return(code)
    BY <2>6, EndsKeep
  <2>7. CASE Fail
    BY <2>7, FailKeeps
  <2> QED
    BY <2>1, <2>2, <2>3, <2>4, <2>5, <2>6, <2>7 DEF Next
<1> QED
  BY <1>1, <1>2, PTL DEF Spec

\* No balance is ever negative and the stacks of interpreters and checkpoints stay
\* level.
THEOREM TypeCorrect == Spec => []TypeOK
<1>1. IInv => TypeOK
  BY DEF IInv
<1> QED
  BY <1>1, InductiveInvariant, PTL

\* The interpreter that runs has the account of its contract as it is (interpreter.ts
\* refreshes it after every call that succeeded, and the revert of one that failed
\* brings back what it was).
THEOREM ContractsAreCurrent == Spec => []ContractIsCurrent
<1>1. IInv => ContractIsCurrent
  BY DEF IInv, Consistent, ContractIsCurrent, Top
<1> QED
  BY <1>1, InductiveInvariant, PTL

\* Nothing that is called from a static call changes an account, at any depth.
THEOREM StaticCallsWriteNothing == Spec => []StaticCallWritesNothing
<1>1. IInv => StaticCallWritesNothing
  BY DEF IInv, TypeOK, Consistent, StaticCallWritesNothing
<1> QED
  BY <1>1, InductiveInvariant, PTL
-----------------------------------------------------------------------------
\* Coins.

Conserved(accts, gone) == Coins(accts) + gone = SumFunction(Funds)

\* Also the accounts that a revert would bring back are conserved.
CoinInv ==
  /\ Conserved(accounts, destroyed)
  /\ \A i \in 1..Len(saved) : Conserved(saved[i].accounts, saved[i].destroyed)

LEMMA CoinsAreInt ==
  ASSUME NEW accts \in Accounts
  PROVE  Coins(accts) \in Int
<1>1. [a \in Addresses |-> accts[a].balance] \in [Addresses -> Int]
  BY DEF Accounts, Account
<1> QED
  BY <1>1, AddressAssumption, SumFunctionIsInt DEF Coins

\* A change of one balance.
LEMMA CoinsOfChanged ==
  ASSUME NEW accts \in Accounts, NEW after \in Accounts, NEW a \in Addresses,
         \A b \in Addresses \ {a} : after[b].balance = accts[b].balance
  PROVE  Coins(after) = Coins(accts) - accts[a].balance + after[a].balance
<1> DEFINE f == [b \in Addresses |-> accts[b].balance]
           h == [b \in Addresses |-> after[b].balance]
<1>1. f \in [Addresses -> Int] /\ h \in [Addresses -> Int]
  BY DEF Accounts, Account
<1>2. \A b \in Addresses \ {a} : f[b] = h[b]
  OBVIOUS
<1>3. f[a] = accts[a].balance /\ h[a] = after[a].balance
  OBVIOUS
<1>4. Coins(accts) = SumFunction(f) /\ Coins(after) = SumFunction(h)
  BY DEF Coins
<1> HIDE DEF f, h
<1> QED
  BY <1>1, <1>2, <1>3, <1>4, AddressAssumption, SumOfChanged

\* Balances are what counts.
LEMMA CoinsOfSame ==
  ASSUME NEW accts \in Accounts, NEW after,
         \A b \in Addresses : after[b].balance = accts[b].balance
  PROVE  Coins(after) = Coins(accts)
<1>1. [b \in Addresses |-> after[b].balance] = [b \in Addresses |-> accts[b].balance]
  OBVIOUS
<1> QED
  BY <1>1 DEF Coins

LEMMA CoinsOfCredit ==
  ASSUME NEW accts \in Accounts, NEW to \in Addresses \cup {Zero}, NEW value \in Nat
  PROVE  Coins(Credit(accts, to, value)) = Coins(accts) + (IF to = Zero THEN 0 ELSE value)
<1>1. CASE to = Zero
  BY <1>1, CoinsAreInt DEF Credit
<1>2. CASE to # Zero
  <2> DEFINE after == Credit(accts, to, value)
  <2>1. after \in Accounts /\ to \in Addresses
    BY <1>2, CreditTyped
  <2>2. /\ after[to].balance = accts[to].balance + value
        /\ \A b \in Addresses \ {to} : after[b] = accts[b]
    BY <1>2, <2>1 DEF Credit, Accounts, Account
  <2> HIDE DEF after
  <2>3. Coins(after) = Coins(accts) - accts[to].balance + after[to].balance
    BY <2>1, <2>2, CoinsOfChanged
  <2>4. accts[to].balance \in Nat /\ Coins(accts) \in Int
    BY <2>1, CoinsAreInt DEF Accounts, Account
  <2>5. Coins(after) = Coins(accts) + value
    BY <2>2, <2>3, <2>4
  <2> QED
    BY <1>2, <2>5 DEF after
<1> QED
  BY <1>1, <1>2

\* A transfer loses what goes to the virtual address.
LEMMA CoinsOfTransfer ==
  ASSUME NEW accts \in Accounts, NEW from \in Addresses, NEW to \in Addresses \cup {Zero},
         NEW value \in Nat, accts[from].balance >= value
  PROVE  Coins(Transfer(accts, from, to, value)) + (IF to = Zero THEN value ELSE 0)
           = Coins(accts)
<1> DEFINE debited == Debit(accts, from, value)
<1>1. debited \in Accounts
  BY DEF Debit, Accounts, Account
<1>2. /\ debited[from].balance = accts[from].balance - value
      /\ \A b \in Addresses \ {from} : debited[b] = accts[b]
  BY DEF Debit, Accounts, Account
<1>3. Transfer(accts, from, to, value) = Credit(debited, to, value)
  BY DEF Transfer
<1> HIDE DEF debited
<1>4. Coins(debited) = Coins(accts) - accts[from].balance + debited[from].balance
  BY <1>1, <1>2, CoinsOfChanged
<1>5. accts[from].balance \in Nat /\ Coins(accts) \in Int
  BY CoinsAreInt DEF Accounts, Account
<1>6. Coins(debited) = Coins(accts) - value
  BY <1>2, <1>4, <1>5
<1>7. Coins(Credit(debited, to, value)) = Coins(debited) + (IF to = Zero THEN 0 ELSE value)
  BY <1>1, CoinsOfCredit
<1> QED
  BY <1>3, <1>5, <1>6, <1>7

\* A nonce is no money.
LEMMA CoinsOfNonce ==
  ASSUME NEW accts \in Accounts, NEW a \in Addresses
  PROVE  Coins(RaiseNonce(accts, a)) = Coins(accts)
<1>1. \A b \in Addresses : RaiseNonce(accts, a)[b].balance = accts[b].balance
  BY DEF RaiseNonce, Accounts, Account
<1> QED
  BY <1>1, CoinsOfSame

\* A contract that destroys itself loses what it does not leave to another account.
LEMMA CoinsOfSelfDestruct ==
  ASSUME NEW accts \in Accounts, NEW a \in Addresses, NEW heir \in Addresses \cup {Zero},
         NEW paid,
         paid = IF heir = a THEN accts ELSE Credit(accts, heir, accts[a].balance)
  PROVE  Coins(Emptied(paid, a)) + (IF heir \in {Zero, a} THEN accts[a].balance ELSE 0)
           = Coins(accts)
<1> DEFINE after == Emptied(paid, a)
           balance == accts[a].balance
<1>1. balance \in Nat /\ Coins(accts) \in Int
  BY CoinsAreInt DEF Accounts, Account
<1>2. paid \in Accounts /\ paid[a].balance = balance
  <2>1. Credit(accts, heir, balance) \in Accounts
    BY <1>1, CreditTyped
  <2>2. heir # a => Credit(accts, heir, balance)[a] = accts[a]
    BY DEF Credit, Accounts
  <2> QED
    BY <2>1, <2>2
<1>3. after \in Accounts
  BY <1>2, EmptiedTyped
<1>4. /\ after[a].balance = 0
      /\ \A b \in Addresses \ {a} : after[b] = paid[b]
  BY <1>2 DEF Emptied, Accounts, Account
<1> HIDE DEF after
<1>5. Coins(after) = Coins(paid) - paid[a].balance + after[a].balance
  BY <1>2, <1>3, <1>4, CoinsOfChanged
<1>6. Coins(paid) = Coins(accts) + (IF heir \in {Zero, a} THEN 0 ELSE balance)
  <2>1. CASE heir = a
    BY <1>1, <2>1
  <2>2. CASE heir # a
    <3>1. Coins(paid) = Coins(accts) + (IF heir = Zero THEN 0 ELSE balance)
      BY <1>1, <2>2, CoinsOfCredit
    <3> QED
      BY <2>2, <3>1
  <2> QED
    BY <2>1, <2>2
<1>7. Coins(after) = Coins(paid) - balance /\ Coins(paid) \in Int
  BY <1>1, <1>2, <1>4, <1>5, CoinsAreInt
<1> HIDE DEF balance
<1>8. Coins(after) + (IF heir \in {Zero, a} THEN balance ELSE 0) = Coins(accts)
  BY <1>1, <1>6, <1>7
<1> QED
  BY <1>8 DEF after, balance
\* A message whose accounts at the checkpoint are worth what the accounts were: when it
\* goes on to run code all of them are saved, and what it pays arrives.
LEMMA EnterConserves ==
  ASSUME TypeOK, CoinInv, NEW base, NEW after, NEW callers, NEW to, NEW isStatic, NEW creating,
         Coins(base) = Coins(accounts), Coins(after) = Coins(base),
         Enter(base, after, callers, to, isStatic, creating)
  PROVE  CoinInv'
<1> DEFINE point == [accounts |-> base, destroyed |-> destroyed]
           n == Len(saved)
<1>1. /\ accounts' = after /\ destroyed' = destroyed /\ saved' = Append(saved, point)
      /\ saved \in Seq(Saved)
  BY DEF Enter, TypeOK, Saved, Accounts
<1>2. Conserved(after, destroyed) /\ Conserved(base, destroyed)
  BY DEF CoinInv, Conserved
<1>3. point.accounts = base /\ point.destroyed = destroyed
  OBVIOUS
<1> HIDE DEF point
<1>4. /\ n \in Nat /\ Len(saved') = n + 1 /\ saved'[n + 1] = point
      /\ \A i \in 1..n : saved'[i] = saved[i]
  BY <1>1
<1>5. ASSUME NEW i \in 1..(n + 1)
      PROVE  Conserved(saved'[i].accounts, saved'[i].destroyed)
  <2>1. CASE i = n + 1
    BY <1>2, <1>3, <1>4, <2>1
  <2>2. CASE i # n + 1
    <3>1. i \in 1..n
      BY <1>4, <2>2
    <3> QED
      BY <1>4, <3>1 DEF CoinInv
  <2> QED
    BY <2>1, <2>2
<1>6. Conserved(accounts', destroyed')
  BY <1>1, <1>2
<1> QED
  BY <1>4, <1>5, <1>6 DEF CoinInv, Conserved

\* When there is no code, what it pays arrives or is counted as gone.
LEMMA PassThroughConserves ==
  ASSUME TypeOK, CoinInv, NEW base \in Accounts, NEW after \in Accounts, NEW callers,
         NEW to, NEW value \in Nat, Coins(base) = Coins(accounts),
         Coins(after) + (IF to = Zero THEN value ELSE 0) = Coins(base),
         PassThrough(after, callers, to, value)
  PROVE  CoinInv'
<1> DEFINE gone == destroyed + (IF to = Zero THEN value ELSE 0)
<1>1. accounts' = after /\ destroyed' = gone /\ saved' = saved
  BY DEF PassThrough
<1>2. /\ Coins(after) \in Int /\ destroyed \in Nat
      /\ Coins(accounts) + destroyed = SumFunction(Funds)
  BY CoinsAreInt DEF TypeOK, CoinInv, Conserved
<1>3. Coins(after) + gone = SumFunction(Funds)
  BY <1>2
<1>4. Conserved(accounts', destroyed')
  BY <1>1, <1>3 DEF Conserved
<1> QED
  BY <1>1, <1>4 DEF CoinInv, Conserved

\* When it fails at once, nothing is paid.
LEMMA FailAtOnceConserves ==
  ASSUME CoinInv, NEW base, NEW callers, Coins(base) = Coins(accounts),
         FailAtOnce(base, callers)
  PROVE  CoinInv'
<1>1. accounts' = base /\ destroyed' = destroyed /\ saved' = saved
  BY DEF FailAtOnce
<1>2. Conserved(accounts', destroyed')
  BY <1>1 DEF CoinInv, Conserved
<1> QED
  BY <1>1, <1>2 DEF CoinInv, Conserved

\* A call, whoever sends it.
LEMMA ExecuteCallConserves ==
  ASSUME TypeOK, CoinInv, NEW base \in Accounts, Coins(base) = Coins(accounts),
         NEW from \in Addresses, NEW to \in Addresses \cup {Zero}, NEW value \in Nat,
         NEW code, code = to \/ to \in Addresses, NEW isStatic,
         ExecuteCall(base, from, to, value, code, isStatic)
  PROVE  CoinInv'
<1> DEFINE after == Transfer(base, from, to, value)
<1>1. base[from].balance >= value =>
        /\ after \in Accounts
        /\ Coins(after) + (IF to = Zero THEN value ELSE 0) = Coins(base)
  BY TransferTyped, CoinsOfTransfer
<1>2. HasCode(code) => to # Zero
  BY AddressAssumption DEF HasCode, TypeOK
<1> HIDE DEF after
<1>3. CASE /\ base[from].balance >= value /\ HasCode(code)
           /\ Enter(base, after, frames, to, isStatic, FALSE)
  <2>1. Coins(after) = Coins(base)
    BY <1>1, <1>2, <1>3, CoinsAreInt
  <2> QED
    BY <1>3, <2>1, EnterConserves
<1>4. CASE base[from].balance >= value /\ PassThrough(after, frames, to, value)
  BY <1>1, <1>4, PassThroughConserves
<1>5. CASE FailAtOnce(base, frames)
  BY <1>5, FailAtOnceConserves
<1> QED
  BY <1>3, <1>4, <1>5 DEF ExecuteCall, after

\* A creation that its sender can pay.
LEMMA ExecuteCreateConserves ==
  ASSUME TypeOK, CoinInv, NEW base \in Accounts, Coins(base) = Coins(accounts),
         NEW callers, NEW from \in Addresses, NEW new \in Addresses, NEW value \in Nat,
         base[from].balance >= value,
         ExecuteCreate(base, callers, from, new, value)
  PROVE  CoinInv'
<1> DEFINE paid == Transfer(base, from, new, value)
           after == RaiseNonce(paid, new)
<1>1. new # Zero /\ paid \in Accounts
  BY TransferTyped, AddressAssumption
<1>2. Coins(paid) = Coins(base)
  <2>1. Coins(paid) + (IF new = Zero THEN value ELSE 0) = Coins(base)
    BY CoinsOfTransfer
  <2>2. Coins(paid) \in Int
    BY <1>1, CoinsAreInt
  <2> HIDE DEF paid
  <2> QED
    BY <1>1, <2>1, <2>2
<1> HIDE DEF paid
<1>3. after \in Accounts /\ Coins(after) = Coins(base)
  BY <1>1, <1>2, RaiseNonceTyped, CoinsOfNonce
<1> HIDE DEF after
<1>4. CASE Enter(base, after, callers, new, FALSE, TRUE)
  BY <1>3, <1>4, EnterConserves
<1>5. CASE PassThrough(after, callers, new, value)
  <2>1. Coins(after) + (IF new = Zero THEN value ELSE 0) = Coins(base)
    BY <1>1, <1>3, CoinsAreInt
  <2> QED
    BY <1>3, <1>5, <2>1, PassThroughConserves
<1>6. CASE FailAtOnce(base, callers)
  BY <1>6, FailAtOnceConserves
<1> QED
  BY <1>4, <1>5, <1>6 DEF ExecuteCreate, after, paid

\* The messages that code sends.
LEMMA CallsConserve ==
  ASSUME IInv, CoinInv, NEW a \in Addresses, NEW to \in Addresses \cup {Zero},
         NEW value \in Values,
         Call(to, value) \/ CallStatic(a) \/ CallCode(a, value) \/ CallDelegate(a)
  PROVE  CoinInv'
<1>1. value \in Nat /\ 0 \in Nat /\ frames # <<>>
  BY AmountAssumption DEF Call, CallStatic, CallCode, CallDelegate, MayPay
<1>2. Top.address \in Addresses /\ accounts \in Accounts /\ TypeOK
  BY <1>1, TopTyped DEF IInv
<1>3. CASE Call(to, value)
  <2>1. ExecuteCall(accounts, Top.address, to, value, to, Top.isStatic)
    BY <1>3 DEF Call
  <2> QED
    BY <1>1, <1>2, <2>1, ExecuteCallConserves
<1>4. CASE CallStatic(a)
  <2>1. ExecuteCall(accounts, Top.address, a, 0, a, TRUE)
    BY <1>4 DEF CallStatic
  <2> QED
    BY <1>1, <1>2, <2>1, ExecuteCallConserves
<1>5. CASE CallCode(a, value)
  <2>1. ExecuteCall(accounts, Top.address, Top.address, value, a, Top.isStatic)
    BY <1>5 DEF CallCode
  <2> QED
    BY <1>1, <1>2, <2>1, ExecuteCallConserves
<1>6. CASE CallDelegate(a)
  <2>1. ExecuteCall(accounts, Top.address, Top.address, 0, a, Top.isStatic)
    BY <1>6 DEF CallDelegate
  <2> QED
    BY <1>1, <1>2, <2>1, ExecuteCallConserves
<1> QED
  BY <1>3, <1>4, <1>5, <1>6

\* Transactions pay from the account of who signs them.
LEMMA TransactionsConserve ==
  ASSUME IInv, CoinInv, NEW a \in Addresses, NEW to \in Addresses \cup {Zero},
         NEW value \in Values, CallTx(to, value) \/ CreateTx(a, value)
  PROVE  CoinInv'
<1> DEFINE base == RaiseNonce(accounts, Origin)
<1>1. value \in Nat /\ Origin \in Addresses /\ TypeOK /\ accounts \in Accounts
  BY AddressAssumption, AmountAssumption DEF IInv, TypeOK, Accounts
<1>2. base \in Accounts /\ Coins(base) = Coins(accounts)
  BY <1>1, RaiseNonceTyped, CoinsOfNonce
<1>3. base[Origin].balance = accounts[Origin].balance
  BY <1>1 DEF RaiseNonce, Accounts, Account
<1> HIDE DEF base
<1>4. CASE CallTx(to, value)
  <2>1. ExecuteCall(base, Origin, to, value, to, FALSE)
    BY <1>4 DEF CallTx, base
  <2> QED
    BY <1>1, <1>2, <2>1, ExecuteCallConserves
<1>5. CASE CreateTx(a, value)
  <2>1. ExecuteCreate(base, frames, Origin, a, value) /\ base[Origin].balance >= value
    BY <1>3, <1>5 DEF CreateTx, base
  <2> QED
    BY <1>1, <1>2, <2>1, ExecuteCreateConserves
<1> QED
  BY <1>4, <1>5

\* The copy that a creator writes back has the balance of its account.
LEMMA CreateConserves ==
  ASSUME IInv, CoinInv, NEW new \in Addresses, NEW value \in Values, Create(new, value)
  PROVE  CoinInv'
<1> DEFINE copy == [Top.contract EXCEPT !.nonce = @ + 1]
           base == [accounts EXCEPT ![Top.address] = copy]
           callers == [frames EXCEPT ![Len(frames)].contract = copy]
<1>1. frames # <<>> /\ value \in Nat /\ TypeOK /\ Top.contract.balance >= value
  BY AmountAssumption DEF Create, MayPay, IInv
<1>2. /\ Top.address \in Addresses /\ Top.contract = accounts[Top.address]
      /\ Top.contract \in Account /\ accounts \in Accounts
  BY <1>1, TopTyped
<1>3. ExecuteCreate(base, callers, Top.address, new, value)
  BY DEF Create
<1>4. copy \in Account /\ copy.balance = Top.contract.balance
  BY <1>2 DEF Account
<1> HIDE DEF copy, callers
<1>5. /\ base \in Accounts /\ base[Top.address].balance >= value
      /\ \A b \in Addresses : base[b].balance = accounts[b].balance
  BY <1>1, <1>2, <1>4 DEF Accounts
<1> HIDE DEF base
<1>6. Coins(base) = Coins(accounts)
  BY <1>2, <1>5, CoinsOfSame
<1> QED
  BY <1>1, <1>2, <1>3, <1>5, <1>6, ExecuteCreateConserves

\* The last checkpoint goes; the others are as they were.
LEMMA DropConserves ==
  ASSUME TypeOK, CoinInv, frames # <<>>, saved' = Drop(saved),
         Conserved(accounts', destroyed')
  PROVE  CoinInv'
<1>1. saved \in Seq(Saved) /\ saved # <<>>
  BY DEF TypeOK, Saved, Accounts
<1>2. /\ Len(saved') = Len(saved) - 1 /\ Len(saved) \in Nat
      /\ \A i \in 1..(Len(saved) - 1) : saved'[i] = saved[i]
  BY <1>1, DropSeq
<1>3. \A i \in 1..Len(saved') : Conserved(saved'[i].accounts, saved'[i].destroyed)
  BY <1>2 DEF CoinInv
<1> QED
  BY <1>3 DEF CoinInv, Conserved

\* The ways in which running code ends.
LEMMA EndsConserve ==
  ASSUME IInv, CoinInv, NEW heir \in Addresses \cup {Zero}, NEW code \in BOOLEAN,
         Return(code) \/ SelfDestruct(heir) \/ Fail
  PROVE  CoinInv'
<1>1. frames # <<>> /\ TypeOK
  BY DEF Return, SelfDestruct, Fail, IInv
<1>2. /\ Top.address \in Addresses /\ Top.contract = accounts[Top.address]
      /\ Top.contract \in Account /\ accounts \in Accounts
  BY <1>1, TopTyped
<1>3. CASE Return(code)
  <2>1. accounts' = accounts /\ destroyed' = destroyed /\ saved' = Drop(saved)
    BY <1>3 DEF Return, Pop
  <2>2. Conserved(accounts', destroyed')
    BY <2>1 DEF CoinInv
  <2> QED
    BY <1>1, <2>1, <2>2, DropConserves
<1>4. CASE SelfDestruct(heir)
  <2> DEFINE a == Top.address
             balance == accounts[a].balance
             paid == IF heir = a THEN accounts ELSE Credit(accounts, heir, balance)
             after == Emptied(paid, a)
             gone == destroyed + (IF heir \in {Zero, a} THEN balance ELSE 0)
  <2>1. accounts' = after /\ destroyed' = gone /\ saved' = Drop(saved)
    BY <1>2, <1>4 DEF SelfDestruct, Pop
  <2>2. Coins(after) + (IF heir \in {Zero, a} THEN balance ELSE 0) = Coins(accounts)
    BY <1>2, CoinsOfSelfDestruct
  <2>3. balance \in Nat /\ destroyed \in Nat /\ Coins(after) \in Int
    <3>1. balance \in Nat /\ destroyed \in Nat
      BY <1>1, <1>2 DEF Account, TypeOK
    <3>2. paid \in Accounts
      BY <1>2, <3>1, CreditTyped
    <3>3. after \in Accounts
      BY <1>2, <3>2, EmptiedTyped
    <3> QED
      BY <3>1, <3>3, CoinsAreInt
  <2>4. Coins(accounts) + destroyed = SumFunction(Funds)
    BY DEF CoinInv, Conserved
  <2> HIDE DEF after, balance
  <2>5. Coins(after) + gone = SumFunction(Funds)
    BY <2>2, <2>3, <2>4
  <2>6. Conserved(accounts', destroyed')
    BY <2>1, <2>5 DEF Conserved
  <2> QED
    BY <1>1, <2>1, <2>6, DropConserves
<1>5. CASE Fail
  <2>1. /\ accounts' = saved[Len(saved)].accounts /\ destroyed' = saved[Len(saved)].destroyed
        /\ saved' = Drop(saved)
    BY <1>5 DEF Fail
  <2>2. Len(saved) \in 1..Len(saved)
    BY <1>1 DEF TypeOK
  <2>3. Conserved(accounts', destroyed')
    BY <2>1, <2>2 DEF CoinInv
  <2> QED
    BY <1>1, <2>1, <2>3, DropConserves
<1> QED
  BY <1>3, <1>4, <1>5

\* In every reachable state the coins that are there and those that are gone make up what
\* there was at first, for any accounts, amounts and depth, whatever is called, created,
\* destroyed and reverted (_executeCall, _executeCreate, _selfDestruct and the reverts of
\* the state object).
THEOREM NoCoinIsLost == Spec => []CoinsConserved
<1>1. Init => CoinInv
  <2> SUFFICES ASSUME Init PROVE CoinInv
    OBVIOUS
  <2>1. saved = <<>> /\ destroyed = 0 /\ \A b \in Addresses : accounts[b].balance = Funds[b]
    BY DEF Init
  <2>2. [b \in Addresses |-> accounts[b].balance] = Funds
    BY <2>1, AmountAssumption
  <2>3. SumFunction(Funds) \in Int
    <3>1. Funds \in [Addresses -> Int]
      BY AmountAssumption
    <3> QED
      BY <3>1, AddressAssumption, SumFunctionIsInt
  <2>4. Coins(accounts) = SumFunction(Funds)
    BY <2>2 DEF Coins
  <2>5. Conserved(accounts, destroyed)
    BY <2>1, <2>3, <2>4 DEF Conserved
  <2> QED
    BY <2>1, <2>5 DEF CoinInv
<1>2. IInv /\ CoinInv /\ [Next]_vars => CoinInv'
  <2> SUFFICES ASSUME IInv, CoinInv, [Next]_vars PROVE CoinInv'
    OBVIOUS
  <2>1. CASE UNCHANGED vars
    BY <2>1 DEF vars, CoinInv, Conserved
  <2>2. CASE \E to \in Addresses \cup {Zero}, value \in Values :
               CallTx(to, value) \/ Call(to, value)
    BY <2>2, TransactionsConserve, CallsConserve, AddressAssumption
  <2>3. CASE \E a \in Addresses, value \in Values :
               CreateTx(a, value) \/ Create(a, value) \/ CallCode(a, value)
    BY <2>3, TransactionsConserve, CreateConserves, CallsConserve
  <2>4. CASE \E a \in Addresses : CallStatic(a) \/ CallDelegate(a)
    BY <2>4, CallsConserve, AmountAssumption
  <2>5. CASE \E heir \in Addresses \cup {Zero} : SelfDestruct(heir)
    BY <2>5, EndsConserve
  <2>6. CASE (\E code \in BOOLEAN : Return(code)) \/ Fail
    BY <2>6, EndsConserve, AddressAssumption
  <2> QED
    BY <2>1, <2>2, <2>3, <2>4, <2>5, <2>6 DEF Next
<1>3. CoinInv => CoinsConserved
  BY DEF CoinInv, Conserved, CoinsConserved
<1> QED
  BY <1>1, <1>2, <1>3, InductiveInvariant, PTL DEF Spec
=============================================================================
