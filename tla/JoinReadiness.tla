--------------------------- MODULE JoinReadiness ----------------------------
(***************************************************************************)
(* How a node that wants to join gets its stake certificate: isReadyToJoin *)
(* runs once a cycle, injects transactions that set the certificate time   *)
(* of its operator, asks other nodes for the certificate and keeps it,     *)
(* until it may say that the node is ready.  Each of its requests is an    *)
(* await: the cycle may end, and the ledger change, before it goes on.     *)
(*                                                                         *)
(* Times are kept as cycles from now: what is left of a certificate, or    *)
(* the age of an event.  Expired stands for all that is over, None for     *)
(* what was never there.  The operator has the account and the stake; the  *)
(* staking system is in Staking.                                           *)
(***************************************************************************)
EXTENDS Integers

CONSTANTS
  CertDuration,   \* cycles a certificate is good for
  AdminDuration,  \* cycles an admin certificate is good for
  CacheDuration,  \* cycles the network account is cached for
  MaxDelay,       \* greatest age of a transaction in flight, in cycles
  AdminCertEnabled,
  None

ASSUME DurationAssumption ==
  /\ CertDuration \in Nat \ {0} /\ AdminDuration \in Nat \ {0} /\ CacheDuration \in Nat
  /\ MaxDelay \in 0..CertDuration
  /\ AdminCertEnabled \in BOOLEAN /\ None \notin Int

\* The 30 % of the time that a certificate in use has left must exceed two cycles.
\* The code's default is 30 cycles.
ASSUME MarginAssumption == CertDuration >= 7

VARIABLES
  staked,   \* the operator has the stake required, and this node as its nominee
  certLeft, \* what is left of the certificate time of the operator
  inFlight, \* ages of the transactions that set it and are on their way
  network,  \* what nodes that are in it see of the network
  tooOld,   \* the version of this node is not allowed any more
  \* The node, from here on.
  cached,     \* the network account as it was fetched last
  stakeCert,  \* what is left of the certificate kept, if there is one
  adminCert,  \* the admin certificate
  setCycle,   \* age of lastCertTimeTxCycle
  setTime,    \* age of lastCertTimeTxTimestamp, None for 0
  pc,         \* the await the running call of isReadyToJoin is in, or idle
  ticked,     \* cycles since that call began
  called,     \* it was called in this cycle
  result      \* why the last call said ready, or "no"

ledgerVars == <<staked, certLeft, inFlight>>
networkVars == <<network, tooOld>>
certVars == <<stakeCert, setCycle, setTime>>
callVars == <<pc, ticked, called, result>>
vars == <<ledgerVars, networkVars, certVars, callVars, cached, adminCert>>

Expired == -1
\* Slip: what is over is cleared.
OlderOrNone(left) == IF left \in {None, Expired} THEN None ELSE left - 1

Older(left) == IF left \in {None, Expired} THEN left ELSE left - 1
\* No condition tells ages above the bound apart.
Capped(age, bound) == IF age = None THEN None ELSE IF age < bound THEN age + 1 ELSE bound

\* Without the nodes that staking starts with, and with them in the mode
\* processing or in another mode.
Network == {"small", "processing", "otherMode"}

NoAdminCert == [left |-> Expired, golden |-> FALSE]

Init ==
  /\ staked = FALSE /\ certLeft = Expired /\ inFlight = {}
  /\ network \in Network /\ tooOld = FALSE
  /\ cached = [old |-> FALSE, left |-> 0]
  /\ stakeCert = None /\ adminCert = NoAdminCert
  /\ setCycle = 0 /\ setTime = None
  /\ pc = "idle" /\ ticked = 0 /\ called = FALSE /\ result = "no"

-----------------------------------------------------------------------------
(* One call of isReadyToJoin.                                              *)

\* 70 % of the certificate's time is over.
ExpiringSoon(left) == 10 * (CertDuration - left) >= 7 * CertDuration

Finish(answer) == pc' = "idle" /\ result' = answer
Await(place) == pc' = place /\ result' = "no"

\* Cycles from the last injection to the cycle the call was given.
CyclesSinceSet == setCycle - ticked

\* Slip: a certificate is only looked at when the time set for it is over.
KeepCertificateOld ==
  \/ setTime = None /\ Await("first")
  \/ setTime # None /\ CyclesSinceSet > CertDuration /\ Await("renew")
  \/ setTime # None /\ CyclesSinceSet <= CertDuration /\ stakeCert # None /\ Finish("cert")
  \/ setTime # None /\ CyclesSinceSet <= CertDuration /\ stakeCert = None /\ Await("query")

KeepCertificate ==
  \/ setTime = None /\ Await("first")
  \/ /\ setTime # None /\ CyclesSinceSet > CertDuration
     /\ Await("renew")
  \/ /\ setTime # None /\ CyclesSinceSet <= CertDuration
     /\ \/ stakeCert # None /\ ExpiringSoon(stakeCert) /\ Await("soon")
        \/ stakeCert # None /\ ~ExpiringSoon(stakeCert) /\ Finish("cert")
        \/ stakeCert = None /\ Await("query")

AdminCertGood == adminCert.left > 0

\* What the call does with the network account until its next await.
Evaluate(account) ==
  \/ account.old /\ pc' = "stopped" /\ result' = "no"
  \/ /\ ~account.old
     /\ \/ AdminCertGood /\ adminCert.golden /\ Finish("admin")
        \/ /\ ~(AdminCertGood /\ adminCert.golden)
           /\ \/ network = "small" /\ Finish("open")
              \/ /\ network = "otherMode" /\ AdminCertEnabled
                 /\ Finish(IF AdminCertGood THEN "admin" ELSE "no")
              \/ /\ network = "processing" \/ (network = "otherMode" /\ ~AdminCertEnabled)
                 /\ KeepCertificate

Call ==
  /\ pc = "idle" /\ ~called
  /\ called' = TRUE
  /\ ticked' = 0
  /\ \/ cached.left > 0 /\ Evaluate(cached)
     \/ cached.left = 0 /\ Await("fetch")
  /\ UNCHANGED <<ledgerVars, networkVars, certVars, cached, adminCert>>

\* Slip: the account that was fetched first is kept.
AccountFetchedOnce == IF cached.left = Expired THEN cached ELSE [old |-> FALSE, left |-> 1]

AccountFetched == [old |-> tooOld, left |-> CacheDuration]

FetchSucceeds ==
  /\ pc = "fetch"
  /\ cached' = AccountFetched
  /\ Evaluate(AccountFetched)
  /\ UNCHANGED <<ledgerVars, networkVars, certVars, ticked, called, adminCert>>

\* No majority of archivers: the call throws.
FetchFails ==
  /\ pc = "fetch"
  /\ Finish("no")
  /\ UNCHANGED <<ledgerVars, networkVars, certVars, ticked, called, cached, adminCert>>

Injecting == pc \in {"first", "renew", "soon", "newSoon"}

\* A request that fails may have put the transaction on its way.
InjectFails ==
  /\ Injecting
  /\ Finish("no")
  /\ \/ inFlight' = inFlight
     \/ staked /\ inFlight' = inFlight \cup {0}
  /\ UNCHANGED <<staked, certLeft, networkVars, certVars, ticked, called, cached, adminCert>>

\* Slip: the time of the injection is noted, the cycle is not.
NotedTimeOnly == setTime' = 0 /\ UNCHANGED setCycle

Noted == setCycle' = ticked /\ setTime' = 0

InjectSucceeds ==
  /\ Injecting /\ staked
  /\ inFlight' = inFlight \cup {0}
  /\ stakeCert' = IF pc = "first" THEN stakeCert ELSE None
  /\ Noted
  /\ Finish("no")
  /\ UNCHANGED <<staked, certLeft, networkVars, ticked, called, cached, adminCert>>

\* Refused by the node asked, which may be unreachable, or for a certificate time
\* that is over.  After three cycles the time is to be set again.
QueryFails ==
  /\ pc = "query"
  /\ setTime' = IF CyclesSinceSet > 3 \/ setTime > 3 THEN None ELSE setTime
  /\ Finish("no")
  /\ UNCHANGED <<ledgerVars, networkVars, stakeCert, setCycle, ticked, called, cached,
                 adminCert>>

UseCertificate ==
  \/ ExpiringSoon(certLeft) /\ stakeCert' = None /\ Await("newSoon")
  \/ ~ExpiringSoon(certLeft) /\ stakeCert' = certLeft /\ Finish("cert")

QuerySucceeds ==
  /\ pc = "query"
  /\ staked /\ certLeft >= 0
  /\ UseCertificate
  /\ UNCHANGED <<ledgerVars, networkVars, setCycle, setTime, ticked, called, cached,
                 adminCert>>

\* The certificate that is put is a new one.
PutAdminCertificate(golden) ==
  /\ pc # "stopped"
  /\ adminCert' = [left |-> AdminDuration, golden |-> golden]
  /\ UNCHANGED <<ledgerVars, networkVars, certVars, callVars, cached>>

\* A node of the network that sees the same looks at the join data.  It is asked for
\* an admin certificate outside of the mode processing only when the network is
\* about to enter it: the stricter case is modelled.
validateJoinRequest ==
  /\ ~tooOld
  /\ \/ adminCert.golden /\ adminCert.left >= 0
     \/ ~adminCert.golden /\ network = "small"
     \/ /\ ~adminCert.golden /\ network = "otherMode"
        /\ AdminCertEnabled => adminCert.left >= 0
     \/ /\ ~adminCert.golden /\ network = "processing"
        /\ result # "admin" /\ stakeCert # None /\ stakeCert >= 2

-----------------------------------------------------------------------------
(* The ledger and the network.                                             *)

Stake ==
  /\ ~staked
  /\ staked' = TRUE
  /\ UNCHANGED <<certLeft, inFlight, networkVars, certVars, callVars, cached, adminCert>>

\* Slip: the operator may leave while its certificate is good.
UnstakeAnyTime ==
  /\ staked
  /\ staked' = FALSE /\ certLeft' = Expired
  /\ UNCHANGED <<inFlight, networkVars, certVars, callVars, cached, adminCert>>

Unstake ==
  /\ staked /\ certLeft <= 0
  /\ staked' = FALSE /\ certLeft' = Expired
  /\ UNCHANGED <<inFlight, networkVars, certVars, callVars, cached, adminCert>>

\* Transactions on one account are applied in the order of their timestamps.
SetCertTime ==
  /\ \E age \in inFlight :
       /\ \A other \in inFlight : other <= age
       /\ inFlight' = inFlight \ {age}
       /\ certLeft' = IF staked THEN CertDuration - age ELSE certLeft
  /\ UNCHANGED <<staked, networkVars, certVars, callVars, cached, adminCert>>

DropTx ==
  /\ \E age \in inFlight : inFlight' = inFlight \ {age}
  /\ UNCHANGED <<staked, certLeft, networkVars, certVars, callVars, cached, adminCert>>

RaiseMinVersion ==
  /\ tooOld' = TRUE
  /\ UNCHANGED <<ledgerVars, network, certVars, callVars, cached, adminCert>>

\* A new cycle.  A request lasts no longer than a cycle: a call that waits is
\* over before the second one.
Tick ==
  /\ called /\ pc # "stopped"
  /\ MaxDelay \notin inFlight
  /\ network' \in Network
  /\ certLeft' = Older(certLeft)
  /\ inFlight' = {age + 1 : age \in inFlight}
  /\ cached' = IF cached.left = 0 THEN cached ELSE [cached EXCEPT !.left = @ - 1]
  /\ stakeCert' = Older(stakeCert)
  /\ adminCert' = [adminCert EXCEPT !.left = Older(@)]
  /\ setCycle' = Capped(setCycle, CertDuration + 2) /\ setTime' = Capped(setTime, 4)
  /\ ticked' = IF pc = "idle" THEN 0 ELSE 1
  /\ called' = FALSE
  /\ UNCHANGED <<staked, tooOld, pc, result>>

Node == Call \/ FetchSucceeds \/ FetchFails \/ InjectFails \/ InjectSucceeds
          \/ QueryFails \/ QuerySucceeds

Next ==
  \/ Node
  \/ \E golden \in BOOLEAN : PutAdminCertificate(golden)
  \/ Stake \/ Unstake \/ SetCertTime \/ DropTx \/ RaiseMinVersion
  \/ Tick

\* The cycles go on, every request ends, and a transaction is applied or dropped.
\* The archivers are asked at random, so those that answer are met again and again.
Fairness ==
  /\ WF_vars(Tick) /\ WF_vars(Node) /\ WF_vars(SetCertTime \/ DropTx)
  /\ SF_vars(FetchSucceeds)

Spec == Init /\ [][Next]_vars /\ Fairness
-----------------------------------------------------------------------------
Left == Expired..CertDuration

\* Every variable keeps its type; the awaits and the marks of the last injection
\* fit together.
TypeOK ==
  /\ staked \in BOOLEAN /\ certLeft \in Left /\ inFlight \subseteq 0..MaxDelay
  /\ network \in Network /\ tooOld \in BOOLEAN
  /\ cached \in [old : BOOLEAN, left : 0..CacheDuration]
  /\ stakeCert \in Left \cup {None}
  /\ adminCert \in [left : Expired..AdminDuration, golden : BOOLEAN]
  /\ setCycle \in 0..CertDuration + 2 /\ setTime \in 0..4 \cup {None}
  /\ pc \in {"idle", "fetch", "first", "renew", "soon", "query", "newSoon", "stopped"}
  /\ pc = "first" => setTime = None
  /\ pc \in {"renew", "soon", "query", "newSoon"} => setTime # None
  /\ pc = "soon" => stakeCert # None
  /\ pc \in {"query", "newSoon"} => stakeCert = None
  /\ ticked \in {0, 1} /\ called \in BOOLEAN
  /\ result \in {"no", "admin", "open", "cert"}

\* The node is ready, and neither the network nor the version it must have has
\* changed to another case since.
Ready ==
  /\ pc = "idle" /\ ~tooOld
  /\ \/ result = "admin" /\ (adminCert.golden \/ network = "otherMode")
     \/ result = "open" /\ network = "small"
     \/ result = "cert" /\ (network = "processing" \/ ~AdminCertEnabled)

\* A node that says it is ready, and joins before it is asked again, is let in: the
\* 70 % after which it would renew its certificate leave more than the two cycles
\* that a validator wants, also when the answers took a cycle.  Only a node that
\* holds a golden ticket that is over is left aside.
ReadyIsAccepted ==
  Ready /\ ~(adminCert.golden /\ adminCert.left = Expired) => validateJoinRequest

\* The certificate of a node that is ready is backed: the operator still has its
\* stake with this node, whatever it did since the certificate was signed.
ReadyIsStaked == pc = "idle" /\ result = "cert" => staked

\* A request that the network could have met fails, or a transaction is lost.
Trouble == FetchFails \/ InjectFails \/ DropTx \/ (QueryFails /\ certLeft >= 0)

\* Once its operator keeps its stake, the network needs no admin certificates and
\* requests are met, a node is ready again and again: whatever was lost before
\* leaves its marks in no state that it does not recover from.
EventuallyReady ==
  /\ <>[](staked /\ network # "otherMode")
  /\ <>[][~Trouble]_vars
  => []<>(result # "no" \/ pc = "stopped")

\* A node whose version is not allowed any more finds out and stops.
OldNodeStops == tooOld ~> pc = "stopped"
=============================================================================
