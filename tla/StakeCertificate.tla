-------------------------- MODULE StakeCertificate ---------------------------
(***************************************************************************)
(* The stake certificates of the nodes.  A node asks for its certificate   *)
(* (queryCertificateHandler), the node asked reads the operator account,   *)
(* and the nodes that sign compare the certificate with the operator       *)
(* account of that later time.  A node joins with a certificate.  The rest *)
(* of the network, and its internal transactions, may do anything here.    *)
(***************************************************************************)
EXTENDS Staking

CONSTANT MaxCycle  \* bound: cycles

VARIABLES
  requests,     \* certificates that wait for signatures
  certificates  \* certificates that have them

certificateVars == <<ledger, status, clock, requests, certificates>>

Certificate == [nominator : Operators, nominee : Nodes, stake : Int, certExp : Nat]

CertificateInit ==
  /\ LedgerInit
  /\ status = [n \in Nodes |-> "out"]
  /\ clock = 1
  /\ requests = {} /\ certificates = {}

QueryCertificate(o, n) ==
  /\ operators[o].certExp >= clock
  /\ requests' = requests \cup
       {[nominator |-> o, nominee |-> n, stake |-> operators[o].stake,
         certExp |-> operators[o].certExp]}
  /\ UNCHANGED <<ledger, status, clock, certificates>>

SignCertificate(cert) ==
  /\ cert \in requests
  /\ cert.certExp >= clock
  /\ cert.stake >= MinStake
  /\ cert.stake = operators[cert.nominator].stake
  /\ cert.nominee = operators[cert.nominator].nominee
  /\ certificates' = certificates \cup {cert}
  /\ requests' = requests \ {cert}
  /\ UNCHANGED <<ledger, status, clock>>

\* validateJoinRequest wants a certificate that is good for two more cycles.
Admit(n) ==
  /\ status[n] = "out"
  /\ \E cert \in certificates : cert.nominee = n /\ clock + 2 <= cert.certExp
  /\ status' = [status EXCEPT ![n] = "standby"]
  /\ UNCHANGED <<ledger, clock, requests, certificates>>

\* The network takes the node in or lets it go.
ChangeStatus(n) ==
  /\ status[n] # "out"
  /\ \E s \in {"out", "syncing", "active"} : status' = [status EXCEPT ![n] = s]
  /\ UNCHANGED <<ledger, clock, requests, certificates>>

CycleEnds ==
  /\ clock < MaxCycle
  /\ clock' = clock + 1
  /\ UNCHANGED <<ledger, status, requests, certificates>>

OperatorActs ==
  /\ \/ \E o \in Operators, n \in Nodes, amount \in StakeAmounts : Stake(o, n, amount)
     \/ \E o \in Operators, n \in Nodes, force \in BOOLEAN : Unstake(o, n, force)
     \/ \E o \in Operators : SetCertTime(o)
  /\ UNCHANGED <<status, clock, requests, certificates>>

InternalTx ==
  /\ \E time \in 1..clock :
       \/ \E n \in Nodes :
            InitRewardTimes([type |-> "init", node |-> n, time |-> time,
                             timestamp |-> clock])
       \/ \E n \in Nodes, o \in Operators :
            ClaimReward([type |-> "reward", node |-> n, operator |-> o,
                         time |-> time, timestamp |-> clock])
       \/ \E n \in Nodes, o \in Operators, type \in {"left", "sync", "refuted"} :
            Penalty([type |-> type, node |-> n, operator |-> o,
                     time |-> time, timestamp |-> clock])
  /\ UNCHANGED <<status, clock, requests, certificates>>

CertificateNext ==
  \/ OperatorActs \/ InternalTx \/ CycleEnds
  \/ \E o \in Operators, n \in Nodes : QueryCertificate(o, n)
  \/ \E cert \in requests : SignCertificate(cert)
  \/ \E n \in Nodes : Admit(n) \/ ChangeStatus(n)

CertificateSpec == CertificateInit /\ [][CertificateNext]_certificateVars

-----------------------------------------------------------------------------
\* Every variable keeps its type.
CertificateTypeOK ==
  /\ operators \in [Operators -> Operator]
  /\ nodes \in [Nodes -> Node]
  /\ status \in [Nodes -> Statuses]
  /\ clock \in Nat
  /\ requests \subseteq Certificate
  /\ certificates \subseteq Certificate

\* As long as a signed certificate is good, its operator and its node are bonded:
\* the stake it vouches for has not been taken back, although the operator
\* account was read before the signers saw it and the certificate was made
\* before later transactions.
CertificateIsBacked ==
  \A cert \in certificates :
    cert.certExp > clock =>
      /\ operators[cert.nominator].nominee = cert.nominee
      /\ nodes[cert.nominee].nominator = cert.nominator
==============================================================================
