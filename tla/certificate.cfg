SPECIFICATION CertificateSpec
CONSTANTS
  o1 = o1
  o2 = o2
  n1 = n1
  n2 = n2
  Operators = {o1, o2}
  Nodes = {n1}
  None = None
  StakeAmounts = {2}
  MinStake = 2
  InitialBalance = 2
  Rate = 0
  PenaltyPercent = 50
  CertDuration = 2
  RestakeCooldown = 0
  MaxCycle = 3
SYMMETRY Symmetry
CHECK_DEADLOCK FALSE
INVARIANTS CertificateTypeOK BondIsMutual CertificateIsBacked
