SPECIFICATION Spec
CONSTANTS
  o1 = o1
  o2 = o2
  n1 = n1
  n2 = n2
  Operators = {o1}
  Nodes = {n1}
  None = None
  StakeAmounts = {2}
  MinStake = 2
  InitialBalance = 2
  Rate = 1
  PenaltyPercent = 50
  CertDuration = 1
  RestakeCooldown = 1
  MaxTime = 3
  MaxInFlight = 3
  Slashing = {"left", "refuted"}
CHECK_DEADLOCK FALSE
INVARIANTS TypeOK NothingUnearned StakeMatchesLock PenalizedOnce
