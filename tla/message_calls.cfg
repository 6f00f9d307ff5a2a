SPECIFICATION Spec
CONSTANTS
  eoa = eoa
  a = a
  b = b
  c = c
  Addresses = {eoa, a, b, c}
  Origin = eoa
  Contracts = {a, b}
  Zero = zero
  Funds <- FundsOf
  Values = {0, 1, 2}
  stackLimit = 2
  MaxNonce = 2
CHECK_DEADLOCK FALSE
INVARIANTS TypeOK ContractIsCurrent CoinsConserved StaticCallWritesNothing
