SPECIFICATION Spec
CONSTANTS
  apply1 = apply1
  apply2 = apply2
  estimate = estimate
  alice = alice
  bob = bob
  carol = carol
  Runs = {apply1, apply2, estimate}
  Applies = {apply1, apply2}
  Accounts = {alice, bob, carol}
  Sender <- Senders
  Receiver <- Receivers
  NoRun = NoRun
  Funds <- Holdings
  GasCost = 1
  Value = 1
  Bid = 0
CHECK_DEADLOCK FALSE
INVARIANTS TypeOK UndisturbedRunCharges
