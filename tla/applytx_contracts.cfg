SPECIFICATION Spec
CONSTANTS
  sender = sender
  contract = contract
  Addresses <- Participants
  Caller = sender
  Slots = {slot}
  Data = {0}
  NewData = 0
  Words = {0, 1}
  EmptyWord = 0
  Codes = {code}
  NoCode = NoCode
  NoEntry = NoEntry
  MaxDepth = 2
  MaxApplies = 1
  cleanStaleShardeumStateMap = TRUE
  expiredTransactionStateFix = TRUE
CHECK_DEADLOCK FALSE
INVARIANTS CollectedWritesAreLive ThrownTxReportsNothing
