SPECIFICATION Spec
CONSTANTS
  sender = sender
  contract = contract
  Addresses <- Participants
  Caller = sender
  Slots = {}
  Data = {0, 1}
  NewData = 0
  Words = {0}
  EmptyWord = 0
  Codes = {}
  NoCode = NoCode
  NoEntry = NoEntry
  MaxDepth = 2
  MaxApplies = 2
  cleanStaleShardeumStateMap = TRUE
  expiredTransactionStateFix = TRUE
CHECK_DEADLOCK FALSE
INVARIANTS TypeOK SuccessChargesCaller
PROPERTIES AccountsImplementWorldState
