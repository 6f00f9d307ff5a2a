SPECIFICATION MCSpec
CONSTANTS
  slot1 = slot1
  slot2 = slot2
  Slots = {slot1, slot2}
  Pointer = Pointer
  price1 = price1
  price2 = price2
  Blocks = {1, 2}
  Prices = {price1, price2}
  MaxFunds = 2
  Sender = Sender
  Other = Other
  Target = Target
  StakeTarget = StakeTarget
  NoAddress = NoAddress
  Node = Node
  OtherNode = OtherNode
  NoNode = NoNode
  NetworkAccount = NetworkAccount
  Dev = Dev
  MaxNonce = 1
  MaxMoves = 1
  Transactions <- Sent
CHECK_DEADLOCK FALSE
INVARIANT KeysCoverWrites
