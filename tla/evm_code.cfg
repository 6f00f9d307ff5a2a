SPECIFICATION CodeSpec
CONSTANTS
  Programs <- AllPrograms
  ByteBits = 4
  WordBytes = 2
  maxHeight = 3
  sstoreNoopGas = 8
  sstoreInitGas = 200
  sstoreCleanGas = 50
  sstoreInitRefund = 192
  sstoreCleanRefund = 42
  sstoreClearRefund = 150
CHECK_DEADLOCK FALSE
INVARIANTS CodeTypeOK WritesCostTheirEffect
PROPERTIES JumpsWhereItMay ArithmeticMeans
