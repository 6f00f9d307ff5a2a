SPECIFICATION Spec
CONSTANTS
  param <- ParamOf
  fee <- FeeOf
  WordBytes = 2
  Container = 4
  Fraction = 4
  GasLimits = {10}
  Offsets = {0, 2}
  Lengths = {0, 3}
  GasArgs = {1, 20}
  basePrice <- BaseOf
  unitPrice <- UnitOf
  unitBytes <- UnitBytesOf
  blakeBytes = 3
  answerBytes <- AnswerOf
CHECK_DEADLOCK FALSE
INVARIANTS TypeOK ChildIsPaid MemoryIsPaid MemoryIsBounded StaticWritesNothing
PROPERTY FrameEnds
