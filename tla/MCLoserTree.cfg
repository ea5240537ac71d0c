CONSTANTS
  K = 3
  TimeMod = 5
  MaxChannelCnt = 4
  RowMod = 2
  Inputs <- SomeInputs
SPECIFICATION Spec
INVARIANTS TypeOK DecodedRight
PROPERTIES ImplementsMerge SortedOutput KeepsTurn
