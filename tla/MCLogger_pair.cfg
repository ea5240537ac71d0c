\* Two threads call log(): they can pass is_full() together.
SPECIFICATION FairSpec
CONSTANTS
  p1 = p1
  p2 = p2
  NoCall = NoCall
  Producers <- TwoProducers
  EntriesNum = 2
  EntryMax = 2
  RotateAt = 2
  MaxCalls = 2
  Apis = {"error"}
  Levels = {}
  FileOpsMayFail = TRUE
INVARIANTS NoSlotShared DrainedBeforeStop
PROPERTIES OverrunOnlyWhenStale ServiceUntilOverrun LogReturns
CHECK_DEADLOCK FALSE
