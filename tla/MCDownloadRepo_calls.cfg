\* The ring fills and is lapped, keys come round, Python may raise.
SPECIFICATION FairSpec
CONSTANTS
  Callers = {c1, c2}
  RepoSize = 2
  KeyCount = 2
  MaxCalls = 2
  Types = {"download", "init"}
  PyMayRaise = TRUE
  Unknown = Unknown
INVARIANTS NoLostWakeup
PROPERTIES LappedOnlyAtTurn ReturnsUnless
CHECK_DEADLOCK FALSE
