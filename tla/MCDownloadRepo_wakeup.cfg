\* A finished task's caller returns.
SPECIFICATION FairSpec
CONSTANTS
  Callers = {c1}
  RepoSize = 3
  KeyCount = 2
  MaxCalls = 2
  Types = {"download"}
  PyMayRaise = FALSE
  Unknown = Unknown
PROPERTIES FinishedReturns
CHECK_DEADLOCK FALSE
