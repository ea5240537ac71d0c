\* Fewer callers than positions; keys and positions come round together.
SPECIFICATION Spec
CONSTANTS
  Callers = {c1, c2, c3}
  RepoSize = 4
  KeyCount = 4
  MaxCalls = 2
  Types = {"download"}
  PyMayRaise = FALSE
  Unknown = Unknown
SYMMETRY Symmetry
INVARIANTS ServedInOrder SharedOnlyApart NeverLapped VKept
PROPERTIES ImplementsTasks
CHECK_DEADLOCK FALSE
