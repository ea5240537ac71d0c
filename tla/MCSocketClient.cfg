CONSTANTS
  a = a
  Callers = {a}
  Loop = Loop
  MaxFd = 2
  MaxSock = 3
  Tries = 1
SPECIFICATION Spec
INVARIANTS BooksAgree
PROPERTIES ServiceUntilMet StopSeen
CHECK_DEADLOCK FALSE
