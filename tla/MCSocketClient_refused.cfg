CONSTANTS
  a = a
  Callers = {a}
  Loop = Loop
  MaxFd = 2
  MaxSock = 3
  Tries = 1
SPECIFICATION Spec
PROPERTIES ConnectedMeansUp
CHECK_DEADLOCK FALSE
