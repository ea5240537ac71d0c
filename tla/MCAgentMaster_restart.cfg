\* An agent that dies is restarted.
SPECIFICATION FairSpec
CONSTANTS
  MaxPid = 4
  MaxProc = 2
  ProcNums = {1}
  StartLimit = 2
  ResetStarts = {0, 1}
PROPERTIES DeadRestarted
CHECK_DEADLOCK FALSE
