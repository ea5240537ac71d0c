\* Two slots; every launch, fork, failure, death and signal.
SPECIFICATION FairSpec
CONSTANTS
  MaxPid = 4
  MaxProc = 3
  ProcNums = {2}
  StartLimit = 2
  ResetStarts = {0, 1}
INVARIANTS OneLaunched OneAgentPerSlot LostOnlyEarly DeathsAnnounced
PROPERTIES ServiceUntilTurned RecordedRestarted
CHECK_DEADLOCK FALSE
