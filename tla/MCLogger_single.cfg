\* One thread calls log(); the ring wraps; the file may fail to open.
SPECIFICATION FairSpec
CONSTANTS
  p1 = p1
  p2 = p2
  NoCall = NoCall
  Producers <- OneProducer
  EntriesNum = 3
  EntryMax = 2
  RotateAt = 2
  MaxCalls = 5
  Apis = {"debug"}
  Levels = {1}
  FileOpsMayFail = TRUE
INVARIANTS NoOverrun
PROPERTIES ShutdownHonoured AcceptedWritten ImplementsService
CHECK_DEADLOCK FALSE
