CONSTANTS
  s = s
  t = t
  NoWorker = NoWorker
  Workers = {w1}
  Drainers = {drainer}
  Senders <- OneSender
  Frames <- SignInAndAcknowledgement
  MaxUnrecorded = 1
  RecordAttempts = 1
  RowsPerPass = 1
  MaxCopies = 2
  MaxTimeouts = 1
  MaxErrors = 1
  MaxStops = 1
  MaxLockLosses = 0
  MaxDeletions = 1
SPECIFICATION FairSpec
INVARIANTS CrashesCostLittle
PROPERTIES NothingStaysUnprocessed RequestsAreAnswered
CHECK_DEADLOCK FALSE
