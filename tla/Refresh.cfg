CONSTANTS
  Users = {a, b}
  Devices = {d1, d2}
  None = None
  Writers = {a}
  MaxMessages = 3
  PartCount = 1
  MaxAttempts = 1
  MaxActive = 1
  MaxRefreshes = 2
  MaxSignIns = 0
  MaxDeletions = 0
  MaxNodeLosses = 0
  MaxCrashes = 0
SPECIFICATION FairSignedInSpec
INVARIANTS SessionSendsInOrder RefreshesLoseNothing InProgressLimit
PROPERTIES OutstandingIsSettled
CHECK_DEADLOCK FALSE
