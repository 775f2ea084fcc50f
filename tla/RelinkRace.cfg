CONSTANTS
  Users = {a, b}
  Devices = {d1, d2}
  None = None
  Writers = {a}
  MaxMessages = 1
  PartCount = 1
  MaxAttempts = 1
  MaxActive = 1
  MaxRefreshes = 0
  MaxSignIns = 3
  MaxDeletions = 0
  MaxNodeLosses = 0
  MaxCrashes = 0
SPECIFICATION Spec
PROPERTY NothingOfThePreviousUserIsSent
CHECK_DEADLOCK FALSE
