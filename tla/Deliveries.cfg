CONSTANTS
  Users = {a, b}
  Devices = {d1, d2}
  None = None
  Writers = {a}
  MaxMessages = 1
  PartCount = 2
  MaxAttempts = 2
  MaxActive = 1
  MaxRefreshes = 1
  MaxSignIns = 2
  MaxDeletions = 1
  MaxNodeLosses = 1
  MaxCrashes = 1
SPECIFICATION FairSignedInSpec
ACTION_CONSTRAINT ThreeEvents
INVARIANTS TypeOK FinishedRoundsWereSent LiveDeliveriesBelongToTheOwner
PROPERTIES DeliveredIsFinalAndKnown OutstandingIsSettled
CHECK_DEADLOCK FALSE
