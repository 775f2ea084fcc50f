CONSTANTS
  Users = {a, b}
  Devices = {d1, d2}
  None = None
  Writers = {a}
  MaxMessages = 1
  MaxAttempts = 2
  MaxRefreshes = 1
  MaxSignIns = 4
  MaxDeletions = 1
  MaxFailures = 1
SPECIFICATION FairSpec
INVARIANTS RowsAreValid ReceiptsNameTheCurrentLevel LiveReceiptsBelongToTheSender FinishedAttemptsWereSent
PROPERTIES LevelsNeverFall ReceiptsAreSettled
CHECK_DEADLOCK FALSE
