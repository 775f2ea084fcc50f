SPECIFICATION Spec
CONSTANTS
  Boards = {1, 2}
  MaxKey = 3
  MaxRuns = 1
  MaxCommands = 2
  MaxFaults = 1
PROPERTY OnlyTheConfirmedNodeIsReset
CHECK_DEADLOCK FALSE
