SPECIFICATION FairSpec
CONSTANTS
  Boards = {1, 2}
  MaxKey = 3
  MaxRuns = 2
  MaxCommands = 4
  MaxFaults = 1
INVARIANTS NothingIsLeftWaiting ShownNodeExists UnconfiguredNodesDoNotRelay
PROPERTIES BackupIsUsable SavedConfigurationIsOnTheNode CommandsEnd RelayingResumes
CHECK_DEADLOCK FALSE
