SPECIFICATION FairSpec
CONSTANTS
  Keys = {1, 2, 3}
  Capacity = 2
  MaxChanges = 2
  MaxPackets = 1
  MaxFaults = 1
INVARIANTS ContactsFit RemovalsAreQuiet QuietMeansSynced
PROPERTIES StaleListsDoNoHarm ContactsConverge
CHECK_DEADLOCK FALSE
