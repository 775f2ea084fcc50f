CONSTANTS
  None = None
  Contacts = {c1}
  Keys = {k1}
  MaxInFlight = 2
  MaxPackets = 3
  MaxReplies = 2
  MaxOthers = 1
  MaxDisturbances = 1
  MaxEvents = 4
SPECIFICATION Spec
INVARIANTS ResendsAreTheNewestReply
CHECK_DEADLOCK FALSE
