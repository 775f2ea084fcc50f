CONSTANTS
  None = None
  Contacts = {c1}
  Keys = {k1}
  MaxInFlight = 2
  MaxPackets = 3
  MaxReplies = 2
  MaxOthers = 1
  MaxDisturbances = 1
  MaxEvents = 3
SPECIFICATION FairSpec
INVARIANTS LimitsHold AcknowledgementsAreNotLost
PROPERTIES RouteDecisionsAreFinal RepeatedRepliesDoNoHarm SendingGoesOn
CHECK_DEADLOCK FALSE
