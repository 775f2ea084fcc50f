CONSTANTS
  a = a
  b = b
  d1 = d1
  d2 = d2
  d3 = d3
  t1 = t1
  t2 = t2
  t3 = t3
  None = None
  Users <- MCUsers
  Devices <- MCDevices
  Texts <- MCTexts
  Drafts <- MCDrafts
  MaxSignIns = 4
  MaxExpiries = 1
  MaxDeletions = 1
SPECIFICATION Spec
INVARIANTS UploadsAreOneMessage
PROPERTIES ImplementsAcceptance
CHECK_DEADLOCK FALSE
