CONSTANTS
  s = s
  t = t
  NoWorker = NoWorker
  Workers = {w1, w2}
  Drainers = {drainer}
  Senders <- TwoSenders
  Frames <- FramesOfTwo
  MaxUnrecorded = 2
  RecordAttempts = 2
  RowsPerPass = 2
  MaxCopies = 2
  MaxTimeouts = 0
  MaxErrors = 1
  MaxStops = 0
  MaxLockLosses = 1
  MaxDeletions = 0
SPECIFICATION Spec
SYMMETRY Symmetry
INVARIANTS FramesAreServedOnce RequestsKeepTheirOrder SignInsKeepTheirPassword
CHECK_DEADLOCK FALSE
