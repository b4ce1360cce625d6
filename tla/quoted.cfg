CONSTANTS
  Settings <- MCSettings
  OutOfMemory = TRUE
  JunkTrips <- MCJunkTrips
  ForgedLens = {1, 14}
  MaxSent = 2
  MaxTotal = 2
  MaxNow = 2
SPECIFICATION Spec
CHECK_DEADLOCK FALSE
INVARIANT ErrorsReported
