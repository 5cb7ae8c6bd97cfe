CONSTANTS
  Paths = {1}
  MaxTracked = 1
  FollowModes = {TRUE}
  ReadSize = 2
  BufSizes = {1, 2}
  HeadSize = 1
  Persistent = TRUE
  Abandon = FALSE
  Events = {"append", "rename"}
  ServerDuringPass = TRUE
  MaxBytes = 3
  MaxInodes = 2
SPECIFICATION FairSpec
PROPERTY ActiveLineDelivered
CHECK_DEADLOCK TRUE
