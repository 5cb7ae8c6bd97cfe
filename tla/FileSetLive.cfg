CONSTANTS
  Paths = {1, 2}
  MaxTracked = 2
  FollowModes = {TRUE, FALSE}
  ReadSize = 2
  BufSizes = {1, 2}
  HeadSize = 1
  Persistent = TRUE
  Abandon = FALSE
  Events = {"append", "rotate", "crash"}
  ServerDuringPass = TRUE
  MaxBytes = 3
  MaxInodes = 2
SPECIFICATION FairSpec
PROPERTY ActiveLineDelivered
PROPERTY PassesMissNothing
CHECK_DEADLOCK TRUE
