CONSTANTS
  Paths = {1, 2}
  MaxTracked = 2
  FollowModes = {FALSE}
  ReadSize = 2
  BufSizes = {2}
  HeadSize = 2
  Persistent = TRUE
  Abandon = FALSE
  Events = {"append", "rotate", "crash", "rename", "truncate", "reuse", "remove"}
  ServerDuringPass = FALSE
  MaxBytes = 3
  MaxInodes = 2
SPECIFICATION Spec
INVARIANT AtMostOnce
INVARIANT PassIsComplete
INVARIANT NoGapWithinFile
CHECK_DEADLOCK TRUE
