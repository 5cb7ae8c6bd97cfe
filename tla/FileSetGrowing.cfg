CONSTANTS
  Paths = {1, 2}
  MaxTracked = 2
  FollowModes = {TRUE}
  ReadSize = 2
  BufSizes = {1, 2}
  HeadSize = 1
  Persistent = TRUE
  Abandon = TRUE
  Events = {"append", "rotate", "crash"}
  ServerDuringPass = TRUE
  MaxBytes = 4
  MaxInodes = 2
SPECIFICATION Spec
INVARIANT TypeOK
PROPERTY ImplementsLogStream
INVARIANT StoredOffsetSkipsNoLineEnd
INVARIANT FollowerWithholdsPartialLine
INVARIANT ResumePointIsFirstHeldByte
CHECK_DEADLOCK TRUE
