CONSTANTS
  Files = {1, 2}
  FollowModes = {TRUE}
  CallerOffsets = FALSE
  MaxTracked = 3
  ChunkSize = 2
  BufSizes = {1, 3}
  CanCancel = TRUE
  Truncates = FALSE
  MaxFailures = 1
  MaxBytes = 6
SPECIFICATION Spec
INVARIANT TypeOK
INVARIANT FollowerDeliversOnce
INVARIANT FollowerWithholdsPartialLine
INVARIANT HeldBackBounded
