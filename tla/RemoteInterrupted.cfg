CONSTANTS
  Files = {1, 2}
  FollowModes = {TRUE, FALSE}
  CallerOffsets = TRUE
  MaxTracked = 3
  ChunkSize = 2
  BufSizes = {1}
  CanCancel = TRUE
  Truncates = FALSE
  MaxFailures = 0
  MaxBytes = 5
SPECIFICATION Spec
INVARIANT StoredOffsetIsAccountedFor
