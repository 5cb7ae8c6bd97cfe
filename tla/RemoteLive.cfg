CONSTANTS
  Files = {1, 2}
  FollowModes = {TRUE, FALSE}
  CallerOffsets = TRUE
  MaxTracked = 1
  ChunkSize = 2
  BufSizes = {1, 3}
  CanCancel = FALSE
  Truncates = TRUE
  MaxFailures = 1
  MaxBytes = 3
SPECIFICATION FairSpec
INVARIANT StoredOffsetIsAccountedFor
PROPERTY ImplementsLogStream
PROPERTY CompleteLineDelivered
PROPERTY TruncatedFileRestarts
