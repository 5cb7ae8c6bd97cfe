CONSTANTS
  MaxRecord = 5
  ResyncPeek = 3
  MaxResyncLines = 3
  MaxLen = 5
  Workers = {w1, w2}
  ScanFormats = {"csv", "json", "stderr"}
  AutoModes = {TRUE}
  LastSources <- ExtraSources
  TargetShard = 2
  MinShard = 1
  MaxShards = 3
  CheckEvery = 1
  BothLen = 4
  FormatPeek = 4
  MaxBlind = 1
  MayFail = TRUE
  MayCancel = TRUE
SYMMETRY WorkerSymmetry
SPECIFICATION MCSpec
INVARIANT TypeOK
INVARIANT StopsSoon
INVARIANT StopIsReported
PROPERTY ImplementsScan
CHECK_DEADLOCK FALSE
