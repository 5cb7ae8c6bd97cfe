CONSTANTS
  MaxRecord = 4
  ReadFormats = {"csv", "json", "stderr"}
  AutoModes = {TRUE, FALSE}
  TailModes = {TRUE, FALSE}
  Endings = {"EOF", "broken"}
  MayStall = TRUE
  ReadSizes = {1, 3}
  InitialBuffer = 3
  FormatPeek = 3
  ResyncPeek = 3
  MaxResyncLines = 4
  MaxLen = 5
  MaxSeeks = 1
SPECIFICATION Spec
INVARIANT TypeOK
INVARIANT BufferMirrorsStream
INVARIANT RecordsAreThoseOfTheInput
INVARIANT FailureIsReported
INVARIANT SeekKeepsEveryRecord
INVARIANT SeekLandsAtBoundary
PROPERTY CallsReturn
CHECK_DEADLOCK FALSE
