CONSTANTS
  Messages <- MCMessages
  MaxHexDigits = 2
  TextLen = 3
  LSNLen = 6
  StmtLen = 4
  ListLen = 5
  CutLen = 6
  CutLimits = {3, 5}
SPECIFICATION Spec
INVARIANT TypeOK
INVARIANT Idempotent
INVARIANT ValuesDoNotMatter
CHECK_DEADLOCK FALSE
