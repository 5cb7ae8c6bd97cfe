CONSTANTS
  DetectLines = 8
  MaxLabel = 12
  NoKey <- NoText
  TrackingFactor = 2
  Jobs <- MCJobs
SPECIFICATION Spec
INVARIANT TypeOK
INVARIANT RecordsAreWhatTheServerLogged
INVARIANT CountsAreHonest
INVARIANT GrepShowsTheWindow
INVARIANT ExitTellsTheOutcome
CHECK_DEADLOCK FALSE
