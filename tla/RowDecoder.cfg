SPECIFICATION FairSpec
CONSTANTS
  Pictures <- AllPictures
INVARIANTS TypeOK SignalComes HookOnlyWhenLaunched LinesAreFinal LinesInOrder QuietWhenTornDown FailureHasStatus
PROPERTIES DecodeEnds
CHECK_DEADLOCK FALSE
