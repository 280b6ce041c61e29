\* Three calls and the shutdown that close() makes, one progress line per apply.
CONSTANTS
  Methods <- MCMethods
  MaxCalls = 3
  MaxReports = 1
  StderrRoom = 1
SPECIFICATION FairSpec
INVARIANTS
  AnswerIsOwn
  CloseIsClean
  CliExitIsHonest
PROPERTIES
  CallsEnd
CHECK_DEADLOCK FALSE
