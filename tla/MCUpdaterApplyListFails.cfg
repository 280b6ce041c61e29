\* A skip list when the listing fails.
CONSTANTS
  cursor = cursor
  p1 = p1
  p2 = p2
  Package <- MCPackage
  Cursor = cursor
  All = All
  Unset = Unset
  NoCode = NoCode
  ExitCode <- MCExitCode
  RunnerDryRun = FALSE
SPECIFICATION Spec
INVARIANTS
  SkipReportTruthful
CHECK_DEADLOCK FALSE
