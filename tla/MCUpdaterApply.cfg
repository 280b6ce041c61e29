\* Every platform, and every request over three packages.
CONSTANTS
  cursor = cursor
  p1 = p1
  p2 = p2
  Package <- MCPackage
  Cursor = cursor
  All = All
  Unset = Unset
  NoCode = NoCode
  ExitCode <- MCExitCode
  RunnerDryRun = FALSE
SPECIFICATION FairSpec
INVARIANTS
  OnlyWhatWasAsked
  EveryTargetAttempted
  SuccessIsEarned
  SummaryAddsUp
PROPERTIES
  KeepsPromise
  EventuallyEnds
CHECK_DEADLOCK FALSE
