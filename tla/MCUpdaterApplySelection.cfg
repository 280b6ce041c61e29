\* A selection handed to the updaters.
CONSTANTS
  cursor = cursor
  p1 = p1
  p2 = p2
  Package <- MCPackage
  Cursor = cursor
  All = All
  Unset = Unset
  NoCode = NoCode
  ExitCode <- MCExitCode
  RunnerDryRun = FALSE
SPECIFICATION Spec
INVARIANTS
  SelectionHonoured
CHECK_DEADLOCK FALSE
