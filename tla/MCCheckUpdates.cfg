\* Every command on every system, and check_updates on every kind of machine.
CONSTANTS
  Commands <- MCCommands
  Folded <- MCFolded
  Machines <- MCMachines
  Lines <- MCLines
SPECIFICATION Spec
INVARIANTS
  TypeOK
  ApprovesOnlyOfficial
  UpdatersAgreeWithRegistry
  RunsAreApprovedListings
  EmptyAnswerIsTrue
CHECK_DEADLOCK FALSE
