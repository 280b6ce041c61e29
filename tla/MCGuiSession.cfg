\* One click on every kind of machine, with a backend that may die.
CONSTANTS
  Cursor = Cursor
  other = other
  Package <- MCPackage
  Hosts = {"scripts", "managed", "bare", "posix"}
  Polls = 1
  MaxClicks = 1
  MaxDepth = 1
  MaxCrashes = 1
SPECIFICATION FairSpec
INVARIANTS
  ChangesAreConfirmed
  AppliedOnce
PROPERTIES
  HandlersEnd
CHECK_DEADLOCK FALSE
