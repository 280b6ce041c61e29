\* Two clicks, the second after the first or on top of it.
CONSTANTS
  Cursor = Cursor
  other = other
  Package <- MCPackage
  Hosts = {"scripts"}
  Polls = 1
  MaxClicks = 2
  MaxDepth = 2
  MaxCrashes = 0
SPECIFICATION Spec
INVARIANTS
  OneApplyAtATime
  ActionsFollowTheApply
  InstallsElevated
PROPERTIES
  KeepsPromise
CHECK_DEADLOCK FALSE
