\* An update of a selection that holds Cursor.
CONSTANTS
  Cursor = Cursor
  other = other
  Package <- MCPackage
  Hosts = {"scripts"}
  Polls = 1
  MaxClicks = 1
  MaxDepth = 1
  MaxCrashes = 0
SPECIFICATION Spec
INVARIANTS
  SkippedCursorStays
CHECK_DEADLOCK FALSE
