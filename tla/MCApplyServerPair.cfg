\* Two sessions on one machine, two lines each.
CONSTANTS
  s1 = s1
  s2 = s2
  Session <- MCSession
  Request <- MCPair
  MaxSent = 2
  MaxProgress = 0
SPECIFICATION Spec
INVARIANTS
  EndsForItsOwnCause
SYMMETRY Symmetry
CHECK_DEADLOCK FALSE
