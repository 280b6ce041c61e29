\* One session, up to three lines sent ahead of the answers.
CONSTANTS
  s1 = s1
  s2 = s2
  Session = {s1}
  Request <- MCRequest
  MaxSent = 3
  MaxProgress = 1
SPECIFICATION FairSpec
INVARIANTS
  AnswersInOrder
  ProgressBelongs
  ChangesAreGated
  ChangesAreAudited
  ShutdownIsLast
PROPERTIES
  EveryRequestAnswered
CHECK_DEADLOCK FALSE
