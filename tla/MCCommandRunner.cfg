\* Both methods on a POSIX system: a deadline three polls away, up to three output lines.
CONSTANTS
  official = official
  unofficial = unofficial
  text = text
  blank = blank
  eof = eof
  Command <- MCCommand
  Approved <- MCApproved
  RunnerDryRun = TRUE
  Line <- MCLine
  Blank <- MCBlank
  EOF = eof
  ExitCode <- MCExitCode
  Timeout = 3
  Grace = 2
  Windows = FALSE
  MaxLines = 3
SPECIFICATION FairSpec
INVARIANTS
  OutputConserved
  ShownIsVisible
  CompleteMeansAll
  NoRunawayChild
  NothingBeforeRecord
  NotCutShort
PROPERTIES
  EventuallyEnds
  KeepsPromise
CHECK_DEADLOCK FALSE
