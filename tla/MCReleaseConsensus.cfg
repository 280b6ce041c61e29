\* Two edits of any field, two status runs and one tag.
CONSTANTS
  Versions = {"1.2.0", "1.3.0", "unknown"}
  FirstTree <- MCFirstTree
  Edits <- MCEdits
  MaxEdits = 2
  MaxRuns = 2
SPECIFICATION Spec
PROPERTIES
  GatesJudgeTheTag
  ApprovedMeansGreen
  RecordIsCommittedFirst
CHECK_DEADLOCK FALSE
