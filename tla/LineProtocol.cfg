SPECIFICATION LSpec

CONSTANTS
  Seeds <- Replies
  Values = {"true", "false", "1", "2", "3", "a", "blank", "malformed", "completed"}
  Names = {"STEP", "CRITERION_VERDICT", "NUMBER", "EVIDENCE", "GAP", "ANSWER", "ERROR"}
  MaxEdits = 2
  CriterionCount = 2
  ExpectedRevision = "2"

INVARIANTS
  DecodedAsWritten

CHECK_DEADLOCK FALSE
