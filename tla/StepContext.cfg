SPECIFICATION SFairSpec

CONSTANTS
  MaxCalls = 4
  MaxBatch = 2
  LastRound = 3
  RecentWindow = 1
  Drafts <- Drafted
  Reuses = FALSE
  Invents = FALSE
  ToolCall <- Places
  MaxRounds = 2
  Checkpointed = TRUE
  Messages = TRUE

INVARIANTS
  RawFallback
  NewestBatchAccounted
  ObservedOnce
  LostOnlyToOvertaking
  RangeBegins
  ErrorsReachModel
  NoEvidenceOfFailure
PROPERTIES
  StepEnds

CHECK_DEADLOCK FALSE
