SPECIFICATION Spec

CONSTANTS
  MaxCalls = 3
  MaxBatch = 3
  LastRound = 2
  RecentWindow = 1
  Drafts <- ObservedOnly
  Reuses = FALSE
  Invents = FALSE

INVARIANT EvidenceKept

CHECK_DEADLOCK FALSE
