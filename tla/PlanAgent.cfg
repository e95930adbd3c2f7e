SPECIFICATION AFairSpec

CONSTANTS
  StepId = {"a", "b"}
  Plans <- SmallPlans
  MaxRevision = 3
  ToolCall = {c1, c2}
  MaxRounds = 2
  Checkpointed = TRUE
  Messages = FALSE

INVARIANTS
  BudgetHolds
  SessionsClosed
PROPERTIES
  CompletionsAreJudged
  ImplementsPlanExecution
  RunEnds

CHECK_DEADLOCK FALSE
