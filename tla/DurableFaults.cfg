SPECIFICATION Spec

CONSTANTS
  StepId = {"a", "b"}
  Plans <- TwoSteps
  MaxRevision = 2
  Decisions = {"none", "fail", "abort"}
  FaultKinds = {"crash", "cancel", "raise", "abandon"}
  MaxFaults = 3

INVARIANTS
  TypeOK
  StepsInPlanOrder
  TerminalStatusJustified
  AttemptsAreNumbered
  ContextIsTrustworthy

PROPERTIES
  CheckpointedCompletionIsFinal

CHECK_DEADLOCK FALSE
