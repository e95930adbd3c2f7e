SPECIFICATION Spec

CONSTANTS
  StepId = {"a", "b"}
  Plans <- OneStep
  MaxRevision = 2
  Decisions = {"none"}
  FaultKinds = {"cancel"}
  MaxFaults = 2

INVARIANTS
  CompletedStepNotRestarted

CHECK_DEADLOCK FALSE
