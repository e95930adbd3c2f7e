SPECIFICATION FairSpec

CONSTANTS
  StepId = {"a", "b"}
  Plans <- TwoSteps
  MaxRevision = 2
  Decisions = {"none", "abort"}
  FaultKinds = {"crash", "cancel", "raise"}
  MaxFaults = 2

INVARIANTS
  CommonVersionAgrees
  RunningRowsAccepted
  RecoveredStepIsMarked
  RecoveredAttempt
  EndedResultReturned

PROPERTIES
  CheckpointedFailureIsFinal
  ImplementsPlanExecution
  EventuallySettled

CHECK_DEADLOCK FALSE
