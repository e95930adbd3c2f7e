SPECIFICATION Spec

CONSTANTS
  Owner = {"p", "q"}
  LeaseTicks = 4
  FaultKinds = {"database"}
  MaxFaults = 1

INVARIANTS
  AtMostOneExecutor

CHECK_DEADLOCK FALSE
