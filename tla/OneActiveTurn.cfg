SPECIFICATION Spec

CONSTANTS
  Caller = {"c1", "c3"}
  Resumer = {"r1"}
  Service = {"s1", "s2"}
  ServiceOf <- Shared
  Modes = {"ephemeral", "plan_execute"}
  FaultKinds = {"crash", "cancel", "raise"}
  MaxFaults = 1

INVARIANTS
  OneActiveTurn

CHECK_DEADLOCK FALSE
