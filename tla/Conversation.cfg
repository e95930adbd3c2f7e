SPECIFICATION FairSpec

CONSTANTS
  Caller = {"c1", "c3"}
  Resumer = {"r1"}
  Service = {"s1", "s2"}
  ServiceOf <- Shared
  Modes = {"ephemeral", "plan_execute"}
  FaultKinds = {"crash", "cancel", "raise"}
  MaxFaults = 3

INVARIANTS
  TurnRecordedFirst
  OutcomeFollowsRun
PROPERTIES
  AbandonedTurnEnds

CHECK_DEADLOCK FALSE
