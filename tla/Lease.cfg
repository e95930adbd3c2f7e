SPECIFICATION FairSpec

CONSTANTS
  Owner = {"p", "q", "r"}
  LeaseTicks = 4
  FaultKinds = {"crash", "cancel", "raise", "database"}
  MaxFaults = 3

INVARIANTS
  PunctualExclusion
  NoWorkAfterCompletion
PROPERTIES
  CompletedIsFinal
  EventuallyTerminal

CHECK_DEADLOCK FALSE
