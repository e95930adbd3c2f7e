SPECIFICATION XFairSpec

CONSTANTS
  ToolCall = {c1, c2}
  Criterion = {"k1", "k2"}
  MaxRounds = 3

INVARIANTS
  AnswerWasJudged
  
  CallsSettleFirst
  VerdictShown
PROPERTIES
  RunEnds

CHECK_DEADLOCK FALSE
