---------------------------- MODULE MCLineProtocol ---------------------------
(***************************************************************************)
(* LineProtocol with the replies the program's own prompts give as         *)
(* examples: judgments of two criteria, plans of one and two steps.        *)
(***************************************************************************)
EXTENDS LineProtocol

Wrapped(type, lines) == <<Begin(type)>> \o lines \o <<End(type)>>

OneVerdict(number, verified) ==
  Wrapped("CRITERION_VERDICT",
    <<Scalar("NUMBER", number), Scalar("VERIFIED", verified),
      Scalar(IF verified = "true" THEN "EVIDENCE" ELSE "GAP", "text")>>)

OneStep(id) ==
  Wrapped("STEP",
    <<Scalar("ID", id), Scalar("INTENT", "text"), Scalar("COMPLETION_CRITERION", "text")>>)

Judgments ==
  {Wrapped("COMPLETION_PROGRESS",
     <<Scalar("ALL_COMPLETED", second)>> \o OneVerdict("1", "true") \o OneVerdict("2", second)) :
     second \in Booleans}

StepJudgments ==
  {Wrapped("STEP_COMPLETION_PROGRESS", <<Scalar("ALL_COMPLETED", "false")>>),
   Wrapped("STEP_COMPLETION_PROGRESS",
     <<Scalar("ALL_COMPLETED", "true")>> \o
     Wrapped("COMPLETED_CRITERION", <<Scalar("NUMBER", "1"), Scalar("EVIDENCE", "text")>>))}

GoalJudgments ==
  {Wrapped("GOAL_JUDGMENT", <<Scalar("COMPLETED", "true"), Scalar("EVIDENCE", "text")>>),
   Wrapped("GOAL_JUDGMENT", <<Scalar("COMPLETED", "false"), Scalar("GAP", "text")>>)}

Decisions ==
  {Wrapped("REACT_DECISION", <<Scalar("STATUS", "completed"), Scalar("ANSWER", "text")>>),
   Wrapped("REACT_DECISION", <<Scalar("STATUS", "need_tool")>>)}

Answers == {Wrapped("ANSWER", <<Scalar("TEXT", "text")>>)}

PlanReplies ==
  {Wrapped("PLAN", <<Scalar("REVISION", "2"), Scalar("GOAL", "text")>> \o steps) :
     steps \in {OneStep("a"), OneStep("a") \o OneStep("b")}}

Replies ==
  [judgment |-> Judgments, step |-> StepJudgments, goal |-> GoalJudgments,
   decision |-> Decisions, answer |-> Answers, plan |-> PlanReplies]
=============================================================================
