---------------------------- MODULE ExecutionModes ---------------------------
(***************************************************************************)
(* One goal through the task router (agent/task_analyzer.py) and the mode  *)
(* it selects (agent/execution.py): direct, tool_agent, react or           *)
(* plan_execute.  The durable run behind plan_execute is DurableRun's; here *)
(* it is the result it returns.                                            *)
(***************************************************************************)
EXTENDS ReactMode

VARIABLES
  mode,        \* the selected mode
  routed,      \* whether an analysis selected it
  tries        \* rejected responses in the exchange that is going on

xvars == <<rvars, mode, routed, tries>>

selection == <<mode, routed, tries>>

Modes == {"none", "direct", "tool_agent", "react", "plan_execute"}

(***************************************************************************)
(* _parse_analysis and route.  An analysis is its answers to the questions *)
(* the routing asks; expected_steps counts up to "several".                *)
(***************************************************************************)
Analysis ==
  [needs_tools : BOOLEAN, expected_steps : 0 .. 2,
   expected_horizon : {"short", "medium", "long"}, criteria : SUBSET Criterion]

Route(analysis) ==
  IF ~analysis.needs_tools THEN "direct"
  ELSE IF analysis.expected_steps <= 1 THEN "tool_agent"
  ELSE IF analysis.expected_horizon = "long" THEN "plan_execute"
  ELSE "react"

WellFormed(analysis) ==
  /\ analysis.expected_steps >= 1
  /\ analysis.criteria # {} <=> Route(analysis) = "react"

XInit == RInit /\ mode = "none" /\ routed = FALSE /\ tries = 0

Start(selected) ==
  CASE selected = "direct" -> "asking"
    [] selected \in {"tool_agent", "react"} -> "opening"
    [] selected = "plan_execute" -> "planning"

\* The criteria go with the ReAct mode only.
Select(selected, stated) ==
  /\ mode' = selected
  /\ at' = Start(selected)
  /\ criteria' = IF selected = "react" THEN stated ELSE {}
  /\ tries' = 0

unselected == <<layout, traced, runtime, clients, round, asked, results, feedback,
                memory, answer>>

\* A conversation turn may name its mode, which then has no criteria.
Chosen ==
  /\ at = "idle" /\ tries = 0
  /\ \E selected \in Modes \ {"none"} : Select(selected, {})
  /\ UNCHANGED <<unselected, routed>>

Analyzed ==
  /\ at = "idle"
  /\ \E analysis \in Analysis :
       /\ WellFormed(analysis)
       /\ Select(Route(analysis), analysis.criteria)
  /\ routed' = TRUE
  /\ UNCHANGED unselected

\* validated_text: an invalid analysis is asked for once more.
AnalysisInvalid ==
  /\ at = "idle" /\ tries = 0
  /\ tries' = 1
  /\ UNCHANGED <<rvars, mode, routed>>

\* A second invalid analysis, or a provider that fails.
AnalysisFails ==
  /\ at = "idle"
  /\ Select("plan_execute", {})
  /\ UNCHANGED <<unselected, routed>>

(***************************************************************************)
(* DirectMode and ToolAgentMode: one answer, repaired at most once.  The   *)
(* tool agent's response may call tools instead; the first call is made.   *)
(* DirectMode has no runtime, and does not close the client it was given.  *)
(***************************************************************************)
Answer(result) ==
  /\ answer' = result
  /\ at' = IF mode = "direct" THEN "done" ELSE "closing"

Answered ==
  /\ at = "asking"
  /\ \E result \in {"completed", "failed"} : Answer(result)
  /\ UNCHANGED <<held, round, asked, results, feedback, memory, selection>>

AnswerInvalid ==
  /\ at = "asking"
  /\ IF tries = 0 THEN tries' = 1 /\ UNCHANGED <<at, answer>>
                  ELSE Answer("failed") /\ UNCHANGED tries
  /\ UNCHANGED <<held, round, asked, results, feedback, memory, mode, routed>>

CallFirst(chosen, c) ==
  /\ at = "asking" /\ mode = "tool_agent"
  /\ at' = "invoking"
  /\ results' = [d \in {c} |-> "running"]
  /\ UNCHANGED <<held, round, asked, feedback, memory, answer, selection>>

\* A result that cannot be rendered raises, as an error result does.
Invoked ==
  /\ at = "invoking" /\ Running = {}
  /\ Answer(IF Failed \cup Raised = {} THEN "completed" ELSE "failed")
  /\ UNCHANGED <<held, round, asked, results, feedback, memory, selection>>

ToolAgent ==
  \/ UNCHANGED selection /\ (Open("asking", 0) \/ OpenFails("failed") \/ SetupFails("failed"))
  \/ \E chosen \in SUBSET ToolCall : \E c \in chosen : CallFirst(chosen, c)
  \/ Invoked

CancelToolAgent ==
  /\ mode = "tool_agent" /\ at \in {"asking", "invoking"}
  /\ Conclude("cancelled")
  /\ results' = [c \in DOMAIN results |-> IF c \in Running THEN "error" ELSE results[c]]
  /\ UNCHANGED <<held, round, asked, feedback, memory, selection>>

\* PlanExecuteMode.run, which turns exceptions into failures.
PlanExecuted ==
  /\ at = "planning"
  /\ at' = "done"
  /\ answer' \in {"completed", "failed", "blocked"}
  /\ UNCHANGED <<held, round, asked, results, feedback, memory, selection>>

Finish == Close \/ FreeClients

Program ==
  \/ Chosen \/ Analyzed \/ AnalysisInvalid \/ AnalysisFails
  \/ Answered \/ AnswerInvalid \/ PlanExecuted
  \/ mode = "tool_agent" /\ ToolAgent
  \/ mode = "react" /\ React /\ UNCHANGED selection
  \/ Finish /\ UNCHANGED selection

Tools == ToolCalls /\ UNCHANGED selection

XNext ==
  \/ Program \/ Tools
  \/ CancelToolAgent
  \/ (Cancel \/ OpenFails("cancelled")) /\ UNCHANGED selection

XSpec == XInit /\ [][XNext]_xvars

\* The program runs, providers and judges answer, and tool calls end.
XFairSpec == XSpec /\ WF_xvars(Program) /\ WF_xvars(Tools)

-----------------------------------------------------------------------------
XTypeOK ==
  /\ RTypeOK
  /\ mode \in Modes /\ routed \in BOOLEAN /\ tries \in 0 .. 1

\* A run of ReAct ends with the answer of its last round, and only when the
\* judgment of that round verified every criterion, whatever was verified
\* before; a routed run is never judged without criteria.
AnswerWasJudged ==
  answer = "completed" /\ mode = "react" =>
    /\ candidate.round = round
    /\ verdict = [round |-> round, verified |-> Standards]
    /\ routed => criteria # {}

\* The tool agent makes one call at most, and its answer is that call's
\* result or a response that called nothing.
OneToolCall ==
  mode = "tool_agent" =>
    /\ Cardinality(DOMAIN results) <= 1
    /\ answer = "completed" => \A c \in DOMAIN results : results[c] = "ok"

\* However a mode ends, its runtime and its clients were released before it
\* returned.
ReleasedAtEnd ==
  at = "done" /\ mode \in {"tool_agent", "react"} => runtime # "open" /\ ~clients

\* No session is left open (a runtime whose tools do not load leaves one).
SessionsClosed ==
  at = "done" => runtime = "closed"

\* A tool call that is still running when its mode has gone on was left by a
\* batch in which another call raised, and then the mode asks no model and no
\* judge any more: it is failing (asyncio.gather, of which nothing is awaited
\* but the first exception).  In every other case a mode waits for its calls.
CallsSettleFirst ==
  at \notin {"tools", "invoking"} /\ Running # {} =>
    /\ Raised # {}
    /\ at \in {"closing", "freeing", "done"}
    /\ answer \notin {"none", "completed"}

\* No tool call runs on after its mode has returned.
CallsEndFirst ==
  at = "done" => Running = {}

\* Every run ends.
RunEnds == <>(at = "done")
=============================================================================
