----------------------------- MODULE StepExecutor ----------------------------
(***************************************************************************)
(* One Plan step (agent/executor.py): rounds of a model request and its    *)
(* tool batch, until a nonempty response without tool calls is accepted by *)
(* the completion judge, the round budget is used up, or something raises. *)
(* The Executor is opened once for a run and executes steps one by one; it *)
(* opens its MCP session with the first of them.                           *)
(*                                                                         *)
(* A response is modelled by its tool calls and by whether its text is     *)
(* empty; a judgment by what _decode_step_judgment makes of it.  Whether   *)
(* the context policy can maintain its budget is a free choice here;       *)
(* StepContext puts RuntimeContext in its place.                           *)
(***************************************************************************)
EXTENDS Naturals, FiniteSets

CONSTANTS
  ToolCall,      \* the calls a response may make, by their place in the batch
  MaxRounds,     \* max_rounds of the Executor (50 in the code)
  Checkpointed,  \* whether the Executor has a checkpointer
  Messages       \* whether the context layout is "messages", else "grouped"

ASSUME RoundsAssumption == MaxRounds \in Nat \ {0}
ASSUME CallAssumption == IsFiniteSet(ToolCall)
ASSUME ModeAssumption == Checkpointed \in BOOLEAN /\ Messages \in BOOLEAN

VARIABLES
  at,            \* where the Executor is
  rounds,        \* _rounds
  requests,      \* history: operational requests of this step
  batches,       \* history: tool batches of this step
  results,       \* the calls of the newest batch and what became of them
  feedback,      \* pending_messages: failed calls, or the criterion's note
  verdict,       \* history: the last judgment, the request whose answer it was
                 \* about, and the tool batches that had run by then
  outcome,       \* how the step ended
  sessions,      \* MCP sessions that are open
  held           \* what the Executor has: no session, a bare one, or its tools

evars == <<at, rounds, requests, batches, results, feedback, verdict, outcome, sessions, held>>

Place == {"closed", "idle", "opening", "context", "requesting", "tools",
          "candidate", "judge_context", "judging", "repairing", "ended"}
CallStatus == {"running", "ok", "error"}
Judgment   == {"accepted", "pending", "invalid"}

NoBatch   == [c \in {} |-> "ok"]
NoFeedback == [failed |-> {}, criterion |-> FALSE]
NoVerdict == [on |-> 0, after |-> 0, says |-> "pending"]

EInit ==
  /\ at = "closed"
  /\ rounds = 0 /\ requests = 0 /\ batches = 0
  /\ results = NoBatch
  /\ feedback = NoFeedback
  /\ verdict = NoVerdict
  /\ outcome = "none"
  /\ sessions = 0
  /\ held = "nothing"

Failures == {c \in DOMAIN results : results[c] = "error"}

(***************************************************************************)
(* __aenter__ and __aexit__.  Only the session it holds is closed.         *)
(***************************************************************************)
Enter ==
  /\ at = "closed"
  /\ at' = "idle"
  /\ UNCHANGED <<rounds, requests, batches, results, feedback, verdict, outcome, sessions, held>>

\* Mutant of Exit: a session whose tools were not loaded is not closed.
ExitWithTools ==
  /\ at = "idle"
  /\ at' = "closed"
  /\ sessions' = IF held = "tools" THEN sessions - 1 ELSE sessions
  /\ held' = "nothing"
  /\ UNCHANGED <<rounds, requests, batches, results, feedback, verdict, outcome>>

Exit ==
  /\ at = "idle"
  /\ at' = "closed"
  /\ sessions' = IF held = "nothing" THEN sessions ELSE sessions - 1
  /\ held' = "nothing"
  /\ UNCHANGED <<rounds, requests, batches, results, feedback, verdict, outcome>>

(***************************************************************************)
(* execute: the ways a step ends.  A failing judge fails the step; any     *)
(* other exception stops a checkpointed run (PersistenceError).            *)
(***************************************************************************)
EndWith(result) ==
  /\ at' = "ended"
  /\ outcome' = result

Raise == EndWith(IF Checkpointed THEN "raised" ELSE "failed")

\* The coordinator has taken the outcome.
Return ==
  /\ at = "ended"
  /\ at' = "idle"
  /\ UNCHANGED <<rounds, requests, batches, results, feedback, verdict, outcome, sessions, held>>

\* A step starts with a fresh context policy and a fresh round counter.
Begin ==
  /\ at = "idle"
  /\ at' = IF held = "tools" THEN "context" ELSE "opening"
  /\ rounds' = 0 /\ requests' = 0 /\ batches' = 0
  /\ results' = NoBatch
  /\ feedback' = NoFeedback
  /\ verdict' = NoVerdict
  /\ outcome' = "none"
  /\ UNCHANGED <<sessions, held>>

Open ==
  /\ at = "opening"
  /\ at' = "context"
  /\ sessions' = sessions + 1
  /\ held' = "tools"
  /\ UNCHANGED <<rounds, requests, batches, results, feedback, verdict, outcome>>

\* The session opens, but its tools cannot be loaded or are not accepted.
OpenToolless ==
  /\ at = "opening"
  /\ sessions' = sessions + 1
  /\ held' = "session"
  /\ Raise
  /\ UNCHANGED <<rounds, requests, batches, results, feedback, verdict>>

OpenFails ==
  /\ at = "opening"
  /\ Raise
  /\ held' = "nothing"
  /\ UNCHANGED <<rounds, requests, batches, results, feedback, verdict, sessions>>

(***************************************************************************)
(* maintain, before each operational request, before a candidate is judged *)
(* and, in the messages layout, once more for the judge's own request.     *)
(***************************************************************************)
Maintained ==
  /\ \/ at = "context"       /\ at' = "requesting" /\ requests' = requests + 1
     \/ at = "candidate"     /\ at' = (IF Messages THEN "judge_context" ELSE "judging")
                             /\ UNCHANGED requests
     \/ at = "judge_context" /\ at' = "judging" /\ UNCHANGED requests
  /\ UNCHANGED <<rounds, batches, results, feedback, verdict, outcome, sessions, held>>

MaintainFails ==
  /\ at \in {"context", "candidate", "judge_context"}
  /\ Raise
  /\ UNCHANGED <<rounds, requests, batches, results, feedback, verdict, sessions, held>>

(***************************************************************************)
(* The response to an operational request.                                 *)
(***************************************************************************)
ProviderFails ==
  /\ at = "requesting"
  /\ Raise
  /\ UNCHANGED <<rounds, requests, batches, results, feedback, verdict, sessions, held>>

\* Mutant of CallTools: the budget is checked with the counter one behind.
CallToolsLate(chosen) ==
  /\ at = "requesting" /\ rounds <= MaxRounds
  /\ rounds' = rounds + 1
  /\ batches' = batches + 1
  /\ results' = [c \in chosen |-> "running"]
  /\ feedback' = NoFeedback
  /\ at' = "tools"
  /\ UNCHANGED <<requests, verdict, outcome, sessions, held>>

CallTools(chosen) ==
  /\ at = "requesting" /\ rounds < MaxRounds
  /\ rounds' = rounds + 1
  /\ batches' = batches + 1
  /\ results' = [c \in chosen |-> "running"]
  /\ feedback' = NoFeedback
  /\ at' = "tools"
  /\ UNCHANGED <<requests, verdict, outcome, sessions, held>>

CallToolsExhausted ==
  /\ at = "requesting" /\ rounds >= MaxRounds
  /\ EndWith("failed")
  /\ UNCHANGED <<rounds, requests, batches, results, feedback, verdict, sessions, held>>

\* A rejected candidate and an empty response cost a round each.
Reject ==
  /\ rounds' = rounds + 1
  /\ IF rounds' >= MaxRounds
     THEN EndWith("failed") /\ UNCHANGED feedback
     ELSE at' = "context" /\ feedback' = [failed |-> {}, criterion |-> TRUE] /\ UNCHANGED outcome

RespondEmpty ==
  /\ at = "requesting"
  /\ Reject
  /\ UNCHANGED <<requests, batches, results, verdict, sessions, held>>

Propose ==
  /\ at = "requesting"
  /\ at' = "candidate"
  /\ UNCHANGED <<rounds, requests, batches, results, feedback, verdict, outcome, sessions, held>>

(***************************************************************************)
(* _settle_tool_batch: the calls of a batch run concurrently, and when the *)
(* tool graph itself raises every call is reported as failed.              *)
(***************************************************************************)
CallEnds(c, status) ==
  /\ at = "tools" /\ results[c] = "running"
  /\ results' = [results EXCEPT ![c] = status]
  /\ UNCHANGED <<at, rounds, requests, batches, feedback, verdict, outcome, sessions, held>>

BatchFails ==
  /\ at = "tools"
  /\ \E c \in DOMAIN results : results[c] = "running"
  /\ results' = [c \in DOMAIN results |-> "error"]
  /\ UNCHANGED <<at, rounds, requests, batches, feedback, verdict, outcome, sessions, held>>

\* In the messages layout the failed calls come back with the Runtime context.
SettleBatch ==
  /\ at = "tools"
  /\ \A c \in DOMAIN results : results[c] # "running"
  /\ feedback' = [failed |-> IF Messages THEN {} ELSE Failures, criterion |-> FALSE]
  /\ at' = "context"
  /\ UNCHANGED <<rounds, requests, batches, results, verdict, outcome, sessions, held>>

(***************************************************************************)
(* _judge_step_completion: one repair of an invalid judgment; a second     *)
(* invalid one counts as pending; a provider error fails the step.         *)
(***************************************************************************)
Judged(judgment) == [on |-> requests, after |-> batches, says |-> judgment]

Decide(judgment) ==
  /\ verdict' = Judged(judgment)
  /\ IF judgment = "accepted"
     THEN EndWith("completed") /\ UNCHANGED <<rounds, feedback>>
     ELSE Reject

\* Mutant of Judge: an invalid judgment is not told from an acceptance.
JudgeLenient(judgment) ==
  /\ at = "judging"
  /\ verdict' = Judged(judgment)
  /\ IF judgment # "pending"
     THEN EndWith("completed") /\ UNCHANGED <<rounds, feedback>>
     ELSE Reject
  /\ UNCHANGED <<requests, batches, results, sessions, held>>

Judge(judgment) ==
  /\ at = "judging"
  /\ IF judgment = "invalid"
     THEN at' = "repairing" /\ UNCHANGED <<rounds, feedback, outcome, verdict>>
     ELSE Decide(judgment)
  /\ UNCHANGED <<requests, batches, results, sessions, held>>

Repair(judgment) ==
  /\ at = "repairing"
  /\ Decide(judgment)
  /\ UNCHANGED <<requests, batches, results, sessions, held>>

JudgeFails ==
  /\ at \in {"judging", "repairing"}
  /\ EndWith("failed")
  /\ UNCHANGED <<rounds, requests, batches, results, feedback, verdict, sessions, held>>

\* What execute() does between two calls of the coordinator.
ToolCalls ==
  \/ \E c \in DOMAIN results : \E status \in {"ok", "error"} : CallEnds(c, status)
  \/ BatchFails

Respond ==
  \/ \E chosen \in SUBSET ToolCall \ {{}} : CallTools(chosen)
  \/ CallToolsExhausted \/ RespondEmpty \/ Propose \/ ProviderFails

Judging == JudgeFails \/ \E judgment \in Judgment : Judge(judgment) \/ Repair(judgment)

Opening == Open \/ OpenToolless \/ OpenFails

Work ==
  Opening \/ Maintained \/ MaintainFails \/ Respond \/ ToolCalls \/ SettleBatch \/ Judging

-----------------------------------------------------------------------------
ETypeOK ==
  /\ at \in Place
  /\ rounds \in 0 .. MaxRounds + 1
  /\ requests \in Nat /\ batches \in Nat
  /\ DOMAIN results \subseteq ToolCall
  /\ results \in [DOMAIN results -> CallStatus]
  /\ feedback \in [failed : SUBSET ToolCall, criterion : BOOLEAN]
  /\ verdict \in [on : Nat, after : Nat, says : Judgment]
  /\ outcome \in {"none", "completed", "failed", "raised"}
  /\ sessions \in Nat
  /\ held \in {"nothing", "session", "tools"}

\* The budget, checked at three places: a step never runs more than MaxRounds
\* tool batches nor makes more than MaxRounds + 1 operational requests, and
\* every request but the one in progress was paid with a round.
BudgetHolds ==
  /\ batches <= rounds /\ batches <= MaxRounds
  /\ requests <= MaxRounds + 1
  /\ at = "context" => requests = rounds /\ rounds <= MaxRounds

\* No tool call is running while a model or the judge is asked, and none
\* outlives its step.
NoCallOutlives ==
  at # "tools" => \A c \in DOMAIN results : results[c] # "running"
=============================================================================
