------------------------------- MODULE ReactMode -----------------------------
(***************************************************************************)
(* ReAct (agent/execution.py, ReactMode): rounds of one model request, at  *)
(* most MaxRounds of them.  A response calls tools, or decides: it fails,  *)
(* asks for another tool, or proposes an answer, which a completion judge  *)
(* accepts or rejects.  The mode owns a tool runtime (ToolRuntime) and the *)
(* HTTP clients of its models, and releases both however it ends.          *)
(*                                                                         *)
(* Responses are modelled by what the program makes of them.  A judgment   *)
(* is the set of standards it verifies: the completion criteria or, where  *)
(* there are none, the goal itself.  How a judgment's text is decoded is   *)
(* LineProtocol's subject, what a Runtime context shows RuntimeContext's.  *)
(***************************************************************************)
EXTENDS Naturals, FiniteSets

CONSTANTS
  ToolCall,    \* the calls a response may make, by their place in the batch
  Criterion,   \* the completion criteria an analysis may state
  MaxRounds    \* max_rounds (50 in the code)

ASSUME RoundsAssumption == MaxRounds \in Nat \ {0}
ASSUME CallAssumption == IsFiniteSet(ToolCall)

VARIABLES
  at,          \* where the mode is
  layout,      \* the Runtime context's layout, "none" without a policy
  traced,      \* whether the run has a trace
  criteria,    \* _completion_criteria
  runtime,     \* the tool runtime: closed, a session without tools, or open
  clients,     \* whether the owned HTTP clients are open
  round,       \* round_number, 0 before the loop
  asked,       \* history: requests to the model and to the judge
  results,     \* the calls of the newest batch and what became of them
  feedback,    \* what the host tells the model in its next request
  candidate,   \* history: the round of the last proposal and its form
  verdict,     \* history: the last judgment and the round it was made in
  prior,       \* historical_criterion_evidence: criteria verified at some time
  answer       \* how the run ended

rvars == <<at, layout, traced, criteria, runtime, clients, round, asked, results,
           feedback, candidate, verdict, prior, answer>>

\* What only the mode's start, its runtime and its end change.
held == <<layout, traced, criteria, runtime, clients>>
memory == <<candidate, verdict, prior>>

Layout == {"none", "grouped", "messages"}
Place == {"idle", "opening", "context", "requesting", "tools", "judge_context",
          "judging", "repairing", "closing", "freeing", "done",
          "asking", "invoking", "planning"}   \* the other modes' (ExecutionModes)
Working == {"context", "requesting", "tools", "judge_context", "judging", "repairing"}
CallStatus == {"running", "ok", "error", "raised"}
Note == {"protocol", "need_tool", "verdict", "unjudged", "errors"}

NoBatch == [c \in {} |-> "ok"]
Goal == "the goal"
Standards == IF criteria = {} THEN {Goal} ELSE criteria

Running == {c \in DOMAIN results : results[c] = "running"}
Raised  == {c \in DOMAIN results : results[c] = "raised"}
Failed  == {c \in DOMAIN results : results[c] = "error"}

RInit ==
  /\ at = "idle"
  /\ layout \in Layout /\ traced \in BOOLEAN
  /\ criteria = {}
  /\ runtime = "closed" /\ clients = TRUE
  /\ round = 0
  /\ asked = [model |-> 0, judge |-> 0]
  /\ results = NoBatch
  /\ feedback = {}
  /\ candidate = [round |-> 0, form |-> "none"]
  /\ verdict = [round |-> 0, verified |-> {}]
  /\ prior = {}
  /\ answer = "none"

(***************************************************************************)
(* The tool runtime and the clients.  A runtime whose __aenter__ raises is *)
(* not exited: a session opened before its tools failed to load stays.     *)
(***************************************************************************)
Conclude(result) == at' = "closing" /\ answer' = result

\* phase and round_number are first assigned in the loop: an exception before
\* it makes the handler itself raise when it has a trace to report to.
SetupFailure == IF traced THEN "raised" ELSE "failed"

Open(next, first) ==
  /\ at = "opening"
  /\ runtime' = "open"
  /\ at' = next
  /\ round' = first
  /\ UNCHANGED <<layout, traced, criteria, clients, asked, results, feedback, memory, answer>>

\* Mutant of OpenFails: the clients are released inside the runtime's block.
OpenFailsBare(result) ==
  /\ at = "opening"
  /\ runtime' \in {"closed", "session"}
  /\ at' = "done" /\ answer' = result
  /\ UNCHANGED <<layout, traced, criteria, clients, round, asked, results, feedback, memory>>

OpenFails(result) ==
  /\ at = "opening"
  /\ runtime' \in {"closed", "session"}
  /\ at' = "freeing" /\ answer' = result
  /\ UNCHANGED <<layout, traced, criteria, clients, round, asked, results, feedback, memory>>

\* The runtime opens, but its tools are refused or cannot be bound.
SetupFails(result) ==
  /\ at = "opening"
  /\ runtime' = "open"
  /\ Conclude(result)
  /\ UNCHANGED <<layout, traced, criteria, clients, round, asked, results, feedback, memory>>

\* __aexit__; when it raises, a returned answer or a cancellation is lost: the
\* exception is handled as a failure, where the handler does not raise itself.
Close ==
  /\ at = "closing"
  /\ at' = "freeing"
  /\ runtime' = "closed"
  /\ answer' \in {answer, IF answer = "raised" THEN answer ELSE "failed"}
  /\ UNCHANGED <<layout, traced, criteria, clients, round, asked, results, feedback, memory>>

\* _close_owned_http_clients, whose errors are swallowed.
FreeClients ==
  /\ at = "freeing"
  /\ at' = "done"
  /\ clients' = FALSE
  /\ UNCHANGED <<layout, traced, criteria, runtime, round, asked, results, feedback, memory, answer>>

\* Cancellation passes the handlers but not __aexit__ and finally; calls that
\* are awaited are cancelled with it.  Once a call has raised, the others are
\* not awaited any more, and run on.
Cancel ==
  /\ at \in Working
  /\ Conclude("cancelled")
  /\ results' = [c \in DOMAIN results |->
                   IF c \in Running /\ Raised = {} THEN "error" ELSE results[c]]
  /\ UNCHANGED <<held, round, asked, feedback, memory>>

(***************************************************************************)
(* The round.  Every way round the loop has a note for the model, and ends *)
(* the run in the last round.  The transcript keeps the notes, of the      *)
(* judge's only the newest, a verdict or the note that the judgment was    *)
(* invalid; with a Runtime context a note lives one request.               *)
(***************************************************************************)
\* Mutant of Noted: the feedback of a round replaces the transcript's.
NotedAlone(note) == note

Noted(note) ==
  IF layout # "none" THEN note
  ELSE (IF note \cap {"verdict", "unjudged"} # {} THEN feedback \ {"verdict", "unjudged"}
                                                  ELSE feedback) \cup note

NextRound(note) ==
  IF round = MaxRounds
  THEN Conclude("failed") /\ UNCHANGED <<round, feedback>>
  ELSE /\ at' = "context"
       /\ round' = round + 1
       /\ feedback' = Noted(note)
       /\ UNCHANGED answer

Fails == Conclude("failed") /\ UNCHANGED <<round, feedback>>

\* maintain, before each request and, in the messages layout, for the judge.
Maintained ==
  /\ \/ at = "context" /\ at' = "requesting"
        /\ asked' = [asked EXCEPT !.model = @ + 1]
     \/ at = "judge_context" /\ at' = "judging" /\ UNCHANGED asked
  /\ UNCHANGED <<held, round, results, feedback, memory, answer>>

MaintainFails ==
  /\ at \in {"context", "judge_context"} /\ layout # "none"
  /\ Fails
  /\ UNCHANGED <<held, asked, results, memory>>

\* The provider fails, or the model decides that the task has failed.
RequestFails ==
  /\ at = "requesting"
  /\ Fails
  /\ UNCHANGED <<held, asked, results, memory>>

\* A decision block beside tool calls, a malformed decision, a decision for
\* another tool: nothing is run and nothing is judged.
NoProgress ==
  /\ at = "requesting"
  /\ \E note \in {"protocol", "need_tool"} : NextRound({note})
  /\ UNCHANGED <<held, asked, results, memory>>

\* Prose that begins no block is a proposal too.
Propose ==
  /\ at = "requesting"
  /\ at' = IF layout = "messages" THEN "judge_context" ELSE "judging"
  /\ \E form \in {"decision", "prose"} : candidate' = [round |-> round, form |-> form]
  /\ UNCHANGED <<held, round, asked, results, feedback, verdict, prior, answer>>

(***************************************************************************)
(* The tools of a response run concurrently (asyncio.gather).  A call      *)
(* fails softly, unless its error result cannot be rendered: that raises   *)
(* out of the batch, and the other calls run on.                           *)
(***************************************************************************)
CallTools(chosen) ==
  /\ at = "requesting"
  /\ at' = "tools"
  /\ results' = [c \in chosen |-> "running"]
  /\ UNCHANGED <<held, round, asked, feedback, memory, answer>>

CallEnds(c, status) ==
  /\ results[c] = "running"
  /\ results' = [results EXCEPT ![c] = status]
  /\ UNCHANGED <<at, held, round, asked, feedback, memory, answer>>

\* Mutants of SettleBatch: the batch is recorded when its first call has
\* ended; only a batch without failures is settled.
SettleBatchOfFirst ==
  /\ at = "tools" /\ Raised = {}
  /\ Running # DOMAIN results
  /\ \/ NextRound(IF layout # "messages" /\ Failed # {} THEN {"errors"} ELSE {})
     \/ layout # "none" /\ Fails
  /\ UNCHANGED <<held, asked, results, memory>>

SettleBatchOfSuccess ==
  /\ at = "tools" /\ Raised = {}
  /\ Running = {} /\ Failed = {}
  /\ NextRound({}) \/ (layout # "none" /\ Fails)
  /\ UNCHANGED <<held, asked, results, memory>>

\* record_tool_round may raise; the messages layout shows failures itself.
SettleBatch ==
  /\ at = "tools" /\ Raised = {}
  /\ Running = {}
  /\ \/ NextRound(IF layout # "messages" /\ Failed # {} THEN {"errors"} ELSE {})
     \/ layout # "none" /\ Fails
  /\ UNCHANGED <<held, asked, results, memory>>

BatchRaises ==
  /\ at = "tools" /\ Raised # {}
  /\ Fails
  /\ UNCHANGED <<held, asked, results, memory>>

(***************************************************************************)
(* _judge_with_single_repair.  A judgment accepts by what it verifies now; *)
(* what it verified is remembered, for the criteria only.                  *)
(***************************************************************************)
AskJudge == asked' = [asked EXCEPT !.judge = @ + 1]

\* Mutant of Accepts: what was verified once counts.
AcceptsEver(verified) == verified \cup prior = Standards

Accepts(verified) == verified = Standards

Decide(verified) ==
  /\ verdict' = [round |-> round, verified |-> verified]
  /\ IF Accepts(verified)
     THEN Conclude("completed") /\ UNCHANGED <<round, feedback, prior>>
     ELSE /\ NextRound({"verdict"})
          /\ prior' = IF criteria = {} THEN {} ELSE prior \cup verified

Judge ==
  /\ at \in {"judging", "repairing"}
  /\ AskJudge
  /\ \E verified \in SUBSET Standards : Decide(verified)
  /\ UNCHANGED <<held, results, candidate>>

JudgeInvalid ==
  /\ at \in {"judging", "repairing"}
  /\ AskJudge
  /\ IF at = "judging" THEN at' = "repairing" /\ UNCHANGED <<round, feedback, answer>>
                       ELSE NextRound({"unjudged"})
  /\ UNCHANGED <<held, results, memory>>

JudgeFails ==
  /\ at \in {"judging", "repairing"}
  /\ AskJudge
  /\ Fails
  /\ UNCHANGED <<held, results, memory>>

ToolCalls ==
  \E c \in DOMAIN results : \E status \in CallStatus \ {"running"} : CallEnds(c, status)

Opening == Open("context", 1) \/ OpenFails(SetupFailure) \/ SetupFails(SetupFailure)

Respond ==
  \/ RequestFails \/ NoProgress \/ Propose
  \/ \E chosen \in SUBSET ToolCall \ {{}} : CallTools(chosen)

Judging == Judge \/ JudgeInvalid \/ JudgeFails

React ==
  Opening \/ Maintained \/ MaintainFails \/ Respond \/ SettleBatch \/ BatchRaises \/ Judging

-----------------------------------------------------------------------------
RTypeOK ==
  /\ at \in Place
  /\ layout \in Layout /\ traced \in BOOLEAN
  /\ criteria \subseteq Criterion
  /\ runtime \in {"closed", "session", "open"} /\ clients \in BOOLEAN
  /\ round \in 0 .. MaxRounds
  /\ asked \in [model : Nat, judge : Nat]
  /\ DOMAIN results \subseteq ToolCall
  /\ results \in [DOMAIN results -> CallStatus]
  /\ feedback \subseteq Note
  /\ candidate \in [round : 0 .. MaxRounds, form : {"none", "decision", "prose"}]
  /\ verdict \in [round : 0 .. MaxRounds, verified : SUBSET (Criterion \cup {Goal})]
  /\ prior \subseteq criteria
  /\ answer \in {"none", "completed", "failed", "blocked", "raised", "cancelled"}

\* At most one operational request a round, and at most one judgment with one
\* repair for each: neither budget is spent by the other's requests.
RequestsBounded ==
  /\ asked.model <= round /\ round <= MaxRounds
  /\ asked.judge <= 2 * asked.model

\* What execution.py:833 and item 9 of the specification of ReAct's completion
\* say: the latest validated verdict stays before the model.  It does not: with
\* a policy it is shown once, and without one the note of a later judgment that
\* is invalid takes its place (LatestVerdict).
LatestVerdictShown ==
  at = "requesting" /\ verdict.round # 0 => "verdict" \in feedback

\* The second half of it alone, for a run without a policy.
LatestVerdictKept == layout = "none" => LatestVerdictShown

JudgesNotes == feedback \cap {"verdict", "unjudged"}

\* What does hold is about the newest judgment, valid or not.  A rejected model
\* is shown exactly that one in its next request: its verdict if the judgment of
\* the last proposal was valid, and otherwise the note that it was not, never
\* the verdict on an older proposal.  Without a policy the same is true of every
\* later request, whatever tool rounds and protocol errors lie between.
VerdictShown ==
  at = "requesting" /\ candidate.round # 0 /\ (layout = "none" \/ candidate.round = round - 1) =>
    JudgesNotes = IF verdict.round = candidate.round THEN {"verdict"} ELSE {"unjudged"}

\* An answer is a decision, never prose (compare the specification of ReAct's
\* completion, which makes prose invalid).
AnswersAreDecisions ==
  answer = "completed" => candidate.form # "prose"
=============================================================================
