------------------------------ MODULE ModeProofs -----------------------------
(***************************************************************************)
(* ExecutionModes: for every set of tool calls and criteria and every      *)
(* round limit, requests stay within their budgets, an accepted answer of  *)
(* ReAct was judged in its own round, and runtime and clients are released *)
(* before the mode returns.                                                *)
(*                                                                         *)
(* The mode is one coroutine, so the invariant is a statement for each     *)
(* place it can be in: which mode is there (Placed), what has not happened *)
(* yet (Untouched), what has been paid for (Paid) and what is proposed.    *)
(***************************************************************************)
EXTENDS ExecutionModes, FiniteSetTheorems, TLAPS

Placed ==
  /\ at = "idle" => mode = "none" /\ ~routed
  /\ at = "opening" => mode \in {"tool_agent", "react"}
  /\ at \in Working => mode = "react"
  /\ at = "asking" => mode \in {"direct", "tool_agent"}
  /\ at = "invoking" => mode = "tool_agent"
  /\ at = "planning" => mode = "plan_execute"

\* Before the runtime is open nobody was asked, and while ReAct works it has
\* no answer.
Untouched ==
  /\ at \in {"idle", "opening"} =>
       asked.model = 0 /\ asked.judge = 0 /\ prior = {} /\ answer = "none"
  /\ at \in Working => answer = "none"

\* A round pays for one request, a request for one judgment and its repair.
Paid ==
  /\ asked.model <= round /\ asked.judge <= 2 * asked.model
  /\ at = "context" => asked.model < round
  /\ at \in {"requesting", "tools", "judge_context", "judging"} =>
       asked.judge + 2 <= 2 * asked.model
  /\ at = "repairing" => asked.judge + 1 <= 2 * asked.model

\* The judge is asked about the proposal of this round.
Proposed == at \in {"judge_context", "judging", "repairing"} => candidate.round = round

RoutedWithCriteria == routed /\ mode = "react" => criteria # {}

Released ==
  /\ at = "freeing" => runtime # "open"
  /\ ReleasedAtEnd

Places == Placed /\ Untouched /\ Proposed
Promises == Paid /\ RoutedWithCriteria /\ Released /\ AnswerWasJudged

XInv == XTypeOK /\ Places /\ Promises

-----------------------------------------------------------------------------
\* Before a mode is selected nothing has happened.
LEMMA InitModes == XInit => XInv
<1> SUFFICES ASSUME XInit PROVE XInv
  OBVIOUS
<1>1. XTypeOK
  <2>1. 0 \in 0 .. MaxRounds
    BY RoundsAssumption
  <2>2. DOMAIN results \subseteq ToolCall /\ results \in [DOMAIN results -> CallStatus]
    BY DEF XInit, RInit, NoBatch
  <2>3. /\ asked \in [model : Nat, judge : Nat]
        /\ candidate \in [round : 0 .. MaxRounds, form : {"none", "decision", "prose"}]
        /\ verdict \in [round : 0 .. MaxRounds, verified : SUBSET (Criterion \cup {Goal})]
    BY <2>1 DEF XInit, RInit
  <2>4. /\ layout \in Layout /\ traced \in BOOLEAN /\ at = "idle" /\ criteria = {}
        /\ runtime = "closed" /\ clients = TRUE /\ round = 0 /\ feedback = {} /\ prior = {}
        /\ answer = "none" /\ mode = "none" /\ routed = FALSE /\ tries = 0
    BY DEF XInit, RInit
  <2>5. at \in Place /\ mode \in Modes
    BY <2>4 DEF Place, Modes
  <2>6. criteria \subseteq Criterion /\ feedback \subseteq Note /\ prior \subseteq criteria
    BY <2>4
  <2>7. round \in 0 .. MaxRounds /\ tries \in 0 .. 1
    BY <2>1, <2>4
  <2>8. /\ runtime \in {"closed", "session", "open"} /\ clients \in BOOLEAN
        /\ answer \in {"none", "completed", "failed", "blocked", "raised", "cancelled"}
        /\ routed \in BOOLEAN
    BY <2>4
  <2> QED
    BY <2>2, <2>3, <2>4, <2>5, <2>6, <2>7, <2>8 DEF XTypeOK, RTypeOK
<1> QED
  BY <1>1
  DEF XInit, RInit, XInv, Places, Promises, Placed, Untouched, Paid, Proposed,
      RoutedWithCriteria, Released, ReleasedAtEnd, AnswerWasJudged, Working

\* Going round the loop costs a round, and ends the run in the last one.
LEMMA RoundType ==
  ASSUME RTypeOK, NEW note \in SUBSET Note, NextRound(note)
  PROVE  /\ at' \in {"context", "closing"} /\ round' \in 0 .. MaxRounds
         /\ feedback' \subseteq Note
         /\ \/ at' = "context" /\ round' = round + 1 /\ answer' = answer
            \/ at' = "closing" /\ round' = round /\ answer' = "failed"
<1>1. Noted(note) \subseteq Note
  BY DEF Noted, RTypeOK
<1> QED
  BY <1>1, RoundsAssumption DEF NextRound, Conclude, RTypeOK

\* What a run and its router do before a mode works.
LEMMA SelectionType ==
  ASSUME XTypeOK, Untouched,
         Chosen \/ Analyzed \/ AnalysisInvalid \/ AnalysisFails
  PROVE  XTypeOK'
<1>1. CASE AnalysisInvalid
  BY <1>1 DEF AnalysisInvalid, rvars, XTypeOK, RTypeOK
<1>2. ASSUME NEW selected \in Modes \ {"none"}, NEW stated \in SUBSET Criterion,
             Select(selected, stated), UNCHANGED unselected, routed' \in BOOLEAN,
             at = "idle"
      PROVE  XTypeOK'
  <2>1. at' \in Place
    BY <1>2 DEF Select, Start, Modes, Place
  <2>2. criteria' \subseteq Criterion /\ prior' = {}
    BY <1>2 DEF Select, Untouched, unselected, memory
  <2> QED
    BY <1>2, <2>1, <2>2 DEF Select, unselected, memory, XTypeOK, RTypeOK, Modes
<1>3. CASE Chosen \/ AnalysisFails
  BY <1>2, <1>3 DEF Chosen, AnalysisFails, Modes, XTypeOK
<1>4. CASE Analyzed
  <2>1. PICK analysis \in Analysis : Select(Route(analysis), analysis.criteria)
    BY <1>4 DEF Analyzed
  <2>2. Route(analysis) \in Modes \ {"none"} /\ analysis.criteria \in SUBSET Criterion
    BY DEF Route, Modes, Analysis
  <2> QED
    BY <1>2, <1>4, <2>1, <2>2 DEF Analyzed
<1> QED
  BY <1>1, <1>3, <1>4

\* The runtime, the clients and the calls.
LEMMA ResourceType ==
  ASSUME XTypeOK, UNCHANGED selection,
         \/ \E result \in {"failed", "raised", "cancelled"} : OpenFails(result) \/ SetupFails(result)
         \/ Open("context", 1) \/ Open("asking", 0)
         \/ Close \/ FreeClients \/ Cancel \/ ToolCalls
  PROVE  XTypeOK'
<1> USE DEF XTypeOK, RTypeOK, selection
<1>1. ASSUME NEW result \in {"failed", "raised", "cancelled"},
             OpenFails(result) \/ SetupFails(result)
      PROVE  XTypeOK'
  BY <1>1 DEF OpenFails, SetupFails, Conclude, memory, Place
<1>2. CASE Open("context", 1) \/ Open("asking", 0)
  BY <1>2, RoundsAssumption DEF Open, memory, Place
<1>3. CASE Close \/ FreeClients
  BY <1>3 DEF Close, FreeClients, memory, Place
<1>4. CASE Cancel
  BY <1>4 DEF Cancel, Conclude, held, memory, Place, CallStatus
<1>5. CASE ToolCalls
  <2>1. PICK c \in DOMAIN results, status \in CallStatus \ {"running"} : CallEnds(c, status)
    BY <1>5 DEF ToolCalls
  <2> QED
    BY <2>1 DEF CallEnds, held, memory
<1> QED
  BY <1>1, <1>2, <1>3, <1>4, <1>5

\* Direct mode, tool agent and durable run.
LEMMA OthersType ==
  ASSUME XTypeOK,
         \/ Answered \/ AnswerInvalid \/ PlanExecuted \/ Invoked \/ CancelToolAgent
         \/ \E c \in ToolCall : \E chosen \in SUBSET ToolCall : CallFirst(chosen, c)
  PROVE  XTypeOK'
<1> USE DEF XTypeOK, RTypeOK, selection, held, memory, Place
<1>1. CASE Answered
  BY <1>1 DEF Answered, Answer
<1>2. CASE AnswerInvalid
  BY <1>2 DEF AnswerInvalid, Answer
<1>3. CASE PlanExecuted
  BY <1>3 DEF PlanExecuted
<1>4. CASE Invoked
  BY <1>4 DEF Invoked, Answer
<1>5. CASE CancelToolAgent
  BY <1>5 DEF CancelToolAgent, Conclude, CallStatus
<1>6. ASSUME NEW c \in ToolCall, NEW chosen \in SUBSET ToolCall, CallFirst(chosen, c)
      PROVE  XTypeOK'
  BY <1>6 DEF CallFirst, CallStatus
<1> QED
  BY <1>1, <1>2, <1>3, <1>4, <1>5, <1>6

\* A round of ReAct.
LEMMA ReactType ==
  ASSUME XTypeOK, UNCHANGED selection,
         Maintained \/ MaintainFails \/ Respond \/ SettleBatch \/ BatchRaises \/ Judging
  PROVE  XTypeOK'
<1> USE DEF XTypeOK, RTypeOK, selection
<1>1. CASE Maintained
  BY <1>1 DEF Maintained, held, memory, Place
<1>2. CASE MaintainFails \/ RequestFails \/ BatchRaises
  BY <1>2 DEF MaintainFails, RequestFails, BatchRaises, Fails, Conclude, held, memory, Place
<1>3. CASE Propose
  BY <1>3 DEF Propose, held, Place
<1>4. CASE \E chosen \in SUBSET ToolCall \ {{}} : CallTools(chosen)
  BY <1>4 DEF CallTools, held, memory, Place, CallStatus
<1>5. ASSUME NEW note \in SUBSET Note, NextRound(note), UNCHANGED <<held, results, candidate>>,
             asked' \in [model : Nat, judge : Nat], prior' \subseteq criteria,
             verdict' \in [round : 0 .. MaxRounds, verified : SUBSET (Criterion \cup {Goal})]
      PROVE  XTypeOK'
  <2>1. at' \in Place /\ round' \in 0 .. MaxRounds /\ feedback' \subseteq Note
        /\ answer' \in {answer, "failed"}
    BY <1>5, RoundType DEF Place
  <2> QED
    BY <1>5, <2>1 DEF held
<1>6. CASE NoProgress
  <2>1. PICK note \in {"protocol", "need_tool"} : NextRound({note})
    BY <1>6 DEF NoProgress
  <2>2. {note} \in SUBSET Note
    BY DEF Note
  <2> QED
    BY <1>5, <1>6, <2>1, <2>2 DEF NoProgress, memory
<1>7. CASE SettleBatch
  <2>1. CASE Fails
    BY <1>7, <2>1 DEF SettleBatch, Fails, Conclude, held, memory, Place
  <2>2. CASE \E note \in {{"errors"}, {}} : NextRound(note)
    <3>1. PICK note \in SUBSET Note : NextRound(note)
      BY <2>2 DEF Note
    <3> QED
      BY <1>5, <1>7, <3>1 DEF SettleBatch, memory
  <2> QED
    BY <1>7, <2>1, <2>2 DEF SettleBatch
<1>8. AskJudge => asked' \in [model : Nat, judge : Nat]
  BY DEF AskJudge
<1>9. CASE JudgeFails
  BY <1>8, <1>9 DEF JudgeFails, Fails, Conclude, held, memory, Place
<1>10. CASE JudgeInvalid
  <2>1. CASE at = "judging"
    BY <1>8, <1>10, <2>1 DEF JudgeInvalid, held, memory, Place
  <2>2. CASE at # "judging"
    <3>1. {"unjudged"} \in SUBSET Note
      BY DEF Note
    <3> QED
      BY <1>5, <1>8, <1>10, <2>2, <3>1 DEF JudgeInvalid, memory
  <2> QED
    BY <2>1, <2>2
<1>11. CASE Judge
  <2>1. PICK verified \in SUBSET Standards : Decide(verified)
    BY <1>11 DEF Judge
  <2>2. verified \in SUBSET (Criterion \cup {Goal})
    BY DEF Standards
  <2>3. verdict' \in [round : 0 .. MaxRounds, verified : SUBSET (Criterion \cup {Goal})]
    BY <2>1, <2>2 DEF Decide
  <2>4. CASE Accepts(verified)
    BY <1>8, <1>11, <2>1, <2>3, <2>4 DEF Judge, Decide, Conclude, held, Place
  <2>5. CASE ~Accepts(verified)
    <3>1. NextRound({"verdict"}) /\ {"verdict"} \in SUBSET Note
      BY <2>1, <2>5 DEF Decide, Note
    <3>2. prior' \subseteq criteria
      BY <2>1, <2>5 DEF Decide, Standards
    <3> QED
      BY <1>5, <1>8, <1>11, <2>3, <3>1, <3>2 DEF Judge
  <2> QED
    BY <2>4, <2>5
<1> QED
  BY <1>1, <1>2, <1>3, <1>4, <1>6, <1>7, <1>9, <1>10, <1>11 DEF Respond, Judging

\* Every step keeps the types.
LEMMA NextTypes == XTypeOK /\ Untouched /\ [XNext]_xvars => XTypeOK'
<1> SUFFICES ASSUME XTypeOK, Untouched, [XNext]_xvars PROVE XTypeOK'
  OBVIOUS
<1>1. CASE UNCHANGED xvars
  BY <1>1 DEF xvars, rvars, XTypeOK, RTypeOK
<1>2. CASE Chosen \/ Analyzed \/ AnalysisInvalid \/ AnalysisFails
  BY <1>2, SelectionType
<1>3. CASE Answered \/ AnswerInvalid \/ PlanExecuted \/ CancelToolAgent
  BY <1>3, OthersType
<1>4. CASE ToolAgent
  <2>1. ASSUME NEW chosen \in SUBSET ToolCall, NEW c \in chosen, CallFirst(chosen, c)
        PROVE  XTypeOK'
    BY <2>1, OthersType
  <2>2. CASE Invoked
    BY <2>2, OthersType
  <2>3. CASE UNCHANGED selection /\ (Open("asking", 0) \/ OpenFails("failed") \/ SetupFails("failed"))
    BY <2>3, ResourceType
  <2> QED
    BY <1>4, <2>1, <2>2, <2>3 DEF ToolAgent
<1>5. CASE React /\ UNCHANGED selection
  <2>1. CASE Opening
    BY <1>5, <2>1, ResourceType DEF Opening, SetupFailure
  <2>2. CASE ~Opening
    BY <1>5, <2>2, ReactType DEF React
  <2> QED
    BY <2>1, <2>2
<1>6. CASE (Finish \/ ToolCalls \/ Cancel \/ OpenFails("cancelled")) /\ UNCHANGED selection
  BY <1>6, ResourceType DEF Finish
<1> QED
  BY <1>1, <1>2, <1>3, <1>4, <1>5, <1>6 DEF XNext, Program, Tools

-----------------------------------------------------------------------------
\* A mode is selected once, with criteria only for a routed ReAct run.
LEMMA SelectionKeeps ==
  ASSUME XInv, Chosen \/ Analyzed \/ AnalysisInvalid \/ AnalysisFails
  PROVE  Places' /\ Promises'
<1> USE DEF XInv, Places, Promises
<1>1. CASE AnalysisInvalid
  BY <1>1
  DEF AnalysisInvalid, rvars, Placed, Untouched, Paid, Proposed, RoutedWithCriteria, Released,
      ReleasedAtEnd, AnswerWasJudged, Standards
<1>2. ASSUME NEW selected \in Modes \ {"none"}, NEW stated \in SUBSET Criterion,
             Select(selected, stated), UNCHANGED unselected, at = "idle",
             routed' /\ selected = "react" => stated # {}
      PROVE  Places' /\ Promises'
  <2>1. /\ mode' = selected /\ at' \in {"asking", "opening", "planning"}
        /\ at' = "asking" => mode' = "direct"
        /\ at' = "opening" => mode' \in {"tool_agent", "react"}
        /\ at' = "planning" => mode' = "plan_execute"
        /\ mode' = "react" => criteria' = stated
    BY <1>2 DEF Select, Start, Modes
  <2>2. /\ UNCHANGED <<runtime, clients, round, asked, candidate, verdict, prior, answer>>
        /\ answer = "none" /\ prior = {} /\ asked.model = 0 /\ asked.judge = 0
    BY <1>2 DEF unselected, memory, Untouched
  <2>3. Places'
    BY <2>1, <2>2 DEF Placed, Untouched, Proposed, Working
  <2>4. Promises'
    BY <1>2, <2>1, <2>2
    DEF Paid, RoutedWithCriteria, Released, ReleasedAtEnd, AnswerWasJudged
  <2> QED
    BY <2>3, <2>4
<1>3. CASE Chosen
  BY <1>2, <1>3 DEF Chosen, Placed
<1>4. CASE AnalysisFails
  BY <1>2, <1>4 DEF AnalysisFails, Modes
<1>5. CASE Analyzed
  <2>1. PICK analysis \in Analysis :
               WellFormed(analysis) /\ Select(Route(analysis), analysis.criteria)
    BY <1>5 DEF Analyzed
  <2>2. Route(analysis) \in Modes \ {"none"} /\ analysis.criteria \in SUBSET Criterion
    BY DEF Route, Modes, Analysis
  <2>3. Route(analysis) = "react" => analysis.criteria # {}
    BY <2>1 DEF WellFormed
  <2> QED
    BY <1>2, <1>5, <2>1, <2>2, <2>3 DEF Analyzed
<1> QED
  BY <1>1, <1>3, <1>4, <1>5

\* Runtime and clients change only as the mode starts and ends.
LEMMA ResourceKeeps ==
  ASSUME XInv, UNCHANGED selection,
         \/ \E result \in {"failed", "raised", "cancelled"} : OpenFails(result) \/ SetupFails(result)
         \/ mode = "react" /\ Open("context", 1)
         \/ mode = "tool_agent" /\ Open("asking", 0)
         \/ Close \/ FreeClients \/ Cancel \/ ToolCalls
  PROVE  Places' /\ Promises'
<1> USE DEF XInv, Places, Promises, Placed, Untouched, Paid, Proposed, RoutedWithCriteria,
            Released, ReleasedAtEnd, AnswerWasJudged, selection, Working, Standards
<1>1. ASSUME NEW result \in {"failed", "raised", "cancelled"},
             OpenFails(result) \/ SetupFails(result)
      PROVE  Places' /\ Promises'
  BY <1>1 DEF OpenFails, SetupFails, Conclude, memory
<1>2. CASE mode = "react" /\ Open("context", 1)
  BY <1>2 DEF Open, memory
<1>3. CASE mode = "tool_agent" /\ Open("asking", 0)
  BY <1>3 DEF Open, memory
<1>4. CASE Close \/ FreeClients
  BY <1>4 DEF Close, FreeClients, memory
<1>5. CASE Cancel
  BY <1>5 DEF Cancel, Conclude, held, memory
<1>6. CASE ToolCalls
  BY <1>6 DEF ToolCalls, CallEnds, held, memory
<1> QED
  BY <1>1, <1>2, <1>3, <1>4, <1>5, <1>6

\* The other modes ask no judge and are not ReAct.
LEMMA OthersKeep ==
  ASSUME XInv,
         \/ Answered \/ AnswerInvalid \/ PlanExecuted \/ Invoked \/ CancelToolAgent
         \/ \E c \in ToolCall : \E chosen \in SUBSET ToolCall : CallFirst(chosen, c)
  PROVE  Places' /\ Promises'
<1> USE DEF XInv, Places, Promises, Placed, Untouched, Paid, Proposed, RoutedWithCriteria,
            Released, ReleasedAtEnd, AnswerWasJudged, selection, Working, held, memory
<1>1. CASE Answered
  BY <1>1 DEF Answered, Answer
<1>2. CASE AnswerInvalid
  BY <1>2 DEF AnswerInvalid, Answer
<1>3. CASE PlanExecuted
  BY <1>3 DEF PlanExecuted
<1>4. CASE Invoked
  BY <1>4 DEF Invoked, Answer
<1>5. CASE CancelToolAgent
  BY <1>5 DEF CancelToolAgent, Conclude
<1>6. CASE \E c \in ToolCall : \E chosen \in SUBSET ToolCall : CallFirst(chosen, c)
  BY <1>6 DEF CallFirst
<1> QED
  BY <1>1, <1>2, <1>3, <1>4, <1>5, <1>6

\* A step of ReAct that goes round the loop or fails: the new round has paid
\* for nothing yet, and no answer has been accepted.
LEMMA RoundKeeps ==
  ASSUME XInv, at \in Working, mode = "react", UNCHANGED <<held, selection>>,
         \/ at' = "context" /\ round' = round + 1 /\ answer' = answer
         \/ at' = "closing" /\ round' = round /\ answer' = "failed",
         asked'.model = asked.model,
         asked'.judge <= 2 * asked.model
  PROVE  Places' /\ Promises'
<1>1. asked.model \in Nat /\ round \in Nat /\ asked.model <= round
  BY DEF XInv, XTypeOK, RTypeOK, Promises, Paid
<1>2. Paid'
  BY <1>1 DEF Paid
<1>3. Places'
  BY DEF XInv, Places, Placed, Untouched, Proposed, Working, selection
<1>4. answer' # "completed"
  BY DEF XInv, Places, Untouched
<1>5. Released' /\ RoutedWithCriteria' /\ AnswerWasJudged'
  BY <1>4 DEF XInv, Promises, Released, ReleasedAtEnd, RoutedWithCriteria, AnswerWasJudged,
              held, selection
<1> QED
  BY <1>2, <1>3, <1>5 DEF Promises

\* A round of ReAct.  Only Judge accepts an answer: the proposal of this round,
\* when this judgment verifies all that is to be verified.
LEMMA ReactKeeps ==
  ASSUME XInv, mode = "react", UNCHANGED selection,
         Maintained \/ MaintainFails \/ Respond \/ SettleBatch \/ BatchRaises \/ Judging
  PROVE  Places' /\ Promises'
<1> DEFINE Around == \/ at' = "context" /\ round' = round + 1 /\ answer' = answer
                     \/ at' = "closing" /\ round' = round /\ answer' = "failed"
<1>1. /\ asked \in [model : Nat, judge : Nat] /\ round \in Nat /\ Paid
      /\ asked.model <= round /\ asked.judge <= 2 * asked.model
  BY DEF XInv, XTypeOK, RTypeOK, Promises, Paid
<1>2. ASSUME NEW note, NextRound(note) PROVE Around
  BY <1>2 DEF NextRound, Conclude
<1>3. Fails => Around
  BY DEF Fails, Conclude
<1>4. AskJudge => asked'.model = asked.model /\ asked'.judge = asked.judge + 1
  BY <1>1 DEF AskJudge
<1>5. at \in {"judging", "repairing"} /\ AskJudge =>
        asked'.model = asked.model /\ asked'.judge <= 2 * asked.model
  BY <1>1, <1>4 DEF Paid
<1> HIDE DEF Around
<1>6. CASE MaintainFails \/ RequestFails \/ NoProgress \/ SettleBatch \/ BatchRaises
  <2>1. Around /\ at \in Working /\ UNCHANGED <<held, asked>>
    BY <1>2, <1>3, <1>6
    DEF MaintainFails, RequestFails, NoProgress, SettleBatch, BatchRaises, Working
  <2> QED
    BY <1>1, <2>1, RoundKeeps DEF Around
<1>7. CASE JudgeFails \/ (JudgeInvalid /\ at # "judging")
  <2>1. /\ Around /\ at \in Working /\ UNCHANGED held
        /\ at \in {"judging", "repairing"} /\ AskJudge
    BY <1>2, <1>3, <1>7 DEF JudgeFails, JudgeInvalid, Working
  <2> QED
    BY <1>5, <2>1, RoundKeeps DEF Around
<1>8. ASSUME NEW verified \in SUBSET Standards, Decide(verified), Judge
      PROVE  Places' /\ Promises'
  <2>1. at \in {"judging", "repairing"} /\ AskJudge /\ UNCHANGED <<held, results, candidate>>
    BY <1>8 DEF Judge
  <2>2. CASE Accepts(verified)
    <3>1. /\ at' = "closing" /\ answer' = "completed" /\ round' = round
          /\ verdict' = [round |-> round, verified |-> Standards] /\ UNCHANGED prior
      BY <1>8, <2>2 DEF Decide, Conclude, Accepts
    <3>2. candidate' = candidate /\ candidate.round = round /\ Standards' = Standards
      BY <2>1 DEF XInv, Places, Proposed, Standards, held
    <3>3. Paid'
      BY <1>1, <1>5, <2>1, <3>1 DEF Paid
    <3>4. Places'
      BY <3>1 DEF Places, Placed, Untouched, Proposed, Working
    <3>5. RoutedWithCriteria' /\ AnswerWasJudged' /\ Released'
      BY <2>1, <3>1, <3>2
      DEF XInv, Promises, RoutedWithCriteria, AnswerWasJudged, Released, ReleasedAtEnd, held,
          selection
    <3> QED
      BY <3>3, <3>4, <3>5 DEF Promises
  <2>3. CASE ~Accepts(verified)
    <3>1. Around
      BY <1>2, <1>8, <2>3 DEF Decide
    <3> QED
      BY <1>5, <2>1, <3>1, RoundKeeps DEF Around, Working
  <2> QED
    BY <2>2, <2>3
<1> USE DEF XInv, Places, Promises, Placed, Untouched, Paid, Proposed, RoutedWithCriteria,
            Released, ReleasedAtEnd, AnswerWasJudged, selection, Working, held, memory, Standards
<1>9. CASE Maintained
  BY <1>1, <1>9 DEF Maintained
<1>10. CASE Propose
  BY <1>1, <1>10 DEF Propose
<1>11. CASE \E chosen \in SUBSET ToolCall \ {{}} : CallTools(chosen)
  BY <1>1, <1>11 DEF CallTools
<1>12. CASE JudgeInvalid /\ at = "judging"
  BY <1>1, <1>4, <1>12 DEF JudgeInvalid
<1>13. CASE Judge
  <2>1. PICK verified \in SUBSET Standards : Decide(verified)
    BY <1>13 DEF Judge
  <2> QED
    BY <1>8, <1>13, <2>1
<1> QED
  BY <1>6, <1>7, <1>9, <1>10, <1>11, <1>12, <1>13 DEF Respond, Judging

\* Every step keeps the invariant.
LEMMA NextModes == XInv /\ [XNext]_xvars => XInv'
<1> SUFFICES ASSUME XInv, [XNext]_xvars PROVE Places' /\ Promises'
  BY NextTypes DEF XInv, Places
<1>1. CASE UNCHANGED xvars
  BY <1>1
  DEF xvars, rvars, XInv, Places, Promises, Placed, Untouched, Paid, Proposed,
      RoutedWithCriteria, Released, ReleasedAtEnd, AnswerWasJudged, Standards
<1>2. CASE Chosen \/ Analyzed \/ AnalysisInvalid \/ AnalysisFails
  BY <1>2, SelectionKeeps
<1>3. CASE Answered \/ AnswerInvalid \/ PlanExecuted \/ CancelToolAgent
  BY <1>3, OthersKeep
<1>4. CASE mode = "tool_agent" /\ ToolAgent
  <2>1. ASSUME NEW chosen \in SUBSET ToolCall, NEW c \in chosen, CallFirst(chosen, c)
        PROVE  Places' /\ Promises'
    BY <2>1, OthersKeep
  <2>2. CASE Invoked
    BY <2>2, OthersKeep
  <2>3. CASE UNCHANGED selection /\ (Open("asking", 0) \/ OpenFails("failed") \/ SetupFails("failed"))
    BY <1>4, <2>3, ResourceKeeps
  <2> QED
    BY <1>4, <2>1, <2>2, <2>3 DEF ToolAgent
<1>5. CASE mode = "react" /\ React /\ UNCHANGED selection
  <2>1. CASE Opening
    BY <1>5, <2>1, ResourceKeeps DEF Opening, SetupFailure
  <2>2. CASE ~Opening
    BY <1>5, <2>2, ReactKeeps DEF React
  <2> QED
    BY <2>1, <2>2
<1>6. CASE (Finish \/ ToolCalls \/ Cancel \/ OpenFails("cancelled")) /\ UNCHANGED selection
  BY <1>6, ResourceKeeps DEF Finish
<1> QED
  BY <1>1, <1>2, <1>3, <1>4, <1>5, <1>6 DEF XNext, Program, Tools

\* An answer that ReAct returns as completed was judged in its own round against
\* every criterion, whatever was verified before.
THEOREM AnswersAreJudged == XSpec => []AnswerWasJudged
<1>1. XInv => AnswerWasJudged
  BY DEF XInv, Promises
<1> QED
  BY <1>1, InitModes, NextModes, PTL DEF XSpec

\* However a run ends, its runtime was exited and its clients were closed.
THEOREM ModesRelease == XSpec => []ReleasedAtEnd
<1>1. XInv => ReleasedAtEnd
  BY DEF XInv, Promises, Released
<1> QED
  BY <1>1, InitModes, NextModes, PTL DEF XSpec

\* One request a round and one judgment with one repair a request, for every
\* round limit.
THEOREM RequestsAreBounded == XSpec => []RequestsBounded
<1>1. XInv => RequestsBounded
  BY RoundsAssumption DEF XInv, XTypeOK, RTypeOK, Promises, Paid, RequestsBounded
<1> QED
  BY <1>1, InitModes, NextModes, PTL DEF XSpec

-----------------------------------------------------------------------------
(***************************************************************************)
(* Calls and feedback.  Nothing of this is needed for the properties above *)
(* and it needs their invariant only for the places, so it is a second     *)
(* invariant on top of XInv: calls are settled before the mode goes on     *)
(* (CallsSettleFirst), the tool agent has made one call or none (Single),  *)
(* and the feedback shows the judgment of the last proposal, valid or not, *)
(* where it must (Told).  Whether it was valid is told by the rounds: a    *)
(* verdict is of a proposal's round, and of an older one than the proposal *)
(* whose judgments were invalid.                                           *)
(***************************************************************************)
Single ==
  /\ at \in {"idle", "opening", "asking", "planning"} => DOMAIN results = {}
  /\ at \in {"asking", "invoking"} => answer = "none"
  /\ mode = "tool_agent" => \/ DOMAIN results = {}
                            \/ \E c \in ToolCall : DOMAIN results = {c}
  /\ mode = "tool_agent" /\ answer = "completed" => \A c \in DOMAIN results : results[c] = "ok"

Between == {"context", "requesting", "tools"}

ShownWhere ==
  candidate.round # 0 /\ (layout = "none" \/ candidate.round = round - 1) =>
    JudgesNotes = IF verdict.round = candidate.round THEN {"verdict"} ELSE {"unjudged"}

Told ==
  /\ at \in {"idle", "opening"} => candidate.round = 0 /\ verdict.round = 0
  /\ at \in Working => verdict.round < round
  /\ at \in Between => candidate.round < round /\ ShownWhere

ZInv == CallsSettleFirst /\ Single /\ Told

LEMMA InitCalls == XInit => ZInv
<1> SUFFICES ASSUME XInit PROVE ZInv
  OBVIOUS
<1>1. at = "idle" /\ results = NoBatch /\ answer = "none" /\ mode = "none"
      /\ candidate.round = 0 /\ verdict.round = 0
  BY DEF XInit, RInit
<1>2. DOMAIN results = {}
  BY <1>1 DEF NoBatch
<1> QED
  BY <1>1, <1>2 DEF ZInv, CallsSettleFirst, Running, Single, Told, Working, Between

\* Selecting a mode calls nothing and judges nothing.
LEMMA SelectionCalls ==
  ASSUME XInv, ZInv, Chosen \/ Analyzed \/ AnalysisInvalid \/ AnalysisFails
  PROVE  ZInv'
<1> USE DEF ZInv, CallsSettleFirst, Running, Raised, Single, Told, Working, Between, ShownWhere, JudgesNotes
<1>1. CASE AnalysisInvalid
  BY <1>1 DEF AnalysisInvalid, rvars
<1>2. ASSUME NEW selected \in Modes \ {"none"}, NEW stated,
             Select(selected, stated), UNCHANGED unselected, at = "idle"
      PROVE  ZInv'
  <2>1. at' \in {"asking", "opening", "planning"}
    BY <1>2 DEF Select, Start, Modes
  <2>2. UNCHANGED <<results, answer, verdict, candidate>> /\ answer = "none"
    BY <1>2 DEF unselected, memory, XInv, Places, Untouched
  <2> QED
    BY <1>2, <2>1, <2>2
<1>3. CASE Chosen \/ AnalysisFails
  BY <1>2, <1>3 DEF Chosen, AnalysisFails, Modes, XInv, Places, Placed
<1>4. CASE Analyzed
  <2>1. PICK analysis \in Analysis : Select(Route(analysis), analysis.criteria)
    BY <1>4 DEF Analyzed
  <2>2. Route(analysis) \in Modes \ {"none"}
    BY DEF Route, Modes
  <2> QED
    BY <1>2, <1>4, <2>1, <2>2 DEF Analyzed
<1> QED
  BY <1>1, <1>3, <1>4

\* A call that raised has ended, and stays so.
LEMMA ResourceCalls ==
  ASSUME XInv, ZInv, UNCHANGED selection,
         \/ \E result \in {"failed", "raised", "cancelled"} : OpenFails(result) \/ SetupFails(result)
         \/ mode = "react" /\ Open("context", 1)
         \/ mode = "tool_agent" /\ Open("asking", 0)
         \/ Close \/ FreeClients \/ Cancel \/ ToolCalls
  PROVE  ZInv'
<1> USE DEF ZInv, CallsSettleFirst, Running, Raised, Single, Told, Working, Between, ShownWhere, JudgesNotes, selection
<1>1. ASSUME NEW result \in {"failed", "raised", "cancelled"},
             OpenFails(result) \/ SetupFails(result)
      PROVE  ZInv'
  BY <1>1 DEF OpenFails, SetupFails, Conclude, memory
<1>2. CASE mode = "react" /\ Open("context", 1)
  BY <1>2 DEF Open, memory
<1>3. CASE mode = "tool_agent" /\ Open("asking", 0)
  BY <1>3 DEF Open, memory, XInv, Places, Untouched
<1>4. CASE Close \/ FreeClients
  BY <1>4 DEF Close, FreeClients, memory
<1>5. CASE Cancel
  BY <1>5 DEF Cancel, Conclude, held, memory, XInv, Places, Placed
<1>6. CASE ToolCalls
  <2>1. PICK c \in DOMAIN results, status \in CallStatus \ {"running"} : CallEnds(c, status)
    BY <1>6 DEF ToolCalls
  <2>2. /\ results[c] = "running" /\ results' = [results EXCEPT ![c] = status]
        /\ UNCHANGED <<at, layout, mode, round, feedback, candidate, verdict, answer>>
    BY <2>1 DEF CallEnds, held, memory
  <2>3. DOMAIN results' = DOMAIN results /\ Running' \subseteq Running /\ Raised \subseteq Raised'
    BY <2>2
  <2>4. CallsSettleFirst'
    BY <2>2, <2>3
  <2>5. Single'
    BY <2>2, <2>3
  <2>6. Told'
    BY <2>2
  <2> QED
    BY <2>4, <2>5, <2>6
<1> QED
  BY <1>1, <1>2, <1>3, <1>4, <1>5, <1>6

\* Direct mode asks without calling, the tool agent waits for its one call.
LEMMA OthersCalls ==
  ASSUME XInv, ZInv,
         \/ Answered \/ AnswerInvalid \/ PlanExecuted \/ Invoked \/ CancelToolAgent
         \/ \E c \in ToolCall : \E chosen \in SUBSET ToolCall : CallFirst(chosen, c)
  PROVE  ZInv'
<1> USE DEF ZInv, CallsSettleFirst, Running, Raised, Single, Told, Working, Between, ShownWhere, JudgesNotes, selection, held, memory
<1>1. CASE Answered
  BY <1>1 DEF Answered, Answer
<1>2. CASE AnswerInvalid
  BY <1>2 DEF AnswerInvalid, Answer
<1>3. CASE PlanExecuted
  BY <1>3 DEF PlanExecuted, XInv, Places, Placed
<1>4. CASE Invoked
  <2>1. results \in [DOMAIN results -> CallStatus]
    BY DEF XInv, XTypeOK, RTypeOK
  <2>2. Failed \cup Raised = {} => \A c \in DOMAIN results : results[c] = "ok"
    BY <1>4, <2>1 DEF Invoked, CallStatus, Failed
  <2>3. /\ UNCHANGED <<results, mode>> /\ at' \in {"done", "closing"} /\ Running = {}
        /\ answer' = IF Failed \cup Raised = {} THEN "completed" ELSE "failed"
    BY <1>4 DEF Invoked, Answer
  <2> QED
    BY <2>2, <2>3
<1>5. CASE CancelToolAgent
  BY <1>5 DEF CancelToolAgent, Conclude
<1>6. ASSUME NEW c \in ToolCall, NEW chosen \in SUBSET ToolCall, CallFirst(chosen, c)
      PROVE  ZInv'
  BY <1>6 DEF CallFirst
<1> QED
  BY <1>1, <1>2, <1>3, <1>4, <1>5, <1>6

\* The notes of a round.  The judge's newest note replaces the one before it, in
\* a transcript every other note leaves it alone, and a policy has forgotten it
\* when another round than the proposal's ends.
LEMMA NotesKeep ==
  ASSUME XInv, Told, at \in Working, NEW note, NextRound(note), UNCHANGED <<layout, candidate>>,
         \/ at \in Between /\ verdict' = verdict /\ note \cap {"verdict", "unjudged"} = {}
         \/ at \notin Between /\ verdict' = verdict /\ note = {"unjudged"}
         \/ at \notin Between /\ verdict'.round = round /\ note = {"verdict"}
  PROVE  Told'
<1>1. round \in Nat /\ verdict.round \in Nat /\ candidate.round \in Nat
  BY DEF XInv, XTypeOK, RTypeOK
<1>2. CASE at' = "closing"
  BY <1>2 DEF Told, Working, Between
<1>3. CASE at' # "closing"
  <2>1. at' = "context" /\ round' = round + 1 /\ feedback' = Noted(note)
    BY <1>3 DEF NextRound, Conclude
  <2>2. verdict.round < round
    BY DEF Told
  <2>3. candidate.round <= round /\ (at \notin Between => candidate.round = round)
    BY <1>1 DEF Told, XInv, Places, Proposed, Working, Between
  <2>4. verdict'.round < round' /\ candidate'.round < round'
    BY <1>1, <2>1, <2>2, <2>3
  <2>5. ShownWhere'
    <3>1. CASE at \in Between
      <4>1. candidate.round < round /\ ShownWhere
        BY <3>1 DEF Told
      <4>2. candidate'.round # round' - 1
        BY <1>1, <2>1, <4>1
      <4>3. layout = "none" => JudgesNotes' = JudgesNotes
        BY <2>1, <3>1 DEF Noted, JudgesNotes, Between
      <4> QED
        BY <3>1, <4>1, <4>2, <4>3 DEF ShownWhere
    <3>2. CASE at \notin Between
      <4>1. note \in {{"verdict"}, {"unjudged"}} /\ JudgesNotes' = note
        BY <2>1, <3>2 DEF Noted, JudgesNotes
      <4>2. note = {"verdict"} <=> verdict'.round = candidate'.round
        BY <1>1, <2>2, <2>3, <3>2
      <4> QED
        BY <4>1, <4>2 DEF ShownWhere
    <3> QED
      BY <3>1, <3>2
  <2> QED
    BY <2>1, <2>4, <2>5 DEF Told, Working, Between
<1> QED
  BY <1>2, <1>3

\* A round of ReAct.  Only a batch with a call that raised is left before all
\* its calls have ended.
LEMMA ReactCalls ==
  ASSUME XInv, ZInv, mode = "react", UNCHANGED selection,
         Maintained \/ MaintainFails \/ Respond \/ SettleBatch \/ BatchRaises \/ Judging
  PROVE  ZInv'
<1>1. mode' = "react" /\ layout' = layout
  BY DEF selection, held, Maintained, MaintainFails, Respond, RequestFails, NoProgress, Propose,
         CallTools, SettleBatch, BatchRaises, Judging, Judge, JudgeInvalid, JudgeFails
<1>2. at \in Working /\ (at # "tools" => Running = {})
  BY DEF Maintained, MaintainFails, Respond, RequestFails, NoProgress, Propose, CallTools,
         SettleBatch, BatchRaises, Judging, Judge, JudgeInvalid, JudgeFails, Working,
         ZInv, CallsSettleFirst
<1>3. at' \in Working \cup {"closing"} => Single'
  BY <1>1 DEF Single, Working
<1>4. ASSUME NEW note, NextRound(note), UNCHANGED <<results, candidate>>, Running = {},
             \/ at \in Between /\ verdict' = verdict /\ note \cap {"verdict", "unjudged"} = {}
             \/ at \notin Between /\ verdict' = verdict /\ note = {"unjudged"}
             \/ at \notin Between /\ verdict'.round = round /\ note = {"verdict"}
      PROVE  ZInv'
  <2>1. at' \in {"context", "closing"}
    BY <1>4 DEF NextRound, Conclude
  <2>2. Told'
    BY <1>1, <1>2, <1>4, NotesKeep DEF ZInv
  <2> QED
    BY <1>3, <1>4, <2>1, <2>2 DEF ZInv, CallsSettleFirst, Running, Working
<1>5. CASE Fails /\ UNCHANGED results /\ (Running = {} \/ Raised # {})
  <2>1. at' = "closing" /\ answer' = "failed"
    BY <1>5 DEF Fails, Conclude
  <2> QED
    BY <1>3, <1>5, <2>1 DEF ZInv, CallsSettleFirst, Running, Raised, Told, Working, Between
<1>6. CASE MaintainFails \/ RequestFails \/ JudgeFails
  BY <1>2, <1>5, <1>6 DEF MaintainFails, RequestFails, JudgeFails
<1>7. CASE BatchRaises
  BY <1>5, <1>7 DEF BatchRaises
<1>8. CASE NoProgress
  BY <1>2, <1>4, <1>8 DEF NoProgress, memory, Between
<1>9. CASE SettleBatch
  BY <1>4, <1>5, <1>9 DEF SettleBatch, memory, Between
<1>10. ASSUME at' \in Working \ {"tools"}, Running = {}, at' \in Between => at \in Between,
              UNCHANGED <<results, round, feedback, verdict>>,
              at' \in Between => UNCHANGED candidate
       PROVE  ZInv'
  <2>1. Told'
    BY <1>1, <1>2, <1>10 DEF ZInv, Told, Working, Between, ShownWhere, JudgesNotes
  <2> QED
    BY <1>3, <1>10, <2>1 DEF ZInv, CallsSettleFirst, Running
<1>11. CASE Maintained \/ Propose
  BY <1>2, <1>10, <1>11 DEF Maintained, Propose, memory, Working, Between
<1>12. CASE \E chosen \in SUBSET ToolCall \ {{}} : CallTools(chosen)
  <2>1. at' = "tools" /\ UNCHANGED <<round, feedback, candidate, verdict>> /\ at = "requesting"
    BY <1>12 DEF CallTools, memory
  <2> QED
    BY <1>1, <1>2, <1>3, <2>1
    DEF ZInv, CallsSettleFirst, Told, Working, Between, ShownWhere, JudgesNotes
<1>13. CASE JudgeInvalid
  <2>1. CASE at = "judging"
    BY <1>2, <1>10, <1>13, <2>1 DEF JudgeInvalid, memory, Working, Between
  <2> QED
    BY <1>2, <1>4, <1>13, <2>1 DEF JudgeInvalid, memory, Between
<1>14. CASE Judge
  <2>1. PICK verified \in SUBSET Standards : Decide(verified)
    BY <1>14 DEF Judge
  <2>2. /\ verdict'.round = round /\ UNCHANGED <<results, candidate>> /\ Running = {}
        /\ at \notin Between
    BY <1>2, <1>14, <2>1 DEF Decide, Judge, Between
  <2>3. CASE Accepts(verified)
    <3>1. at' = "closing"
      BY <2>1, <2>3 DEF Decide, Conclude
    <3> QED
      BY <1>3, <2>2, <3>1 DEF ZInv, CallsSettleFirst, Running, Told, Working, Between
  <2>4. CASE ~Accepts(verified)
    BY <1>4, <2>1, <2>2, <2>4 DEF Decide
  <2> QED
    BY <2>3, <2>4
<1> QED
  BY <1>6, <1>7, <1>8, <1>9, <1>11, <1>12, <1>13, <1>14 DEF Respond, Judging

\* Every step keeps the second invariant.
LEMMA NextCalls == XInv /\ ZInv /\ [XNext]_xvars => ZInv'
<1> SUFFICES ASSUME XInv, ZInv, [XNext]_xvars PROVE ZInv'
  OBVIOUS
<1>1. CASE UNCHANGED xvars
  BY <1>1 DEF xvars, rvars, ZInv, CallsSettleFirst, Running, Raised, Single, Told,
         Between, ShownWhere, JudgesNotes
<1>2. CASE Chosen \/ Analyzed \/ AnalysisInvalid \/ AnalysisFails
  BY <1>2, SelectionCalls
<1>3. CASE Answered \/ AnswerInvalid \/ PlanExecuted \/ CancelToolAgent
  BY <1>3, OthersCalls
<1>4. CASE mode = "tool_agent" /\ ToolAgent
  <2>1. ASSUME NEW chosen \in SUBSET ToolCall, NEW c \in chosen, CallFirst(chosen, c)
        PROVE  ZInv'
    BY <2>1, OthersCalls
  <2>2. CASE Invoked
    BY <2>2, OthersCalls
  <2>3. CASE UNCHANGED selection /\ (Open("asking", 0) \/ OpenFails("failed") \/ SetupFails("failed"))
    BY <1>4, <2>3, ResourceCalls
  <2> QED
    BY <1>4, <2>1, <2>2, <2>3 DEF ToolAgent
<1>5. CASE mode = "react" /\ React /\ UNCHANGED selection
  <2>1. CASE Opening
    BY <1>5, <2>1, ResourceCalls DEF Opening, SetupFailure
  <2>2. CASE ~Opening
    BY <1>5, <2>2, ReactCalls DEF React
  <2> QED
    BY <2>1, <2>2
<1>6. CASE (Finish \/ ToolCalls \/ Cancel \/ OpenFails("cancelled")) /\ UNCHANGED selection
  BY <1>6, ResourceCalls DEF Finish
<1> QED
  BY <1>1, <1>2, <1>3, <1>4, <1>5, <1>6 DEF XNext, Program, Tools

LEMMA CallsInvariant == XSpec => [](XInv /\ ZInv)
<1>1. XInit => XInv /\ ZInv
  BY InitModes, InitCalls
<1>2. XInv /\ ZInv /\ [XNext]_xvars => (XInv /\ ZInv)'
  BY NextModes, NextCalls
<1> QED
  BY <1>1, <1>2, PTL DEF XSpec

\* For every set of calls: no model and no judge is asked, and no answer is
\* accepted, while a tool call of the run is still running; one that is left
\* running has a sibling that raised, and the run fails.
THEOREM CallsSettle == XSpec => []CallsSettleFirst
<1>1. ZInv => CallsSettleFirst
  BY DEF ZInv
<1> QED
  BY <1>1, CallsInvariant, PTL

\* For every round limit and every set of criteria: the model is next shown the
\* judgment of its last proposal, the verdict exactly when that judgment was
\* valid, and without a policy in every later request, until the next proposal
\* has been judged.
THEOREM VerdictIsShown == XSpec => []VerdictShown
<1>1. ZInv => VerdictShown
  BY DEF ZInv, Told, VerdictShown, Working, Between, ShownWhere
<1> QED
  BY <1>1, CallsInvariant, PTL

\* The tool agent makes one call at most and never completes on a failed one.
THEOREM OneCall == XSpec => []OneToolCall
<1>1. ZInv => OneToolCall
  <2> SUFFICES ASSUME ZInv, mode = "tool_agent"
               PROVE  Cardinality(DOMAIN results) <= 1
    BY DEF ZInv, Single, OneToolCall
  <2>1. CASE DOMAIN results = {}
    BY <2>1, FS_EmptySet
  <2>2. CASE \E c \in ToolCall : DOMAIN results = {c}
    BY <2>2, FS_Singleton
  <2> QED
    BY <2>1, <2>2 DEF ZInv, Single
<1> QED
  BY <1>1, CallsInvariant, PTL
===============================================================================
