---------------------------- MODULE PlanAgentProofs ---------------------------
(***************************************************************************)
(* PlanAgent keeps the promise of PlanExecution, for every set of plans,   *)
(* revision budget, set of tool calls and round budget; a step never uses  *)
(* more than its rounds, and is recorded as completed only after a valid   *)
(* acceptance with no tool batch run since.                                *)
(*                                                                         *)
(* The invariant has a part for each half.  EInv is about the Executor: a  *)
(* request is paid for by a round, so that where the Executor is says by   *)
(* how much the two counters differ.  Serial is about the coordinator: the *)
(* running step is the next step of the last revision, and what run() is   *)
(* about to return is already true of the state.                           *)
(***************************************************************************)
EXTENDS PlanAgent, PlanExecutionProofs

Tally ==
  /\ batches <= rounds /\ batches <= MaxRounds
  /\ requests <= MaxRounds + 1
  /\ at \in {"opening", "context", "tools"} => requests = rounds /\ rounds <= MaxRounds
  /\ at \in {"requesting", "candidate", "judge_context", "judging", "repairing"} =>
       requests = rounds + 1 /\ rounds <= MaxRounds

Answered ==
  /\ at \notin {"closed", "idle", "ended"} => outcome = "none"
  /\ at = "ended" => outcome # "none"
  /\ outcome = "completed" => verdict.says = "accepted" /\ verdict.after = batches

Held == held # "nothing" => sessions > 0

EInv == ETypeOK /\ Tally /\ Answered /\ NoCallOutlives /\ Held

\* What the Executor does, the coordinator's calls included.
ENext == Enter \/ Exit \/ Begin \/ Return \/ Work

-----------------------------------------------------------------------------
\* A closed Executor satisfies the invariant.
LEMMA EInitHolds == EInit => EInv
  BY RoundsAssumption
  DEF EInit, EInv, ETypeOK, Tally, Answered, NoCallOutlives, Held, Place, CallStatus,
      Judgment, NoBatch, NoFeedback, NoVerdict

\* Entering, leaving and the bounds of a step.
LEMMA BoundsKeepEInv ==
  ASSUME EInv, Enter \/ Exit \/ Begin \/ Return
  PROVE  EInv'
<1> USE RoundsAssumption DEF EInv, ETypeOK, Tally, Answered, NoCallOutlives, Held, Place
<1>1. CASE Enter
  BY <1>1 DEF Enter
<1>2. CASE Exit
  BY <1>2 DEF Exit
<1>3. CASE Begin
  BY <1>3 DEF Begin, NoBatch, NoFeedback, NoVerdict, CallStatus, Judgment
<1>4. CASE Return
  BY <1>4 DEF Return
<1> QED
  BY <1>1, <1>2, <1>3, <1>4

\* The session and the context policy.
LEMMA OpeningKeepsEInv ==
  ASSUME EInv, Opening \/ Maintained \/ MaintainFails
  PROVE  EInv'
<1> USE RoundsAssumption DEF EInv, ETypeOK, Tally, Answered, NoCallOutlives, Held, Place
<1>1. CASE Open
  BY <1>1 DEF Open
<1>2. CASE OpenToolless
  BY <1>2 DEF OpenToolless, Raise, EndWith
<1>3. CASE OpenFails
  BY <1>3 DEF OpenFails, Raise, EndWith
<1>4. CASE Maintained
  BY <1>4 DEF Maintained
<1>5. CASE MaintainFails
  BY <1>5 DEF MaintainFails, Raise, EndWith
<1> QED
  BY <1>1, <1>2, <1>3, <1>4, <1>5 DEF Opening

\* A rejection costs a round, and the last one ends the step.
LEMMA RejectKeepsEInv ==
  ASSUME EInv, Reject, at \in {"requesting", "judging", "repairing"},
         UNCHANGED <<requests, batches, results, sessions, held>>,
         verdict' \in [on : Nat, after : Nat, says : Judgment]
  PROVE  EInv'
<1> USE RoundsAssumption DEF EInv, ETypeOK, Tally, Answered, NoCallOutlives, Held, Place
<1>1. rounds' = rounds + 1 /\ requests = rounds + 1 /\ rounds <= MaxRounds /\ outcome = "none"
  BY DEF Reject
<1>2. CASE rounds' >= MaxRounds
  <2>1. at' = "ended" /\ outcome' = "failed" /\ UNCHANGED feedback
    BY <1>2 DEF Reject, EndWith
  <2> QED
    BY <1>1, <2>1
<1>3. CASE ~(rounds' >= MaxRounds)
  <2>1. /\ at' = "context" /\ UNCHANGED outcome
        /\ feedback' = [failed |-> {}, criterion |-> TRUE]
    BY <1>3 DEF Reject
  <2> QED
    BY <1>1, <1>3, <2>1
<1> QED
  BY <1>2, <1>3

\* A response: at most MaxRounds of them get their tools.
LEMMA RespondKeepsEInv ==
  ASSUME EInv, Respond
  PROVE  EInv'
<1> USE RoundsAssumption DEF EInv, ETypeOK, Tally, Answered, NoCallOutlives, Held, Place
<1>1. ASSUME NEW chosen \in SUBSET ToolCall \ {{}}, CallTools(chosen) PROVE EInv'
  BY <1>1 DEF CallTools, CallStatus, NoFeedback
<1>2. CASE CallToolsExhausted
  BY <1>2 DEF CallToolsExhausted, EndWith
<1>3. CASE RespondEmpty
  BY <1>3, RejectKeepsEInv DEF RespondEmpty
<1>4. CASE Propose
  BY <1>4 DEF Propose
<1>5. CASE ProviderFails
  BY <1>5 DEF ProviderFails, Raise, EndWith
<1> QED
  BY <1>1, <1>2, <1>3, <1>4, <1>5 DEF Respond

\* The tool batch.
LEMMA ToolsKeepEInv ==
  ASSUME EInv, ToolCalls \/ SettleBatch
  PROVE  EInv'
<1> USE RoundsAssumption DEF EInv, ETypeOK, Tally, Answered, NoCallOutlives, Held, Place
<1>1. ASSUME NEW c \in DOMAIN results, NEW status \in {"ok", "error"}, CallEnds(c, status)
      PROVE  EInv'
  BY <1>1 DEF CallEnds, CallStatus
<1>2. CASE BatchFails
  BY <1>2 DEF BatchFails, CallStatus
<1>3. CASE SettleBatch
  BY <1>3 DEF SettleBatch, Failures
<1> QED
  BY <1>1, <1>2, <1>3 DEF ToolCalls

\* The judge: a step ends completed only here, on an acceptance.
LEMMA JudgingKeepsEInv ==
  ASSUME EInv, Judging
  PROVE  EInv'
<1> USE RoundsAssumption DEF EInv, ETypeOK, Tally, Answered, NoCallOutlives, Held, Place
<1>1. ASSUME NEW judgment \in Judgment, Decide(judgment), at \in {"judging", "repairing"},
             UNCHANGED <<requests, batches, results, sessions, held>>
      PROVE  EInv'
  <2>1. CASE judgment = "accepted"
    BY <1>1, <2>1 DEF Decide, Judged, EndWith
  <2>2. CASE judgment # "accepted"
    <3>1. Reject /\ verdict' = [on |-> requests, after |-> batches, says |-> judgment]
      BY <1>1, <2>2 DEF Decide, Judged
    <3> QED
      BY <1>1, <3>1, RejectKeepsEInv
  <2> QED
    BY <2>1, <2>2
<1>2. ASSUME NEW judgment \in Judgment, Judge(judgment) PROVE EInv'
  <2>1. CASE judgment = "invalid"
    BY <1>2, <2>1 DEF Judge
  <2>2. CASE judgment # "invalid"
    <3>1. Decide(judgment) /\ at = "judging" /\ UNCHANGED <<requests, batches, results, sessions, held>>
      BY <1>2, <2>2 DEF Judge
    <3> QED
      BY <1>1, <3>1
  <2> QED
    BY <2>1, <2>2
<1>3. ASSUME NEW judgment \in Judgment, Repair(judgment) PROVE EInv'
  <2>1. Decide(judgment) /\ at = "repairing" /\ UNCHANGED <<requests, batches, results, sessions, held>>
    BY <1>3 DEF Repair
  <2> QED
    BY <1>1, <2>1
<1>4. CASE JudgeFails
  BY <1>4 DEF JudgeFails, EndWith
<1> QED
  BY <1>2, <1>3, <1>4 DEF Judging

\* Every step of the Executor keeps its invariant.
LEMMA ENextKeepsEInv ==
  ASSUME EInv, [ENext]_evars
  PROVE  EInv'
<1>1. CASE UNCHANGED evars
  BY <1>1 DEF evars, EInv, ETypeOK, Tally, Answered, NoCallOutlives, Held
<1> QED
  BY <1>1, BoundsKeepEInv, OpeningKeepsEInv, RespondKeepsEInv, ToolsKeepEInv, JudgingKeepsEInv
  DEF ENext, Work

-----------------------------------------------------------------------------
RunningSteps == WithStatus(state, "running")

Serial ==
  /\ leaving \in {"none", "completed", "blocked", "failed"}
  /\ phase = "absent" => at = "closed" /\ leaving = "none" /\ RunningSteps = {}
  /\ phase = "running" <=> at # "closed"
  /\ leaving # "none" => at \in {"idle", "closed"}
  /\ leaving = "completed" => state.plans # <<>> /\ AllStepsCompleted(state)
  /\ leaving = "blocked" => FailedNext(state) /\ Revision(state) = MaxRevision
  /\ at = "idle" /\ leaving = "none" => RunningSteps = {}
  /\ at \notin {"closed", "idle"} => \E k \in RunningSteps : IsNextStep(state, k)
  /\ \A j, k \in RunningSteps : j = k

AInv == PInv /\ EInv /\ Serial

\* The Executor sees the coordinator's steps as its own, or not at all.
LEMMA StepsOfExecutor == [ANext]_avars => [ENext]_evars
<1> SUFFICES ASSUME [ANext]_avars PROVE [ENext]_evars
  OBVIOUS
<1>1. CASE UNCHANGED avars
  BY <1>1 DEF avars, evars
<1>2. CASE Execute
  BY <1>2 DEF Execute, ENext
<1>3. CASE Run \/ StepRaises \/ Returned
  BY <1>3 DEF Run, StepRaises, Returned, ENext
<1>4. CASE PlannerRaises \/ RevisionsUsedUp \/ AllCompleted
  BY <1>4 DEF PlannerRaises, RevisionsUsedUp, AllCompleted, Leave
<1>5. ASSUME NEW p \in Plans, Plan(p) PROVE UNCHANGED evars
  BY <1>5 DEF Plan
<1>6. ASSUME NEW k \in Key, ExecuteStep(k) \/ RecordOutcome(k) PROVE ENext
  BY <1>6 DEF ExecuteStep, RecordOutcome, ENext
<1> QED
  BY <1>1, <1>2, <1>3, <1>4, <1>5, <1>6 DEF ANext, Coordinate

\* The coordinator compares with the budget for equality, which is as good as
\* being below it: no state has more plans.
LEMMA BelowBudget ==
  ASSUME PTypeOK, Revision(state) # MaxRevision
  PROVE  Revision(state) < MaxRevision
<1>1. state.plans \in Seq(Plans) /\ Len(state.plans) <= MaxRevision
  BY DEF PTypeOK, AgentState, PlanHistory
<1> QED
  BY <1>1, RevisionAssumption DEF Revision

\* The step that begins is the only one that runs, and still the next one.
LEMMA StepBegins ==
  ASSUME AInv, NEW k \in Key, ExecuteStep(k)
  PROVE  /\ state.execs[k] \in {"absent", "interrupted"}
         /\ RunningSteps' = {k}
         /\ IsNextStep(state', k)
<1>1. /\ state \in AgentState /\ RunningSteps = {}
      /\ IsNextStep(state, k) /\ ~FailedNext(state)
      /\ state' = WithStepExecution(state, k, "running")
  BY DEF AInv, PInv, PTypeOK, Serial, ExecuteStep, Deciding
<1>2. state.execs[k] \notin {"failed", "running", "completed"}
  BY <1>1 DEF FailedNext, RunningSteps, WithStatus, IsNextStep
<1>3. state.execs[k] \in {"absent", "interrupted"}
  BY <1>1, <1>2 DEF AgentState, ExecutionStatus
<1>4. /\ state'.plans = state.plans
      /\ state'.execs[k] = "running"
      /\ \A j \in Key : j # k => state'.execs[j] = state.execs[j]
  <2>1. "running" \in ExecutionStatus
    BY DEF ExecutionStatus
  <2> QED
    BY <1>1, <2>1, WithStepExecutionSets
<1>5. RunningSteps' = {k}
  BY <1>1, <1>4 DEF RunningSteps, WithStatus
<1>6. IsNextStep(state', k)
  <2> DEFINE last == Revision(state)
  <2>1. PICK n \in DOMAIN state.plans[last] :
          /\ k = <<last, state.plans[last][n]>>
          /\ \A m \in 1 .. n - 1 : state.execs[<<last, state.plans[last][m]>>] = "completed"
    BY <1>1, NextStepIsKey
  <2>2. last \in DOMAIN state.plans
    BY <1>1, NextStepIsKey
  <2>3. DOMAIN state.plans[last] = 1 .. Len(state.plans[last]) /\ Len(state.plans[last]) \in Nat
    BY <1>1, <2>2, RevisionIsPlan
  <2>4. ASSUME NEW m \in 1 .. n - 1 PROVE state'.execs[<<last, state.plans[last][m]>>] = "completed"
    <3>1. m \in DOMAIN state.plans[last]
      BY <2>3
    <3>2. <<last, state.plans[last][m]>> \in Key
      BY <1>1, <2>2, <3>1, RevisionIsPlan
    <3>3. state.execs[<<last, state.plans[last][m]>>] = "completed"
      BY <2>1
    <3>4. <<last, state.plans[last][m]>> # k
      BY <1>2, <3>3
    <3> QED
      BY <1>4, <3>2, <3>3, <3>4
  <2>5. Revision(state') = last /\ state'.plans # <<>>
    BY <1>1, <1>4 DEF Revision, IsNextStep
  <2> QED
    BY <1>4, <2>1, <2>4, <2>5 DEF IsNextStep
<1> QED
  BY <1>3, <1>5, <1>6

\* The step that ends was the next one, and none runs after it.
LEMMA StepEnds ==
  ASSUME AInv, NEW k \in Key, RecordOutcome(k)
  PROVE  IsNextStep(state, k) /\ RunningSteps' = {}
<1>1. /\ state \in AgentState /\ k \in RunningSteps
      /\ at = "ended" /\ outcome \in {"completed", "failed"}
      /\ state' = WithStepExecution(state, k, outcome)
  BY DEF AInv, PInv, PTypeOK, RecordOutcome, Return, RunningSteps, WithStatus
<1>2. IsNextStep(state, k)
  BY <1>1 DEF AInv, Serial
<1>3. RunningSteps = {k}
  BY <1>1 DEF AInv, Serial
<1>4. /\ state'.execs[k] = outcome
      /\ \A j \in Key : j # k => state'.execs[j] = state.execs[j]
  <2>1. outcome \in ExecutionStatus
    BY <1>1 DEF ExecutionStatus
  <2> QED
    BY <1>1, <2>1, WithStepExecutionSets
<1>5. RunningSteps' = {}
  BY <1>1, <1>3, <1>4 DEF RunningSteps, WithStatus
<1> QED
  BY <1>2, <1>5

-----------------------------------------------------------------------------
\* Every step of the coordinator is a step of the abstract run, or a stutter.
LEMMA StepsOfPlanExecution ==
  ASSUME AInv, [ANext]_avars
  PROVE  [PNext]_pvars
<1>1. CASE UNCHANGED avars
  BY <1>1 DEF avars, pvars
<1>2. CASE Execute \/ StepRaises \/ PlannerRaises \/ RevisionsUsedUp \/ AllCompleted
  BY <1>2 DEF Execute, StepRaises, PlannerRaises, RevisionsUsedUp, AllCompleted, Leave, pvars
<1>3. CASE Run
  BY <1>3 DEF Run, Create, PNext
<1>4. CASE Returned
  <2>1. phase = "running" /\ phase' \in {leaving, "failed"} /\ UNCHANGED state
    BY <1>4 DEF Returned
  <2>2. CASE phase' = "failed"
    BY <2>1, <2>2 DEF Fail, PNext
  <2>3. CASE phase' = "completed"
    BY <2>1, <2>3 DEF AInv, Serial, Complete, PNext
  <2>4. CASE phase' = "blocked"
    BY <2>1, <2>4 DEF AInv, Serial, Block, PNext
  <2> QED
    BY <1>4, <2>1, <2>2, <2>3, <2>4 DEF Returned, AInv, Serial
<1>5. ASSUME NEW p \in Plans, Plan(p) PROVE AddPlan(p)
  BY <1>5, BelowBudget DEF Plan, Deciding, AddPlan, AInv, PInv
<1>6. ASSUME NEW k \in Key, ExecuteStep(k) PROVE StartStep(k)
  BY <1>6, StepBegins DEF ExecuteStep, Deciding, StartStep
<1>7. ASSUME NEW k \in Key, RecordOutcome(k) PROVE EndStep(k, outcome) /\ outcome \in {"completed", "failed"}
  <2>1. phase = "running"
    BY <1>7 DEF RecordOutcome, Return, AInv, Serial
  <2> QED
    BY <1>7, <2>1, StepEnds DEF RecordOutcome, EndStep
<1> QED
  BY <1>1, <1>2, <1>3, <1>4, <1>5, <1>6, <1>7 DEF ANext, Coordinate, PNext

\* Every step keeps one step at a time, and what run() is about to return true.
LEMMA SerialKept ==
  ASSUME AInv, [ANext]_avars
  PROVE  Serial'
<1> USE DEF AInv, Serial
<1>1. CASE UNCHANGED avars
  BY <1>1 DEF avars, RunningSteps, WithStatus, AllStepsCompleted, FailedNext, IsNextStep, Revision
<1>2. CASE Execute
  <2>1. UNCHANGED <<state, phase, leaving>> /\ at \notin {"closed", "idle"} /\ at' \notin {"closed", "idle"}
    BY <1>2 DEF Execute, Work, Opening, Open, OpenToolless, OpenFails, Maintained, MaintainFails,
       Respond, CallTools, CallToolsExhausted, RespondEmpty, Propose, ProviderFails, ToolCalls,
       CallEnds, BatchFails, SettleBatch, Judging, JudgeFails, Judge, Repair, Decide, Reject,
       Raise, EndWith
  <2> QED
    BY <2>1 DEF RunningSteps, WithStatus, IsNextStep
<1>3. CASE Run
  BY <1>3 DEF Run, Enter, RunningSteps, WithStatus
<1>4. CASE PlannerRaises \/ RevisionsUsedUp \/ AllCompleted
  <2>1. /\ at = "idle" /\ phase = "running" /\ UNCHANGED <<at, phase, state>>
        /\ leaving' \in {"completed", "blocked", "failed"}
        /\ leaving' = "completed" => state.plans # <<>> /\ AllStepsCompleted(state)
        /\ leaving' = "blocked" => FailedNext(state) /\ Revision(state) = MaxRevision
    BY <1>4 DEF PlannerRaises, RevisionsUsedUp, AllCompleted, Leave, Deciding, evars
  <2> QED
    BY <2>1 DEF RunningSteps, WithStatus
<1>5. CASE StepRaises
  BY <1>5 DEF StepRaises, Return, RunningSteps, WithStatus
<1>6. CASE Returned
  <2>1. /\ at' = "closed" /\ phase' \notin {"absent", "running"} /\ UNCHANGED <<state, leaving>>
    BY <1>6 DEF Returned, Exit
  <2> QED
    BY <2>1 DEF RunningSteps, WithStatus
<1>7. ASSUME NEW p \in Plans, Plan(p) PROVE Serial'
  <2>1. /\ at = "idle" /\ phase = "running" /\ leaving = "none" /\ UNCHANGED <<at, phase, leaving>>
        /\ state'.execs = state.execs
    BY <1>7, BelowBudget, WithPlanAppends DEF Plan, Deciding, evars, PInv, PTypeOK
  <2> QED
    BY <2>1 DEF RunningSteps, WithStatus
<1>8. ASSUME NEW k \in Key, ExecuteStep(k) PROVE Serial'
  <2>1. /\ phase = "running" /\ leaving = "none" /\ UNCHANGED <<phase, leaving>>
        /\ at' \notin {"closed", "idle"}
    BY <1>8 DEF ExecuteStep, Deciding, Begin
  <2>2. RunningSteps' = {k} /\ IsNextStep(state', k)
    BY <1>8, StepBegins
  <2> QED
    BY <2>1, <2>2
<1>9. ASSUME NEW k \in Key, RecordOutcome(k) PROVE Serial'
  <2>1. /\ phase = "running" /\ leaving = "none" /\ UNCHANGED <<phase, leaving>> /\ at' = "idle"
    BY <1>9 DEF RecordOutcome, Return
  <2> QED
    BY <1>9, <2>1, StepEnds
<1> QED
  BY <1>1, <1>2, <1>3, <1>4, <1>5, <1>6, <1>7, <1>8, <1>9 DEF ANext, Coordinate

\* AInv is inductive.
LEMMA AInductive == (AInit => AInv) /\ (AInv /\ [ANext]_avars => AInv')
<1>1. AInit => AInv
  <2> SUFFICES ASSUME AInit PROVE Serial
    BY InitHolds, EInitHolds DEF AInit, AInv
  <2>1. RunningSteps = {}
    BY DEF AInit, PInit, NewAgentState, RunningSteps, WithStatus
  <2> QED
    BY <2>1 DEF AInit, PInit, EInit, Serial
<1>2. AInv /\ [ANext]_avars => AInv'
  <2> SUFFICES ASSUME AInv, [ANext]_avars PROVE AInv'
    OBVIOUS
  <2>1. PInv'
    BY StepsOfPlanExecution, NextKeepsInvariant DEF AInv
  <2>2. EInv'
    BY StepsOfExecutor, ENextKeepsEInv DEF AInv
  <2> QED
    BY <2>1, <2>2, SerialKept DEF AInv
<1> QED
  BY <1>1, <1>2

-----------------------------------------------------------------------------
(***************************************************************************)
(* The theorems.                                                           *)
(***************************************************************************)
\* Every variable of the coordinator and its Executor keeps its type.
THEOREM PlanAgentTypes == ASpec => []ATypeOK
<1>1. AInv => ATypeOK
  BY DEF AInv, PInv, EInv, Serial, ATypeOK
<1> QED
  BY <1>1, AInductive, PTL DEF ASpec

\* The in-memory coordinator implements the abstract plan execution: it adds a
\* revision only after a failed step, and ends completed or blocked only when
\* the state says so.
THEOREM AgentImplements == ASpec => ImplementsPlanExecution
<1>1. AInit => PInit
  BY DEF AInit
<1>2. AInv /\ [ANext]_avars => [PNext]_pvars
  BY StepsOfPlanExecution
<1> QED
  BY <1>1, <1>2, AInductive, PTL DEF ASpec, ImplementsPlanExecution, PSpec

\* It therefore carries its plans out in order, and its outcome is justified.
COROLLARY AgentInOrder == ASpec => [](PlanOrder /\ SupersededFailed /\ OutcomeHolds)
  BY AgentImplements, PlanExecutionSafe, PTL DEF ImplementsPlanExecution

\* One step runs at a time, it is the next one, and the Executor works exactly
\* then.
THEOREM OneStepAtATime == ASpec => []SerialSteps
<1>1. AInv => SerialSteps
  BY DEF AInv, Serial, SerialSteps, RunningSteps, Deciding
<1> QED
  BY <1>1, AInductive, PTL DEF ASpec

\* A step makes at most MaxRounds + 1 operational requests and runs at most
\* MaxRounds tool batches.
THEOREM RoundsAreBudgeted == ASpec => []BudgetHolds
<1>1. AInv => BudgetHolds
  BY DEF AInv, EInv, Tally, BudgetHolds
<1> QED
  BY <1>1, AInductive, PTL DEF ASpec

\* Only the judge's acceptance completes a step, and no tool batch runs between
\* the two.
THEOREM CompletionNeedsJudge == ASpec => CompletionsAreJudged
<1>1. AInv /\ [ANext]_avars =>
        [\A k \in Key : state'.execs[k] = "completed" /\ state.execs[k] # "completed" =>
           verdict.says = "accepted" /\ verdict.after = batches]_avars
  <2> SUFFICES ASSUME AInv, ANext, NEW k \in Key,
                      state'.execs[k] = "completed", state.execs[k] # "completed"
               PROVE  verdict.says = "accepted" /\ verdict.after = batches
    BY DEF avars
  <2>1. CASE Execute \/ Run \/ StepRaises \/ Returned \/ PlannerRaises \/ RevisionsUsedUp \/ AllCompleted
    BY <2>1 DEF Execute, Run, StepRaises, Returned, PlannerRaises, RevisionsUsedUp, AllCompleted, Leave
  <2>2. ASSUME NEW p \in Plans, Plan(p) PROVE FALSE
    BY <2>2, BelowBudget, WithPlanAppends DEF Plan, AInv, PInv, PTypeOK
  <2>3. ASSUME NEW j \in Key, ExecuteStep(j) PROVE FALSE
    <3>1. /\ state \in AgentState
          /\ state' = WithStepExecution(state, j, "running")
      BY <2>3 DEF ExecuteStep, AInv, PInv, PTypeOK
    <3>2. "running" \in ExecutionStatus
      BY DEF ExecutionStatus
    <3>3. state'.execs[j] = "running" /\ (k # j => state'.execs[k] = state.execs[k])
      BY <3>1, <3>2, WithStepExecutionSets
    <3> QED
      BY <3>3
  <2>4. ASSUME NEW j \in Key, RecordOutcome(j) PROVE outcome = "completed"
    <3>1. /\ state \in AgentState /\ outcome \in {"completed", "failed"}
          /\ state' = WithStepExecution(state, j, outcome)
      BY <2>4 DEF RecordOutcome, AInv, PInv, PTypeOK
    <3>2. outcome \in ExecutionStatus
      BY <3>1 DEF ExecutionStatus
    <3>3. state'.execs[j] = outcome /\ (k # j => state'.execs[k] = state.execs[k])
      BY <3>1, <3>2, WithStepExecutionSets
    <3> QED
      BY <3>3
  <2>5. outcome = "completed" => verdict.says = "accepted" /\ verdict.after = batches
    BY DEF AInv, EInv, Answered
  <2> QED
    BY <2>1, <2>2, <2>3, <2>4, <2>5 DEF ANext, Coordinate
<1> QED
  BY <1>1, AInductive, PTL DEF ASpec, CompletionsAreJudged

-----------------------------------------------------------------------------
(***************************************************************************)
(* The session.  With a checkpointer at most one is open, the one the      *)
(* Executor holds: when its tools cannot be loaded the step raises, and    *)
(* the coordinator leaves run() before another step could open a second.   *)
(***************************************************************************)
OneSession ==
  /\ sessions = IF held = "nothing" THEN 0 ELSE 1
  /\ at = "closed" => held = "nothing"
  /\ at = "opening" => held = "nothing"
  /\ held = "session" => \/ at = "ended" /\ outcome = "raised"
                         \/ at = "idle" /\ leaving # "none"

\* What is done between opening and the end of a step does not touch it.
LEMMA WorkKeepsSession ==
  ASSUME AInv, OneSession, Checkpointed, Execute
  PROVE  OneSession'
<1> USE DEF OneSession
<1>1. Work /\ UNCHANGED leaving
  BY DEF Execute
<1>2. CASE Open
  BY <1>1, <1>2 DEF Open
<1>3. CASE OpenToolless
  BY <1>1, <1>3 DEF OpenToolless, Raise, EndWith
<1>4. CASE OpenFails
  BY <1>1, <1>4 DEF OpenFails, Raise, EndWith
<1>5. CASE ~Opening
  <2>1. /\ UNCHANGED <<sessions, held>>
        /\ at \notin {"closed", "idle", "opening", "ended"}
        /\ at' \notin {"closed", "opening"}
    BY <1>1, <1>5
    DEF Work, Maintained, MaintainFails, Respond, CallTools, CallToolsExhausted, RespondEmpty,
        Propose, ProviderFails, ToolCalls, CallEnds, BatchFails, SettleBatch, Judging, JudgeFails,
        Judge, Repair, Decide, Reject, Raise, EndWith
  <2> QED
    BY <2>1
<1> QED
  BY <1>1, <1>2, <1>3, <1>4, <1>5 DEF Opening

LEMMA SessionKept ==
  ASSUME AInv, OneSession, Checkpointed, [ANext]_avars
  PROVE  OneSession'
<1> USE DEF OneSession
<1>1. CASE UNCHANGED avars
  BY <1>1 DEF avars
<1>2. CASE Execute
  BY <1>2, WorkKeepsSession
<1>3. CASE Run
  BY <1>3 DEF Run, Enter
<1>4. CASE PlannerRaises \/ RevisionsUsedUp \/ AllCompleted
  <2>1. UNCHANGED evars /\ at = "idle" /\ leaving' \in {"completed", "blocked", "failed"}
    BY <1>4 DEF PlannerRaises, RevisionsUsedUp, AllCompleted, Leave, Deciding
  <2> QED
    BY <2>1 DEF evars
<1>5. CASE StepRaises
  BY <1>5 DEF StepRaises, Return
<1>6. CASE Returned
  BY <1>6 DEF Returned, Exit
<1>7. ASSUME NEW p \in Plans, Plan(p) PROVE OneSession'
  BY <1>7 DEF Plan, evars
<1>8. ASSUME NEW k \in Key, ExecuteStep(k) PROVE OneSession'
  <2>1. held \in {"nothing", "session", "tools"}
    BY DEF AInv, EInv, ETypeOK
  <2> QED
    BY <1>8, <2>1 DEF ExecuteStep, Deciding, Begin
<1>9. ASSUME NEW k \in Key, RecordOutcome(k) PROVE OneSession'
  BY <1>9 DEF RecordOutcome, Return
<1> QED
  BY <1>1, <1>2, <1>3, <1>4, <1>5, <1>6, <1>7, <1>8, <1>9 DEF ANext, Coordinate

\* With a checkpointer no session outlives the run, however its steps, its
\* tools or its planner fail.
THEOREM SessionIsClosed == ASSUME Checkpointed PROVE ASpec => []SessionsClosed
<1>1. AInit => OneSession
  BY DEF AInit, EInit, OneSession
<1>2. AInv /\ OneSession /\ [ANext]_avars => OneSession'
  BY SessionKept
<1>3. AInv /\ OneSession => SessionsClosed
  BY DEF OneSession, SessionsClosed
<1> QED
  BY <1>1, <1>2, <1>3, AInductive, PTL DEF ASpec
===============================================================================
