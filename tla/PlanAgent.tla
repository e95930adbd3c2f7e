------------------------------- MODULE PlanAgent -----------------------------
(***************************************************************************)
(* The in-memory coordinator (Agent.run of agent/agent.py) and the one     *)
(* Executor it opens for the whole run: plan, execute the steps of the     *)
(* last revision in order, replan after a failed step, stop when every     *)
(* step is completed or the revisions are used up.                         *)
(*                                                                         *)
(* state is the local variable of run() with one addition: the step whose  *)
(* execute() is awaited has the status "running" in it, an entry that      *)
(* Agent, unlike DurableAgent, does not make.  phase is "running" from the *)
(* call of run() until it returns or raises, and the variables state and   *)
(* phase are those of PlanExecution, which this module implements.         *)
(***************************************************************************)
EXTENDS PlanExecution, StepExecutor

VARIABLE leaving  \* the result that run() returns once the Executor is closed

avars == <<state, phase, leaving, at, rounds, requests, batches, results, feedback,
           verdict, outcome, sessions, held>>

AInit == PInit /\ EInit /\ leaving = "none"

Deciding == phase = "running" /\ at = "idle" /\ leaving = "none"

Leave(result) ==
  /\ leaving' = result
  /\ UNCHANGED <<evars, state, phase>>

\* async with self._executor
Run ==
  /\ phase = "absent"
  /\ phase' = "running"
  /\ Enter
  /\ UNCHANGED <<state, leaving>>

\* The first plan, and _replan_after_failure.
Plan(p) ==
  /\ Deciding
  /\ state.plans = <<>> \/ FailedNext(state)
  /\ Revision(state) # MaxRevision
  /\ state' = WithPlan(state, p)
  /\ UNCHANGED <<evars, phase, leaving>>

PlannerRaises ==
  /\ Deciding
  /\ state.plans = <<>> \/ FailedNext(state)
  /\ Revision(state) # MaxRevision
  /\ Leave("failed")

\* Mutant of RevisionsUsedUp: one revision too many is waited for.
RevisionsUsedUpLate ==
  /\ Deciding
  /\ FailedNext(state) /\ Revision(state) > MaxRevision
  /\ Leave("blocked")

RevisionsUsedUp ==
  /\ Deciding
  /\ FailedNext(state) /\ Revision(state) = MaxRevision
  /\ Leave("blocked")

\* Mutant of ExecuteStep: a failed step does not end the loop over the steps.
ExecuteStepOn(k) ==
  /\ Deciding
  /\ k[1] = Revision(state) /\ state.execs[k] = "absent"
  /\ \E n \in DOMAIN state.plans[k[1]] :
       /\ state.plans[k[1]][n] = k[2]
       /\ \A m \in 1 .. n - 1 : state.execs[<<k[1], state.plans[k[1]][m]>>] # "absent"
  /\ Begin
  /\ state' = WithStepExecution(state, k, "running")
  /\ UNCHANGED <<phase, leaving>>

ExecuteStep(k) ==
  /\ Deciding
  /\ IsNextStep(state, k) /\ ~FailedNext(state)
  /\ Begin
  /\ state' = WithStepExecution(state, k, "running")
  /\ UNCHANGED <<phase, leaving>>

RecordOutcome(k) ==
  /\ state.execs[k] = "running"
  /\ outcome \in {"completed", "failed"}
  /\ Return
  /\ state' = WithStepExecution(state, k, outcome)
  /\ UNCHANGED <<phase, leaving>>

\* PersistenceError leaves run().
StepRaises ==
  /\ outcome = "raised"
  /\ Return
  /\ leaving' = "failed"
  /\ UNCHANGED <<state, phase>>

AllCompleted ==
  /\ Deciding
  /\ state.plans # <<>> /\ AllStepsCompleted(state)
  /\ Leave("completed")

\* The result is returned only after __aexit__, and lost when that raises.
Returned ==
  /\ phase = "running" /\ leaving # "none"
  /\ Exit
  /\ phase' \in {leaving, "failed"}
  /\ UNCHANGED <<state, leaving>>

Coordinate ==
  \/ Run \/ PlannerRaises \/ RevisionsUsedUp \/ StepRaises \/ AllCompleted \/ Returned
  \/ \E p \in Plans : Plan(p)
  \/ \E k \in Key : ExecuteStep(k) \/ RecordOutcome(k)

Execute == Work /\ UNCHANGED <<state, phase, leaving>>

ANext == Coordinate \/ Execute

ASpec == AInit /\ [][ANext]_avars

\* Models, tools, planner and sessions answer or raise; run() awaits each of
\* them and does nothing else meanwhile.
AFairSpec == ASpec /\ WF_avars(Coordinate) /\ WF_avars(Execute)

-----------------------------------------------------------------------------
ATypeOK ==
  /\ PTypeOK /\ ETypeOK
  /\ leaving \in {"none", "completed", "blocked", "failed"}

\* One step at a time: the Executor works exactly when one step is running,
\* that step is the next one of the last revision, and none runs afterwards.
SerialSteps ==
  /\ \A j, k \in WithStatus(state, "running") : j = k
  /\ at \notin {"closed", "idle"} =>
       \E k \in WithStatus(state, "running") : IsNextStep(state, k)
  /\ Deciding => WithStatus(state, "running") = {}

\* A step is recorded as completed only when a valid judgment has accepted a
\* response of this very step, and no tool batch has run since: an invalid
\* judgment, repaired or not, never counts as an acceptance, and the evidence
\* judged is all the step's evidence.
CompletionsAreJudged ==
  [][\A k \in Key :
       state'.execs[k] = "completed" /\ state.execs[k] # "completed" =>
         verdict.says = "accepted" /\ verdict.after = batches]_avars

\* What README.md:98, CONTEXT.md:12 and ADR-0020:5 say: after the acceptance one
\* more request, without tools, is made for the step's handoff.  The code makes
\* none: the accepted response is itself the handoff (HandoffRequest).
HandoffRequested ==
  [][\A k \in Key :
       state'.execs[k] = "completed" /\ state.execs[k] # "completed" =>
         verdict.on < requests]_avars

\* The coordinator keeps the promise of PlanExecution.
ImplementsPlanExecution == PSpec

\* run() returns or raises.
RunEnds == phase = "running" ~> phase \in {"completed", "blocked", "failed"}

\* What ADR-0002 says: the Executor owns its session through its async context
\* manager.  It holds with a checkpointer, where a step whose tools could not be
\* loaded is the run's last.  Without one the step only fails, the next one opens
\* another session, and the Executor forgets the first (SessionLeak).
SessionsClosed == at = "closed" => sessions = 0
=============================================================================
