----------------------------- MODULE AgentStates -----------------------------
(***************************************************************************)
(* The AgentState domain value of memory/state.py and the pure functions   *)
(* the coordinators apply to it (agent/durable.py, agent/agent.py).        *)
(*                                                                         *)
(* plan_history is a sequence of plans; plan number r is revision r.  A    *)
(* plan is the sequence of its step IDs: intents and criteria are text no  *)
(* control decision reads.  step_executions is a list with at most one     *)
(* entry for each (revision, step ID), modelled as the function from that  *)
(* key to the entry's status, "absent" standing for no entry.  The code    *)
(* reads the list's order only to take the FIRST running or interrupted    *)
(* entry; entries are appended as steps start and rebuilt in the order of  *)
(* their first recovery record, which is plan order, so First below takes  *)
(* the least key in plan order.                                            *)
(***************************************************************************)
EXTENDS Integers, Sequences, FiniteSets

CONSTANTS
  StepId,        \* the step IDs a planner may choose
  Plans,         \* the plans it may answer: nonempty, no step ID twice
  MaxRevision    \* the revision budget (3 in the code)

IsPlan(p) ==
  /\ p \in Seq(StepId)
  /\ p # <<>>
  /\ \A m, n \in DOMAIN p : p[m] = p[n] => m = n

ASSUME PlansAssumption == \A p \in Plans : IsPlan(p)
ASSUME RevisionAssumption == MaxRevision \in Nat \ {0}

Key == (1 .. MaxRevision) \X StepId

\* "pending" and "skipped" are legal in the type but no code produces them.
ExecutionStatus == {"running", "interrupted", "completed", "failed"}

PlanHistory == {q \in Seq(Plans) : Len(q) <= MaxRevision}

AgentState == [plans : PlanHistory,
               execs : [Key -> ExecutionStatus \union {"absent"}]]

\* The constructor's check that every execution belongs to a plan step.
EveryExecutionPlanned(s) ==
  \A k \in Key :
    s.execs[k] # "absent" =>
      /\ k[1] \in DOMAIN s.plans
      /\ \E n \in DOMAIN s.plans[k[1]] : s.plans[k[1]][n] = k[2]

NewAgentState == [plans |-> <<>>, execs |-> [k \in Key |-> "absent"]]

WithPlan(s, p) == [s EXCEPT !.plans = Append(@, p)]

WithStepExecution(s, k, status) == [s EXCEPT !.execs[k] = status]

-----------------------------------------------------------------------------
(***************************************************************************)
(* The next step: the first step of the last plan that is not completed.   *)
(***************************************************************************)
Revision(s) == Len(s.plans)

IsNextStep(s, k) ==
  /\ s.plans # <<>>
  /\ LET steps == s.plans[Revision(s)]
     IN  \E n \in DOMAIN steps :
           /\ k = <<Revision(s), steps[n]>>
           /\ s.execs[k] # "completed"
           /\ \A m \in 1 .. n - 1 :
                s.execs[<<Revision(s), steps[m]>>] = "completed"

AllStepsCompleted(s) ==
  s.plans # <<>> =>
    LET steps == s.plans[Revision(s)]
    IN  \A n \in DOMAIN steps :
          s.execs[<<Revision(s), steps[n]>>] = "completed"

(***************************************************************************)
(* The first entry with a status, and the interruption of stale work.      *)
(***************************************************************************)
Before(s, j, k) ==
  \/ j[1] < k[1]
  \/ /\ j[1] = k[1]
     /\ j[1] \in DOMAIN s.plans
     /\ LET steps == s.plans[j[1]]
        IN  \E m, n \in DOMAIN steps : m < n /\ steps[m] = j[2] /\ steps[n] = k[2]

WithStatus(s, status) == {k \in Key : s.execs[k] = status}

\* The next step is one that failed: the revision cannot go on.
FailedNext(s) == \E k \in WithStatus(s, "failed") : IsNextStep(s, k)

IsFirst(s, status, k) ==
  /\ k \in WithStatus(s, status)
  /\ \A j \in WithStatus(s, status) \ {k} : Before(s, k, j)

\* mark_stale_execution_interrupted appends the entry it rewrites, so an entry
\* that was already interrupted comes before it in the list.
IsFirstUncertain(s, k) ==
  IF WithStatus(s, "interrupted") # {} THEN IsFirst(s, "interrupted", k)
                                       ELSE IsFirst(s, "running", k)

MarkStaleInterrupted(s) ==
  [s EXCEPT !.execs = [k \in Key |->
     IF IsFirst(s, "running", k) THEN "interrupted" ELSE s.execs[k]]]
=============================================================================
