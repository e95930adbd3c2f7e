---------------------------- MODULE PlanExecution ----------------------------
(***************************************************************************)
(* What an Agent run promises, whoever executes it and however often it is *)
(* restarted: a plan is carried out step by step in its order, an outcome  *)
(* is final, only a failed step leads to a new revision, revisions are     *)
(* bounded, and a run ends completed, blocked or failed exactly once.      *)
(* DurableRun implements it with its newest checkpoint as the state and    *)
(* the registry's status as the phase.                                     *)
(***************************************************************************)
EXTENDS AgentStates

VARIABLES state, phase

pvars == <<state, phase>>

PInit == state = NewAgentState /\ phase = "absent"

Create ==
  /\ phase = "absent"
  /\ phase' = "running"
  /\ UNCHANGED state

AddPlan(p) ==
  /\ phase = "running"
  /\ state.plans # <<>> => FailedNext(state)
  /\ Revision(state) < MaxRevision
  /\ state' = WithPlan(state, p)
  /\ UNCHANGED phase

StartStep(k) ==
  /\ phase = "running"
  /\ IsNextStep(state, k)
  /\ state.execs[k] \in {"absent", "interrupted"}
  /\ state' = WithStepExecution(state, k, "running")
  /\ UNCHANGED phase

EndStep(k, outcome) ==
  /\ phase = "running"
  /\ IsNextStep(state, k)
  /\ state.execs[k] = "running"
  /\ state' = WithStepExecution(state, k, outcome)
  /\ UNCHANGED phase

\* The work on step k is uncertain; the state may not have known it had begun.
InterruptStep(k) ==
  /\ phase = "running"
  /\ IsNextStep(state, k)
  /\ state.execs[k] \in {"absent", "running"}
  /\ state' = WithStepExecution(state, k, "interrupted")
  /\ UNCHANGED phase

Complete ==
  /\ phase = "running"
  /\ state.plans # <<>>
  /\ AllStepsCompleted(state)
  /\ phase' = "completed"
  /\ UNCHANGED state

\* The revisions are used up, or the operator gives up an interrupted step.
Block ==
  /\ phase = "running"
  /\ \/ FailedNext(state) /\ Revision(state) = MaxRevision
     \/ WithStatus(state, "interrupted") # {}
  /\ phase' = "blocked"
  /\ UNCHANGED state

Fail ==
  /\ phase = "running"
  /\ phase' = "failed"
  /\ UNCHANGED state

PNext ==
  \/ Create \/ Complete \/ Block \/ Fail
  \/ \E p \in Plans : AddPlan(p)
  \/ \E k \in Key : StartStep(k) \/ InterruptStep(k)
  \/ \E k \in Key, outcome \in {"completed", "failed"} : EndStep(k, outcome)

PSpec == PInit /\ [][PNext]_pvars

-----------------------------------------------------------------------------
PTypeOK ==
  /\ state \in AgentState
  /\ phase \in {"absent", "running", "completed", "blocked", "failed"}

\* The status of the n-th step of revision r.
StatusAt(r, n) == state.execs[<<r, state.plans[r][n]>>]

\* No step is touched before every earlier step of its revision is completed.
PlanOrder ==
  \A r \in DOMAIN state.plans : \A n \in DOMAIN state.plans[r] :
    \A m \in 1 .. n - 1 : StatusAt(r, n) # "absent" => StatusAt(r, m) = "completed"

StoppedAtFailure(r) ==
  \E n \in DOMAIN state.plans[r] :
    /\ StatusAt(r, n) = "failed"
    /\ \A m \in DOMAIN state.plans[r] : m > n => StatusAt(r, m) = "absent"

\* Every superseded revision was left because of a failed step, and that step
\* and the completed ones before it are all that was ever done in it.
SupersededFailed == \A r \in 1 .. Revision(state) - 1 : StoppedAtFailure(r)

\* A run that completed has done every step of its last revision, and a blocked
\* one has a failed or an interrupted step there.
OutcomeHolds ==
  /\ phase = "completed" => \A n \in DOMAIN state.plans[Revision(state)] :
                              StatusAt(Revision(state), n) = "completed"
  /\ phase = "blocked" => \E n \in DOMAIN state.plans[Revision(state)] :
                            StatusAt(Revision(state), n) \in {"failed", "interrupted"}
=============================================================================
