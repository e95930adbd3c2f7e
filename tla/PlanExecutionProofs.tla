------------------------- MODULE PlanExecutionProofs -------------------------
(***************************************************************************)
(* PlanExecution carries plans out in order, for every set of plans and    *)
(* every revision budget.                                                  *)
(*                                                                         *)
(* The inductive invariant adds to the three properties the type of the    *)
(* state and that every execution belongs to a step of a plan: without it  *)
(* a new revision might find old executions under its own keys.            *)
(***************************************************************************)
EXTENDS PlanExecution, AgentStateLemmas

Planned == EveryExecutionPlanned(state)

PInv == PTypeOK /\ Planned /\ PlanOrder /\ SupersededFailed /\ OutcomeHolds

\* The state of a run that does not exist yet satisfies the invariant.
LEMMA InitHolds == PInit => PInv
<1> SUFFICES ASSUME PInit PROVE PInv
  OBVIOUS
<1>1. state.plans = <<>> /\ state.execs = [k \in Key |-> "absent"] /\ phase = "absent"
  BY DEF PInit, NewAgentState
<1>2. PTypeOK
  BY <1>1, RevisionAssumption
  DEF PInit, PTypeOK, NewAgentState, AgentState, PlanHistory, ExecutionStatus
<1>3. Planned
  BY <1>1 DEF Planned, EveryExecutionPlanned
<1>4. PlanOrder /\ SupersededFailed /\ OutcomeHolds
  BY <1>1 DEF PlanOrder, SupersededFailed, OutcomeHolds, Revision
<1> QED
  BY <1>2, <1>3, <1>4 DEF PInv

-----------------------------------------------------------------------------
\* The n-th step of a revision is the only one with its key.
LEMMA StatusChange ==
  ASSUME PTypeOK, NEW k \in Key, NEW status \in ExecutionStatus,
         state' = WithStepExecution(state, k, status)
  PROVE  /\ state' \in AgentState
         /\ state'.plans = state.plans
         /\ \A r \in DOMAIN state.plans : \A n \in DOMAIN state.plans[r] :
              StatusAt(r, n)' = IF k = <<r, state.plans[r][n]>> THEN status
                                                               ELSE StatusAt(r, n)
<1>1. state \in AgentState
  BY DEF PTypeOK
<1>2. /\ state' \in AgentState
      /\ state'.plans = state.plans
      /\ state'.execs[k] = status
      /\ \A j \in Key : j # k => state'.execs[j] = state.execs[j]
  BY <1>1, WithStepExecutionSets
<1>3. ASSUME NEW r \in DOMAIN state.plans, NEW n \in DOMAIN state.plans[r]
      PROVE  StatusAt(r, n)' = IF k = <<r, state.plans[r][n]>> THEN status
                                                              ELSE StatusAt(r, n)
  <2>1. <<r, state.plans[r][n]>> \in Key
    BY <1>1, RevisionIsPlan
  <2> QED
    BY <1>2, <2>1 DEF StatusAt
<1> QED
  BY <1>2, <1>3

\* A change of the next step's status from anything but completed keeps the
\* order of the steps.
LEMMA StepKeepsInvariant ==
  ASSUME PInv, phase = "running", phase' = phase,
         NEW k, NEW status \in ExecutionStatus,
         IsNextStep(state, k),
         state.execs[k] \in {"absent", "interrupted", "running"},
         state' = WithStepExecution(state, k, status)
  PROVE  PInv'
<1>0. PICK last : last = Revision(state)
  OBVIOUS
<1> DEFINE steps == state.plans[last]
<1>1. state \in AgentState /\ PTypeOK /\ Planned /\ PlanOrder /\ SupersededFailed
  BY DEF PInv, PTypeOK
<1>2. k \in Key /\ last \in DOMAIN state.plans
  BY <1>0, <1>1, NextStepIsKey
<1>3. PICK i \in DOMAIN steps :
        /\ k = <<last, steps[i]>>
        /\ \A m \in 1 .. i - 1 : StatusAt(last, m) = "completed"
  BY <1>0, <1>1, NextStepIsKey DEF StatusAt
<1>4. /\ state' \in AgentState
      /\ state'.plans = state.plans
      /\ \A r \in DOMAIN state.plans : \A n \in DOMAIN state.plans[r] :
           StatusAt(r, n)' = IF k = <<r, state.plans[r][n]>> THEN status
                                                            ELSE StatusAt(r, n)
  BY <1>1, <1>2, StatusChange
<1>5. \A n \in DOMAIN steps : k = <<last, steps[n]>> => n = i
  BY <1>1, <1>2, <1>3, RevisionIsPlan
<1>6. /\ \A r \in DOMAIN state.plans : \A n \in DOMAIN state.plans[r] :
           r # last => StatusAt(r, n)' = StatusAt(r, n)
      /\ \A n \in DOMAIN steps : n # i => StatusAt(last, n)' = StatusAt(last, n)
      /\ StatusAt(last, i)' = status
  BY <1>2, <1>3, <1>4, <1>5
<1>7. StatusAt(last, i) \notin {"completed"}
  BY <1>3 DEF StatusAt
<1>8. PTypeOK'
  BY <1>4 DEF PInv, PTypeOK
<1>9. Planned'
  <2> SUFFICES ASSUME NEW j \in Key, state'.execs[j] # "absent"
               PROVE  /\ j[1] \in DOMAIN state.plans
                      /\ \E n \in DOMAIN state.plans[j[1]] : state.plans[j[1]][n] = j[2]
    BY <1>4 DEF Planned, EveryExecutionPlanned
  <2>1. CASE j = k
    BY <2>1, <1>2, <1>3
  <2>2. CASE j # k
    <3>1. state'.execs[j] = state.execs[j]
      BY <1>1, <1>2, <2>2, WithStepExecutionSets
    <3> QED
      BY <3>1, <1>1 DEF Planned, EveryExecutionPlanned
  <2> QED
    BY <2>1, <2>2
<1>10. PlanOrder'
  <2> SUFFICES ASSUME NEW r \in DOMAIN state.plans, NEW n \in DOMAIN state.plans[r],
                      NEW m \in 1 .. n - 1, StatusAt(r, n)' # "absent"
               PROVE  StatusAt(r, m)' = "completed"
    BY <1>4 DEF PlanOrder
  <2>1. DOMAIN state.plans[r] = 1 .. Len(state.plans[r]) /\ Len(state.plans[r]) \in Nat
    BY <1>1, RevisionIsPlan
  <2>2. m \in DOMAIN state.plans[r] /\ m # n
    BY <2>1
  <2>3. CASE r # last
    BY <2>2, <2>3, <1>1, <1>6 DEF PlanOrder
  <2>4. CASE r = last /\ n = i
    BY <2>2, <2>4, <1>3, <1>6
  <2>5. CASE r = last /\ n # i
    <3>1. StatusAt(r, m) = "completed"
      BY <2>5, <1>1, <1>6 DEF PlanOrder
    <3> QED
      BY <3>1, <2>2, <2>5, <1>6, <1>7
  <2> QED
    BY <2>3, <2>4, <2>5
<1>11. SupersededFailed'
  <2> SUFFICES ASSUME NEW r \in 1 .. last - 1 PROVE StoppedAtFailure(r)'
    BY <1>0, <1>4 DEF SupersededFailed, Revision
  <2>1. r \in DOMAIN state.plans /\ r # last
    BY <1>0, <1>1 DEF Revision, AgentState, PlanHistory
  <2>2. StoppedAtFailure(r)
    BY <1>0, <1>1 DEF SupersededFailed
  <2> QED
    BY <2>1, <2>2, <1>4, <1>6 DEF StoppedAtFailure
<1>12. OutcomeHolds'
  BY DEF OutcomeHolds
<1> QED
  BY <1>8, <1>9, <1>10, <1>11, <1>12 DEF PInv

-----------------------------------------------------------------------------
\* A step that failed is followed by untouched ones.
LEMMA FailedIsLastTouched ==
  ASSUME PInv, FailedNext(state)
  PROVE  StoppedAtFailure(Revision(state))
<1> DEFINE last == Revision(state)
<1>1. state \in AgentState /\ PlanOrder
  BY DEF PInv, PTypeOK
<1>2. PICK k \in Key : state.execs[k] = "failed" /\ IsNextStep(state, k)
  BY DEF FailedNext, WithStatus
<1>3. last \in DOMAIN state.plans
  BY <1>1, <1>2, NextStepIsKey
<1>4. PICK n \in DOMAIN state.plans[last] : k = <<last, state.plans[last][n]>>
  BY <1>1, <1>2, NextStepIsKey
<1>5. StatusAt(last, n) = "failed"
  BY <1>2, <1>4 DEF StatusAt
<1>6. DOMAIN state.plans[last] = 1 .. Len(state.plans[last]) /\ Len(state.plans[last]) \in Nat
  BY <1>1, <1>3, RevisionIsPlan
<1>7. \A m \in DOMAIN state.plans[last] : m > n => StatusAt(last, m) = "absent"
  <2> SUFFICES ASSUME NEW m \in DOMAIN state.plans[last], m > n, StatusAt(last, m) # "absent"
               PROVE  FALSE
    OBVIOUS
  <2>1. n \in 1 .. m - 1
    BY <1>6
  <2> QED
    BY <2>1, <1>1, <1>3, <1>5 DEF PlanOrder
<1> QED
  BY <1>5, <1>7 DEF StoppedAtFailure

\* A plan is added only to an empty state or after a failed step, so the
\* revision it supersedes stopped at that failure.
LEMMA AddPlanKeepsInvariant ==
  ASSUME PInv, NEW p \in Plans, AddPlan(p)
  PROVE  PInv'
<1>0. PICK last : last = Revision(state)
  OBVIOUS
<1>1. state \in AgentState /\ Planned /\ PlanOrder /\ SupersededFailed /\ phase = "running"
  BY DEF PInv, PTypeOK, AddPlan
<1>2. /\ state' \in AgentState
      /\ state'.execs = state.execs
      /\ last \in Nat
      /\ DOMAIN state.plans = 1 .. last
      /\ Revision(state') = last + 1
      /\ DOMAIN state'.plans = 1 .. last + 1
      /\ state'.plans[last + 1] = p
      /\ \A r \in DOMAIN state.plans : state'.plans[r] = state.plans[r]
  BY <1>0, <1>1, WithPlanAppends DEF AddPlan
<1>3. \A r \in 1 .. last : \A n \in DOMAIN state.plans[r] : StatusAt(r, n)' = StatusAt(r, n)
  BY <1>2 DEF StatusAt
<1>4. \A n \in DOMAIN p : StatusAt(last + 1, n)' = "absent"
  <2> SUFFICES ASSUME NEW n \in DOMAIN p PROVE state.execs[<<last + 1, p[n]>>] = "absent"
    BY <1>2 DEF StatusAt
  <2>1. last + 1 \in DOMAIN state'.plans /\ n \in DOMAIN state'.plans[last + 1]
    BY <1>2
  <2>2. <<last + 1, p[n]>> \in Key
    BY <1>2, <2>1, RevisionIsPlan
  <2>3. <<last + 1, p[n]>>[1] \notin DOMAIN state.plans
    BY <1>2
  <2> QED
    BY <2>2, <2>3, <1>1 DEF Planned, EveryExecutionPlanned
<1>5. PTypeOK'
  BY <1>2 DEF PInv, PTypeOK, AddPlan
<1>6. Planned'
  BY <1>1, <1>2 DEF Planned, EveryExecutionPlanned
<1>7. PlanOrder'
  <2> SUFFICES ASSUME NEW r \in 1 .. last + 1, NEW n \in DOMAIN state'.plans[r],
                      NEW m \in 1 .. n - 1, StatusAt(r, n)' # "absent"
               PROVE  StatusAt(r, m)' = "completed"
    BY <1>2 DEF PlanOrder
  <2>1. r \in 1 .. last
    BY <1>2, <1>4
  <2>2. DOMAIN state.plans[r] = 1 .. Len(state.plans[r]) /\ Len(state.plans[r]) \in Nat
    BY <1>1, <1>2, <2>1, RevisionIsPlan
  <2>3. m \in DOMAIN state.plans[r] /\ n \in DOMAIN state.plans[r]
    BY <1>2, <2>1, <2>2
  <2> QED
    BY <1>1, <1>2, <1>3, <2>1, <2>3 DEF PlanOrder
<1>8. SupersededFailed'
  <2> SUFFICES ASSUME NEW r \in 1 .. last PROVE StoppedAtFailure(r)'
    BY <1>2 DEF SupersededFailed
  <2>1. ASSUME r = last PROVE StoppedAtFailure(r)
    <3>1. FailedNext(state)
      BY <1>0, <1>2, <2>1 DEF AddPlan
    <3> QED
      BY <1>0, <3>1, <2>1, FailedIsLastTouched
  <2>2. ASSUME r # last PROVE StoppedAtFailure(r)
    BY <1>0, <1>1, <1>2, <2>2 DEF SupersededFailed
  <2>3. StoppedAtFailure(r)
    BY <2>1, <2>2
  <2> QED
    BY <2>3, <1>2, <1>3 DEF StoppedAtFailure
<1>9. OutcomeHolds'
  BY <1>1 DEF OutcomeHolds, AddPlan
<1> QED
  BY <1>5, <1>6, <1>7, <1>8, <1>9 DEF PInv

-----------------------------------------------------------------------------
\* An interrupted step belongs to the last revision.
LEMMA InterruptedIsLast ==
  ASSUME PInv, NEW k \in Key, state.execs[k] = "interrupted"
  PROVE  \E n \in DOMAIN state.plans[Revision(state)] :
           StatusAt(Revision(state), n) = "interrupted"
<1>1. state \in AgentState /\ Planned /\ PlanOrder /\ SupersededFailed
  BY DEF PInv, PTypeOK
<1>2. k[1] \in DOMAIN state.plans
      /\ \E n \in DOMAIN state.plans[k[1]] : state.plans[k[1]][n] = k[2]
  BY <1>1 DEF Planned, EveryExecutionPlanned
<1>3. PICK n \in DOMAIN state.plans[k[1]] : state.plans[k[1]][n] = k[2]
  BY <1>2
<1>4. k = <<k[1], k[2]>>
  BY DEF Key
<1>5. StatusAt(k[1], n) = "interrupted"
  BY <1>3, <1>4 DEF StatusAt
<1>6. DOMAIN state.plans = 1 .. Revision(state) /\ Revision(state) \in Nat
  BY <1>1 DEF Revision, AgentState, PlanHistory
<1>7. CASE k[1] = Revision(state)
  BY <1>5, <1>7
<1>8. CASE k[1] # Revision(state)
  <2>1. k[1] \in 1 .. Revision(state) - 1
    BY <1>2, <1>6, <1>8
  <2>2. PICK i \in DOMAIN state.plans[k[1]] :
          /\ StatusAt(k[1], i) = "failed"
          /\ \A m \in DOMAIN state.plans[k[1]] : m > i => StatusAt(k[1], m) = "absent"
    BY <1>1, <2>1 DEF SupersededFailed, StoppedAtFailure
  <2>3. DOMAIN state.plans[k[1]] = 1 .. Len(state.plans[k[1]])
        /\ Len(state.plans[k[1]]) \in Nat
    BY <1>1, <1>2, RevisionIsPlan
  <2>4. n < i \/ n = i \/ n > i
    BY <2>3
  <2>5. n \in 1 .. i - 1 => StatusAt(k[1], n) = "completed"
    BY <1>1, <1>2, <2>2 DEF PlanOrder
  <2> QED
    BY <1>5, <2>2, <2>3, <2>4, <2>5
<1> QED
  BY <1>7, <1>8

\* Registering an outcome leaves the state alone and is guarded by it.
LEMMA EndKeepsInvariant ==
  ASSUME PInv, Create \/ Complete \/ Block \/ Fail
  PROVE  PInv'
<1>1. UNCHANGED state
  BY DEF Create, Complete, Block, Fail
<1>2. Planned' /\ PlanOrder' /\ SupersededFailed'
  BY <1>1 DEF PInv, Planned, PlanOrder, SupersededFailed, StoppedAtFailure, StatusAt
<1>3. PTypeOK'
  BY <1>1 DEF PInv, PTypeOK, Create, Complete, Block, Fail
<1>4. OutcomeHolds'
  <2>1. CASE Create \/ Fail
    BY <2>1 DEF OutcomeHolds, Create, Fail
  <2>2. CASE Complete
    <3>1. \A n \in DOMAIN state.plans[Revision(state)] :
            StatusAt(Revision(state), n) = "completed"
      BY <2>2 DEF Complete, AllStepsCompleted, StatusAt
    <3> QED
      BY <3>1, <2>2, <1>1 DEF OutcomeHolds, Complete, StatusAt
  <2>3. CASE Block
    <3>1. \E n \in DOMAIN state.plans[Revision(state)] :
            StatusAt(Revision(state), n) \in {"failed", "interrupted"}
      <4>1. CASE FailedNext(state)
        BY <4>1, FailedIsLastTouched DEF StoppedAtFailure
      <4>2. CASE WithStatus(state, "interrupted") # {}
        BY <4>2, InterruptedIsLast DEF WithStatus
      <4> QED
        BY <2>3, <4>1, <4>2 DEF Block
    <3> QED
      BY <3>1, <2>3, <1>1 DEF OutcomeHolds, Block, StatusAt
  <2> QED
    BY <2>1, <2>2, <2>3
<1> QED
  BY <1>2, <1>3, <1>4 DEF PInv

-----------------------------------------------------------------------------
\* Every step of the abstract run keeps the invariant.
LEMMA NextKeepsInvariant == PInv /\ [PNext]_pvars => PInv'
<1> SUFFICES ASSUME PInv, [PNext]_pvars PROVE PInv'
  OBVIOUS
<1>1. CASE Create \/ Complete \/ Block \/ Fail
  BY <1>1, EndKeepsInvariant
<1>2. ASSUME NEW p \in Plans, AddPlan(p) PROVE PInv'
  BY <1>2, AddPlanKeepsInvariant
<1>3. ASSUME NEW k \in Key, StartStep(k) PROVE PInv'
  BY <1>3, StepKeepsInvariant DEF StartStep, ExecutionStatus
<1>4. ASSUME NEW k \in Key, InterruptStep(k) PROVE PInv'
  BY <1>4, StepKeepsInvariant DEF InterruptStep, ExecutionStatus
<1>5. ASSUME NEW k \in Key, NEW outcome \in {"completed", "failed"}, EndStep(k, outcome)
      PROVE  PInv'
  BY <1>5, StepKeepsInvariant DEF EndStep, ExecutionStatus
<1>6. CASE UNCHANGED pvars
  BY <1>6 DEF pvars, PInv, PTypeOK, Planned, PlanOrder, SupersededFailed,
            StoppedAtFailure, OutcomeHolds, StatusAt
<1> QED
  BY <1>1, <1>2, <1>3, <1>4, <1>5, <1>6 DEF PNext

\* Steps are carried out in plan order, a superseded revision stopped at a
\* failed step, and the outcome says what happened.
THEOREM PlanExecutionSafe == PSpec => [](PlanOrder /\ SupersededFailed /\ OutcomeHolds)
<1>1. PInv => PlanOrder /\ SupersededFailed /\ OutcomeHolds
  BY DEF PInv
<1> QED
  BY <1>1, InitHolds, NextKeepsInvariant, PTL DEF PSpec
=============================================================================
