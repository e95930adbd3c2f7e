-------------------------- MODULE AgentStateLemmas ---------------------------
(***************************************************************************)
(* What the operations of AgentStates return and preserve.                 *)
(***************************************************************************)
EXTENDS AgentStates, TLAPS

\* A revision is a plan, its number within the budget, its steps keys.
LEMMA RevisionIsPlan ==
  ASSUME NEW s \in AgentState, NEW r \in DOMAIN s.plans
  PROVE  /\ s.plans \in Seq(Plans)
         /\ r \in 1 .. Len(s.plans)
         /\ r \in 1 .. MaxRevision
         /\ s.plans[r] \in Plans
         /\ s.plans[r] \in Seq(StepId)
         /\ s.plans[r] # <<>>
         /\ DOMAIN s.plans[r] = 1 .. Len(s.plans[r])
         /\ \A n \in DOMAIN s.plans[r] : <<r, s.plans[r][n]>> \in Key
         /\ \A m, n \in DOMAIN s.plans[r] : s.plans[r][m] = s.plans[r][n] => m = n
<1>1. s.plans \in Seq(Plans) /\ Len(s.plans) <= MaxRevision /\ r \in 1 .. Len(s.plans)
  BY DEF AgentState, PlanHistory
<1>2. s.plans[r] \in Plans /\ r \in 1 .. MaxRevision
  BY <1>1, RevisionAssumption
<1>3. IsPlan(s.plans[r])
  BY <1>2, PlansAssumption
<1>4. s.plans[r] \in Seq(StepId) /\ DOMAIN s.plans[r] = 1 .. Len(s.plans[r])
  BY <1>3 DEF IsPlan
<1>5. \A n \in DOMAIN s.plans[r] : s.plans[r][n] \in StepId
  BY <1>4
<1> QED
  BY <1>1, <1>2, <1>3, <1>4, <1>5 DEF IsPlan, Key

\* A new plan is the last revision; the earlier ones and the executions stay.
LEMMA WithPlanAppends ==
  ASSUME NEW s \in AgentState, NEW p \in Plans, Revision(s) < MaxRevision
  PROVE  /\ WithPlan(s, p) \in AgentState
         /\ WithPlan(s, p).execs = s.execs
         /\ Revision(s) \in Nat
         /\ DOMAIN s.plans = 1 .. Revision(s)
         /\ Revision(WithPlan(s, p)) = Revision(s) + 1
         /\ DOMAIN WithPlan(s, p).plans = 1 .. Revision(s) + 1
         /\ WithPlan(s, p).plans[Revision(s) + 1] = p
         /\ \A r \in DOMAIN s.plans : WithPlan(s, p).plans[r] = s.plans[r]
<1> DEFINE t == WithPlan(s, p)
<1>1. s.plans \in Seq(Plans) /\ Len(s.plans) \in Nat /\ DOMAIN s.plans = 1 .. Len(s.plans)
  BY DEF AgentState, PlanHistory
<1>2. t.plans = Append(s.plans, p) /\ t.execs = s.execs
  BY DEF WithPlan, AgentState
<1>3. /\ t.plans \in Seq(Plans)
      /\ Len(t.plans) = Len(s.plans) + 1
      /\ t.plans[Len(s.plans) + 1] = p
      /\ \A r \in 1 .. Len(s.plans) : t.plans[r] = s.plans[r]
  BY <1>1, <1>2
<1>4. t.plans \in PlanHistory
  BY <1>1, <1>3, RevisionAssumption DEF Revision, PlanHistory
<1>5. t = [plans |-> t.plans, execs |-> t.execs] /\ s.execs \in [Key -> ExecutionStatus \union {"absent"}]
  BY DEF WithPlan, AgentState
<1>6. t \in AgentState
  BY <1>2, <1>4, <1>5 DEF AgentState
<1> QED
  BY <1>1, <1>2, <1>3, <1>6 DEF Revision

\* An execution changes the status of its own key only.
LEMMA WithStepExecutionSets ==
  ASSUME NEW s \in AgentState, NEW k \in Key, NEW status \in ExecutionStatus
  PROVE  /\ WithStepExecution(s, k, status) \in AgentState
         /\ WithStepExecution(s, k, status).plans = s.plans
         /\ WithStepExecution(s, k, status).execs[k] = status
         /\ \A j \in Key : j # k => WithStepExecution(s, k, status).execs[j] = s.execs[j]
  BY DEF WithStepExecution, AgentState

\* The next step is a step of the last revision.
LEMMA NextStepIsKey ==
  ASSUME NEW s \in AgentState, NEW k, IsNextStep(s, k)
  PROVE  /\ k \in Key
         /\ Revision(s) \in DOMAIN s.plans
         /\ \E n \in DOMAIN s.plans[Revision(s)] :
              /\ k = <<Revision(s), s.plans[Revision(s)][n]>>
              /\ \A m \in 1 .. n - 1 :
                   s.execs[<<Revision(s), s.plans[Revision(s)][m]>>] = "completed"
<1>1. s.plans \in Seq(Plans) /\ s.plans # <<>>
  BY DEF AgentState, PlanHistory, IsNextStep
<1>2. Revision(s) \in DOMAIN s.plans
  BY <1>1 DEF Revision
<1>3. PICK n \in DOMAIN s.plans[Revision(s)] :
        /\ k = <<Revision(s), s.plans[Revision(s)][n]>>
        /\ \A m \in 1 .. n - 1 :
             s.execs[<<Revision(s), s.plans[Revision(s)][m]>>] = "completed"
  BY DEF IsNextStep
<1>4. k \in Key
  BY <1>2, <1>3, RevisionIsPlan
<1> QED
  BY <1>2, <1>3, <1>4

\* There is one next step at most.
LEMMA NextStepUnique ==
  ASSUME NEW s \in AgentState, NEW j, NEW k, IsNextStep(s, j), IsNextStep(s, k)
  PROVE  j = k
<1> DEFINE steps == s.plans[Revision(s)]
<1>1. Revision(s) \in DOMAIN s.plans
  BY NextStepIsKey
<1>2. DOMAIN steps = 1 .. Len(steps) /\ Len(steps) \in Nat
  BY <1>1, RevisionIsPlan
<1>3. PICK m \in DOMAIN steps :
        /\ j = <<Revision(s), steps[m]>> /\ s.execs[j] # "completed"
        /\ \A i \in 1 .. m - 1 : s.execs[<<Revision(s), steps[i]>>] = "completed"
  BY DEF IsNextStep
<1>4. PICK n \in DOMAIN steps :
        /\ k = <<Revision(s), steps[n]>> /\ s.execs[k] # "completed"
        /\ \A i \in 1 .. n - 1 : s.execs[<<Revision(s), steps[i]>>] = "completed"
  BY DEF IsNextStep
<1>5. ~(m < n) /\ ~(n < m)
  <2>1. m < n => m \in 1 .. n - 1
    BY <1>2
  <2>2. n < m => n \in 1 .. m - 1
    BY <1>2
  <2> QED
    BY <2>1, <2>2, <1>3, <1>4
<1>6. m = n
  BY <1>2, <1>5
<1> QED
  BY <1>3, <1>4, <1>6

\* Which step is next depends on the plans and on what is completed only.
LEMMA NextStepOfDone ==
  ASSUME NEW s \in AgentState, NEW t \in AgentState, NEW k,
         t.plans = s.plans,
         WithStatus(t, "completed") = WithStatus(s, "completed")
  PROVE  IsNextStep(s, k) <=> IsNextStep(t, k)
<1>1. CASE s.plans = <<>>
  BY <1>1 DEF IsNextStep
<1>2. CASE s.plans # <<>>
  <2> DEFINE r == Revision(s)
  <2>1. r \in DOMAIN s.plans
    BY <1>2 DEF AgentState, PlanHistory, Revision
  <2>2. DOMAIN s.plans[r] = 1 .. Len(s.plans[r]) /\ Len(s.plans[r]) \in Nat
    BY <2>1, RevisionIsPlan
  <2>3. \A n \in DOMAIN s.plans[r] : <<r, s.plans[r][n]>> \in Key
    BY <2>1, RevisionIsPlan
  <2>4. \A n \in DOMAIN s.plans[r] : s.execs[<<r, s.plans[r][n]>>] = "completed"
                                       <=> t.execs[<<r, s.plans[r][n]>>] = "completed"
    BY <2>3 DEF WithStatus
  <2>5. \A n \in DOMAIN s.plans[r] : \A m \in 1 .. n - 1 : m \in DOMAIN s.plans[r]
    BY <2>2
  <2>6. Revision(t) = r
    BY DEF Revision
  <2> HIDE DEF r
  <2> QED
    BY <1>2, <2>4, <2>5, <2>6 DEF IsNextStep, r
<1> QED
  BY <1>1, <1>2

\* Further completions leave the next step the next one unless it is among them.
LEMMA NextStepOfMore ==
  ASSUME NEW s \in AgentState, NEW t \in AgentState, NEW k, IsNextStep(s, k),
         t.plans = s.plans,
         WithStatus(s, "completed") \subseteq WithStatus(t, "completed"),
         t.execs[k] # "completed"
  PROVE  IsNextStep(t, k)
<1> DEFINE r == Revision(s)
<1>1. Revision(t) = r /\ s.plans # <<>> /\ r \in DOMAIN s.plans
  BY NextStepIsKey DEF Revision, IsNextStep
<1>2. DOMAIN s.plans[r] = 1 .. Len(s.plans[r]) /\ Len(s.plans[r]) \in Nat
  BY <1>1, RevisionIsPlan
<1>3. \A n \in DOMAIN s.plans[r] : s.execs[<<r, s.plans[r][n]>>] = "completed"
                                     => t.execs[<<r, s.plans[r][n]>>] = "completed"
  BY <1>1, RevisionIsPlan DEF WithStatus
<1>4. \A n \in DOMAIN s.plans[r] : \A m \in 1 .. n - 1 : m \in DOMAIN s.plans[r]
  BY <1>2
<1> HIDE DEF r
<1> QED
  BY <1>1, <1>3, <1>4 DEF IsNextStep, r

\* The next step stays the next one until it is completed.
LEMMA NextStepStays ==
  ASSUME NEW s \in AgentState, NEW k, IsNextStep(s, k),
         NEW status \in ExecutionStatus \ {"completed"}
  PROVE  /\ WithStatus(WithStepExecution(s, k, status), "completed") = WithStatus(s, "completed")
         /\ \A j : IsNextStep(WithStepExecution(s, k, status), j) <=> IsNextStep(s, j)
<1> DEFINE t == WithStepExecution(s, k, status)
<1>1. k \in Key
  BY NextStepIsKey
<1>2. s.execs[k] # "completed"
  BY DEF IsNextStep
<1>3. /\ t \in AgentState /\ t.plans = s.plans /\ t.execs[k] = status
      /\ \A j \in Key : j # k => t.execs[j] = s.execs[j]
  BY <1>1, WithStepExecutionSets
<1> HIDE DEF t
<1>4. WithStatus(t, "completed") = WithStatus(s, "completed")
  BY <1>2, <1>3 DEF WithStatus
<1>5. \A j : IsNextStep(t, j) <=> IsNextStep(s, j)
  BY <1>3, <1>4, NextStepOfDone
<1> QED
  BY <1>4, <1>5 DEF t

\* When the next step is completed, no step it leaves unfinished was the next
\* one: the new next step is another one.
LEMMA NextStepMovesOn ==
  ASSUME NEW s \in AgentState, NEW k, IsNextStep(s, k),
         NEW j, IsNextStep(WithStepExecution(s, k, "completed"), j)
  PROVE  j # k /\ ~IsNextStep(s, j) /\ j \in Key /\ j[1] = Revision(s)
<1> DEFINE t == WithStepExecution(s, k, "completed")
<1>1. k \in Key
  BY NextStepIsKey
<1>2. t \in AgentState /\ t.plans = s.plans /\ t.execs[k] = "completed"
  BY <1>1, WithStepExecutionSets DEF ExecutionStatus
<1>3. j \in Key /\ t.execs[j] # "completed" /\ j[1] = Revision(s)
  <2> HIDE DEF t
  <2>1. IsNextStep(t, j)
    BY DEF t
  <2>2. /\ j \in Key
        /\ \E n \in DOMAIN t.plans[Revision(t)] : j = <<Revision(t), t.plans[Revision(t)][n]>>
    BY <1>2, <2>1, NextStepIsKey
  <2>3. t.execs[j] # "completed"
    BY <2>1 DEF IsNextStep
  <2>4. Revision(t) = Revision(s)
    BY <1>2 DEF Revision
  <2> QED
    BY <2>2, <2>3, <2>4
<1>4. j # k
  BY <1>2, <1>3
<1> QED
  BY <1>3, <1>4, NextStepUnique
=============================================================================
