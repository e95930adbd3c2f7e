-------------------------- MODULE DurableRunProofs ---------------------------
(***************************************************************************)
(* What holds of a durable run for every set of plans, every budget and    *)
(* any number of faults, in six parts:                                     *)
(*                                                                         *)
(*   Types and control       the places of the process (TypeCorrect);      *)
(*   Justification           what the registry claims, the checkpoint and  *)
(*                           the rows show (TerminalIsJustified);          *)
(*   Restarts                what no restart takes back (HistoryKept);     *)
(*   Where the stores agree  what the versions of checkpoint and rows tell *)
(*                           a resume (StoresAgree);                       *)
(*   Refinement              a durable run is a PlanExecution              *)
(*                           (DurableImplements);                          *)
(*   Promises                what resuming and executing a step keep as    *)
(*                           long as certain faults and decisions stay out *)
(*                           (CompletedIsNotRestarted).                    *)
(*                                                                         *)
(* TerminalStatusJustified speaks of the registry and the checkpoint only. *)
(* It is made inductive by following the justification backwards: to the   *)
(* graph that Finish registers and the queue it was saved from (Control),  *)
(* and to every graph state that is in memory, queued or stored            *)
(* (Justified).                                                            *)
(***************************************************************************)
EXTENDS DurableRun, AgentStateLemmas, SequenceTheorems

NewestSaved == IF queue = <<>> THEN checkpoint ELSE queue[Len(queue)]

\* What each location of the process says of its memory.
Control ==
  /\ registry # "running" => pc = "idle"
  /\ pc \in {"idle", "interrupting"} => queue = <<>>
  /\ pc \in InGraph => graph.status \in {"resuming", "blocked"}
  /\ pc \in InGraph \ {"starting", "blocked"} => graph.status = "resuming"
  /\ pc = "blocked" => graph.status = "blocked"
  /\ pc = "complete" => AllStepsCompleted(graph.state)
  /\ pc = "replan" => FailedNext(graph.state)
  /\ pc = "finish" => graph.status \in {"completed", "blocked"} /\ graph = NewestSaved

\* A state may be blocked.
Blockable(s) ==
  \/ WithStatus(s, "interrupted") # {}
  \/ Revision(s) = MaxRevision /\ FailedNext(s)

\* A graph state's status and completions are backed by its steps and the rows.
Backed(g, st) ==
  /\ g.status = "completed" => AllStepsCompleted(g.state)
  /\ g.status = "blocked" => Blockable(g.state)
  /\ \A k \in WithStatus(g.state, "completed") : HasRow(st, k, "completed")

RowsBacked(st) ==
  \A k \in Key : st.newest[k].status = "completed" => HasRow(st, k, "completed")

Justified ==
  /\ RowsBacked(store)
  /\ Backed(graph, store)
  /\ Backed(checkpoint, store)
  /\ \A n \in DOMAIN queue : Backed(queue[n], store)
  /\ registry \in {"completed", "blocked"} => checkpoint.status = registry
  /\ registry = "failed" => routed

DInv == TypeOK /\ Control /\ Justified

-----------------------------------------------------------------------------
(***************************************************************************)
(* The operations on the rows and on restored states.                      *)
(***************************************************************************)
\* The attempt number of the next row of a step is a natural number.
LEMMA NextAttemptIsNat ==
  ASSUME NEW st \in Store, NEW k \in Key
  PROVE  NextAttempt(st, k) \in Nat
<1>1. st.rows[k] \in Seq(Row)
  BY DEF Store
<1>2. ASSUME st.rows[k] # <<>> PROVE st.rows[k][Len(st.rows[k])] \in Row
  BY <1>1, <1>2
<1> QED
  BY <1>2 DEF NextAttempt, LastInserted, Recorded, Row

\* Inserting a row keeps the rows there are, adds one of the given status, and
\* what is newest stays backed by a row.
LEMMA InsertKeeps ==
  ASSUME NEW st \in Store, NEW k \in Key, NEW status \in ExecutionStatus, NEW version \in Nat
  PROVE  /\ Insert(st, k, status, version) \in Store
         /\ HasRow(Insert(st, k, status, version), k, status)
         /\ \A s : \A j \in Key : HasRow(st, j, s) => HasRow(Insert(st, k, status, version), j, s)
         /\ RowsBacked(st) => RowsBacked(Insert(st, k, status, version))
<1> DEFINE row == [attempt |-> NextAttempt(st, k), status |-> status, version |-> version]
           new == Insert(st, k, status, version)
<1>1. row \in Row
  BY NextAttemptIsNat DEF Row
<1>2. /\ st.rows \in [Key -> Seq(Row)]
      /\ st.newest \in [Key -> Row \union {NoRow}]
      /\ st.latest \in Nat
  BY DEF Store
<1>3. /\ new.rows = [st.rows EXCEPT ![k] = Append(st.rows[k], row)]
      /\ new.newest = [st.newest EXCEPT ![k] =
                         IF version >= st.newest[k].version THEN row ELSE st.newest[k]]
      /\ new.latest = IF version > st.latest THEN version ELSE st.latest
      /\ new = [rows |-> new.rows, newest |-> new.newest, latest |-> new.latest]
  BY DEF Insert
<1>4. Append(st.rows[k], row) \in Seq(Row)
  BY <1>1, <1>2
<1>5. new.rows \in [Key -> Seq(Row)]
  BY <1>2, <1>3, <1>4
<1>6. new.newest \in [Key -> Row \union {NoRow}]
  BY <1>1, <1>2, <1>3
<1>7. new \in Store
  BY <1>2, <1>3, <1>5, <1>6 DEF Store
<1>8. /\ new.rows[k] = Append(st.rows[k], row)
      /\ \A j \in Key : j # k => new.rows[j] = st.rows[j]
  BY <1>2, <1>3
<1>9. /\ DOMAIN new.rows[k] = 1 .. Len(st.rows[k]) + 1
      /\ DOMAIN st.rows[k] = 1 .. Len(st.rows[k])
      /\ Len(st.rows[k]) \in Nat
      /\ new.rows[k][Len(st.rows[k]) + 1] = row
      /\ \A n \in DOMAIN st.rows[k] : new.rows[k][n] = st.rows[k][n]
  BY <1>1, <1>2, <1>8
<1>10. HasRow(new, k, status)
  BY <1>9 DEF HasRow
<1>11. ASSUME NEW j \in Key, NEW s, HasRow(st, j, s) PROVE HasRow(new, j, s)
  <2>1. PICK n \in DOMAIN st.rows[j] : st.rows[j][n].status = s
    BY <1>11 DEF HasRow
  <2>2. n \in DOMAIN new.rows[j] /\ new.rows[j][n] = st.rows[j][n]
    BY <1>8, <1>9
  <2> QED
    BY <2>1, <2>2 DEF HasRow
<1>12. ASSUME RowsBacked(st) PROVE RowsBacked(new)
  <2> SUFFICES ASSUME NEW j \in Key, new.newest[j].status = "completed"
               PROVE  HasRow(new, j, "completed")
    BY DEF RowsBacked
  <2>1. CASE new.newest[j] = st.newest[j]
    BY <2>1, <1>11, <1>12 DEF RowsBacked
  <2>2. CASE new.newest[j] # st.newest[j]
    <3>1. j = k /\ new.newest[j] = row
      BY <2>2, <1>2, <1>3
    <3> QED
      BY <3>1, <1>10
  <2> QED
    BY <2>1, <2>2
<1> QED
  BY <1>7, <1>10, <1>11, <1>12

\* The overlay of the newest rows is a state of the same plans, and completes
\* only what a row completed or the state had completed.
LEMMA RestoreKeeps ==
  ASSUME NEW st \in Store, NEW s \in AgentState
  PROVE  /\ RestoreExecutions(st, s) \in AgentState
         /\ \A k \in Key : RestoreExecutions(st, s).execs[k] = "completed" =>
              \/ st.newest[k].status = "completed"
              \/ s.execs[k] = "completed"
<1> DEFINE execs == [k \in Key |-> IF Recorded(st, k) THEN st.newest[k].status ELSE s.execs[k]]
<1>1. /\ s.plans \in PlanHistory
      /\ s.execs \in [Key -> ExecutionStatus \union {"absent"}]
      /\ s = [plans |-> s.plans, execs |-> s.execs]
  BY DEF AgentState
<1>2. \A k \in Key : st.newest[k].status \in ExecutionStatus \union {"absent"}
  BY DEF Store, Row, NoRow
<1>3. execs \in [Key -> ExecutionStatus \union {"absent"}]
  BY <1>1, <1>2
<1>4. RestoreExecutions(st, s) = [plans |-> s.plans, execs |-> execs]
  BY <1>1 DEF RestoreExecutions
<1> QED
  BY <1>1, <1>3, <1>4 DEF AgentState

\* Marking stale work interrupts it and completes nothing.
LEMMA MarkStaleKeeps ==
  ASSUME NEW s \in AgentState
  PROVE  /\ MarkStaleInterrupted(s) \in AgentState
         /\ WithStatus(MarkStaleInterrupted(s), "completed") \subseteq WithStatus(s, "completed")
         /\ \A k : IsFirstUncertain(s, k) =>
              k \in Key /\ WithStatus(MarkStaleInterrupted(s), "interrupted") # {}
<1> DEFINE execs == [k \in Key |-> IF IsFirst(s, "running", k) THEN "interrupted" ELSE s.execs[k]]
<1>1. /\ s.plans \in PlanHistory
      /\ s.execs \in [Key -> ExecutionStatus \union {"absent"}]
      /\ s = [plans |-> s.plans, execs |-> s.execs]
  BY DEF AgentState
<1>2. execs \in [Key -> ExecutionStatus \union {"absent"}]
  BY <1>1 DEF ExecutionStatus
<1>3. MarkStaleInterrupted(s) = [plans |-> s.plans, execs |-> execs]
  BY <1>1 DEF MarkStaleInterrupted
<1>4. WithStatus(MarkStaleInterrupted(s), "completed") \subseteq WithStatus(s, "completed")
  BY <1>3 DEF WithStatus
<1>5. ASSUME NEW k, IsFirstUncertain(s, k)
      PROVE  k \in Key /\ WithStatus(MarkStaleInterrupted(s), "interrupted") # {}
  <2>1. CASE WithStatus(s, "interrupted") # {}
    <3>1. PICK j \in Key : s.execs[j] = "interrupted"
      BY <2>1 DEF WithStatus
    <3>2. execs[j] = "interrupted"
      BY <3>1
    <3> QED
      BY <3>2, <1>3, <1>5, <2>1 DEF WithStatus, IsFirstUncertain, IsFirst
  <2>2. CASE WithStatus(s, "interrupted") = {}
    <3>1. k \in Key /\ IsFirst(s, "running", k)
      BY <2>2, <1>5 DEF IsFirstUncertain, IsFirst, WithStatus
    <3>2. execs[k] = "interrupted"
      BY <3>1
    <3> QED
      BY <3>1, <3>2, <1>3 DEF WithStatus
  <2> QED
    BY <2>1, <2>2
<1> QED
  BY <1>2, <1>3, <1>1, <1>4, <1>5 DEF AgentState

-----------------------------------------------------------------------------
(***************************************************************************)
(* Types.                                                                  *)
(***************************************************************************)
\* The states a run starts from are of their types.
LEMMA NewStateTypes ==
  /\ NewAgentState \in AgentState
  /\ NoGraph \in GraphState
  /\ EmptyStore \in Store
<1>1. NewAgentState \in AgentState
  BY RevisionAssumption DEF NewAgentState, AgentState, PlanHistory, ExecutionStatus
<1>2. NoGraph \in GraphState
  BY <1>1 DEF NoGraph, GraphState, RunStatus
<1>3. EmptyStore \in Store
  BY DEF EmptyStore, Store, NoRow
<1> QED
  BY <1>1, <1>2, <1>3

\* Before the run exists every variable has its type.
LEMMA InitTypeOK == Init => TypeOK
<1> SUFFICES ASSUME Init PROVE TypeOK
  OBVIOUS
<1>1. graph \in GraphState /\ checkpoint \in GraphState /\ store \in Store
  BY NewStateTypes DEF Init
<1>2. queue \in Seq(GraphState) /\ threads \subseteq Key \X Nat /\ faults \in 0 .. MaxFaults
  BY MaxFaultsAssumption DEF Init
<1> QED
  BY <1>1, <1>2 DEF Init, TypeOK, Location, InGraph

\* A node that returns a well-typed graph state leaves queue and graph
\* well-typed.
LEMMA ReturnTypes ==
  ASSUME TypeOK, NEW g \in GraphState, NEW next \in Location, Return(g, next)
  PROVE  /\ pc' \in Location
         /\ graph' \in GraphState
         /\ queue' \in Seq(GraphState)
  BY DEF TypeOK, Return

\* A state, a status or a version replaced in a graph state.
LEMMA GraphUpdates ==
  ASSUME NEW g \in GraphState
  PROVE  /\ \A s \in AgentState : [g EXCEPT !.state = s] \in GraphState
         /\ \A st \in RunStatus : [g EXCEPT !.status = st] \in GraphState
         /\ g.state \in AgentState /\ g.version \in Nat /\ g.attempt \in Nat
         /\ g.context \in SUBSET Key /\ g.status \in RunStatus
  BY DEF GraphState

\* A step's new state, its version and what else the nodes change.
LEMMA StepUpdates ==
  ASSUME NEW g \in GraphState, NEW s \in AgentState
  PROVE  /\ [g EXCEPT !.state = s, !.version = g.version + 1] \in GraphState
         /\ \A context \in SUBSET Key :
              [g EXCEPT !.state = s, !.version = g.version + 1, !.active = FALSE,
                        !.context = context] \in GraphState
         /\ \A status \in RunStatus :
              [g EXCEPT !.state = s, !.status = status, !.version = g.version + 1]
                \in GraphState
<1>1. g.version + 1 \in Nat
  BY GraphUpdates
<1>2. \A v \in Nat : [g EXCEPT !.state = s, !.version = v] \in GraphState
  BY DEF GraphState
<1>3. \A v \in Nat, context \in SUBSET Key :
        [g EXCEPT !.state = s, !.version = v, !.active = FALSE,
                  !.context = context] \in GraphState
  BY DEF GraphState
<1>4. \A v \in Nat, status \in RunStatus :
        [g EXCEPT !.state = s, !.status = status, !.version = v] \in GraphState
  BY DEF GraphState
<1> QED
  BY <1>1, <1>2, <1>3, <1>4

\* The graph state a plan or replan node returns is well-typed while the
\* budget lasts.
LEMMA PlannedGraph ==
  ASSUME NEW g \in GraphState, NEW p \in Plans, Revision(g.state) < MaxRevision
  PROVE  [g EXCEPT !.state = WithPlan(@, p)] \in GraphState
  BY GraphUpdates, WithPlanAppends

\* replan compares with the budget for equality, which is as good as being below
\* it: no state has more plans.
LEMMA BelowBudget ==
  ASSUME TypeOK, Revision(graph.state) # MaxRevision
  PROVE  Revision(graph.state) < MaxRevision
<1>1. graph.state.plans \in Seq(Plans) /\ Len(graph.state.plans) <= MaxRevision
  BY GraphUpdates DEF TypeOK, AgentState, PlanHistory
<1> QED
  BY <1>1, RevisionAssumption DEF Revision

\* The nodes that only plan or route.
LEMMA PlanNodesType ==
  ASSUME TypeOK, Begin \/ PlanNew \/ PlanKept \/ MarkReturn \/ MarkFailedStep
                  \/ ExecuteReturn \/ Replan \/ ReplanExhausted
                  \/ Terminal("complete", "completed") \/ Terminal("blocked", "blocked")
  PROVE  TypeOK'
<1>1. graph \in GraphState
  BY DEF TypeOK
<1>2. CASE Begin
  BY <1>1, <1>2, ReturnTypes DEF Begin, StartNode, TypeOK, Location, InGraph, Outer
<1>3. CASE PlanNew
  <2>1. PICK p \in Plans : Return([graph EXCEPT !.state = WithPlan(@, p)], "mark_running")
    BY <1>3 DEF PlanNew
  <2>2. Revision(graph.state) < MaxRevision
    BY <1>3, RevisionAssumption DEF PlanNew, Revision
  <2> QED
    BY <1>1, <1>3, <2>1, <2>2, PlannedGraph, ReturnTypes
    DEF PlanNew, TypeOK, Location, InGraph, Outer
<1>4. CASE PlanKept
  BY <1>1, <1>4, ReturnTypes DEF PlanKept, AfterPlan, TypeOK, Location, InGraph, Outer
<1>5. CASE MarkReturn
  BY <1>1, <1>5, ReturnTypes DEF MarkReturn, TypeOK, Location, InGraph, Outer
<1>6. CASE MarkFailedStep
  BY <1>1, <1>6, ReturnTypes DEF MarkFailedStep, TypeOK, Location, InGraph, Outer
<1>7. CASE ExecuteReturn
  BY <1>1, <1>7, ReturnTypes DEF ExecuteReturn, AfterExecute, TypeOK, Location, InGraph, Outer
<1>8. CASE Replan
  <2>1. PICK p \in Plans : Return([graph EXCEPT !.state = WithPlan(@, p)], "mark_running")
    BY <1>8 DEF Replan
  <2>2. Revision(graph.state) < MaxRevision
    BY <1>8, BelowBudget DEF Replan
  <2> QED
    BY <1>1, <1>8, <2>1, <2>2, PlannedGraph, ReturnTypes DEF Replan, TypeOK, Location, InGraph, Outer
<1>9. CASE ReplanExhausted
  <2>1. [graph EXCEPT !.status = "blocked"] \in GraphState
    BY <1>1, GraphUpdates DEF RunStatus
  <2> QED
    BY <1>9, <2>1, ReturnTypes DEF ReplanExhausted, TypeOK, Location, InGraph, Outer
<1>10. CASE Terminal("complete", "completed") \/ Terminal("blocked", "blocked")
  <2>1. /\ [graph EXCEPT !.status = "completed"] \in GraphState
        /\ [graph EXCEPT !.status = "blocked"] \in GraphState
    BY <1>1, GraphUpdates DEF RunStatus
  <2> QED
    BY <1>10, <2>1, ReturnTypes DEF Terminal, TypeOK, Location, InGraph, Outer
<1> QED
  BY <1>2, <1>3, <1>4, <1>5, <1>6, <1>7, <1>8, <1>9, <1>10

\* The nodes that work on the next step.
LEMMA StepNodesType ==
  ASSUME TypeOK, MarkRunning \/ MarkCollides \/ ExecuteBegin \/ ExecuteEnd
  PROVE  TypeOK'
<1>1. graph \in GraphState /\ graph.state \in AgentState /\ graph.version \in Nat /\ store \in Store
  BY GraphUpdates DEF TypeOK
<1>2. CASE MarkRunning
  <2>1. PICK k : /\ k \in Key
                 /\ store' = Insert(store, k, "running", graph.version + 1)
                 /\ graph' = [graph EXCEPT !.state = WithStepExecution(@, k, "running"),
                                           !.version = @ + 1]
    BY <1>2 DEF MarkRunning
  <2>2. store' \in Store
    BY <1>1, <2>1, InsertKeeps DEF ExecutionStatus
  <2>3. WithStepExecution(graph.state, k, "running") \in AgentState
    BY <1>1, <2>1, WithStepExecutionSets DEF ExecutionStatus
  <2>4. graph' \in GraphState
    BY <1>1, <2>1, <2>3, StepUpdates
  <2> QED
    BY <1>2, <2>2, <2>4 DEF MarkRunning, TypeOK, Location, InGraph, Outer
<1>3. CASE MarkCollides
  BY <1>3 DEF MarkCollides, TypeOK, Location, InGraph, Outer
<1>4. CASE ExecuteBegin
  BY <1>1, <1>4, GraphUpdates DEF ExecuteBegin, TypeOK, Location, InGraph, Outer
<1>5. CASE ExecuteEnd
  <2>1. PICK k \in Key, outcome \in {"completed", "failed"} :
          /\ store' = Insert(store, k, outcome, graph.version + 1)
          /\ graph' = [graph EXCEPT
               !.state   = WithStepExecution(@, k, outcome),
               !.version = @ + 1,
               !.active  = FALSE,
               !.context = IF outcome = "completed" THEN @ \union {k} ELSE @]
    BY <1>5 DEF ExecuteEnd
  <2>2. store' \in Store
    BY <1>1, <2>1, InsertKeeps DEF ExecutionStatus
  <2>3. WithStepExecution(graph.state, k, outcome) \in AgentState
    BY <1>1, <2>1, WithStepExecutionSets DEF ExecutionStatus
  <2>4. graph' \in GraphState
    <3> DEFINE context == IF outcome = "completed" THEN graph.context \union {k}
                                                   ELSE graph.context
    <3>1. context \in SUBSET Key
      BY <1>1, GraphUpdates
    <3>2. graph' = [graph EXCEPT !.state = WithStepExecution(graph.state, k, outcome),
                                 !.version = graph.version + 1,
                                 !.active = FALSE,
                                 !.context = context]
      BY <1>1, <2>1 DEF GraphState
    <3> HIDE DEF context
    <3> QED
      BY <1>1, <2>3, <3>1, <3>2, StepUpdates
  <2> QED
    BY <1>5, <2>2, <2>4 DEF ExecuteEnd, TypeOK, Location, InGraph, Outer
<1> QED
  BY <1>2, <1>3, <1>4, <1>5

\* The saver, the end of the process and its start.
LEMMA ProcessType ==
  ASSUME TypeOK, Control,
         Save \/ Finish \/ RaiseOut \/ (\E viaRouter \in BOOLEAN : Start(viaRouter))
  PROVE  TypeOK'
<1>1. CASE Save
  BY <1>1 DEF Save, TypeOK, Outer
<1>2. CASE Finish
  BY <1>2, NewStateTypes DEF Finish, Leave, Control, TypeOK, Location, InGraph
<1>3. CASE RaiseOut
  BY <1>3, NewStateTypes DEF RaiseOut, Leave, TypeOK, Location, InGraph
<1>4. CASE \E viaRouter \in BOOLEAN : Start(viaRouter)
  <2>1. [NoGraph EXCEPT !.saved = TRUE, !.status = "resuming"] \in GraphState
    BY NewStateTypes DEF GraphState, RunStatus
  <2> QED
    BY <1>4, <2>1 DEF Start, TypeOK, Location, InGraph
<1> QED
  BY <1>1, <1>2, <1>3, <1>4

\* The overlay of the rows and its interruption of stale work are agent
\* states.
LEMMA StaleType ==
  ASSUME TypeOK
  PROVE  Restored \in AgentState /\ Stale \in AgentState
  BY GraphUpdates, RestoreKeeps, MarkStaleKeeps DEF TypeOK, Restored, Stale

\* What RecordInterrupted and a resume's input are.
LEMMA RecordInterruptedType ==
  ASSUME TypeOK, NEW k \in Key
  PROVE  RecordInterrupted(k) \in Store
<1>1. store \in Store /\ store.latest + 1 \in Nat /\ "interrupted" \in ExecutionStatus
  BY DEF TypeOK, Store, ExecutionStatus
<1>2. Insert(store, k, "interrupted", store.latest + 1) \in Store
  BY <1>1, InsertKeeps
<1> QED
  BY <1>1, <1>2 DEF RecordInterrupted

\* The input of a resume is a graph state.
LEMMA ResumeInputType ==
  ASSUME TypeOK, NEW s \in AgentState, NEW active \in BOOLEAN, NEW attempt \in Nat
  PROVE  ResumeInput(s, active, attempt) \in GraphState
<1>1. RestoreContext(store, checkpoint.context) \in SUBSET Key
  BY GraphUpdates DEF TypeOK, RestoreContext, EverCompleted
<1> QED
  BY <1>1 DEF TypeOK, ResumeInput, GraphState, RunStatus

\* Resuming, with whatever decision, keeps the types.
LEMMA ResumeType ==
  ASSUME TypeOK, Resume
  PROVE  TypeOK'
<1>1. checkpoint \in GraphState /\ Stale \in AgentState /\ store \in Store
  BY StaleType DEF TypeOK
<1>2. CASE ResumeUnsaved \/ ResumeRefused \/ ResumeInvalid
  BY <1>2, NewStateTypes
  DEF ResumeUnsaved, ResumeRefused, ResumeInvalid, Resuming, Leave, TypeOK, Location, InGraph
<1>3. CASE ResumeTerminal
  BY <1>3 DEF ResumeTerminal, Resuming, TypeOK, Location, InGraph
<1>4. ASSUME Reopening, graph' \in GraphState, store' \in Store PROVE TypeOK'
  BY <1>4 DEF Reopening, Resuming, TypeOK, Location, InGraph
<1>5. CASE ResumeContinue
  <2>1. graph' \in GraphState
    BY <1>1, <1>5, ResumeInputType, GraphUpdates DEF ResumeContinue
  <2> QED
    BY <1>1, <1>4, <1>5, <2>1 DEF ResumeContinue
<1>6. ASSUME NEW k \in Key, store' = RecordInterrupted(k)
      PROVE  store' \in Store /\ store'.newest[k].attempt + 1 \in Nat
  <2>1. store' \in Store
    BY <1>6, RecordInterruptedType
  <2>2. store'.newest[k] \in Row \union {NoRow}
    BY <2>1 DEF Store
  <2>3. store'.newest[k].attempt \in Nat
    BY <2>2 DEF Row, NoRow
  <2> QED
    BY <2>1, <2>3
<1>7. CASE ResumeRecover
  <2>1. PICK k : /\ k \in Key
                 /\ store' = RecordInterrupted(k)
                 /\ graph' = ResumeInput(Stale, TRUE, store'.newest[k].attempt + 1)
    BY <1>7 DEF ResumeRecover
  <2> QED
    BY <1>1, <1>4, <1>6, <1>7, <2>1, ResumeInputType DEF ResumeRecover
<1>8. CASE ResumeFail
  <2>1. PICK k : /\ k \in Key
                 /\ store' = RecordInterrupted(k)
                 /\ graph' = ResumeInput(WithStepExecution(Stale, k, "failed"),
                                         WithStatus(Restored, "running") = {},
                                         store'.newest[k].attempt + 1)
    BY <1>8 DEF ResumeFail
  <2>2. WithStepExecution(Stale, k, "failed") \in AgentState
    BY <1>1, <2>1, WithStepExecutionSets DEF ExecutionStatus
  <2>3. (WithStatus(Restored, "running") = {}) \in BOOLEAN
    OBVIOUS
  <2>4. graph' \in GraphState
    BY <1>6, <2>1, <2>2, <2>3, ResumeInputType
  <2> QED
    BY <1>4, <1>6, <1>8, <2>1, <2>4 DEF ResumeFail
<1>9. CASE ResumeAbort
  <2>1. PICK k : /\ k \in Key
                 /\ store' = RecordInterrupted(k)
                 /\ graph' = [checkpoint EXCEPT !.state = Stale, !.status = "blocked"]
    BY <1>9 DEF ResumeAbort
  <2>2. graph' \in GraphState
    BY <1>1, <2>1 DEF GraphState, RunStatus
  <2> QED
    BY <1>4, <1>6, <1>9, <2>1, <2>2 DEF ResumeAbort
<1> QED
  BY <1>2, <1>3, <1>5, <1>7, <1>8, <1>9 DEF Resume

\* Faults keep the types.
LEMMA FaultType ==
  ASSUME TypeOK, Crash \/ Raise \/ Cancel \/ CancelReading \/ Interrupt
  PROVE  TypeOK'
<1>1. ASSUME NEW kind, Fault(kind) PROVE faults' \in 0 .. MaxFaults
  BY <1>1, MaxFaultsAssumption DEF Fault, TypeOK
<1>2. CASE Crash
  BY <1>1, <1>2, NewStateTypes DEF Crash, Leave, TypeOK, Location, InGraph
<1>3. CASE Raise
  BY <1>1, <1>3 DEF Raise, TypeOK, Location, InGraph
<1>4. CASE Cancel
  BY <1>1, <1>4, NewStateTypes DEF Cancel, TypeOK, Location, InGraph
<1>5. CASE CancelReading
  BY <1>1, <1>5 DEF CancelReading, TypeOK, Location, InGraph
<1>6. InterruptedInput \in GraphState
  <2>1. checkpoint \in GraphState /\ MarkStaleInterrupted(checkpoint.state) \in AgentState
    BY GraphUpdates, MarkStaleKeeps DEF TypeOK
  <2> QED
    BY <2>1, StepUpdates DEF InterruptedInput, RunStatus
<1>7. CASE InterruptRunning
  <2>1. store' \in Store
    <3>1. PICK k \in Key : store' = Insert(store, k, "interrupted", checkpoint.version + 1)
      BY <1>7 DEF InterruptRunning
    <3>2. checkpoint.version + 1 \in Nat
      BY GraphUpdates DEF TypeOK
    <3> QED
      BY <3>1, <3>2, InsertKeeps DEF TypeOK, ExecutionStatus
  <2> QED
    BY <1>6, <1>7, <2>1 DEF InterruptRunning, TypeOK, Location, InGraph, Outer
<1>8. CASE InterruptIdleStep
  BY <1>6, <1>8 DEF InterruptIdleStep, TypeOK, Location, InGraph, Outer
<1>9. CASE InterruptUnsaved \/ InterruptSave
  BY <1>9, NewStateTypes DEF InterruptUnsaved, InterruptSave, Leave, TypeOK, Location, InGraph
<1> QED
  BY <1>2, <1>3, <1>4, <1>5, <1>7, <1>8, <1>9 DEF Interrupt

\* Every step keeps the types.
LEMMA NextTypeOK == TypeOK /\ Control /\ [Next]_vars => TypeOK'
<1> SUFFICES ASSUME TypeOK, Control, [Next]_vars PROVE TypeOK'
  OBVIOUS
<1>1. CASE UNCHANGED vars
  BY <1>1 DEF vars, TypeOK
<1> QED
  BY <1>1, PlanNodesType, StepNodesType, ProcessType, ResumeType, FaultType DEF Next, Node

-----------------------------------------------------------------------------
(***************************************************************************)
(* Control.                                                                *)
(***************************************************************************)
\* Before the run exists no node is active and nothing is saved.
LEMMA InitControl == Init => Control
  BY DEF Init, Control, InGraph

\* What a node returned is the newest of the checkpoints to be.
LEMMA ReturnNewest ==
  ASSUME TypeOK, NEW g \in GraphState, NEW next, Return(g, next)
  PROVE  /\ pc' = next
         /\ graph' = g
         /\ g = NewestSaved'
<1>1. queue \in Seq(GraphState)
  BY DEF TypeOK
<1>2. queue' = Append(queue, g)
  BY DEF Return
<1>3. queue' # <<>> /\ queue'[Len(queue')] = g
  BY <1>1, <1>2
<1> QED
  BY <1>3 DEF Return, NewestSaved

\* When the saver writes the oldest pending checkpoint, the newest known
\* one stays the same.
LEMMA SaveNewest ==
  ASSUME TypeOK, Save
  PROVE  NewestSaved' = NewestSaved
<1>1. queue \in Seq(GraphState) /\ queue # <<>> /\ checkpoint' = Head(queue) /\ queue' = Tail(queue)
  BY DEF TypeOK, Save
<1>2. CASE Len(queue) = 1
  <2>1. Tail(queue) = <<>> /\ Head(queue) = queue[1]
    BY <1>1, <1>2
  <2> QED
    BY <1>1, <1>2, <2>1 DEF NewestSaved
<1>3. CASE Len(queue) # 1
  <2>1. Len(queue) \in Nat /\ Len(queue) > 1
    <3>1. \A q \in Seq(GraphState) : q # <<>> => Len(q) \in Nat \ {0}
      BY EmptySeq
    <3>2. Len(queue) \in Nat \ {0}
      BY <1>1, <3>1
    <3>3. \A n \in Nat \ {0} : n # 1 => n \in Nat /\ n > 1
      OBVIOUS
    <3> QED
      BY <1>3, <3>2, <3>3, Zenon
  <2>2. /\ Tail(queue) \in Seq(GraphState)
        /\ Len(Tail(queue)) = Len(queue) - 1
        /\ Tail(queue)[Len(queue) - 1] = queue[Len(queue)]
    BY <1>1, <2>1, HeadTailProperties
  <2>3. Tail(queue) # <<>>
    <3>1. Len(<<>>) = 0
      OBVIOUS
    <3>2. Len(Tail(queue)) # 0
      BY <1>1, <2>1, <2>2
    <3> QED
      BY <3>1, <3>2
  <2> QED
    BY <1>1, <2>2, <2>3 DEF NewestSaved
<1> QED
  BY <1>2, <1>3

\* A node that returns into the graph or ends it keeps Control, when what it
\* returns fits the next location.
LEMMA ReturnControl ==
  ASSUME TypeOK, Control, NEW g \in GraphState, NEW next,
         Return(g, next), UNCHANGED registry, pc # "idle",
         next \in {"plan", "mark_running", "execute", "replan", "complete"}
           => g.status = "resuming",
         next = "complete" => AllStepsCompleted(g.state),
         next = "replan" => FailedNext(g.state),
         next = "blocked" => g.status = "blocked",
         next = "finish" => g.status \in {"completed", "blocked"},
         next \in {"plan", "mark_running", "execute", "replan", "complete", "blocked", "finish"}
  PROVE  Control'
  BY ReturnNewest DEF Control, InGraph

\* The nodes that plan and mark keep the control invariant.
LEMMA PlanNodesControl ==
  ASSUME TypeOK, Control,
         Begin \/ PlanNew \/ PlanKept \/ MarkReturn \/ MarkFailedStep
           \/ ExecuteReturn \/ Replan \/ ReplanExhausted
           \/ Terminal("complete", "completed") \/ Terminal("blocked", "blocked")
  PROVE  Control'
<1>1. graph \in GraphState
  BY DEF TypeOK
<1>2. CASE Begin
  BY <1>1, <1>2, ReturnControl DEF Begin, StartNode, Control, InGraph, Outer
<1>3. CASE PlanNew
  <2>1. PICK p \in Plans : Return([graph EXCEPT !.state = WithPlan(@, p)], "mark_running")
    BY <1>3 DEF PlanNew
  <2>2. [graph EXCEPT !.state = WithPlan(@, p)] \in GraphState
    BY <1>1, <1>3, PlannedGraph, RevisionAssumption DEF PlanNew, Revision
  <2>3. [graph EXCEPT !.state = WithPlan(@, p)].status = "resuming"
    BY <1>1, <1>3 DEF PlanNew, Control, InGraph, GraphState
  <2> QED
    BY <1>3, <2>1, <2>2, <2>3, ReturnControl DEF PlanNew, Outer
<1>4. CASE PlanKept
  BY <1>1, <1>4, ReturnControl DEF PlanKept, AfterPlan, Control, InGraph, Outer
<1>5. CASE MarkReturn
  BY <1>1, <1>5, ReturnControl DEF MarkReturn, Control, InGraph, Outer
<1>6. CASE MarkFailedStep
  BY <1>1, <1>6, ReturnControl DEF MarkFailedStep, Control, InGraph, Outer
<1>7. CASE ExecuteReturn
  BY <1>1, <1>7, ReturnControl DEF ExecuteReturn, AfterExecute, Control, InGraph, Outer
<1>8. CASE Replan
  <2>1. PICK p \in Plans : Return([graph EXCEPT !.state = WithPlan(@, p)], "mark_running")
    BY <1>8 DEF Replan
  <2>2. [graph EXCEPT !.state = WithPlan(@, p)] \in GraphState
    BY <1>1, <1>8, BelowBudget, PlannedGraph DEF Replan
  <2>3. [graph EXCEPT !.state = WithPlan(@, p)].status = "resuming"
    BY <1>1, <1>8 DEF Replan, Control, InGraph, GraphState
  <2> QED
    BY <1>8, <2>1, <2>2, <2>3, ReturnControl DEF Replan, Outer
<1>9. \A status \in {"completed", "blocked"} :
        /\ [graph EXCEPT !.status = status] \in GraphState
        /\ [graph EXCEPT !.status = status].status = status
  BY <1>1 DEF GraphState, RunStatus
<1>10. CASE ReplanExhausted
  BY <1>9, <1>10, ReturnControl DEF ReplanExhausted, Outer
<1>11. CASE Terminal("complete", "completed") \/ Terminal("blocked", "blocked")
  BY <1>9, <1>11, ReturnControl DEF Terminal, Outer
<1> QED
  BY <1>2, <1>3, <1>4, <1>5, <1>6, <1>7, <1>8, <1>10, <1>11

\* The nodes that execute, replan and end keep the control invariant.
LEMMA StepNodesControl ==
  ASSUME TypeOK, Control, MarkRunning \/ MarkCollides \/ ExecuteBegin \/ ExecuteEnd
  PROVE  Control'
<1>1. graph \in GraphState
  BY DEF TypeOK
<1>2. CASE MarkRunning
  <2>1. graph'.status = graph.status
    BY <1>1, <1>2 DEF MarkRunning, GraphState
  <2> QED
    BY <1>2, <2>1 DEF MarkRunning, Control, InGraph, Outer
<1>3. CASE MarkCollides
  BY <1>3 DEF MarkCollides, Control, InGraph, Outer
<1>4. CASE ExecuteBegin
  BY <1>4 DEF ExecuteBegin, Control, InGraph, Outer
<1>5. CASE ExecuteEnd
  <2>1. graph'.status = graph.status
    BY <1>1, <1>5 DEF ExecuteEnd, GraphState
  <2> QED
    BY <1>5, <2>1 DEF ExecuteEnd, Control, InGraph, Outer
<1> QED
  BY <1>2, <1>3, <1>4, <1>5

\* Starting, finishing and leaving with an error keep the control
\* invariant.
LEMMA ProcessControl ==
  ASSUME TypeOK, Control,
         Save \/ Finish \/ RaiseOut \/ (\E viaRouter \in BOOLEAN : Start(viaRouter))
  PROVE  Control'
<1>1. CASE Save
  BY <1>1, SaveNewest DEF Save, Control, Outer
<1>2. CASE Finish
  BY <1>2 DEF Finish, Leave, Control, InGraph
<1>3. CASE RaiseOut
  BY <1>3 DEF RaiseOut, Leave, Control, InGraph
<1>4. CASE \E viaRouter \in BOOLEAN : Start(viaRouter)
  <2>1. graph'.status = "resuming"
    BY <1>4 DEF Start, NoGraph
  <2> QED
    BY <1>4, <2>1 DEF Start, Control, InGraph
<1> QED
  BY <1>1, <1>2, <1>3, <1>4

\* Resuming enters the graph only with a saved state.
LEMMA ResumeControl ==
  ASSUME TypeOK, Control, Resume
  PROVE  Control'
<1>1. checkpoint \in GraphState
  BY DEF TypeOK
<1>2. CASE ResumeUnsaved \/ ResumeRefused \/ ResumeInvalid
  BY <1>2 DEF ResumeUnsaved, ResumeRefused, ResumeInvalid, Resuming, Leave, Control, InGraph
<1>3. CASE ResumeTerminal
  BY <1>3 DEF ResumeTerminal, Resuming, Control, InGraph, NewestSaved
<1>4. ASSUME Reopening, graph'.status \in {"resuming", "blocked"} PROVE Control'
  BY <1>4 DEF Reopening, Resuming, Control, InGraph
<1>5. \A s, active, attempt : ResumeInput(s, active, attempt).status = "resuming"
  BY <1>1 DEF ResumeInput, GraphState
<1>6. CASE ResumeContinue \/ ResumeRecover \/ ResumeFail
  <2>1. graph'.status = "resuming"
    <3>1. CASE ResumeContinue
      BY <3>1, <1>5 DEF ResumeContinue
    <3>2. CASE ResumeRecover
      BY <3>2, <1>5 DEF ResumeRecover
    <3>3. CASE ResumeFail
      BY <3>3, <1>5 DEF ResumeFail
    <3> QED
      BY <1>6, <3>1, <3>2, <3>3
  <2>2. Reopening
    BY <1>6 DEF ResumeContinue, ResumeRecover, ResumeFail
  <2> QED
    BY <1>4, <2>1, <2>2
<1>7. CASE ResumeAbort
  <2>1. graph'.status = "blocked"
    BY <1>1, <1>7 DEF ResumeAbort, GraphState
  <2> QED
    BY <1>4, <1>7, <2>1 DEF ResumeAbort
<1> QED
  BY <1>2, <1>3, <1>6, <1>7 DEF Resume

\* Faults keep the control invariant.
LEMMA FaultControl ==
  ASSUME TypeOK, Control, Crash \/ Raise \/ Cancel \/ CancelReading \/ Interrupt
  PROVE  Control'
<1>1. CASE Crash
  BY <1>1 DEF Crash, Leave, Control, InGraph
<1>2. CASE Raise
  BY <1>2 DEF Raise, Control, InGraph
<1>3. CASE Cancel
  BY <1>3 DEF Cancel, Control, InGraph
<1>4. CASE CancelReading
  BY <1>4 DEF CancelReading, Control, InGraph
<1>5. CASE InterruptRunning \/ InterruptIdleStep
  BY <1>5 DEF InterruptRunning, InterruptIdleStep, Control, InGraph, Outer
<1>6. CASE InterruptUnsaved \/ InterruptSave
  BY <1>6 DEF InterruptUnsaved, InterruptSave, Leave, Control, InGraph
<1> QED
  BY <1>1, <1>2, <1>3, <1>4, <1>5, <1>6 DEF Interrupt

\* Every step keeps the control invariant.
LEMMA NextControl == TypeOK /\ Control /\ [Next]_vars => Control'
<1> SUFFICES ASSUME TypeOK, Control, [Next]_vars PROVE Control'
  OBVIOUS
<1>1. CASE UNCHANGED vars
  BY <1>1 DEF vars, Control, NewestSaved
<1> QED
  BY <1>1, PlanNodesControl, StepNodesControl, ProcessControl, ResumeControl, FaultControl
  DEF Next, Node

\* Every variable keeps its type: no revision beyond the budget is ever in
\* memory, queued or stored, and only an ended run has a terminal status.
THEOREM TypeCorrect == Spec => []TypeOK
<1> QED
  BY InitTypeOK, InitControl, NextTypeOK, NextControl, PTL DEF Spec

-----------------------------------------------------------------------------
(***************************************************************************)
(* Justification.                                                          *)
(***************************************************************************)
\* Before the run exists there is no completion to justify.
LEMMA InitJustified == Init => Justified
<1> SUFFICES ASSUME Init PROVE Justified
  OBVIOUS
<1>1. Backed(NoGraph, EmptyStore)
  BY DEF Backed, NoGraph, NewAgentState, WithStatus
<1>2. RowsBacked(EmptyStore)
  BY DEF RowsBacked, EmptyStore, NoRow
<1> QED
  BY <1>1, <1>2 DEF Init, Justified

\* A state that was never saved is backed by any rows.
LEMMA NoGraphBacked == \A st : Backed(NoGraph, st)
  BY DEF Backed, NoGraph, NewAgentState, WithStatus

\* More rows never take a graph state's backing away.
LEMMA BackedGrows ==
  ASSUME NEW st \in Store, NEW k \in Key, NEW status \in ExecutionStatus,
         NEW version \in Nat, NEW g, Backed(g, st)
  PROVE  Backed(g, Insert(st, k, status, version))
<1>1. \A j \in WithStatus(g.state, "completed") : j \in Key /\ HasRow(st, j, "completed")
  BY DEF Backed, WithStatus
<1>2. \A j \in WithStatus(g.state, "completed") :
        HasRow(Insert(st, k, status, version), j, "completed")
  BY <1>1, InsertKeeps
<1> QED
  BY <1>2 DEF Backed

\* A new row never takes the backing of a graph state away.
LEMMA InsertJustified ==
  ASSUME TypeOK, Justified, NEW k \in Key, NEW status \in ExecutionStatus, NEW version \in Nat
  PROVE  /\ RowsBacked(Insert(store, k, status, version))
         /\ Backed(graph, Insert(store, k, status, version))
         /\ Backed(checkpoint, Insert(store, k, status, version))
         /\ \A n \in DOMAIN queue : Backed(queue[n], Insert(store, k, status, version))
         /\ HasRow(Insert(store, k, status, version), k, status)
  BY InsertKeeps, BackedGrows DEF TypeOK, Justified

\* A returned graph state only has to be backed itself.
LEMMA ReturnJustified ==
  ASSUME TypeOK, Justified, NEW g \in GraphState, Backed(g, store), NEW next,
         Return(g, next), UNCHANGED <<checkpoint, store, registry, routed>>
  PROVE  Justified'
<1>1. queue \in Seq(GraphState) /\ queue' = Append(queue, g) /\ graph' = g
  BY DEF TypeOK, Return
<1>2. PICK l \in Nat : l = Len(queue)
  BY <1>1
<1>3. /\ DOMAIN queue = 1 .. l
      /\ DOMAIN queue' = 1 .. l + 1
      /\ queue'[l + 1] = g
      /\ \A n \in 1 .. l : queue'[n] = queue[n]
  BY <1>1, <1>2
<1>4. \A n \in DOMAIN queue' : Backed(queue'[n], store)
  <2> SUFFICES ASSUME NEW n \in 1 .. l + 1 PROVE Backed(queue'[n], store)
    BY <1>3
  <2>1. CASE n = l + 1
    BY <1>3, <2>1
  <2>2. CASE n # l + 1
    <3>1. n \in 1 .. l
      BY <2>2
    <3> QED
      BY <1>3, <3>1 DEF Justified
  <2> QED
    BY <2>1, <2>2
<1> QED
  BY <1>1, <1>4 DEF Justified

\* While a run is open a plan or a step's new status changes no justification.
LEMMA OpenGraphBacked ==
  ASSUME NEW g \in GraphState, NEW h, NEW st, Backed(g, st),
         h.status = "resuming",
         WithStatus(h.state, "completed") \subseteq WithStatus(g.state, "completed")
  PROVE  Backed(h, st)
  BY DEF Backed

\* A state that gains a plan is backed by the rows that backed it before.
LEMMA PlannedBacked ==
  ASSUME TypeOK, Justified, graph.status = "resuming",
         NEW p \in Plans, Revision(graph.state) < MaxRevision
  PROVE  Backed([graph EXCEPT !.state = WithPlan(@, p)], store)
<1> DEFINE h == [graph EXCEPT !.state = WithPlan(@, p)]
<1>1. graph \in GraphState /\ graph.state \in AgentState
  BY GraphUpdates DEF TypeOK
<1>2. h.status = "resuming" /\ h.state = WithPlan(graph.state, p)
  BY <1>1 DEF GraphState
<1>3. WithStatus(h.state, "completed") = WithStatus(graph.state, "completed")
  BY <1>1, <1>2, WithPlanAppends DEF WithStatus
<1> HIDE DEF h
<1>4. Backed(graph, store)
  BY DEF Justified
<1>5. Backed(h, store)
  BY <1>1, <1>2, <1>3, <1>4, OpenGraphBacked
<1> QED
  BY <1>5 DEF h

\* The nodes that plan and mark keep every stored state justified.
LEMMA PlanNodesJustified ==
  ASSUME TypeOK, Control, Justified,
         Begin \/ PlanNew \/ PlanKept \/ MarkReturn \/ MarkFailedStep
           \/ ExecuteReturn \/ Replan \/ ReplanExhausted
           \/ Terminal("complete", "completed") \/ Terminal("blocked", "blocked")
  PROVE  Justified'
<1>1. graph \in GraphState /\ Backed(graph, store)
  BY DEF TypeOK, Justified
<1>2. CASE Begin \/ PlanKept \/ MarkReturn \/ MarkFailedStep \/ ExecuteReturn
  <2>1. PICK next : Return(graph, next)
    BY <1>2 DEF Begin, PlanKept, MarkReturn, MarkFailedStep, ExecuteReturn
  <2>2. UNCHANGED <<checkpoint, store, registry, routed>>
    BY <1>2 DEF Begin, PlanKept, MarkReturn, MarkFailedStep, ExecuteReturn, Outer
  <2> QED
    BY <1>1, <2>1, <2>2, ReturnJustified
<1>3. CASE PlanNew
  <2>1. PICK p \in Plans : Return([graph EXCEPT !.state = WithPlan(@, p)], "mark_running")
    BY <1>3 DEF PlanNew
  <2>2. graph.status = "resuming" /\ Revision(graph.state) < MaxRevision
    BY <1>3, RevisionAssumption DEF PlanNew, Control, InGraph, Revision
  <2> QED
    BY <1>1, <1>3, <2>1, <2>2, PlannedGraph, PlannedBacked, ReturnJustified DEF PlanNew, Outer
<1>4. CASE Replan
  <2>1. PICK p \in Plans : Return([graph EXCEPT !.state = WithPlan(@, p)], "mark_running")
    BY <1>4 DEF Replan
  <2>2. graph.status = "resuming" /\ Revision(graph.state) < MaxRevision
    BY <1>4, BelowBudget DEF Replan, Control, InGraph
  <2> QED
    BY <1>1, <1>4, <2>1, <2>2, PlannedGraph, PlannedBacked, ReturnJustified DEF Replan, Outer
<1>5. ASSUME NEW status \in {"completed", "blocked"},
             status = "completed" => AllStepsCompleted(graph.state),
             status = "blocked" => Blockable(graph.state),
             Return([graph EXCEPT !.status = status], "finish"),
             UNCHANGED <<checkpoint, store, registry, routed>>
      PROVE  Justified'
  <2> DEFINE h == [graph EXCEPT !.status = status]
  <2>1. h \in GraphState /\ h.status = status /\ h.state = graph.state
    BY <1>1 DEF GraphState, RunStatus
  <2> HIDE DEF h
  <2>2. Backed(h, store)
    BY <1>1, <1>5, <2>1 DEF Backed
  <2>3. Return(h, "finish")
    BY <1>5 DEF h
  <2> QED
    BY <1>5, <2>1, <2>2, <2>3, ReturnJustified
<1>6. CASE ReplanExhausted
  <2>1. Blockable(graph.state)
    BY <1>6 DEF ReplanExhausted, Control, Blockable
  <2> QED
    BY <1>5, <1>6, <2>1 DEF ReplanExhausted, Outer
<1>7. CASE Terminal("complete", "completed")
  BY <1>5, <1>7 DEF Terminal, Outer, Control
<1>8. CASE Terminal("blocked", "blocked")
  <2>1. Blockable(graph.state)
    BY <1>1, <1>8 DEF Terminal, Control, Backed
  <2> QED
    BY <1>5, <1>8, <2>1 DEF Terminal, Outer
<1> QED
  BY <1>2, <1>3, <1>4, <1>6, <1>7, <1>8

\* The status a step gets is backed when the row inserted with it says it.
LEMMA MarkedBacked ==
  ASSUME TypeOK, Justified, NEW k \in Key, NEW status \in ExecutionStatus,
         graph.status = "resuming", NEW h,
         h.status = "resuming", h.state = WithStepExecution(graph.state, k, status)
  PROVE  Backed(h, Insert(store, k, status, graph.version + 1))
<1> DEFINE new == Insert(store, k, status, graph.version + 1)
<1>1. graph.state \in AgentState /\ graph.version + 1 \in Nat
  BY GraphUpdates DEF TypeOK
<1>2. Backed(graph, new) /\ HasRow(new, k, status)
  BY <1>1, InsertJustified
<1>3. ASSUME NEW j \in WithStatus(h.state, "completed") PROVE HasRow(new, j, "completed")
  <2>1. j \in Key /\ WithStepExecution(graph.state, k, status).execs[j] = "completed"
    BY <1>3 DEF WithStatus
  <2>2. CASE j = k
    <3>1. status = "completed"
      BY <1>1, <2>1, <2>2, WithStepExecutionSets
    <3> QED
      BY <1>2, <2>2, <3>1
  <2>3. CASE j # k
    <3>1. graph.state.execs[j] = "completed"
      BY <1>1, <2>1, <2>3, WithStepExecutionSets
    <3> QED
      BY <1>2, <2>1, <3>1 DEF Backed, WithStatus
  <2> QED
    BY <2>2, <2>3
<1> QED
  BY <1>3 DEF Backed

\* The nodes that execute, replan and end keep every stored state
\* justified.
LEMMA StepNodesJustified ==
  ASSUME TypeOK, Control, Justified, MarkRunning \/ MarkCollides \/ ExecuteBegin \/ ExecuteEnd
  PROVE  Justified'
<1>1. graph \in GraphState /\ graph.version + 1 \in Nat
  BY GraphUpdates DEF TypeOK
<1>2. ASSUME NEW k \in Key, NEW status \in ExecutionStatus,
             store' = Insert(store, k, status, graph.version + 1),
             graph.status = "resuming", graph'.status = "resuming",
             graph'.state = WithStepExecution(graph.state, k, status),
             UNCHANGED <<queue, checkpoint, registry, routed>>
      PROVE  Justified'
  <2>1. Backed(graph', store')
    BY <1>2, MarkedBacked
  <2>2. /\ RowsBacked(store')
        /\ Backed(checkpoint, store')
        /\ \A n \in DOMAIN queue : Backed(queue[n], store')
    BY <1>1, <1>2, InsertJustified
  <2> QED
    BY <1>2, <2>1, <2>2 DEF Justified
<1>3. CASE MarkRunning
  <2>1. PICK k : /\ k \in Key
                 /\ store' = Insert(store, k, "running", graph.version + 1)
                 /\ graph' = [graph EXCEPT !.state = WithStepExecution(@, k, "running"),
                                           !.version = @ + 1]
    BY <1>3 DEF MarkRunning
  <2>2. graph.status = "resuming"
    BY <1>3 DEF MarkRunning, Control, InGraph
  <2>3. graph'.status = "resuming" /\ graph'.state = WithStepExecution(graph.state, k, "running")
    BY <1>1, <2>1, <2>2 DEF GraphState
  <2>4. UNCHANGED <<queue, checkpoint, registry, routed>> /\ "running" \in ExecutionStatus
    BY <1>3 DEF MarkRunning, Outer, ExecutionStatus
  <2> QED
    BY <1>2, <2>1, <2>2, <2>3, <2>4
<1>4. CASE MarkCollides \/ ExecuteBegin
  BY <1>4 DEF MarkCollides, ExecuteBegin, Justified, Outer
<1>5. CASE ExecuteEnd
  <2>1. PICK k \in Key, outcome \in {"completed", "failed"} :
          /\ store' = Insert(store, k, outcome, graph.version + 1)
          /\ graph' = [graph EXCEPT
               !.state   = WithStepExecution(@, k, outcome),
               !.version = @ + 1,
               !.active  = FALSE,
               !.context = IF outcome = "completed" THEN @ \union {k} ELSE @]
    BY <1>5 DEF ExecuteEnd
  <2>2. graph.status = "resuming"
    BY <1>5 DEF ExecuteEnd, Control, InGraph
  <2>3. graph'.status = "resuming" /\ graph'.state = WithStepExecution(graph.state, k, outcome)
    BY <1>1, <2>1, <2>2 DEF GraphState
  <2>4. UNCHANGED <<queue, checkpoint, registry, routed>> /\ outcome \in ExecutionStatus
    BY <1>5 DEF ExecuteEnd, Outer, ExecutionStatus
  <2> QED
    BY <1>2, <2>1, <2>2, <2>3, <2>4
<1> QED
  BY <1>3, <1>4, <1>5

\* Saving moves a backed graph state from the queue to the checkpoint; an ended
\* graph registers the status of the checkpoint it was just saved as.
LEMMA ProcessJustified ==
  ASSUME TypeOK, Control, Justified,
         Save \/ Finish \/ RaiseOut \/ (\E viaRouter \in BOOLEAN : Start(viaRouter))
  PROVE  Justified'
<1>1. CASE Save
  <2>1. /\ queue \in Seq(GraphState) /\ queue # <<>>
        /\ checkpoint' = Head(queue) /\ queue' = Tail(queue)
        /\ UNCHANGED <<graph, store, registry, routed>>
    BY <1>1 DEF Save, TypeOK, Outer
  <2>2. \A n \in DOMAIN queue' : n + 1 \in DOMAIN queue /\ queue'[n] = queue[n + 1]
    BY <2>1
  <2>3. Backed(checkpoint', store)
    <3>1. 1 \in DOMAIN queue /\ checkpoint' = queue[1]
      BY <2>1
    <3> QED
      BY <3>1 DEF Justified
  <2>4. \A n \in DOMAIN queue' : Backed(queue'[n], store)
    BY <2>2 DEF Justified
  <2>5. registry = "running"
    BY <2>1, <1>1 DEF Control
  <2> QED
    BY <2>1, <2>3, <2>4, <2>5 DEF Justified
<1>2. CASE Finish
  <2>1. graph = checkpoint /\ registry' = graph.status /\ graph.status \in {"completed", "blocked"}
    BY <1>2 DEF Finish, Control, NewestSaved
  <2> QED
    BY <1>2, <2>1, NoGraphBacked DEF Finish, Leave, Justified
<1>3. CASE RaiseOut
  BY <1>3, NoGraphBacked DEF RaiseOut, Leave, Justified
<1>4. CASE \E viaRouter \in BOOLEAN : Start(viaRouter)
  <2>1. Backed(graph', store) /\ UNCHANGED <<queue, checkpoint, store>> /\ registry' = "running"
    BY <1>4 DEF Start, Backed, NoGraph, NewAgentState, WithStatus
  <2> QED
    BY <2>1 DEF Justified
<1> QED
  BY <1>1, <1>2, <1>3, <1>4

-----------------------------------------------------------------------------
\* What a resume rebuilds from checkpoint and rows is completed only where a
\* row says so.
LEMMA RestoredBacked ==
  ASSUME TypeOK, Justified
  PROVE  /\ Restored \in AgentState
         /\ Stale \in AgentState
         /\ \A k \in WithStatus(Stale, "completed") : HasRow(store, k, "completed")
<1>1. store \in Store /\ checkpoint.state \in AgentState
  BY GraphUpdates DEF TypeOK
<1>2. \A k \in WithStatus(Restored, "completed") : HasRow(store, k, "completed")
  BY <1>1, RestoreKeeps DEF Restored, WithStatus, Justified, RowsBacked, Backed
<1> QED
  BY <1>1, <1>2, StaleType, MarkStaleKeeps DEF Stale

\* The row of an interrupted step keeps what was backed.
LEMMA RecordInterruptedKeeps ==
  ASSUME TypeOK, Justified, NEW k \in Key
  PROVE  /\ RowsBacked(RecordInterrupted(k))
         /\ Backed(checkpoint, RecordInterrupted(k))
         /\ \A n \in DOMAIN queue : Backed(queue[n], RecordInterrupted(k))
         /\ \A j \in Key : HasRow(store, j, "completed")
                             => HasRow(RecordInterrupted(k), j, "completed")
<1>1. store \in Store /\ store.latest + 1 \in Nat /\ "interrupted" \in ExecutionStatus
  BY DEF TypeOK, Store, ExecutionStatus
<1> DEFINE new == Insert(store, k, "interrupted", store.latest + 1)
<1>2. /\ RowsBacked(new) /\ Backed(checkpoint, new)
      /\ \A n \in DOMAIN queue : Backed(queue[n], new)
  BY <1>1, InsertJustified
<1>3. \A j \in Key : HasRow(store, j, "completed") => HasRow(new, j, "completed")
  BY <1>1, InsertKeeps
<1>4. RecordInterrupted(k) = new \/ RecordInterrupted(k) = store
  BY DEF RecordInterrupted
<1> HIDE DEF new
<1> QED
  BY <1>2, <1>3, <1>4 DEF Justified

\* Resuming keeps every stored state justified: what the overlay calls
\* completed has a completed row.
LEMMA ResumeJustified ==
  ASSUME TypeOK, Control, Justified, Resume
  PROVE  Justified'
<1>1. checkpoint \in GraphState
  BY DEF TypeOK
<1>2. CASE ResumeUnsaved \/ ResumeRefused \/ ResumeInvalid
  BY <1>2, NoGraphBacked
  DEF ResumeUnsaved, ResumeRefused, ResumeInvalid, Resuming, Leave, Justified
<1>3. CASE ResumeTerminal
  BY <1>3 DEF ResumeTerminal, Resuming, Justified
<1>4. ASSUME Resuming, RowsBacked(store'), Backed(checkpoint, store'), Backed(graph', store'),
             \A n \in DOMAIN queue : Backed(queue[n], store')
      PROVE  Justified'
  BY <1>4 DEF Resuming, Justified
<1>5. ASSUME NEW s, NEW active, NEW attempt, NEW st,
             \A j \in WithStatus(s, "completed") : HasRow(st, j, "completed")
      PROVE  Backed(ResumeInput(s, active, attempt), st)
  <2>1. /\ ResumeInput(s, active, attempt).status = "resuming"
        /\ ResumeInput(s, active, attempt).state = s
    BY <1>1 DEF ResumeInput, GraphState
  <2> QED
    BY <1>5, <2>1 DEF Backed
<1>6. \A j \in WithStatus(Stale, "completed") : j \in Key /\ HasRow(store, j, "completed")
  BY RestoredBacked DEF WithStatus
<1>7. CASE ResumeContinue
  <2>1. Resuming /\ store' = store /\ graph' = ResumeInput(Stale, FALSE, checkpoint.attempt)
    BY <1>7 DEF ResumeContinue, Reopening
  <2>2. Backed(graph', store')
    BY <1>5, <1>6, <2>1
  <2> QED
    BY <1>4, <2>1, <2>2 DEF Justified
<1>8. ASSUME Resuming, NEW k \in Key, store' = RecordInterrupted(k), Backed(graph', store')
      PROVE  Justified'
  BY <1>4, <1>8, RecordInterruptedKeeps
<1>9. ASSUME NEW k \in Key, store' = RecordInterrupted(k)
      PROVE  \A j \in WithStatus(Stale, "completed") : HasRow(store', j, "completed")
  BY <1>6, <1>9, RecordInterruptedKeeps
<1>10. CASE ResumeRecover
  <2>1. PICK k : /\ k \in Key
                 /\ store' = RecordInterrupted(k)
                 /\ graph' = ResumeInput(Stale, TRUE, store'.newest[k].attempt + 1)
    BY <1>10 DEF ResumeRecover
  <2>2. Backed(graph', store')
    BY <1>5, <1>9, <2>1
  <2> QED
    BY <1>8, <1>10, <2>1, <2>2 DEF ResumeRecover, Reopening
<1>11. CASE ResumeFail
  <2>1. PICK k : /\ k \in Key
                 /\ store' = RecordInterrupted(k)
                 /\ graph' = ResumeInput(WithStepExecution(Stale, k, "failed"),
                                         WithStatus(Restored, "running") = {},
                                         store'.newest[k].attempt + 1)
    BY <1>11 DEF ResumeFail
  <2>2. WithStatus(WithStepExecution(Stale, k, "failed"), "completed")
          \subseteq WithStatus(Stale, "completed")
    <3>1. Stale \in AgentState /\ "failed" \in ExecutionStatus
      BY RestoredBacked DEF ExecutionStatus
    <3>2. /\ WithStepExecution(Stale, k, "failed").execs[k] = "failed"
          /\ \A j \in Key : j # k =>
               WithStepExecution(Stale, k, "failed").execs[j] = Stale.execs[j]
      BY <2>1, <3>1, WithStepExecutionSets
    <3> QED
      BY <3>2 DEF WithStatus
  <2>3. Backed(graph', store')
    BY <1>5, <1>9, <2>1, <2>2
  <2> QED
    BY <1>8, <1>11, <2>1, <2>3 DEF ResumeFail, Reopening
<1>12. CASE ResumeAbort
  <2>1. PICK k : /\ IsFirstUncertain(Restored, k)
                 /\ k \in Key
                 /\ store' = RecordInterrupted(k)
                 /\ graph' = [checkpoint EXCEPT !.state = Stale, !.status = "blocked"]
    BY <1>12 DEF ResumeAbort
  <2>2. graph'.state = Stale /\ graph'.status = "blocked"
    BY <1>1, <2>1 DEF GraphState
  <2>3. WithStatus(Stale, "interrupted") # {}
    BY <2>1, RestoredBacked, MarkStaleKeeps DEF Stale
  <2>4. Backed(graph', store')
    BY <1>9, <2>1, <2>2, <2>3 DEF Backed, Blockable
  <2> QED
    BY <1>8, <1>12, <2>1, <2>4 DEF ResumeAbort, Reopening
<1> QED
  BY <1>2, <1>3, <1>7, <1>10, <1>11, <1>12 DEF Resume

\* Faults keep every stored state justified.
LEMMA FaultJustified ==
  ASSUME TypeOK, Control, Justified, Crash \/ Raise \/ Cancel \/ CancelReading \/ Interrupt
  PROVE  Justified'
<1>1. CASE Crash
  BY <1>1, NoGraphBacked DEF Crash, Leave, Justified
<1>2. CASE Raise
  BY <1>2 DEF Raise, Justified
<1>3. CASE Cancel
  BY <1>3, NoGraphBacked DEF Cancel, Justified
<1>4. CASE CancelReading
  BY <1>4 DEF CancelReading, Control, Justified
<1>5. checkpoint \in GraphState /\ checkpoint.state \in AgentState /\ checkpoint.version + 1 \in Nat
  BY GraphUpdates DEF TypeOK
<1>6. InterruptedInput.status = "interrupted"
      /\ InterruptedInput.state = MarkStaleInterrupted(checkpoint.state)
  BY <1>5 DEF InterruptedInput, GraphState
<1>7. ASSUME NEW st, Backed(checkpoint, st) PROVE Backed(InterruptedInput, st)
  BY <1>5, <1>6, <1>7, MarkStaleKeeps DEF Backed
<1>8. CASE InterruptRunning
  <2>1. PICK k \in Key : store' = Insert(store, k, "interrupted", checkpoint.version + 1)
    BY <1>8 DEF InterruptRunning
  <2>2. /\ RowsBacked(store')
        /\ Backed(checkpoint, store')
        /\ \A n \in DOMAIN queue : Backed(queue[n], store')
    BY <1>5, <2>1, InsertJustified DEF ExecutionStatus
  <2>3. Backed(graph', store')
    BY <1>7, <1>8, <2>2 DEF InterruptRunning
  <2> QED
    BY <1>8, <2>2, <2>3 DEF InterruptRunning, Justified, Outer
<1>9. CASE InterruptIdleStep
  <2>1. Backed(graph', store)
    BY <1>7, <1>9 DEF InterruptIdleStep, Justified
  <2> QED
    BY <1>9, <2>1 DEF InterruptIdleStep, Justified, Outer
<1>10. CASE InterruptUnsaved
  BY <1>10, NoGraphBacked DEF InterruptUnsaved, Leave, Justified
<1>11. CASE InterruptSave
  <2>1. registry = "running"
    BY <1>11 DEF InterruptSave, Control
  <2> QED
    BY <1>11, <2>1, NoGraphBacked DEF InterruptSave, Leave, Justified
<1> QED
  BY <1>1, <1>2, <1>3, <1>4, <1>8, <1>9, <1>10, <1>11 DEF Interrupt

\* Every step keeps every stored state justified.
LEMMA NextJustified == TypeOK /\ Control /\ Justified /\ [Next]_vars => Justified'
<1> SUFFICES ASSUME TypeOK, Control, Justified, [Next]_vars PROVE Justified'
  OBVIOUS
<1>1. CASE UNCHANGED vars
  BY <1>1 DEF vars, Justified
<1> QED
  BY <1>1, PlanNodesJustified, StepNodesJustified, ProcessJustified, ResumeJustified,
     FaultJustified
  DEF Next, Node

\* The registry calls a run completed, blocked or failed only when the stored
\* checkpoint, its steps and the rows say so, whatever faults came before.
THEOREM TerminalIsJustified == Spec => []TerminalStatusJustified
<1>1. Init => DInv
  BY InitTypeOK, InitControl, InitJustified DEF DInv
<1>2. DInv /\ [Next]_vars => DInv'
  BY NextTypeOK, NextControl, NextJustified DEF DInv
<1>3. DInv => TerminalStatusJustified
  BY DEF DInv, Justified, Backed, Blockable, TerminalStatusJustified
<1> QED
  BY <1>1, <1>2, <1>3, PTL DEF Spec

-----------------------------------------------------------------------------
(***************************************************************************)
(* Restarts: what a durable run keeps through any number of crashes,       *)
(* cancelled waits, interrupts and resumes: its completions and its order  *)
(* of steps, its versions, the numbers of its attempts and its context.    *)
(*                                                                         *)
(* Every invariant here relates the four places a graph state can be in:   *)
(* the stored checkpoint, the queue of the saver, the memory of the        *)
(* process and the rows.  The actions are first reduced to the few things  *)
(* they do with those places (StepEffect), so that each invariant is       *)
(* proved by one short case for each of them.                              *)
(***************************************************************************)

\* The steps a graph state says are completed.
Done(g) == WithStatus(g.state, "completed")

\* The checkpoints that are stored or about to be.
Saved == {checkpoint} \union {queue[n] : n \in DOMAIN queue}

\* The process has read its graph state; later ones come from it.
InMemory == pc \notin {"idle", "cancelled"}

\* Completions only grow from the checkpoint along the queue to the memory.
DoneOrder ==
  /\ \A n \in DOMAIN queue : Done(checkpoint) \subseteq Done(queue[n])
  /\ \A m, n \in DOMAIN queue : m <= n => Done(queue[m]) \subseteq Done(queue[n])
  /\ InMemory => \A g \in Saved : Done(g) \subseteq Done(graph)

\* The newest row of a step that a graph state calls completed says so too.
NewestDone(g, st) == \A k \in Done(g) : st.newest[k].status = "completed"

DoneRows == \A g \in Saved \union {graph} : NewestDone(g, store)

\* The version in memory keeps up with the rows.
Numbering ==
  /\ \A k \in Key : store.newest[k].version <= store.latest
  /\ \A k \in Key : Recorded(store, k) => store.latest > 0
  /\ pc \in InGraph => store.latest <= graph.version + 1
  /\ ExecutionIsRecorded

\* A step at work is the one whose last row opened an attempt.
Attempts ==
  /\ AttemptsAreNumbered
  /\ pc \in {"marked", "execute", "executing"} =>
       \A k \in Key : IsNextStep(graph.state, k)
         => Recorded(store, k) /\ LastInserted(store, k).status = "running"

\* Contexts hold completed steps only, and in an open graph all of them.
Contexts ==
  /\ \A g \in Saved \union {graph} : g.context \subseteq EverCompleted(store)
  /\ pc \in InGraph /\ graph.status = "resuming" => Done(graph) \subseteq graph.context

\* A run that does not exist has left nothing.
Unstarted ==
  registry = "absent" => checkpoint = NoGraph /\ queue = <<>> /\ store = EmptyStore

HInv == DInv /\ DoneOrder /\ DoneRows /\ Numbering /\ Attempts /\ Contexts /\ Unstarted

-----------------------------------------------------------------------------
(***************************************************************************)
(* What an action does with graph, queue, checkpoint and rows.             *)
(***************************************************************************)
\* A node returns: what it returns differs from the memory in its status or by
\* a new plan.
Returning(g, next) ==
  /\ pc \in InGraph \ {"execute", "executing"}
  /\ Return(g, next)
  /\ next \in {"plan", "mark_running", "execute", "replan", "complete", "blocked", "finish"}
  /\ next = "execute" <=> pc = "marked"
  /\ pc \in {"starting", "marked", "executed"} => g = graph
  /\ pc = "starting" => next \in {"plan", "blocked"}
  /\ pc = "blocked" => next = "finish"
  /\ pc = "plan" => g.state.plans # <<>>
  /\ g.version = graph.version
  /\ g.context = graph.context
  /\ g.active = graph.active
  /\ g.attempt = graph.attempt
  /\ g.state.execs = graph.state.execs
  /\ \/ g.status = graph.status
     \/ next = "finish" /\ (g.status = "completed" => pc = "complete")
  /\ \/ g.state = graph.state
     \/ /\ graph.state.plans = <<>> \/ pc = "replan"
        /\ Revision(graph.state) < MaxRevision
        /\ \E p \in Plans : g.state = WithPlan(graph.state, p)
  /\ UNCHANGED <<checkpoint, store, registry>>

\* The process ends or is cancelled and forgets what it had in memory.
Forgetting ==
  /\ pc' \in {"idle", "cancelled"}
  /\ graph' = NoGraph
  /\ queue' \in {queue, <<>>}
  /\ registry # "absent" /\ registry' # "absent"
  /\ pc' = "cancelled" => pc \in InGraph \union {"finish"} /\ queue' = queue
  /\ UNCHANGED <<checkpoint, store>>

\* Only the place of the process changes, if that.
Waiting ==
  /\ UNCHANGED <<graph, queue, checkpoint, store, registry>>
  /\ \/ pc \in InGraph /\ pc' = "raised"
     \/ pc = "execute" /\ pc' = "executing"
     \/ pc = "idle" /\ pc' = "cancelled" /\ registry = "running" /\ "abandon" \in FaultKinds
     \/ pc' = pc

\* A resume that opens the graph again, whatever the decision.
Reopened == ResumeContinue \/ ResumeRecover \/ ResumeFail \/ ResumeAbort

Interrupted == InterruptRunning \/ InterruptIdleStep

\* Every step is one of these.
LEMMA StepEffect ==
  ASSUME DInv, [Next]_vars
  PROVE  \/ \E g \in GraphState, next \in Location : Returning(g, next)
         \/ MarkRunning \/ ExecuteEnd \/ Save
         \/ Forgetting \/ Waiting
         \/ \E viaRouter \in BOOLEAN : Start(viaRouter)
         \/ ResumeTerminal \/ Reopened \/ Interrupted \/ InterruptSave
<1>1. TypeOK /\ Control /\ graph \in GraphState /\ graph.state \in AgentState
  BY GraphUpdates DEF DInv, TypeOK
<1>2. CASE UNCHANGED vars
  BY <1>2 DEF vars, Waiting
<1>3. ASSUME NEW next, pc \in InGraph \ {"execute", "executing"}, Return(graph, next),
             next \in {"plan", "mark_running", "execute", "replan", "complete", "blocked"},
             next = "execute" <=> pc = "marked", UNCHANGED <<checkpoint, store, registry>>,
             pc = "starting" => next \in {"plan", "blocked"}, pc # "blocked",
             pc = "plan" => graph.state.plans # <<>>
      PROVE  \E g \in GraphState, n \in Location : Returning(g, n)
  BY <1>1, <1>3 DEF Returning, Location, InGraph
<1>4. CASE Begin \/ PlanKept \/ MarkReturn \/ MarkFailedStep \/ ExecuteReturn
  BY <1>3, <1>4
  DEF Begin, PlanKept, MarkReturn, MarkFailedStep, ExecuteReturn, StartNode, AfterPlan,
      AfterExecute, InGraph, Outer
<1>5. ASSUME NEW p \in Plans, Revision(graph.state) < MaxRevision,
             graph.state.plans = <<>> \/ pc = "replan", pc \in {"plan", "replan"},
             Return([graph EXCEPT !.state = WithPlan(@, p)], "mark_running"),
             UNCHANGED <<checkpoint, store, registry>>
      PROVE  \E g \in GraphState, n \in Location : Returning(g, n)
  <2> DEFINE h == [graph EXCEPT !.state = WithPlan(@, p)]
  <2>1. /\ h \in GraphState
        /\ h.state = WithPlan(graph.state, p)
        /\ h.version = graph.version /\ h.context = graph.context
        /\ h.active = graph.active /\ h.attempt = graph.attempt
        /\ h.status = graph.status
    BY <1>1, <1>5, PlannedGraph DEF GraphState
  <2>2. h.state.execs = graph.state.execs /\ h.state.plans # <<>>
    <3>1. /\ h.state.execs = graph.state.execs
          /\ Len(h.state.plans) = Len(graph.state.plans) + 1 /\ Len(graph.state.plans) \in Nat
      BY <1>1, <1>5, <2>1, WithPlanAppends DEF Revision
    <3> HIDE DEF h
    <3> QED
      BY <3>1
  <2>3. Return(h, "mark_running")
    BY <1>5
  <2> HIDE DEF h
  <2>4. Returning(h, "mark_running")
    BY <1>5, <2>1, <2>2, <2>3 DEF Returning, InGraph
  <2> QED
    BY <2>1, <2>4 DEF Location, InGraph
<1>6. CASE PlanNew
  <2>1. Revision(graph.state) < MaxRevision
    BY <1>6, RevisionAssumption DEF PlanNew, Revision
  <2> QED
    BY <1>5, <1>6, <2>1 DEF PlanNew, Outer
<1>7. CASE Replan
  <2>1. Revision(graph.state) < MaxRevision
    BY <1>1, <1>7, BelowBudget DEF Replan
  <2> QED
    BY <1>5, <1>7, <2>1 DEF Replan, Outer
<1>8. ASSUME NEW status \in {"completed", "blocked"}, pc \in {"replan", "complete", "blocked"},
             status = "completed" => pc = "complete",
             Return([graph EXCEPT !.status = status], "finish"),
             UNCHANGED <<checkpoint, store, registry>>
      PROVE  \E g \in GraphState, n \in Location : Returning(g, n)
  <2> DEFINE h == [graph EXCEPT !.status = status]
  <2>1. /\ h \in GraphState
        /\ h.state = graph.state /\ h.version = graph.version
        /\ h.context = graph.context /\ h.active = graph.active
        /\ h.attempt = graph.attempt
        /\ h.status = status
    BY <1>1 DEF GraphState, RunStatus
  <2>2. Returning(h, "finish")
    BY <1>8, <2>1 DEF Returning, InGraph
  <2> QED
    BY <2>1, <2>2 DEF Location
<1>9. CASE ReplanExhausted \/ Terminal("complete", "completed") \/ Terminal("blocked", "blocked")
  BY <1>8, <1>9 DEF ReplanExhausted, Terminal, Outer
<1>10. CASE MarkCollides \/ Raise \/ ExecuteBegin \/ CancelReading
  BY <1>10
  DEF MarkCollides, Raise, ExecuteBegin, CancelReading, Fault, Waiting, InGraph, Outer
<1>11. CASE Finish \/ RaiseOut \/ Crash \/ Cancel \/ InterruptUnsaved
            \/ ResumeUnsaved \/ ResumeRefused \/ ResumeInvalid
  <2>1. registry # "absent" /\ registry' # "absent"
    BY <1>1, <1>11
    DEF Control, Finish, RaiseOut, Crash, Cancel, InterruptUnsaved, ResumeUnsaved,
        ResumeRefused, ResumeInvalid, Resuming, InGraph
  <2> QED
    BY <1>11, <2>1
    DEF Finish, RaiseOut, Crash, Cancel, InterruptUnsaved, ResumeUnsaved,
        ResumeRefused, ResumeInvalid, Resuming, Leave, Forgetting
<1> QED
  BY <1>2, <1>4, <1>6, <1>7, <1>9, <1>10, <1>11
  DEF Next, Node, Resume, Interrupt, Reopened, Interrupted

-----------------------------------------------------------------------------
\* The row an insertion adds.
NewRow(st, k, status, version) ==
  [attempt |-> NextAttempt(st, k), status |-> status, version |-> version]

\* An insertion appends its row to those of its step.
LEMMA InsertRows ==
  ASSUME NEW st \in Store, NEW k \in Key, NEW status \in ExecutionStatus, NEW version \in Nat
  PROVE  LET new == Insert(st, k, status, version)
         IN  /\ Len(st.rows[k]) \in Nat
             /\ DOMAIN st.rows[k] = 1 .. Len(st.rows[k])
             /\ DOMAIN new.rows[k] = 1 .. Len(st.rows[k]) + 1
             /\ \A n \in DOMAIN st.rows[k] : new.rows[k][n] = st.rows[k][n]
             /\ new.rows[k][Len(st.rows[k]) + 1] = NewRow(st, k, status, version)
             /\ LastInserted(new, k) = NewRow(st, k, status, version)
             /\ Recorded(new, k)
             /\ HasRow(new, k, status)
             /\ EverCompleted(st) \subseteq EverCompleted(new)
             /\ \A j \in Key : j # k => /\ new.rows[j] = st.rows[j]
                                        /\ Recorded(new, j) <=> Recorded(st, j)
                                        /\ LastInserted(new, j) = LastInserted(st, j)
<1> DEFINE row == NewRow(st, k, status, version)
           new == Insert(st, k, status, version)
<1>1. row \in Row
  BY NextAttemptIsNat DEF Row, NewRow
<1>2. st.rows \in [Key -> Seq(Row)]
  BY DEF Store
<1>3. new.rows = [st.rows EXCEPT ![k] = Append(st.rows[k], row)]
  BY DEF Insert, NewRow
<1>4. HasRow(new, k, status) /\ EverCompleted(st) \subseteq EverCompleted(new)
  BY InsertKeeps DEF EverCompleted
<1> HIDE DEF row, new
<1>5. PICK l \in Nat : l = Len(st.rows[k])
  BY <1>2
<1>6. /\ new.rows[k] = Append(st.rows[k], row)
      /\ st.rows[k] \in Seq(Row)
  BY <1>2, <1>3
<1>7. /\ DOMAIN st.rows[k] = 1 .. l
      /\ DOMAIN new.rows[k] = 1 .. l + 1
      /\ Len(new.rows[k]) = l + 1
      /\ new.rows[k][l + 1] = row
      /\ \A n \in 1 .. l : new.rows[k][n] = st.rows[k][n]
  BY <1>1, <1>5, <1>6
<1>8. new.rows[k] # <<>>
  <2>1. Len(<<>>) = 0 /\ l + 1 # 0
    OBVIOUS
  <2> QED
    BY <1>7, <2>1
<1>9. \A j \in Key : j # k => new.rows[j] = st.rows[j]
  BY <1>2, <1>3
<1> QED
  BY <1>4, <1>5, <1>7, <1>8, <1>9 DEF LastInserted, Recorded, row, new

\* It becomes the newest of its step unless a row of a later version is there.
LEMMA InsertNewest ==
  ASSUME NEW st \in Store, NEW k \in Key, NEW status \in ExecutionStatus, NEW version \in Nat
  PROVE  LET new == Insert(st, k, status, version)
         IN  /\ new \in Store
             /\ version >= st.newest[k].version => new.newest[k] = NewRow(st, k, status, version)
             /\ ~(version >= st.newest[k].version) => new.newest[k] = st.newest[k]
             /\ NewRow(st, k, status, version).status = status
             /\ NewRow(st, k, status, version).version = version
             /\ new.latest = IF version > st.latest THEN version ELSE st.latest
             /\ \A j \in Key : j # k => new.newest[j] = st.newest[j]
<1>1. st.newest \in [Key -> Row \union {NoRow}]
  BY DEF Store
<1>2. Insert(st, k, status, version) \in Store
  BY InsertKeeps
<1>3. /\ Insert(st, k, status, version).newest =
           [st.newest EXCEPT ![k] = IF version >= st.newest[k].version
                                    THEN NewRow(st, k, status, version) ELSE st.newest[k]]
      /\ Insert(st, k, status, version).latest =
           IF version > st.latest THEN version ELSE st.latest
  BY DEF Insert, NewRow
<1> QED
  BY <1>1, <1>2, <1>3 DEF NewRow

\* After a return the saved checkpoints are those before and the new one.
LEMMA ReturnSaved ==
  ASSUME TypeOK, NEW g \in GraphState, NEW next, Return(g, next), UNCHANGED checkpoint
  PROVE  /\ Saved' = Saved \union {g}
         /\ Len(queue) \in Nat
         /\ DOMAIN queue = 1 .. Len(queue)
         /\ DOMAIN queue' = 1 .. Len(queue) + 1
         /\ queue'[Len(queue) + 1] = g
         /\ \A n \in DOMAIN queue : queue'[n] = queue[n]
<1>1. queue \in Seq(GraphState) /\ queue' = Append(queue, g)
  BY DEF TypeOK, Return
<1>2. PICK l \in Nat : l = Len(queue)
  BY <1>1
<1>3. /\ DOMAIN queue = 1 .. l
      /\ DOMAIN queue' = 1 .. l + 1
      /\ queue'[l + 1] = g
      /\ \A n \in 1 .. l : queue'[n] = queue[n]
  BY <1>1, <1>2
<1>4. {queue'[n] : n \in DOMAIN queue'} = {queue[n] : n \in DOMAIN queue} \union {g}
  <2>1. ASSUME NEW n \in 1 .. l + 1 PROVE n = l + 1 \/ n \in 1 .. l
    OBVIOUS
  <2>2. 1 .. l \subseteq 1 .. l + 1 /\ l + 1 \in 1 .. l + 1
    OBVIOUS
  <2> QED
    BY <1>3, <2>1, <2>2
<1> QED
  BY <1>2, <1>3, <1>4 DEF Saved

\* Saving moves the oldest queued checkpoint to the store.
LEMMA SaveSaved ==
  ASSUME TypeOK, Save
  PROVE  /\ Saved' \subseteq Saved
         /\ checkpoint' \in Saved
         /\ checkpoint' = queue[1] /\ 1 \in DOMAIN queue
         /\ \A n \in DOMAIN queue' : n + 1 \in DOMAIN queue /\ queue'[n] = queue[n + 1]
         /\ UNCHANGED <<pc, graph, store, registry>>
<1>1. /\ queue \in Seq(GraphState) /\ queue # <<>>
      /\ checkpoint' = Head(queue) /\ queue' = Tail(queue)
      /\ UNCHANGED <<pc, graph, store, registry>>
  BY DEF TypeOK, Save, Outer
<1>2. 1 \in DOMAIN queue /\ checkpoint' = queue[1]
  BY <1>1
<1>3. \A n \in DOMAIN queue' : n + 1 \in DOMAIN queue /\ queue'[n] = queue[n + 1]
  BY <1>1
<1> QED
  BY <1>1, <1>2, <1>3 DEF Saved

\* Nothing is queued while no process works, nor while it is interrupted.
LEMMA SavedAtRest ==
  ASSUME queue = <<>>
  PROVE  Saved = {checkpoint}
  BY DEF Saved

\* Marking stale work changes nothing but running entries.
LEMMA MarkStaleSets ==
  ASSUME NEW s \in AgentState
  PROVE  /\ MarkStaleInterrupted(s).plans = s.plans
         /\ \A k \in Key : MarkStaleInterrupted(s).execs[k] =
              IF IsFirst(s, "running", k) THEN "interrupted" ELSE s.execs[k]
         /\ WithStatus(MarkStaleInterrupted(s), "completed") = WithStatus(s, "completed")
<1>1. /\ MarkStaleInterrupted(s).plans = s.plans
      /\ \A k \in Key : MarkStaleInterrupted(s).execs[k] =
           IF IsFirst(s, "running", k) THEN "interrupted" ELSE s.execs[k]
  BY DEF MarkStaleInterrupted, AgentState
<1>2. \A k \in Key : IsFirst(s, "running", k) => s.execs[k] = "running"
  BY DEF IsFirst, WithStatus
<1>3. WithStatus(MarkStaleInterrupted(s), "completed") = WithStatus(s, "completed")
  BY <1>1, <1>2 DEF WithStatus
<1> QED
  BY <1>1, <1>3

\* The overlay of the rows keeps the plans and reads a recorded step's newest row.
LEMMA RestoreSets ==
  ASSUME NEW st \in Store, NEW s \in AgentState
  PROVE  /\ RestoreExecutions(st, s).plans = s.plans
         /\ \A k \in Key : RestoreExecutions(st, s).execs[k] =
              IF Recorded(st, k) THEN st.newest[k].status ELSE s.execs[k]
  BY DEF RestoreExecutions, AgentState

\* An uncertain step is running or interrupted.
LEMMA UncertainStatus ==
  ASSUME NEW s, NEW k, IsFirstUncertain(s, k)
  PROVE  k \in Key /\ s.execs[k] \in {"running", "interrupted"}
  BY DEF IsFirstUncertain, IsFirst, WithStatus

\* What a resume that opens the graph has read and what it writes.
LEMMA ReopenedEffect ==
  ASSUME DInv, Reopened
  PROVE  /\ pc = "idle" /\ pc' = "starting" /\ registry = "running"
         /\ queue = <<>> /\ UNCHANGED <<queue, checkpoint, registry>>
         /\ CanResume
         /\ graph'.version = checkpoint.version
         /\ \/ store' = store
            \/ \E k \in Key : /\ IsFirstUncertain(Restored, k)
                              /\ store' = Insert(store, k, "interrupted", store.latest + 1)
         /\ \/ /\ graph'.status = "resuming"
               /\ graph'.context = RestoreContext(store, checkpoint.context)
            \/ /\ graph'.status = "blocked"
               /\ graph'.context = checkpoint.context
         /\ Done(graph') = WithStatus(Restored, "completed")
<1>1. /\ pc = "idle" /\ pc' = "starting" /\ registry = "running"
      /\ queue = <<>> /\ UNCHANGED <<queue, checkpoint, registry>>
      /\ CanResume
  BY DEF Reopened, ResumeContinue, ResumeRecover, ResumeFail, ResumeAbort, Reopening, Resuming,
         DInv, Control
<1>2. checkpoint \in GraphState /\ Restored \in AgentState /\ Stale \in AgentState
  BY StaleType DEF DInv, TypeOK
<1>3. WithStatus(Stale, "completed") = WithStatus(Restored, "completed")
  BY <1>2, MarkStaleSets DEF Stale
<1>4. ASSUME NEW s, graph'.state = s,
             WithStatus(s, "completed") = WithStatus(Restored, "completed"),
             graph'.status = "resuming", graph'.version = checkpoint.version,
             graph'.context = RestoreContext(store, checkpoint.context),
             store' = store \/ \E k \in Key : /\ IsFirstUncertain(Restored, k)
                                            /\ store' = RecordInterrupted(k)
      PROVE  /\ \/ store' = store
                \/ \E k \in Key : /\ IsFirstUncertain(Restored, k)
                                  /\ store' = Insert(store, k, "interrupted", store.latest + 1)
             /\ \/ /\ graph'.status = "resuming"
                   /\ graph'.context = RestoreContext(store, checkpoint.context)
                \/ /\ graph'.status = "blocked"
                   /\ graph'.context = checkpoint.context
             /\ graph'.version = checkpoint.version
             /\ Done(graph') = WithStatus(Restored, "completed")
  BY <1>4 DEF RecordInterrupted, Done
<1>5. ASSUME NEW k \in Key, store' = RecordInterrupted(k)
      PROVE  \/ store' = store
             \/ store' = Insert(store, k, "interrupted", store.latest + 1)
  BY <1>5 DEF RecordInterrupted
<1>6. CASE ResumeContinue
  <2>1. store' = store /\ graph' = ResumeInput(Stale, FALSE, checkpoint.attempt)
    BY <1>6 DEF ResumeContinue
  <2>2. /\ graph'.state = Stale /\ graph'.status = "resuming"
        /\ graph'.version = checkpoint.version
        /\ graph'.context = RestoreContext(store, checkpoint.context)
    BY <1>2, <2>1 DEF ResumeInput, GraphState
  <2> QED
    BY <1>1, <1>3, <1>4, <2>1, <2>2
<1>7. CASE ResumeRecover
  <2>1. PICK k \in Key : /\ IsFirstUncertain(Restored, k)
                         /\ store' = RecordInterrupted(k)
                         /\ graph' = ResumeInput(Stale, TRUE, store'.newest[k].attempt + 1)
    BY <1>7 DEF ResumeRecover
  <2>2. /\ graph'.state = Stale /\ graph'.status = "resuming"
        /\ graph'.version = checkpoint.version
        /\ graph'.context = RestoreContext(store, checkpoint.context)
    BY <1>2, <2>1 DEF ResumeInput, GraphState
  <2> QED
    BY <1>1, <1>3, <1>4, <2>1, <2>2
<1>8. CASE ResumeFail
  <2>1. PICK k \in Key :
          /\ IsFirstUncertain(Restored, k)
          /\ store' = RecordInterrupted(k)
          /\ graph' = ResumeInput(WithStepExecution(Stale, k, "failed"),
                                  WithStatus(Restored, "running") = {},
                                  store'.newest[k].attempt + 1)
    BY <1>8 DEF ResumeFail
  <2>2. Restored.execs[k] # "completed"
    BY <2>1, UncertainStatus
  <2>3. /\ WithStepExecution(Stale, k, "failed").execs[k] = "failed"
        /\ \A j \in Key : j # k => WithStepExecution(Stale, k, "failed").execs[j] = Stale.execs[j]
    BY <1>2, <2>1, WithStepExecutionSets DEF ExecutionStatus
  <2>4. WithStatus(WithStepExecution(Stale, k, "failed"), "completed")
          = WithStatus(Restored, "completed")
    BY <1>3, <2>1, <2>2, <2>3 DEF WithStatus
  <2>5. /\ graph'.state = WithStepExecution(Stale, k, "failed") /\ graph'.status = "resuming"
        /\ graph'.version = checkpoint.version
        /\ graph'.context = RestoreContext(store, checkpoint.context)
    BY <1>2, <2>1 DEF ResumeInput, GraphState
  <2> QED
    BY <1>1, <1>4, <2>1, <2>4, <2>5
<1>9. CASE ResumeAbort
  <2>1. PICK k \in Key : /\ IsFirstUncertain(Restored, k)
                         /\ store' = RecordInterrupted(k)
                         /\ graph' = [checkpoint EXCEPT !.state = Stale, !.status = "blocked"]
    BY <1>9 DEF ResumeAbort
  <2>2. /\ graph'.state = Stale /\ graph'.status = "blocked"
        /\ graph'.version = checkpoint.version /\ graph'.context = checkpoint.context
    BY <1>2, <2>1 DEF GraphState
  <2> QED
    BY <1>1, <1>3, <1>5, <2>1, <2>2 DEF Done
<1> QED
  BY <1>6, <1>7, <1>8, <1>9 DEF Reopened

\* What interrupt() reads and writes before its checkpoint.
LEMMA InterruptedEffect ==
  ASSUME DInv, Interrupted
  PROVE  /\ pc = "cancelled" /\ pc' = "interrupting" /\ registry = "running"
         /\ queue = <<>> /\ UNCHANGED <<queue, checkpoint, registry>>
         /\ \/ store' = store
            \/ \E k \in Key :
                 /\ IsFirstUncertain(checkpoint.state, k)
                 /\ store' = Insert(store, k, "interrupted", checkpoint.version + 1)
         /\ graph'.state = MarkStaleInterrupted(checkpoint.state)
         /\ graph'.version = checkpoint.version + 1
         /\ graph'.context = checkpoint.context
         /\ graph'.status = "interrupted"
         /\ Done(graph') = Done(checkpoint)
<1>1. /\ pc = "cancelled" /\ pc' = "interrupting" /\ registry = "running"
      /\ queue = <<>> /\ UNCHANGED <<queue, checkpoint, registry>>
      /\ graph' = InterruptedInput
  BY DEF Interrupted, InterruptRunning, InterruptIdleStep, Outer, DInv, Control
<1>2. \/ store' = store
      \/ \E k \in Key : /\ IsFirstUncertain(checkpoint.state, k)
                        /\ store' = Insert(store, k, "interrupted", checkpoint.version + 1)
  BY DEF Interrupted, InterruptRunning, InterruptIdleStep
<1>3. checkpoint \in GraphState /\ checkpoint.state \in AgentState
  BY GraphUpdates DEF DInv, TypeOK
<1>4. /\ graph'.state = MarkStaleInterrupted(checkpoint.state)
      /\ graph'.version = checkpoint.version + 1
      /\ graph'.context = checkpoint.context
      /\ graph'.status = "interrupted"
  BY <1>1, <1>3 DEF InterruptedInput, GraphState
<1>5. Done(graph') = Done(checkpoint)
  BY <1>3, <1>4, MarkStaleSets DEF Done
<1> QED
  BY <1>1, <1>2, <1>4, <1>5

\* What MarkRunning and ExecuteEnd do for the next step.
LEMMA WorkEffect ==
  ASSUME TypeOK, MarkRunning \/ ExecuteEnd
  PROVE  \E k \in Key, status \in ExecutionStatus \ {"interrupted"} :
           /\ \/ /\ pc = "mark_running" /\ pc' = "marked" /\ status = "running"
                 /\ graph.state.execs[k] # "failed"
                 /\ ~Collides(store, k, "running")
                 /\ graph'.context = graph.context
                 /\ graph'.active = graph.active
              \/ /\ pc = "executing" /\ pc' = "executed" /\ status \in {"completed", "failed"}
                 /\ ~graph'.active
                 /\ graph'.context = IF status = "completed" THEN graph.context \union {k}
                                                             ELSE graph.context
           /\ IsNextStep(graph.state, k)
           /\ store' = Insert(store, k, status, graph.version + 1)
           /\ graph'.state = WithStepExecution(graph.state, k, status)
           /\ graph'.version = graph.version + 1
           /\ graph'.status = graph.status
           /\ graph'.attempt = graph.attempt
           /\ UNCHANGED <<queue, checkpoint, registry>>
<1>1. graph \in GraphState
  BY DEF TypeOK
<1>2. CASE MarkRunning
  <2>1. PICK k \in Key :
          /\ IsNextStep(graph.state, k)
          /\ graph.state.execs[k] # "failed"
          /\ ~Collides(store, k, "running")
          /\ store' = Insert(store, k, "running", graph.version + 1)
          /\ graph' = [graph EXCEPT !.state = WithStepExecution(@, k, "running"),
                                    !.version = @ + 1]
    BY <1>2 DEF MarkRunning
  <2>2. /\ graph'.state = WithStepExecution(graph.state, k, "running")
        /\ graph'.version = graph.version + 1
        /\ graph'.status = graph.status /\ graph'.context = graph.context
        /\ graph'.active = graph.active /\ graph'.attempt = graph.attempt
    BY <1>1, <2>1 DEF GraphState
  <2> QED
    BY <1>2, <2>1, <2>2 DEF MarkRunning, ExecutionStatus, Outer
<1>3. CASE ExecuteEnd
  <2>1. PICK k \in Key, outcome \in {"completed", "failed"} :
          /\ IsNextStep(graph.state, k)
          /\ store' = Insert(store, k, outcome, graph.version + 1)
          /\ graph' = [graph EXCEPT
               !.state   = WithStepExecution(@, k, outcome),
               !.version = @ + 1,
               !.active  = FALSE,
               !.context = IF outcome = "completed" THEN @ \union {k} ELSE @]
    BY <1>3 DEF ExecuteEnd
  <2>2. /\ graph'.state = WithStepExecution(graph.state, k, outcome)
        /\ graph'.version = graph.version + 1
        /\ graph'.status = graph.status
        /\ ~graph'.active /\ graph'.attempt = graph.attempt
        /\ graph'.context = IF outcome = "completed" THEN graph.context \union {k}
                                                     ELSE graph.context
    BY <1>1, <2>1 DEF GraphState
  <2> QED
    BY <1>3, <2>1, <2>2 DEF ExecuteEnd, ExecutionStatus, Outer
<1> QED
  BY <1>2, <1>3

-----------------------------------------------------------------------------
(***************************************************************************)
(* Before the run, and the order of completions.                           *)
(***************************************************************************)
\* At first nothing is recorded, saved or completed.
LEMMA InitHistory == Init => HInv
<1> SUFFICES ASSUME Init PROVE HInv
  OBVIOUS
<1>1. DInv
  BY InitTypeOK, InitControl, InitJustified DEF DInv
<1>2. /\ pc = "idle" /\ graph = NoGraph /\ queue = <<>> /\ checkpoint = NoGraph
      /\ store = EmptyStore
  BY DEF Init
<1>3. /\ Saved = {NoGraph}
      /\ Done(NoGraph) = {}
      /\ NoGraph.context = {}
      /\ \A k \in Key : store.rows[k] = <<>> /\ store.newest[k] = NoRow
      /\ store.latest = 0
  BY <1>2 DEF Saved, Done, NoGraph, NewAgentState, WithStatus, EmptyStore
<1>4. DoneOrder /\ DoneRows
  BY <1>2, <1>3 DEF DoneOrder, DoneRows, NewestDone, InMemory
<1>5. Numbering /\ Attempts
  BY <1>2, <1>3
  DEF Numbering, Attempts, AttemptsAreNumbered, ExecutionIsRecorded, InGraph, Recorded, NoRow
<1>6. Contexts /\ Unstarted
  BY <1>2, <1>3 DEF Contexts, Unstarted, InGraph
<1> QED
  BY <1>1, <1>4, <1>5, <1>6 DEF HInv

\* A run that does not exist is not worked on.
LEMMA NextUnstarted == HInv /\ [Next]_vars => Unstarted'
<1> SUFFICES ASSUME HInv, [Next]_vars PROVE Unstarted'
  OBVIOUS
<1>1. DInv /\ TypeOK /\ Unstarted /\ (registry # "running" => pc = "idle")
  BY DEF HInv, DInv, Control
<1>2. CASE \E g \in GraphState, next \in Location : Returning(g, next)
  BY <1>1, <1>2 DEF Returning, InGraph, Unstarted
<1>3. CASE MarkRunning \/ ExecuteEnd
  BY <1>1, <1>3, WorkEffect DEF Unstarted
<1>4. CASE Save
  BY <1>1, <1>4 DEF Save, Outer, Unstarted
<1>5. CASE Forgetting
  BY <1>5 DEF Forgetting, Unstarted
<1>6. CASE Waiting
  BY <1>1, <1>6 DEF Waiting, Unstarted
<1>7. CASE \E viaRouter \in BOOLEAN : Start(viaRouter)
  BY <1>7 DEF Start, Unstarted
<1>8. CASE ResumeTerminal
  BY <1>8 DEF ResumeTerminal, Resuming, Unstarted
<1>9. CASE Reopened
  BY <1>1, <1>9, ReopenedEffect DEF Unstarted
<1>10. CASE Interrupted
  BY <1>1, <1>10, InterruptedEffect DEF Unstarted
<1>11. CASE InterruptSave
  BY <1>1, <1>11 DEF InterruptSave, Unstarted
<1> QED
  BY <1>1, <1>2, <1>3, <1>4, <1>5, <1>6, <1>7, <1>8, <1>9, <1>10, <1>11, StepEffect

\* A graph state's completions after the next step got its status.
LEMMA WorkDone ==
  ASSUME TypeOK, NEW k, NEW status \in ExecutionStatus, IsNextStep(graph.state, k),
         NEW h, h.state = WithStepExecution(graph.state, k, status)
  PROVE  /\ k \in Key /\ k \notin Done(graph)
         /\ Done(h) = IF status = "completed" THEN Done(graph) \union {k} ELSE Done(graph)
<1>1. graph.state \in AgentState
  BY GraphUpdates DEF TypeOK
<1>2. k \in Key /\ graph.state.execs[k] # "completed"
  BY <1>1, NextStepIsKey DEF IsNextStep
<1>3. /\ h.state.execs[k] = status
      /\ \A j \in Key : j # k => h.state.execs[j] = graph.state.execs[j]
  BY <1>1, <1>2, WithStepExecutionSets
<1> QED
  BY <1>2, <1>3 DEF Done, WithStatus

\* What a resume rebuilds has the completions of the checkpoint.
LEMMA RestoredDone ==
  ASSUME DInv, DoneRows
  PROVE  /\ Done(checkpoint) \subseteq WithStatus(Restored, "completed")
         /\ \A k \in WithStatus(Restored, "completed") : store.newest[k].status = "completed"
<1>1. store \in Store /\ checkpoint.state \in AgentState
  BY GraphUpdates DEF DInv, TypeOK
<1>2. \A k \in Key : Restored.execs[k] =
        IF Recorded(store, k) THEN store.newest[k].status ELSE checkpoint.state.execs[k]
  BY <1>1, RestoreSets DEF Restored
<1>3. \A k \in Done(checkpoint) : store.newest[k].status = "completed"
  BY DEF DoneRows, NewestDone, Saved
<1> QED
  BY <1>2, <1>3 DEF Done, WithStatus

\* The steps with a status only grow from the checkpoint along the queue to the
\* memory.
Ordered(status) ==
  /\ \A n \in DOMAIN queue : WithStatus(checkpoint.state, status) \subseteq WithStatus(queue[n].state, status)
  /\ \A m, n \in DOMAIN queue : m <= n =>
       WithStatus(queue[m].state, status) \subseteq WithStatus(queue[n].state, status)
  /\ InMemory => \A g \in Saved : WithStatus(g.state, status) \subseteq WithStatus(graph.state, status)

\* What returns, saves, forgets and waits keeps such an order; what works on a
\* step, or takes up the checkpoint again, must not lose a step.
LEMMA OrderKept ==
  ASSUME DInv, Unstarted, [Next]_vars, NEW status, Ordered(status), status # "absent",
         MarkRunning \/ ExecuteEnd =>
           WithStatus(graph.state, status) \subseteq WithStatus(graph'.state, status),
         Reopened \/ Interrupted =>
           WithStatus(checkpoint.state, status) \subseteq WithStatus(graph'.state, status)
  PROVE  Ordered(status)'
<1> DEFINE Of(g) == WithStatus(g.state, status)
<1>1. TypeOK /\ Control /\ queue \in Seq(GraphState)
  BY DEF DInv, TypeOK
<1>2. /\ \A n \in DOMAIN queue : Of(checkpoint) \subseteq Of(queue[n])
      /\ \A m, n \in DOMAIN queue : m <= n => Of(queue[m]) \subseteq Of(queue[n])
      /\ InMemory => \A g \in Saved : Of(g) \subseteq Of(graph)
  BY DEF Ordered
<1>3. ASSUME \A n \in DOMAIN queue' : Of(checkpoint') \subseteq Of(queue'[n]),
             \A m, n \in DOMAIN queue' : m <= n => Of(queue'[m]) \subseteq Of(queue'[n]),
             InMemory' => \A g \in Saved' : Of(g) \subseteq Of(graph')
      PROVE  Ordered(status)'
  BY <1>3 DEF Ordered
<1>4. \A g, h : g.state.execs = h.state.execs => Of(g) = Of(h)
  BY DEF WithStatus
<1>5. Of(NoGraph) = {}
  BY DEF NoGraph, NewAgentState, WithStatus
<1> HIDE DEF Of
<1>6. ASSUME UNCHANGED <<queue, checkpoint>>, InMemory' => \A g \in Saved : Of(g) \subseteq Of(graph')
      PROVE  Ordered(status)'
  BY <1>2, <1>3, <1>6 DEF Saved
<1>7. ASSUME queue = <<>>, UNCHANGED <<queue, checkpoint>>, Of(checkpoint) \subseteq Of(graph')
      PROVE  Ordered(status)'
  BY <1>6, <1>7, SavedAtRest
<1>8. CASE \E g \in GraphState, next \in Location : Returning(g, next)
  <2>1. PICK g \in GraphState, next \in Location : Returning(g, next)
    BY <1>8
  <2>2. /\ Of(g) = Of(graph) /\ graph' = g
        /\ \A h \in Saved : Of(h) \subseteq Of(graph)
        /\ UNCHANGED checkpoint
    BY <1>2, <1>4, <2>1 DEF Returning, Return, InMemory, InGraph
  <2>3. /\ Saved' = Saved \union {g}
        /\ Len(queue) \in Nat
        /\ DOMAIN queue = 1 .. Len(queue)
        /\ DOMAIN queue' = 1 .. Len(queue) + 1
        /\ queue'[Len(queue) + 1] = g
        /\ \A n \in DOMAIN queue : queue'[n] = queue[n]
    BY <1>1, <2>1, ReturnSaved DEF Returning
  <2>4. \A n \in DOMAIN queue' : n \notin DOMAIN queue => queue'[n] = g
    BY <2>3
  <2>5. checkpoint \in Saved /\ \A n \in DOMAIN queue : queue[n] \in Saved
    BY DEF Saved
  <2>6. \A n \in DOMAIN queue' : Of(checkpoint) \subseteq Of(queue'[n])
    BY <1>2, <2>2, <2>3, <2>4, <2>5
  <2>7. ASSUME NEW m \in DOMAIN queue', NEW n \in DOMAIN queue', m <= n
        PROVE  Of(queue'[m]) \subseteq Of(queue'[n])
    <3>1. CASE n \in DOMAIN queue
      <4>1. m \in DOMAIN queue
        BY <2>3, <2>7, <3>1
      <4> QED
        BY <1>2, <2>3, <2>7, <3>1, <4>1
    <3>2. CASE n \notin DOMAIN queue
      <4>1. queue'[m] = g \/ queue'[m] \in Saved
        BY <2>3, <2>4, <2>5
      <4> QED
        BY <2>2, <2>4, <3>2, <4>1
    <3> QED
      BY <3>1, <3>2
  <2> QED
    BY <1>3, <2>2, <2>3, <2>6, <2>7
<1>9. CASE MarkRunning \/ ExecuteEnd
  <2>1. pc \in {"mark_running", "executing"} /\ UNCHANGED <<queue, checkpoint>>
    BY <1>1, <1>9, WorkEffect
  <2>2. Of(graph) \subseteq Of(graph')
    BY <1>9 DEF Of
  <2>3. \A g \in Saved : Of(g) \subseteq Of(graph)
    BY <1>2, <2>1 DEF InMemory
  <2> QED
    BY <1>6, <2>1, <2>2, <2>3
<1>10. CASE Save
  <2>1. /\ Saved' \subseteq Saved
        /\ checkpoint' = queue[1] /\ 1 \in DOMAIN queue
        /\ \A n \in DOMAIN queue' : n + 1 \in DOMAIN queue /\ queue'[n] = queue[n + 1]
        /\ UNCHANGED <<pc, graph>>
    BY <1>1, <1>10, SaveSaved
  <2>2. /\ \A n \in DOMAIN queue : n \in Nat /\ n >= 1
        /\ \A n \in DOMAIN queue' : n \in Nat
    <3>1. queue' \in Seq(GraphState)
      BY <1>1, <1>10 DEF Save
    <3> QED
      BY <1>1, <3>1
  <2>3. \A n \in DOMAIN queue' : Of(checkpoint') \subseteq Of(queue'[n])
    BY <1>2, <2>1, <2>2
  <2>4. \A m, n \in DOMAIN queue' : m <= n => Of(queue'[m]) \subseteq Of(queue'[n])
    BY <1>2, <2>1, <2>2
  <2>5. InMemory' => \A g \in Saved' : Of(g) \subseteq Of(graph')
    BY <1>2, <2>1 DEF InMemory
  <2> QED
    BY <1>3, <2>3, <2>4, <2>5
<1>11. CASE Forgetting
  <2>1. ~InMemory' /\ UNCHANGED checkpoint /\ queue' \in {queue, <<>>}
    BY <1>11 DEF Forgetting, InMemory
  <2>2. CASE queue' = queue
    BY <1>6, <2>1, <2>2
  <2>3. CASE queue' = <<>>
    BY <1>3, <2>1, <2>3
  <2> QED
    BY <2>1, <2>2, <2>3
<1>12. CASE Waiting
  BY <1>2, <1>6, <1>12 DEF Waiting, InMemory, InGraph
<1>13. CASE \E viaRouter \in BOOLEAN : Start(viaRouter)
  BY <1>5, <1>7, <1>13 DEF Start, Unstarted
<1>14. CASE ResumeTerminal
  BY <1>1, <1>7, <1>14 DEF ResumeTerminal, Resuming, Control
<1>15. CASE Reopened
  BY <1>7, <1>15, ReopenedEffect DEF Of
<1>16. CASE Interrupted
  BY <1>7, <1>16, InterruptedEffect DEF Of
<1>17. CASE InterruptSave
  <2>1. queue' = <<>> /\ ~InMemory'
    BY <1>1, <1>17 DEF InterruptSave, Leave, Control, InMemory
  <2> QED
    BY <1>3, <2>1
<1> QED
  BY <1>8, <1>9, <1>10, <1>11, <1>12, <1>13, <1>14, <1>15, <1>16, <1>17, StepEffect

\* Every step keeps the order of the completions.
LEMMA NextDoneOrder == HInv /\ [Next]_vars => DoneOrder'
<1> SUFFICES ASSUME HInv, [Next]_vars PROVE DoneOrder'
  OBVIOUS
<1>1. DInv /\ TypeOK /\ Unstarted /\ DoneRows /\ Ordered("completed")
  BY DEF HInv, DInv, DoneOrder, Ordered, Done
<1>2. MarkRunning \/ ExecuteEnd => Done(graph) \subseteq Done(graph')
  <2>1. ASSUME MarkRunning \/ ExecuteEnd
        PROVE  \E k \in Key, status \in ExecutionStatus :
                 /\ IsNextStep(graph.state, k)
                 /\ graph'.state = WithStepExecution(graph.state, k, status)
    BY <1>1, <2>1, WorkEffect
  <2> QED
    BY <1>1, <2>1, WorkDone
<1>3. Reopened \/ Interrupted => Done(checkpoint) \subseteq Done(graph')
  BY <1>1, ReopenedEffect, InterruptedEffect, RestoredDone
<1>4. Ordered("completed")'
  BY <1>1, <1>2, <1>3, OrderKept DEF Done
<1> QED
  BY <1>4 DEF DoneOrder, Ordered, Done

-----------------------------------------------------------------------------
(***************************************************************************)
(* The rows behind completions.                                            *)
(***************************************************************************)
\* The newest row of a step to which a graph state gives a status says so too.
NewestSays(status, g, st) ==
  \A k \in WithStatus(g.state, status) : st.newest[k].status = status

\* What leaves the rows alone keeps what they say of the graph states.
LEMMA RowsKept ==
  ASSUME DInv, [Next]_vars, NEW status, status # "absent",
         \A g \in Saved \union {graph} : NewestSays(status, g, store),
         MarkRunning \/ ExecuteEnd \/ Reopened \/ Interrupted =>
           \A g \in Saved \union {graph'} : NewestSays(status, g, store')
  PROVE  \A g \in Saved' \union {graph'} : NewestSays(status, g, store')
<1>1. TypeOK /\ Control /\ NewestSays(status, NoGraph, store)
  BY DEF DInv, NewestSays, NoGraph, NewAgentState, WithStatus
<1>2. ASSUME Saved' \subseteq Saved \union {graph}, graph' \in Saved \union {graph, NoGraph},
             UNCHANGED store
      PROVE  \A g \in Saved' \union {graph'} : NewestSays(status, g, store')
  BY <1>1, <1>2
<1>3. CASE \E g \in GraphState, next \in Location : Returning(g, next)
  <2>1. PICK g \in GraphState, next \in Location : Returning(g, next)
    BY <1>3
  <2>2. /\ graph' = g /\ UNCHANGED store
        /\ WithStatus(g.state, status) = WithStatus(graph.state, status)
    BY <2>1 DEF Returning, Return, WithStatus
  <2>3. Saved' = Saved \union {g}
    BY <1>1, <2>1, ReturnSaved DEF Returning
  <2> QED
    BY <2>2, <2>3 DEF NewestSays
<1>4. CASE Save
  BY <1>1, <1>2, <1>4, SaveSaved
<1>5. CASE Forgetting
  BY <1>2, <1>5 DEF Forgetting, Saved
<1>6. CASE Waiting
  BY <1>2, <1>6 DEF Waiting, Saved
<1>7. CASE \E viaRouter \in BOOLEAN : Start(viaRouter)
  <2>1. NewestSays(status, graph', store') /\ Saved' = Saved /\ UNCHANGED store
    BY <1>7 DEF Start, NewestSays, NoGraph, NewAgentState, WithStatus, Saved
  <2> QED
    BY <2>1
<1>8. CASE ResumeTerminal
  BY <1>2, <1>8 DEF ResumeTerminal, Resuming, Saved
<1>9. CASE InterruptSave
  <2>1. queue = <<>> /\ UNCHANGED <<queue, store>> /\ checkpoint' = graph /\ graph' = NoGraph
    BY <1>1, <1>9 DEF InterruptSave, Leave, Control
  <2>2. Saved' = {graph}
    BY <2>1 DEF Saved
  <2> QED
    BY <1>2, <2>1, <2>2
<1>10. CASE MarkRunning \/ ExecuteEnd \/ Reopened \/ Interrupted
  <2>1. UNCHANGED <<queue, checkpoint>>
    BY <1>1, <1>10, WorkEffect, ReopenedEffect, InterruptedEffect
  <2> QED
    BY <1>10, <2>1 DEF Saved
<1> QED
  BY <1>3, <1>4, <1>5, <1>6, <1>7, <1>8, <1>9, <1>10, StepEffect

\* A row of a step to which a graph state does not give the status takes nothing
\* away.
LEMMA NewestSaysStill ==
  ASSUME NEW st \in Store, NEW k \in Key, NEW row \in ExecutionStatus, NEW version \in Nat,
         NEW status, NEW g, NewestSays(status, g, st), k \notin WithStatus(g.state, status)
  PROVE  NewestSays(status, g, Insert(st, k, row, version))
<1>1. \A j \in Key : j # k => Insert(st, k, row, version).newest[j] = st.newest[j]
  BY InsertNewest
<1>2. \A j \in WithStatus(g.state, status) : j \in Key /\ j # k
  BY DEF WithStatus
<1> QED
  BY <1>1, <1>2 DEF NewestSays

\* Every step keeps what is completed newest in the rows.
LEMMA NextDoneRows == HInv /\ [Next]_vars => DoneRows'
<1> SUFFICES ASSUME HInv, [Next]_vars PROVE DoneRows'
  OBVIOUS
<1>1. /\ DInv /\ TypeOK /\ Control /\ DoneOrder /\ DoneRows /\ Numbering
      /\ store \in Store /\ store.latest \in Nat /\ graph.version \in Nat
      /\ checkpoint.version \in Nat
  BY GraphUpdates DEF HInv, DInv, TypeOK, Store
<1>2. \A g, st : NewestDone(g, st) <=> NewestSays("completed", g, st)
  BY DEF NewestDone, NewestSays, Done
<1>3. ASSUME MarkRunning \/ ExecuteEnd
      PROVE  \A g \in Saved \union {graph'} : NewestDone(g, store')
  <2>1. PICK k \in Key, status \in ExecutionStatus :
          /\ pc \in {"mark_running", "executing"}
          /\ status = "completed" => pc = "executing"
          /\ IsNextStep(graph.state, k)
          /\ store' = Insert(store, k, status, graph.version + 1)
          /\ graph'.state = WithStepExecution(graph.state, k, status)
    BY <1>1, <1>3, WorkEffect
  <2>2. /\ k \notin Done(graph)
        /\ Done(graph') = IF status = "completed" THEN Done(graph) \union {k} ELSE Done(graph)
    BY <1>1, <2>1, WorkDone
  <2>3. \A g \in Saved : Done(g) \subseteq Done(graph)
    BY <1>1, <2>1 DEF DoneOrder, InMemory
  <2>4. \A g \in Saved \union {graph} : NewestDone(g, store')
    BY <1>1, <1>2, <2>1, <2>2, <2>3, NewestSaysStill DEF DoneRows, Done
  <2>5. status = "completed" => store'.newest[k].status = "completed"
    <3>1. store.newest[k].version <= store.latest
      BY <1>1 DEF Numbering
    <3>2. store.newest[k].version \in Nat
      BY <1>1 DEF Store, Row, NoRow
    <3>3. status = "completed" => store.latest <= graph.version + 1
      BY <1>1, <2>1 DEF Numbering, InGraph
    <3>4. status = "completed" => graph.version + 1 >= store.newest[k].version
      BY <1>1, <3>1, <3>2, <3>3
    <3> QED
      BY <1>1, <2>1, <3>4, InsertNewest
  <2> QED
    BY <2>2, <2>4, <2>5 DEF NewestDone
<1>4. ASSUME Reopened
      PROVE  \A g \in Saved \union {graph'} : NewestDone(g, store')
  <2>1. /\ Saved = {checkpoint}
        /\ Done(graph') = WithStatus(Restored, "completed")
        /\ \/ store' = store
           \/ \E k \in Key : /\ IsFirstUncertain(Restored, k)
                             /\ store' = Insert(store, k, "interrupted", store.latest + 1)
    BY <1>1, <1>4, ReopenedEffect, SavedAtRest
  <2>2. /\ Done(checkpoint) \subseteq Done(graph')
        /\ NewestDone(graph', store) /\ NewestDone(checkpoint, store)
    BY <1>1, <2>1, RestoredDone DEF NewestDone, DoneRows
  <2>3. ASSUME NEW k \in Key, IsFirstUncertain(Restored, k),
               store' = Insert(store, k, "interrupted", store.latest + 1)
        PROVE  NewestDone(graph', store') /\ NewestDone(checkpoint, store')
    <3>1. k \notin Done(graph') /\ k \notin Done(checkpoint)
      BY <2>1, <2>2, <2>3, UncertainStatus DEF WithStatus
    <3> QED
      BY <1>1, <1>2, <2>2, <2>3, <3>1, NewestSaysStill DEF Done, ExecutionStatus
  <2> QED
    BY <2>1, <2>2, <2>3
<1>5. ASSUME Interrupted
      PROVE  \A g \in Saved \union {graph'} : NewestDone(g, store')
  <2>1. /\ Saved = {checkpoint}
        /\ Done(graph') = Done(checkpoint)
        /\ \/ store' = store
           \/ \E k \in Key : /\ IsFirstUncertain(checkpoint.state, k)
                             /\ store' = Insert(store, k, "interrupted", checkpoint.version + 1)
    BY <1>1, <1>5, InterruptedEffect, SavedAtRest
  <2>2. NewestDone(checkpoint, store)
    BY <1>1, <2>1 DEF DoneRows
  <2>3. ASSUME NEW k \in Key, IsFirstUncertain(checkpoint.state, k),
               store' = Insert(store, k, "interrupted", checkpoint.version + 1)
        PROVE  NewestDone(checkpoint, store')
    <3>1. k \notin Done(checkpoint)
      BY <2>3, UncertainStatus DEF Done, WithStatus
    <3> QED
      BY <1>1, <1>2, <2>2, <2>3, <3>1, NewestSaysStill DEF Done, ExecutionStatus
  <2>4. NewestDone(checkpoint, store')
    BY <2>1, <2>2, <2>3
  <2> QED
    BY <2>1, <2>4 DEF NewestDone
<1>6. \A g \in Saved' \union {graph'} : NewestSays("completed", g, store')
  BY <1>1, <1>2, <1>3, <1>4, <1>5, RowsKept DEF DoneRows
<1> QED
  BY <1>2, <1>6 DEF DoneRows, NewestDone, NewestSays, Done

\* An insertion with a version that is not 0 keeps the versions in order.
LEMMA InsertNumbering ==
  ASSUME NEW st \in Store, NEW k \in Key, NEW status \in ExecutionStatus, NEW version \in Nat,
         version > 0,
         \A j \in Key : st.newest[j].version <= st.latest,
         \A j \in Key : Recorded(st, j) => st.latest > 0
  PROVE  LET new == Insert(st, k, status, version)
         IN  /\ \A j \in Key : new.newest[j].version <= new.latest
             /\ \A j \in Key : Recorded(new, j) => new.latest > 0
             /\ new.latest \in Nat
             /\ new.latest = IF version > st.latest THEN version ELSE st.latest
<1> DEFINE new == Insert(st, k, status, version)
<1>1. st.latest \in Nat /\ \A j \in Key : st.newest[j].version \in Nat
  BY DEF Store, Row, NoRow
<1>2. /\ new.latest = IF version > st.latest THEN version ELSE st.latest
      /\ new.newest[k].version = version \/ new.newest[k] = st.newest[k]
      /\ \A j \in Key : j # k => new.newest[j] = st.newest[j]
  BY InsertNewest
<1> HIDE DEF new
<1>3. \A j \in Key : new.newest[j].version <= new.latest
  BY <1>1, <1>2
<1>4. new.latest > 0 /\ new.latest \in Nat
  BY <1>1, <1>2
<1> QED
  BY <1>2, <1>3, <1>4 DEF new

\* Every step keeps the versions in memory up with the rows.
LEMMA NextNumbering == HInv /\ [Next]_vars => Numbering'
<1> SUFFICES ASSUME HInv, [Next]_vars PROVE Numbering'
  OBVIOUS
<1>1. /\ DInv /\ TypeOK /\ Control /\ Numbering
      /\ store \in Store /\ store.latest \in Nat /\ graph.version \in Nat
      /\ checkpoint.version \in Nat
  BY GraphUpdates DEF HInv, DInv, TypeOK, Store
<1>2. ASSUME UNCHANGED store, pc' \notin InGraph PROVE Numbering'
  BY <1>1, <1>2 DEF Numbering, ExecutionIsRecorded, InGraph
<1>3. CASE \E g \in GraphState, next \in Location : Returning(g, next)
  <2>1. PICK g \in GraphState, next \in Location : Returning(g, next)
    BY <1>3
  <2> QED
    BY <1>1, <2>1 DEF Returning, Return, Numbering, ExecutionIsRecorded, InGraph
<1>4. CASE MarkRunning \/ ExecuteEnd
  <2>1. PICK k \in Key, status \in ExecutionStatus :
          /\ pc \in {"mark_running", "executing"} /\ pc' \in {"marked", "executed"}
          /\ store' = Insert(store, k, status, graph.version + 1)
          /\ graph'.version = graph.version + 1
    BY <1>1, <1>4, WorkEffect
  <2>2. /\ \A j \in Key : store'.newest[j].version <= store'.latest
        /\ \A j \in Key : Recorded(store', j) => store'.latest > 0
        /\ store'.latest = IF graph.version + 1 > store.latest THEN graph.version + 1
                                                              ELSE store.latest
    BY <1>1, <2>1, InsertNumbering DEF Numbering
  <2>3. store.latest <= graph.version + 1
    BY <1>1, <2>1 DEF Numbering, InGraph
  <2>4. store'.latest = graph'.version
    BY <1>1, <2>1, <2>2, <2>3
  <2> QED
    BY <1>1, <2>1, <2>2, <2>4 DEF Numbering, ExecutionIsRecorded
<1>5. CASE Save
  BY <1>1, <1>5, SaveSaved DEF Numbering, ExecutionIsRecorded
<1>6. CASE Forgetting
  BY <1>2, <1>6 DEF Forgetting, InGraph
<1>7. CASE Waiting
  BY <1>1, <1>7 DEF Waiting, Numbering, ExecutionIsRecorded, InGraph
<1>8. CASE \E viaRouter \in BOOLEAN : Start(viaRouter)
  <2>1. /\ store = EmptyStore /\ store' = store /\ pc' = "starting"
        /\ graph'.version = 0
    BY <1>8 DEF Start, HInv, Unstarted, NoGraph
  <2>2. store.latest <= graph'.version + 1
    BY <2>1 DEF EmptyStore
  <2> QED
    BY <1>1, <2>1, <2>2 DEF Numbering, ExecutionIsRecorded
<1>9. CASE ResumeTerminal
  BY <1>2, <1>9 DEF ResumeTerminal, InGraph
<1>10. CASE Reopened
  <2>1. /\ pc' = "starting" /\ graph'.version = checkpoint.version
        /\ CanResume
        /\ \/ store' = store
           \/ \E k \in Key : store' = Insert(store, k, "interrupted", store.latest + 1)
    BY <1>1, <1>10, ReopenedEffect
  <2>2. store.latest <= checkpoint.version
    BY <1>1, <2>1 DEF CanResume, Confirmed
  <2>3. CASE store' = store
    BY <1>1, <2>1, <2>2, <2>3 DEF Numbering, ExecutionIsRecorded
  <2>4. ASSUME NEW k \in Key, store' = Insert(store, k, "interrupted", store.latest + 1)
        PROVE  Numbering'
    <3>1. /\ \A j \in Key : store'.newest[j].version <= store'.latest
          /\ \A j \in Key : Recorded(store', j) => store'.latest > 0
          /\ store'.latest = store.latest + 1
      BY <1>1, <2>4, InsertNumbering DEF Numbering, ExecutionStatus
    <3> QED
      BY <1>1, <2>1, <2>2, <3>1 DEF Numbering, ExecutionIsRecorded
  <2> QED
    BY <2>1, <2>3, <2>4
<1>11. CASE Interrupted
  <2>1. /\ pc' = "interrupting"
        /\ \/ store' = store
           \/ \E k \in Key : store' = Insert(store, k, "interrupted", checkpoint.version + 1)
    BY <1>1, <1>11, InterruptedEffect
  <2>2. CASE store' = store
    BY <1>2, <2>1, <2>2 DEF InGraph
  <2>3. ASSUME NEW k \in Key, store' = Insert(store, k, "interrupted", checkpoint.version + 1)
        PROVE  Numbering'
    <3>1. /\ \A j \in Key : store'.newest[j].version <= store'.latest
          /\ \A j \in Key : Recorded(store', j) => store'.latest > 0
      BY <1>1, <2>3, InsertNumbering DEF Numbering, ExecutionStatus
    <3> QED
      BY <2>1, <3>1 DEF Numbering, ExecutionIsRecorded, InGraph
  <2> QED
    BY <2>1, <2>2, <2>3
<1>12. CASE InterruptSave
  BY <1>2, <1>12 DEF InterruptSave, Leave, InGraph
<1> QED
  BY <1>1, <1>3, <1>4, <1>5, <1>6, <1>7, <1>8, <1>9, <1>10, <1>11, <1>12, StepEffect

-----------------------------------------------------------------------------
(***************************************************************************)
(* Attempts and context.                                                   *)
(***************************************************************************)
\* What AttemptsAreNumbered says of one row of a step.
RowFits(rows, n) ==
  /\ rows[n].status = "running" =>
       rows[n].attempt = IF n = 1 THEN 1 ELSE rows[n - 1].attempt + 1
  /\ rows[n].status \in {"completed", "failed"} =>
       /\ n > 1
       /\ rows[n - 1].status = "running"
       /\ rows[n - 1].attempt = rows[n].attempt

RowsFit(st) == \A k \in Key : \A n \in DOMAIN st.rows[k] : RowFits(st.rows[k], n)

\* A running row that follows no running one and an outcome that follows one
\* keep the attempts numbered.
LEMMA InsertAttempts ==
  ASSUME NEW st \in Store, RowsFit(st), NEW k \in Key, NEW status \in ExecutionStatus,
         NEW version \in Nat,
         status = "running" => ~Recorded(st, k) \/ LastInserted(st, k).status # "running",
         status = "interrupted" \/ status = "running"
           \/ (Recorded(st, k) /\ LastInserted(st, k).status = "running")
  PROVE  RowsFit(Insert(st, k, status, version))
<1> DEFINE new == Insert(st, k, status, version)
<1>1. /\ Len(st.rows[k]) \in Nat
      /\ DOMAIN st.rows[k] = 1 .. Len(st.rows[k])
      /\ DOMAIN new.rows[k] = 1 .. Len(st.rows[k]) + 1
      /\ \A n \in DOMAIN st.rows[k] : new.rows[k][n] = st.rows[k][n]
      /\ new.rows[k][Len(st.rows[k]) + 1] = NewRow(st, k, status, version)
      /\ \A j \in Key : j # k => new.rows[j] = st.rows[j]
  BY InsertRows
<1> HIDE DEF new
<1>2. PICK l \in Nat : l = Len(st.rows[k])
  BY <1>1
<1>3. ASSUME NEW n \in 1 .. l PROVE RowFits(new.rows[k], n)
  <2>1. RowFits(st.rows[k], n) /\ new.rows[k][n] = st.rows[k][n]
    BY <1>1, <1>2 DEF RowsFit
  <2>2. n > 1 => n - 1 \in 1 .. l
    OBVIOUS
  <2>3. n > 1 => new.rows[k][n - 1] = st.rows[k][n - 1]
    BY <1>1, <1>2, <2>2
  <2>4. n = 1 \/ n > 1
    OBVIOUS
  <2> QED
    BY <2>1, <2>3, <2>4 DEF RowFits
<1>4. RowFits(new.rows[k], l + 1)
  <2> DEFINE row == NewRow(st, k, status, version)
  <2>1. new.rows[k][l + 1] = row /\ row.status = status /\ row.attempt = NextAttempt(st, k)
    BY <1>1, <1>2 DEF NewRow
  <2>2. l > 0 => new.rows[k][l] = LastInserted(st, k)
    BY <1>1, <1>2 DEF LastInserted
  <2>3. Recorded(st, k) <=> l > 0
    <3>1. st.rows[k] \in Seq(Row)
      BY DEF Store
    <3> QED
      BY <3>1, <1>2, EmptySeq DEF Recorded
  <2> HIDE DEF row
  <2>4. CASE status = "running"
    <3>1. row.attempt = IF l + 1 = 1 THEN 1 ELSE new.rows[k][l].attempt + 1
      BY <2>1, <2>2, <2>3, <2>4, <1>2 DEF NextAttempt
    <3> QED
      BY <2>1, <2>4, <3>1, <1>2 DEF RowFits
  <2>5. CASE status = "interrupted"
    BY <2>1, <2>5 DEF RowFits
  <2>6. CASE status # "running" /\ status # "interrupted"
    <3>1. l > 0 /\ new.rows[k][l].status = "running" /\ row.attempt = new.rows[k][l].attempt
      BY <2>1, <2>2, <2>3, <2>6 DEF NextAttempt
    <3>2. l + 1 > 1 /\ (l + 1) - 1 = l
      BY <1>2, <3>1
    <3> QED
      BY <2>1, <2>6, <3>1, <3>2 DEF RowFits
  <2> QED
    BY <2>4, <2>5, <2>6
<1>5. \A n \in 1 .. l + 1 : n \in 1 .. l \/ n = l + 1
  OBVIOUS
<1>6. \A n \in DOMAIN new.rows[k] : RowFits(new.rows[k], n)
  BY <1>1, <1>2, <1>3, <1>4, <1>5
<1>7. RowsFit(new)
  BY <1>1, <1>6 DEF RowsFit
<1> QED
  BY <1>7 DEF new

\* The property is about the rows only.
LEMMA AttemptsOfRows == AttemptsAreNumbered <=> RowsFit(store)
  BY DEF AttemptsAreNumbered, RowsFit, RowFits

\* Every step keeps the attempts numbered and the step at work in an attempt.
LEMMA NextAttempts == HInv /\ [Next]_vars => Attempts'
<1> SUFFICES ASSUME HInv, [Next]_vars PROVE Attempts'
  OBVIOUS
<1>1. /\ DInv /\ TypeOK /\ Control /\ Attempts /\ RowsFit(store)
      /\ store \in Store /\ store.latest \in Nat /\ graph.version \in Nat
      /\ checkpoint.version \in Nat /\ graph.state \in AgentState
  BY GraphUpdates, AttemptsOfRows DEF HInv, DInv, TypeOK, Store, Attempts
<1>2. ASSUME RowsFit(store)', pc' \notin {"marked", "execute", "executing"} PROVE Attempts'
  <2>1. AttemptsAreNumbered'
    BY <1>2 DEF AttemptsAreNumbered, RowsFit, RowFits
  <2> QED
    BY <1>2, <2>1 DEF Attempts
<1>3. ASSUME NEW k \in Key, NEW version \in Nat PROVE RowsFit(Insert(store, k, "interrupted", version))
  BY <1>1, InsertAttempts DEF ExecutionStatus
<1>4. CASE \E g \in GraphState, next \in Location : Returning(g, next)
  <2>1. PICK g \in GraphState, next \in Location : Returning(g, next)
    BY <1>4
  <2>2. CASE next = "execute"
    BY <1>1, <2>1, <2>2 DEF Returning, Return, Attempts, AttemptsAreNumbered
  <2>3. CASE next # "execute"
    BY <1>1, <1>2, <2>1, <2>3 DEF Returning, Return
  <2> QED
    BY <2>2, <2>3
<1>5. CASE MarkRunning \/ ExecuteEnd
  <2>1. PICK k \in Key, status \in ExecutionStatus :
          /\ \/ /\ pc = "mark_running" /\ pc' = "marked" /\ status = "running"
                /\ ~Collides(store, k, "running")
             \/ pc = "executing" /\ pc' = "executed" /\ status \in {"completed", "failed"}
          /\ IsNextStep(graph.state, k)
          /\ store' = Insert(store, k, status, graph.version + 1)
          /\ graph'.state = WithStepExecution(graph.state, k, status)
    BY <1>1, <1>5, WorkEffect
  <2>2. CASE pc = "mark_running"
    <3>1. status = "running" /\ pc' = "marked" /\ ~Collides(store, k, "running")
      BY <2>1, <2>2
    <3>2. ~Recorded(store, k) \/ LastInserted(store, k).status # "running"
      <4> SUFFICES ASSUME Recorded(store, k), LastInserted(store, k).status = "running"
                   PROVE  FALSE
        OBVIOUS
      <4>1. store.rows[k] \in Seq(Row) /\ store.rows[k] # <<>>
        BY <1>1 DEF Store, Recorded
      <4>2. Len(store.rows[k]) \in DOMAIN store.rows[k]
        BY <4>1, EmptySeq
      <4>3. NextAttempt(store, k) = store.rows[k][Len(store.rows[k])].attempt
        BY DEF NextAttempt, LastInserted
      <4> QED
        BY <3>1, <4>2, <4>3 DEF Collides, LastInserted
    <3>3. RowsFit(store')
      BY <1>1, <2>1, <3>1, <3>2, InsertAttempts
    <3>4. Recorded(store', k) /\ LastInserted(store', k).status = "running"
      <4> DEFINE new == Insert(store, k, "running", graph.version + 1)
      <4>1. /\ Recorded(new, k)
            /\ LastInserted(new, k) = NewRow(store, k, "running", graph.version + 1)
        BY <1>1, InsertRows DEF ExecutionStatus
      <4>2. store' = new
        BY <2>1, <3>1
      <4> HIDE DEF new
      <4> QED
        BY <4>1, <4>2 DEF NewRow
    <3>5. \A j \in Key : IsNextStep(graph'.state, j) => j = k
      <4>1. \A j : IsNextStep(graph'.state, j) => IsNextStep(graph.state, j)
        BY <1>1, <2>1, <3>1, NextStepStays DEF ExecutionStatus
      <4> QED
        BY <1>1, <2>1, <4>1, NextStepUnique
    <3>6. AttemptsAreNumbered'
      BY <3>3 DEF AttemptsAreNumbered, RowsFit, RowFits
    <3> QED
      BY <3>4, <3>5, <3>6 DEF Attempts
  <2>3. CASE pc = "executing"
    <3>1. Recorded(store, k) /\ LastInserted(store, k).status = "running"
      BY <1>1, <2>1, <2>3 DEF Attempts
    <3>2. RowsFit(store')
      BY <1>1, <2>1, <2>3, <3>1, InsertAttempts
    <3> QED
      BY <1>2, <2>1, <2>3, <3>2
  <2> QED
    BY <2>1, <2>2, <2>3
<1>6. CASE Save
  BY <1>1, <1>6, SaveSaved DEF Attempts, AttemptsAreNumbered
<1>7. CASE Forgetting
  BY <1>1, <1>2, <1>7 DEF Forgetting
<1>8. CASE Waiting
  BY <1>1, <1>8 DEF Waiting, Attempts, AttemptsAreNumbered
<1>9. CASE \E viaRouter \in BOOLEAN : Start(viaRouter)
  BY <1>1, <1>2, <1>9 DEF Start
<1>10. CASE ResumeTerminal
  BY <1>1, <1>2, <1>10 DEF ResumeTerminal
<1>11. CASE Reopened
  <2>1. /\ pc' = "starting"
        /\ \/ store' = store
           \/ \E k \in Key : store' = Insert(store, k, "interrupted", store.latest + 1)
    BY <1>1, <1>11, ReopenedEffect
  <2>2. RowsFit(store')
    BY <1>1, <1>3, <2>1
  <2> QED
    BY <1>2, <2>1, <2>2
<1>12. CASE Interrupted
  <2>1. /\ pc' = "interrupting"
        /\ \/ store' = store
           \/ \E k \in Key : store' = Insert(store, k, "interrupted", checkpoint.version + 1)
    BY <1>1, <1>12, InterruptedEffect
  <2>2. RowsFit(store')
    BY <1>1, <1>3, <2>1
  <2> QED
    BY <1>2, <2>1, <2>2
<1>13. CASE InterruptSave
  BY <1>1, <1>2, <1>13 DEF InterruptSave, Leave
<1> QED
  BY <1>1, <1>4, <1>5, <1>6, <1>7, <1>8, <1>9, <1>10, <1>11, <1>12, <1>13, StepEffect

\* Every step keeps the contexts complete and honest.
LEMMA NextContexts == HInv /\ [Next]_vars => Contexts'
<1> SUFFICES ASSUME HInv, [Next]_vars PROVE Contexts'
  OBVIOUS
<1>1. /\ DInv /\ TypeOK /\ Control /\ Justified /\ Contexts /\ Numbering
      /\ store \in Store /\ store.latest \in Nat /\ graph.version \in Nat
      /\ checkpoint.version \in Nat /\ graph.state \in AgentState
  BY GraphUpdates DEF HInv, DInv, TypeOK, Store
<1>2. ASSUME Saved' \subseteq Saved \union {graph},
             graph'.context \subseteq EverCompleted(store'),
             EverCompleted(store) \subseteq EverCompleted(store'),
             pc' \in InGraph /\ graph'.status = "resuming" => Done(graph') \subseteq graph'.context
      PROVE  Contexts'
  BY <1>1, <1>2 DEF Contexts
<1>3. graph.context \subseteq EverCompleted(store) /\ NoGraph.context = {}
  BY <1>1 DEF Contexts, NoGraph
<1>4. CASE \E g \in GraphState, next \in Location : Returning(g, next)
  <2>1. PICK g \in GraphState, next \in Location : Returning(g, next)
    BY <1>4
  <2>2. /\ Done(g) = Done(graph) /\ graph' = g /\ g.context = graph.context
        /\ pc' \in InGraph => g.status = graph.status
        /\ pc \in InGraph /\ UNCHANGED <<checkpoint, store>>
    BY <2>1 DEF Returning, Return, Done, WithStatus, InGraph
  <2>3. Saved' = Saved \union {g}
    BY <1>1, <2>1, ReturnSaved DEF Returning
  <2> QED
    BY <1>1, <2>2, <2>3 DEF Contexts
<1>5. CASE MarkRunning \/ ExecuteEnd
  <2>1. PICK k \in Key, status \in ExecutionStatus :
          /\ pc \in {"mark_running", "executing"}
          /\ IsNextStep(graph.state, k)
          /\ store' = Insert(store, k, status, graph.version + 1)
          /\ graph'.state = WithStepExecution(graph.state, k, status)
          /\ graph'.status = graph.status
          /\ graph'.context = IF status = "completed" THEN graph.context \union {k}
                                                      ELSE graph.context
          /\ UNCHANGED <<queue, checkpoint, registry>>
    BY <1>1, <1>5, WorkEffect
  <2>2. Done(graph') = IF status = "completed" THEN Done(graph) \union {k} ELSE Done(graph)
    BY <1>1, <2>1, WorkDone
  <2>3. /\ EverCompleted(store) \subseteq EverCompleted(store')
        /\ status = "completed" => k \in EverCompleted(store')
    BY <1>1, <2>1, InsertRows DEF EverCompleted
  <2>4. graph.status = "resuming" => Done(graph) \subseteq graph.context
    BY <1>1, <2>1 DEF Contexts, InGraph
  <2>5. graph'.context \subseteq EverCompleted(store')
    BY <1>3, <2>1, <2>3
  <2>6. graph'.status = "resuming" => Done(graph') \subseteq graph'.context
    BY <2>1, <2>2, <2>4
  <2>7. Saved' = Saved
    BY <2>1 DEF Saved
  <2> QED
    BY <1>2, <2>3, <2>5, <2>6, <2>7
<1>6. CASE Save
  BY <1>1, <1>2, <1>6, SaveSaved DEF Contexts
<1>7. CASE Forgetting
  BY <1>2, <1>3, <1>7 DEF Forgetting, Saved, InGraph
<1>8. CASE Waiting
  BY <1>1, <1>8 DEF Waiting, Saved, Contexts, InGraph
<1>9. CASE \E viaRouter \in BOOLEAN : Start(viaRouter)
  <2>1. /\ graph'.context = {} /\ Done(graph') = {}
        /\ Saved' = Saved /\ store' = store
    BY <1>9 DEF Start, Done, NoGraph, NewAgentState, WithStatus, Saved
  <2> QED
    BY <1>2, <2>1
<1>10. CASE ResumeTerminal
  <2>1. graph' = checkpoint /\ pc' = "finish" /\ Saved' = Saved /\ store' = store
    BY <1>10 DEF ResumeTerminal, Resuming, Saved
  <2>2. checkpoint.context \subseteq EverCompleted(store)
    BY <1>1 DEF Contexts, Saved
  <2> QED
    BY <1>2, <2>1, <2>2 DEF InGraph
<1>11. CASE Reopened
  <2>1. /\ UNCHANGED <<queue, checkpoint, registry>>
        /\ \/ store' = store
           \/ \E k \in Key : store' = Insert(store, k, "interrupted", store.latest + 1)
        /\ \/ graph'.context = RestoreContext(store, checkpoint.context)
           \/ graph'.status = "blocked" /\ graph'.context = checkpoint.context
        /\ Done(graph') = WithStatus(Restored, "completed")
    BY <1>1, <1>11, ReopenedEffect
  <2>2. EverCompleted(store) \subseteq EverCompleted(store')
    BY <1>1, <2>1, InsertRows DEF ExecutionStatus
  <2>3. checkpoint.context \subseteq EverCompleted(store)
    BY <1>1 DEF Contexts, Saved
  <2>4. graph'.context \subseteq EverCompleted(store)
    BY <2>1, <2>3 DEF RestoreContext
  <2>5. \A k \in Done(graph') : k \in EverCompleted(store)
    <3>1. DoneRows
      BY DEF HInv
    <3>2. \A k \in WithStatus(Restored, "completed") :
            k \in Key /\ store.newest[k].status = "completed"
      BY <1>1, <3>1, RestoredDone DEF WithStatus
    <3>3. \A k \in Key : store.newest[k].status = "completed" => HasRow(store, k, "completed")
      BY <1>1 DEF Justified, RowsBacked
    <3> QED
      BY <2>1, <3>2, <3>3 DEF EverCompleted
  <2>6. store.latest = 0 => EverCompleted(store) = {}
    <3>1. ASSUME NEW k \in EverCompleted(store) PROVE store.latest > 0
      <4>1. k \in Key /\ store.rows[k] # <<>>
        BY <3>1 DEF EverCompleted, HasRow
      <4> QED
        BY <1>1, <4>1 DEF Numbering, Recorded
    <3> QED
      BY <1>1, <3>1
  <2>7. graph'.status # "blocked" => Done(graph') \subseteq graph'.context
    BY <2>1, <2>5, <2>6 DEF RestoreContext
  <2> QED
    BY <1>2, <2>1, <2>2, <2>4, <2>7 DEF Saved
<1>12. CASE Interrupted
  <2>1. /\ pc' = "interrupting" /\ UNCHANGED <<queue, checkpoint, registry>>
        /\ graph'.context = checkpoint.context
        /\ \/ store' = store
           \/ \E k \in Key : store' = Insert(store, k, "interrupted", checkpoint.version + 1)
    BY <1>1, <1>12, InterruptedEffect
  <2>2. EverCompleted(store) \subseteq EverCompleted(store')
    BY <1>1, <2>1, InsertRows DEF ExecutionStatus
  <2>3. checkpoint.context \subseteq EverCompleted(store)
    BY <1>1 DEF Contexts, Saved
  <2> QED
    BY <1>2, <2>1, <2>2, <2>3 DEF Saved, InGraph
<1>13. CASE InterruptSave
  <2>1. queue = <<>> /\ UNCHANGED <<queue, store>> /\ checkpoint' = graph /\ graph' = NoGraph
        /\ pc' = "idle"
    BY <1>1, <1>13 DEF InterruptSave, Leave, Control
  <2>2. Saved' = {graph}
    BY <2>1 DEF Saved
  <2> QED
    BY <1>2, <1>3, <2>1, <2>2 DEF InGraph
<1> QED
  BY <1>1, <1>4, <1>5, <1>6, <1>7, <1>8, <1>9, <1>10, <1>11, <1>12, <1>13, StepEffect

-----------------------------------------------------------------------------
(***************************************************************************)
(* The theorems.                                                           *)
(***************************************************************************)
\* HInv is kept by every step.
LEMMA NextHistory == HInv /\ [Next]_vars => HInv'
<1> SUFFICES ASSUME HInv, [Next]_vars PROVE HInv'
  OBVIOUS
<1>1. DInv'
  BY NextTypeOK, NextControl, NextJustified DEF HInv, DInv
<1> QED
  BY <1>1, NextUnstarted, NextDoneOrder, NextDoneRows, NextNumbering, NextAttempts, NextContexts
  DEF HInv

\* HInv holds in every reachable state.
THEOREM HistoryKept == Spec => []HInv
<1> QED
  BY InitHistory, NextHistory, PTL DEF Spec

\* An executor is only ever given a step whose predecessors in the revision all
\* have a completed row, whatever lies between those steps.
THEOREM StepsKeepOrder == Spec => []StepsInPlanOrder
<1>1. HInv => StepsInPlanOrder
  <2> SUFFICES ASSUME HInv, NEW k \in Key, StepAtWork(k),
                      NEW j \in Key, j[1] = k[1], Before(graph.state, j, k)
               PROVE  HasRow(store, j, "completed")
    BY DEF StepsInPlanOrder
  <2> DEFINE r == Revision(graph.state)
             steps == graph.state.plans[r]
  <2>1. graph.state \in AgentState /\ IsNextStep(graph.state, k) /\ Backed(graph, store)
    BY GraphUpdates DEF HInv, DInv, TypeOK, StepAtWork, Justified
  <2>2. r \in DOMAIN graph.state.plans
    BY <2>1, NextStepIsKey
  <2>3. PICK n \in DOMAIN steps :
          /\ k = <<r, steps[n]>>
          /\ \A m \in 1 .. n - 1 : graph.state.execs[<<r, steps[m]>>] = "completed"
    BY <2>1, NextStepIsKey
  <2>4. /\ DOMAIN steps = 1 .. Len(steps)
        /\ \A m, i \in DOMAIN steps : steps[m] = steps[i] => m = i
    BY <2>1, <2>2, RevisionIsPlan
  <2>5. /\ \A m \in 1 .. Len(steps) : steps[m] \in StepId
        /\ j = <<j[1], j[2]>> /\ j[1] = r /\ r \in Nat
    BY <2>1, <2>2, <2>3, <2>4, RevisionIsPlan DEF Key
  <2>6. PICK m \in DOMAIN steps, i \in DOMAIN steps :
          m < i /\ steps[m] = j[2] /\ steps[i] = k[2]
    BY <2>3, <2>5 DEF Before
  <2>7. i = n
    BY <2>3, <2>4, <2>6
  <2>8. m \in 1 .. n - 1
    BY <2>4, <2>6, <2>7
  <2>9. graph.state.execs[j] = "completed"
    BY <2>3, <2>5, <2>6, <2>8
  <2> QED
    BY <2>1, <2>9 DEF Backed, WithStatus
<1> QED
  BY <1>1, HistoryKept, PTL

\* A resume finds every completion of the checkpoint again.
THEOREM CompletionsSurvive == Spec => []CompletionsSurviveRestart
<1>1. HInv => CompletionsSurviveRestart
  BY RestoredDone DEF HInv, CompletionsSurviveRestart, Done
<1> QED
  BY <1>1, HistoryKept, PTL

\* No later checkpoint takes a completion back.
THEOREM CompletionsAreFinal == Spec => CheckpointedCompletionIsFinal
<1> DEFINE Final == \A k \in Key : checkpoint.state.execs[k] = "completed"
                                     => checkpoint'.state.execs[k] = "completed"
<1>1. HInv /\ [Next]_vars => Final
  <2> SUFFICES ASSUME HInv, [Next]_vars PROVE Final
    OBVIOUS
  <2>1. DInv /\ TypeOK /\ Control /\ DoneOrder
    BY DEF HInv, DInv
  <2>2. ASSUME Done(checkpoint) \subseteq Done(checkpoint') PROVE Final
    BY <2>2 DEF Done, WithStatus
  <2>3. CASE checkpoint' = checkpoint
    BY <2>3
  <2>4. CASE Save
    BY <2>1, <2>2, <2>4, SaveSaved DEF DoneOrder
  <2>5. CASE InterruptSave
    <3>1. Done(checkpoint) \subseteq Done(graph) /\ checkpoint' = graph
      BY <2>1, <2>5 DEF DoneOrder, InMemory, InterruptSave, Saved
    <3> QED
      BY <2>2, <3>1
  <2>6. \/ Save \/ InterruptSave \/ checkpoint' = checkpoint
    BY <2>1, StepEffect, WorkEffect, ReopenedEffect, InterruptedEffect
    DEF Returning, Forgetting, Waiting, Start, ResumeTerminal, Resuming
  <2> QED
    BY <2>3, <2>4, <2>5, <2>6
<1>2. HInv /\ [Next]_vars =>
        [\A k \in Key : checkpoint.state.execs[k] = "completed"
                          => checkpoint'.state.execs[k] = "completed"]_vars
  BY <1>1
<1> QED
  BY <1>2, HistoryKept, PTL DEF Spec, CheckpointedCompletionIsFinal

\* While a step is marked or executed the version in memory is that of the rows.
THEOREM ExecutionRecorded == Spec => []ExecutionIsRecorded
<1>1. HInv => ExecutionIsRecorded
  BY DEF HInv, Numbering
<1> QED
  BY <1>1, HistoryKept, PTL

\* The attempts of a step are numbered without a gap and outcomes belong to
\* the attempt that ran.
THEOREM AttemptsNumbered == Spec => []AttemptsAreNumbered
<1>1. HInv => AttemptsAreNumbered
  BY DEF HInv, Attempts
<1> QED
  BY <1>1, HistoryKept, PTL

\* An executor's context holds every completed step of its state, and only
\* steps that completed.
THEOREM ContextTrustworthy == Spec => []ContextIsTrustworthy
<1>1. HInv => ContextIsTrustworthy
  BY DEF HInv, DInv, Contexts, Control, InGraph, ContextIsTrustworthy, Done, EverCompleted
<1> QED
  BY <1>1, HistoryKept, PTL

-----------------------------------------------------------------------------
(***************************************************************************)
(* Where the stores agree.  A resume reads a checkpoint and the rows that  *)
(* were written at different times, so what it rebuilds is only as good as *)
(* the version's claim that the two belong together.  The rest of this     *)
(* module shows what a common version means when no resume is cancelled    *)
(* while it reads (fault "abandon", which breaks it: run CancelledResumes).*)
(*                                                                         *)
(* A --recovery fail decision is in no row, so the rows of a refused step  *)
(* and of the step found running beside it differ from the state for a     *)
(* while; Refused, Ended and Misplaced say how.                            *)
(***************************************************************************)
FailDecided == "fail" \in Decisions

Superseded(s, k) == k[1] < Revision(s)

\* Only the next step is uncertain, and a step of an earlier revision at most
\* because another one was refused in its place.
OneAtWork(s) ==
  /\ \A k \in WithStatus(s, "running") : IsNextStep(s, k)
  /\ \A k \in WithStatus(s, "interrupted") :
       IsNextStep(s, k) \/ (FailDecided /\ Superseded(s, k))

\* How a state and the newest row of a step may stand to each other: they say
\* the same,
Same(s, st, k) == st.newest[k].status = s.execs[k]

\* the rows know of an attempt that the state does not,
Begun(s, st, k) ==
  /\ IsNextStep(s, k)
  /\ s.execs[k] \in {"absent", "interrupted"}
  /\ st.newest[k].status \in {"running", "interrupted"}

\* or of what became of the attempt,
Working(s, st, k) ==
  /\ IsNextStep(s, k)
  /\ s.execs[k] = "running"
  /\ st.newest[k].status # "absent"

\* the operator's decision is in the state alone,
Refused(s, st, k) ==
  /\ FailDecided
  /\ s.execs[k] = "failed"
  /\ st.newest[k].status = "interrupted"
  /\ IsNextStep(s, k) \/ Superseded(s, k)

\* an outcome is in the rows alone, the interrupted row having gone to another,
Ended(s, st, k) ==
  /\ FailDecided
  /\ IsNextStep(s, k)
  /\ s.execs[k] = "interrupted"
  /\ st.newest[k].status \in {"completed", "failed"}

\* or nothing but the running row is there, for the same reason.
Misplaced(s, st, k) ==
  /\ FailDecided
  /\ IsNextStep(s, k)
  /\ s.execs[k] = "interrupted"
  /\ st.newest[k].status = "running"

\* What a common version stands for, what holds of the newest checkpoint while
\* a process works, and of the graph in its memory.
Agree(s, st) ==
  \A k \in Key : Same(s, st, k) \/ Begun(s, st, k) \/ Refused(s, st, k) \/ Ended(s, st, k)

Behind(s, st) ==
  \A k \in Key : \/ Same(s, st, k) \/ Begun(s, st, k) \/ Refused(s, st, k)
                 \/ Ended(s, st, k) \/ Working(s, st, k)

Current(s, st) == \A k \in Key : Same(s, st, k) \/ Refused(s, st, k) \/ Misplaced(s, st, k)

\* The newest row of a step is the last inserted one, and attempts never fall.
RowOrder(st) ==
  \A k \in Key :
    /\ ~Recorded(st, k) => st.newest[k] = NoRow
    /\ Recorded(st, k) => st.newest[k] = LastInserted(st, k)
    /\ \A m, n \in DOMAIN st.rows[k] : m <= n => st.rows[k][m].attempt <= st.rows[k][n].attempt

OneUncertain ==
  /\ \A g \in Saved : OneAtWork(g.state)
  /\ pc \in InGraph \union {"interrupting"} => OneAtWork(graph.state)

\* A step is running exactly where the nodes work on it; elsewhere the memory
\* is the checkpoint last returned, and its version is the largest.
Places ==
  /\ pc \in InGraph => (WithStatus(graph.state, "running") # {}
                          <=> pc \in {"marked", "execute", "executing"})
  /\ pc \in InGraph \ {"starting", "marked", "executed"} => graph = NewestSaved
  /\ pc \in InGraph => \A g \in Saved : g.version <= graph.version

Agreement ==
  /\ \A g \in Saved : Confirmed(store, g.version) => Agree(g.state, store)
  /\ pc = "interrupting" /\ Confirmed(store, graph.version) => Agree(graph.state, store)
  /\ pc \in InGraph => Current(graph.state, store)
  /\ pc \in InGraph \union {"finish", "cancelled"} =>
       /\ store.latest <= NewestSaved.version + 1
       /\ Behind(NewestSaved.state, store)

\* A step with an interrupted row is up again only under the marker.
Recovering ==
  pc \in InGraph /\ graph.status = "resuming" =>
    \A k \in Key :
      /\ IsNextStep(graph.state, k)
      /\ HasRow(store, k, "interrupted")
      /\ graph.state.execs[k] \in {"running", "interrupted"}
      => graph.active \/ Misplaced(graph.state, store, k)

Agreeing == RowOrder(store) /\ OneUncertain /\ Places /\ Agreement /\ Recovering

AInv == HInv /\ Agreeing

-----------------------------------------------------------------------------
\* A row whose version is not below the newest one's becomes the newest, and
\* the order of the rows is kept.
LEMMA InsertOrder ==
  ASSUME NEW st \in Store, RowOrder(st), NEW k \in Key, NEW status \in ExecutionStatus,
         NEW version \in Nat, version >= st.newest[k].version
  PROVE  LET new == Insert(st, k, status, version)
         IN  /\ RowOrder(new)
             /\ new.newest[k].status = status
             /\ \A j \in Key : j # k => new.newest[j] = st.newest[j]
<1> DEFINE new == Insert(st, k, status, version)
           row == NewRow(st, k, status, version)
           l   == Len(st.rows[k])
<1>1. /\ new.newest[k] = row /\ row.status = status
      /\ \A j \in Key : j # k => new.newest[j] = st.newest[j]
  BY InsertNewest
<1>2. /\ l \in Nat
      /\ DOMAIN st.rows[k] = 1 .. l
      /\ DOMAIN new.rows[k] = 1 .. l + 1
      /\ \A n \in DOMAIN st.rows[k] : new.rows[k][n] = st.rows[k][n]
      /\ new.rows[k][l + 1] = row
      /\ LastInserted(new, k) = row
      /\ Recorded(new, k)
      /\ \A j \in Key : j # k => /\ new.rows[j] = st.rows[j]
                                 /\ Recorded(new, j) <=> Recorded(st, j)
                                 /\ LastInserted(new, j) = LastInserted(st, j)
  BY InsertRows
<1>3. st.rows[k] \in Seq(Row) /\ \A n \in DOMAIN st.rows[k] : st.rows[k][n].attempt \in Nat
  <2>1. st.rows[k] \in Seq(Row)
    BY DEF Store
  <2>2. \A n \in DOMAIN st.rows[k] : st.rows[k][n] \in Row
    BY <2>1
  <2> QED
    BY <2>1, <2>2 DEF Row
<1>4. \A n \in DOMAIN st.rows[k] : st.rows[k][n].attempt <= row.attempt
  <2> SUFFICES ASSUME NEW n \in DOMAIN st.rows[k]
               PROVE  st.rows[k][n].attempt <= NextAttempt(st, k)
    BY DEF NewRow
  <2>1. n \in 1 .. l /\ l \in 1 .. l /\ Recorded(st, k)
    BY <1>2, <1>3 DEF Recorded
  <2>2. st.rows[k][n].attempt <= st.rows[k][l].attempt
    BY <1>2, <2>1 DEF RowOrder
  <2>3. st.rows[k][l].attempt <= NextAttempt(st, k)
    BY <1>2, <1>3, <2>1 DEF NextAttempt, LastInserted
  <2>4. NextAttempt(st, k) \in Nat
    BY NextAttemptIsNat
  <2> QED
    BY <1>2, <1>3, <2>1, <2>2, <2>3, <2>4
<1> HIDE DEF new, row, l
<1>5. row.attempt \in Nat
  BY NextAttemptIsNat DEF row, NewRow
<1>6. ASSUME NEW m \in DOMAIN new.rows[k], NEW n \in DOMAIN new.rows[k], m <= n
      PROVE  new.rows[k][m].attempt <= new.rows[k][n].attempt
  <2>1. CASE n \in DOMAIN st.rows[k]
    BY <1>2, <1>6, <2>1 DEF RowOrder
  <2>2. CASE n = l + 1
    BY <1>2, <1>4, <1>5, <1>6, <2>2
  <2> QED
    BY <1>2, <2>1, <2>2
<1>7. RowOrder(new)
  BY <1>1, <1>2, <1>6 DEF RowOrder
<1> QED
  BY <1>1, <1>7 DEF new

\* An unrecorded step has no row and a recorded one a status.
LEMMA NewestStatus ==
  ASSUME NEW st \in Store, RowOrder(st), NEW k \in Key
  PROVE  /\ st.newest[k].status = "absent" <=> ~Recorded(st, k)
         /\ st.newest[k].status \in ExecutionStatus \union {"absent"}
         /\ ~Recorded(st, k) => \A status : ~HasRow(st, k, status)
<1>1. st.newest[k] \in Row \union {NoRow} /\ st.rows[k] \in Seq(Row)
  BY DEF Store
<1>2. Recorded(st, k) => LastInserted(st, k) \in Row
  BY <1>1 DEF Recorded, LastInserted
<1>3. st.newest[k].status = "absent" <=> ~Recorded(st, k)
  BY <1>1, <1>2 DEF RowOrder, Row, NoRow, ExecutionStatus
<1>4. ~Recorded(st, k) => \A status : ~HasRow(st, k, status)
  BY <1>1 DEF Recorded, HasRow
<1> QED
  BY <1>1, <1>3, <1>4 DEF Row, NoRow

\* The memory agrees with the rows more closely than the checkpoints need to.
LEMMA CurrentAgrees ==
  ASSUME NEW s, NEW st, Current(s, st)
  PROVE  Agree(s, st) /\ Behind(s, st)
  BY DEF Current, Agree, Behind, Misplaced, Begun

LEMMA AgreeIsBehind ==
  ASSUME NEW s, NEW st, Agree(s, st)
  PROVE  Behind(s, st)
  BY DEF Agree, Behind

\* The next step is a step of the last revision.
LEMMA NextStepRevision ==
  ASSUME NEW s \in AgentState, NEW k, IsNextStep(s, k)
  PROVE  k \in Key /\ k[1] = Revision(s) /\ ~Superseded(s, k)
<1>1. k \in Key /\ k[1] = Revision(s)
  BY NextStepIsKey
<1>2. k[1] \in Nat
  BY <1>1, RevisionAssumption DEF Key
<1> QED
  BY <1>1, <1>2 DEF Superseded

\* A new plan is made when no step is uncertain but those given up before.
LEMMA PlanAgrees ==
  ASSUME NEW s \in AgentState, NEW p \in Plans, Revision(s) < MaxRevision,
         s.plans = <<>> \/ FailedNext(s),
         OneAtWork(s), NEW st, Current(s, st)
  PROVE  /\ OneAtWork(WithPlan(s, p))
         /\ Current(WithPlan(s, p), st)
         /\ WithPlan(s, p).execs = s.execs
         /\ \A k : IsNextStep(WithPlan(s, p), k)
              => WithPlan(s, p).execs[k] \notin {"running", "interrupted"}
<1> DEFINE t == WithPlan(s, p)
<1>1. /\ t \in AgentState /\ t.execs = s.execs /\ Revision(s) \in Nat
      /\ Revision(t) = Revision(s) + 1
  BY WithPlanAppends
<1>2. \A k : IsNextStep(s, k) => s.execs[k] = "failed"
  BY NextStepUnique DEF FailedNext, WithStatus, IsNextStep
<1>3. /\ \A k : IsNextStep(s, k) => k \in Key /\ k[1] = Revision(s)
      /\ \A k : IsNextStep(t, k) => k \in Key /\ k[1] = Revision(s) + 1
  BY <1>1, NextStepRevision
<1>4. \A k \in Key : k[1] \in Nat
  BY RevisionAssumption DEF Key
<1> HIDE DEF t
<1>5. \A k \in Key : Superseded(s, k) \/ IsNextStep(s, k) => Superseded(t, k)
  BY <1>1, <1>3, <1>4 DEF Superseded
<1>6. OneAtWork(t)
  BY <1>1, <1>2, <1>5 DEF OneAtWork, WithStatus
<1>7. Current(t, st)
  BY <1>1, <1>2, <1>5 DEF Current, Same, Refused, Misplaced
<1>8. \A k : IsNextStep(t, k) => t.execs[k] \notin {"running", "interrupted"}
  <2> SUFFICES ASSUME NEW k, IsNextStep(t, k), t.execs[k] \in {"running", "interrupted"}
               PROVE  FALSE
    OBVIOUS
  <2>1. k \in Key /\ k[1] = Revision(s) + 1
    BY <1>3
  <2>2. IsNextStep(s, k) \/ Superseded(s, k)
    BY <1>1, <2>1 DEF OneAtWork, WithStatus
  <2> QED
    BY <1>1, <1>3, <2>1, <2>2 DEF Superseded
<1> QED
  BY <1>1, <1>6, <1>7, <1>8 DEF t

\* What a node returns keeps the agreement.
LEMMA ReturnAgrees ==
  ASSUME AInv, NEW g \in GraphState, NEW next \in Location, Returning(g, next)
  PROVE  Agreeing'
<1>1. /\ HInv /\ DInv /\ TypeOK /\ Control /\ Numbering
      /\ RowOrder(store) /\ OneUncertain /\ Places /\ Agreement /\ Recovering
  BY DEF AInv, Agreeing, HInv, DInv
<1>2. /\ pc \in InGraph \ {"execute", "executing"}
      /\ next \in {"plan", "mark_running", "execute", "replan", "complete", "blocked", "finish"}
      /\ next = "execute" <=> pc = "marked"
      /\ g.version = graph.version /\ g.active = graph.active
      /\ g.state.execs = graph.state.execs
      /\ g.status = graph.status \/ next = "finish"
      /\ UNCHANGED <<checkpoint, store, registry>>
  BY DEF Returning
<1>3. /\ pc' = next /\ graph' = g /\ NewestSaved' = g
      /\ Saved' = Saved \union {g}
  BY <1>1, ReturnNewest, ReturnSaved DEF Returning
<1>4. graph.state \in AgentState /\ graph.version \in Nat /\ store.latest \in Nat
  BY <1>1, GraphUpdates DEF TypeOK, Store
<1>5. OneAtWork(graph.state) /\ Current(graph.state, store)
  BY <1>1, <1>2 DEF OneUncertain, Agreement
<1>6. /\ OneAtWork(g.state) /\ Current(g.state, store)
      /\ g.state # graph.state =>
           \A k : IsNextStep(g.state, k) => g.state.execs[k] \notin {"running", "interrupted"}
  <2>1. CASE g.state = graph.state
    BY <1>5, <2>1
  <2>2. CASE g.state # graph.state
    <3>1. PICK p \in Plans : /\ g.state = WithPlan(graph.state, p)
                             /\ Revision(graph.state) < MaxRevision
                             /\ graph.state.plans = <<>> \/ pc = "replan"
      BY <2>2 DEF Returning
    <3>2. graph.state.plans = <<>> \/ FailedNext(graph.state)
      BY <1>1, <3>1 DEF Control
    <3> QED
      BY <1>4, <1>5, <3>1, <3>2, PlanAgrees
  <2> QED
    BY <2>1, <2>2
<1>7. Agree(g.state, store) /\ Behind(g.state, store)
  BY <1>6, CurrentAgrees
<1>8. OneUncertain'
  BY <1>1, <1>3, <1>6 DEF OneUncertain
<1>9. Places'
  <2>1. WithStatus(g.state, "running") = WithStatus(graph.state, "running")
    BY <1>2 DEF WithStatus
  <2>2. \A h \in Saved' : h.version <= graph'.version
    BY <1>1, <1>2, <1>3, <1>4 DEF Places
  <2> QED
    BY <1>1, <1>2, <1>3, <2>1, <2>2 DEF Places, InGraph
<1>10. Agreement'
  <2>1. \A h \in Saved' : Confirmed(store', h.version) => Agree(h.state, store')
    BY <1>1, <1>2, <1>3, <1>7 DEF Agreement
  <2>2. store.latest <= graph.version + 1
    BY <1>1, <1>2 DEF Numbering
  <2> QED
    BY <1>2, <1>3, <1>6, <1>7, <2>1, <2>2 DEF Agreement
<1>11. Recovering'
  <2> SUFFICES ASSUME pc' \in InGraph, graph'.status = "resuming", NEW k \in Key,
                      IsNextStep(g.state, k), HasRow(store, k, "interrupted"),
                      g.state.execs[k] \in {"running", "interrupted"}
               PROVE  g.active \/ Misplaced(g.state, store, k)
    BY <1>2, <1>3 DEF Recovering
  <2>1. g.state = graph.state
    BY <1>6
  <2>2. graph.status = "resuming"
    BY <1>2, <1>3 DEF InGraph
  <2> QED
    BY <1>1, <1>2, <2>1, <2>2 DEF Recovering
<1> QED
  BY <1>1, <1>2, <1>8, <1>9, <1>10, <1>11 DEF Agreeing

\* The next step is the only one at work.
LEMMA OnlyNextAtWork ==
  ASSUME NEW s \in AgentState, OneAtWork(s), NEW k, IsNextStep(s, k), NEW j \in Key, j # k
  PROVE  /\ ~IsNextStep(s, j)
         /\ s.execs[j] # "running"
         /\ s.execs[j] = "interrupted" => FailDecided /\ Superseded(s, j)
  BY NextStepUnique DEF OneAtWork, WithStatus

\* An insertion adds no row of another status.
LEMMA InsertAddsOne ==
  ASSUME NEW st \in Store, NEW k \in Key, NEW status \in ExecutionStatus, NEW version \in Nat,
         NEW other, other # status, HasRow(Insert(st, k, status, version), k, other)
  PROVE  HasRow(st, k, other)
<1> DEFINE new == Insert(st, k, status, version)
           l   == Len(st.rows[k])
<1>1. /\ l \in Nat
      /\ DOMAIN st.rows[k] = 1 .. l
      /\ DOMAIN new.rows[k] = 1 .. l + 1
      /\ \A n \in DOMAIN st.rows[k] : new.rows[k][n] = st.rows[k][n]
      /\ new.rows[k][l + 1] = NewRow(st, k, status, version)
  BY InsertRows
<1>2. NewRow(st, k, status, version).status = status
  BY DEF NewRow
<1> HIDE DEF new, l
<1>3. PICK n \in DOMAIN new.rows[k] : new.rows[k][n].status = other
  BY DEF HasRow, new
<1>4. n \in DOMAIN st.rows[k]
  BY <1>1, <1>2, <1>3
<1> QED
  BY <1>1, <1>3, <1>4 DEF HasRow

\* The newest row of step k, and no other, now has the status.
Records(st, new, k, status) ==
  /\ new.newest[k].status = status
  /\ \A j \in Key : j # k => new.newest[j] = st.newest[j]

\* After a row of a new version of its step, a state that gives the next step
\* the row's status is current.
LEMMA WorkedState ==
  ASSUME NEW s \in AgentState, OneAtWork(s), NEW k, IsNextStep(s, k),
         NEW status \in ExecutionStatus \ {"interrupted"},
         NEW st, NEW new, Current(s, st), Records(st, new, k, status)
  PROVE  /\ OneAtWork(WithStepExecution(s, k, status))
         /\ Current(WithStepExecution(s, k, status), new)
         /\ WithStatus(WithStepExecution(s, k, status), "running")
              = IF status = "running" THEN {k} ELSE {}
         /\ \A j \in Key : j # k => Same(s, new, j) \/ Refused(s, new, j)
<1> DEFINE t == WithStepExecution(s, k, status)
<1>1. k \in Key /\ status \in ExecutionStatus
  BY NextStepIsKey DEF ExecutionStatus
<1>2. /\ t \in AgentState /\ t.plans = s.plans /\ t.execs[k] = status
      /\ \A j \in Key : j # k => t.execs[j] = s.execs[j]
  BY <1>1, WithStepExecutionSets
<1>3. status # "completed" => IsNextStep(t, k)
  BY NextStepStays DEF ExecutionStatus
<1> HIDE DEF t
<1>4. \A j : Superseded(s, j) <=> Superseded(t, j)
  BY <1>2 DEF Superseded, Revision
<1>5. \A j \in Key : j # k => /\ ~IsNextStep(s, j)
                              /\ s.execs[j] # "running"
                              /\ s.execs[j] = "interrupted" => FailDecided /\ Superseded(s, j)
  BY OnlyNextAtWork
<1>6. \A j \in Key : j # k => Same(s, new, j) \/ Refused(s, new, j)
  BY <1>5 DEF Records, Current, Same, Refused, Misplaced
<1>7. \A j \in Key : j # k => Same(t, new, j) \/ Refused(t, new, j)
  BY <1>2, <1>4, <1>5, <1>6 DEF Same, Refused
<1>8. Current(t, new)
  BY <1>1, <1>2, <1>7 DEF Records, Current, Same
<1>9. OneAtWork(t)
  BY <1>1, <1>2, <1>3, <1>4, <1>5 DEF OneAtWork, WithStatus
<1>10. WithStatus(t, "running") = IF status = "running" THEN {k} ELSE {}
  BY <1>1, <1>2, <1>5 DEF WithStatus
<1> QED
  BY <1>6, <1>8, <1>9, <1>10 DEF t

\* A step is marked from absent or interrupted and ends from running.
LEMMA WorkFrom ==
  ASSUME AInv, NEW k, IsNextStep(graph.state, k)
  PROVE  /\ pc = "mark_running" /\ graph.state.execs[k] # "failed"
              => graph.state.execs[k] \in {"absent", "interrupted"}
         /\ pc = "executing" => graph.state.execs[k] = "running"
<1>1. TypeOK /\ OneUncertain /\ Places
  BY DEF AInv, Agreeing, HInv, DInv
<1>2. graph.state \in AgentState /\ k \in Key /\ graph.state.execs[k] # "completed"
  BY <1>1, GraphUpdates, NextStepIsKey DEF TypeOK, IsNextStep
<1>3. graph.state.execs[k] \in ExecutionStatus \union {"absent"}
  BY <1>2 DEF AgentState
<1>4. pc = "mark_running" => graph.state.execs[k] # "running"
  BY <1>1, <1>2 DEF Places, InGraph, WithStatus
<1>5. pc = "executing" => graph.state.execs[k] = "running"
  <2> SUFFICES ASSUME pc = "executing" PROVE graph.state.execs[k] = "running"
    OBVIOUS
  <2>1. PICK j \in Key : graph.state.execs[j] = "running"
    BY <1>1 DEF Places, InGraph, WithStatus
  <2> QED
    BY <1>1, <1>2, <2>1, OnlyNextAtWork DEF OneUncertain, InGraph
<1> QED
  BY <1>2, <1>3, <1>4, <1>5 DEF ExecutionStatus

\* Marking a step and recording its outcome keep the agreement.
LEMMA WorkAgrees ==
  ASSUME AInv, MarkRunning \/ ExecuteEnd
  PROVE  Agreeing'
<1>1. /\ HInv /\ DInv /\ TypeOK /\ Numbering
      /\ RowOrder(store) /\ OneUncertain /\ Places /\ Agreement /\ Recovering
  BY DEF AInv, Agreeing, HInv, DInv
<1>2. PICK k \in Key, status \in ExecutionStatus \ {"interrupted"} :
        /\ \/ /\ pc = "mark_running" /\ pc' = "marked" /\ status = "running"
              /\ graph.state.execs[k] # "failed"
              /\ ~Collides(store, k, "running")
              /\ graph'.active = graph.active
           \/ pc = "executing" /\ pc' = "executed" /\ status \in {"completed", "failed"}
        /\ IsNextStep(graph.state, k)
        /\ store' = Insert(store, k, status, graph.version + 1)
        /\ graph'.state = WithStepExecution(graph.state, k, status)
        /\ graph'.version = graph.version + 1
        /\ graph'.status = graph.status
        /\ UNCHANGED <<queue, checkpoint, registry>>
  BY <1>1, WorkEffect
<1>3. /\ graph.state \in AgentState /\ graph.version \in Nat /\ graph.version + 1 \in Nat
      /\ store \in Store /\ store.latest \in Nat
      /\ \A g \in Saved : g.version \in Nat
  <2>1. \A g \in Saved : g \in GraphState
    BY <1>1 DEF TypeOK, Saved
  <2> QED
    BY <1>1, <2>1, GraphUpdates DEF TypeOK, Store
<1>4. /\ pc \in InGraph \ {"starting", "marked", "executed"}
      /\ pc' \in {"marked", "executed"} /\ pc' \in InGraph
      /\ status \in {"running", "completed", "failed"}
  BY <1>2 DEF InGraph, ExecutionStatus
<1>5. Saved' = Saved /\ NewestSaved' = NewestSaved /\ NewestSaved = graph
  BY <1>1, <1>2, <1>4 DEF Saved, NewestSaved, Places
<1>6. OneAtWork(graph.state) /\ Current(graph.state, store)
  BY <1>1, <1>4 DEF OneUncertain, Agreement
<1>7. /\ store.newest[k].version <= store.latest /\ store.latest <= graph.version + 1
      /\ store.newest[k].version \in Nat
  <2>1. store.newest[k] \in Row \union {NoRow}
    BY <1>3 DEF Store
  <2> QED
    BY <1>1, <1>4, <2>1 DEF Numbering, Row, NoRow
<1>8. /\ RowOrder(store')
      /\ store'.newest[k].status = status
      /\ \A j \in Key : j # k => store'.newest[j] = store.newest[j]
      /\ store'.latest = graph.version + 1
  <2>1. graph.version + 1 >= store.newest[k].version
    BY <1>3, <1>7
  <2>2. store'.latest = IF graph.version + 1 > store.latest THEN graph.version + 1
                                                            ELSE store.latest
    BY <1>2, <1>3, InsertNewest
  <2> QED
    BY <1>1, <1>2, <1>3, <1>7, <2>1, <2>2, InsertOrder
<1>9. /\ OneAtWork(graph'.state)
      /\ Current(graph'.state, store')
      /\ WithStatus(graph'.state, "running") = IF status = "running" THEN {k} ELSE {}
      /\ \A j \in Key : j # k => Same(graph.state, store', j) \/ Refused(graph.state, store', j)
  <2> DEFINE t == WithStepExecution(graph.state, k, status)
  <2>1. Records(store, store', k, status) /\ IsNextStep(graph.state, k)
    BY <1>2, <1>8 DEF Records
  <2>2. /\ OneAtWork(t)
        /\ Current(t, store')
        /\ WithStatus(t, "running") = IF status = "running" THEN {k} ELSE {}
        /\ \A j \in Key : j # k => Same(graph.state, store', j) \/ Refused(graph.state, store', j)
    BY <1>3, <1>6, <2>1, WorkedState
  <2> QED
    BY <1>2, <2>2
<1>10. OneUncertain'
  BY <1>1, <1>5, <1>9 DEF OneUncertain
<1>11. Places'
  <2>1. WithStatus(graph'.state, "running") # {} <=> pc' \in {"marked", "execute", "executing"}
    BY <1>2, <1>9
  <2>2. \A g \in Saved' : g.version <= graph'.version
    BY <1>1, <1>2, <1>3, <1>4, <1>5 DEF Places
  <2> QED
    BY <1>4, <2>1, <2>2 DEF Places
<1>12. Agreement'
  <2>1. \A g \in Saved' : ~Confirmed(store', g.version)
    BY <1>1, <1>3, <1>4, <1>5, <1>8 DEF Places, Confirmed
  <2>2. Behind(graph.state, store')
    <3>1. pc = "mark_running" => Begun(graph.state, store', k)
      BY <1>2, <1>8, WorkFrom DEF Begun
    <3>2. pc = "executing" => Working(graph.state, store', k)
      BY <1>2, <1>4, <1>8, WorkFrom DEF Working
    <3> QED
      BY <1>2, <1>9, <3>1, <3>2 DEF Behind
  <2> QED
    BY <1>3, <1>4, <1>5, <1>8, <1>9, <2>1, <2>2 DEF Agreement
<1>13. Recovering'
  <2> SUFFICES ASSUME graph.status = "resuming", NEW j \in Key,
                      IsNextStep(graph'.state, j), HasRow(store', j, "interrupted"),
                      graph'.state.execs[j] \in {"running", "interrupted"}
               PROVE  graph'.active
    BY <1>2 DEF Recovering
  <2>1. CASE status # "running"
    <3>1. CASE status = "failed"
      <4>1. j = k
        BY <1>2, <1>3, <3>1, NextStepStays, NextStepUnique DEF ExecutionStatus
      <4> QED
        BY <1>2, <1>3, <3>1, <4>1, WithStepExecutionSets DEF ExecutionStatus
    <3>2. CASE status = "completed"
      <4>1. j # k /\ ~IsNextStep(graph.state, j) /\ j[1] = Revision(graph.state)
        BY <1>2, <1>3, <3>2, NextStepMovesOn
      <4>2. graph'.state.execs[j] = graph.state.execs[j]
        BY <1>2, <1>3, <4>1, WithStepExecutionSets
      <4>3. Superseded(graph.state, j)
        BY <1>2, <1>3, <1>6, <4>1, <4>2, OnlyNextAtWork
      <4>4. Revision(graph.state) \in Nat
        BY <1>3 DEF AgentState, PlanHistory, Revision
      <4> QED
        BY <4>1, <4>3, <4>4 DEF Superseded
    <3> QED
      BY <1>4, <2>1, <3>1, <3>2
  <2>2. CASE status = "running"
    <3>1. pc = "mark_running" /\ ~Collides(store, k, "running") /\ graph'.active = graph.active
      BY <1>2, <2>2
    <3>2. j = k
      BY <1>2, <1>3, <2>2, NextStepStays, NextStepUnique DEF ExecutionStatus
    <3>3. HasRow(store, k, "interrupted")
      BY <1>2, <1>3, <2>2, <3>2, InsertAddsOne
    <3>4. Recorded(store, k) /\ store.newest[k] = LastInserted(store, k)
      BY <1>1, <1>3, <3>3, NewestStatus DEF RowOrder
    <3>5. graph.state.execs[k] # "absent"
      BY <1>1, <1>3, <1>6, <3>4, NewestStatus DEF Current, Same, Refused, Misplaced
    <3>6. graph.state.execs[k] = "interrupted"
      BY <1>2, <3>1, <3>5, WorkFrom
    <3>7. ~Misplaced(graph.state, store, k)
      <4>1. SUFFICES ASSUME LastInserted(store, k).status = "running" PROVE FALSE
        BY <3>4 DEF Misplaced
      <4>2. Len(store.rows[k]) \in DOMAIN store.rows[k]
        <5>1. store.rows[k] \in Seq(Row)
          BY <1>3 DEF Store
        <5> QED
          BY <3>4, <5>1 DEF Recorded
      <4>3. NextAttempt(store, k) = LastInserted(store, k).attempt
        BY <3>4, <4>1 DEF NextAttempt
      <4> QED
        BY <3>1, <4>1, <4>2, <4>3 DEF Collides, LastInserted
    <3> QED
      BY <1>1, <1>2, <1>4, <3>1, <3>3, <3>6, <3>7 DEF Recovering
  <2> QED
    BY <2>1, <2>2
<1> QED
  BY <1>8, <1>10, <1>11, <1>12, <1>13 DEF Agreeing

-----------------------------------------------------------------------------
(***************************************************************************)
(* Resume.  From a checkpoint that agrees with the rows the overlay makes  *)
(* what the rows say, and marking the stale step leaves at most the steps  *)
(* that were refused to tell the two apart.                                *)
(***************************************************************************)
\* The executions are those of the newest rows.
Reads(r, st) == \A k \in Key : r.execs[k] = st.newest[k].status

\* What the overlay rebuilds.
LEMMA RestoredAgrees ==
  ASSUME NEW s \in AgentState, NEW st \in Store, RowOrder(st), OneAtWork(s), Agree(s, st)
  PROVE  /\ RestoreExecutions(st, s) \in AgentState
         /\ RestoreExecutions(st, s).plans = s.plans
         /\ Reads(RestoreExecutions(st, s), st)
         /\ OneAtWork(RestoreExecutions(st, s))
<1> DEFINE r == RestoreExecutions(st, s)
<1>1. /\ r \in AgentState /\ r.plans = s.plans
      /\ \A k \in Key : r.execs[k] = IF Recorded(st, k) THEN st.newest[k].status ELSE s.execs[k]
  BY RestoreKeeps, RestoreSets
<1> HIDE DEF r
<1>2. Reads(r, st)
  <2> SUFFICES ASSUME NEW k \in Key PROVE r.execs[k] = st.newest[k].status
    BY DEF Reads
  <2>1. CASE Recorded(st, k)
    BY <1>1, <2>1
  <2>2. CASE ~Recorded(st, k)
    <3>1. st.newest[k].status = "absent"
      BY <2>2, NewestStatus
    <3>2. s.execs[k] = "absent"
      BY <3>1 DEF Agree, Same, Begun, Refused, Ended
    <3> QED
      BY <1>1, <2>2, <3>1, <3>2
  <2> QED
    BY <2>1, <2>2
<1>3. WithStatus(s, "completed") \subseteq WithStatus(r, "completed")
  BY <1>2 DEF Reads, Agree, Same, Begun, Refused, Ended, WithStatus
<1>4. \A k : IsNextStep(s, k) /\ r.execs[k] # "completed" => IsNextStep(r, k)
  BY <1>1, <1>3, NextStepOfMore
<1>5. \A k : Superseded(s, k) <=> Superseded(r, k)
  BY <1>1 DEF Superseded, Revision
<1>6. ASSUME NEW k \in Key, r.execs[k] \in {"running", "interrupted"}
      PROVE  \/ IsNextStep(r, k)
             \/ r.execs[k] = "interrupted" /\ FailDecided /\ Superseded(r, k)
  <2>1. st.newest[k].status = r.execs[k]
    BY <1>2 DEF Reads
  <2>2. \/ IsNextStep(s, k)
        \/ r.execs[k] = "interrupted" /\ FailDecided /\ Superseded(s, k)
    <3>1. CASE Same(s, st, k)
      BY <1>6, <2>1, <3>1 DEF Same, OneAtWork, WithStatus
    <3>2. CASE Begun(s, st, k) \/ Refused(s, st, k) \/ Ended(s, st, k)
      BY <1>6, <2>1, <3>2 DEF Begun, Refused, Ended
    <3> QED
      BY <3>1, <3>2 DEF Agree
  <2> QED
    BY <1>4, <1>5, <1>6, <2>2
<1>7. OneAtWork(r)
  BY <1>6 DEF OneAtWork, WithStatus
<1> QED
  BY <1>1, <1>2, <1>7 DEF r

\* Marking stale work when only the next step can be running.
LEMMA StaleAgrees ==
  ASSUME NEW r \in AgentState, OneAtWork(r)
  PROVE  /\ MarkStaleInterrupted(r) \in AgentState
         /\ MarkStaleInterrupted(r).plans = r.plans
         /\ \A k \in Key : MarkStaleInterrupted(r).execs[k] =
              IF r.execs[k] = "running" THEN "interrupted" ELSE r.execs[k]
         /\ \A k : IsNextStep(MarkStaleInterrupted(r), k) <=> IsNextStep(r, k)
         /\ WithStatus(MarkStaleInterrupted(r), "running") = {}
         /\ OneAtWork(MarkStaleInterrupted(r))
<1> DEFINE t == MarkStaleInterrupted(r)
<1>1. /\ t \in AgentState /\ t.plans = r.plans
      /\ \A k \in Key : t.execs[k] = IF IsFirst(r, "running", k) THEN "interrupted" ELSE r.execs[k]
      /\ WithStatus(t, "completed") = WithStatus(r, "completed")
  BY MarkStaleKeeps, MarkStaleSets
<1> HIDE DEF t
<1>2. \A k \in Key : IsFirst(r, "running", k) <=> r.execs[k] = "running"
  <2>1. \A j, k \in WithStatus(r, "running") : j = k
    BY NextStepUnique DEF OneAtWork
  <2> QED
    BY <2>1 DEF IsFirst, WithStatus
<1>3. \A k \in Key : t.execs[k] = IF r.execs[k] = "running" THEN "interrupted" ELSE r.execs[k]
  BY <1>1, <1>2
<1>4. \A k : IsNextStep(t, k) <=> IsNextStep(r, k)
  BY <1>1, NextStepOfDone
<1>5. \A k : Superseded(r, k) <=> Superseded(t, k)
  BY <1>1 DEF Superseded, Revision
<1>6. WithStatus(t, "running") = {}
  BY <1>3 DEF WithStatus
<1>7. OneAtWork(t)
  BY <1>3, <1>4, <1>5, <1>6 DEF OneAtWork, WithStatus
<1> QED
  BY <1>1, <1>3, <1>4, <1>6, <1>7 DEF t

\* Another step found running means that the first uncertain one was given up.
LEMMA FirstUncertain ==
  ASSUME NEW r \in AgentState, OneAtWork(r), NEW o, IsFirstUncertain(r, o)
  PROVE  /\ o \in Key /\ r.execs[o] \in {"running", "interrupted"}
         /\ IsNextStep(r, o) \/ (FailDecided /\ Superseded(r, o))
         /\ \A j \in Key : j # o /\ r.execs[j] = "running"
              => r.execs[o] = "interrupted" /\ FailDecided /\ Superseded(r, o)
<1>1. o \in Key /\ r.execs[o] \in {"running", "interrupted"}
  BY UncertainStatus
<1>2. IsNextStep(r, o) \/ (FailDecided /\ Superseded(r, o))
  BY <1>1 DEF OneAtWork, WithStatus
<1>3. ASSUME NEW j \in Key, j # o, r.execs[j] = "running"
      PROVE  r.execs[o] = "interrupted" /\ FailDecided /\ Superseded(r, o)
  <2>1. IsNextStep(r, j)
    BY <1>3 DEF OneAtWork, WithStatus
  <2> QED
    BY <1>1, <1>3, <2>1, OnlyNextAtWork
<1> QED
  BY <1>1, <1>2, <1>3

\* The states a resume goes on with: the stale one, or with the step refused.
LEMMA ReopenedState ==
  ASSUME NEW r \in AgentState, OneAtWork(r), NEW st, NEW new, Reads(r, st),
         NEW o, IsFirstUncertain(r, o), Records(st, new, o, "interrupted")
  PROVE  /\ Current(MarkStaleInterrupted(r), new)
         /\ FailDecided =>
              LET f == WithStepExecution(MarkStaleInterrupted(r), o, "failed")
              IN  /\ Current(f, new)
                  /\ OneAtWork(f)
                  /\ WithStatus(f, "running") = {}
                  /\ WithStatus(r, "running") # {} =>
                       \A k \in Key : IsNextStep(f, k) /\ f.execs[k] \in {"running", "interrupted"}
                         => Misplaced(f, new, k)
<1> DEFINE t == MarkStaleInterrupted(r)
           f == WithStepExecution(t, o, "failed")
<1>1. /\ o \in Key /\ r.execs[o] \in {"running", "interrupted"}
      /\ IsNextStep(r, o) \/ (FailDecided /\ Superseded(r, o))
      /\ \A j \in Key : j # o /\ r.execs[j] = "running"
           => r.execs[o] = "interrupted" /\ FailDecided /\ Superseded(r, o)
  BY FirstUncertain
<1>2. /\ t \in AgentState /\ t.plans = r.plans
      /\ \A k \in Key : t.execs[k] = IF r.execs[k] = "running" THEN "interrupted" ELSE r.execs[k]
      /\ \A k : IsNextStep(t, k) <=> IsNextStep(r, k)
      /\ OneAtWork(t)
  BY StaleAgrees
<1>3. \A j \in Key : r.execs[j] = "running" => IsNextStep(r, j)
  BY DEF OneAtWork, WithStatus
<1>4. \A j \in Key : j # o => new.newest[j].status = r.execs[j]
  BY DEF Records, Reads
<1>5. new.newest[o].status = "interrupted"
  BY DEF Records
<1>6. /\ f \in AgentState /\ f.plans = t.plans /\ f.execs[o] = "failed"
      /\ \A j \in Key : j # o => f.execs[j] = t.execs[j]
  BY <1>1, <1>2, WithStepExecutionSets DEF ExecutionStatus
<1> HIDE DEF t, f
<1>7. Current(t, new)
  BY <1>1, <1>2, <1>3, <1>4, <1>5 DEF Current, Same, Misplaced
<1>8. ASSUME FailDecided
      PROVE  /\ Current(f, new)
             /\ OneAtWork(f)
             /\ WithStatus(f, "running") = {}
             /\ WithStatus(r, "running") # {} =>
                  \A k \in Key : IsNextStep(f, k) /\ f.execs[k] \in {"running", "interrupted"}
                    => Misplaced(f, new, k)
  <2>1. WithStatus(f, "completed") = WithStatus(t, "completed")
    BY <1>1, <1>2, <1>6 DEF WithStatus
  <2>2. \A k : IsNextStep(f, k) <=> IsNextStep(r, k)
    BY <1>2, <1>6, <2>1, NextStepOfDone
  <2>3. \A k : Superseded(f, k) <=> Superseded(r, k)
    BY <1>2, <1>6 DEF Superseded, Revision
  <2>4. \A j \in Key : j # o => f.execs[j] = IF r.execs[j] = "running" THEN "interrupted"
                                                                       ELSE r.execs[j]
    BY <1>2, <1>6
  <2>5. Current(f, new)
    BY <1>1, <1>3, <1>4, <1>5, <1>6, <1>8, <2>2, <2>3, <2>4
    DEF Current, Same, Refused, Misplaced
  <2>6. WithStatus(f, "running") = {}
    BY <1>6, <2>4 DEF WithStatus
  <2>7. OneAtWork(f)
    BY <1>6, <2>2, <2>3, <2>4, <2>6 DEF OneAtWork, WithStatus
  <2>8. ASSUME NEW x \in WithStatus(r, "running"), NEW k \in Key, IsNextStep(f, k),
               f.execs[k] \in {"running", "interrupted"}
        PROVE  Misplaced(f, new, k)
    <3>1. x \in Key /\ r.execs[x] = "running" /\ IsNextStep(r, x) /\ IsNextStep(r, k)
      BY <1>3, <2>2, <2>8 DEF WithStatus
    <3>2. x = k
      BY <3>1, NextStepUnique
    <3>3. k # o
      BY <1>6, <2>8
    <3> QED
      BY <1>4, <1>8, <2>4, <2>8, <3>1, <3>2, <3>3 DEF Misplaced
  <2> QED
    BY <2>5, <2>6, <2>7, <2>8
<1> QED
  BY <1>7, <1>8 DEF t, f

\* A checkpoint stays at most behind when its uncertain step gets its row.
LEMMA UncertainRecorded ==
  ASSUME NEW s, OneAtWork(s), NEW st, NEW new, Agree(s, st), NEW o \in Key,
         st.newest[o].status \in {"running", "interrupted"}, Records(st, new, o, "interrupted")
  PROVE  Behind(s, new)
<1>1. \A j \in Key : j # o => Same(s, new, j) \/ Begun(s, new, j) \/ Refused(s, new, j)
                              \/ Ended(s, new, j)
  BY DEF Records, Agree, Same, Begun, Refused, Ended
<1>2. new.newest[o].status = "interrupted"
  BY DEF Records
<1>3. s.execs[o] = "running" => IsNextStep(s, o)
  BY DEF OneAtWork, WithStatus
<1>4. Same(s, new, o) \/ Begun(s, new, o) \/ Refused(s, new, o) \/ Working(s, new, o)
  <2>1. CASE Same(s, st, o)
    BY <1>2, <1>3, <2>1 DEF Same, Working
  <2>2. CASE Begun(s, st, o) \/ Refused(s, st, o)
    BY <1>2, <2>2 DEF Begun, Refused
  <2>3. ~Ended(s, st, o)
    BY DEF Ended
  <2> QED
    BY <2>1, <2>2, <2>3 DEF Agree
<1> QED
  BY <1>1, <1>4 DEF Behind

\* What each decision makes of the uncertain step.
LEMMA ReopenedDecision ==
  ASSUME TypeOK, Reopened
  PROVE  \/ /\ store' = store /\ graph'.state = Stale
            /\ WithStatus(Stale, "interrupted") = {}
            /\ graph'.status = "resuming" /\ ~graph'.active
         \/ \E k \in Key :
              /\ IsFirstUncertain(Restored, k)
              /\ store' = RecordInterrupted(k)
              /\ \/ /\ graph'.state = Stale
                    /\ \/ graph'.active /\ graph'.attempt = store'.newest[k].attempt + 1
                       \/ graph'.status = "blocked"
                 \/ /\ FailDecided
                    /\ graph'.state = WithStepExecution(Stale, k, "failed")
                    /\ graph'.active = (WithStatus(Restored, "running") = {})
<1>1. checkpoint \in GraphState
  BY DEF TypeOK
<1>2. ASSUME NEW s, NEW active, NEW attempt, graph' = ResumeInput(s, active, attempt)
      PROVE  /\ graph'.state = s /\ graph'.active = active
             /\ graph'.attempt = attempt /\ graph'.status = "resuming"
  BY <1>1, <1>2 DEF ResumeInput, GraphState
<1>3. CASE ResumeContinue
  BY <1>2, <1>3 DEF ResumeContinue
<1>4. CASE ResumeRecover
  BY <1>2, <1>4 DEF ResumeRecover
<1>5. CASE ResumeFail
  BY <1>2, <1>5 DEF ResumeFail, FailDecided
<1>6. CASE ResumeAbort
  <2>1. ASSUME graph' = [checkpoint EXCEPT !.state = Stale, !.status = "blocked"]
        PROVE  graph'.state = Stale /\ graph'.status = "blocked"
    BY <1>1, <2>1 DEF GraphState
  <2> QED
    BY <1>6, <2>1 DEF ResumeAbort
<1> QED
  BY <1>3, <1>4, <1>5, <1>6 DEF Reopened

\* Recording the uncertain step makes its newest row interrupted, if it was not.
LEMMA RecordUncertain ==
  ASSUME HInv, RowOrder(store), Reads(Restored, store), OneAtWork(Restored),
         Confirmed(store, checkpoint.version),
         NEW k, IsFirstUncertain(Restored, k), store' = RecordInterrupted(k)
  PROVE  /\ Records(store, store', k, "interrupted")
         /\ RowOrder(store')
         /\ store.newest[k].status \in {"running", "interrupted"}
         /\ store'.latest <= checkpoint.version + 1
         /\ store' = store \/ ~Confirmed(store', checkpoint.version)
         /\ WithStatus(Restored, "running") = {} => store' = store
<1>1. /\ TypeOK /\ Numbering /\ store \in Store /\ store.latest \in Nat
      /\ checkpoint.version \in Nat
  BY GraphUpdates DEF HInv, DInv, TypeOK, Store
<1>2. k \in Key /\ Restored.execs[k] \in {"running", "interrupted"}
  BY UncertainStatus
<1>3. store.newest[k].status = Restored.execs[k]
  BY <1>2 DEF Reads
<1>4. /\ store.newest[k].version \in Nat
      /\ store.newest[k].version <= store.latest
      /\ store.latest > 0 /\ store.latest = checkpoint.version
  <2>1. store.newest[k] \in Row \union {NoRow}
    BY <1>1, <1>2 DEF Store
  <2>2. Recorded(store, k)
    BY <1>1, <1>2, <1>3, NewestStatus
  <2>3. store.latest > 0
    BY <1>1, <1>2, <2>2 DEF Numbering
  <2> QED
    BY <1>1, <1>2, <2>1, <2>3 DEF Numbering, Row, NoRow, Confirmed
<1>5. CASE WithStatus(Restored, "running") # {}
  <2>1. store' = Insert(store, k, "interrupted", store.latest + 1)
    BY <1>5 DEF RecordInterrupted
  <2>2. /\ RowOrder(store')
        /\ store'.newest[k].status = "interrupted"
        /\ \A j \in Key : j # k => store'.newest[j] = store.newest[j]
        /\ store'.latest = store.latest + 1
    <3>1. /\ store.latest + 1 \in Nat /\ store.latest + 1 >= store.newest[k].version
          /\ "interrupted" \in ExecutionStatus
      BY <1>1, <1>4 DEF ExecutionStatus
    <3>2. store'.latest = IF store.latest + 1 > store.latest THEN store.latest + 1
                                                             ELSE store.latest
      BY <1>1, <1>2, <2>1, <3>1, InsertNewest
    <3> QED
      BY <1>1, <1>2, <2>1, <3>1, <3>2, InsertOrder
  <2> QED
    BY <1>1, <1>2, <1>3, <1>4, <1>5, <2>2 DEF Records, Confirmed
<1>6. CASE WithStatus(Restored, "running") = {}
  <2>1. store' = store
    BY <1>6 DEF RecordInterrupted
  <2>2. Restored.execs[k] # "running"
    BY <1>2, <1>6 DEF WithStatus
  <2> QED
    BY <1>1, <1>2, <1>3, <1>4, <2>1, <2>2 DEF Records
<1> QED
  BY <1>5, <1>6

\* A resume that opens the graph finds agreement and keeps it.
LEMMA ReopenedAgrees ==
  ASSUME AInv, Reopened
  PROVE  Agreeing'
<1>1. /\ HInv /\ DInv /\ TypeOK
      /\ RowOrder(store) /\ OneUncertain /\ Places /\ Agreement /\ Recovering
  BY DEF AInv, Agreeing, HInv, DInv
<1>2. /\ pc' = "starting" /\ queue = <<>> /\ UNCHANGED <<queue, checkpoint>>
      /\ checkpoint.saved
      /\ Confirmed(store, checkpoint.version)
      /\ graph'.version = checkpoint.version
  BY <1>1, ReopenedEffect DEF CanResume
<1>3. /\ Saved = {checkpoint} /\ Saved' = {checkpoint}
      /\ NewestSaved' = checkpoint
  BY <1>2, SavedAtRest DEF Saved, NewestSaved
<1>4. /\ checkpoint.state \in AgentState /\ checkpoint.version \in Nat
      /\ store \in Store /\ store.latest \in Nat
  BY <1>1, GraphUpdates DEF TypeOK, Store
<1>5. OneAtWork(checkpoint.state) /\ Agree(checkpoint.state, store)
  BY <1>1, <1>2, <1>3 DEF OneUncertain, Agreement
<1>6. /\ Restored \in AgentState
      /\ Reads(Restored, store)
      /\ OneAtWork(Restored)
  BY <1>1, <1>4, <1>5, RestoredAgrees DEF Restored
<1>7. /\ Stale = MarkStaleInterrupted(Restored)
      /\ \A k \in Key : Stale.execs[k] = IF Restored.execs[k] = "running" THEN "interrupted"
                                                                           ELSE Restored.execs[k]
      /\ WithStatus(Stale, "running") = {} /\ OneAtWork(Stale)
  BY <1>6, StaleAgrees DEF Stale
<1>8. ASSUME RowOrder(store'), Current(graph'.state, store'), OneAtWork(graph'.state),
             WithStatus(graph'.state, "running") = {},
             store'.latest <= checkpoint.version + 1,
             Behind(checkpoint.state, store'),
             Confirmed(store', checkpoint.version) => Agree(checkpoint.state, store'),
             Recovering'
      PROVE  Agreeing'
  <2>1. OneUncertain'
    BY <1>1, <1>3, <1>5, <1>8 DEF OneUncertain
  <2>2. Places'
    BY <1>2, <1>3, <1>4, <1>8 DEF Places
  <2>3. Agreement'
    BY <1>2, <1>3, <1>8 DEF Agreement
  <2> QED
    BY <1>8, <2>1, <2>2, <2>3 DEF Agreeing
<1>9. CASE store' = store /\ graph'.state = Stale /\ WithStatus(Stale, "interrupted") = {}
  <2>1. \A k \in Key : Stale.execs[k] = Restored.execs[k] /\ Stale.execs[k] # "interrupted"
    BY <1>7, <1>9 DEF WithStatus
  <2>2. Current(Stale, store)
    BY <1>6, <2>1 DEF Current, Same, Reads
  <2>3. Behind(checkpoint.state, store)
    BY <1>5, AgreeIsBehind
  <2>4. store'.latest <= checkpoint.version + 1
    BY <1>2, <1>4, <1>9 DEF Confirmed
  <2>5. Recovering'
    BY <1>7, <1>9, <2>1 DEF Recovering, WithStatus
  <2> QED
    BY <1>1, <1>5, <1>7, <1>8, <1>9, <2>2, <2>3, <2>4, <2>5
<1>10. ASSUME NEW k \in Key, IsFirstUncertain(Restored, k), store' = RecordInterrupted(k),
              \/ graph'.state = Stale /\ (graph'.active \/ graph'.status = "blocked")
              \/ /\ FailDecided
                 /\ graph'.state = WithStepExecution(Stale, k, "failed")
                 /\ graph'.active = (WithStatus(Restored, "running") = {})
       PROVE  Agreeing'
  <2>1. /\ Records(store, store', k, "interrupted")
        /\ RowOrder(store')
        /\ store.newest[k].status \in {"running", "interrupted"}
        /\ store'.latest <= checkpoint.version + 1
        /\ store' = store \/ ~Confirmed(store', checkpoint.version)
    BY <1>1, <1>2, <1>6, <1>10, RecordUncertain
  <2>2. Behind(checkpoint.state, store')
    BY <1>5, <2>1, UncertainRecorded
  <2>3. Confirmed(store', checkpoint.version) => Agree(checkpoint.state, store')
    BY <1>5, <2>1
  <2>4. /\ Current(Stale, store')
        /\ FailDecided =>
             LET f == WithStepExecution(Stale, k, "failed")
             IN  /\ Current(f, store')
                 /\ OneAtWork(f)
                 /\ WithStatus(f, "running") = {}
                 /\ WithStatus(Restored, "running") # {} =>
                      \A j \in Key : IsNextStep(f, j) /\ f.execs[j] \in {"running", "interrupted"}
                        => Misplaced(f, store', j)
    BY <1>6, <1>7, <1>10, <2>1, ReopenedState
  <2>5. CASE graph'.state = Stale /\ (graph'.active \/ graph'.status = "blocked")
    <3>1. Recovering'
      BY <2>5 DEF Recovering
    <3> QED
      BY <1>7, <1>8, <2>1, <2>2, <2>3, <2>4, <2>5, <3>1
  <2>6. CASE /\ FailDecided
             /\ graph'.state = WithStepExecution(Stale, k, "failed")
             /\ graph'.active = (WithStatus(Restored, "running") = {})
    <3>1. Recovering'
      BY <2>4, <2>6 DEF Recovering
    <3> QED
      BY <1>8, <2>1, <2>2, <2>3, <2>4, <2>6, <3>1
  <2> QED
    BY <1>10, <2>5, <2>6
<1> QED
  BY <1>1, <1>9, <1>10, ReopenedDecision

-----------------------------------------------------------------------------
\* interrupt() gives its checkpoint the rows' next version when it records the
\* running step, and no version of theirs when none is running.
LEMMA InterruptedAgrees ==
  ASSUME AInv, Interrupted
  PROVE  Agreeing'
<1>1. /\ HInv /\ DInv /\ TypeOK /\ Numbering
      /\ RowOrder(store) /\ OneUncertain /\ Agreement
  BY DEF AInv, Agreeing, HInv, DInv
<1> DEFINE s == checkpoint.state
           t == MarkStaleInterrupted(s)
<1>2. /\ pc = "cancelled" /\ pc' = "interrupting" /\ queue = <<>>
      /\ UNCHANGED <<queue, checkpoint>>
      /\ graph'.state = t
      /\ graph'.version = checkpoint.version + 1
  BY <1>1, InterruptedEffect
<1>3. /\ Saved = {checkpoint} /\ Saved' = {checkpoint}
      /\ NewestSaved = checkpoint
  BY <1>2, SavedAtRest DEF Saved, NewestSaved
<1>4. /\ s \in AgentState /\ checkpoint.version \in Nat
      /\ store \in Store /\ store.latest \in Nat
  BY <1>1, GraphUpdates DEF TypeOK, Store
<1>5. /\ OneAtWork(s) /\ Behind(s, store)
      /\ store.latest <= checkpoint.version + 1
      /\ Confirmed(store, checkpoint.version) => Agree(s, store)
  BY <1>1, <1>2, <1>3 DEF OneUncertain, Agreement
<1>6. /\ \A k \in Key : t.execs[k] = IF s.execs[k] = "running" THEN "interrupted" ELSE s.execs[k]
      /\ \A k : IsNextStep(t, k) <=> IsNextStep(s, k)
      /\ \A k : Superseded(t, k) <=> Superseded(s, k)
      /\ OneAtWork(t)
  BY <1>4, <1>5, StaleAgrees DEF Superseded, Revision
<1>7. ASSUME RowOrder(store'), Agree(t, store'),
             Confirmed(store', checkpoint.version) => Agree(s, store')
      PROVE  Agreeing'
  <2>1. OneUncertain'
    BY <1>2, <1>3, <1>5, <1>6 DEF OneUncertain
  <2>2. Places' /\ Recovering'
    BY <1>2 DEF Places, Recovering, InGraph
  <2>3. Agreement'
    BY <1>2, <1>3, <1>7 DEF Agreement, InGraph
  <2> QED
    BY <1>7, <2>1, <2>2, <2>3 DEF Agreeing
<1>8. CASE InterruptIdleStep
  <2>1. store' = store /\ \A k \in Key : s.execs[k] # "running"
    BY <1>8 DEF InterruptIdleStep, WithStatus
  <2>2. \A k \in Key : ~Working(s, store, k)
    BY <2>1 DEF Working
  <2>3. Agree(t, store)
    <3> HIDE DEF t, s
    <3> QED
      BY <1>5, <1>6, <2>1, <2>2 DEF Agree, Behind, Same, Begun, Refused, Ended
  <2> QED
    BY <1>1, <1>5, <1>7, <2>1, <2>3
<1>9. CASE InterruptRunning
  <2>1. PICK o \in Key : /\ IsFirstUncertain(s, o)
                         /\ store' = Insert(store, o, "interrupted", checkpoint.version + 1)
    BY <1>9 DEF InterruptRunning
  <2>2. PICK x \in Key : s.execs[x] = "running"
    BY <1>9 DEF InterruptRunning, WithStatus
  <2>3. /\ RowOrder(store')
        /\ store'.newest[o].status = "interrupted"
        /\ \A j \in Key : j # o => store'.newest[j] = store.newest[j]
        /\ ~Confirmed(store', checkpoint.version)
    <3>1. store.newest[o] \in Row \union {NoRow}
      BY <1>4 DEF Store
    <3>2. /\ checkpoint.version + 1 \in Nat
          /\ checkpoint.version + 1 >= store.newest[o].version
          /\ "interrupted" \in ExecutionStatus
      BY <1>1, <1>4, <1>5, <3>1 DEF Numbering, Row, NoRow, ExecutionStatus
    <3>3. store'.latest = IF checkpoint.version + 1 > store.latest THEN checkpoint.version + 1
                                                                   ELSE store.latest
      BY <2>1 DEF Insert
    <3>4. ~Confirmed(store', checkpoint.version)
      BY <1>4, <1>5, <3>3 DEF Confirmed
    <3> QED
      BY <1>1, <1>4, <2>1, <3>2, <3>4, InsertOrder
  <2>4. /\ IsNextStep(s, x)
        /\ \A j \in Key : j # x => /\ ~IsNextStep(s, j)
                                   /\ s.execs[j] # "running"
        /\ \A j \in Key : j # o /\ s.execs[j] = "running" => s.execs[o] = "interrupted"
        /\ s.execs[o] \in {"running", "interrupted"}
    <3>1. IsNextStep(s, x)
      BY <1>5, <2>2 DEF OneAtWork, WithStatus
    <3> QED
      BY <1>4, <1>5, <2>1, <3>1, OnlyNextAtWork, FirstUncertain
  <2>5. Same(t, store', o)
    BY <1>6, <2>3, <2>4 DEF Same
  <2>6. ASSUME NEW j \in Key, j # o, j # x
        PROVE  Same(t, store', j) \/ Refused(t, store', j)
    <3>1. Same(s, store, j) \/ Refused(s, store, j)
      <4> HIDE DEF s
      <4> QED
        BY <1>5, <2>4, <2>6 DEF Behind, Begun, Ended, Working
    <3> QED
      BY <1>6, <2>3, <2>4, <2>6, <3>1 DEF Same, Refused
  <2>7. ASSUME x # o
        PROVE  Same(t, store', x) \/ Begun(t, store', x) \/ Ended(t, store', x)
    <3>1. FailDecided
      BY <1>4, <1>5, <2>1, <2>2, <2>7, FirstUncertain
    <3>2. IsNextStep(t, x) /\ t.execs[x] = "interrupted"
      BY <1>6, <2>2, <2>4
    <3>3. store'.newest[x] = store.newest[x]
      BY <2>3, <2>7
    <3>4. Same(s, store, x) \/ Working(s, store, x)
      <4> HIDE DEF s
      <4> QED
        BY <1>5, <2>2 DEF Behind, Begun, Refused, Ended
    <3>5. store.newest[x].status \in ExecutionStatus
      BY <1>1, <1>4, <2>2, <3>4, NewestStatus DEF Same, Working
    <3> QED
      BY <3>1, <3>2, <3>3, <3>5 DEF Same, Begun, Ended, ExecutionStatus
  <2>8. Agree(t, store')
    BY <2>5, <2>6, <2>7 DEF Agree
  <2> QED
    BY <1>7, <2>3, <2>8
<1> QED
  BY <1>8, <1>9 DEF Interrupted

\* At first, and when a run starts, there is nothing to agree on.
LEMMA NothingAgrees ==
  /\ OneAtWork(NewAgentState)
  /\ WithStatus(NewAgentState, "running") = {}
  /\ Agree(NewAgentState, EmptyStore)
  /\ Current(NewAgentState, EmptyStore)
  /\ Behind(NewAgentState, EmptyStore)
  /\ RowOrder(EmptyStore)
  /\ \A k : ~IsNextStep(NewAgentState, k)
  /\ EmptyStore.latest = 0
  /\ NoGraph.state = NewAgentState /\ NoGraph.version = 0
<1>1. /\ NewAgentState.plans = <<>>
      /\ \A k \in Key : NewAgentState.execs[k] = "absent"
      /\ \A k \in Key : EmptyStore.newest[k] = NoRow /\ EmptyStore.rows[k] = <<>>
      /\ NoRow.status = "absent"
      /\ EmptyStore.latest = 0
      /\ NoGraph.state = NewAgentState /\ NoGraph.version = 0
  BY DEF NewAgentState, EmptyStore, NoRow, NoGraph
<1>2. /\ OneAtWork(NewAgentState)
      /\ WithStatus(NewAgentState, "running") = {}
      /\ \A k : ~IsNextStep(NewAgentState, k)
  BY <1>1 DEF OneAtWork, WithStatus, IsNextStep
<1>3. Current(NewAgentState, EmptyStore)
  BY <1>1 DEF Current, Same
<1>4. RowOrder(EmptyStore)
  BY <1>1 DEF RowOrder, Recorded
<1> QED
  BY <1>1, <1>2, <1>3, <1>4, CurrentAgrees

LEMMA InitAgreeing == Init => Agreeing
<1> SUFFICES ASSUME Init PROVE Agreeing
  OBVIOUS
<1>1. /\ pc = "idle" /\ queue = <<>> /\ checkpoint = NoGraph /\ store = EmptyStore
      /\ Saved = {NoGraph}
  BY SavedAtRest DEF Init
<1>2. RowOrder(store) /\ OneUncertain /\ Agreement
  BY <1>1, NothingAgrees DEF OneUncertain, Agreement, InGraph
<1>3. Places /\ Recovering
  BY <1>1 DEF Places, Recovering, InGraph
<1> QED
  BY <1>2, <1>3 DEF Agreeing

\* A fresh graph knows nothing, like the rows.
LEMMA StartAgrees ==
  ASSUME AInv, NEW viaRouter \in BOOLEAN, Start(viaRouter)
  PROVE  Agreeing'
<1>1. /\ checkpoint = NoGraph /\ queue = <<>> /\ store = EmptyStore
      /\ UNCHANGED <<queue, checkpoint, store>>
      /\ pc' = "starting"
  BY DEF AInv, HInv, Unstarted, Start
<1>2. Saved' = {NoGraph} /\ NewestSaved' = NoGraph
  BY <1>1 DEF Saved, NewestSaved
<1>3. graph'.state = NewAgentState /\ graph'.version = 0
  BY NothingAgrees DEF Start, NoGraph
<1>4. RowOrder(store') /\ OneUncertain' /\ Agreement'
  BY <1>1, <1>2, <1>3, NothingAgrees DEF OneUncertain, Agreement
<1>5. Places'
  BY <1>1, <1>2, <1>3, NothingAgrees DEF Places
<1>6. Recovering'
  BY <1>3, NothingAgrees DEF Recovering
<1> QED
  BY <1>4, <1>5, <1>6 DEF Agreeing

\* Saving, stopping and returning a finished result move no state and no row.
LEMMA RestAgrees ==
  ASSUME AInv, "abandon" \notin FaultKinds,
         Save \/ Forgetting \/ Waiting \/ ResumeTerminal \/ InterruptSave
  PROVE  Agreeing'
<1>1. /\ TypeOK /\ Control
      /\ RowOrder(store) /\ OneUncertain /\ Places /\ Agreement /\ Recovering
  BY DEF AInv, Agreeing, HInv, DInv
<1>2. CASE Save
  <2>1. /\ Saved' \subseteq Saved /\ UNCHANGED <<pc, graph, store, registry>>
        /\ NewestSaved' = NewestSaved
    BY <1>1, <1>2, SaveSaved, SaveNewest
  <2>2. OneUncertain' /\ Agreement'
    BY <1>1, <2>1 DEF OneUncertain, Agreement
  <2>3. Places' /\ Recovering'
    BY <1>1, <2>1 DEF Places, Recovering
  <2> QED
    BY <1>1, <2>1, <2>2, <2>3 DEF Agreeing
<1>3. CASE Forgetting
  <2>1. /\ pc' \in {"idle", "cancelled"} /\ UNCHANGED <<checkpoint, store>>
        /\ queue' \in {queue, <<>>}
        /\ pc' = "cancelled" => pc \in InGraph \union {"finish"} /\ queue' = queue
    BY <1>3 DEF Forgetting
  <2>2. Saved' \subseteq Saved
    BY <2>1 DEF Saved
  <2>3. pc' = "cancelled" => NewestSaved' = NewestSaved
    BY <2>1 DEF NewestSaved
  <2>4. OneUncertain' /\ Agreement'
    BY <1>1, <2>1, <2>2, <2>3 DEF OneUncertain, Agreement, InGraph
  <2>5. Places' /\ Recovering'
    BY <2>1 DEF Places, Recovering, InGraph
  <2> QED
    BY <1>1, <2>1, <2>4, <2>5 DEF Agreeing
<1>4. CASE Waiting
  <2>1. /\ UNCHANGED <<graph, queue, checkpoint, store>>
        /\ \/ pc \in InGraph /\ pc' = "raised"
           \/ pc = "execute" /\ pc' = "executing"
           \/ pc' = pc
    BY <1>4 DEF Waiting
  <2>2. Saved' = Saved /\ NewestSaved' = NewestSaved
    BY <2>1 DEF Saved, NewestSaved
  <2>3. OneUncertain' /\ Agreement'
    BY <1>1, <2>1, <2>2 DEF OneUncertain, Agreement, InGraph
  <2>4. Places' /\ Recovering'
    BY <1>1, <2>1, <2>2 DEF Places, Recovering, InGraph
  <2> QED
    BY <1>1, <2>1, <2>3, <2>4 DEF Agreeing
<1>5. CASE ResumeTerminal
  <2>1. /\ pc' = "finish" /\ queue = <<>> /\ UNCHANGED <<queue, checkpoint, store>>
        /\ Confirmed(store, checkpoint.version)
    BY <1>1, <1>5 DEF ResumeTerminal, Resuming, CanResume, Control
  <2>2. Saved = {checkpoint} /\ Saved' = {checkpoint} /\ NewestSaved' = checkpoint
    BY <2>1 DEF Saved, NewestSaved
  <2>3. Agree(checkpoint.state, store) /\ Behind(checkpoint.state, store)
    BY <1>1, <2>1, <2>2, AgreeIsBehind DEF Agreement
  <2>4. store.latest <= checkpoint.version + 1
    BY <1>1, <2>1, GraphUpdates DEF Confirmed, TypeOK, Store
  <2>5. OneUncertain' /\ Agreement'
    BY <1>1, <2>1, <2>2, <2>3, <2>4 DEF OneUncertain, Agreement, InGraph
  <2>6. Places' /\ Recovering'
    BY <2>1 DEF Places, Recovering, InGraph
  <2> QED
    BY <1>1, <2>1, <2>5, <2>6 DEF Agreeing
<1>6. CASE InterruptSave
  <2>1. /\ pc = "interrupting" /\ pc' = "idle" /\ queue = <<>> /\ queue' = <<>>
        /\ checkpoint' = graph /\ store' = store
    BY <1>1, <1>6 DEF InterruptSave, Leave, Control
  <2>2. Saved' = {graph}
    BY <2>1 DEF Saved
  <2>3. OneUncertain' /\ Agreement'
    BY <1>1, <2>1, <2>2 DEF OneUncertain, Agreement, InGraph
  <2>4. Places' /\ Recovering'
    BY <2>1 DEF Places, Recovering, InGraph
  <2> QED
    BY <1>1, <2>1, <2>3, <2>4 DEF Agreeing
<1> QED
  BY <1>2, <1>3, <1>4, <1>5, <1>6

\* As long as no resume is cancelled while it reads, every step keeps the
\* agreement of the stores.
THEOREM StoresAgree == "abandon" \notin FaultKinds /\ Spec => []AInv
<1>1. Init => AInv
  BY InitHistory, InitAgreeing DEF AInv
<1>2. "abandon" \notin FaultKinds /\ AInv /\ [Next]_vars => AInv'
  <2> SUFFICES ASSUME "abandon" \notin FaultKinds, AInv, [Next]_vars PROVE AInv'
    OBVIOUS
  <2>1. HInv /\ DInv
    BY DEF AInv, HInv
  <2>2. HInv'
    BY <2>1, NextHistory
  <2>3. Agreeing'
    BY <2>1, StepEffect, ReturnAgrees, WorkAgrees, ReopenedAgrees, InterruptedAgrees,
       StartAgrees, RestAgrees
  <2> QED
    BY <2>2, <2>3 DEF AInv
<1>3. CASE "abandon" \notin FaultKinds
  <2>1. AInv /\ [Next]_vars => AInv'
    BY <1>2, <1>3
  <2> QED
    BY <1>1, <2>1, PTL DEF Spec
<1> QED
  BY <1>3

\* A step with an interrupted row is executed again only under the recovery
\* marker, whatever the operator decides, as long as no resume is cancelled
\* while it reads.
THEOREM RecoveredMarked == "abandon" \notin FaultKinds /\ Spec => []RecoveredStepIsMarked
<1>1. AInv => RecoveredStepIsMarked
  <2> SUFFICES ASSUME AInv, NEW k \in Key, StepAtWork(k), HasRow(store, k, "interrupted")
               PROVE  graph.active
    BY DEF RecoveredStepIsMarked
  <2>1. /\ TypeOK /\ Control /\ OneUncertain /\ Places /\ Recovering
        /\ pc = "executing" /\ pc \in InGraph \ {"starting", "blocked"}
        /\ IsNextStep(graph.state, k)
    BY DEF AInv, Agreeing, HInv, DInv, StepAtWork, InGraph
  <2>2. graph.state.execs[k] = "running"
    BY <2>1, WorkFrom
  <2>3. graph.active \/ Misplaced(graph.state, store, k)
    BY <2>1, <2>2 DEF Recovering, Control
  <2> QED
    BY <2>2, <2>3 DEF Misplaced
<1> QED
  BY <1>1, StoresAgree, PTL

\* If steps are not failed by decision either, the rows and a checkpoint of the
\* same version agree on what is completed.
THEOREM CommonVersionTrusted ==
  "abandon" \notin FaultKinds /\ "fail" \notin Decisions /\ Spec => []CommonVersionAgrees
<1>1. "fail" \notin Decisions /\ AInv => CommonVersionAgrees
  <2> SUFFICES ASSUME "fail" \notin Decisions, AInv, checkpoint.saved,
                      store.latest = checkpoint.version
               PROVE  WithStatus(checkpoint.state, "completed") = WithStatus(Restored, "completed")
    BY DEF CommonVersionAgrees
  <2>1. /\ TypeOK /\ RowOrder(store) /\ OneUncertain /\ Agreement /\ store \in Store
        /\ checkpoint.state \in AgentState /\ checkpoint \in Saved
    BY GraphUpdates DEF AInv, Agreeing, HInv, DInv, TypeOK, Saved
  <2>2. OneAtWork(checkpoint.state) /\ Agree(checkpoint.state, store)
    BY <2>1 DEF OneUncertain, Agreement, Confirmed
  <2>3. Reads(Restored, store)
    BY <2>1, <2>2, RestoredAgrees DEF Restored
  <2> QED
    BY <2>2, <2>3 DEF Reads, Agree, Same, Begun, Refused, Ended, FailDecided, WithStatus
<1>2. CASE "fail" \notin Decisions
  <2>1. AInv => CommonVersionAgrees
    BY <1>1, <1>2
  <2> QED
    BY <2>1, StoresAgree, PTL
<1> QED
  BY <1>2

\* Under the same conditions the row that marks a step running is accepted.
THEOREM RunningRowsAreAccepted ==
  "abandon" \notin FaultKinds /\ "fail" \notin Decisions /\ Spec => []RunningRowsAccepted
<1>1. "fail" \notin Decisions /\ AInv => RunningRowsAccepted
  <2> SUFFICES ASSUME "fail" \notin Decisions, AInv, pc = "mark_running",
                      NEW k \in Key, IsNextStep(graph.state, k),
                      NEW n \in DOMAIN store.rows[k],
                      store.rows[k][n].attempt = NextAttempt(store, k),
                      store.rows[k][n].status = "running"
               PROVE  FALSE
    BY DEF RunningRowsAccepted, Collides
  <2>1. /\ RowOrder(store) /\ Places /\ Agreement /\ store \in Store
    BY DEF AInv, Agreeing, HInv, DInv, TypeOK
  <2>2. graph.state.execs[k] # "running" /\ Current(graph.state, store)
    BY <2>1 DEF Places, Agreement, InGraph, WithStatus
  <2>3. store.newest[k].status # "running"
    BY <2>2 DEF Current, Same, Refused, Misplaced, FailDecided
  <2>4. store.rows[k] \in Seq(Row)
    BY <2>1 DEF Store
  <2>5. Recorded(store, k)
    BY <2>4 DEF Recorded
  <2>6. NextAttempt(store, k) = LastInserted(store, k).attempt + 1
    BY <2>1, <2>3, <2>5 DEF RowOrder, NextAttempt
  <2>7. /\ Len(store.rows[k]) \in DOMAIN store.rows[k] /\ n <= Len(store.rows[k])
        /\ LastInserted(store, k).attempt \in Nat
    <3>1. /\ Len(store.rows[k]) \in DOMAIN store.rows[k] /\ n <= Len(store.rows[k])
          /\ LastInserted(store, k) \in Row
      BY <2>4, <2>5 DEF Recorded, LastInserted
    <3> QED
      BY <3>1 DEF Row
  <2>8. store.rows[k][n].attempt <= LastInserted(store, k).attempt
    BY <2>1, <2>7 DEF RowOrder, LastInserted
  <2> QED
    BY <2>6, <2>7, <2>8
<1>2. CASE "fail" \notin Decisions
  <2>1. AInv => RunningRowsAccepted
    BY <1>1, <1>2
  <2> QED
    BY <2>1, StoresAgree, PTL
<1> QED
  BY <1>2

-----------------------------------------------------------------------------
(***************************************************************************)
(* Refinement.  A checkpoint is written one node after another, so each    *)
(* one is a single step of PlanExecution away from the one before it:      *)
(* along the queue, from its end to the memory, and from the checkpoint to *)
(* what a resume or an interrupt makes of it.                              *)
(***************************************************************************)
\* The steps PlanExecution allows its state.
Link(s, t) ==
  \/ t = s
  \/ \E p \in Plans : /\ s.plans # <<>> => FailedNext(s)
                      /\ Revision(s) < MaxRevision
                      /\ t = WithPlan(s, p)
  \/ \E k \in Key :
       /\ IsNextStep(s, k)
       /\ \/ s.execs[k] \in {"absent", "interrupted"} /\ t = WithStepExecution(s, k, "running")
          \/ s.execs[k] \in {"absent", "running"} /\ t = WithStepExecution(s, k, "interrupted")
          \/ \E outcome \in {"completed", "failed"} :
               s.execs[k] = "running" /\ t = WithStepExecution(s, k, outcome)

Chain ==
  /\ queue # <<>> => Link(checkpoint.state, queue[1].state)
  /\ \A n \in DOMAIN queue : n > 1 => Link(queue[n - 1].state, queue[n].state)
  /\ pc \in InGraph => Link(NewestSaved.state, graph.state)
  /\ pc = "interrupting" => Link(checkpoint.state, graph.state)

\* Only a run with a plan is completed.
Planned ==
  /\ pc \in InGraph \ {"starting", "plan", "blocked"} => graph.state.plans # <<>>
  /\ \A g \in Saved \union {graph} : g.status = "completed" => g.state.plans # <<>>

RInv == AInv /\ Chain /\ Planned

\* States with the same plans and executions are the same.
LEMMA SameState ==
  ASSUME NEW s \in AgentState, NEW t \in AgentState, t.plans = s.plans,
         \A k \in Key : t.execs[k] = s.execs[k]
  PROVE  t = s
<1>1. /\ s = [plans |-> s.plans, execs |-> s.execs]
      /\ t = [plans |-> t.plans, execs |-> t.execs]
  BY DEF AgentState
<1>2. t.execs = s.execs
  BY DEF AgentState
<1> QED
  BY <1>1, <1>2

\* A state that differs from s at most in an interruption of the next step.
LEMMA InterruptLinks ==
  ASSUME NEW s \in AgentState, NEW t \in AgentState, t.plans = s.plans,
         \A k \in Key : \/ t.execs[k] = s.execs[k]
                        \/ /\ IsNextStep(s, k)
                           /\ s.execs[k] \in {"absent", "running"}
                           /\ t.execs[k] = "interrupted"
  PROVE  Link(s, t)
<1>1. CASE \A k \in Key : t.execs[k] = s.execs[k]
  BY <1>1, SameState DEF Link
<1>2. CASE \E k \in Key : t.execs[k] # s.execs[k]
  <2>1. PICK k \in Key : t.execs[k] # s.execs[k]
    BY <1>2
  <2>2. /\ IsNextStep(s, k) /\ s.execs[k] \in {"absent", "running"}
        /\ t.execs[k] = "interrupted"
    BY <2>1
  <2> DEFINE w == WithStepExecution(s, k, "interrupted")
  <2>3. "interrupted" \in ExecutionStatus
    BY DEF ExecutionStatus
  <2>4. /\ w \in AgentState /\ w.plans = s.plans /\ w.execs[k] = "interrupted"
        /\ \A j \in Key : j # k => w.execs[j] = s.execs[j]
    BY <2>3, WithStepExecutionSets
  <2>5. \A j \in Key : j # k => t.execs[j] = s.execs[j]
    BY <2>2, NextStepUnique
  <2> HIDE DEF w
  <2>6. \A j \in Key : t.execs[j] = w.execs[j]
    BY <2>2, <2>4, <2>5
  <2>7. t = w
    BY <2>4, <2>6, SameState
  <2> QED
    BY <2>2, <2>7 DEF Link, w
<1> QED
  BY <1>1, <1>2

\* What a resume rebuilds, and what an interrupt marks, is one interruption away.
LEMMA StaleLinks ==
  ASSUME NEW s \in AgentState, OneAtWork(s)
  PROVE  /\ Link(s, MarkStaleInterrupted(s))
         /\ \A st \in Store : RowOrder(st) /\ Agree(s, st) /\ ~FailDecided
              => Link(s, MarkStaleInterrupted(RestoreExecutions(st, s)))
<1>1. \A k \in Key : s.execs[k] = "running" => IsNextStep(s, k)
  BY DEF OneAtWork, WithStatus
<1>2. Link(s, MarkStaleInterrupted(s))
  <2>1. /\ MarkStaleInterrupted(s) \in AgentState
        /\ MarkStaleInterrupted(s).plans = s.plans
        /\ \A k \in Key : MarkStaleInterrupted(s).execs[k] =
             IF s.execs[k] = "running" THEN "interrupted" ELSE s.execs[k]
    BY StaleAgrees
  <2> QED
    BY <1>1, <2>1, InterruptLinks
<1>3. ASSUME NEW st \in Store, RowOrder(st), Agree(s, st), ~FailDecided
      PROVE  Link(s, MarkStaleInterrupted(RestoreExecutions(st, s)))
  <2> DEFINE r == RestoreExecutions(st, s)
             t == MarkStaleInterrupted(r)
  <2>1. r \in AgentState /\ r.plans = s.plans /\ Reads(r, st) /\ OneAtWork(r)
    BY <1>3, RestoredAgrees
  <2> HIDE DEF r
  <2>2. /\ t \in AgentState /\ t.plans = s.plans
        /\ \A k \in Key : t.execs[k] = IF r.execs[k] = "running" THEN "interrupted"
                                                                  ELSE r.execs[k]
    BY <2>1, StaleAgrees
  <2> HIDE DEF t
  <2>3. \A k \in Key : Same(s, st, k) \/ Begun(s, st, k)
    BY <1>3 DEF Agree, Refused, Ended
  <2>4. \A k \in Key : \/ t.execs[k] = s.execs[k]
                       \/ /\ IsNextStep(s, k)
                          /\ s.execs[k] \in {"absent", "running"}
                          /\ t.execs[k] = "interrupted"
    BY <1>1, <2>1, <2>2, <2>3 DEF Reads, Same, Begun
  <2> QED
    BY <2>2, <2>4, InterruptLinks DEF t, r
<1> QED
  BY <1>2, <1>3

LEMMA InitRefines == Init => Chain /\ Planned
<1> SUFFICES ASSUME Init PROVE Chain /\ Planned
  OBVIOUS
<1>1. /\ pc = "idle" /\ queue = <<>> /\ Saved = {NoGraph} /\ graph = NoGraph
      /\ NoGraph.status = "none"
  BY SavedAtRest DEF Init, NoGraph
<1> QED
  BY <1>1 DEF Chain, Planned, InGraph

\* What changes neither queue nor checkpoint keeps their part of the chain.
LEMMA ChainKept ==
  ASSUME Chain, UNCHANGED <<queue, checkpoint>>,
         pc' \in InGraph => Link(NewestSaved.state, graph'.state),
         pc' = "interrupting" => Link(checkpoint.state, graph'.state)
  PROVE  Chain'
<1>1. NewestSaved' = NewestSaved
  BY DEF NewestSaved
<1> QED
  BY <1>1 DEF Chain

\* A returned state is one link after the last returned one.
LEMMA ReturnChain ==
  ASSUME RInv, NEW g \in GraphState, NEW next \in Location, Returning(g, next)
  PROVE  Chain'
<1>1. TypeOK /\ Control /\ Places /\ Chain /\ queue \in Seq(GraphState)
  BY DEF RInv, AInv, Agreeing, HInv, DInv, TypeOK
<1>2. /\ Saved' = Saved \union {g}
      /\ Len(queue) \in Nat
      /\ DOMAIN queue = 1 .. Len(queue)
      /\ DOMAIN queue' = 1 .. Len(queue) + 1
      /\ queue'[Len(queue) + 1] = g
      /\ \A n \in DOMAIN queue : queue'[n] = queue[n]
      /\ checkpoint' = checkpoint
      /\ pc' = next /\ graph' = g /\ g = NewestSaved'
      /\ pc' # "interrupting"
  BY <1>1, ReturnSaved, ReturnNewest DEF Returning
<1>3. Link(NewestSaved.state, g.state)
  <2>1. Link(NewestSaved.state, graph.state)
    BY <1>1 DEF Chain, Returning
  <2>2. CASE g.state = graph.state
    BY <2>1, <2>2
  <2>3. CASE g.state # graph.state
    <3>1. PICK p \in Plans : /\ g.state = WithPlan(graph.state, p)
                             /\ Revision(graph.state) < MaxRevision
                             /\ graph.state.plans = <<>> \/ pc = "replan"
      BY <2>3 DEF Returning
    <3>2. graph.state.plans # <<>> => FailedNext(graph.state)
      BY <1>1, <3>1 DEF Control
    <3>3. graph = NewestSaved
      BY <1>1, <2>3 DEF Places, Returning
    <3> QED
      BY <3>1, <3>2, <3>3 DEF Link
  <2> QED
    BY <2>2, <2>3
<1>4. ASSUME NEW n \in DOMAIN queue', n > 1
      PROVE  Link(queue'[n - 1].state, queue'[n].state)
  <2>1. CASE n \in DOMAIN queue
    <3>1. n - 1 \in DOMAIN queue
      BY <1>2, <1>4, <2>1
    <3> QED
      BY <1>1, <1>2, <1>4, <2>1, <3>1 DEF Chain
  <2>2. CASE n \notin DOMAIN queue
    <3>1. n = Len(queue) + 1 /\ Len(queue) \in DOMAIN queue /\ n - 1 = Len(queue)
      BY <1>2, <1>4, <2>2
    <3>2. NewestSaved = queue[Len(queue)]
      BY <1>2, <3>1 DEF NewestSaved
    <3> QED
      BY <1>2, <1>3, <3>1, <3>2
  <2> QED
    BY <2>1, <2>2
<1>5. Link(checkpoint.state, queue'[1].state)
  <2>1. CASE queue = <<>>
    <3>1. Len(queue) = 0
      BY <2>1
    <3> QED
      BY <1>2, <1>3, <2>1, <3>1 DEF NewestSaved
  <2>2. CASE queue # <<>>
    <3>1. 1 \in DOMAIN queue
      BY <1>1, <2>2
    <3> QED
      BY <1>1, <1>2, <2>2, <3>1 DEF Chain
  <2> QED
    BY <2>1, <2>2
<1>6. Link(g.state, g.state)
  BY DEF Link
<1> QED
  BY <1>2, <1>4, <1>5, <1>6 DEF Chain

LEMMA NextChain == ~FailDecided /\ RInv /\ [Next]_vars => Chain'
<1> SUFFICES ASSUME ~FailDecided, RInv, [Next]_vars PROVE Chain'
  OBVIOUS
<1>1. /\ AInv /\ HInv /\ DInv /\ TypeOK /\ Control /\ Chain
      /\ RowOrder(store) /\ OneUncertain /\ Places /\ Agreement
      /\ store \in Store /\ checkpoint.state \in AgentState
  BY GraphUpdates DEF RInv, AInv, Agreeing, HInv, DInv, TypeOK
<1>2. CASE \E g \in GraphState, next \in Location : Returning(g, next)
  BY <1>2, ReturnChain
<1>3. CASE MarkRunning \/ ExecuteEnd
  <2>1. PICK k \in Key, status \in ExecutionStatus \ {"interrupted"} :
          /\ \/ /\ pc = "mark_running" /\ pc' = "marked" /\ status = "running"
                /\ graph.state.execs[k] # "failed"
             \/ pc = "executing" /\ pc' = "executed" /\ status \in {"completed", "failed"}
          /\ IsNextStep(graph.state, k)
          /\ graph'.state = WithStepExecution(graph.state, k, status)
          /\ UNCHANGED <<queue, checkpoint>>
    BY <1>1, <1>3, WorkEffect
  <2>2. NewestSaved = graph
    BY <1>1, <2>1 DEF Places, InGraph
  <2>3. Link(graph.state, graph'.state)
    BY <1>1, <2>1, WorkFrom DEF Link
  <2> QED
    BY <1>1, <2>1, <2>2, <2>3, ChainKept
<1>4. CASE Save
  <2>1. /\ queue # <<>> /\ checkpoint' = queue[1] /\ 1 \in DOMAIN queue
        /\ \A n \in DOMAIN queue' : n + 1 \in DOMAIN queue /\ queue'[n] = queue[n + 1]
        /\ UNCHANGED <<pc, graph>>
        /\ NewestSaved' = NewestSaved
        /\ queue \in Seq(GraphState) /\ queue' \in Seq(GraphState)
    BY <1>1, <1>4, SaveSaved, SaveNewest DEF Save, TypeOK
  <2>2. /\ DOMAIN queue' \subseteq Nat \ {0}
        /\ queue' # <<>> => 1 \in DOMAIN queue'
        /\ \A n \in DOMAIN queue' : n > 1 => n - 1 \in DOMAIN queue'
    BY <2>1
  <2>3. ASSUME NEW n \in DOMAIN queue' PROVE Link(queue[n].state, queue'[n].state)
    <3>1. /\ n + 1 \in DOMAIN queue /\ queue'[n] = queue[n + 1]
          /\ n \in Nat /\ n > 0
      BY <2>1, <2>2
    <3>2. n + 1 > 1 /\ (n + 1) - 1 = n
      BY <3>1
    <3>3. Link(queue[(n + 1) - 1].state, queue[n + 1].state)
      BY <1>1, <3>1, <3>2 DEF Chain
    <3> QED
      BY <3>1, <3>2, <3>3
  <2>4. /\ queue' # <<>> => Link(checkpoint'.state, queue'[1].state)
        /\ \A n \in DOMAIN queue' : n > 1 => Link(queue'[n - 1].state, queue'[n].state)
    <3>1. ASSUME NEW n \in DOMAIN queue', n > 1 PROVE queue'[n - 1] = queue[n]
      <4>1. n - 1 \in DOMAIN queue' /\ n \in Nat
        BY <2>2, <3>1
      <4>2. queue'[n - 1] = queue[(n - 1) + 1] /\ (n - 1) + 1 = n
        BY <2>1, <4>1
      <4> QED
        BY <4>2
    <3> QED
      BY <2>1, <2>2, <2>3, <3>1
  <2>5. pc # "interrupting"
    BY <1>1, <2>1 DEF Control
  <2> QED
    BY <1>1, <2>1, <2>4, <2>5 DEF Chain
<1>5. CASE Forgetting
  <2>1. pc' \in {"idle", "cancelled"} /\ queue' \in {queue, <<>>} /\ checkpoint' = checkpoint
    BY <1>5 DEF Forgetting
  <2>2. queue' = <<>> => DOMAIN queue' = {}
    OBVIOUS
  <2> QED
    BY <1>1, <2>1, <2>2 DEF Chain, InGraph
<1>6. CASE Waiting
  <2>1. /\ UNCHANGED <<graph, queue, checkpoint>>
        /\ pc' \in InGraph => pc \in InGraph
        /\ pc' = "interrupting" => pc = "interrupting"
    BY <1>6 DEF Waiting, InGraph
  <2> QED
    BY <1>1, <2>1, ChainKept DEF Chain
<1>7. CASE \E viaRouter \in BOOLEAN : Start(viaRouter)
  <2>1. /\ checkpoint = NoGraph /\ queue = <<>> /\ UNCHANGED <<queue, checkpoint>>
        /\ pc' = "starting" /\ graph'.state = NoGraph.state
    BY <1>1, <1>7 DEF Start, HInv, Unstarted, NoGraph
  <2>2. Link(NewestSaved.state, graph'.state)
    BY <2>1 DEF NewestSaved, Link
  <2> QED
    BY <1>1, <2>1, <2>2, ChainKept
<1>8. CASE ResumeTerminal
  BY <1>1, <1>8, ChainKept DEF ResumeTerminal, Resuming, InGraph
<1>9. CASE Reopened
  <2>1. /\ pc' = "starting" /\ queue = <<>> /\ UNCHANGED <<queue, checkpoint>>
        /\ Confirmed(store, checkpoint.version)
    BY <1>1, <1>9, ReopenedEffect DEF CanResume
  <2>2. checkpoint \in Saved /\ NewestSaved = checkpoint
    BY <2>1 DEF Saved, NewestSaved
  <2>3. graph'.state = Stale
    BY <1>1, <1>9, ReopenedDecision
  <2>4. OneAtWork(checkpoint.state) /\ Agree(checkpoint.state, store)
    BY <1>1, <2>1, <2>2 DEF OneUncertain, Agreement
  <2>5. Link(checkpoint.state, Stale)
    BY <1>1, <2>4, StaleLinks DEF Stale, Restored
  <2> QED
    BY <1>1, <2>1, <2>2, <2>3, <2>5, ChainKept
<1>10. CASE Interrupted
  <2>1. /\ pc' = "interrupting" /\ UNCHANGED <<queue, checkpoint>>
        /\ graph'.state = MarkStaleInterrupted(checkpoint.state)
    BY <1>1, <1>10, InterruptedEffect
  <2>2. OneAtWork(checkpoint.state)
    BY <1>1 DEF OneUncertain, Saved
  <2>3. Link(checkpoint.state, graph'.state)
    BY <1>1, <2>1, <2>2, StaleLinks
  <2> QED
    BY <1>1, <2>1, <2>3, ChainKept DEF InGraph
<1>11. CASE InterruptSave
  <2>1. pc' = "idle" /\ queue' = <<>> /\ DOMAIN <<>> = {}
    BY <1>1, <1>11 DEF InterruptSave, Leave, Control
  <2> QED
    BY <2>1 DEF Chain, InGraph
<1> QED
  BY <1>1, <1>2, <1>3, <1>4, <1>5, <1>6, <1>7, <1>8, <1>9, <1>10, <1>11, StepEffect

LEMMA NextPlanned == RInv /\ [Next]_vars => Planned'
<1> SUFFICES ASSUME RInv, [Next]_vars PROVE Planned'
  OBVIOUS
<1>1. HInv /\ DInv /\ TypeOK /\ Control /\ Planned
  BY DEF RInv, AInv, HInv, DInv
<1>2. CASE \E g \in GraphState, next \in Location : Returning(g, next)
  <2>1. PICK g \in GraphState, next \in Location : Returning(g, next)
    BY <1>2
  <2>2. Saved' = Saved \union {g} /\ graph' = g /\ pc' = next
    BY <1>1, <2>1, ReturnSaved DEF Returning, Return
  <2>3. graph.state.plans # <<>> => g.state.plans # <<>>
    <3>1. ASSUME NEW p \in Plans, Revision(graph.state) < MaxRevision,
                 g.state = WithPlan(graph.state, p)
          PROVE  g.state.plans # <<>>
      <4>1. Len(g.state.plans) = Len(graph.state.plans) + 1 /\ Len(graph.state.plans) \in Nat
        BY <1>1, <3>1, GraphUpdates, WithPlanAppends DEF TypeOK, Revision
      <4> QED
        BY <4>1
    <3> QED
      BY <2>1, <3>1 DEF Returning
  <2>4. next \in InGraph \ {"starting", "plan", "blocked"} => g.state.plans # <<>>
    BY <1>1, <2>1, <2>3 DEF Planned, Returning, InGraph
  <2>5. g.status = "completed" => g.state.plans # <<>>
    BY <1>1, <2>1, <2>3 DEF Planned, Returning, Control, InGraph
  <2> QED
    BY <1>1, <2>2, <2>4, <2>5 DEF Planned
<1>3. CASE MarkRunning \/ ExecuteEnd
  <2>1. PICK k \in Key, status \in ExecutionStatus :
          /\ pc \in {"mark_running", "executing"}
          /\ graph'.state = WithStepExecution(graph.state, k, status)
          /\ graph'.status = graph.status
          /\ UNCHANGED <<queue, checkpoint>>
    BY <1>1, <1>3, WorkEffect
  <2>2. graph'.state.plans = graph.state.plans /\ graph.state.plans # <<>>
    BY <1>1, <2>1, GraphUpdates, WithStepExecutionSets DEF Planned, TypeOK, InGraph
  <2> QED
    BY <1>1, <2>1, <2>2 DEF Planned, Saved
<1>4. CASE Save
  BY <1>1, <1>4, SaveSaved DEF Planned
<1>5. ASSUME pc' \notin InGraph, Saved' \subseteq Saved \union {graph},
             graph'.status # "completed" \/ graph' \in Saved \union {graph}
      PROVE  Planned'
  BY <1>1, <1>5 DEF Planned
<1>6. CASE Forgetting
  BY <1>5, <1>6 DEF Forgetting, Saved, NoGraph, InGraph
<1>7. CASE Waiting
  BY <1>1, <1>7 DEF Waiting, Planned, Saved, InGraph
<1>8. ASSUME UNCHANGED <<queue, checkpoint>>, pc' = "starting",
             graph'.status \in {"resuming", "blocked"}
      PROVE  Planned'
  BY <1>1, <1>8 DEF Planned, Saved
<1>9. CASE \E viaRouter \in BOOLEAN : Start(viaRouter)
  BY <1>8, <1>9 DEF Start, NoGraph
<1>10. CASE ResumeTerminal
  BY <1>5, <1>10 DEF ResumeTerminal, Resuming, Saved, InGraph
<1>11. CASE Reopened
  BY <1>1, <1>8, <1>11, ReopenedEffect
<1>12. CASE Interrupted
  BY <1>1, <1>5, <1>12, InterruptedEffect DEF Saved, InGraph
<1>13. CASE InterruptSave
  BY <1>1, <1>5, <1>13 DEF InterruptSave, Leave, Saved, NoGraph, InGraph
<1> QED
  BY <1>1, <1>2, <1>3, <1>4, <1>6, <1>7, <1>9, <1>10, <1>11, <1>12, <1>13, StepEffect

-----------------------------------------------------------------------------
\* A link is a step of PlanExecution while the run is open.
LEMMA LinkSteps ==
  ASSUME registry = "running", registry' = registry, Link(checkpoint.state, checkpoint'.state)
  PROVE  [Promise!PNext]_(Promise!pvars)
<1>1. CASE checkpoint'.state = checkpoint.state
  BY <1>1 DEF Promise!pvars
<1>2. ASSUME NEW p \in Plans, checkpoint.state.plans # <<>> => FailedNext(checkpoint.state),
             Revision(checkpoint.state) < MaxRevision,
             checkpoint'.state = WithPlan(checkpoint.state, p)
      PROVE  Promise!PNext
  <2>1. Promise!AddPlan(p)
    BY <1>2
    DEF Promise!AddPlan, Promise!FailedNext, Promise!WithStatus, Promise!IsNextStep,
        Promise!Revision, Promise!WithPlan, Promise!Key, FailedNext, WithStatus, IsNextStep,
        Revision, WithPlan, Key
  <2> QED
    BY <2>1 DEF Promise!PNext
<1>3. ASSUME NEW k \in Key, IsNextStep(checkpoint.state, k)
      PROVE  k \in Promise!Key /\ Promise!IsNextStep(checkpoint.state, k)
  BY <1>3 DEF Promise!Key, Promise!IsNextStep, Promise!Revision, Key, IsNextStep, Revision
<1>4. ASSUME NEW k \in Key, IsNextStep(checkpoint.state, k), NEW status,
             checkpoint'.state = WithStepExecution(checkpoint.state, k, status),
             \/ checkpoint.state.execs[k] \in {"absent", "interrupted"} /\ status = "running"
             \/ checkpoint.state.execs[k] \in {"absent", "running"} /\ status = "interrupted"
             \/ checkpoint.state.execs[k] = "running" /\ status \in {"completed", "failed"}
      PROVE  Promise!PNext
  <2>1. Promise!StartStep(k) \/ Promise!InterruptStep(k)
          \/ \E outcome \in {"completed", "failed"} : Promise!EndStep(k, outcome)
    BY <1>3, <1>4
    DEF Promise!StartStep, Promise!InterruptStep, Promise!EndStep, Promise!WithStepExecution,
        WithStepExecution
  <2> QED
    BY <1>3, <1>4, <2>1 DEF Promise!PNext
<1> QED
  BY <1>1, <1>2, <1>4 DEF Link

\* The registry changes when a run starts and when it is settled.
LEMMA RegistryMoves ==
  ASSUME [Next]_vars
  PROVE  \/ registry' = registry
         \/ \E viaRouter \in BOOLEAN : Start(viaRouter)
         \/ Finish \/ RaiseOut
<1>1. CASE UNCHANGED vars
  BY <1>1 DEF vars
<1>2. CASE Node
  BY <1>2
  DEF Node, Begin, PlanNew, PlanKept, MarkRunning, MarkReturn, MarkFailedStep, MarkCollides,
      ExecuteBegin, ExecuteEnd, ExecuteReturn, Replan, ReplanExhausted, Terminal, Outer
<1>3. CASE Save \/ Interrupt
  BY <1>3
  DEF Save, Interrupt, InterruptRunning, InterruptIdleStep, InterruptUnsaved, InterruptSave, Outer
<1>4. CASE Resume
  BY <1>4
  DEF Resume, ResumeUnsaved, ResumeRefused, ResumeInvalid, ResumeTerminal, ResumeContinue,
      ResumeRecover, ResumeFail, ResumeAbort, Reopening, Resuming
<1>5. CASE Crash \/ Raise \/ Cancel \/ CancelReading
  BY <1>5 DEF Crash, Raise, Cancel, CancelReading
<1> QED
  BY <1>1, <1>2, <1>3, <1>4, <1>5 DEF Next

\* Every step of the run is one of PlanExecution, or a stutter.
LEMMA StepRefines == RInv /\ [Next]_vars => [Promise!PNext]_(Promise!pvars)
<1> SUFFICES ASSUME RInv, [Next]_vars PROVE [Promise!PNext]_(Promise!pvars)
  OBVIOUS
<1>1. /\ HInv /\ DInv /\ TypeOK /\ Control /\ Justified /\ Chain /\ Planned
  BY DEF RInv, AInv, HInv, DInv
<1>2. CASE \E viaRouter \in BOOLEAN : Start(viaRouter)
  BY <1>2 DEF Start, Promise!PNext, Promise!Create
<1>3. CASE Finish
  <2>1. /\ graph = checkpoint /\ graph.status \in {"completed", "blocked"}
        /\ registry = "running" /\ registry' = graph.status /\ checkpoint' = checkpoint
    BY <1>1, <1>3 DEF Finish, Control, NewestSaved
  <2>2. CASE checkpoint.status = "completed"
    <3>1. /\ AllStepsCompleted(checkpoint.state) /\ checkpoint.state.plans # <<>>
      BY <1>1, <2>1, <2>2 DEF Justified, Backed, Planned
    <3>2. Promise!Complete
      BY <2>1, <2>2, <3>1
      DEF Promise!Complete, Promise!AllStepsCompleted, AllStepsCompleted, Promise!Revision, Revision
    <3> QED
      BY <3>2 DEF Promise!PNext
  <2>3. CASE checkpoint.status = "blocked"
    <3>1. Blockable(checkpoint.state)
      BY <1>1, <2>3 DEF Justified, Backed
    <3>2. Promise!Block
      BY <2>1, <2>3, <3>1
      DEF Blockable, Promise!Block, Promise!FailedNext, Promise!WithStatus, Promise!IsNextStep,
          Promise!Revision, Promise!Key, FailedNext, WithStatus, IsNextStep, Revision, Key
    <3> QED
      BY <3>2 DEF Promise!PNext
  <2> QED
    BY <2>1, <2>2, <2>3
<1>4. CASE RaiseOut
  <2>1. /\ registry = "running" /\ registry' \in {"running", "failed"} /\ checkpoint' = checkpoint
    BY <1>1, <1>4 DEF RaiseOut, Control
  <2> QED
    BY <2>1 DEF Promise!PNext, Promise!Fail, Promise!pvars
<1>5. CASE registry' = registry
  <2>1. CASE Save
    <3>1. queue # <<>> /\ checkpoint' = queue[1]
      BY <1>1, <2>1, SaveSaved DEF Save
    <3>2. registry = "running" /\ Link(checkpoint.state, checkpoint'.state)
      BY <1>1, <3>1 DEF Control, Chain
    <3> QED
      BY <1>5, <3>2, LinkSteps
  <2>2. CASE InterruptSave
    <3>1. registry = "running" /\ Link(checkpoint.state, checkpoint'.state)
      BY <1>1, <2>2 DEF InterruptSave, Control, Chain
    <3> QED
      BY <1>5, <3>1, LinkSteps
  <2>3. CASE checkpoint' = checkpoint
    BY <1>5, <2>3 DEF Promise!pvars
  <2>4. Save \/ InterruptSave \/ checkpoint' = checkpoint
    BY <1>1, StepEffect, WorkEffect, ReopenedEffect, InterruptedEffect
    DEF Returning, Forgetting, Waiting, Start, ResumeTerminal, Resuming
  <2> QED
    BY <2>1, <2>2, <2>3, <2>4
<1> QED
  BY <1>2, <1>3, <1>4, <1>5, RegistryMoves

\* As long as no resume is cancelled while it reads and no step is failed by
\* decision, a durable run implements PlanExecution through every restart.
THEOREM DurableImplements ==
  "abandon" \notin FaultKinds /\ "fail" \notin Decisions /\ Spec => ImplementsPlanExecution
<1>1. CASE "abandon" \notin FaultKinds /\ "fail" \notin Decisions
  <2>1. Init => Promise!PInit
    BY DEF Init, NoGraph, Promise!PInit, Promise!NewAgentState, NewAgentState, Promise!Key, Key
  <2>2. Init => Chain /\ Planned
    BY InitRefines
  <2>3. (Chain /\ Planned) /\ AInv /\ [Next]_vars => (Chain /\ Planned)'
    BY <1>1, NextChain, NextPlanned DEF RInv, FailDecided
  <2>4. (Chain /\ Planned) /\ AInv /\ [Next]_vars => [Promise!PNext]_(Promise!pvars)
    BY StepRefines DEF RInv
  <2>5. Spec => []AInv
    BY <1>1, StoresAgree, PTL
  <2>6. Spec => Promise!PInit /\ [][Promise!PNext]_(Promise!pvars)
    BY <2>1, <2>2, <2>3, <2>4, <2>5, PTL DEF Spec
  <2> QED
    BY <2>6 DEF ImplementsPlanExecution, Promise!PSpec
<1> QED
  BY <1>1

Kept == INSTANCE PlanExecutionProofs WITH state <- checkpoint.state, phase <- registry

\* So what PlanExecution keeps, every restart keeps too: the steps of a revision
\* are touched in plan order, a revision is left only at its failed step, and a
\* completed or blocked run has the steps that justify it.
THEOREM DurableKeepsPlans ==
  "abandon" \notin FaultKinds /\ "fail" \notin Decisions /\ Spec
    => [](Kept!PlanOrder /\ Kept!SupersededFailed /\ Kept!OutcomeHolds)
<1>1. Promise!PInit <=> Kept!PInit
  BY DEF Promise!PInit, Kept!PInit, Promise!NewAgentState, Kept!NewAgentState,
         Promise!Key, Kept!Key
<1>2. /\ Promise!pvars = Kept!pvars
      /\ Promise!pvars' = Kept!pvars'
  BY DEF Promise!pvars, Kept!pvars
<1>3. Promise!PNext <=> Kept!PNext
  BY DEF Promise!PNext, Kept!PNext, Promise!Create, Kept!Create, Promise!Complete,
         Kept!Complete, Promise!Block, Kept!Block, Promise!Fail, Kept!Fail, Promise!AddPlan,
         Kept!AddPlan, Promise!StartStep, Kept!StartStep, Promise!EndStep, Kept!EndStep,
         Promise!InterruptStep, Kept!InterruptStep, Promise!Key, Kept!Key,
         Promise!FailedNext, Kept!FailedNext, Promise!Revision, Kept!Revision,
         Promise!IsNextStep, Kept!IsNextStep, Promise!WithPlan, Kept!WithPlan,
         Promise!WithStepExecution, Kept!WithStepExecution, Promise!WithStatus,
         Kept!WithStatus, Promise!AllStepsCompleted, Kept!AllStepsCompleted
<1>4. [Promise!PNext]_(Promise!pvars) <=> [Kept!PNext]_(Kept!pvars)
  BY <1>2, <1>3
<1>5. Promise!PSpec <=> Kept!PSpec
  BY <1>1, <1>4, PTL DEF Promise!PSpec, Kept!PSpec
<1>6. Kept!PSpec => [](Kept!PlanOrder /\ Kept!SupersededFailed /\ Kept!OutcomeHolds)
  BY Kept!PlanExecutionSafe, PlansAssumption, RevisionAssumption DEF IsPlan, Kept!IsPlan
<1> QED
  BY <1>5, <1>6, DurableImplements DEF ImplementsPlanExecution

-----------------------------------------------------------------------------
(***************************************************************************)
(* Promises: what the documentation says of a resume and of an executed    *)
(* step, under the faults for which the code keeps it.                     *)
(***************************************************************************)
\* An interrupt() that records a running step gives the rows its own version.
Confirming ==
  pc = "interrupting" /\ WithStatus(checkpoint.state, "running") # {}
    => store.latest = graph.version

\* The rows are at most one version ahead of the checkpoint it read.
LEMMA NextConfirming == AInv /\ Confirming /\ [Next]_vars => Confirming'
<1> SUFFICES ASSUME AInv, Confirming, [Next]_vars, pc' = "interrupting",
                    WithStatus(checkpoint.state, "running")' # {}
             PROVE  (store.latest = graph.version)'
  BY DEF Confirming
<1>1. HInv /\ DInv /\ TypeOK /\ Control /\ Agreement
  BY DEF AInv, Agreeing, HInv, DInv
<1>2. CASE Interrupted
  <2>1. /\ pc = "cancelled" /\ queue = <<>> /\ checkpoint' = checkpoint
        /\ graph'.version = checkpoint.version + 1
    BY <1>1, <1>2, InterruptedEffect
  <2>2. ~InterruptIdleStep
    BY <2>1 DEF InterruptIdleStep
  <2>3. PICK k \in Key : store' = Insert(store, k, "interrupted", checkpoint.version + 1)
    BY <1>2, <2>2 DEF Interrupted, InterruptRunning
  <2>4. store.latest <= checkpoint.version + 1
    BY <1>1, <2>1 DEF Agreement, NewestSaved
  <2>5. store.latest \in Nat /\ checkpoint.version \in Nat
    BY <1>1, GraphUpdates DEF TypeOK, Store
  <2>6. store'.latest = IF checkpoint.version + 1 > store.latest THEN checkpoint.version + 1
                                                                 ELSE store.latest
    BY <2>3 DEF Insert
  <2> QED
    BY <2>1, <2>4, <2>5, <2>6
<1>3. CASE Waiting
  BY <1>3 DEF Waiting, Confirming, InGraph
<1>4. ~Save
  <2>1. Save => pc' = pc /\ queue # <<>>
    BY DEF Save
  <2> QED
    BY <1>1, <2>1 DEF Control
<1>5. /\ ~(\E g \in GraphState, next \in Location : Returning(g, next))
      /\ ~MarkRunning /\ ~ExecuteEnd /\ ~Forgetting /\ ~(\E via \in BOOLEAN : Start(via))
      /\ ~ResumeTerminal /\ ~InterruptSave
  BY DEF Returning, Return, MarkRunning, ExecuteEnd, Forgetting, Start, ResumeTerminal,
         InterruptSave, Leave
<1>6. ~Reopened
  BY <1>1, ReopenedEffect
<1> QED
  BY <1>1, <1>2, <1>3, <1>4, <1>5, <1>6, StepEffect

\* An interruption that finds a step running leaves versions that agree.
THEOREM InterruptedIsResumable == "abandon" \notin FaultKinds /\ Spec => InterruptedStepResumable
<1> DEFINE Resumable == InterruptSave /\ WithStatus(checkpoint.state, "running") # {}
                          => Confirmed(store', checkpoint'.version)
<1>1. Init => Confirming
  BY DEF Init, Confirming
<1>2. AInv /\ Confirming /\ [Next]_vars => Confirming'
  BY NextConfirming
<1>3. Confirming => Resumable
  BY DEF Confirming, InterruptSave, Confirmed
<1>4. Confirming => [InterruptSave /\ WithStatus(checkpoint.state, "running") # {}
                       => Confirmed(store', checkpoint'.version)]_vars
  BY <1>3
<1> QED
  BY <1>1, <1>2, <1>4, StoresAgree, PTL DEF Spec, InterruptedStepResumable

-----------------------------------------------------------------------------
\* While no wait is cancelled, the newest row of a step that ever completed
\* says so.
Uncancelled == pc \notin {"cancelled", "interrupting"}

Lasting(st) == \A k \in Key : HasRow(st, k, "completed") => st.newest[k].status = "completed"

\* A row of a step that has not completed leaves completions the newest word.
LEMMA InsertLasting ==
  ASSUME NEW st \in Store, RowOrder(st), Lasting(st),
         NEW k \in Key, st.newest[k].status # "completed",
         NEW status \in ExecutionStatus, NEW version \in Nat, version >= st.newest[k].version
  PROVE  Lasting(Insert(st, k, status, version))
<1> DEFINE new == Insert(st, k, status, version)
<1>1. /\ new.newest[k].status = status
      /\ \A j \in Key : j # k => new.newest[j] = st.newest[j]
  BY InsertOrder
<1>2. \A j \in Key : j # k => new.rows[j] = st.rows[j]
  BY InsertRows
<1>3. ~HasRow(st, k, "completed")
  BY DEF Lasting
<1>4. HasRow(new, k, "completed") => status = "completed"
  BY <1>3, InsertAddsOne
<1> HIDE DEF new
<1>5. \A j \in Key : j # k => (HasRow(new, j, "completed") <=> HasRow(st, j, "completed"))
  BY <1>2 DEF HasRow
<1>6. Lasting(new)
  BY <1>1, <1>4, <1>5 DEF Lasting
<1> QED
  BY <1>6 DEF new

\* The next step of a graph at work has no completed row.
LEMMA NextIsIncomplete ==
  ASSUME AInv, pc \in InGraph, NEW k \in Key, IsNextStep(graph.state, k)
  PROVE  store.newest[k].status # "completed"
<1>1. Current(graph.state, store)
  BY DEF AInv, Agreeing, Agreement
<1>2. graph.state.execs[k] # "completed"
  BY DEF IsNextStep
<1> QED
  BY <1>1, <1>2 DEF Current, Same, Refused, Misplaced

\* No step of the run takes back a completion: the resume's interrupted row is
\* inserted for a step that has none, and no process is cancelled.
LEMMA NextLasting ==
  ASSUME {"cancel", "abandon"} \intersect FaultKinds = {}
  PROVE  AInv /\ Uncancelled /\ Lasting(store) /\ [Next]_vars => Uncancelled' /\ Lasting(store')
<1> SUFFICES ASSUME AInv, Uncancelled, Lasting(store), [Next]_vars
             PROVE  Uncancelled' /\ Lasting(store')
  OBVIOUS
<1>1. /\ HInv /\ DInv /\ TypeOK /\ Control /\ Numbering /\ store \in Store
      /\ RowOrder(store) /\ OneUncertain /\ Places /\ Agreement
      /\ store.latest \in Nat /\ graph.version \in Nat
      /\ \A k \in Key : store.newest[k].version \in Nat
                        /\ store.newest[k].version <= store.latest
  <2>1. /\ HInv /\ DInv /\ TypeOK /\ Control /\ Numbering /\ store \in Store
        /\ RowOrder(store) /\ OneUncertain /\ Places /\ Agreement
        /\ store.latest \in Nat /\ graph.version \in Nat
    BY GraphUpdates DEF AInv, Agreeing, HInv, DInv, TypeOK, Store
  <2>2. \A k \in Key : store.newest[k] \in Row \union {NoRow}
    BY <2>1 DEF Store
  <2>3. \A k \in Key : store.newest[k].version \in Nat
    BY <2>2 DEF Row, NoRow
  <2> QED
    BY <2>1, <2>3 DEF Numbering
<1>2. Uncancelled'
  <2>1. pc' = "cancelled" => pc = "cancelled" \/ Cancel \/ CancelReading
    BY DEF Next, Node, Interrupt, Resume, Start, Begin, PlanNew, PlanKept, MarkRunning,
           MarkReturn, MarkFailedStep, MarkCollides, ExecuteBegin, ExecuteEnd, ExecuteReturn,
           Replan, ReplanExhausted, Terminal, Finish, RaiseOut, Save, InterruptRunning,
           InterruptIdleStep, InterruptUnsaved, InterruptSave, ResumeUnsaved, ResumeRefused,
           ResumeInvalid, ResumeTerminal, ResumeContinue, ResumeRecover, ResumeFail,
           ResumeAbort, Reopening, Crash, Raise, Return, Leave, StartNode, AfterPlan,
           AfterExecute, vars
  <2>2. ~Cancel /\ ~CancelReading
    BY DEF Cancel, CancelReading, Fault
  <2>3. pc' = "interrupting" => pc \in {"cancelled", "interrupting"}
    BY <1>1, StepEffect, ReopenedEffect, WorkEffect
    DEF Returning, Return, Save, Forgetting, Waiting, Start, ResumeTerminal, Interrupted,
        InterruptRunning, InterruptIdleStep, InterruptSave, Leave, InGraph
  <2> QED
    BY <2>1, <2>2, <2>3 DEF Uncancelled
<1>3. CASE MarkRunning \/ ExecuteEnd
  <2>1. PICK k \in Key, status \in ExecutionStatus :
          /\ pc \in InGraph
          /\ pc = "mark_running" \/ pc = "executing"
          /\ IsNextStep(graph.state, k)
          /\ store' = Insert(store, k, status, graph.version + 1)
    BY <1>1, <1>3, WorkEffect DEF InGraph
  <2>2. store.newest[k].status # "completed"
    BY <2>1, NextIsIncomplete
  <2>3. graph.version + 1 \in Nat /\ graph.version + 1 >= store.newest[k].version
    BY <1>1, <2>1 DEF Numbering
  <2> QED
    BY <1>1, <1>2, <2>1, <2>2, <2>3, InsertLasting
<1>4. CASE Reopened
  <2>1. CASE store' = store
    BY <1>2, <2>1
  <2>2. ASSUME NEW k \in Key, IsFirstUncertain(Restored, k),
               store' = Insert(store, k, "interrupted", store.latest + 1)
        PROVE  Lasting(store')
    <3>1. checkpoint.saved /\ Confirmed(store, checkpoint.version) /\ checkpoint \in Saved
      BY <1>1, <1>4, ReopenedEffect DEF CanResume, Saved
    <3>2. /\ OneAtWork(checkpoint.state) /\ Agree(checkpoint.state, store)
          /\ checkpoint.state \in AgentState
      BY <1>1, <3>1, GraphUpdates DEF OneUncertain, Agreement, TypeOK
    <3>3. Reads(Restored, store)
      BY <1>1, <3>2, RestoredAgrees DEF Restored
    <3>4. store.newest[k].status # "completed"
      BY <2>2, <3>3, UncertainStatus DEF Reads
    <3>5. store.latest + 1 \in Nat /\ store.latest + 1 >= store.newest[k].version
      BY <1>1
    <3> QED
      BY <1>1, <2>2, <3>4, <3>5, InsertLasting DEF ExecutionStatus
  <2> QED
    BY <1>1, <1>2, <1>4, <2>1, <2>2, ReopenedEffect
<1>5. ~Interrupted
  BY DEF Uncancelled, Interrupted, InterruptRunning, InterruptIdleStep
<1> QED
  BY <1>1, <1>2, <1>3, <1>4, <1>5, StepEffect
  DEF Returning, Save, Forgetting, Waiting, Start, ResumeTerminal, InterruptSave

\* As long as no wait is cancelled, a step with a completed row is not executed
\* again.
THEOREM CompletedIsNotRestarted ==
  {"cancel", "abandon"} \intersect FaultKinds = {} /\ Spec => []CompletedStepNotRestarted
<1>1. AInv /\ Lasting(store) => CompletedStepNotRestarted
  BY NextIsIncomplete DEF CompletedStepNotRestarted, StepAtWork, Lasting, InGraph
<1>2. Init => Uncancelled /\ Lasting(store)
  <2>1. \A k \in Key : ~HasRow(EmptyStore, k, "completed")
    BY DEF HasRow, EmptyStore
  <2> QED
    BY <2>1 DEF Init, Uncancelled, Lasting
<1>3. CASE {"cancel", "abandon"} \intersect FaultKinds = {}
  <2>1. AInv /\ Uncancelled /\ Lasting(store) /\ [Next]_vars => Uncancelled' /\ Lasting(store')
    BY <1>3, NextLasting
  <2>2. "abandon" \notin FaultKinds
    BY <1>3
  <2>3. Spec => []AInv
    BY <2>2, StoresAgree
  <2>4. Lasting(store') <=> Lasting(store)'
    BY DEF Lasting
  <2> QED
    BY <1>1, <1>2, <2>1, <2>3, <2>4, PTL DEF Spec
<1> QED
  BY <1>3

-----------------------------------------------------------------------------
\* Failures are ordered like completions, and the rows know of each, as long as
\* the operator decides none.  The step at work is running, so none is tried
\* again.
Failed(g) == WithStatus(g.state, "failed")

Failures ==
  /\ Ordered("failed")
  /\ \A g \in Saved \union {graph} : NewestSays("failed", g, store)
  /\ pc \in {"marked", "execute", "executing"} =>
       \A k \in Key : IsNextStep(graph.state, k) => graph.state.execs[k] = "running"

\* The step that is marked or ends has not failed; only an end adds a failure.
LEMMA WorkFailed ==
  ASSUME HInv, Failures, MarkRunning \/ ExecuteEnd
  PROVE  \E k \in Key, status \in ExecutionStatus :
           /\ pc \in {"mark_running", "executing"}
           /\ status = "failed" => pc = "executing"
           /\ store' = Insert(store, k, status, graph.version + 1)
           /\ k \notin Failed(graph)
           /\ Failed(graph') = IF status = "failed" THEN Failed(graph) \union {k} ELSE Failed(graph)
           /\ pc' = "marked" =>
                \A j \in Key : IsNextStep(graph'.state, j) => graph'.state.execs[j] = "running"
           /\ pc' \in {"marked", "executed"}
<1>1. TypeOK /\ graph.state \in AgentState
  BY GraphUpdates DEF HInv, DInv, TypeOK
<1>2. PICK k \in Key, status \in ExecutionStatus \ {"interrupted"} :
        /\ \/ /\ pc = "mark_running" /\ pc' = "marked" /\ status = "running"
              /\ graph.state.execs[k] # "failed"
           \/ pc = "executing" /\ pc' = "executed" /\ status \in {"completed", "failed"}
        /\ IsNextStep(graph.state, k)
        /\ store' = Insert(store, k, status, graph.version + 1)
        /\ graph'.state = WithStepExecution(graph.state, k, status)
  BY <1>1, WorkEffect
<1>3. graph.state.execs[k] # "failed"
  BY <1>2 DEF Failures
<1>4. /\ graph'.state.execs[k] = status
      /\ \A j \in Key : j # k => graph'.state.execs[j] = graph.state.execs[j]
  BY <1>1, <1>2, WithStepExecutionSets
<1>5. /\ k \notin Failed(graph)
      /\ Failed(graph') = IF status = "failed" THEN Failed(graph) \union {k} ELSE Failed(graph)
  BY <1>3, <1>4 DEF Failed, WithStatus
<1>6. pc' = "marked" =>
        \A j \in Key : IsNextStep(graph'.state, j) => graph'.state.execs[j] = "running"
  <2> SUFFICES ASSUME pc' = "marked", NEW j \in Key, IsNextStep(graph'.state, j)
               PROVE  graph'.state.execs[j] = "running"
    OBVIOUS
  <2>1. status = "running"
    BY <1>2
  <2>2. IsNextStep(graph.state, j)
    BY <1>1, <1>2, <2>1, NextStepStays
  <2>3. j = k
    BY <1>1, <1>2, <2>2, NextStepUnique
  <2> QED
    BY <1>4, <2>1, <2>3
<1> QED
  BY <1>2, <1>5, <1>6

\* Without a decision to fail, a resume finds the failures of the checkpoint.
LEMMA ReopenedFailed ==
  ASSUME ~FailDecided, HInv, Failures, Reopened
  PROVE  /\ Failed(graph') = WithStatus(Restored, "failed")
         /\ Failed(checkpoint) \subseteq Failed(graph')
         /\ \A k \in Failed(graph') : store.newest[k].status = "failed"
<1>1. /\ TypeOK /\ store \in Store /\ checkpoint.state \in AgentState
      /\ Restored \in AgentState /\ Stale \in AgentState
  BY GraphUpdates, StaleType DEF HInv, DInv, TypeOK
<1>2. graph'.state = Stale
  BY <1>1, ReopenedDecision
<1>3. /\ \A k \in Key : Stale.execs[k] =
           IF IsFirst(Restored, "running", k) THEN "interrupted" ELSE Restored.execs[k]
      /\ \A k \in Key : IsFirst(Restored, "running", k) => Restored.execs[k] = "running"
  BY <1>1, MarkStaleSets DEF Stale, IsFirst, WithStatus
<1>4. Failed(graph') = WithStatus(Restored, "failed")
  BY <1>2, <1>3 DEF Failed, WithStatus
<1>5. \A k \in Key : Restored.execs[k] =
        IF Recorded(store, k) THEN store.newest[k].status ELSE checkpoint.state.execs[k]
  BY <1>1, RestoreSets DEF Restored
<1>6. \A k \in Failed(checkpoint) : store.newest[k].status = "failed"
  BY DEF Failures, NewestSays, Failed, Saved
<1> QED
  BY <1>4, <1>5, <1>6 DEF Failed, WithStatus

\* An interrupted graph has the failures of the checkpoint.
LEMMA InterruptedFailed ==
  ASSUME HInv, Interrupted
  PROVE  Failed(graph') = Failed(checkpoint)
<1>1. checkpoint.state \in AgentState /\ graph'.state = MarkStaleInterrupted(checkpoint.state)
  BY InterruptedEffect, GraphUpdates DEF HInv, DInv, TypeOK
<1>2. \A k \in Key : IsFirst(checkpoint.state, "running", k)
        => checkpoint.state.execs[k] = "running"
  BY DEF IsFirst, WithStatus
<1> QED
  BY <1>1, <1>2, MarkStaleSets DEF Failed, WithStatus

\* Every step keeps the failures.
LEMMA NextFailures == ~FailDecided /\ HInv /\ Failures /\ [Next]_vars => Failures'
<1> SUFFICES ASSUME ~FailDecided, HInv, Failures, [Next]_vars PROVE Failures'
  OBVIOUS
<1>1. /\ DInv /\ TypeOK /\ Control /\ Unstarted /\ Numbering
      /\ store \in Store /\ store.latest \in Nat /\ graph.version \in Nat
      /\ checkpoint.version \in Nat
      /\ \A g \in Saved \union {graph} : NewestSays("failed", g, store)
  BY GraphUpdates DEF HInv, DInv, TypeOK, Store, Failures
<1>2. Ordered("failed")'
  <2>1. MarkRunning \/ ExecuteEnd => Failed(graph) \subseteq Failed(graph')
    BY WorkFailed
  <2>2. Reopened \/ Interrupted => Failed(checkpoint) \subseteq Failed(graph')
    BY ReopenedFailed, InterruptedFailed
  <2> QED
    BY <1>1, <2>1, <2>2, OrderKept DEF Failures, Failed
<1>3. ASSUME MarkRunning \/ ExecuteEnd
      PROVE  \A g \in Saved \union {graph'} : NewestSays("failed", g, store')
  <2>1. PICK k \in Key, status \in ExecutionStatus :
          /\ pc \in {"mark_running", "executing"}
          /\ status = "failed" => pc = "executing"
          /\ store' = Insert(store, k, status, graph.version + 1)
          /\ k \notin Failed(graph)
          /\ Failed(graph') = IF status = "failed" THEN Failed(graph) \union {k} ELSE Failed(graph)
    BY <1>3, WorkFailed
  <2>2. \A g \in Saved : Failed(g) \subseteq Failed(graph)
    BY <2>1 DEF Failures, Ordered, Failed, InMemory
  <2>3. \A g \in Saved \union {graph} : NewestSays("failed", g, store')
    BY <1>1, <2>1, <2>2, NewestSaysStill DEF Failed
  <2>4. status = "failed" => store'.newest[k].status = "failed"
    <3>1. store.newest[k].version \in Nat /\ store.newest[k].version <= store.latest
      BY <1>1 DEF Numbering, Store, Row, NoRow
    <3>2. status = "failed" => graph.version + 1 >= store.newest[k].version
      BY <1>1, <2>1, <3>1 DEF Numbering, InGraph
    <3> QED
      BY <1>1, <2>1, <3>2, InsertNewest
  <2> QED
    BY <2>1, <2>3, <2>4 DEF NewestSays, Failed
<1>4. ASSUME NEW s, NEW k \in Key, NEW version \in Nat, IsFirstUncertain(s, k),
             store' = Insert(store, k, "interrupted", version),
             NEW g, NewestSays("failed", g, store), Failed(g) \subseteq WithStatus(s, "failed")
      PROVE  NewestSays("failed", g, store')
  <2>1. k \notin Failed(g)
    BY <1>4, UncertainStatus DEF WithStatus
  <2> QED
    BY <1>1, <1>4, <2>1, NewestSaysStill DEF Failed, ExecutionStatus
<1>5. ASSUME Reopened
      PROVE  \A g \in Saved \union {graph'} : NewestSays("failed", g, store')
  <2>1. /\ Saved = {checkpoint}
        /\ \/ store' = store
           \/ \E k \in Key : /\ IsFirstUncertain(Restored, k)
                             /\ store' = Insert(store, k, "interrupted", store.latest + 1)
    BY <1>1, <1>5, ReopenedEffect, SavedAtRest
  <2>2. /\ Failed(graph') \subseteq WithStatus(Restored, "failed")
        /\ Failed(checkpoint) \subseteq WithStatus(Restored, "failed")
        /\ NewestSays("failed", graph', store) /\ NewestSays("failed", checkpoint, store)
    BY <1>1, <1>5, <2>1, ReopenedFailed DEF NewestSays, Failed
  <2> QED
    BY <1>1, <1>4, <2>1, <2>2
<1>6. ASSUME Interrupted
      PROVE  \A g \in Saved \union {graph'} : NewestSays("failed", g, store')
  <2>1. /\ Saved = {checkpoint}
        /\ \/ store' = store
           \/ \E k \in Key : /\ IsFirstUncertain(checkpoint.state, k)
                             /\ store' = Insert(store, k, "interrupted", checkpoint.version + 1)
    BY <1>1, <1>6, InterruptedEffect, SavedAtRest
  <2>2. /\ Failed(graph') = WithStatus(checkpoint.state, "failed")
        /\ Failed(checkpoint) = WithStatus(checkpoint.state, "failed")
        /\ NewestSays("failed", graph', store) /\ NewestSays("failed", checkpoint, store)
    BY <1>1, <1>6, <2>1, InterruptedFailed DEF NewestSays, Failed
  <2>3. checkpoint.version + 1 \in Nat
    BY <1>1
  <2> QED
    BY <1>4, <2>1, <2>2, <2>3
<1>7. \A g \in Saved' \union {graph'} : NewestSays("failed", g, store')
  BY <1>1, <1>3, <1>5, <1>6, RowsKept
<1>8. pc' \in {"marked", "execute", "executing"} =>
        \A k \in Key : IsNextStep(graph'.state, k) => graph'.state.execs[k] = "running"
  <2>1. CASE \E g \in GraphState, next \in Location : Returning(g, next)
    BY <2>1 DEF Returning, Return, Failures
  <2>2. CASE MarkRunning \/ ExecuteEnd
    BY <2>2, WorkFailed
  <2>3. CASE Save \/ Waiting
    BY <2>3 DEF Save, Waiting, Failures
  <2>4. CASE Reopened \/ Interrupted
    BY <1>1, <2>4, ReopenedEffect, InterruptedEffect
  <2> QED
    BY <1>1, <2>1, <2>2, <2>3, <2>4, StepEffect
    DEF Forgetting, Start, ResumeTerminal, InterruptSave, Leave
<1> QED
  BY <1>2, <1>7, <1>8 DEF Failures, Ordered, NewestSays, Saved

\* A step that failed is failed in every later checkpoint.
THEOREM FailureIsFinal == "fail" \notin Decisions /\ Spec => CheckpointedFailureIsFinal
<1> DEFINE Final == \A k \in Key : checkpoint.state.execs[k] = "failed"
                                     => checkpoint'.state.execs[k] = "failed"
<1>1. HInv /\ Failures /\ [Next]_vars => Final
  <2> SUFFICES ASSUME HInv, Failures, [Next]_vars PROVE Final
    OBVIOUS
  <2>1. DInv /\ TypeOK /\ Control /\ Ordered("failed")
    BY DEF HInv, DInv, Failures
  <2>2. ASSUME Failed(checkpoint) \subseteq Failed(checkpoint') PROVE Final
    BY <2>2 DEF Failed, WithStatus
  <2>3. CASE Save
    BY <2>1, <2>2, <2>3, SaveSaved DEF Ordered, Failed
  <2>4. CASE InterruptSave
    <3>1. Failed(checkpoint) \subseteq Failed(graph) /\ checkpoint' = graph
      BY <2>1, <2>4 DEF Ordered, Failed, InMemory, InterruptSave, Saved
    <3> QED
      BY <2>2, <3>1
  <2>5. \/ Save \/ InterruptSave \/ checkpoint' = checkpoint
    BY <2>1, StepEffect, WorkEffect, ReopenedEffect, InterruptedEffect
    DEF Returning, Forgetting, Waiting, Start, ResumeTerminal, Resuming
  <2> QED
    BY <2>3, <2>4, <2>5
<1>2. Init => Failures
  <2>1. NewestSays("failed", NoGraph, EmptyStore)
    BY DEF NewestSays, NoGraph, NewAgentState, WithStatus
  <2> QED
    BY <2>1 DEF Init, Failures, Ordered, Saved, InMemory
<1>3. HInv /\ Failures /\ [Next]_vars =>
        [\A k \in Key : checkpoint.state.execs[k] = "failed"
                          => checkpoint'.state.execs[k] = "failed"]_vars
  BY <1>1
<1>4. CASE "fail" \notin Decisions
  <2>1. HInv /\ Failures /\ [Next]_vars => Failures'
    BY <1>4, NextFailures DEF FailDecided
  <2> QED
    BY <1>2, <1>3, <2>1, HistoryKept, PTL DEF Spec, CheckpointedFailureIsFinal
<1> QED
  BY <1>4

-----------------------------------------------------------------------------
\* A result of the graph's own making: the run ended and nothing is uncertain.
EndedAlone(g) ==
  g.status \in {"completed", "blocked"} /\ WithStatus(g.state, "interrupted") = {}

\* Nothing is left to do for the last plan.
Exhausted(s) == AllStepsCompleted(s) \/ FailedNext(s)

\* Such a result has the version of the rows, and so has a graph at work that
\* comes to one.
Endings ==
  /\ \A g \in Saved \union {graph} : EndedAlone(g) => Confirmed(store, g.version)
  /\ pc \in InGraph =>
       /\ \A g \in Saved \union {graph} : ~EndedAlone(g)
       /\ Exhausted(graph.state) => Confirmed(store, graph.version)

\* While the next step is running or interrupted, there is something to do.
LEMMA UncertainNotExhausted ==
  ASSUME NEW s \in AgentState, NEW k, IsNextStep(s, k), s.execs[k] # "failed"
  PROVE  ~Exhausted(s)
<1>1. ~AllStepsCompleted(s)
  BY DEF AllStepsCompleted, IsNextStep
<1>2. ~FailedNext(s)
  BY NextStepUnique DEF FailedNext, WithStatus
<1> QED
  BY <1>1, <1>2 DEF Exhausted

\* What a node returns of a graph that is exhausted has the rows' version.
LEMMA ReturnEndings ==
  ASSUME HInv, Endings, HInv', NEW g \in GraphState, NEW next \in Location, Returning(g, next)
  PROVE  Endings'
<1>1. DInv /\ TypeOK /\ Control /\ Justified'
  BY DEF HInv, DInv
<1>2. /\ pc \in InGraph /\ graph' = g /\ pc' = next /\ UNCHANGED store
      /\ g.version = graph.version
      /\ WithStatus(g.state, "interrupted") = WithStatus(graph.state, "interrupted")
      /\ next # "finish" => g.status = graph.status
      /\ Saved' = Saved \union {g}
  BY <1>1, ReturnSaved DEF Returning, Return, WithStatus
<1>3. Exhausted(g.state) => Confirmed(store, g.version)
  <2>1. CASE g.state = graph.state
    BY <1>2, <2>1 DEF Endings
  <2>2. CASE graph.state.plans = <<>> \/ pc = "replan"
    <3>1. Exhausted(graph.state)
      BY <1>1, <2>2 DEF Exhausted, AllStepsCompleted, Control
    <3> QED
      BY <1>2, <3>1 DEF Endings
  <2> QED
    BY <2>1, <2>2 DEF Returning
<1>4. EndedAlone(g) => Exhausted(g.state)
  BY <1>1, <1>2 DEF EndedAlone, Exhausted, Justified, Backed, Blockable
<1>5. next \in InGraph => ~EndedAlone(g)
  BY <1>2 DEF Endings, EndedAlone, InGraph
<1> QED
  BY <1>2, <1>3, <1>4, <1>5 DEF Endings

\* A resume goes on with a step it records, or with the version it was given.
LEMMA ReopenedEndings ==
  ASSUME ~FailDecided, AInv, Reopened
  PROVE  Endings'
<1>1. /\ HInv /\ DInv /\ TypeOK /\ RowOrder(store) /\ OneUncertain /\ Agreement
      /\ store \in Store /\ checkpoint.state \in AgentState
  BY GraphUpdates DEF AInv, Agreeing, HInv, DInv, TypeOK
<1>2. /\ pc' = "starting" /\ UNCHANGED <<queue, checkpoint>>
      /\ Saved = {checkpoint} /\ Saved' = {checkpoint}
      /\ Confirmed(store, checkpoint.version)
      /\ graph'.version = checkpoint.version
      /\ graph'.status \in {"resuming", "blocked"}
  BY <1>1, ReopenedEffect, SavedAtRest DEF CanResume, Saved
<1>3. ~EndedAlone(checkpoint)
  BY DEF Reopened, ResumeContinue, ResumeRecover, ResumeFail, ResumeAbort, Reopening, EndedAlone
<1>4. Restored \in AgentState /\ OneAtWork(Restored)
  BY <1>1, <1>2, RestoredAgrees DEF Restored, OneUncertain, Agreement
<1>5. /\ Stale \in AgentState
      /\ \A k \in Key : Stale.execs[k] = IF Restored.execs[k] = "running" THEN "interrupted"
                                                                           ELSE Restored.execs[k]
      /\ \A k : IsNextStep(Stale, k) <=> IsNextStep(Restored, k)
  BY <1>4, StaleAgrees DEF Stale
<1>6. CASE store' = store /\ graph'.status = "resuming"
  BY <1>2, <1>3, <1>6 DEF Endings, EndedAlone
<1>7. ASSUME NEW k \in Key, IsFirstUncertain(Restored, k), graph'.state = Stale
      PROVE  Endings'
  <2>1. IsNextStep(Restored, k) /\ Restored.execs[k] \in {"running", "interrupted"}
    BY <1>4, <1>7, FirstUncertain
  <2>2. IsNextStep(Stale, k) /\ Stale.execs[k] = "interrupted"
    BY <1>5, <2>1
  <2>3. ~Exhausted(graph'.state) /\ ~EndedAlone(graph')
    BY <1>5, <1>7, <2>2, UncertainNotExhausted DEF EndedAlone, WithStatus
  <2> QED
    BY <1>2, <1>3, <2>3 DEF Endings
<1> QED
  BY <1>1, <1>6, <1>7, ReopenedDecision

\* Every step keeps the results at the version of the rows.
LEMMA NextEndings ==
  ~FailDecided /\ AInv /\ HInv' /\ Endings /\ [Next]_vars => Endings'
<1> SUFFICES ASSUME ~FailDecided, AInv, HInv', Endings, [Next]_vars PROVE Endings'
  OBVIOUS
<1>1. /\ HInv /\ DInv /\ TypeOK /\ Control /\ Justified /\ Unstarted /\ OneUncertain
      /\ graph.state \in AgentState /\ checkpoint.state \in AgentState
  BY GraphUpdates DEF AInv, Agreeing, HInv, DInv, TypeOK
<1>2. ASSUME Saved' \subseteq Saved \union {graph},
             graph' \in Saved \union {graph, NoGraph}, UNCHANGED store,
             pc' \in InGraph => pc \in InGraph /\ graph' = graph
      PROVE  Endings'
  <2>1. ~EndedAlone(NoGraph)
    BY DEF EndedAlone, NoGraph
  <2> QED
    BY <1>2, <2>1 DEF Endings
<1>3. CASE MarkRunning \/ ExecuteEnd
  <2>1. PICK k \in Key, status \in ExecutionStatus \ {"interrupted"} :
          /\ \/ pc = "mark_running" /\ pc' = "marked" /\ status = "running"
             \/ pc = "executing" /\ pc' = "executed"
          /\ IsNextStep(graph.state, k)
          /\ graph'.state = WithStepExecution(graph.state, k, status)
          /\ graph'.status = graph.status
          /\ UNCHANGED <<queue, checkpoint>>
    BY <1>1, <1>3, WorkEffect
  <2>2. graph'.status = "resuming"
    BY <1>1, <2>1 DEF Control, InGraph
  <2>3. Exhausted(graph'.state) => Confirmed(store', graph'.version)
    <3>1. CASE pc' = "marked"
      <4>1. /\ graph'.state \in AgentState /\ graph'.state.execs[k] = "running"
            /\ IsNextStep(graph'.state, k)
        BY <1>1, <2>1, <3>1, WithStepExecutionSets, NextStepStays
      <4> QED
        BY <4>1, UncertainNotExhausted
    <3>2. CASE pc' = "executed"
      BY <3>2 DEF HInv, Numbering, ExecutionIsRecorded, Confirmed
    <3> QED
      BY <2>1, <3>1, <3>2
  <2>4. \A g \in Saved' \union {graph'} : ~EndedAlone(g)
    BY <2>1, <2>2 DEF Endings, EndedAlone, Saved, InGraph
  <2> QED
    BY <2>3, <2>4 DEF Endings
<1>4. CASE Save
  BY <1>1, <1>2, <1>4, SaveSaved
<1>5. CASE Forgetting
  BY <1>2, <1>5 DEF Forgetting, Saved, InGraph
<1>6. CASE Waiting
  BY <1>2, <1>6 DEF Waiting, Saved, InGraph
<1>7. CASE \E viaRouter \in BOOLEAN : Start(viaRouter)
  <2>1. checkpoint' = NoGraph /\ queue' = <<>> /\ store' = EmptyStore
    BY <1>1, <1>7 DEF Start, Unstarted
  <2>2. Saved' = {NoGraph}
    BY <2>1 DEF Saved
  <2>3. graph'.status = "resuming"
    BY <1>7 DEF Start, NoGraph
  <2> QED
    BY <2>1, <2>2, <2>3 DEF Endings, EndedAlone, NoGraph, Confirmed, EmptyStore
<1>8. CASE ResumeTerminal
  BY <1>2, <1>8 DEF ResumeTerminal, Resuming, Saved, InGraph
<1>9. CASE Interrupted
  <2>1. /\ Saved = {checkpoint} /\ Saved' = {checkpoint} /\ pc' = "interrupting"
        /\ graph'.status = "interrupted"
        /\ store' # store => WithStatus(checkpoint.state, "running") # {}
    BY <1>1, <1>9, InterruptedEffect, SavedAtRest
    DEF Saved, Interrupted, InterruptRunning, InterruptIdleStep
  <2>2. WithStatus(checkpoint.state, "running") # {} => ~EndedAlone(checkpoint)
    <3> SUFFICES ASSUME NEW k \in WithStatus(checkpoint.state, "running"), EndedAlone(checkpoint)
                 PROVE  FALSE
      OBVIOUS
    <3>1. IsNextStep(checkpoint.state, k) /\ checkpoint.state.execs[k] = "running"
      BY <1>1, <2>1 DEF OneUncertain, OneAtWork, WithStatus
    <3>2. Exhausted(checkpoint.state)
      BY <1>1 DEF Justified, Backed, Blockable, EndedAlone, Exhausted
    <3> QED
      BY <1>1, <3>1, <3>2, UncertainNotExhausted
  <2> QED
    BY <2>1, <2>2 DEF Endings, EndedAlone, InGraph
<1>10. CASE InterruptSave
  <2>1. Saved' = {graph} /\ graph' = NoGraph /\ UNCHANGED store /\ pc' = "idle"
    BY <1>1, <1>10 DEF InterruptSave, Leave, Control, Saved
  <2> QED
    BY <1>2, <2>1 DEF InGraph
<1> QED
  BY <1>1, <1>3, <1>4, <1>5, <1>6, <1>7, <1>8, <1>9, <1>10, StepEffect, ReturnEndings,
     ReopenedEndings

\* A result the graph came to by itself is returned by the resume.
THEOREM EndedResultIsReturned ==
  "abandon" \notin FaultKinds /\ "fail" \notin Decisions /\ Spec => []EndedResultReturned
<1>1. Endings => EndedResultReturned
  BY DEF Endings, EndedResultReturned, EndedAlone, Saved
<1>2. Init => Endings
  BY DEF Init, Endings, EndedAlone, NoGraph, Saved, InGraph
<1>3. CASE "abandon" \notin FaultKinds /\ "fail" \notin Decisions
  <2>1. AInv => HInv
    BY DEF AInv
  <2>2. AInv /\ HInv' /\ Endings /\ [Next]_vars => Endings'
    BY <1>3, NextEndings DEF FailDecided
  <2>3. Spec => []AInv
    BY <1>3, StoresAgree
  <2> QED
    BY <1>1, <1>2, <2>1, <2>2, <2>3, PTL DEF Spec
<1> QED
  BY <1>3

-----------------------------------------------------------------------------
\* A recovered graph waits for the attempt that the next running row will open,
\* or works on the one it opened; what comes after knows of no recovery.
Recovered ==
  /\ pc \in InGraph /\ graph.status = "resuming" /\ graph.active =>
       \E k \in Key :
         /\ IsNextStep(graph.state, k)
         /\ IF pc \in {"marked", "execute", "executing"}
            THEN LastInserted(store, k).attempt = graph.attempt
            ELSE /\ graph.state.execs[k] = "interrupted"
                 /\ NextAttempt(store, k) = graph.attempt
  /\ pc \in {"executed", "replan", "complete"} => ~graph.active

\* A node that returns keeps the step and its attempt.
LEMMA ReturnRecovered ==
  ASSUME HInv, HInv', Recovered, NEW g \in GraphState, NEW next \in Location, Returning(g, next)
  PROVE  Recovered'
<1>1. /\ TypeOK /\ Control /\ graph.state \in AgentState
  BY GraphUpdates DEF HInv, DInv, TypeOK
<1>2. /\ pc \in InGraph \ {"execute", "executing"} /\ graph' = g /\ pc' = next
      /\ UNCHANGED store
      /\ g.active = graph.active /\ g.attempt = graph.attempt
      /\ next = "execute" <=> pc = "marked"
      /\ next \in InGraph => g.status = graph.status
      /\ next \notin {"marked", "executing", "executed", "starting"}
  BY DEF Returning, Return, InGraph
<1>3. CASE ~graph.active
  BY <1>2, <1>3 DEF Recovered
<1>4. CASE graph.active /\ graph.status # "resuming"
  <2>1. pc \in {"starting", "blocked"}
    BY <1>1, <1>2, <1>4 DEF Control
  <2>2. next \notin {"replan", "complete"}
    BY <2>1 DEF Returning
  <2> QED
    BY <1>2, <1>4, <2>1, <2>2 DEF Recovered
<1>5. CASE graph.active /\ graph.status = "resuming"
  <2>1. PICK k \in Key :
          /\ IsNextStep(graph.state, k)
          /\ IF pc = "marked"
             THEN LastInserted(store, k).attempt = graph.attempt
             ELSE /\ graph.state.execs[k] = "interrupted"
                  /\ NextAttempt(store, k) = graph.attempt
    BY <1>2, <1>5 DEF Recovered
  <2>2. pc \notin {"executed", "replan", "complete"}
    BY <1>5 DEF Recovered
  <2>3. g.state = graph.state
    BY <2>1, <2>2 DEF Returning, IsNextStep
  <2>4. next \notin {"replan", "complete"}
    <3> SUFFICES ASSUME next \in {"replan", "complete"} PROVE FALSE
      OBVIOUS
    <3>1. Exhausted(graph.state)
      BY <1>2, <2>3 DEF HInv, DInv, Control, Exhausted
    <3>2. graph.state.execs[k] = "interrupted"
      BY <1>2, <2>1
    <3> QED
      BY <1>1, <2>1, <3>1, <3>2, UncertainNotExhausted
  <2> QED
    BY <1>2, <2>1, <2>3, <2>4 DEF Recovered
<1> QED
  BY <1>3, <1>4, <1>5

\* The running row of the next step opens the attempt the graph waits for.
LEMMA MarkRecovered ==
  ASSUME HInv, Recovered, MarkRunning
  PROVE  Recovered'
<1>1. /\ TypeOK /\ Control /\ graph.state \in AgentState /\ store \in Store
      /\ graph.version \in Nat
  BY GraphUpdates DEF HInv, DInv, TypeOK
<1>2. PICK k \in Key :
        /\ pc = "mark_running" /\ pc' = "marked"
        /\ IsNextStep(graph.state, k)
        /\ store' = Insert(store, k, "running", graph.version + 1)
        /\ graph'.state = WithStepExecution(graph.state, k, "running")
        /\ graph'.active = graph.active /\ graph'.attempt = graph.attempt
        /\ graph'.status = graph.status
  BY <1>1, WorkEffect DEF MarkRunning
<1>3. SUFFICES ASSUME graph.active
               PROVE  /\ IsNextStep(graph'.state, k)
                      /\ LastInserted(store', k).attempt = graph.attempt
  BY <1>2, <1>3 DEF Recovered
<1>4. NextAttempt(store, k) = graph.attempt
  <2>1. graph.status = "resuming"
    BY <1>1, <1>2 DEF Control, InGraph
  <2>2. PICK j \in Key : IsNextStep(graph.state, j) /\ NextAttempt(store, j) = graph.attempt
    BY <1>2, <1>3, <2>1 DEF Recovered, InGraph
  <2> QED
    BY <1>1, <1>2, <2>2, NextStepUnique
<1>5. IsNextStep(graph'.state, k)
  BY <1>1, <1>2, NextStepStays DEF ExecutionStatus
<1>6. LastInserted(store', k) = NewRow(store, k, "running", graph.version + 1)
  BY <1>1, <1>2, InsertRows DEF ExecutionStatus
<1> QED
  BY <1>4, <1>5, <1>6 DEF NewRow

\* A resume without a decision computes the attempt after the interrupted row.
LEMMA ReopenedRecovered ==
  ASSUME ~FailDecided, AInv, Reopened
  PROVE  Recovered'
<1>1. /\ HInv /\ DInv /\ TypeOK /\ RowOrder(store) /\ OneUncertain /\ Agreement
      /\ store \in Store /\ checkpoint.state \in AgentState
  BY GraphUpdates DEF AInv, Agreeing, HInv, DInv, TypeOK
<1>2. /\ pc' = "starting" /\ Saved = {checkpoint} /\ Confirmed(store, checkpoint.version)
  BY <1>1, ReopenedEffect, SavedAtRest DEF CanResume
<1>3. /\ Restored \in AgentState /\ OneAtWork(Restored) /\ Reads(Restored, store)
  BY <1>1, <1>2, RestoredAgrees DEF Restored, OneUncertain, Agreement
<1>4. CASE ~graph'.active \/ graph'.status # "resuming"
  BY <1>2, <1>4 DEF Recovered
<1>5. ASSUME NEW k \in Key, IsFirstUncertain(Restored, k), store' = RecordInterrupted(k),
             graph'.state = Stale, graph'.attempt = store'.newest[k].attempt + 1
      PROVE  Recovered'
  <2>1. IsNextStep(Restored, k) /\ Restored.execs[k] \in {"running", "interrupted"}
    BY <1>3, <1>5, FirstUncertain
  <2>2. IsNextStep(Stale, k) /\ Stale.execs[k] = "interrupted"
    BY <1>3, <2>1, StaleAgrees DEF Stale
  <2>3. /\ RowOrder(store')
        /\ store'.newest[k].status = "interrupted"
    BY <1>1, <1>2, <1>3, <1>5, RecordUncertain DEF Records
  <2>4. Recorded(store', k) /\ LastInserted(store', k) = store'.newest[k]
    BY <2>3 DEF RowOrder, NoRow
  <2>5. NextAttempt(store', k) = graph'.attempt
    BY <1>5, <2>3, <2>4 DEF NextAttempt
  <2> QED
    BY <1>2, <1>5, <2>2, <2>5 DEF Recovered
<1> QED
  BY <1>1, <1>4, <1>5, ReopenedDecision

\* Every step keeps the attempt that was announced.
LEMMA NextRecovered ==
  ~FailDecided /\ AInv /\ HInv' /\ Recovered /\ [Next]_vars => Recovered'
<1> SUFFICES ASSUME ~FailDecided, AInv, HInv', Recovered, [Next]_vars PROVE Recovered'
  OBVIOUS
<1>1. HInv /\ DInv /\ TypeOK /\ Control
  BY DEF AInv, HInv, DInv
<1>2. CASE ExecuteEnd
  <2>1. pc' = "executed" /\ ~graph'.active
    BY <1>1, <1>2, WorkEffect DEF ExecuteEnd
  <2> QED
    BY <2>1 DEF Recovered
<1>3. CASE Save \/ Waiting
  BY <1>3 DEF Save, Waiting, Recovered, InGraph
<1>4. CASE Forgetting \/ Interrupted \/ InterruptSave \/ ResumeTerminal
  BY <1>1, <1>4, InterruptedEffect
  DEF Forgetting, InterruptSave, Leave, ResumeTerminal, Recovered, InGraph
<1>5. CASE \E viaRouter \in BOOLEAN : Start(viaRouter)
  BY <1>5 DEF Start, NoGraph, Recovered
<1> QED
  BY <1>1, <1>2, <1>3, <1>4, <1>5, StepEffect, ReturnRecovered, MarkRecovered, ReopenedRecovered

\* The attempt a recovered step's context and thread name is the one its running
\* row opened.
THEOREM RecoveredAttemptIsNamed ==
  "abandon" \notin FaultKinds /\ "fail" \notin Decisions /\ Spec => []RecoveredAttempt
<1>1. AInv /\ Recovered => RecoveredAttempt
  <2> SUFFICES ASSUME AInv, Recovered, NEW k \in Key, StepAtWork(k), graph.active
               PROVE  graph.attempt = LastInserted(store, k).attempt
    BY DEF RecoveredAttempt
  <2>1. /\ pc = "executing" /\ IsNextStep(graph.state, k) /\ graph.state \in AgentState
        /\ graph.status = "resuming"
    BY GraphUpdates DEF AInv, HInv, DInv, TypeOK, Control, StepAtWork, InGraph
  <2>2. PICK j \in Key : /\ IsNextStep(graph.state, j)
                         /\ LastInserted(store, j).attempt = graph.attempt
    BY <2>1 DEF Recovered, InGraph
  <2> QED
    BY <2>1, <2>2, NextStepUnique
<1>2. Init => Recovered
  BY DEF Init, Recovered, InGraph
<1>3. CASE "abandon" \notin FaultKinds /\ "fail" \notin Decisions
  <2>1. AInv => HInv
    BY DEF AInv
  <2>2. AInv /\ HInv' /\ Recovered /\ [Next]_vars => Recovered'
    BY <1>3, NextRecovered DEF FailDecided
  <2>3. Spec => []AInv
    BY <1>3, StoresAgree
  <2> QED
    BY <1>1, <1>2, <2>1, <2>2, <2>3, PTL DEF Spec
<1> QED
  BY <1>3
===============================================================================
