------------------------------ MODULE DurableRun -----------------------------
(***************************************************************************)
(* One durable Agent run: the checkpointed Plan-Execute graph of           *)
(* agent/durable.py, its step recovery records, and the process around it  *)
(* that starts, is killed, is cancelled by a signal, fails and resumes.    *)
(*                                                                         *)
(* A single process works on the run at a time (the lease that should      *)
(* ensure it is the subject of RunLease).  A node computes its update,     *)
(* inserts its recovery row in a transaction of its own, and returns; the  *)
(* saver then writes the checkpoints of the returned nodes in order, while *)
(* the next node may already run.                                          *)
(***************************************************************************)
EXTENDS StepRecovery

CONSTANTS
  Decisions,     \* the --recovery values in use: a subset of none, fail, abort
  FaultKinds,    \* a subset of crash, cancel, abandon, raise
  MaxFaults      \* bound on the number of faults in a behaviour

ASSUME DecisionsAssumption  == Decisions \subseteq {"none", "fail", "abort"}
ASSUME FaultKindsAssumption == FaultKinds \subseteq {"crash", "cancel", "abandon", "raise"}
ASSUME MaxFaultsAssumption  == MaxFaults \in Nat

VARIABLES
  pc,            \* where the process is; "idle" when there is none
  graph,         \* the graph state in the process's memory
  queue,         \* checkpoints of returned nodes the saver has yet to write
  checkpoint,    \* the run's newest stored checkpoint
  store,         \* its recovery rows
  threads,       \* executor threads already opened: <<step key, attempt>>
  registry,      \* the run's status in agent_runs, "absent" before it exists
  routed,        \* the process reached the run through the task router
  faults,
  report         \* what the last process told its caller

vars == <<pc, graph, queue, checkpoint, store, threads, registry, routed,
          faults, report>>

RunStatus == {"none", "resuming", "interrupted", "blocked", "completed"}

GraphState == [saved   : BOOLEAN,        \* an agent_state channel exists
               state   : AgentState,
               status  : RunStatus,
               version : Nat,            \* persistence_version
               attempt : Nat,            \* recovery_attempt, 0 when unset
               active  : BOOLEAN,        \* recovery_active
               context : SUBSET Key]     \* steps whose context update is merged

NoGraph == [saved |-> FALSE, state |-> NewAgentState, status |-> "none",
            version |-> 0, attempt |-> 0, active |-> FALSE, context |-> {}]

InGraph == {"starting", "plan", "mark_running", "marked", "execute",
            "executing", "executed", "replan", "complete", "blocked"}
Location == InGraph \union {"idle", "finish", "raised", "cancelled", "interrupting"}

Init ==
  /\ pc = "idle"
  /\ graph = NoGraph
  /\ queue = <<>>
  /\ checkpoint = NoGraph
  /\ store = EmptyStore
  /\ threads = {}
  /\ registry = "absent"
  /\ routed = FALSE
  /\ faults = 0
  /\ report = "none"

-----------------------------------------------------------------------------
(***************************************************************************)
(* Steps shared by the nodes.                                              *)
(***************************************************************************)
Return(g, next) ==
  /\ queue' = Append(queue, g)
  /\ graph' = g
  /\ pc' = next

Leave(what) ==
  /\ pc' = "idle"
  /\ graph' = NoGraph
  /\ report' = what

Outer == <<registry, routed, faults, report>>

\* The edges out of START, plan and execute.
StartNode(g) == IF g.status = "blocked" THEN "blocked" ELSE "plan"

AfterPlan(g) == IF AllStepsCompleted(g.state) THEN "complete" ELSE "mark_running"

AfterExecute(g) ==
  IF FailedNext(g.state) THEN "replan"
  ELSE IF AllStepsCompleted(g.state) THEN "complete"
  ELSE "mark_running"

-----------------------------------------------------------------------------
(***************************************************************************)
(* The nodes of the graph.                                                 *)
(***************************************************************************)
\* ainvoke stores its input merged into the newest checkpoint.
Begin ==
  /\ pc = "starting"
  /\ Return(graph, StartNode(graph))
  /\ UNCHANGED <<checkpoint, store, threads, Outer>>

PlanNew ==
  /\ pc = "plan"
  /\ graph.state.plans = <<>>
  /\ \E p \in Plans : Return([graph EXCEPT !.state = WithPlan(@, p)], "mark_running")
  /\ UNCHANGED <<checkpoint, store, threads, Outer>>

PlanKept ==
  /\ pc = "plan"
  /\ graph.state.plans # <<>>
  /\ Return(graph, AfterPlan(graph))
  /\ UNCHANGED <<checkpoint, store, threads, Outer>>

\* Mutant of MarkRunning: a failed step is marked like any other.
MarkRunningAgain ==
  /\ pc = "mark_running"
  /\ \E k \in Key :
       /\ IsNextStep(graph.state, k)
       /\ store' = Insert(store, k, "running", graph.version + 1)
       /\ graph' = [graph EXCEPT !.state = WithStepExecution(@, k, "running"),
                                 !.version = @ + 1]
  /\ pc' = "marked"
  /\ UNCHANGED <<queue, checkpoint, threads, Outer>>

MarkRunning ==
  /\ pc = "mark_running"
  /\ \E k \in Key :
       /\ IsNextStep(graph.state, k)
       /\ graph.state.execs[k] # "failed"
       /\ ~Collides(store, k, "running")
       /\ store' = Insert(store, k, "running", graph.version + 1)
       /\ graph' = [graph EXCEPT !.state = WithStepExecution(@, k, "running"),
                                 !.version = @ + 1]
  /\ pc' = "marked"
  /\ UNCHANGED <<queue, checkpoint, threads, Outer>>

MarkReturn ==
  /\ pc = "marked"
  /\ Return(graph, "execute")
  /\ UNCHANGED <<checkpoint, store, threads, Outer>>

\* Mutant of MarkFailedStep: an interrupted step is replanned as if it had failed.
MarkUncertainStep ==
  /\ pc = "mark_running"
  /\ \E k \in Key : /\ IsNextStep(graph.state, k)
                    /\ graph.state.execs[k] \in {"failed", "interrupted"}
  /\ Return(graph, "replan")
  /\ UNCHANGED <<checkpoint, store, threads, Outer>>

\* A step that already failed is not marked: the edge leads to replan.
MarkFailedStep ==
  /\ pc = "mark_running"
  /\ FailedNext(graph.state)
  /\ Return(graph, "replan")
  /\ UNCHANGED <<checkpoint, store, threads, Outer>>

\* The insertion is refused by the table's unique key and the node raises.
MarkCollides ==
  /\ pc = "mark_running"
  /\ \E k \in Key : /\ IsNextStep(graph.state, k)
                    /\ graph.state.execs[k] # "failed"
                    /\ Collides(store, k, "running")
  /\ pc' = "raised"
  /\ UNCHANGED <<graph, queue, checkpoint, store, threads, Outer>>

\* The executor opens the thread of the selected attempt and starts working.
ExecuteBegin ==
  /\ pc = "execute"
  /\ \E k \in Key : /\ IsNextStep(graph.state, k)
                    /\ threads' = threads \union {<<k, graph.attempt>>}
  /\ pc' = "executing"
  /\ UNCHANGED <<graph, queue, checkpoint, store, Outer>>

\* Mutants of ExecuteEnd: the row is never inserted; the outcome keeps the
\* version of the running row.
ExecuteEndUnrecorded ==
  /\ pc = "executing"
  /\ \E k \in Key, outcome \in {"completed", "failed"} :
       /\ IsNextStep(graph.state, k)
       /\ graph' = [graph EXCEPT !.state   = WithStepExecution(@, k, outcome),
                                 !.version = @ + 1,
                                 !.active  = FALSE]
  /\ pc' = "executed"
  /\ UNCHANGED <<queue, checkpoint, store, threads, Outer>>

ExecuteEndSameVersion ==
  /\ pc = "executing"
  /\ \E k \in Key, outcome \in {"completed", "failed"} :
       /\ IsNextStep(graph.state, k)
       /\ store' = Insert(store, k, outcome, graph.version)
       /\ graph' = [graph EXCEPT !.state  = WithStepExecution(@, k, outcome),
                                 !.active = FALSE]
  /\ pc' = "executed"
  /\ UNCHANGED <<queue, checkpoint, threads, Outer>>

ExecuteEnd ==
  /\ pc = "executing"
  /\ \E k \in Key, outcome \in {"completed", "failed"} :
       /\ IsNextStep(graph.state, k)
       /\ store' = Insert(store, k, outcome, graph.version + 1)
       /\ graph' = [graph EXCEPT
            !.state   = WithStepExecution(@, k, outcome),
            !.version = @ + 1,
            !.active  = FALSE,
            !.context = IF outcome = "completed" THEN @ \union {k} ELSE @]
  /\ pc' = "executed"
  /\ UNCHANGED <<queue, checkpoint, threads, Outer>>

ExecuteReturn ==
  /\ pc = "executed"
  /\ Return(graph, AfterExecute(graph))
  /\ UNCHANGED <<checkpoint, store, threads, Outer>>

\* Mutant of Replan: the revision budget is not checked.
ReplanUnbounded ==
  /\ pc = "replan"
  /\ \E p \in Plans : Return([graph EXCEPT !.state = WithPlan(@, p)], "mark_running")
  /\ UNCHANGED <<checkpoint, store, threads, Outer>>

Replan ==
  /\ pc = "replan"
  /\ Revision(graph.state) # MaxRevision
  /\ \E p \in Plans : Return([graph EXCEPT !.state = WithPlan(@, p)], "mark_running")
  /\ UNCHANGED <<checkpoint, store, threads, Outer>>

ReplanExhausted ==
  /\ pc = "replan"
  /\ Revision(graph.state) = MaxRevision
  /\ Return([graph EXCEPT !.status = "blocked"], "finish")
  /\ UNCHANGED <<checkpoint, store, threads, Outer>>

Terminal(node, status) ==
  /\ pc = node
  /\ Return([graph EXCEPT !.status = status], "finish")
  /\ UNCHANGED <<checkpoint, store, threads, Outer>>

\* The saver writes the oldest pending checkpoint.
Save ==
  /\ queue # <<>>
  /\ checkpoint' = Head(queue)
  /\ queue' = Tail(queue)
  /\ UNCHANGED <<pc, graph, store, threads, Outer>>

\* Mutants of Finish: the result is registered before its checkpoint is stored;
\* only a completed result is registered.
FinishEarly ==
  /\ pc = "finish"
  /\ registry' = graph.status
  /\ Leave(graph.status)
  /\ UNCHANGED <<queue, checkpoint, store, threads, routed, faults>>

FinishCompletedOnly ==
  /\ pc = "finish"
  /\ queue = <<>>
  /\ registry' = IF graph.status = "completed" THEN "completed" ELSE registry
  /\ Leave(graph.status)
  /\ UNCHANGED <<queue, checkpoint, store, threads, routed, faults>>

\* The graph has ended and its checkpoints are stored: set_terminal, release.
Finish ==
  /\ pc = "finish"
  /\ queue = <<>>
  /\ registry' = graph.status
  /\ Leave(graph.status)
  /\ UNCHANGED <<queue, checkpoint, store, threads, routed, faults>>

-----------------------------------------------------------------------------
(***************************************************************************)
(* A fresh run, and resume.                                                *)
(***************************************************************************)
Start(viaRouter) ==
  /\ pc = "idle"
  /\ registry = "absent"
  /\ registry' = "running"
  /\ routed' = viaRouter
  /\ graph' = [NoGraph EXCEPT !.saved = TRUE, !.status = "resuming"]
  /\ pc' = "starting"
  /\ report' = "none"
  /\ UNCHANGED <<queue, checkpoint, store, threads, faults>>

Restored == RestoreExecutions(store, checkpoint.state)
Stale    == MarkStaleInterrupted(Restored)

\* A resume that finds the run open; what it does next depends on the stores.
Resuming ==
  /\ pc = "idle"
  /\ registry = "running"
  /\ UNCHANGED <<queue, checkpoint, threads, registry, faults>>
  /\ routed' = FALSE

\* No agent_state was ever checkpointed: the plan node has nothing to read.
ResumeUnsaved ==
  /\ Resuming
  /\ ~checkpoint.saved
  /\ Confirmed(store, checkpoint.version)
  /\ Leave("error")
  /\ UNCHANGED store

\* PersistenceVersionMismatchError: nothing is planned or executed.
ResumeRefused ==
  /\ Resuming
  /\ ~Confirmed(store, checkpoint.version)
  /\ Leave("mismatch")
  /\ UNCHANGED store

\* The rows name a step of a plan that was never checkpointed: ValueError.
ResumeInvalid ==
  /\ Resuming
  /\ checkpoint.saved
  /\ Confirmed(store, checkpoint.version)
  /\ ~EveryExecutionPlanned(Restored)
  /\ Leave("error")
  /\ UNCHANGED store

CanResume ==
  /\ checkpoint.saved
  /\ Confirmed(store, checkpoint.version)
  /\ EveryExecutionPlanned(Restored)

ResumeTerminal ==
  /\ Resuming
  /\ CanResume
  /\ checkpoint.status \in {"completed", "blocked"}
  /\ graph' = checkpoint
  /\ pc' = "finish"
  /\ report' = "none"
  /\ UNCHANGED store

\* The input of ainvoke on resume; persistence_version is not part of it.
ResumeInput(s, active, attempt) ==
  [checkpoint EXCEPT !.state   = s,
                     !.status  = "resuming",
                     !.active  = active,
                     !.attempt = attempt,
                     !.context = RestoreContext(store, @)]

Reopening ==
  /\ Resuming
  /\ CanResume
  /\ checkpoint.status \notin {"completed", "blocked"}
  /\ pc' = "starting"
  /\ report' = "none"

ResumeContinue ==
  /\ Reopening
  /\ WithStatus(Stale, "interrupted") = {}
  /\ graph' = ResumeInput(Stale, FALSE, checkpoint.attempt)
  /\ UNCHANGED store

\* Work found running is recorded as interrupted at the history's next
\* version; work already recorded as interrupted is not recorded again.
RecordInterrupted(k) ==
  IF WithStatus(Restored, "running") # {}
  THEN Insert(store, k, "interrupted", store.latest + 1)
  ELSE store

\* Mutants of ResumeRecover: only a step found running is marked as recovered;
\* the attempt is that of the interrupted row.
ResumeRecoverRunningOnly ==
  /\ Reopening
  /\ "none" \in Decisions
  /\ \E k \in Key :
       /\ IsFirstUncertain(Restored, k)
       /\ store' = RecordInterrupted(k)
       /\ graph' = ResumeInput(Stale, WithStatus(Restored, "running") # {},
                               store'.newest[k].attempt + 1)

ResumeRecoverSameAttempt ==
  /\ Reopening
  /\ "none" \in Decisions
  /\ \E k \in Key :
       /\ IsFirstUncertain(Restored, k)
       /\ store' = RecordInterrupted(k)
       /\ graph' = ResumeInput(Stale, TRUE, store'.newest[k].attempt)

\* Without a decision the step gets a new attempt.
ResumeRecover ==
  /\ Reopening
  /\ "none" \in Decisions
  /\ \E k \in Key :
       /\ IsFirstUncertain(Restored, k)
       /\ store' = RecordInterrupted(k)
       /\ graph' = ResumeInput(Stale, TRUE, store'.newest[k].attempt + 1)

\* --recovery fail.  Only a step found running clears the recovery marker.
ResumeFail ==
  /\ Reopening
  /\ "fail" \in Decisions
  /\ \E k \in Key :
       /\ IsFirstUncertain(Restored, k)
       /\ store' = RecordInterrupted(k)
       /\ graph' = ResumeInput(WithStepExecution(Stale, k, "failed"),
                               WithStatus(Restored, "running") = {},
                               store'.newest[k].attempt + 1)

\* --recovery abort: the input carries only the state and the status.
ResumeAbort ==
  /\ Reopening
  /\ "abort" \in Decisions
  /\ \E k \in Key :
       /\ IsFirstUncertain(Restored, k)
       /\ store' = RecordInterrupted(k)
       /\ graph' = [checkpoint EXCEPT !.state = Stale, !.status = "blocked"]

-----------------------------------------------------------------------------
(***************************************************************************)
(* Faults.                                                                 *)
(***************************************************************************)
Fault(kind) ==
  /\ kind \in FaultKinds
  /\ faults < MaxFaults
  /\ faults' = faults + 1

\* The process dies: its memory and the checkpoints not yet written are lost.
Crash ==
  /\ Fault("crash")
  /\ pc # "idle"
  /\ queue' = <<>>
  /\ Leave("crashed")
  /\ UNCHANGED <<checkpoint, store, threads, registry, routed>>

\* The planner or the executor raises (a provider error, an invalid plan,
\* a PersistenceError), or the database refuses the row.
Raise ==
  /\ Fault("raise")
  /\ \/ pc = "plan" /\ graph.state.plans = <<>>
     \/ pc = "replan" /\ Revision(graph.state) # MaxRevision
     \/ pc = "mark_running" /\ \E k \in Key : /\ IsNextStep(graph.state, k)
                                              /\ graph.state.execs[k] # "failed"
     \/ pc = "executing"
  /\ pc' = "raised"
  /\ UNCHANGED <<graph, queue, checkpoint, store, threads, registry, routed, report>>

\* Leaving the graph waits for the saver.  The plan_execute mode under the
\* router turns the exception into a failed answer, which is terminal.
RaiseOut ==
  /\ pc = "raised"
  /\ queue = <<>>
  /\ registry' = IF routed THEN "failed" ELSE registry
  /\ Leave(IF routed THEN "failed" ELSE "error")
  /\ UNCHANGED <<queue, checkpoint, store, threads, routed, faults>>

\* SIGINT or SIGTERM cancels durable.run wherever it is, also while the ended
\* graph waits for the saver.
Cancel ==
  /\ Fault("cancel")
  /\ pc \in InGraph \/ (pc = "finish" /\ queue # <<>>)
  /\ pc' = "cancelled"
  /\ graph' = NoGraph
  /\ UNCHANGED <<queue, checkpoint, store, threads, registry, routed, report>>

\* The same signal while a resume still reads the stores.
CancelReading ==
  /\ Fault("abandon")
  /\ pc = "idle"
  /\ registry = "running"
  /\ pc' = "cancelled"
  /\ routed' = FALSE
  /\ UNCHANGED <<graph, queue, checkpoint, store, threads, registry, report>>

InterruptedInput ==
  [checkpoint EXCEPT !.state   = MarkStaleInterrupted(@),
                     !.status  = "interrupted",
                     !.version = @ + 1]

\* durable.interrupt: the row first, when a step was running ...
InterruptRunning ==
  /\ pc = "cancelled"
  /\ queue = <<>>
  /\ WithStatus(checkpoint.state, "running") # {}
  /\ \E k \in Key :
       /\ IsFirstUncertain(checkpoint.state, k)
       /\ store' = Insert(store, k, "interrupted", checkpoint.version + 1)
  /\ graph' = InterruptedInput
  /\ pc' = "interrupting"
  /\ UNCHANGED <<queue, checkpoint, threads, Outer>>

InterruptIdleStep ==
  /\ pc = "cancelled"
  /\ queue = <<>>
  /\ checkpoint.saved
  /\ WithStatus(checkpoint.state, "running") = {}
  /\ graph' = InterruptedInput
  /\ pc' = "interrupting"
  /\ UNCHANGED <<queue, checkpoint, store, threads, Outer>>

InterruptUnsaved ==
  /\ pc = "cancelled"
  /\ queue = <<>>
  /\ ~checkpoint.saved
  /\ Leave("interrupted")
  /\ UNCHANGED <<queue, checkpoint, store, threads, registry, routed, faults>>

\* ... then the checkpoint, whose graph goes straight to its interrupted node.
InterruptSave ==
  /\ pc = "interrupting"
  /\ checkpoint' = graph
  /\ Leave("interrupted")
  /\ UNCHANGED <<queue, store, threads, registry, routed, faults>>

-----------------------------------------------------------------------------
Node ==
  \/ Begin \/ PlanNew \/ PlanKept
  \/ MarkRunning \/ MarkReturn \/ MarkFailedStep \/ MarkCollides
  \/ ExecuteBegin \/ ExecuteEnd \/ ExecuteReturn
  \/ Replan \/ ReplanExhausted
  \/ Terminal("complete", "completed") \/ Terminal("blocked", "blocked")
  \/ Finish \/ RaiseOut

Interrupt ==
  InterruptRunning \/ InterruptIdleStep \/ InterruptUnsaved \/ InterruptSave

Resume ==
  \/ ResumeUnsaved \/ ResumeRefused \/ ResumeInvalid \/ ResumeTerminal
  \/ ResumeContinue \/ ResumeRecover \/ ResumeFail \/ ResumeAbort

Next ==
  \/ \E viaRouter \in BOOLEAN : Start(viaRouter)
  \/ Node
  \/ Save
  \/ Interrupt
  \/ Resume
  \/ Crash \/ Raise \/ Cancel \/ CancelReading

Spec == Init /\ [][Next]_vars

(***************************************************************************)
(* Progress: the event loop keeps running the process that works on the    *)
(* run, every model and tool call returns or raises, the saver keeps       *)
(* writing, and the operator resumes an open run.  Nothing obliges a fault *)
(* to happen.                                                              *)
(***************************************************************************)
Fairness ==
  /\ WF_vars(Node)
  /\ WF_vars(Save)
  /\ WF_vars(Interrupt)
  /\ WF_vars(Resume)

FairSpec == Spec /\ Fairness

-----------------------------------------------------------------------------
(***************************************************************************)
(* Type invariant.                                                         *)
(***************************************************************************)
TypeOK ==
  /\ pc \in Location
  /\ graph \in GraphState
  /\ queue \in Seq(GraphState)
  /\ checkpoint \in GraphState
  /\ store \in Store
  /\ threads \subseteq Key \X Nat
  /\ registry \in {"absent", "running", "completed", "blocked", "failed"}
  /\ routed \in BOOLEAN
  /\ faults \in 0 .. MaxFaults
  /\ report \in {"none", "completed", "blocked", "failed", "mismatch", "error",
                 "crashed", "interrupted"}

(***************************************************************************)
(* Safety.                                                                 *)
(***************************************************************************)
StepAtWork(k) == pc = "executing" /\ IsNextStep(graph.state, k)

\* An executor only works on a step of the last revision all of whose earlier
\* steps have a recovery row saying completed, whatever crashes, cancelled
\* waits and resumes lie between those steps (_next_step after an overlay).
StepsInPlanOrder ==
  \A k \in Key : StepAtWork(k) =>
    \A j \in Key : j[1] = k[1] /\ Before(graph.state, j, k) => HasRow(store, j, "completed")

\* What the checkpoint says is completed is still completed in the state a
\* resume rebuilds from the rows: no restart loses finished work.
CompletionsSurviveRestart ==
  checkpoint.saved /\ Confirmed(store, checkpoint.version)
    => WithStatus(checkpoint.state, "completed") \subseteq WithStatus(Restored, "completed")

\* A checkpointed completion is never taken back by a later checkpoint, in
\* particular not by interrupt() or by the overlay of a resume.
CheckpointedCompletionIsFinal ==
  [][\A k \in Key : checkpoint.state.execs[k] = "completed"
                       => checkpoint'.state.execs[k] = "completed"]_vars

\* The registry calls a run completed only when the stored checkpoint ends it
\* with every step of the last plan completed and recorded, and blocked only
\* when the last revision's budget is spent on a failed step or the operator
\* gave up an interrupted one (set_terminal after the graph's END).
TerminalStatusJustified ==
  /\ registry = "completed" =>
       /\ checkpoint.status = "completed"
       /\ AllStepsCompleted(checkpoint.state)
       /\ \A k \in WithStatus(checkpoint.state, "completed") : HasRow(store, k, "completed")
  /\ registry = "blocked" =>
       /\ checkpoint.status = "blocked"
       /\ \/ WithStatus(checkpoint.state, "interrupted") # {}
          \/ Revision(checkpoint.state) = MaxRevision /\ FailedNext(checkpoint.state)
  /\ registry = "failed" => routed

\* A step whose history holds an interrupted row is executed again only with
\* the recovery marker, so its executor first verifies the external state.  It
\* holds as long as no resume is cancelled while it reads (fault "abandon").
RecoveredStepIsMarked ==
  \A k \in Key : StepAtWork(k) /\ HasRow(store, k, "interrupted") => graph.active

\* While a step is marked or executed, the newest row of the run is the one
\* that said so: the in-memory version never runs behind the rows.
ExecutionIsRecorded ==
  pc \in {"marked", "execute", "executing", "executed"} => graph.version = store.latest

\* The attempts of a step are numbered 1, 2, ... without a gap, each running
\* row opens a new one, and an outcome belongs to the attempt that ran.
AttemptsAreNumbered ==
  \A k \in Key : \A n \in DOMAIN store.rows[k] :
    LET row == store.rows[k][n]
    IN  /\ row.status = "running" =>
              row.attempt = IF n = 1 THEN 1 ELSE store.rows[k][n - 1].attempt + 1
        /\ row.status \in {"completed", "failed"} =>
              /\ n > 1
              /\ store.rows[k][n - 1].status = "running"
              /\ store.rows[k][n - 1].attempt = row.attempt

\* The context handed to an executor holds the update of every completed
\* step of the state, and of no step that never completed.
ContextIsTrustworthy ==
  pc = "executing" =>
    /\ WithStatus(graph.state, "completed") \subseteq graph.context
    /\ \A k \in graph.context : HasRow(store, k, "completed")

\* When checkpoint and rows carry the same version, they agree on which steps
\* are completed: the version is a sound sign of agreement.  It holds as long as
\* no resume is cancelled while it reads (fault "abandon", run CancelledResumes)
\* and no step is failed by decision, which no row records.
CommonVersionAgrees ==
  checkpoint.saved /\ store.latest = checkpoint.version
    => WithStatus(checkpoint.state, "completed") = WithStatus(Restored, "completed")

\* The row that marks a step running never meets the table's unique key, under
\* the same conditions.
RunningRowsAccepted ==
  pc = "mark_running" =>
    \A k \in Key : IsNextStep(graph.state, k) => ~Collides(store, k, "running")

(***************************************************************************)
(* Liveness: an operator who keeps resuming ends up with a terminal run,   *)
(* or with one whose stores disagree for good or that never had a state.   *)
(***************************************************************************)
Settled ==
  /\ pc = "idle"
  /\ \/ registry \in {"completed", "blocked", "failed"}
     \/ registry = "running" /\ checkpoint.saved
                             /\ ~Confirmed(store, checkpoint.version)
     \/ registry = "running" /\ ~checkpoint.saved

EventuallySettled == registry = "running" ~> Settled

-----------------------------------------------------------------------------
(***************************************************************************)
(* Refinement.                                                             *)
(***************************************************************************)
Promise == INSTANCE PlanExecution WITH state <- checkpoint.state, phase <- registry

\* The newest checkpoint and the registry's status, across every crash,
\* cancelled wait, raised error and resume, move only as PlanExecution allows.
\* Like CommonVersionAgrees it supposes that no resume is cancelled while it
\* reads and that no step is failed by decision (run FailDecision).
ImplementsPlanExecution == Promise!PSpec

-----------------------------------------------------------------------------
(***************************************************************************)
(* What the documentation promises and the code keeps under a condition    *)
(* only.  The passing runs check it where it holds; without the condition  *)
(* it is refuted by the run or configuration named beside it.              *)
(***************************************************************************)
Stopped == pc = "idle" /\ registry = "running" /\ checkpoint.saved

\* A step with a completed row is never handed to an executor again, however
\* often the process dies or raises, and whatever the operator decides.  A
\* signal breaks it (run CompletedStep): interrupt() writes its row over one
\* that no checkpoint has followed yet.
CompletedStepNotRestarted ==
  \A k \in Key : StepAtWork(k) => ~HasRow(store, k, "completed")

\* A step that failed stays failed in the checkpoint, and is never tried again
\* but in a later revision.  A step the operator had marked failed does not
\* (FailDecision.cfg): no row holds that decision.
CheckpointedFailureIsFinal ==
  [][\A k \in Key : checkpoint.state.execs[k] = "failed"
                      => checkpoint'.state.execs[k] = "failed"]_vars

\* interrupt() that finds a step running leaves a run that can be resumed: the
\* interrupted row and the checkpoint after it get one version.  Without a
\* running step only the checkpoint's is raised (run InterruptedRun).
InterruptedStepResumable ==
  [][InterruptSave /\ WithStatus(checkpoint.state, "running") # {}
       => Confirmed(store', checkpoint'.version)]_vars

\* The attempt that the context and the thread of a recovered step name is the
\* one its running row opens.  The graph computes it before it knows that row.
RecoveredAttempt ==
  \A k \in Key : StepAtWork(k) /\ graph.active
    => graph.attempt = LastInserted(store, k).attempt

\* A run whose checkpoint ended by itself returns that result when resumed.  One
\* that an abort ended does not (BlockedResult.cfg): the interrupted row of the
\* same resume has no checkpoint of its version.
EndedResultReturned ==
  /\ Stopped
  /\ checkpoint.status \in {"completed", "blocked"}
  /\ WithStatus(checkpoint.state, "interrupted") = {}
  => Confirmed(store, checkpoint.version)

-----------------------------------------------------------------------------
(***************************************************************************)
(* What the documentation promises and the code does not keep.  Each is    *)
(* refuted by the run of the same name.                                    *)
(***************************************************************************)
\* After an interruption, resume continues from the newest checkpoint: the
\* versions agree (interrupt() raises only the checkpoint's when no step was
\* running).
InterruptedRunResumable ==
  Stopped /\ checkpoint.status = "interrupted" => Confirmed(store, checkpoint.version)

\* After any other stop whose checkpoints were all written, the versions agree
\* as well (a resume's interrupted row has no checkpoint of its version).
SavedRunResumable ==
  Stopped /\ report = "error" => Confirmed(store, checkpoint.version)

\* Every execution of a step is a new, numbered attempt, working in an executor
\* thread of its own.
AttemptThreadsDistinct ==
  [][pc' = "executing" /\ pc # "executing" => threads' # threads]_vars

\* A run whose checkpoint is blocked returns that result when resumed.
BlockedResultReturned ==
  Stopped /\ checkpoint.status = "blocked" => Confirmed(store, checkpoint.version)
=============================================================================
