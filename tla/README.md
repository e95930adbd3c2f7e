# TLA+ model of the Agent

This directory models the part of the Agent whose correctness depends on the
order of things: durable Plan-Execute runs that are checkpointed, killed,
cancelled and resumed; the lease that lets one process at a time work on a run;
conversations whose turns several processes append, execute, resume and
reconcile; the rounds of a Plan step and of a ReAct run with the tool batches,
judgments and budgets in them; the context policy that decides in the background
what a model still sees; and the protocol its replies are written in. Paths are
relative to the repository (`src/` here).

    tlc -config DurableFaults.cfg MCDurableRun    # a model-checking run
    tlapm DurableRunProofs.tla                    # a module of proofs

`PROJECT.json` lists every run with its properties, one mutation of the model
per property that TLC must find, and the source lines of every definition.

## 1. The system

| Component | State it keeps | Operations | Talks to |
|---|---|---|---|
| Agent state (`memory/state.py`) | immutable `AgentState`: goal, plan revisions, one status per step of each | constructor checks, `with_plan`, `with_step_execution` | everybody's value |
| Durable graph (`agent/durable.py`) | `GraphState` in memory, in the LangGraph checkpoint of the run | nodes `plan`, `mark_running`, `execute`, `replan`, `complete`, `blocked`, `interrupted`; `run` (fresh or resume with a decision), `interrupt` | saver, recovery store, planner, executor |
| Step recovery store (`agent/recovery.py`) | rows of `step_recovery_attempts`: step, version, attempt, status | `record`, `restore`, `history`, `latest_version` | durable graph |
| Run registry and lease (`agent/registry.py`) | row of `agent_runs`: status, result, lease owner and expiry | `create`, `ensure_compatible`, `acquire`, `renew`, `release`, `set_terminal` | `_run` and its renewal task |
| In-memory coordinator (`agent/agent.py`) | an `AgentState` | `run`, recovery helpers | planner, executor |
| Conversations (`agent/conversation.py`) | conversation and turn rows, a set of ephemeral turns per process | store: `append`, `get`, `update`; service: `run`, `resume`, `_reconcile_active` | run registry, execution modes, durable runs |
| Runtime context (`agent/runtime_context.py`) | recorded calls, outcomes of their observations, the Observations, background tasks | `record_tool_round`, `assemble`, `maintain`, `_observe` | the component's model |
| Step executor (`agent/executor.py`) | an MCP session for the run; rounds, messages and feedback of one step | enter, exit, `execute`: tool rounds, terminal candidates, completion judgment with one repair | model, tools, runtime context |
| Direct, tool_agent and react modes (`agent/execution.py`) | tool runtime, HTTP clients; messages, verdicts and evidence of one answer | `run`: tool loop, decisions, completion judge, release | model, tools, runtime context |
| Task analyzer and router (`agent/task_analyzer.py`) | none | analyse with one retry, choose a mode by a rule, fall back to plan_execute | model, modes |
| Planner (`agent/planner.py`) | none | prompt, one retry | model |
| Line protocol (`llm/line_protocol.py`) | none | parse, check against the registry, decode | everybody who asks a model |
| Adapters, streams, trace, CLI, configuration, migration, tool results | none beyond I/O | | |

How they interact: `_run` creates or checks the registry row, takes the lease,
starts the renewal task, and drives `DurableAgent.run`, directly or through
the router. Each node of the graph computes an update, commits its own recovery
row, and returns; the saver then writes the node's checkpoint while the next
node may already run. So a run has **two** durable descriptions, tied only by a
version number, `persistence_version`. Signals cancel the task at any `await`;
the handler, `interrupt`, writes both descriptions again from what it reads.
Registry, rows and checkpoints are separate transactions of one MySQL server.

A step or a ReAct run is a loop around `await`s: maintain the context, ask the
model, run its tool calls concurrently, record the batch, go round. Every batch
starts observation tasks that nobody waits for; they change the policy's lists
whenever the loop awaits something, `maintain`'s own merge request included.

What is hard about it:

* *Crashes* between the two stores, and between them and the registry.
* *Cancellation* at every `await`, with a handler that reads a checkpoint older
  than the rows.
* *Long sequences* of resumes, decisions, refused resumes and errors that must
  keep versions, attempts and the overlay of the rows consistent.
* *Competing processes*: leases that expire, renewals that fail, a status that
  is checked before the lease is held.
* *Numeric edges*: the revision budget (an equality), attempts against the
  table's unique key, round budgets checked at three places, windows that are
  slices of the recorded rounds.
* *Background answers* that come late, are refused or are cancelled, in the middle
  of a merge or after the end of the step they belong to.
* *Failures while something is being opened or closed*: sessions, runtimes,
  clients, a batch of which one call raises.
* *Replies* that are almost well formed.
* *Conversations*: several processes, one active turn, per-process knowledge of
  which turns are being executed.

What makes each component correct:

* **Agent state**: one status per step of known revisions; a new revision keeps
  earlier ones; the next step is the first incomplete one of the last revision.
* **Durable graph**: steps in plan order across restarts; completions survive;
  revisions are spent on failures only; a terminal status is justified;
  recovered steps are marked; an open run can be resumed to an end.
* **Recovery store**: attempts are numbered without a gap; an outcome belongs to
  the attempt that ran; restore refuses what the versions do not confirm.
* **Lease**: one executor at a time; a completed run is final and not worked on;
  a run whose holder died is taken over.
* **Conversations**: one active turn; sequence numbers without gaps; a terminal
  turn stays terminal; a dead turn is reconciled.
* **Runtime context**: raw evidence stays until it has been answered; the newest
  batch and its errors are always shown; no evidence is doubled, invented or lost.
* **Step executor, coordinator**: one step at a time; budgets hold; a step is
  completed only by an accepted answer to its last request; the run ends.
* **ReAct and the other modes**: an answer was judged against every criterion in
  its own round; resources are released however the mode ends.
* **Line protocol**: a reply is accepted exactly when it says one thing, and is
  taken for what it says.

## 2. The modules

| Module | Models | Kind |
|---|---|---|
| `AgentStates` | `memory/state.py` and the selection helpers of `agent.py` and `durable.py` | operators on values |
| `StepRecovery` | `MySQLStepRecoveryStore` and the overlay of its rows | operators on values |
| `PlanExecution` | what a plan execution promises, without processes or faults | abstract specification |
| `DurableRun` | graph, saver, resume, interrupt, faults | detailed specification |
| `RunLease` | registry row, lease, competing invocations of `_run` | specification |
| `Conversation` | the turns of one conversation, the calls on it, their runs | specification |
| `RuntimeContext` | the context policy of a step or a ReAct run | specification |
| `StepExecutor` | the rounds of a Plan step, the Executor's session | specification |
| `StepContext` | `StepExecutor` with `RuntimeContext` inside | composition |
| `PlanAgent` | the in-memory coordinator with its `StepExecutor` | composition; implements `PlanExecution` |
| `ReactMode` | rounds, judgments and resources of a ReAct run | specification |
| `ExecutionModes` | analysis, routing, and every mode around `ReactMode` | composition |
| `LineProtocol` | parser, registry and decoders, with a reference reading of a reply | specification |
| `MCDurableRun`, `MCConversation`, `MCRuntimeContext`, `MCStepContext`, `MCPlanAgent`, `MCLineProtocol` | small plans, services, calls and replies | for TLC |
| `AgentStateLemmas`, `PlanExecutionProofs`, `DurableRunProofs`, `RunLeaseProofs`, `ConversationProofs`, `RuntimeContextProofs` (with `StepContext`), `PlanAgentProofs`, `ModeProofs` (of `ExecutionModes`) | | proofs |

`DurableRun` EXTENDS `StepRecovery`, which EXTENDS `AgentStates`, which
`PlanExecution` extends too. `PlanExecution` has two implementations: the durable
one, through an instance with a mapping (`Promise` in `DurableRun`), and `PlanAgent`, which extends it and
has its variables. `RunLease` looks at durable runs from the side:
it keeps of the checkpoint only what a resume would find in it, and lets any
number of processes at it, where `DurableRun` has one process and all detail.
`Conversation` looks from above: a run is absent, open or ended, and held by
whoever executes it. `DurableRun` takes a step's outcome as one event;
`StepExecutor` is what happens in it, and `StepContext` adds what its model sees.

### AgentStates and StepRecovery

A plan is a sequence of step names; a key is `<<revision, step>>`, as in the
code's `step_executions` dictionary. Texts (intents, criteria, results, errors)
are left out since no control decision reads them; `context` is the set of
steps whose context update has been merged. `WithPlan` and
`WithStepExecution` are the methods, `EveryExecutionPlanned` the constructor's check that
raises, `IsNextStep` is `_next_step`. `StepRecovery` holds the rows per
step with their attempt and status, the newest row of each step and the
newest version. `Insert` is `record` with its attempt numbering,
`Collides` the unique key, `Confirmed` the version check of `restore`,
`RestoreExecutions` and `RestoreContext` the overlay.

### DurableRun

`pc` is the place of the process, `graph` its `GraphState`, `queue` the
returned updates the saver has yet to write, `checkpoint` the stored one,
`store` the rows, `registry` the run's status; `threads`
records the executor threads that were opened. One action per node, with the
row's commit and the node's return as separate actions where a fault can fall
in between (`MarkRunning`/`MarkReturn`, `ExecuteEnd`/`ExecuteReturn`), and one per outcome of
`run` on resume. `interrupt` is `InterruptRunning` or `InterruptIdleStep`,
then `InterruptSave`. The faults are a crash anywhere, an error of the
model, executor or database (`Raise`), a signal while the graph works (`Cancel`) and a signal while a
resume still reads (`CancelReading`, fault `abandon`). The executor is one
step with outcome completed or failed; the planner returns any plan of `Plans`.
The saver (`langgraph-checkpoint-mysql`) is external and modelled as it is used: checkpoints are written in
order, leaving the graph waits for them.

### RunLease

Invocations of `_run` (`Owner`) go `new -> checked -> reading -> executing ->
returned -> leaving -> done`. The lease is its owner and the ticks left, a tick being 15 seconds
(`RENEWAL_SECONDS`). `Acquire`, `Renew`,
`SetTerminal`, `Leave` and `Create` are the registry's methods with their WHERE
clauses. The checkpoint is what a resume would find: unsaved, open, completed,
blocked, aborted, behind or ahead of the rows; those outcomes are the ones
`DurableRun` reaches. A late tick (fault `late`) lets time pass although
a renewal is due.

### Conversation

A call of `run` (`Caller`, whose name is also the run ID it invents) goes
`new -> asking | reconciling -> reconciled -> ready -> pending -> working ->
executing -> answered -> done`: one action per database access, since each is
an `await`. What a call read before is kept in `sequence` and `answer` and acted
on after. `GetEphemeral`, `GetPlan`, `AskRun` and `Reconcile` are
`_reconcile_active`; `ReadHistory` the second `get`; `AppendTurn` and `BeginTurn`
the two writes before the runner starts; `Record` the last one. The writes are
`UPDATE`s by sequence number with no guard on the status, and MySQL's "no row
affected" is `Refused`. `live` is `_active_ephemeral_runs`, one set for each
process. Operators (`Resumer`) call `resume` again and again; `AgentResume` is
`agent resume` on the run, which knows of no turn. Faults: the death of a process,
a signal (`Cancel`, `CancelResume`), an error in the Agent run (`RaiseRun`, a failed answer
and an open run) and one outside it (`RaiseOutside`). A refused call leaves
nothing behind and may be made again. The lease of the run is `holder`: a
crashed holder keeps the run from others until it expires, so an attempt may
find it held (`ResumeFailed`) or free (`ResumeRun`).

### RuntimeContext

A recorded call has its round, its ID, its lifecycle (how long its raw result is
kept), whether it failed, and the outcome of its observation; `_raw` and
`_observation_outcomes` are this one sequence. An Observation is the set of
IDs it is evidence of and its round range. `RecordToolRound` is
`record_tool_round`, the tasks it starts being the calls whose outcome is
`pending`; `Observe`, `ObserveInvalid`, `ObserveProviderError` and `ObserveCancelled` are
the four ways `_observe` ends. `Visible` is `assemble`. `maintain` is `StartMaintain`,
then any number of `RequestMerge` and `MergeObservations`, then `Fits`, `CannotFit` or
`MergeFails`; the request is awaited, so answers fall between the choice of the
pair and its replacement, which looks the two up again (`Slice`). Whether a
context fits is a free choice, and so is what a reply of the model says.

### StepExecutor, StepContext and PlanAgent

`at` is the `await` the Executor is in: opening its tools, maintaining the context,
asking the model, running a batch, maintaining for the judge, judging, repairing.
`rounds` is `_rounds`; `requests`, `batches` and `verdict` are history. A response
calls tools, is empty, or is a candidate; `Reject` is the round a rejected or empty
response costs. `Raise` is what an exception means: a failed step, or, with a
checkpointer, a `PersistenceError` that stops the run. `held` tells what the Executor believes it
has of its session, `sessions` what is open.

`StepContext` conjoins the two: the context places of the Executor are the
policy's `maintain`, settling a batch is `record_tool_round` with the failures of that batch, and
the background answers go on during both and after the step.

`PlanAgent` adds the loop of `Agent.run`: `Plan`, `ExecuteStep`, `RecordOutcome`,
`RevisionsUsedUp`, `AllCompleted`, and `Returned` after the Executor is closed. The step
that is being executed is marked running in `state`, an entry the code does not
make; with it the module's `state` is `PlanExecution`'s.

### ReactMode and ExecutionModes

`at` is again the `await`; `layout` says whether there is a context policy and which. A
decision, proposal or judgment is what the program makes of the reply's text. A judgment is
the set of criteria it verifies; `prior` is `historical_criterion_evidence`. `feedback` is what
the host tells the model next: the whole transcript without a policy, one request's worth
with one (`Noted`). `runtime` and `clients` are the two resources. A tool call fails
softly unless its result cannot be rendered, which raises out of `asyncio.gather`.
`ExecutionModes` puts the analyzer's retry, `Route`, the fallback and the other
modes around it; the durable run behind plan_execute is its result.

### LineProtocol

A reply is a sequence of lines (begin, end, scalar, other) whose values are members of
a small set. `Read` is one turn of the parser's loop over a stack, `Registered` the
registry's checks, and the decoders are predicates on the parsed block with the
meaning they return (`Decoded`). A document starts well formed and is edited: lines are lost,
repeated, swapped, renamed, given other values. The reference, `Meanings`, parses
nothing: it looks at positions of lines, as a reader would.

## 3. The runs

| Run | Question | Bounds |
|---|---|---|
| `DurableFaults` | order of steps, finality of completions, justified status, attempts, context | two steps, two revisions, three faults of all four kinds, all decisions |
| `DurableVersions` | is a common version agreement; is a running row ever refused; does a recovered step carry its marker and its own attempt; are failures final; is the result of an ended run returned; do checkpoint and registry implement `PlanExecution`; does a run that is resumed settle | two steps, two revisions, two faults without `abandon`, no `fail` decision |
| `Lease` | one executor; completed is final and not worked on; is a run taken over and ended | three invocations, lease of 4 ticks as in the code, three faults |
| `Conversation` | is a turn recorded before its run; does its outcome follow the run; does an abandoned turn let the conversation go on | two calls on two services, one operator, three faults, both kinds of mode, with and without earlier turns |
| `StepContext` | what model and judge see while answers arrive; which rounds an Observation speaks of; does the step end | two rounds of up to two calls, four kinds of call, raw window of one round |
| `PlanAgent` | the coordinator against `PlanExecution`; budgets, judged completions, sessions; does `run` end | plans of one and two steps, three revisions as in the code, two rounds, two tools, with a checkpointer |
| `ExecutionModes` | judged answers, verdicts that are shown, settled calls, release, the end of every run | three rounds, two criteria, two tools, every layout |
| `LineProtocol` | is every reply decoded as written | eleven replies of six kinds, up to two edited lines, nine values, seven names |

Why the bounds are enough. Three faults reach the states the documents argue about: work
interrupted, its recovery interrupted again, and a third fault in what follows;
every finding below but `UnmarkedRecovery`, which takes four, needs at most three. That one came
out of a proof: with three faults the marker held, and its invariant was not inductive (section 5). What the proofs
state they state for any number of faults. Two steps show order and overlay, two
revisions show replanning and the exhausted budget. Three invocations allow a
creator, a takeover and a competitor with a stale check. Two calls on two services
allow a turn and its reconciliation by another. Four recorded calls in two rounds
allow two Observations to be merged and a third to arrive between them; with a window of
one round, two rounds are enough for a call to leave it. Three ReAct rounds allow a proposal, a rejection that verifies one
criterion, tool work and a second proposal. Two edits are what a repetition and a removal,
or a swap and a value, need; a third would only compose them.
Deadlock is not checked: a run that ended has no further step, and
neither have invocations that are all done.

One more configuration passes, beside those of section 4 that do not: `DurableCrashes.cfg` (`MCDurableRun`), four crashes and errors,
no signal, all decisions.

The properties in a sentence each. One that no run lists is proved for all constants, and TLC checks it with the
configuration, or the constants of the run, that are named with it:

* `StepsInPlanOrder`: an executor works on a step only when each earlier step of
  that revision has a completed row.
* `CheckpointedCompletionIsFinal`: no later checkpoint takes back a completion. `CompletionsSurviveRestart`: neither does
  the overlay of the rows on the stored one (`DurableCrashes.cfg`).
* `CommonVersionAgrees`: equal versions mean equal completions. `RunningRowsAccepted`: the unique key
  never refuses the running row of a step that is started. Both hold while no
  resume is cancelled in its reading phase and no step is failed by decision;
  otherwise they fail (below).
* `RecoveredStepIsMarked`: a step with an interrupted row is executed again only with the
  recovery marker. It fails when resumes are cancelled and steps failed by decision in one
  run (`UnmarkedRecovery`); it is proved without the former and, without the latter, holds over four faults.
* `TerminalStatusJustified`, `AttemptsAreNumbered`, `ContextIsTrustworthy`: see the
  comments in `DurableRun`.
* `RecoveredAttempt`: the attempt the context and the thread of a recovered step name is the one its running
  row opens, though the graph computes it before there is such a row. Cancelled resumes break it (`AttemptThreads`).
* `CheckpointedFailureIsFinal`: a failed step is tried again in a later revision only. A failure that is the
  operator's decision is in no row, and a crash undoes it (`FailDecision`).
* `InterruptedStepResumable`: a signal that finds a step running leaves rows and checkpoint with one version; one
  that falls between steps does not (`InterruptedRun`). A property, with the constants of `DurableVersions`.
* `EndedResultReturned`: a run whose checkpoint ended by itself is returned by a resume; one that an abort ended is not
  (`BlockedResult`).
* `CompletedStepNotRestarted`: a step with a completed row is never executed again, whatever crashes, errors and
  decisions there are (`DurableCrashes.cfg`). The run `CompletedStep` refutes it for signals.
* `EventuallySettled`: an operator who keeps resuming ends with a terminal run,
  with versions that differ, or with a run that never had a state.
* `ImplementsPlanExecution`, in two runs: nothing happens to a plan, through
  crashes and resumes or in memory, that the abstract execution does not allow.
* `PunctualExclusion`: one executor, across crashes, expiries, takeovers and releases, as long
  as no renewal was missed (`missed` is history). `AtMostOneExecutor`, without that condition,
  is what the README promises and the run `LeaseRenewal` refutes.
* `NoWorkAfterCompletion`, `CompletedIsFinal`: though the resume's check of the
  status precedes its acquire, the completed checkpoint stops the work. The same is not
  claimed for `blocked`: an abort leaves a checkpoint a version behind its
  row, which a cancelled resume can open again.
* `EventuallyTerminal`: a created run ends, or its versions differ, while there
  are invocations left to resume it.
* `TurnRecordedFirst`: a working call has its turn on record under the number it
  read before it selected a mode; a run that exists belongs to a recorded turn.
* `OutcomeFollowsRun`: a plan_execute turn says completed or blocked only when
  its run does, although the call, a resume and late reconciliations all write it.
* `InterruptedTurnStaysActive`: when its process dies, the turn of an open plan_execute run is left to `resume` by whatever
  later calls make of it (`InterruptedTurnStaysActive.cfg` with the fault `crash` only, twice, and no `Resumer`). Errors and
  signals are recorded as failures instead (`InterruptedTurnStaysActive.cfg` as it is).
* `AbandonedTurnEnds`: a turn whose call ended without a result becomes terminal,
  as long as there is a call to come on a service that does not still take
  it for its own.
* `RawFallback`: a call of the observation class is shown raw until it has a valid
  answer, however the answer fails and however late it is.
* `RawFallbackById`: with reused IDs that holds as long as no call of that ID has been answered; more does not
  (`ReusedId.cfg`, with whose constants TLC checks it).
* `NewestBatchAccounted`, `ErrorsReachModel`: whatever was merged to
  make room, model and judge are shown all of the batch that has just run, its errors included.
* `ObservedOnce`: a call is in one Observation at most, and only after a positive answer.
* `NoEvidenceOfFailure`: no Observation comes from a failed call of a step, nor from a batch with one.
* `LostOnlyToOvertaking`: an Observation is lost in one way only, by arriving after that of a
  later call; together with the run `MergedAway` this delimits the defect.
* `RangeBegins`: an Observation's range begins at the least round of its calls and ends at the round of one of them.
  So a range may end too early (`MergedRange`) but neither begins too late nor begins or ends in a round it has nothing of.
* `StepEnds`: answers that keep arriving cannot keep `maintain` merging for ever.
* `CompletionsAreJudged`: a step is recorded as completed only when a valid judgment accepted a response of this step and
  no tool batch has run since. The acceptance ends the step: the handoff request the documents describe is not made
  (`HandoffRequest`).
* `BudgetHolds`, `RunEnds`: see `PlanAgent` and `StepExecutor`.
* `SessionsClosed` (of `PlanAgent`): no session outlives the Executor. It holds with a checkpointer, where the step whose tools
  do not load is the run's last; `SessionLeak` is the same without one.
* `AnswerWasJudged`: a ReAct answer is the proposal of its last round, and that round's own
  judgment verified every criterion; what was verified earlier does not count.
* `ReleasedAtEnd`: clients are closed and an entered runtime is exited on every path,
  failed opening and cancellation included.
* `CallsSettleFirst`: a mode that asks a model or a judge has waited for all calls of its batch; only a failing mode leaves
  calls behind (`CallsOutlive`).
* `VerdictShown`: a rejected model is shown in its next request, and without a context policy in every later one, what the judgment
  of its last proposal left: the verdict if that judgment was valid, otherwise the note that it was not, and never both. It is not
  the latest valid verdict that stays: an invalid judgment removes it, and with a policy a tool round does (`LatestVerdict`).
* `SerialSteps`, `RequestsBounded` (one request a round, one judgment with one repair a request) and `OneToolCall` (the tool agent
  runs one call and answers with its success) are proved, and hold in TLC with the constants of `PlanAgent` and `ExecutionModes`;
  `ExecutionIsRecorded` is in `DurableCrashes.cfg`. Of the type invariants one is in a run (`DurableFaults`, where it bounds the
  revisions), the others are proved.
* `DecodedAsWritten`: the parser with its stack, its registry and its decoders agrees with the reading by position.

### Fairness

`DurableRun!Fairness`: weak fairness of the nodes (the event loop runs the
task, and model and tool calls return or raise), of the saver, of
`interrupt` (bounded by a five-second timeout whose expiry is a crash here), and of
resuming, which stands for an operator who does not give up. `RunLease!FairSpec`: each
invocation and renewal task goes on, and time passes. `Conversation!FairSpec`: the
event loops go on with their calls, a refused caller tries again, and the
operator goes on resuming. `StepContext!SFairSpec`: the step's own `await`s return or
raise; of the background tasks nothing is assumed. `PlanAgent!AFairSpec`: the coordinator
and its Executor, each of which is one coroutine. `ExecutionModes!XFairSpec`: the program,
and tool calls (the clients have timeouts). No fairness is assumed
of faults and cancellations; in the durable models their number is bounded, so after the last one the
fair actions decide.

## 4. Findings

Runs that end in a counterexample, each against a sentence of the repository:

| Run | The code | The sentence |
|---|---|---|
| `CompletedStep` | a signal between a completed row and its checkpoint gets the step executed again | CONTEXT.md:92 |
| `OneActiveTurn` | a call on another service fails a turn that has just been appended and appends its own; the first then writes `running` | README.md:410, ADR 0013:3 |
| `LeaseRenewal` | a failed renewal ends only its task; two processes execute | README.md:169 |
| `MergedAway` | a positive Observation that arrives while its neighbours are being merged is cut out with them, and its raw result stays hidden | ADR 0019:3 |

Further divergences, found by the same models with the configurations kept here
(each ends in a counterexample, and checks one property but for `LatestVerdict`, which checks two; `tlc -config X.cfg M`):

| Configuration | The code | The sentence |
|---|---|---|
| `InterruptedRun` (`MCDurableRun`) | a signal between steps raises the checkpoint's version without a row; every resume is refused | README.md:146 |
| `SavedRun` (`MCDurableRun`) | a resume's interrupted row has a version no checkpoint carries; an error in the replan makes the run unresumable | README.md:142 |
| `CancelledResumes` (`MCDurableRun`) | cancelled resumes raise the version until it equals that of rows of different content | ADR 0004:5 |
| `UnmarkedRecovery` (`MCDurableRun`) | a step failed by decision keeps its interrupted row when its revision is replaced; when two cancelled resumes have raised the checkpoint of the new revision to the version of later rows, a second `fail` is spent on that old step, and the interrupted one of the new revision starts without the marker | ADR 0004:3: "the new attempt receives a recovery marker" |
| `AttemptThreads` (`MCDurableRun`) | a stale `recovery_attempt` gives two attempts one executor thread | ADR 0004:3 |
| `FailDecision` (`MCDurableRun`) | `--recovery fail` never reaches the rows; after another crash the step runs again | README.md:348 |
| `BlockedResult` (`MCDurableRun`) | an abort whose process dies early cannot be resumed to its result | README.md:348 |
| `LeaseCheck` (`RunLease`) | a resume that checked the status early works on a run that failed meanwhile | issue 07:14 |
| `InterruptedTurnStaysActive` (`MCConversation`) | an error or a signal makes a plan_execute turn failed while its run is open, so no `resume` finds it | .scratch/multi-turn-conversations/spec.md:53: an interrupted turn "remains active until recovered" |
| `CompletedTurnHasAnswer` (`MCConversation`) | a turn that is reconciled from a completed run is completed without an answer | ADR 0013:3 |
| `MergedRange` (`MCRuntimeContext`) | a merged Observation ends where its second part ends, which can be before its first part does; a later merge does the same | ADR 0010:3: a merge "preserves their round range" |
| `ReusedId` (`MCRuntimeContext`) | visibility goes by call ID without the round: a call whose ID an earlier, answered one had is hidden from the start | ADR 0019:5: a pending request "never suppresses evidence" |
| `SessionLeak` (`MCPlanAgent`) | an Executor whose tools fail to load opens another session for the next step and closes only that one | ADR 0002:5 |
| `HandoffRequest` (`MCPlanAgent`) | the accepted response is itself the step's handoff (`executor.py:216`, expected by tests/test_ticket05_terminal_candidate_step_output.py:55): no request follows the acceptance, and no invalid handoff can fail the step | .scratch/plan-execute-completion-judgment/spec.md:26: "The Executor makes a tool-free handoff request"; also README.md:85, 98–100 and 187, CONTEXT.md:12 and 172, ADR 0020:5 |
| `RuntimeLeak` (`ExecutionModes`) | a tool runtime whose tools fail to load is never exited | CONTEXT.md:180: it "owns one MCP session for a mode invocation" |
| `CallsOutlive` (`ExecutionModes`) | a call whose error result cannot be rendered raises out of the batch; its siblings run on after the mode has returned | ADR 0005:3: "waits for every call to settle" |
| `LatestVerdict` (`ExecutionModes`) | with a context policy, the judge's verdict is shown in the next request only (`LatestVerdictShown`); without one, the note of a later invalid judgment takes the place of the latest valid verdict (`LatestVerdictKept`, `execution.py:768` and 832). With `-continue` TLC reports both | .scratch/react-completion-criteria/spec.md:41: "Only the latest judge verdict remains in subsequent ReAct requests"; execution.py:833: "Keep only the latest validated verdict" |
| `ProseAnswer` (`ExecutionModes`) | prose that begins no block is proposed as the answer | the same, line 33: "arbitrary prose" is invalid |

Most of these have a counterpart that does hold, stated by a theorem of section 5 for every value of the constants:

| Refuted | Holds |
|---|---|
| `CompletedStep` | without signals: `CompletedStepNotRestarted` |
| `OneActiveTurn` | with plan_execute turns and no resume: the same property |
| `LeaseRenewal` | when no renewal is refused or late: `AtMostOneExecutor`; in general until the first missed one: `PunctualExclusion` |
| `MergedAway` | an Observation is lost only to the answer of a later call: `LostOnlyToOvertaking` |
| `InterruptedRun` | when a step was running: `InterruptedStepResumable` |
| `UnmarkedRecovery`, `AttemptThreads` | when no resume is cancelled as it reads: `RecoveredStepIsMarked`; and no step is failed by decision: `RecoveredAttempt` |
| `FailDecision` | for failures of the executor: `CheckpointedFailureIsFinal` |
| `BlockedResult` | for a run that ended by itself: `EndedResultReturned` |
| `InterruptedTurnStaysActive` | when processes only die: the same property |
| `MergedRange` | the beginning of the range: `RangeBegins` |
| `ReusedId` | until one call of that ID is answered: `RawFallbackById` |
| `SessionLeak` | with a checkpointer: `SessionsClosed` |
| `CallsOutlive` | as long as the mode goes on: `CallsSettleFirst` |
| `HandoffRequest` | a valid acceptance, and no tool batch after it: `CompletionsAreJudged` |
| `LatestVerdict` | of the newest judgment, valid or not, in the next request, and always without a policy: `VerdictShown` |

Read off the same actions: `conversation resume` on a turn that is still executing
marks it failed, because `DurableConversationRunner` turns `RunBusyError` into an
answer (`durable.py:86`); a late `update` overwrites a status that is
terminal already (`conversation.py:303`); a runner that cannot be
made leaves its run in `_active_ephemeral_runs`, and the process takes the turn
for live from then on (`conversation.py:275`); a ReAct run whose setup fails reports the
failure with a variable it has not assigned when it has a trace (`execution.py:905`,
`SetupFailure`); an accepted answer is lost when closing the runtime raises,
and a cancellation becomes a failed result (`Close`, `execution.py:912`); the client of the direct mode is never closed (`execution.py:1402`).

## 5. The proofs

For every value of the constants that satisfies the modules' assumptions:

* `PlanExecutionProofs!PlanExecutionSafe`: the abstract execution keeps order,
  leaves a revision only at a failure, ends justified. Invariant `PInv`.
* `DurableRunProofs!TypeCorrect`: `Spec => []TypeOK`. Types alone are not
  inductive: `graph.state` may be read as a plan only inside the graph. The invariant
  is `TypeOK /\ Control`, where `Control` says that inside the graph the
  newest of the queued checkpoints is the state in memory and that a place in the graph fits its status.
* `DurableRunProofs!TerminalIsJustified`: `Spec => []TerminalStatusJustified`,
  from `DInv == TypeOK /\ Control /\ Justified`. `Justified` says of memory, each queued
  checkpoint and the stored one that every completion is backed by a row and every final
  status by its reason; rows are never deleted (`InsertKeeps`), and
  overlay and marking complete nothing (`RestoreKeeps`, `MarkStaleKeeps`).
* `DurableRunProofs`, restarts: `StepsKeepOrder`, `CompletionsSurvive`, `CompletionsAreFinal`,
  `ExecutionRecorded`, `AttemptsNumbered`, `ContextTrustworthy`, for any number of faults of every kind and
  all decisions. A graph state can be in four places, the stored checkpoint, the saver's queue, the
  memory and the rows, and no property is inductive with the one or two it names. `HInv` adds to `DInv` that
  completions only grow from the checkpoint along the queue to the memory (`DoneOrder`) and
  that the newest row of a completed step says so (`DoneRows`), that the version in memory is at most
  one behind the rows (`Numbering`), that a step at work is the one whose last row opened
  an attempt (`Attempts`), and that a context holds steps that once had a completed row (`Contexts`).
  `StepEffect` first reduces each action to what it does with the four places, so each part is
  proved over a handful of effects instead of two dozen actions.
* `DurableRunProofs`, where the stores agree: `StoresAgree`, and from it `RecoveredMarked`,
  `CommonVersionTrusted` and `RunningRowsAreAccepted`. `AInv` says what a version means. If checkpoint and
  rows have the same one, they differ at the next step only, by an attempt the rows have begun
  (`Agree`); while a process works, its newest checkpoint may also be behind by the
  outcome of that attempt (`Behind`), and its memory is not behind at all (`Current`). The theorems suppose
  that no resume is cancelled as it reads ("abandon"), which raises the checkpoint's version without a
  row: see `CancelledResumes` and `UnmarkedRecovery`. The last two also suppose that no step is failed by decision,
  since that is in no row (`FailDecision`); the disjuncts `Refused`, `Ended` and `Misplaced` say how far it takes state and rows apart.
* `DurableRunProofs`, what the documentation promises, with the condition it needs: `CompletedIsNotRestarted` (no signal is handled),
  `InterruptedIsResumable` (no `abandon`), `FailureIsFinal` (no `fail` decision, faults of every kind), `EndedResultIsReturned` and
  `RecoveredAttemptIsNamed` (neither). Each adds to `HInv` or `AInv` the one thing it lacks. Once a step has
  completed, its newest row says so (`Lasting`; only `interrupt()` writes over it). Failures grow from checkpoint to memory to
  rows as completions do (`Failures`, by the same lemmas `OrderKept`, `RowsKept` and `NewestSaysStill`). A checkpoint that `interrupt()`
  has written is confirmed by the row of the same call (`Confirming`). A graph that
  has nothing left to do has the version of the rows (`Endings`). The attempt in a resumed graph is the one the next
  running row will open, until that row is written (`Recovered`).
* `DurableRunProofs!DurableImplements`: under both conditions `Spec => ImplementsPlanExecution`. Each checkpoint of the
  queue, and the memory after it, is one step of `PlanExecution` from the one before (`Chain`), so saving one is a
  step and losing the queue a stutter; what a resume rebuilds is a step from the checkpoint
  because of `Agree`. `DurableKeepsPlans` carries `PlanExecutionSafe` over.
* `RunLeaseProofs!LeaseTypes`, `LeaseExcludes`, `CompletedRunRests` and `CompletedStays`:
  until a renewal is missed, at most one process executes, and none once the
  registry says completed, which no later result changes. The invariant `Exclusive` says
  that whoever is between acquire and release owns the lease, has a live renewal task,
  and that the lease has lost a tick exactly when its renewal is due; this needs a lease of
  more than one tick, the module's assumption. To it is added that a completed record
  has a completed checkpoint, which every later holder reads. `LeaseKept` is the promise without
  its condition, `AtMostOneExecutor`, where no renewal is refused and the event loop is never late.
* `ConversationProofs!ConversationTypes`, `RecordedFirst` and `OutcomesAgree`, from
  `CInv`: run IDs are used once and by calls that have appended (`Runs`); each call is
  about the turn it appended (`Subjects`); an executed run is open and held by its
  executor (`Execution`), so that an ended run never changes and an answer read
  from it stays true until it is written (`Answers`). `CrashedTurnStaysActive`: where processes
  only die, an answer that ends a turn was read from an ended run (`Owed`).
* `RuntimeContextProofs!TypeCorrect`, for all constants; and, when call IDs differ
  (`~Reuses`) and a merge reply names only its source calls (`~Invents`),
  `RawFallbackHolds`, `NewestBatchHolds` and `ObservedOnceHolds`. The invariant `Known` adds that
  an observed call had a positive answer and that the pair being merged stays in
  the list, its first before its second, whatever arrives during the `await`.
* `RuntimeContextProofs!LossIsOvertaking`, from `LInv == CInv /\ Led /\ Lost`: an Observation is sorted by its least
  call (`Led`), and the chosen pair has nothing between it, so whatever is found between the two after the `await`
  was answered after the second of them, which is evidence of a later call (`Lost`).
* `RuntimeContextProofs!RangeIsOfItsCalls`, with the same order `Led`: the first of a pair begins at the least round of both, and
  each range ends at the round of a call it contains (`Ends`). `RawFallbackByIdHolds`
  needs no unique IDs: an ID is in an Observation only when one of its calls was answered, whichever (`Answered`).
* `RuntimeContextProofs!StepKeepsPolicy`: `SSpec => Spec`, a Plan step does with the policy only what the policy allows,
  since a batch runs in a paid round (`Paid`); all the theorems above hold in a step. With
  `Clean`, that no call of a batch with a failure gets an observation, follow `ErrorsAreShown` and `FailureIsNoEvidence`.
* `PlanAgentProofs!AgentImplements`: `ASpec => PSpec`, every step of coordinator
  and Executor being a step of `PlanExecution` or a stutter; and `OneStepAtATime`,
  `RoundsAreBudgeted`, `CompletionNeedsJudge`, and, with a checkpointer, `SessionIsClosed`: the Executor holds every session it
  opened but the one whose tools failed, after which the run only closes (`OneSession`). `EInv` says where the Executor is by how far
  requests are ahead of rounds (`Tally`), and that an outcome "completed" comes with a valid
  acceptance after the last batch (`Answered`); `Serial` says that the running step is the next one of the last revision and that
  what `run` is about to return is true of the state. `AgentInOrder` then takes order and
  justified outcomes from `PlanExecutionSafe`.
* `ConversationProofs!OneActive`: the promise that fails in general holds where
  turns are plan_execute turns and nobody calls `resume`. A reconciliation then writes
  only to a turn whose run has ended, and the call of such a turn is past the
  point where it writes `running` (`Exclusive`).
* `ModeProofs!AnswersAreJudged`, `ModesRelease` and `RequestsAreBounded`. A mode is one coroutine, so `XInv` says for each `await`
  what holds there: which mode can be in it (`Placed`), what has not happened (`Untouched`), how
  many requests and judgments the rounds have paid for (`Paid`), that the judge is asked about the
  proposal of this very round (`Proposed`), and that the clients are closed after the runtime (`Released`).
  A second invariant, `ZInv`, is about what a batch and a verdict leave behind, and gives `CallsSettle`, `OneCall` and `VerdictIsShown`: which
  calls may be running at each `await`, that the tool agent has one result at most (`Single`), and
  that what the judgment of the last proposal left, a verdict or the note that there is none, stays in the feedback
  until the request that shows it, and in a transcript until the next judgment (`Told`).

The assumptions are those of the modules: lists of fault kinds, decisions and modes, a
finite set of calls, names that do not clash, `LeaseTicks > 1`. The conditions of a theorem are in its statement.
Nothing is assumed of behaviours; the results on evidence assume of the provider what is said above (`~Reuses`, `~Invents`), and
`ReusedId` shows that they need the first. No proof bounds the number of faults, of calls or of rounds, the
plans or the callers.

`AgentStateLemmas` states once what `WithPlan`, `WithStepExecution` and `IsNextStep` return, among them that the
next step is unique, stays next while it is at work and moves on when it completes.

A proof that would not go through was evidence twice: that `RecoveredStepIsMarked` depends on the fault "abandon", although
runs with three faults had passed (`UnmarkedRecovery`), and that the agreement of the stores
needs more than the two versions once steps are failed by decision (`Ended`, `Misplaced`).

Model-checked only: every liveness property (`EventuallySettled`, `EventuallyTerminal`, `AbandonedTurnEnds`, `StepEnds`,
`RunEnds` and the like) and whatever rests on ENABLED, which the prover does not treat; `DecodedAsWritten`,
since the parser is a fold over a document and what it computes for every document is an induction over data.

## 6. Not modelled, and the plan

Not modelled, and why:

* The texts: prompts, rendering of contexts and results, token estimates, configuration
  files. No control decision reads them, except whether a context fits, which is a free
  choice, and whether a reply is well formed, which is `LineProtocol`.
* The character level of the line protocol (regular expressions, JSON), its entries for task
  analyses and Observations (their validity is in `ExecutionModes` and `RuntimeContext`), and the
  decoders `decode_no_tool`, `normalize_no_tool`, `decode_goal_completion`, `decode_completion_progress` and
  `decode_step_completion`, which the modes no longer call.
* The trace (`agent/trace.py`): output only.
* The LLM adapter and the streams: wrappers of an external service; its answers are the
  free choices of every model here.
* The command line: parsing, printing, exit codes. One thing is worth knowing of its chat loop:
  it invents a conversation's ID before the first call and creates the conversation in that call; when
  the call fails before the row exists, the loop goes on with an ID nobody knows
  (`cli.py:264`), and every later input is refused as an unknown conversation.
* The configuration fingerprint is an equality that guards a resume.
* `Agent.run` on a state that already has plans: only tests call it so.

Next, in this order:

1. The rows where the theorems on the stores stop: what is still true of a common version, and of the attempt of a recovered
   step, when a resume is cancelled as it reads, or a step failed by decision.
2. `RunLease` and `DurableRun` state separately what a resume finds; that the outcomes the first
   allows are those the second reaches is argued in section 2 and could be a refinement.
3. The chat loop over `Conversation`.
