----------------------------- MODULE Conversation ----------------------------
(***************************************************************************)
(* One Conversation of agent/conversation.py: its turns in MySQL, the      *)
(* calls of ConversationService.run and resume from several processes, and *)
(* the Agent runs behind its plan_execute turns.                           *)
(*                                                                         *)
(* Every access to the database is an await: between any two of them the   *)
(* other calls go on.  What a call read before is what it acts on after.   *)
(* Turns that ended before the first call are not represented: sequence    *)
(* numbers count from there.                                               *)
(***************************************************************************)
EXTENDS Naturals, Sequences, FiniteSets

CONSTANTS
  Caller,        \* calls of run; a call's name is also the run ID it invents
  Resumer,       \* operators who call resume, again and again
  Service,       \* ConversationService objects, each in a process of its own
  ServiceOf,     \* the service a call is made on
  Modes,         \* a subset of ephemeral (direct, tool_agent, react), plan_execute
  FaultKinds,    \* a subset of crash, cancel, raise
  MaxFaults      \* bound on the number of faults

ASSUME CallAssumption  == Caller \intersect Resumer = {} /\ IsFiniteSet(Caller)
ASSUME NameAssumption  == {"none", "crashed"} \intersect (Caller \union Resumer) = {}
ASSUME ServiceAssumption == ServiceOf \in [Caller -> Service]
ASSUME ModesAssumption == Modes \subseteq {"ephemeral", "plan_execute"}
ASSUME FaultKindsAssumption == FaultKinds \subseteq {"crash", "cancel", "raise"}
ASSUME MaxFaultsAssumption == MaxFaults \in Nat

VARIABLES
  turns,         \* conversation_turns, by sequence number
  live,          \* _active_ephemeral_runs of each service
  pc,            \* where each call is
  sequence,      \* the turn a call is about
  answer,        \* what it is about to write into that turn
  runs,          \* status of each turn's Agent run in agent_runs
  holder,        \* who executes that run: a call, "none", or "crashed"
  faults,
  earlier        \* whether the conversation has turns from before, all ended

vars == <<turns, live, pc, sequence, answer, runs, holder, faults, earlier>>

Active == {"pending", "running"}
Ended  == {"completed", "blocked"}

(***************************************************************************)
(* The answer and error columns, as far as they tell results apart.        *)
(***************************************************************************)
Text   == {"none", "answer", "error", "interrupted", "unrecovered"}
Result == [status : Active \union Ended \union {"failed"}, text : Text]
Turn   == [run : Caller, mode : Modes, result : Result]

Res(status, text) == [status |-> status, text |-> text]

NoAnswer == Res("failed", "none")

Location == {"new", "asking", "reconciling", "reconciled", "ready", "pending",
             "working", "executing", "answered", "cancelled", "resuming",
             "done", "dead"}

IsActive(n) == n \in DOMAIN turns /\ turns[n].result.status \in Active
Busy        == \E n \in DOMAIN turns : IsActive(n)

\* next(turn for turn in turns if turn.status in {"pending", "running"})
IsFirstActive(n) == IsActive(n) /\ \A m \in 1 .. n - 1 : ~IsActive(m)

Init ==
  /\ turns = <<>>
  /\ live = [s \in Service |-> {}]
  /\ pc = [c \in Caller \union Resumer |-> "new"]
  /\ sequence = [c \in Caller \union Resumer |-> 0]
  /\ answer = [c \in Caller \union Resumer |-> NoAnswer]
  /\ runs = [c \in Caller |-> "absent"]
  /\ holder = [c \in Caller |-> "none"]
  /\ faults = 0
  /\ earlier \in BOOLEAN

Go(c, place) == pc' = [pc EXCEPT ![c] = place]

\* A call ends, or is refused and may be made again.
Leave(c, place) ==
  /\ Go(c, place)
  /\ sequence' = [sequence EXCEPT ![c] = 0]
  /\ answer' = [answer EXCEPT ![c] = NoAnswer]

\* store.update: the row is addressed by its sequence number, whatever its
\* status.  MySQL affects no row when nothing changes, which update() refuses.
Refused(c) == turns[sequence[c]].result = answer[c]

Write(c) == turns' = [turns EXCEPT ![sequence[c]].result = answer[c]]

-----------------------------------------------------------------------------
(***************************************************************************)
(* run(): reconcile the active turn, read the history, append.  A call     *)
(* that is refused has changed nothing of its own and may be made again.   *)
(***************************************************************************)
\* Without conv_id the turn is the first of a new conversation.
Create(c) ==
  /\ ~earlier /\ turns = <<>>
  /\ \A d \in Caller : pc[d] = "new"
  /\ sequence' = [sequence EXCEPT ![c] = 1]
  /\ Go(c, "ready")
  /\ UNCHANGED <<turns, live, answer, runs, holder, faults, earlier>>

GetIdle(c) ==
  /\ pc[c] = "new"
  /\ earlier \/ turns # <<>>
  /\ ~Busy
  /\ Go(c, "reconciled")
  /\ UNCHANGED <<turns, live, sequence, answer, runs, holder, faults, earlier>>

\* Mutant of GetEphemeral: an active ephemeral turn is left to its own call.
GetEphemeralKept(c) ==
  /\ pc[c] = "new"
  /\ \E n \in DOMAIN turns : IsFirstActive(n) /\ turns[n].mode = "ephemeral"
  /\ Go(c, "reconciled")
  /\ UNCHANGED <<turns, live, sequence, answer, runs, holder, faults, earlier>>

\* _reconcile_active: an ephemeral turn this service does not execute is taken
\* for interrupted.
GetEphemeral(c) ==
  /\ pc[c] = "new"
  /\ \E n \in DOMAIN turns :
       /\ IsFirstActive(n)
       /\ turns[n].mode = "ephemeral"
       /\ IF turns[n].run \in live[ServiceOf[c]]
          THEN Go(c, "reconciled") /\ UNCHANGED <<sequence, answer>>
          ELSE /\ sequence' = [sequence EXCEPT ![c] = n]
               /\ answer' = [answer EXCEPT ![c] = Res("failed", "unrecovered")]
               /\ Go(c, "reconciling")
  /\ UNCHANGED <<turns, live, runs, holder, faults, earlier>>

GetPlan(c) ==
  /\ pc[c] = "new"
  /\ \E n \in DOMAIN turns : /\ IsFirstActive(n)
                             /\ turns[n].mode = "plan_execute"
                             /\ sequence' = [sequence EXCEPT ![c] = n]
  /\ Go(c, "asking")
  /\ UNCHANGED <<turns, live, answer, runs, holder, faults, earlier>>

\* Mutant of AskRun: a run that was never created is reported as completed.
AskRunTrusting(c) ==
  /\ pc[c] = "asking"
  /\ answer' = [answer EXCEPT ![c] = Res("completed", "none")]
  /\ Go(c, "reconciling")
  /\ UNCHANGED <<turns, live, sequence, runs, holder, faults, earlier>>

\* _mysql_run_result: a run that does not exist yet is a KeyError, an open one
\* leaves the turn active, and an ended one has a status but no answer.
AskRun(c) ==
  /\ pc[c] = "asking"
  /\ LET status == runs[turns[sequence[c]].run]
     IN  \/ status = "absent" /\ Leave(c, "new")
         \/ status = "open" /\ Leave(c, "reconciled")
         \/ /\ status \in Ended
            /\ answer' = [answer EXCEPT ![c] = Res(status, "none")]
            /\ Go(c, "reconciling")
            /\ UNCHANGED sequence
  /\ UNCHANGED <<turns, live, runs, holder, faults, earlier>>

Reconcile(c) ==
  /\ pc[c] = "reconciling"
  /\ \/ Refused(c) /\ Leave(c, "new") /\ UNCHANGED turns
     \/ ~Refused(c) /\ Write(c) /\ Leave(c, "reconciled")
  /\ UNCHANGED <<live, runs, holder, faults, earlier>>

\* The second get: the history and the next sequence number, or busy.
ReadHistory(c) ==
  /\ pc[c] = "reconciled"
  /\ IF Busy THEN Go(c, "new") /\ UNCHANGED sequence
     ELSE /\ sequence' = [sequence EXCEPT ![c] = Len(turns) + 1]
          /\ Go(c, "ready")
  /\ UNCHANGED <<turns, live, answer, runs, holder, faults, earlier>>

\* Mutant of Append: the sequence number is not compared.
AppendUnchecked(c) ==
  /\ pc[c] = "ready"
  /\ IF Busy THEN Leave(c, "new") /\ UNCHANGED turns
     ELSE /\ \E mode \in Modes :
               turns' = Append(turns, [run |-> c, mode |-> mode,
                                       result |-> Res("pending", "none")])
          /\ Go(c, "pending")
          /\ UNCHANGED <<sequence, answer>>
  /\ UNCHANGED <<live, runs, holder, faults, earlier>>

\* store.append, one transaction, after the mode was selected.
AppendTurn(c) ==
  /\ pc[c] = "ready"
  /\ IF Busy \/ sequence[c] # Len(turns) + 1
     THEN Leave(c, "new") /\ UNCHANGED turns
     ELSE /\ \E mode \in Modes :
               turns' = Append(turns, [run |-> c, mode |-> mode,
                                       result |-> Res("pending", "none")])
          /\ Go(c, "pending")
          /\ UNCHANGED <<sequence, answer>>
  /\ UNCHANGED <<live, runs, holder, faults, earlier>>

ModeOf(c) == turns[sequence[c]].mode

\* The second update of the row, and the note that this service executes it.
BeginTurn(c) ==
  /\ pc[c] = "pending"
  /\ turns' = [turns EXCEPT ![sequence[c]].result = Res("running", "none")]
  /\ live' = [live EXCEPT ![ServiceOf[c]] =
                IF ModeOf(c) = "ephemeral" THEN @ \union {c} ELSE @]
  /\ Go(c, "working")
  /\ UNCHANGED <<sequence, answer, runs, holder, faults, earlier>>

-----------------------------------------------------------------------------
(***************************************************************************)
(* The execution of a turn.                                                *)
(***************************************************************************)
Forget(c) == live' = [live EXCEPT ![ServiceOf[c]] = @ \ {c}]

AnswerEphemeral(c) ==
  /\ pc[c] = "working"
  /\ ModeOf(c) = "ephemeral"
  /\ \E result \in {Res("completed", "answer"), Res("failed", "error")} :
       answer' = [answer EXCEPT ![c] = result]
  /\ Forget(c)
  /\ Go(c, "answered")
  /\ UNCHANGED <<turns, sequence, runs, holder, faults, earlier>>

\* _run of durable.py creates the registry row and takes the lease, in two
\* transactions; what happens between them is the subject of RunLease.
StartRun(c) ==
  /\ pc[c] = "working"
  /\ ModeOf(c) = "plan_execute"
  /\ runs' = [runs EXCEPT ![c] = "open"]
  /\ holder' = [holder EXCEPT ![c] = c]
  /\ Go(c, "executing")
  /\ UNCHANGED <<turns, live, sequence, answer, faults, earlier>>

\* The Agent run a call executes.
RunOf(c) == turns[sequence[c]].run

\* A completed run answers with its last completed step, which has a result: the
\* Executor accepts no empty response and the planner no empty plan.  (The code
\* calls a completed run without one failed.)
DurableAnswer(status) ==
  IF status = "completed" THEN Res("completed", "answer") ELSE Res("blocked", "error")

FinishRun(c) ==
  /\ pc[c] = "executing"
  /\ \E status \in Ended :
       /\ runs' = [runs EXCEPT ![RunOf(c)] = status]
       /\ answer' = [answer EXCEPT ![c] = DurableAnswer(status)]
  /\ holder' = [holder EXCEPT ![RunOf(c)] = "none"]
  /\ Go(c, "answered")
  /\ UNCHANGED <<turns, live, sequence, faults, earlier>>

\* The last update of run and of resume, and the one after a cancellation.
Record(c) ==
  /\ pc[c] \in {"answered", "cancelled"}
  /\ IF Refused(c) THEN UNCHANGED turns ELSE Write(c)
  /\ IF c \in Caller THEN Leave(c, "done") /\ Forget(c)
                     ELSE Leave(c, "new") /\ UNCHANGED live
  /\ UNCHANGED <<runs, holder, faults, earlier>>

-----------------------------------------------------------------------------
(***************************************************************************)
(* resume(), and agent resume without the conversation.                    *)
(***************************************************************************)
GetActive(c) ==
  /\ pc[c] = "new"
  /\ \E n \in DOMAIN turns : /\ IsFirstActive(n)
                             /\ turns[n].mode = "plan_execute"
                             /\ sequence' = [sequence EXCEPT ![c] = n]
  /\ Go(c, "resuming")
  /\ UNCHANGED <<turns, live, answer, runs, holder, faults, earlier>>

\* An ended run answers with its stored result.
ResumeEnded(c) ==
  /\ pc[c] = "resuming"
  /\ runs[RunOf(c)] \in Ended
  /\ answer' = [answer EXCEPT ![c] = DurableAnswer(runs[RunOf(c)])]
  /\ Go(c, "answered")
  /\ UNCHANGED <<turns, live, sequence, runs, holder, faults, earlier>>

\* A run that was never created, or whose lease is not free (also that of a
\* crashed process until it expires), is a failed answer.
ResumeFailed(c) ==
  /\ pc[c] = "resuming"
  /\ \/ runs[RunOf(c)] = "absent"
     \/ runs[RunOf(c)] = "open" /\ holder[RunOf(c)] # "none"
  /\ answer' = [answer EXCEPT ![c] = Res("failed", "error")]
  /\ Go(c, "answered")
  /\ UNCHANGED <<turns, live, sequence, runs, holder, faults, earlier>>

Free(r) == runs[r] = "open" /\ holder[r] \in {"none", "crashed"}

ResumeRun(c) ==
  /\ pc[c] = "resuming"
  /\ Free(RunOf(c))
  /\ holder' = [holder EXCEPT ![RunOf(c)] = c]
  /\ Go(c, "executing")
  /\ UNCHANGED <<turns, live, sequence, answer, runs, faults, earlier>>

\* agent resume --run-id brings the run to an end and knows of no turn.
AgentResume(r) ==
  /\ Free(r)
  /\ \E status \in Ended : runs' = [runs EXCEPT ![r] = status]
  /\ holder' = [holder EXCEPT ![r] = "none"]
  /\ UNCHANGED <<turns, live, pc, sequence, answer, faults, earlier>>

-----------------------------------------------------------------------------
(***************************************************************************)
(* Faults.                                                                 *)
(***************************************************************************)
Fault(kind) ==
  /\ kind \in FaultKinds
  /\ faults < MaxFaults
  /\ faults' = faults + 1

Released(c) == [r \in Caller |-> IF holder[r] = c THEN "none" ELSE holder[r]]

\* The planner, an executor or the database raises inside the Agent run: the
\* answer is failed, the run stays open.
RaiseRun(c) ==
  /\ Fault("raise")
  /\ \/ pc[c] = "executing"
     \/ pc[c] = "working" /\ ModeOf(c) = "plan_execute"
  /\ answer' = [answer EXCEPT ![c] = Res("failed", "error")]
  /\ holder' = Released(c)
  /\ Go(c, "answered")
  /\ UNCHANGED <<turns, live, sequence, runs, earlier>>

\* The runner cannot be made, an update of the row fails, or a signal arrives at
\* an update: the call ends and leaves its turn, and its note, as they are.
RaiseOutside(c) ==
  /\ Fault("raise")
  /\ pc[c] \in {"pending", "working", "answered", "cancelled"}
  /\ Leave(c, "done")
  /\ UNCHANGED <<turns, live, runs, holder, earlier>>

\* A signal while run() waits for its runner.
Cancel(c) ==
  /\ Fault("cancel")
  /\ pc[c] \in {"working", "executing"}
  /\ answer' = [answer EXCEPT ![c] = Res("failed", "interrupted")]
  /\ holder' = Released(c)
  /\ Go(c, "cancelled")
  /\ UNCHANGED <<turns, live, sequence, runs, earlier>>

CancelResume(c) ==
  /\ Fault("cancel")
  /\ pc[c] = "executing"
  /\ holder' = Released(c)
  /\ Leave(c, "new")
  /\ UNCHANGED <<turns, live, runs, earlier>>

Abandoned(who) ==
  holder' = [r \in Caller |-> IF holder[r] \in who THEN "crashed" ELSE holder[r]]

Crash(s) ==
  /\ Fault("crash")
  /\ \E c \in Caller : ServiceOf[c] = s /\ pc[c] \notin {"new", "done", "dead"}
  /\ LET lost == {c \in Caller : ServiceOf[c] = s /\ pc[c] # "done"}
     IN  /\ pc' = [c \in Caller \union Resumer |-> IF c \in lost THEN "dead" ELSE pc[c]]
         /\ sequence' = [c \in Caller \union Resumer |-> IF c \in lost THEN 0 ELSE sequence[c]]
         /\ answer' = [c \in Caller \union Resumer |->
                         IF c \in lost THEN NoAnswer ELSE answer[c]]
         /\ Abandoned(lost)
  /\ live' = [live EXCEPT ![s] = {}]
  /\ UNCHANGED <<turns, runs, earlier>>

CrashResume(c) ==
  /\ Fault("crash")
  /\ pc[c] # "new"
  /\ Abandoned({c})
  /\ Leave(c, "new")
  /\ UNCHANGED <<turns, live, runs, earlier>>

-----------------------------------------------------------------------------
CallStep(c) ==
  \/ Create(c) \/ GetIdle(c) \/ GetEphemeral(c) \/ GetPlan(c) \/ AskRun(c)
  \/ Reconcile(c) \/ ReadHistory(c) \/ AppendTurn(c) \/ BeginTurn(c)
  \/ AnswerEphemeral(c) \/ StartRun(c) \/ FinishRun(c) \/ Record(c)

ResumeStep(c) ==
  \/ GetActive(c) \/ ResumeEnded(c) \/ ResumeFailed(c) \/ ResumeRun(c)
  \/ FinishRun(c) \/ Record(c)

Next ==
  \/ \E c \in Caller : CallStep(c) \/ AgentResume(c)
  \/ \E c \in Resumer : ResumeStep(c)
  \/ \E c \in Caller : RaiseRun(c) \/ RaiseOutside(c) \/ Cancel(c)
  \/ \E c \in Resumer : RaiseRun(c) \/ CancelResume(c) \/ CrashResume(c)
  \/ \E s \in Service : Crash(s)

Spec == Init /\ [][Next]_vars

(***************************************************************************)
(* The event loops run their calls, a refused call is made again, and the  *)
(* operators go on resuming.                                               *)
(***************************************************************************)
FairSpec ==
  /\ Spec
  /\ \A c \in Caller : WF_vars(CallStep(c))
  /\ \A c \in Resumer : WF_vars(ResumeStep(c))

-----------------------------------------------------------------------------
TypeOK ==
  /\ turns \in Seq(Turn)
  /\ Len(turns) <= Cardinality(Caller)
  /\ live \in [Service -> SUBSET Caller]
  /\ pc \in [Caller \union Resumer -> Location]
  /\ sequence \in [Caller \union Resumer -> 0 .. Cardinality(Caller) + 1]
  /\ answer \in [Caller \union Resumer -> Result]
  /\ runs \in [Caller -> {"absent", "open"} \union Ended]
  /\ holder \in [Caller -> Caller \union Resumer \union {"none", "crashed"}]
  /\ faults \in 0 .. MaxFaults
  /\ earlier \in BOOLEAN

\* A call that works on a turn, and an Agent run that exists, have their turn
\* recorded, under the sequence number the call read before it selected a mode
\* and appended (ADR-0013: created before the run starts, every turn receives
\* the complete preceding history).
TurnRecordedFirst ==
  \A c \in Caller :
    /\ pc[c] \in {"pending", "working", "executing", "answered", "cancelled"}
         => sequence[c] \in DOMAIN turns /\ turns[sequence[c]].run = c
    /\ runs[c] # "absent" => \E n \in DOMAIN turns : turns[n].run = c

\* A plan_execute turn says completed or blocked only when its Agent run does,
\* whoever wrote it: the call itself, a resume, or the reconciliation of a later
\* call that acts on a status it read earlier.
OutcomeFollowsRun ==
  \A n \in DOMAIN turns :
    turns[n].mode = "plan_execute" /\ turns[n].result.status \in Ended
      => runs[turns[n].run] = turns[n].result.status

(***************************************************************************)
(* Liveness: a turn whose call ended without recording a result does not   *)
(* block the conversation, as long as somebody still calls run on another  *)
(* service or resume.                                                      *)
(***************************************************************************)
Gone(c) == pc[c] \in {"done", "dead"}

TurnAbandoned(n) == IsActive(n) /\ Gone(turns[n].run)

NobodyLeft(n) ==
  /\ n \in DOMAIN turns
  /\ \A c \in Caller : Gone(c) \/ turns[n].run \in live[ServiceOf[c]]

AbandonedTurnEnds ==
  \A n \in 1 .. Cardinality(Caller) : TurnAbandoned(n) ~> ~IsActive(n) \/ NobodyLeft(n)

-----------------------------------------------------------------------------
(***************************************************************************)
(* What the documentation promises and the code does not keep.             *)
(***************************************************************************)
\* At most one turn of a conversation is pending or running.
OneActiveTurn == \A m, n \in DOMAIN turns : IsActive(m) /\ IsActive(n) => m = n

\* An interrupted plan_execute turn whose run is open stays active until it is
\* resumed.
InterruptedTurnStaysActive ==
  \A n \in DOMAIN turns :
    turns[n].mode = "plan_execute" /\ runs[turns[n].run] = "open" => IsActive(n)

\* A completed turn keeps its answer for the turns that follow.
CompletedTurnHasAnswer ==
  \A n \in DOMAIN turns :
    turns[n].result.status = "completed" => turns[n].result.text = "answer"
=============================================================================
