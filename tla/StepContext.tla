------------------------------ MODULE StepContext ----------------------------
(***************************************************************************)
(* One Plan step together with the context policy it is given: the rounds  *)
(* of StepExecutor record their batches in RuntimeContext and maintain it  *)
(* before every request, while the observations of earlier batches are     *)
(* answered in the background, after the end of the step too.              *)
(*                                                                         *)
(* The calls of a batch are numbered; call i is the i-th of the batch.     *)
(***************************************************************************)
EXTENDS RuntimeContext, StepExecutor

ASSUME PlacesAssumption == ToolCall = 1 .. MaxBatch
ASSUME StepRoundsAssumption == LastRound >= MaxRounds /\ MaxCalls >= MaxBatch * MaxRounds

svars == <<vars, evars>>

SInit == Init /\ suppresses /\ EInit

\* The policy is at rest: maintain() is not under way.
Alone(action) == action /\ UNCHANGED vars
Idle == phase = "acting"

\* Everything around the policy.  A response orders its calls.
Control ==
  /\ Idle
  /\ \/ Enter
     \/ Begin /\ outcome = "none"
     \/ Opening \/ Judging \/ ToolCalls
     \/ \E size \in 1 .. MaxBatch : CallTools(1 .. size)
     \/ CallToolsExhausted \/ RespondEmpty \/ Propose \/ ProviderFails

\* What the model called, and whether it failed.
Settled(batch) ==
  /\ DOMAIN batch = DOMAIN results
  /\ \A i \in DOMAIN batch : batch[i].failed <=> results[i] = "error"

\* _record_executor_round: the batch enters the policy under the round's number.
RecordBatch ==
  /\ SettleBatch
  /\ \E size \in 1 .. MaxBatch : \E batch \in [1 .. size -> Drafts], ids \in [1 .. size -> Id] :
       Settled(batch) /\ RecordToolRound(batch, rounds, ids)

AwaitContext ==
  /\ at \in {"context", "candidate", "judge_context"}
  /\ StartMaintain
  /\ UNCHANGED evars

Merging ==
  /\ RequestMerge \/ \E reply \in Reply : MergeObservations(reply)
  /\ UNCHANGED evars

UseContext == Fits /\ Maintained

GiveUpContext == (CannotFit \/ MergeFails) /\ MaintainFails

\* The answer of a background task.
Background ==
  /\ \E n \in DOMAIN calls : AnswerTo(n)
  /\ UNCHANGED evars

StepOver == at = "ended" /\ End /\ Return

Foreground ==
  \/ Alone(Control) \/ RecordBatch \/ AwaitContext \/ Merging \/ UseContext
  \/ GiveUpContext \/ StepOver

SNext == Foreground \/ Background

SSpec == SInit /\ [][SNext]_svars

\* Every request of the step is answered or raises; no answer of a background
\* task is waited for or promised.
SFairSpec == SSpec /\ WF_svars(Foreground)

-----------------------------------------------------------------------------
Newest(n) == calls[n].round = calls[Len(calls)].round

\* The errors of a batch reach the model: each request shows every failed call
\* of the newest batch raw, also after a candidate was rejected in between.
ErrorsReachModel ==
  at = "requesting" => \A n \in DOMAIN calls : Newest(n) /\ calls[n].failed => Visible(n)

\* A failed call establishes nothing: no Observation, which the judge counts as
\* evidence, comes from one, nor from a batch with one.
NoEvidenceOfFailure ==
  \A n \in DOMAIN calls :
    calls[n].id \in ObservedIds =>
      \A m \in DOMAIN calls : calls[m].round = calls[n].round => ~calls[m].failed

\* The step ends though background answers keep arriving in its merges.
StepEnds == at \notin {"closed", "idle"} ~> at = "idle" \/ phase = "failed"
=============================================================================
