---------------------------- MODULE RuntimeContext ---------------------------
(***************************************************************************)
(* What a model is shown of the tool work done so far: the context policy  *)
(* of one step or react run (agent/runtime_context.py).  Settled calls are *)
(* kept raw; each successful call of the observation class is judged by a  *)
(* background model request, and a positive Observation replaces the raw   *)
(* result; maintain() merges the two oldest Observations, one model        *)
(* request each, until the context fits its budget.                        *)
(*                                                                         *)
(* Calls are numbered in the order of _call_order.  _raw and               *)
(* _observation_outcomes are one sequence here, a call holding the outcome *)
(* of its observation.  The self._observations list is always sorted by    *)
(* _observation_order, so it is a set here.  What a context costs depends  *)
(* on texts, so whether it exceeds the budget is a free choice.            *)
(***************************************************************************)
EXTENDS Naturals, Sequences, FiniteSets

CONSTANTS
  MaxCalls,      \* bound on the calls of the run
  MaxBatch,      \* bound on the calls of one model response
  LastRound,     \* bound on the rounds
  RecentWindow,  \* RAW_ROUND_WINDOW, 3 in the code
  Drafts,        \* the calls a model makes: lifecycle, and whether it fails
  Reuses,        \* whether calls of different rounds may have one ID
  Invents        \* whether a merge reply may name further call IDs

ASSUME BoundAssumption == MaxCalls \in Nat /\ MaxBatch \in Nat /\ LastRound \in Nat
ASSUME WindowAssumption == RecentWindow \in Nat \ {0}

\* The lifecycles of _native_evidence_lifecycle.
Lifecycle == {"current_raw", "recent_raw", "permanent_raw", "observation"}
ASSUME DraftAssumption == Drafts \subseteq [kind : Lifecycle, failed : BOOLEAN]
ASSUME ProviderAssumption == Reuses \in BOOLEAN /\ Invents \in BOOLEAN

VARIABLES
  calls,         \* the settled calls with their outcomes
  observations,  \* the positive Observations, each for one call or merged
  merging,       \* the pair maintain() chose before awaiting the merge reply
  phase,         \* what the owner of the policy is doing
  suppresses,    \* the owner is an Executor step, not a react run
  affirmed       \* history: the calls in the order of their positive answers

vars == <<calls, observations, merging, phase, suppresses, affirmed>>

Id    == 1 .. MaxCalls
Round == 1 .. LastRound
Outcome == {"none", "pending", "succeeded", "provider_error", "invalid", "cancelled"}
Call == [round : Round, id : Id, kind : Lifecycle, failed : BOOLEAN, outcome : Outcome]
Observation == [ids : SUBSET Id, start : Round, end : Round]

NoMerge == <<>>

Init ==
  /\ calls = <<>>
  /\ observations = {}
  /\ merging = NoMerge
  /\ phase = "acting"
  /\ suppresses \in BOOLEAN
  /\ affirmed = <<>>

Recorded == {calls[n].round : n \in DOMAIN calls}

\* Mutant of AmongLast: the window is one round short.
AmongLastShort(k, r) == Cardinality({s \in Recorded : s > r}) + 1 < k

\* Round r is one of the last k recorded ones.
AmongLast(k, r) == Cardinality({s \in Recorded : s > r}) < k

(***************************************************************************)
(* assemble and _is_visible_call.  A window of 1 (the constant             *)
(* NATIVE_LISTING_ROUND_WINDOW) holds the current round.                   *)
(***************************************************************************)
ObservedIds == UNION {o.ids : o \in observations}

\* Mutant of NegativeIds: any settled observation attempt counts as an answer.
NegativeIdsUnchecked ==
  {calls[n].id : n \in {m \in DOMAIN calls :
                        calls[m].outcome \notin {"none", "pending"}}} \ ObservedIds

NegativeIds ==
  {calls[n].id : n \in {m \in DOMAIN calls : calls[m].outcome = "succeeded"}} \ ObservedIds

Visible(n) ==
  LET c == calls[n] IN
  \/ c.kind = "current_raw" /\ AmongLast(1, c.round)
  \/ c.kind = "recent_raw" /\ AmongLast(RecentWindow, c.round)
  \/ c.kind = "permanent_raw"
  \/ /\ c.kind = "observation"
     /\ c.id \notin ObservedIds
     /\ c.id \notin NegativeIds \/ AmongLast(RecentWindow, c.round)

(***************************************************************************)
(* record_tool_round.  Every call of the batch has settled.  An Executor   *)
(* asks for no observation of a batch with a failed call, a react run does.*)
(* Between the tasks it starts the handler yields, but nothing reads the   *)
(* context before it returns, so it is one action.                         *)
(***************************************************************************)
\* Mutants of Observable: failed calls are observed too; a failure elsewhere in
\* the batch makes no difference.
ObservableFailed(draft, suppress) == draft.kind = "observation"

ObservableAlone(draft, suppress) == draft.kind = "observation" /\ ~draft.failed

Observable(draft, suppress) ==
  ~suppress /\ draft.kind = "observation" /\ ~draft.failed

RecordToolRound(batch, round, ids) ==
  LET suppress == suppresses /\ \E i \in DOMAIN batch : batch[i].failed IN
  /\ phase = "acting"
  /\ \A r \in Recorded : r < round
  /\ Len(calls) + Len(batch) <= MaxCalls
  /\ \A i, j \in DOMAIN batch : ids[i] = ids[j] => i = j
  /\ Reuses \/ \A i \in DOMAIN batch : ids[i] = Len(calls) + i
  /\ calls' = calls \o
       [i \in DOMAIN batch |->
          [round |-> round, id |-> ids[i],
           kind |-> batch[i].kind, failed |-> batch[i].failed,
           outcome |-> IF Observable(batch[i], suppress) THEN "pending" ELSE "none"]]
  /\ UNCHANGED <<observations, merging, phase, suppresses, affirmed>>

(***************************************************************************)
(* A reply of the policy's model, as far as _parse_observation looks at    *)
(* it: whether it has the expected round, the IDs its evidence names, and  *)
(* whether it has impact and names targets.                                *)
(***************************************************************************)
Reply == [sameRound : BOOLEAN, ids : SUBSET Id, impact : BOOLEAN, targets : BOOLEAN]

WellFormed(reply) == reply.sameRound /\ reply.impact = reply.targets

Attributed(reply, id) ==
  /\ reply.ids \subseteq {id}
  /\ reply.impact => reply.ids = {id}

Settle(n, outcome) == calls' = [calls EXCEPT ![n].outcome = outcome]

\* The event loop runs a background task only while the owner awaits something.
Answerable(n) == calls[n].outcome = "pending" /\ phase # "checking"

\* _observe with a valid reply; only a positive one becomes an Observation.
Observe(n, reply) ==
  /\ Answerable(n)
  /\ WellFormed(reply) /\ Attributed(reply, calls[n].id)
  /\ observations' =
       IF reply.impact
       THEN observations \union
              {[ids |-> reply.ids, start |-> calls[n].round, end |-> calls[n].round]}
       ELSE observations
  /\ affirmed' = IF reply.impact THEN Append(affirmed, n) ELSE affirmed
  /\ Settle(n, "succeeded")
  /\ UNCHANGED <<merging, phase, suppresses>>

ObserveInvalid(n, reply) ==
  /\ Answerable(n)
  /\ ~(WellFormed(reply) /\ Attributed(reply, calls[n].id))
  /\ Settle(n, "invalid")
  /\ UNCHANGED <<observations, merging, phase, suppresses, affirmed>>

ObserveProviderError(n) ==
  /\ Answerable(n)
  /\ Settle(n, "provider_error")
  /\ UNCHANGED <<observations, merging, phase, suppresses, affirmed>>

\* The event loop is closed under tasks that are still running.
ObserveCancelled(n) ==
  /\ phase \in {"ended", "failed"}
  /\ Answerable(n)
  /\ Settle(n, "cancelled")
  /\ UNCHANGED <<observations, merging, phase, suppresses, affirmed>>

(***************************************************************************)
(* maintain.  _observation_order sorts by the first of the calls that an   *)
(* Observation has in its first round.                                     *)
(***************************************************************************)
FirstRoundCalls(o) ==
  {n \in DOMAIN calls : calls[n].round = o.start /\ calls[n].id \in o.ids}

FirstCall(o) == CHOOSE n \in FirstRoundCalls(o) : \A m \in FirstRoundCalls(o) : n <= m

Oldest(o, set) == o \in set /\ \A p \in set : FirstCall(o) <= FirstCall(p)

StartMaintain ==
  /\ phase = "acting"
  /\ phase' = "checking"
  /\ UNCHANGED <<calls, observations, merging, suppresses, affirmed>>

\* The context fits; the caller goes on with it.
Fits ==
  /\ phase = "checking"
  /\ phase' = "acting"
  /\ UNCHANGED <<calls, observations, merging, suppresses, affirmed>>

\* Over budget with fewer than two Observations: ContextMaintenanceError.
CannotFit ==
  /\ phase = "checking"
  /\ Cardinality(observations) < 2
  /\ phase' = "failed"
  /\ UNCHANGED <<calls, observations, merging, suppresses, affirmed>>

RequestMerge ==
  /\ phase = "checking"
  /\ Cardinality(observations) >= 2
  /\ \E first, second \in observations :
       /\ Oldest(first, observations)
       /\ Oldest(second, observations \ {first})
       /\ merging' = <<first, second>>
  /\ phase' = "merging"
  /\ UNCHANGED <<calls, observations, suppresses, affirmed>>

\* _merge_observations accepts a reply that names every source call; its own
\* range and impact are not used.
Mergeable(reply) ==
  /\ WellFormed(reply)
  /\ merging[1].ids \union merging[2].ids \subseteq reply.ids

\* Mutant of Merged: the two ends are exchanged.
MergedSwapped(reply) ==
  [ids |-> reply.ids, start |-> merging[2].start, end |-> merging[1].end]

Merged(reply) ==
  [ids |-> reply.ids, start |-> merging[1].start, end |-> merging[2].end]

\* Mutants of Slice: the second one is left in the list; the list is cut after
\* the first one; the first one is left in.
SliceShort ==
  {o \in observations :
     FirstCall(merging[1]) <= FirstCall(o) /\ FirstCall(o) < FirstCall(merging[2])}

SliceRest == {o \in observations : FirstCall(merging[1]) <= FirstCall(o)}

SliceLate == {merging[2]}

\* observations[first_index : second_index + 1], as it is after the await.
Slice ==
  {o \in observations :
     FirstCall(merging[1]) <= FirstCall(o) /\ FirstCall(o) <= FirstCall(merging[2])}

MergeObservations(reply) ==
  /\ phase = "merging"
  /\ Mergeable(reply)
  /\ Invents \/ reply.ids = merging[1].ids \union merging[2].ids
  /\ observations' = (observations \ Slice) \union {Merged(reply)}
  /\ merging' = NoMerge
  /\ phase' = "checking"
  /\ UNCHANGED <<calls, suppresses, affirmed>>

\* The provider fails, or the reply is refused: maintain raises.
MergeFails ==
  /\ phase = "merging"
  /\ merging' = NoMerge
  /\ phase' = "failed"
  /\ UNCHANGED <<calls, observations, suppresses, affirmed>>

\* The step or run is over; its observation tasks are not awaited.
End ==
  /\ phase = "acting"
  /\ phase' = "ended"
  /\ UNCHANGED <<calls, observations, merging, suppresses, affirmed>>

Maintain ==
  \/ Fits \/ CannotFit \/ RequestMerge \/ MergeFails
  \/ \E reply \in Reply : MergeObservations(reply)

AnswerTo(n) ==
  \/ \E reply \in Reply : Observe(n, reply) \/ ObserveInvalid(n, reply)
  \/ ObserveProviderError(n) \/ ObserveCancelled(n)

Next ==
  \/ \E size \in 1 .. MaxBatch : \E batch \in [1 .. size -> Drafts], ids \in [1 .. size -> Id],
        round \in Round : RecordToolRound(batch, round, ids)
  \/ \E n \in DOMAIN calls : AnswerTo(n)
  \/ StartMaintain \/ Maintain \/ End

Spec == Init /\ [][Next]_vars

-----------------------------------------------------------------------------
TypeOK ==
  /\ calls \in Seq(Call)
  /\ observations \subseteq Observation
  /\ merging \in {NoMerge} \union (Observation \X Observation)
  /\ phase \in {"acting", "checking", "merging", "failed", "ended"}
  /\ phase = "merging" => merging # NoMerge
  /\ suppresses \in BOOLEAN
  /\ affirmed \in Seq(Nat)

\* Raw evidence stays until an Observation has been accepted: a call of the
\* observation class whose answer is missing, late, refused or cancelled, or
\* that was never asked about, is shown raw in every context.
RawFallback ==
  \A n \in DOMAIN calls :
    calls[n].kind = "observation" /\ calls[n].outcome # "succeeded" => Visible(n)

\* Where a provider gives calls of different rounds one ID, raw evidence stays
\* as long as no call of that ID has been answered: the policy goes by ID, so
\* that an answer to one of them is taken for an answer to all.
RawFallbackById ==
  \A n \in DOMAIN calls :
    /\ calls[n].kind = "observation"
    /\ \A m \in DOMAIN calls : calls[m].id = calls[n].id => calls[m].outcome # "succeeded"
    => Visible(n)

\* Whatever was merged meanwhile, every call of the newest batch is before the
\* model, raw or as an Observation of that very call.
NewestBatchAccounted ==
  \A n \in DOMAIN calls :
    calls[n].round = calls[Len(calls)].round =>
      \/ Visible(n)
      \/ \E i \in DOMAIN affirmed : affirmed[i] = n /\ calls[n].id \in ObservedIds

\* Evidence is neither doubled nor invented: an ID is in one Observation at
\* most, and only if its call had a positive answer.
ObservedOnce ==
  /\ \A o, p \in observations : o.ids \intersect p.ids # {} => o = p
  /\ \A id \in ObservedIds : \E i \in DOMAIN affirmed : calls[affirmed[i]].id = id

\* Positive evidence gets lost in one way only: its answer came after that of
\* a later call (and between the two the later call was chosen for a merge).
LostOnlyToOvertaking ==
  \A i \in DOMAIN affirmed :
    \/ calls[affirmed[i]].id \in ObservedIds
    \/ \E j \in 1 .. i - 1 : affirmed[j] > affirmed[i]

\* What ADR-0016 and ADR-0019 say: a valid positive Observation replaces its
\* raw fallback in later contexts.  The code loses one that arrives during a
\* merge and sorts between the two merged ones.
EvidenceKept ==
  \A i \in DOMAIN affirmed : calls[affirmed[i]].id \in ObservedIds

\* What ADR-0010 says of merged Observations: they preserve their round range.
RangeCovers ==
  \A o \in observations : \A n \in DOMAIN calls :
    calls[n].id \in o.ids => calls[n].round <= o.end

\* What of that holds: the range begins at the least round of its calls and
\* ends at the round of one of them.  Only later rounds can be missing, never
\* earlier ones, and no merge moves a bound to a round it has nothing of.
RangeBegins ==
  \A o \in observations :
    LET own == {calls[n].round : n \in {m \in DOMAIN calls : calls[m].id \in o.ids}} IN
    /\ o.start \in own /\ o.end \in own
    /\ \A r \in own : o.start <= r
=============================================================================
