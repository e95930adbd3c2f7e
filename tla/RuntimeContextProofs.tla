------------------------- MODULE RuntimeContextProofs ------------------------
(***************************************************************************)
(* RuntimeContext, alone and inside a Plan step: the types for all         *)
(* constants; and, when the provider numbers its calls apart and a merge   *)
(* reply names the source calls only, that raw evidence stays until its    *)
(* Observation is accepted, that the newest batch is always accounted for, *)
(* that no evidence is doubled, how alone it is lost and which range a     *)
(* merged Observation has; what stays raw with any IDs.  A step's policy   *)
(* behaves like the policy (StepKeepsPolicy), so that the same holds there,*)
(* and what model and judge of a step are shown follows.                   *)
(*                                                                         *)
(* None of them is inductive.  Known adds that an observed call had its    *)
(* positive answer and that the pair being merged is still in the list,    *)
(* with its first one before its second, whatever arrives meanwhile.       *)
(***************************************************************************)
EXTENDS StepContext, FiniteSetTheorems, SequenceTheorems, TLAPS

Numbered == \A n \in DOMAIN calls : calls[n].id = n

RoundsGrow == \A m, n \in DOMAIN calls : m <= n => calls[m].round <= calls[n].round

Affirmed == {affirmed[i] : i \in DOMAIN affirmed}

Known ==
  /\ Affirmed \subseteq {n \in DOMAIN calls : calls[n].outcome = "succeeded"}
  /\ ObservedIds \subseteq Affirmed
  /\ \A o, p \in observations : o.ids \intersect p.ids # {} => o = p
  /\ phase = "merging" =>
       /\ merging[1] \in Slice /\ merging[2] \in Slice
       /\ merging[1] # merging[2]

CInv == TypeOK /\ Numbered /\ RoundsGrow /\ Known

-----------------------------------------------------------------------------
\* Before the first round every variable has its type.
LEMMA InitTypeOK == Init => TypeOK
  BY DEF Init, TypeOK, NoMerge

\* The observation task of a call changes its outcome and nothing else of it.
LEMMA SettleTypeOK ==
  ASSUME calls \in Seq(Call), NEW n \in DOMAIN calls, NEW ending \in Outcome,
         Settle(n, ending)
  PROVE  /\ calls' \in Seq(Call)
         /\ Len(calls') = Len(calls)
         /\ DOMAIN calls' = DOMAIN calls
         /\ \A m \in DOMAIN calls :
              /\ calls'[m].round = calls[m].round
              /\ calls'[m].id = calls[m].id
              /\ calls'[m].kind = calls[m].kind
              /\ calls'[m].outcome = IF m = n THEN ending ELSE calls[m].outcome
  <1>1. calls[n] \in Call
    OBVIOUS
  <1>2. [calls[n] EXCEPT !.outcome = ending] \in Call
    BY <1>1 DEF Call
  <1>3. calls' = [calls EXCEPT ![n] = [calls[n] EXCEPT !.outcome = ending]]
    BY DEF Settle
  <1>4. calls' \in Seq(Call) /\ Len(calls') = Len(calls) /\ DOMAIN calls' = DOMAIN calls
    BY <1>2, <1>3
  <1>5. ASSUME NEW m \in DOMAIN calls
        PROVE  /\ calls'[m].round = calls[m].round
               /\ calls'[m].id = calls[m].id
               /\ calls'[m].kind = calls[m].kind
               /\ calls'[m].outcome = IF m = n THEN ending ELSE calls[m].outcome
    <2>1. calls[m] \in Call
      OBVIOUS
    <2> QED
      BY <1>1, <1>3, <2>1 DEF Call
  <1> QED
    BY <1>4, <1>5

\* A settled batch is appended behind the calls there were.
LEMMA RecordTypeOK ==
  ASSUME TypeOK, NEW size \in 1 .. MaxBatch, NEW batch \in [1 .. size -> Drafts],
         NEW ids \in [1 .. size -> Id], NEW round \in Round,
         RecordToolRound(batch, round, ids)
  PROVE  /\ calls' \in Seq(Call)
         /\ Len(calls') = Len(calls) + size
         /\ \A n \in 1 .. Len(calls) : calls'[n] = calls[n]
         /\ \A n \in Len(calls) + 1 .. Len(calls') :
              /\ calls'[n].round = round
              /\ calls'[n].id = ids[n - Len(calls)]
              /\ calls'[n].outcome \in {"none", "pending"}
         /\ ~Reuses => \A n \in Len(calls) + 1 .. Len(calls') : calls'[n].id = n
  <1> USE BoundAssumption DEF TypeOK
  <1> DEFINE suppress == suppresses /\ \E i \in DOMAIN batch : batch[i].failed
             new(i) == [round |-> round, id |-> ids[i],
                        kind |-> batch[i].kind, failed |-> batch[i].failed,
                        outcome |-> IF Observable(batch[i], suppress)
                                    THEN "pending" ELSE "none"]
             tail == [i \in 1 .. size |-> new(i)]
  <1>1. DOMAIN batch = 1 .. size /\ size \in Nat
    OBVIOUS
  <1>2. calls' = calls \o tail
    BY <1>1 DEF RecordToolRound
  <1>3. ASSUME NEW i \in 1 .. size PROVE new(i) \in Call
    <2>1. batch[i].kind \in Lifecycle /\ batch[i].failed \in BOOLEAN
      BY DraftAssumption
    <2> QED
      BY <2>1 DEF Call, Outcome
  <1>4. tail \in Seq(Call) /\ Len(tail) = size
    BY <1>1, <1>3
  <1>5. \A i \in 1 .. size : tail[i] = new(i)
    OBVIOUS
  <1> HIDE DEF tail
  <1>6. Len(calls) \in Nat /\ calls \in Seq(Call)
    OBVIOUS
  <1>7. /\ calls' \in Seq(Call) /\ Len(calls') = Len(calls) + size
        /\ \A n \in 1 .. Len(calls) + size :
             calls'[n] = IF n <= Len(calls) THEN calls[n] ELSE tail[n - Len(calls)]
    BY <1>2, <1>4, <1>6, ConcatProperties
  <1>8. \A n \in 1 .. Len(calls) : calls'[n] = calls[n]
    BY <1>1, <1>6, <1>7
  <1>9. ASSUME NEW n \in Len(calls) + 1 .. Len(calls')
        PROVE  /\ n - Len(calls) \in 1 .. size
               /\ calls'[n] = new(n - Len(calls))
               /\ n = Len(calls) + (n - Len(calls))
    <2>1. n - Len(calls) \in 1 .. size /\ n \in 1 .. Len(calls) + size /\ ~(n <= Len(calls))
      BY <1>1, <1>6, <1>7
    <2>2. calls'[n] = tail[n - Len(calls)]
      BY <1>7, <2>1
    <2>3. tail[n - Len(calls)] = new(n - Len(calls))
      BY <1>5, <2>1
    <2> HIDE DEF new
    <2> QED
      BY <1>6, <2>1, <2>2, <2>3
  <1>10. ASSUME NEW n \in Len(calls) + 1 .. Len(calls')
         PROVE  /\ calls'[n].round = round
                /\ calls'[n].id = ids[n - Len(calls)]
                /\ calls'[n].outcome \in {"none", "pending"}
    <2> DEFINE i == n - Len(calls)
    <2>1. calls'[n] = new(i)
      BY <1>9
    <2> QED
      BY <2>1
  <1>11. ASSUME ~Reuses, NEW n \in Len(calls) + 1 .. Len(calls') PROVE calls'[n].id = n
    <2>1. \A i \in 1 .. size : ids[i] = Len(calls) + i
      BY <1>1, <1>11 DEF RecordToolRound
    <2> QED
      BY <1>9, <1>10, <2>1
  <1> QED
    BY <1>7, <1>8, <1>10, <1>11

\* No recorded call is changed by a later batch.
LEMMA RecordAppends ==
  ASSUME TypeOK, NEW size \in 1 .. MaxBatch, NEW batch \in [1 .. size -> Drafts],
         NEW ids \in [1 .. size -> Id], NEW round \in Round,
         RecordToolRound(batch, round, ids)
  PROVE  DOMAIN calls \subseteq DOMAIN calls' /\ \A n \in DOMAIN calls : calls'[n] = calls[n]
<1>1. calls \in Seq(Call) /\ size \in Nat
  BY BoundAssumption DEF TypeOK
<1>2. /\ calls' \in Seq(Call) /\ Len(calls') = Len(calls) + size
      /\ \A n \in 1 .. Len(calls) : calls'[n] = calls[n]
  BY RecordTypeOK
<1> QED
  BY <1>1, <1>2

\* Every step keeps the types.
LEMMA NextTypeOK == TypeOK /\ [Next]_vars => TypeOK'
<1> SUFFICES ASSUME TypeOK, [Next]_vars PROVE TypeOK'
  OBVIOUS
<1>1. CASE UNCHANGED vars
  BY <1>1 DEF vars, TypeOK
<1>2. ASSUME NEW size \in 1 .. MaxBatch, NEW batch \in [1 .. size -> Drafts],
             NEW ids \in [1 .. size -> Id], NEW round \in Round,
             RecordToolRound(batch, round, ids)
      PROVE  TypeOK'
  BY <1>2, RecordTypeOK DEF TypeOK, RecordToolRound
<1>3. ASSUME NEW n \in DOMAIN calls, AnswerTo(n) PROVE TypeOK'
  <2> USE DEF TypeOK
  <2>1. calls[n] \in Call
    OBVIOUS
  <2>2. ASSUME NEW reply \in Reply, Observe(n, reply) PROVE TypeOK'
    <3>1. calls' \in Seq(Call)
      BY <2>2, SettleTypeOK DEF Observe, Outcome
    <3>2. reply.ids \subseteq Id /\ calls[n].round \in Round
      BY <2>1 DEF Reply, Call
    <3>3. observations' \subseteq Observation
      BY <2>2, <3>2 DEF Observe, Observation
    <3>4. affirmed' \in Seq(Nat)
      BY <2>2 DEF Observe
    <3> QED
      BY <2>2, <3>1, <3>3, <3>4 DEF Observe
  <2>3. ASSUME NEW reply \in Reply, ObserveInvalid(n, reply) PROVE TypeOK'
    BY <2>3, SettleTypeOK DEF ObserveInvalid, Outcome
  <2>4. CASE ObserveProviderError(n) \/ ObserveCancelled(n)
    BY <2>4, SettleTypeOK DEF ObserveProviderError, ObserveCancelled, Outcome
  <2> QED
    BY <1>3, <2>2, <2>3, <2>4 DEF AnswerTo
<1>4. CASE StartMaintain \/ Fits \/ CannotFit \/ End \/ MergeFails
  BY <1>4 DEF StartMaintain, Fits, CannotFit, End, MergeFails, TypeOK
<1>5. CASE RequestMerge
  <2>1. PICK first, second \in observations : merging' = <<first, second>>
    BY <1>5 DEF RequestMerge
  <2>2. merging' \in Observation \X Observation /\ merging' # NoMerge
    BY <2>1 DEF TypeOK, NoMerge
  <2> QED
    BY <1>5, <2>2 DEF RequestMerge, TypeOK
<1>6. ASSUME NEW reply \in Reply, MergeObservations(reply) PROVE TypeOK'
  <2>1. merging \in Observation \X Observation
    BY <1>6 DEF MergeObservations, TypeOK, NoMerge, Mergeable
  <2> QED
    BY <1>6, <2>1 DEF MergeObservations, TypeOK, Merged, Observation, Reply
<1> QED
  BY <1>1, <1>2, <1>3, <1>4, <1>5, <1>6 DEF Next, Maintain

\* Calls, Observations and the pair being merged have their types in every
\* behaviour of the policy.
THEOREM TypeCorrect == Spec => []TypeOK
  BY InitTypeOK, NextTypeOK, PTL DEF Spec

-----------------------------------------------------------------------------
\* Before the first round nothing is observed.
LEMMA InitKnown == Init => CInv
<1> SUFFICES ASSUME Init PROVE CInv
  OBVIOUS
<1>1. Affirmed = {} /\ ObservedIds = {} /\ DOMAIN calls = {}
  BY DEF Init, Affirmed, ObservedIds
<1> QED
  BY <1>1, InitTypeOK DEF Init, CInv, Numbered, RoundsGrow, Known

\* When calls keep their rounds and IDs, the order of the Observations stays.
LEMMA OrderKept ==
  ASSUME DOMAIN calls' = DOMAIN calls,
         \A m \in DOMAIN calls : calls'[m].round = calls[m].round /\ calls'[m].id = calls[m].id,
         NEW o
  PROVE  FirstCall(o)' = FirstCall(o)
<1>1. FirstRoundCalls(o)' = FirstRoundCalls(o)
  BY DEF FirstRoundCalls
<1> QED
  BY <1>1 DEF FirstCall

\* The actions that leave calls, Observations and answers as they are, and do
\* not begin a merge, keep everything but the types for free.
LEMMA PhaseKeeps ==
  ASSUME CInv, UNCHANGED <<calls, observations, affirmed>>,
         phase' = "merging" => phase = "merging" /\ merging' = merging
  PROVE  Numbered' /\ RoundsGrow' /\ Known'
<1>1. /\ Affirmed' = Affirmed /\ ObservedIds' = ObservedIds
      /\ \A o : FirstCall(o)' = FirstCall(o)
  BY OrderKept DEF Affirmed, ObservedIds
<1>2. phase' = "merging" => Slice' = Slice
  BY <1>1 DEF Slice
<1> QED
  BY <1>1, <1>2 DEF CInv, Numbered, RoundsGrow, Known

\* A new batch brings IDs that nothing observed has.
LEMMA RecordKeeps ==
  ASSUME CInv, ~Reuses, NEW size \in 1 .. MaxBatch, NEW batch \in [1 .. size -> Drafts],
         NEW ids \in [1 .. size -> Id], NEW round \in Round,
         RecordToolRound(batch, round, ids)
  PROVE  Numbered' /\ RoundsGrow' /\ Known'
<1> USE DEF CInv
<1>1. /\ calls \in Seq(Call) /\ calls' \in Seq(Call) /\ size \in Nat
      /\ DOMAIN calls = 1 .. Len(calls) /\ DOMAIN calls' = 1 .. Len(calls')
      /\ Len(calls) \in Nat /\ Len(calls') = Len(calls) + size
      /\ \A n \in 1 .. Len(calls) : calls'[n] = calls[n]
  <2>1. calls \in Seq(Call) /\ size \in Nat
    BY BoundAssumption DEF TypeOK
  <2>2. /\ calls' \in Seq(Call) /\ Len(calls') = Len(calls) + size
        /\ \A n \in 1 .. Len(calls) : calls'[n] = calls[n]
    BY RecordTypeOK
  <2> QED
    BY <2>1, <2>2
<1>2. \A n \in DOMAIN calls' : n \in DOMAIN calls \/ n \in Len(calls) + 1 .. Len(calls')
  BY <1>1
<1>3. Numbered'
  BY <1>1, <1>2, RecordTypeOK DEF Numbered
<1>4. \A n \in DOMAIN calls : calls[n].round \in Nat /\ calls[n].round < round
  <2>1. \A n \in DOMAIN calls : calls[n] \in Call
    BY <1>1
  <2> QED
    BY <2>1 DEF RecordToolRound, Recorded, Call, Round
<1>5. \A n \in Len(calls) + 1 .. Len(calls') : calls'[n].round = round
  BY RecordTypeOK
<1>6. RoundsGrow'
  <2> SUFFICES ASSUME NEW m \in DOMAIN calls', NEW n \in DOMAIN calls', m <= n
               PROVE  calls'[m].round <= calls'[n].round
    BY DEF RoundsGrow
  <2>1. CASE n \in DOMAIN calls
    BY <1>1, <2>1 DEF RoundsGrow
  <2>2. CASE n \notin DOMAIN calls
    BY <1>1, <1>2, <1>4, <1>5, <2>2 DEF Round
  <2> QED
    BY <2>1, <2>2
<1>7. Known'
  <2>1. /\ Affirmed' = Affirmed /\ ObservedIds' = ObservedIds
        /\ phase = "acting" /\ phase' = phase /\ observations' = observations
    BY DEF RecordToolRound, Affirmed, ObservedIds
  <2>2. {n \in DOMAIN calls : calls[n].outcome = "succeeded"}
          \subseteq {n \in DOMAIN calls' : calls'[n].outcome = "succeeded"}
    BY <1>1
  <2> QED
    BY <2>1, <2>2 DEF Known
<1> QED
  BY <1>3, <1>6, <1>7

\* A call settles once: a positive answer is the first word on its call.
LEMMA AnswerKeeps ==
  ASSUME CInv, NEW n \in DOMAIN calls, AnswerTo(n)
  PROVE  Numbered' /\ RoundsGrow' /\ Known'
<1> USE DEF CInv
<1>1. PICK ending \in Outcome : Settle(n, ending)
  BY DEF AnswerTo, Observe, ObserveInvalid, ObserveProviderError, ObserveCancelled, Outcome
<1>2. /\ DOMAIN calls' = DOMAIN calls
      /\ \A m \in DOMAIN calls :
           /\ calls'[m].round = calls[m].round
           /\ calls'[m].id = calls[m].id
           /\ m # n => calls'[m].outcome = calls[m].outcome
  BY <1>1, SettleTypeOK DEF TypeOK
<1>3. Numbered' /\ RoundsGrow'
  BY <1>2 DEF Numbered, RoundsGrow
<1>4. \A o : FirstCall(o)' = FirstCall(o)
  BY <1>2, OrderKept
<1>5. n \notin Affirmed /\ phase' = phase /\ merging' = merging
  BY DEF AnswerTo, Observe, ObserveInvalid, ObserveProviderError, ObserveCancelled,
         Answerable, Known
<1>6. CASE UNCHANGED <<observations, affirmed>>
  <2>1. Affirmed' = Affirmed /\ ObservedIds' = ObservedIds
    BY <1>6 DEF Affirmed, ObservedIds
  <2>2. Slice' = Slice
    BY <1>4, <1>5, <1>6 DEF Slice
  <2> QED
    BY <1>2, <1>3, <1>5, <1>6, <2>1, <2>2 DEF Known
<1>7. ASSUME NEW reply \in Reply, Observe(n, reply), reply.impact PROVE Known'
  <2> DEFINE new == [ids |-> reply.ids, start |-> calls[n].round, end |-> calls[n].round]
  <2>1. new.ids = {n}
    BY <1>7 DEF Observe, Attributed, Numbered
  <2> HIDE DEF new
  <2>2. /\ observations' = observations \union {new}
        /\ affirmed' = Append(affirmed, n)
        /\ Settle(n, "succeeded")
    BY <1>7 DEF Observe, new
  <2>3. Affirmed' = Affirmed \union {n}
    <3>1. affirmed \in Seq(Nat) /\ n \in Nat
      BY DEF TypeOK
    <3>2. /\ DOMAIN affirmed' = DOMAIN affirmed \union {Len(affirmed) + 1}
          /\ Len(affirmed) + 1 \notin DOMAIN affirmed
          /\ affirmed'[Len(affirmed) + 1] = n
          /\ \A i \in DOMAIN affirmed : affirmed'[i] = affirmed[i]
      BY <2>2, <3>1
    <3> QED
      BY <3>2 DEF Affirmed
  <2>4. ObservedIds' = ObservedIds \union {n}
    BY <2>1, <2>2 DEF ObservedIds
  <2>5. calls'[n].outcome = "succeeded"
    BY <2>2, SettleTypeOK DEF TypeOK, Outcome
  <2>6. Affirmed' \subseteq {m \in DOMAIN calls' : calls'[m].outcome = "succeeded"}
    BY <1>2, <1>5, <2>3, <2>5 DEF Known
  <2>7. \A o \in observations : n \notin o.ids
    BY <1>5 DEF Known, ObservedIds
  <2>8. \A o, p \in observations' : o.ids \intersect p.ids # {} => o = p
    BY <2>1, <2>2, <2>7 DEF Known
  <2>9. Slice \subseteq Slice'
    BY <1>4, <1>5, <2>2 DEF Slice
  <2> QED
    BY <1>5, <2>3, <2>4, <2>6, <2>8, <2>9 DEF Known
<1> QED
  BY <1>3, <1>6, <1>7
     DEF AnswerTo, Observe, ObserveInvalid, ObserveProviderError, ObserveCancelled

\* The pair is chosen among the present Observations.
LEMMA RequestKeeps ==
  ASSUME CInv, RequestMerge
  PROVE  Numbered' /\ RoundsGrow' /\ Known'
<1> USE DEF CInv
<1>1. PICK first, second \in observations :
         /\ Oldest(first, observations)
         /\ Oldest(second, observations \ {first})
         /\ merging' = <<first, second>>
  BY DEF RequestMerge
<1>2. /\ first # second
      /\ FirstCall(first) <= FirstCall(first) /\ FirstCall(first) <= FirstCall(second)
      /\ FirstCall(second) <= FirstCall(second)
  BY <1>1 DEF Oldest
<1>3. UNCHANGED <<calls, observations, affirmed>>
  BY DEF RequestMerge
<1>4. \A o : FirstCall(o)' = FirstCall(o)
  BY <1>3, OrderKept
<1>5. Slice' = {o \in observations :
                  FirstCall(first) <= FirstCall(o) /\ FirstCall(o) <= FirstCall(second)}
  BY <1>1, <1>3, <1>4 DEF Slice
<1>6. merging'[1] \in Slice' /\ merging'[2] \in Slice' /\ merging'[1] # merging'[2]
  BY <1>1, <1>2, <1>5
<1>7. Affirmed' = Affirmed /\ ObservedIds' = ObservedIds
  BY <1>3 DEF Affirmed, ObservedIds
<1> QED
  BY <1>3, <1>6, <1>7 DEF Numbered, RoundsGrow, Known

\* The merged Observation takes the place of the pair and of what lay between.
LEMMA MergeKeeps ==
  ASSUME CInv, ~Invents, NEW reply \in Reply, MergeObservations(reply)
  PROVE  Numbered' /\ RoundsGrow' /\ Known'
<1> USE DEF CInv
<1> DEFINE first == merging[1]
           second == merging[2]
           merged == Merged(reply)
<1>1. /\ first \in Slice /\ second \in Slice
      /\ first \in observations /\ second \in observations
  BY DEF MergeObservations, Known, Slice
<1>2. merged.ids = first.ids \union second.ids
  BY DEF MergeObservations, Merged
<1> HIDE DEF first, second, merged
<1>3. observations' = (observations \ Slice) \union {merged}
  BY DEF MergeObservations, merged
<1>4. UNCHANGED <<calls, affirmed>> /\ phase' = "checking"
  BY DEF MergeObservations
<1>5. Affirmed' = Affirmed
  BY <1>4 DEF Affirmed
<1>6. ObservedIds' \subseteq ObservedIds
  BY <1>1, <1>2, <1>3 DEF ObservedIds
<1>7. \A o \in observations \ Slice : o.ids \intersect merged.ids = {}
  BY <1>1, <1>2 DEF Known
<1>8. \A o, p \in observations' : o.ids \intersect p.ids # {} => o = p
  BY <1>3, <1>7 DEF Known
<1> QED
  BY <1>4, <1>5, <1>6, <1>8 DEF Known, Numbered, RoundsGrow

\* The invariant is inductive when the provider keeps its contract.
LEMMA NextKnown ==
  ASSUME ~Reuses, ~Invents
  PROVE  CInv /\ [Next]_vars => CInv'
<1> SUFFICES ASSUME CInv, [Next]_vars PROVE Numbered' /\ RoundsGrow' /\ Known'
  BY NextTypeOK DEF CInv
<1>1. CASE UNCHANGED vars
  BY <1>1, PhaseKeeps DEF vars
<1>2. CASE StartMaintain \/ Fits \/ CannotFit \/ End \/ MergeFails
  BY <1>2, PhaseKeeps DEF StartMaintain, Fits, CannotFit, End, MergeFails
<1> QED
  BY <1>1, <1>2, RecordKeeps, AnswerKeeps, RequestKeeps, MergeKeeps DEF Next, Maintain

\* The calls of the newest batch lie in every window.
LEMMA NewestInWindow ==
  ASSUME CInv, NEW n \in DOMAIN calls, Newest(n)
  PROVE  AmongLast(1, calls[n].round) /\ AmongLast(RecentWindow, calls[n].round)
<1>1. calls \in Seq(Call) /\ DOMAIN calls = 1 .. Len(calls) /\ Len(calls) \in DOMAIN calls
  BY DEF CInv, TypeOK
<1>2. \A m \in DOMAIN calls : calls[m].round \in Nat /\ calls[m].round <= calls[n].round
  <2>1. \A m \in DOMAIN calls : calls[m] \in Call /\ m <= Len(calls)
    BY <1>1
  <2> QED
    BY <1>1, <2>1 DEF CInv, RoundsGrow, Newest, Call, Round
<1>3. {s \in Recorded : s > calls[n].round} = {}
  BY <1>2 DEF Recorded
<1>4. Cardinality({s \in Recorded : s > calls[n].round}) = 0
  BY <1>3, FS_EmptySet
<1>5. 0 < 1 /\ 0 < RecentWindow
  BY WindowAssumption
<1> QED
  BY <1>4, <1>5 DEF AmongLast

\* What CInv says of an unanswered call, of the newest batch and of each ID.
LEMMA KnownIsEnough == CInv => RawFallback /\ NewestBatchAccounted /\ ObservedOnce
<1> SUFFICES ASSUME CInv PROVE RawFallback /\ NewestBatchAccounted /\ ObservedOnce
  OBVIOUS
<1> USE WindowAssumption DEF CInv
<1>1. /\ calls \in Seq(Call) /\ DOMAIN calls = 1 .. Len(calls)
      /\ \A n \in DOMAIN calls : calls[n].id = n
  BY DEF TypeOK, Numbered
<1>2. RawFallback
  <2> SUFFICES ASSUME NEW n \in DOMAIN calls, calls[n].kind = "observation",
                      calls[n].outcome # "succeeded"
               PROVE  Visible(n)
    BY DEF RawFallback
  <2>1. n \notin ObservedIds
    BY DEF Known
  <2>2. n \notin NegativeIds
    BY <1>1 DEF NegativeIds
  <2> QED
    BY <1>1, <2>1, <2>2 DEF Visible
<1>3. ObservedOnce
  BY <1>1 DEF Known, ObservedOnce, Affirmed
<1>4. NewestBatchAccounted
  <2> SUFFICES ASSUME NEW n \in DOMAIN calls, calls[n].round = calls[Len(calls)].round
               PROVE  \/ Visible(n)
                      \/ \E i \in DOMAIN affirmed :
                           affirmed[i] = n /\ calls[n].id \in ObservedIds
    BY DEF NewestBatchAccounted
  <2>1. calls[n] \in Call
    BY <1>1
  <2>2. AmongLast(1, calls[n].round) /\ AmongLast(RecentWindow, calls[n].round)
    BY NewestInWindow DEF Newest
  <2>3. calls[n].id \in ObservedIds => \E i \in DOMAIN affirmed : affirmed[i] = n
    BY <1>1 DEF Known, Affirmed
  <2> QED
    BY <2>1, <2>2, <2>3 DEF Visible, Call, Lifecycle
<1> QED
  BY <1>2, <1>3, <1>4

\* While its observation is pending, failed, refused, cancelled or was never
\* asked for, the raw result of a call is in every context.
THEOREM RawFallbackHolds ==
  ASSUME ~Reuses, ~Invents
  PROVE  Spec => []RawFallback
<1>1. CInv /\ [Next]_vars => CInv'
  BY NextKnown
<1> QED
  BY InitKnown, <1>1, KnownIsEnough, PTL DEF Spec

\* The model sees every call of the newest batch, raw or observed, however the
\* background answers and the merges interleave.
THEOREM NewestBatchHolds ==
  ASSUME ~Reuses, ~Invents
  PROVE  Spec => []NewestBatchAccounted
<1>1. CInv /\ [Next]_vars => CInv'
  BY NextKnown
<1> QED
  BY InitKnown, <1>1, KnownIsEnough, PTL DEF Spec

\* No evidence is in two Observations, and none without a positive answer.
THEOREM ObservedOnceHolds ==
  ASSUME ~Reuses, ~Invents
  PROVE  Spec => []ObservedOnce
<1>1. CInv /\ [Next]_vars => CInv'
  BY NextKnown
<1> QED
  BY InitKnown, <1>1, KnownIsEnough, PTL DEF Spec

-----------------------------------------------------------------------------
(***************************************************************************)
(* What becomes lost.  An Observation sorts by its least call (Led), and   *)
(* the pair chosen for a merge has nothing between it, so what sorts       *)
(* between the two later came later than the second one.                   *)
(***************************************************************************)
Leads(n, o) == n \in FirstRoundCalls(o) /\ \A m \in o.ids : n <= m

Led == \A o \in observations : \E n \in DOMAIN calls : Leads(n, o)

Overtaken(n) ==
  \A i \in DOMAIN affirmed : affirmed[i] = n => \E j \in 1 .. i - 1 : affirmed[j] > n

AllOvertaken(o) == \A n \in o.ids : Overtaken(n)

Lost ==
  /\ \A n \in Affirmed : n \in ObservedIds \/ Overtaken(n)
  /\ phase = "merging" =>
       \A o \in Slice \ {merging[1], merging[2]} : AllOvertaken(o)

LInv == CInv /\ Led /\ Lost

\* The call that leads an Observation is the one it is sorted by.
LEMMA LeaderIsFirst ==
  ASSUME CInv, NEW o \in observations, NEW n \in DOMAIN calls, Leads(n, o)
  PROVE  FirstCall(o) = n /\ n \in o.ids /\ calls[n].round = o.start
<1>1. DOMAIN calls \subseteq Nat /\ \A m \in DOMAIN calls : calls[m].id = m
  BY DEF CInv, TypeOK, Numbered
<1>2. n \in FirstRoundCalls(o) /\ \A m \in FirstRoundCalls(o) : n <= m
  BY <1>1 DEF Leads, FirstRoundCalls
<1>3. \A m \in FirstRoundCalls(o) : m \in Nat
  BY <1>1 DEF FirstRoundCalls
<1>4. \A m \in FirstRoundCalls(o) :
        (\A k \in FirstRoundCalls(o) : m <= k) => m = n
  BY <1>2, <1>3
<1>5. FirstCall(o) = n
  BY <1>2, <1>4 DEF FirstCall
<1> QED
  BY <1>1, <1>2, <1>5 DEF FirstRoundCalls

\* Where every Observation is led, each is sorted by a call of its own.
LEMMA FirstIsOwn ==
  ASSUME CInv, Led, NEW o \in observations
  PROVE  /\ FirstCall(o) \in DOMAIN calls /\ FirstCall(o) \in Nat
         /\ FirstCall(o) \in o.ids /\ calls[FirstCall(o)].round = o.start
         /\ \A m \in o.ids : FirstCall(o) <= m
<1>1. PICK n \in DOMAIN calls : Leads(n, o)
  BY DEF Led
<1>2. n \in Nat
  BY DEF CInv, TypeOK
<1> QED
  BY <1>1, <1>2, LeaderIsFirst DEF Leads

\* An overtaken call stays overtaken: answers are only appended, and its own
\* has been given.
LEMMA OvertakenStays ==
  ASSUME affirmed \in Seq(Nat), NEW c \in Nat, NEW n \in Nat, n # c,
         affirmed' = Append(affirmed, c), Overtaken(n)
  PROVE  Overtaken(n)'
<1>1. /\ DOMAIN affirmed' = DOMAIN affirmed \union {Len(affirmed) + 1}
      /\ affirmed'[Len(affirmed) + 1] = c
      /\ \A i \in DOMAIN affirmed : affirmed'[i] = affirmed[i]
      /\ DOMAIN affirmed = 1 .. Len(affirmed) /\ Len(affirmed) \in Nat
  OBVIOUS
<1> SUFFICES ASSUME NEW i \in DOMAIN affirmed', affirmed'[i] = n
             PROVE  \E j \in 1 .. i - 1 : affirmed'[j] > n
  BY DEF Overtaken
<1>2. i \in DOMAIN affirmed /\ affirmed[i] = n
  BY <1>1
<1>3. PICK j \in 1 .. i - 1 : affirmed[j] > n
  BY <1>2 DEF Overtaken
<1>4. affirmed'[j] = affirmed[j]
  BY <1>1, <1>2, <1>3
<1> QED
  BY <1>3, <1>4

\* A call whose positive answer comes after that of a later call is overtaken.
LEMMA LateIsOvertaken ==
  ASSUME affirmed \in Seq(Nat), NEW n \in Nat, n \notin Affirmed,
         affirmed' = Append(affirmed, n), NEW m \in Affirmed, m > n
  PROVE  Overtaken(n)'
<1>1. /\ DOMAIN affirmed' = DOMAIN affirmed \union {Len(affirmed) + 1}
      /\ \A i \in DOMAIN affirmed : affirmed'[i] = affirmed[i]
      /\ DOMAIN affirmed = 1 .. Len(affirmed) /\ Len(affirmed) \in Nat
  OBVIOUS
<1>2. PICK j \in DOMAIN affirmed : affirmed[j] = m
  BY DEF Affirmed
<1>3. \A i \in DOMAIN affirmed' : affirmed'[i] = n => i = Len(affirmed) + 1
  BY <1>1 DEF Affirmed
<1>4. j \in 1 .. (Len(affirmed) + 1) - 1 /\ affirmed'[j] > n
  BY <1>1, <1>2
<1> QED
  BY <1>3, <1>4 DEF Overtaken

\* Before the first round there is nothing to lose.
LEMMA InitLost == Init => LInv
<1> SUFFICES ASSUME Init PROVE LInv
  OBVIOUS
<1>1. Affirmed = {} /\ observations = {} /\ phase # "merging"
  BY DEF Init, Affirmed
<1> QED
  BY <1>1, InitKnown DEF LInv, Led, Lost

\* The actions that leave calls, Observations and answers as they are, and do
\* not begin a merge.
LEMMA PhaseLoses ==
  ASSUME LInv, UNCHANGED <<calls, observations, affirmed>>,
         phase' = "merging" => phase = "merging" /\ merging' = merging
  PROVE  Led' /\ Lost'
<1>1. /\ Affirmed' = Affirmed /\ ObservedIds' = ObservedIds
      /\ \A o : FirstCall(o)' = FirstCall(o)
      /\ \A n : Overtaken(n)' = Overtaken(n)
      /\ \A o : AllOvertaken(o)' = AllOvertaken(o)
  BY OrderKept DEF Affirmed, ObservedIds, Overtaken, AllOvertaken
<1>2. phase' = "merging" => Slice' = Slice
  BY <1>1 DEF Slice
<1>3. Led'
  BY DEF LInv, Led, Leads, FirstRoundCalls
<1> QED
  BY <1>1, <1>2, <1>3 DEF LInv, Lost

\* A new batch is in no Observation.
LEMMA RecordLoses ==
  ASSUME LInv, NEW size \in 1 .. MaxBatch, NEW batch \in [1 .. size -> Drafts],
         NEW ids \in [1 .. size -> Id], NEW round \in Round,
         RecordToolRound(batch, round, ids)
  PROVE  Led' /\ Lost'
<1> USE DEF LInv, CInv
<1>1. /\ DOMAIN calls \subseteq DOMAIN calls'
      /\ \A n \in DOMAIN calls : calls'[n] = calls[n]
  BY RecordAppends
<1>2. UNCHANGED <<observations, affirmed, phase>> /\ phase = "acting"
  BY DEF RecordToolRound
<1>3. /\ Affirmed' = Affirmed /\ ObservedIds' = ObservedIds
      /\ \A n : Overtaken(n)' = Overtaken(n)
  BY <1>2 DEF Affirmed, ObservedIds, Overtaken
<1>4. Led'
  <2> SUFFICES ASSUME NEW o \in observations
               PROVE  \E n \in DOMAIN calls' : Leads(n, o)'
    BY <1>2 DEF Led
  <2>1. PICK n \in DOMAIN calls : Leads(n, o)
    BY DEF Led
  <2>2. Leads(n, o)'
    BY <1>1, <2>1 DEF Leads, FirstRoundCalls
  <2> QED
    BY <1>1, <2>2
<1> QED
  BY <1>2, <1>3, <1>4 DEF Lost

\* An answer that sorts into the middle of the pair comes after the second one,
\* whose calls have been answered.
LEMMA AnswerLoses ==
  ASSUME LInv, NEW n \in DOMAIN calls, AnswerTo(n)
  PROVE  Led' /\ Lost'
<1> USE DEF LInv, CInv
<1>1. PICK ending \in Outcome : Settle(n, ending)
  BY DEF AnswerTo, Observe, ObserveInvalid, ObserveProviderError, ObserveCancelled, Outcome
<1>2. /\ DOMAIN calls' = DOMAIN calls /\ DOMAIN calls \subseteq Nat
      /\ \A m \in DOMAIN calls :
           calls'[m].round = calls[m].round /\ calls'[m].id = calls[m].id
  BY <1>1, SettleTypeOK DEF TypeOK
<1>3. \A o : FirstCall(o)' = FirstCall(o)
  BY <1>2, OrderKept
<1>4. n \notin Affirmed /\ phase' = phase /\ merging' = merging
  BY DEF AnswerTo, Observe, ObserveInvalid, ObserveProviderError, ObserveCancelled,
         Answerable, Known
<1>5. \A o \in observations : \E m \in DOMAIN calls' : Leads(m, o)'
  <2> SUFFICES ASSUME NEW o \in observations PROVE \E m \in DOMAIN calls' : Leads(m, o)'
    OBVIOUS
  <2>1. PICK m \in DOMAIN calls : Leads(m, o)
    BY DEF Led
  <2>2. Leads(m, o)'
    BY <1>2, <2>1 DEF Leads, FirstRoundCalls
  <2> QED
    BY <1>2, <2>2
<1>6. CASE UNCHANGED <<observations, affirmed>>
  <2>1. /\ Affirmed' = Affirmed /\ ObservedIds' = ObservedIds
        /\ \A m : Overtaken(m)' = Overtaken(m)
        /\ \A o : AllOvertaken(o)' = AllOvertaken(o)
    BY <1>6 DEF Affirmed, ObservedIds, Overtaken, AllOvertaken
  <2>2. Slice' = Slice
    BY <1>3, <1>4, <1>6 DEF Slice
  <2>3. Led'
    BY <1>5, <1>6 DEF Led
  <2> QED
    BY <1>4, <2>1, <2>2, <2>3 DEF Lost
<1>7. ASSUME NEW reply \in Reply, Observe(n, reply), reply.impact PROVE Led' /\ Lost'
  <2>0. PICK new : new = [ids |-> reply.ids, start |-> calls[n].round, end |-> calls[n].round]
    OBVIOUS
  <2>1. new.ids = {n} /\ new.start = calls[n].round
    BY <1>7, <2>0 DEF Observe, Attributed, Numbered
  <2>2. observations' = observations \union {new} /\ affirmed' = Append(affirmed, n)
    BY <1>7, <2>0 DEF Observe
  <2>3. affirmed \in Seq(Nat) /\ n \in Nat
    BY <1>2 DEF TypeOK
  <2>4. Affirmed' = Affirmed \union {n} /\ Affirmed \subseteq Nat
    <3>1. /\ DOMAIN affirmed' = DOMAIN affirmed \union {Len(affirmed) + 1}
          /\ affirmed'[Len(affirmed) + 1] = n
          /\ \A i \in DOMAIN affirmed : affirmed'[i] = affirmed[i] /\ affirmed[i] \in Nat
      BY <2>2, <2>3
    <3> QED
      BY <3>1 DEF Affirmed
  <2>5. ObservedIds' = ObservedIds \union {n}
    BY <2>1, <2>2 DEF ObservedIds
  <2>6. \A m \in Affirmed : Overtaken(m) => Overtaken(m)'
    BY <1>4, <2>2, <2>3, <2>4, OvertakenStays
  <2>7. \A m \in Affirmed' : m \in ObservedIds' \/ Overtaken(m)'
    BY <2>4, <2>5, <2>6 DEF Lost
  <2>8. Leads(n, new)'
    BY <1>2, <2>1, <2>3 DEF Leads, FirstRoundCalls, Numbered
  <2>9. Led'
    BY <1>2, <1>5, <2>2, <2>8 DEF Led
  <2>10. CASE phase = "merging"
    <3>1. merging[2] \in observations /\ merging[2].ids \subseteq Affirmed
      BY <2>10 DEF Known, Slice, ObservedIds
    <3>2. /\ FirstCall(merging[2]) \in Affirmed /\ FirstCall(merging[2]) # n
          /\ FirstCall(merging[2]) \in Nat
      BY <1>4, <3>1, FirstIsOwn
    <3>3. FirstCall(new)' = n
      BY <1>2, <1>3, <2>1, <2>3, <2>8 DEF Leads, FirstRoundCalls, FirstCall, Numbered
    <3>4. new \in Slice' => AllOvertaken(new)'
      <4> SUFFICES ASSUME new \in Slice' PROVE AllOvertaken(new)'
        OBVIOUS
      <4>1. n <= FirstCall(merging[2])
        BY <1>3, <1>4, <3>3 DEF Slice
      <4>2. Overtaken(n)'
        BY <1>4, <2>2, <2>3, <3>2, <4>1, LateIsOvertaken
      <4> QED
        BY <2>1, <4>2 DEF AllOvertaken
    <3>5. Slice' \subseteq Slice \union {new}
      BY <1>3, <1>4, <2>2 DEF Slice
    <3>6. ASSUME NEW o \in Slice, o \notin {merging[1], merging[2]} PROVE AllOvertaken(o)'
      <4>1. AllOvertaken(o) /\ o.ids \subseteq Affirmed
        BY <2>10, <3>6 DEF Lost, Slice, Known, ObservedIds
      <4> QED
        BY <2>6, <4>1 DEF AllOvertaken
    <3> QED
      BY <1>4, <2>7, <2>9, <3>4, <3>5, <3>6 DEF Lost
  <2> QED
    BY <1>4, <2>7, <2>9, <2>10 DEF Lost
<1> QED
  BY <1>6, <1>7 DEF AnswerTo, Observe, ObserveInvalid, ObserveProviderError, ObserveCancelled

\* The chosen pair has nothing between it.
LEMMA RequestLoses ==
  ASSUME LInv, RequestMerge
  PROVE  Led' /\ Lost'
<1> USE DEF LInv
<1>1. PICK first, second \in observations :
         /\ Oldest(first, observations)
         /\ Oldest(second, observations \ {first})
         /\ merging' = <<first, second>>
  BY DEF RequestMerge
<1>2. UNCHANGED <<calls, observations, affirmed>>
  BY DEF RequestMerge
<1>3. \A o : FirstCall(o)' = FirstCall(o)
  BY <1>2, OrderKept
<1>4. Slice' \subseteq {first, second}
  <2> SUFFICES ASSUME NEW o \in Slice', o # first PROVE o = second
    OBVIOUS
  <2>1. o \in observations /\ FirstCall(o) <= FirstCall(second)
    BY <1>1, <1>2, <1>3 DEF Slice
  <2>2. FirstCall(second) <= FirstCall(o)
    BY <1>1, <2>1 DEF Oldest
  <2>3. FirstCall(o) = FirstCall(second) /\ FirstCall(o) \in o.ids
        /\ FirstCall(second) \in second.ids
    BY <2>1, <2>2, FirstIsOwn
  <2> QED
    BY <2>1, <2>3 DEF CInv, Known
<1>5. Affirmed' = Affirmed /\ ObservedIds' = ObservedIds /\ \A n : Overtaken(n)' = Overtaken(n)
  BY <1>2 DEF Affirmed, ObservedIds, Overtaken
<1>6. Led'
  BY <1>2 DEF Led, Leads, FirstRoundCalls
<1> QED
  BY <1>1, <1>4, <1>5, <1>6 DEF Lost

\* What the merge cuts out beside its pair has been overtaken.
LEMMA MergeLoses ==
  ASSUME LInv, ~Invents, NEW reply \in Reply, MergeObservations(reply)
  PROVE  Led' /\ Lost'
<1> USE DEF LInv
<1>0. PICK first, second, merged :
         first = merging[1] /\ second = merging[2] /\ merged = Merged(reply)
  OBVIOUS
<1>1. /\ first \in Slice /\ second \in Slice
      /\ first \in observations /\ second \in observations
  BY <1>0 DEF MergeObservations, CInv, Known, Slice
<1>2. merged.ids = first.ids \union second.ids /\ merged.start = first.start
  BY <1>0 DEF MergeObservations, Merged
<1>3. FirstCall(first) <= FirstCall(second)
  BY <1>0, <1>1 DEF Slice
<1>4. \A o \in Slice \ {first, second} : AllOvertaken(o)
  BY <1>0 DEF MergeObservations, Lost
<1>5. observations' = (observations \ Slice) \union {merged}
  BY <1>0 DEF MergeObservations
<1>6. UNCHANGED <<calls, affirmed>> /\ phase' = "checking"
  BY DEF MergeObservations
<1>7. Affirmed' = Affirmed /\ \A n : Overtaken(n)' = Overtaken(n)
  BY <1>6 DEF Affirmed, Overtaken
<1>8. \A n \in ObservedIds : n \in ObservedIds' \/ Overtaken(n)
  BY <1>2, <1>4, <1>5 DEF ObservedIds, AllOvertaken
<1>9. \E m \in DOMAIN calls : Leads(m, merged)'
  <2>1. /\ FirstCall(first) \in DOMAIN calls /\ FirstCall(first) \in Nat
        /\ FirstCall(first) \in first.ids /\ calls[FirstCall(first)].round = first.start
        /\ \A m \in first.ids : FirstCall(first) <= m
        /\ FirstCall(second) \in Nat /\ \A m \in second.ids : FirstCall(second) <= m
    BY <1>1, FirstIsOwn
  <2>2. calls[FirstCall(first)].id = FirstCall(first)
    BY <2>1 DEF CInv, Numbered
  <2>3. first.ids \subseteq Nat /\ second.ids \subseteq Nat
    BY <1>1 DEF CInv, TypeOK, Observation, Id
  <2>4. \A m \in merged.ids : FirstCall(first) <= m
    BY <1>2, <1>3, <2>1, <2>3
  <2>5. PICK m \in DOMAIN calls : m = FirstCall(first)
    BY <2>1
  <2>6. Leads(m, merged)'
    BY <1>2, <1>6, <2>1, <2>2, <2>4, <2>5 DEF Leads, FirstRoundCalls
  <2> QED
    BY <2>6
<1>10. Led'
  <2>1. \A o \in observations \ Slice : \E m \in DOMAIN calls' : Leads(m, o)'
    BY <1>6 DEF Led, Leads, FirstRoundCalls
  <2> QED
    BY <1>5, <1>6, <1>9, <2>1 DEF Led
<1> QED
  BY <1>6, <1>7, <1>8, <1>10 DEF Lost

\* Every step keeps it.
LEMMA NextLost ==
  ASSUME ~Reuses, ~Invents
  PROVE  LInv /\ [Next]_vars => LInv'
<1> SUFFICES ASSUME LInv, [Next]_vars PROVE Led' /\ Lost'
  BY NextKnown DEF LInv
<1>1. CASE UNCHANGED vars
  BY <1>1, PhaseLoses DEF vars
<1>2. CASE StartMaintain \/ Fits \/ CannotFit \/ End \/ MergeFails
  BY <1>2, PhaseLoses DEF StartMaintain, Fits, CannotFit, End, MergeFails
<1> QED
  BY <1>1, <1>2, RecordLoses, AnswerLoses, RequestLoses, MergeLoses DEF Next, Maintain

\* A positive answer is lost only if that of a later call came before it.
THEOREM LossIsOvertaking ==
  ASSUME ~Reuses, ~Invents
  PROVE  Spec => []LostOnlyToOvertaking
<1>1. LInv /\ [Next]_vars => LInv'
  BY NextLost
<1>2. LInv => LostOnlyToOvertaking
  <2> SUFFICES ASSUME LInv, NEW i \in DOMAIN affirmed
               PROVE  \/ calls[affirmed[i]].id \in ObservedIds
                      \/ \E j \in 1 .. i - 1 : affirmed[j] > affirmed[i]
    BY DEF LostOnlyToOvertaking
  <2>1. affirmed[i] \in Affirmed
    BY DEF Affirmed
  <2>2. affirmed[i] \in DOMAIN calls
    BY <2>1 DEF LInv, CInv, Known
  <2>3. calls[affirmed[i]].id = affirmed[i]
    BY <2>2 DEF LInv, CInv, Numbered
  <2> QED
    BY <2>1, <2>3 DEF LInv, Lost, Overtaken
<1> QED
  BY InitLost, <1>1, <1>2, PTL DEF Spec

-----------------------------------------------------------------------------
(***************************************************************************)
(* The range of a merged Observation: it is led by its first call          *)
(* (FirstIsOwn), and its end is the round of a call of its own (Ends).     *)
(***************************************************************************)
EndsAt(n, o) == calls[n].id \in o.ids /\ calls[n].round = o.end

Ends == \A o \in observations : \E n \in DOMAIN calls : EndsAt(n, o)

\* While calls keep their rounds and IDs, what ends an Observation still does.
LEMMA EndsKept ==
  ASSUME Ends, DOMAIN calls \subseteq DOMAIN calls',
         \A n \in DOMAIN calls : calls'[n].round = calls[n].round /\ calls'[n].id = calls[n].id,
         NEW o \in observations
  PROVE  \E n \in DOMAIN calls' : EndsAt(n, o)'
<1>1. PICK n \in DOMAIN calls : EndsAt(n, o)
  BY DEF Ends
<1>2. n \in DOMAIN calls' /\ EndsAt(n, o)'
  BY <1>1 DEF EndsAt
<1> QED
  BY <1>2

\* An Observation ends with the round of its call, a merged one with the end of
\* the second of its pair.
LEMMA NextEnds ==
  ASSUME ~Reuses, ~Invents
  PROVE  CInv /\ Ends /\ [Next]_vars => Ends'
<1> SUFFICES ASSUME CInv, Ends, [Next]_vars PROVE Ends'
  OBVIOUS
<1> USE DEF CInv
<1>1. CASE UNCHANGED <<calls, observations>>
  BY <1>1 DEF Ends, EndsAt
<1>2. ASSUME NEW size \in 1 .. MaxBatch, NEW batch \in [1 .. size -> Drafts],
             NEW ids \in [1 .. size -> Id], NEW round \in Round,
             RecordToolRound(batch, round, ids)
      PROVE  Ends'
  <2>3. DOMAIN calls \subseteq DOMAIN calls' /\ \A n \in DOMAIN calls : calls'[n] = calls[n]
    BY <1>2, RecordAppends
  <2>4. observations' = observations
    BY <1>2 DEF RecordToolRound
  <2> QED
    BY <2>3, <2>4, EndsKept DEF Ends
<1>3. ASSUME NEW n \in DOMAIN calls, AnswerTo(n) PROVE Ends'
  <2>1. PICK ending \in Outcome : Settle(n, ending)
    BY <1>3 DEF AnswerTo, Observe, ObserveInvalid, ObserveProviderError, ObserveCancelled,
                Outcome
  <2>2. /\ DOMAIN calls' = DOMAIN calls
        /\ \A m \in DOMAIN calls :
             calls'[m].round = calls[m].round /\ calls'[m].id = calls[m].id
    BY <2>1, SettleTypeOK DEF TypeOK
  <2>3. \A o \in observations : \E m \in DOMAIN calls' : EndsAt(m, o)'
    BY <2>2, EndsKept
  <2>4. CASE observations' = observations
    BY <2>3, <2>4 DEF Ends
  <2>5. ASSUME NEW reply \in Reply, Observe(n, reply), reply.impact PROVE Ends'
    <3>1. PICK new : new = [ids |-> reply.ids, start |-> calls[n].round, end |-> calls[n].round]
      OBVIOUS
    <3>2. calls[n].id \in new.ids /\ new.end = calls[n].round
      BY <2>5, <3>1 DEF Observe, Attributed
    <3>3. observations' = observations \union {new}
      BY <2>5, <3>1 DEF Observe
    <3>4. n \in DOMAIN calls' /\ EndsAt(n, new)'
      BY <2>2, <3>2 DEF EndsAt
    <3> QED
      BY <2>3, <3>3, <3>4 DEF Ends
  <2> QED
    BY <1>3, <2>4, <2>5
       DEF AnswerTo, Observe, ObserveInvalid, ObserveProviderError, ObserveCancelled
<1>4. ASSUME NEW reply \in Reply, MergeObservations(reply) PROVE Ends'
  <2>1. PICK merged : merged = Merged(reply)
    OBVIOUS
  <2>2. /\ merging[2] \in observations
        /\ merging[2].ids \subseteq merged.ids /\ merged.end = merging[2].end
    BY <1>4, <2>1 DEF MergeObservations, Known, Slice, Merged
  <2>3. observations' = (observations \ Slice) \union {merged} /\ calls' = calls
    BY <1>4, <2>1 DEF MergeObservations
  <2>4. PICK n \in DOMAIN calls : EndsAt(n, merging[2])
    BY <2>2 DEF Ends
  <2>5. n \in DOMAIN calls' /\ EndsAt(n, merged)'
    BY <2>2, <2>3, <2>4 DEF EndsAt
  <2>6. \A o \in observations : \E m \in DOMAIN calls' : EndsAt(m, o)'
    BY <2>3, EndsKept
  <2> QED
    BY <2>3, <2>5, <2>6 DEF Ends
<1>5. Next => \/ UNCHANGED <<calls, observations>>
              \/ \E n \in DOMAIN calls : AnswerTo(n)
              \/ \E reply \in Reply : MergeObservations(reply)
              \/ \E size \in 1 .. MaxBatch : \E batch \in [1 .. size -> Drafts],
                    ids \in [1 .. size -> Id], round \in Round : RecordToolRound(batch, round, ids)
  BY DEF Next, Maintain, StartMaintain, Fits, CannotFit, RequestMerge, MergeFails, End
<1> QED
  BY <1>1, <1>2, <1>3, <1>4, <1>5 DEF vars

\* The range of an Observation begins with its first call and ends with one of
\* its calls; it can miss later rounds only.
THEOREM RangeIsOfItsCalls ==
  ASSUME ~Reuses, ~Invents
  PROVE  Spec => []RangeBegins
<1>1. Init => Ends
  BY DEF Init, Ends
<1>2. LInv /\ [Next]_vars => LInv'
  BY NextLost
<1>3. LInv => CInv
  BY DEF LInv
<1>4. LInv /\ Ends => RangeBegins
  <2> SUFFICES ASSUME LInv, Ends, NEW o \in observations
               PROVE  LET own == {calls[n].round : n \in {m \in DOMAIN calls :
                                                            calls[m].id \in o.ids}} IN
                      /\ o.start \in own /\ o.end \in own
                      /\ \A r \in own : o.start <= r
    BY DEF RangeBegins
  <2> DEFINE first == FirstCall(o)
  <2>1. /\ first \in DOMAIN calls /\ first \in o.ids /\ calls[first].round = o.start
        /\ \A m \in o.ids : first <= m
    BY FirstIsOwn DEF LInv
  <2> HIDE DEF first
  <2>2. \A n \in DOMAIN calls : calls[n].id = n
    BY DEF LInv, CInv, Numbered
  <2>3. \A n \in DOMAIN calls : calls[n].id \in o.ids => o.start <= calls[n].round
    BY <2>1, <2>2 DEF LInv, CInv, RoundsGrow
  <2>4. \E n \in DOMAIN calls : calls[n].id \in o.ids /\ calls[n].round = o.start
    BY <2>1, <2>2
  <2>5. \E n \in DOMAIN calls : calls[n].id \in o.ids /\ calls[n].round = o.end
    BY DEF Ends, EndsAt
  <2> QED
    BY <2>3, <2>4, <2>5
<1> QED
  BY InitLost, NextEnds, <1>1, <1>2, <1>3, <1>4, PTL DEF Spec

-----------------------------------------------------------------------------
(***************************************************************************)
(* With IDs that may come again in a later round: what is observed, or is  *)
(* about to be merged, has an answered call of its ID (Answered).          *)
(***************************************************************************)
AnsweredIds == {calls[n].id : n \in {m \in DOMAIN calls : calls[m].outcome = "succeeded"}}

Answered ==
  /\ ObservedIds \subseteq AnsweredIds
  /\ phase = "merging" => merging[1].ids \union merging[2].ids \subseteq AnsweredIds

\* No step takes an answer back, and only an answer or a merge observes.
LEMMA NextAnswered ==
  ASSUME ~Invents
  PROVE  TypeOK /\ Answered /\ [Next]_vars => Answered'
<1> SUFFICES ASSUME TypeOK, Answered, [Next]_vars PROVE Answered'
  OBVIOUS
<1>1. CASE /\ UNCHANGED <<calls, observations>>
           /\ phase' = "merging" => phase = "merging" /\ merging' = merging
  BY <1>1 DEF Answered, ObservedIds, AnsweredIds
<1>2. ASSUME NEW size \in 1 .. MaxBatch, NEW batch \in [1 .. size -> Drafts],
             NEW ids \in [1 .. size -> Id], NEW round \in Round,
             RecordToolRound(batch, round, ids)
      PROVE  Answered'
  <2>3. DOMAIN calls \subseteq DOMAIN calls' /\ \A n \in DOMAIN calls : calls'[n] = calls[n]
    BY <1>2, RecordAppends
  <2>4. AnsweredIds \subseteq AnsweredIds'
    BY <2>3 DEF AnsweredIds
  <2>5. UNCHANGED <<observations, phase, merging>>
    BY <1>2 DEF RecordToolRound
  <2> QED
    BY <2>4, <2>5 DEF Answered, ObservedIds
<1>3. ASSUME NEW n \in DOMAIN calls, AnswerTo(n) PROVE Answered'
  <2>1. PICK ending \in Outcome : Settle(n, ending)
    BY <1>3 DEF AnswerTo, Observe, ObserveInvalid, ObserveProviderError, ObserveCancelled,
                Outcome
  <2>2. /\ DOMAIN calls' = DOMAIN calls
        /\ \A m \in DOMAIN calls :
             /\ calls'[m].id = calls[m].id
             /\ m # n => calls'[m].outcome = calls[m].outcome
    BY <2>1, SettleTypeOK DEF TypeOK
  <2>3. calls[n].outcome = "pending" /\ UNCHANGED <<phase, merging>>
    BY <1>3 DEF AnswerTo, Observe, ObserveInvalid, ObserveProviderError, ObserveCancelled,
                Answerable
  <2>4. AnsweredIds \subseteq AnsweredIds'
    BY <2>2, <2>3 DEF AnsweredIds
  <2>5. CASE observations' = observations
    BY <2>3, <2>4, <2>5 DEF Answered, ObservedIds
  <2>6. ASSUME NEW reply \in Reply, Observe(n, reply), reply.impact PROVE Answered'
    <3>1. PICK new : new = [ids |-> reply.ids, start |-> calls[n].round, end |-> calls[n].round]
      OBVIOUS
    <3>2. new.ids = {calls[n].id}
      BY <2>6, <3>1 DEF Observe, Attributed
    <3>3. observations' = observations \union {new} /\ Settle(n, "succeeded")
      BY <2>6, <3>1 DEF Observe
    <3>4. calls'[n].outcome = "succeeded"
      BY <3>3, SettleTypeOK DEF TypeOK, Outcome
    <3>5. calls[n].id \in AnsweredIds'
      BY <2>2, <3>4 DEF AnsweredIds
    <3>6. ObservedIds' = ObservedIds \union {calls[n].id}
      BY <3>2, <3>3 DEF ObservedIds
    <3> QED
      BY <2>3, <2>4, <3>5, <3>6 DEF Answered
  <2> QED
    BY <1>3, <2>5, <2>6
       DEF AnswerTo, Observe, ObserveInvalid, ObserveProviderError, ObserveCancelled
<1>4. CASE RequestMerge
  <2>1. PICK first, second \in observations : merging' = <<first, second>>
    BY <1>4 DEF RequestMerge
  <2>2. UNCHANGED <<calls, observations>>
    BY <1>4 DEF RequestMerge
  <2>3. first.ids \subseteq ObservedIds /\ second.ids \subseteq ObservedIds
    BY DEF ObservedIds
  <2>4. merging'[1] = first /\ merging'[2] = second
    BY <2>1
  <2>5. AnsweredIds' = AnsweredIds /\ ObservedIds' = ObservedIds
    BY <2>2 DEF AnsweredIds, ObservedIds
  <2> QED
    BY <2>3, <2>4, <2>5 DEF Answered
<1>5. ASSUME NEW reply \in Reply, MergeObservations(reply) PROVE Answered'
  <2>1. PICK merged : merged = Merged(reply)
    OBVIOUS
  <2>2. merged.ids \subseteq AnsweredIds
    BY <1>5, <2>1 DEF MergeObservations, Merged, Answered
  <2>3. /\ observations' = (observations \ Slice) \union {merged}
        /\ calls' = calls /\ phase' = "checking"
    BY <1>5, <2>1 DEF MergeObservations
  <2>4. ObservedIds' \subseteq ObservedIds \union merged.ids
    BY <2>3 DEF ObservedIds
  <2> QED
    BY <2>2, <2>3, <2>4 DEF Answered, AnsweredIds
<1>6. CASE StartMaintain \/ Fits \/ CannotFit \/ MergeFails \/ End
  BY <1>1, <1>6 DEF StartMaintain, Fits, CannotFit, MergeFails, End
<1>7. CASE UNCHANGED vars
  BY <1>1, <1>7 DEF vars
<1> QED
  BY <1>2, <1>3, <1>4, <1>5, <1>6, <1>7 DEF Next, Maintain

\* Whatever IDs the provider gives, a raw result stays as long as no call of its
\* ID has been answered.
THEOREM RawFallbackByIdHolds ==
  ASSUME ~Invents
  PROVE  Spec => []RawFallbackById
<1>1. Init => Answered
  BY DEF Init, Answered, ObservedIds
<1>2. Answered => RawFallbackById
  <2> SUFFICES ASSUME Answered, NEW n \in DOMAIN calls, calls[n].kind = "observation",
                      \A m \in DOMAIN calls :
                        calls[m].id = calls[n].id => calls[m].outcome # "succeeded"
               PROVE  Visible(n)
    BY DEF RawFallbackById
  <2>1. calls[n].id \notin AnsweredIds
    BY DEF AnsweredIds
  <2>2. calls[n].id \notin ObservedIds /\ calls[n].id \notin NegativeIds
    BY <2>1 DEF Answered, AnsweredIds, NegativeIds
  <2> QED
    BY <2>2 DEF Visible
<1> QED
  BY InitTypeOK, NextTypeOK, NextAnswered, <1>1, <1>2, PTL DEF Spec

-----------------------------------------------------------------------------
(***************************************************************************)
(* The policy inside a Plan step: its rounds are those the Executor has    *)
(* paid for (Paid), and nothing of a batch with a failed call is observed  *)
(* (Clean).                                                                *)
(***************************************************************************)
Paid == rounds \in Nat /\ (at = "tools" => rounds \in 1 .. MaxRounds)

Clean ==
  /\ suppresses
  /\ \A m, n \in DOMAIN calls :
       calls[m].round = calls[n].round /\ calls[n].outcome # "none" => ~calls[m].failed

\* Before the step no round has been paid and no batch recorded.
LEMMA InitStep == SInit => Init /\ Paid /\ Clean
  BY DEF SInit, Init, EInit, Paid, Clean

\* A batch runs only in a round the budget has room for.
LEMMA NextPaid == Paid /\ [SNext]_svars => Paid'
<1> USE RoundsAssumption DEF Paid
<1> SUFFICES ASSUME Paid, [SNext]_svars PROVE Paid'
  OBVIOUS
<1>1. CASE UNCHANGED <<at, rounds>>
  BY <1>1
<1>2. CASE Enter \/ Begin \/ Opening \/ Return
  BY <1>2 DEF Enter, Begin, Opening, Open, OpenToolless, OpenFails, Return, Raise, EndWith
<1>3. CASE Judging
  BY <1>3 DEF Judging, JudgeFails, Judge, Repair, Decide, Reject, EndWith
<1>4. CASE ToolCalls
  BY <1>4 DEF ToolCalls, CallEnds, BatchFails
<1>5. ASSUME NEW chosen, CallTools(chosen) PROVE Paid'
  BY <1>5 DEF CallTools
<1>6. CASE CallToolsExhausted \/ RespondEmpty \/ Propose \/ ProviderFails
  BY <1>6 DEF CallToolsExhausted, RespondEmpty, Propose, ProviderFails, Reject, Raise, EndWith
<1>7. CASE SettleBatch \/ Maintained \/ MaintainFails
  BY <1>7 DEF SettleBatch, Maintained, MaintainFails, Raise, EndWith
<1>8. SNext => \/ UNCHANGED evars
               \/ Enter \/ Begin \/ Opening \/ Return \/ Judging \/ ToolCalls
               \/ \E chosen : CallTools(chosen)
               \/ CallToolsExhausted \/ RespondEmpty \/ Propose \/ ProviderFails
               \/ SettleBatch \/ Maintained \/ MaintainFails
  BY DEF SNext, Foreground, Background, Alone, Control, RecordBatch, AwaitContext, Merging,
         UseContext, GiveUpContext, StepOver
<1> QED
  BY <1>1, <1>2, <1>3, <1>4, <1>5, <1>6, <1>7, <1>8 DEF svars, evars

\* Every step of the composition is one of the policy, or leaves it alone.
LEMMA StepOfPolicy == Paid /\ [SNext]_svars => [Next]_vars
<1> SUFFICES ASSUME Paid, [SNext]_svars PROVE [Next]_vars
  OBVIOUS
<1>1. CASE UNCHANGED vars
  BY <1>1
<1>2. CASE RecordBatch
  <2>1. PICK size \in 1 .. MaxBatch : \E batch \in [1 .. size -> Drafts], ids \in [1 .. size -> Id] :
               RecordToolRound(batch, rounds, ids)
    BY <1>2 DEF RecordBatch
  <2>2. PICK batch \in [1 .. size -> Drafts], ids \in [1 .. size -> Id] :
               RecordToolRound(batch, rounds, ids)
    BY <2>1
  <2>3. rounds \in Round
    <3>1. at = "tools"
      BY <1>2 DEF RecordBatch, SettleBatch
    <3>2. MaxRounds <= LastRound /\ MaxRounds \in Nat /\ LastRound \in Nat
      BY StepRoundsAssumption, RoundsAssumption, BoundAssumption
    <3> QED
      BY <3>1, <3>2 DEF Paid, Round
  <2> QED
    BY <2>2, <2>3 DEF Next
<1>3. CASE AwaitContext \/ Merging \/ UseContext \/ GiveUpContext \/ StepOver
  BY <1>3 DEF AwaitContext, Merging, UseContext, GiveUpContext, StepOver, Next, Maintain
<1>4. CASE Background
  BY <1>4 DEF Background, Next
<1>5. CASE Alone(Control)
  BY <1>5 DEF Alone
<1> QED
  BY <1>1, <1>2, <1>3, <1>4, <1>5 DEF SNext, Foreground, svars

\* A batch with a failed call is not observed, and no later batch has its round.
LEMMA NextClean == TypeOK /\ Clean /\ [Next]_vars => Clean'
<1> SUFFICES ASSUME TypeOK, Clean, [Next]_vars PROVE Clean'
  OBVIOUS
<1>1. CASE UNCHANGED <<calls, suppresses>>
  BY <1>1 DEF Clean
<1>2. ASSUME NEW n \in DOMAIN calls, AnswerTo(n) PROVE Clean'
  <2>1. PICK ending \in Outcome : Settle(n, ending)
    BY <1>2 DEF AnswerTo, Observe, ObserveInvalid, ObserveProviderError, ObserveCancelled,
                Outcome
  <2>2. calls[n].outcome = "pending" /\ UNCHANGED suppresses
    BY <1>2 DEF AnswerTo, Observe, ObserveInvalid, ObserveProviderError, ObserveCancelled,
                Answerable
  <2>3. /\ DOMAIN calls' = DOMAIN calls
        /\ \A m \in DOMAIN calls :
             /\ calls'[m].round = calls[m].round
             /\ calls'[m].failed = calls[m].failed
             /\ calls'[m].outcome # "none" => calls[m].outcome # "none"
    <3>1. /\ DOMAIN calls' = DOMAIN calls
          /\ \A m \in DOMAIN calls :
               /\ calls'[m].round = calls[m].round
               /\ calls'[m].outcome = IF m = n THEN ending ELSE calls[m].outcome
      BY <2>1, SettleTypeOK DEF TypeOK
    <3>2. \A m \in DOMAIN calls : calls'[m].failed = calls[m].failed
      <4> SUFFICES ASSUME NEW m \in DOMAIN calls PROVE calls'[m].failed = calls[m].failed
        OBVIOUS
      <4>1. calls[m] \in Call /\ calls[n] \in Call
        BY DEF TypeOK
      <4> QED
        BY <2>1, <4>1 DEF Settle, Call
    <3> QED
      BY <2>2, <3>1, <3>2
  <2> QED
    BY <2>2, <2>3 DEF Clean
<1>3. ASSUME NEW size \in 1 .. MaxBatch, NEW batch \in [1 .. size -> Drafts],
             NEW ids \in [1 .. size -> Id], NEW round \in Round,
             RecordToolRound(batch, round, ids)
      PROVE  Clean'
  <2> DEFINE old == DOMAIN calls
             new == Len(calls) + 1 .. Len(calls')
             suppress == \E i \in DOMAIN batch : batch[i].failed
  <2>1. /\ Len(calls) \in Nat /\ Len(calls') = Len(calls) + size /\ size \in Nat
        /\ DOMAIN calls = 1 .. Len(calls) /\ DOMAIN calls' = 1 .. Len(calls')
        /\ \A n \in old : calls'[n] = calls[n]
        /\ \A n \in new : calls'[n].round = round
    <3>1. calls \in Seq(Call) /\ size \in Nat
      BY BoundAssumption DEF TypeOK
    <3>2. /\ calls' \in Seq(Call) /\ Len(calls') = Len(calls) + size
          /\ \A n \in 1 .. Len(calls) : calls'[n] = calls[n]
          /\ \A n \in Len(calls) + 1 .. Len(calls') : calls'[n].round = round
      BY <1>3, RecordTypeOK
    <3> QED
      BY <3>1, <3>2
  <2>2. \A n \in old : calls[n].round # round
    <3>1. \A n \in old : calls[n].round \in Nat /\ calls[n].round < round
      <4>1. \A n \in DOMAIN calls : calls[n] \in Call
        BY DEF TypeOK
      <4> QED
        BY <1>3, <4>1 DEF RecordToolRound, Recorded, Call, Round
    <3> QED
      BY <3>1
  <2>3. ASSUME NEW m \in new, NEW n \in new, calls'[n].outcome # "none"
        PROVE  ~calls'[m].failed
    <3> DEFINE out(i) == IF Observable(batch[i], suppress) THEN "pending" ELSE "none"
               tail == [i \in 1 .. size |->
                          [round |-> round, id |-> ids[i], kind |-> batch[i].kind,
                           failed |-> batch[i].failed, outcome |-> out(i)]]
    <3>0. suppress => \A i \in 1 .. size : out(i) = "none"
      BY DEF Observable
    <3>1. calls' = calls \o tail
      BY <1>3 DEF RecordToolRound, Clean
    <3> HIDE DEF suppress, out
    <3>2. \A i \in 1 .. size : /\ calls'[Len(calls) + i].failed = batch[i].failed
                              /\ calls'[Len(calls) + i].outcome = out(i)
      <4>1. \A i \in 1 .. size : calls'[Len(calls) + i] = tail[i]
        BY <2>1, <3>1
      <4>2. \A i \in 1 .. size : tail[i].failed = batch[i].failed /\ tail[i].outcome = out(i)
        OBVIOUS
      <4> QED
        BY <4>1, <4>2
    <3>3. /\ m - Len(calls) \in 1 .. size /\ n - Len(calls) \in 1 .. size
          /\ Len(calls) + (m - Len(calls)) = m /\ Len(calls) + (n - Len(calls)) = n
      BY <2>1
    <3>4. ~suppress
      BY <2>3, <3>0, <3>2, <3>3
    <3>5. ~batch[m - Len(calls)].failed
      BY <3>3, <3>4 DEF suppress
    <3>6. calls'[m].failed = batch[m - Len(calls)].failed
      BY <3>2, <3>3
    <3> QED
      BY <3>5, <3>6
  <2>4. \A n \in DOMAIN calls' : n \in old \/ n \in new
    BY <2>1
  <2>5. suppresses' = suppresses
    BY <1>3 DEF RecordToolRound
  <2> QED
    BY <2>1, <2>2, <2>3, <2>4, <2>5 DEF Clean
<1>4. Next => \/ UNCHANGED <<calls, suppresses>>
              \/ \E n \in DOMAIN calls : AnswerTo(n)
              \/ \E size \in 1 .. MaxBatch : \E batch \in [1 .. size -> Drafts],
                    ids \in [1 .. size -> Id], round \in Round : RecordToolRound(batch, round, ids)
  BY DEF Next, Maintain, StartMaintain, Fits, CannotFit, RequestMerge, MergeFails,
         MergeObservations, End
<1> QED
  BY <1>1, <1>2, <1>3, <1>4 DEF vars

\* What happens to the policy of a step is a behaviour of the policy, so all
\* that is proved of RuntimeContext holds inside a step.
THEOREM StepKeepsPolicy == SSpec => Spec
<1>1. SInit => Init /\ Paid
  BY InitStep
<1> QED
  BY <1>1, NextPaid, StepOfPolicy, PTL DEF SSpec, Spec

\* Nothing of a batch with a failed call is ever an Observation.
LEMMA CleanEvidence == CInv /\ Clean => NoEvidenceOfFailure
<1> SUFFICES ASSUME CInv, Clean, NEW n \in DOMAIN calls, calls[n].id \in ObservedIds,
                    NEW m \in DOMAIN calls, calls[m].round = calls[n].round
             PROVE  ~calls[m].failed
  BY DEF NoEvidenceOfFailure
<1>1. calls[n].outcome = "succeeded"
  BY DEF CInv, Known, Numbered
<1> QED
  BY <1>1 DEF Clean

\* A failed call of the newest batch is not observed, and so it is shown.
LEMMA CleanErrors == CInv /\ Clean => ErrorsReachModel
<1> SUFFICES ASSUME CInv, Clean, NEW n \in DOMAIN calls, Newest(n), calls[n].failed
             PROVE  Visible(n)
  BY DEF ErrorsReachModel
<1>1. calls[n].id \notin ObservedIds
  BY CleanEvidence DEF NoEvidenceOfFailure
<1>2. calls[n] \in Call
  BY DEF CInv, TypeOK
<1> QED
  BY <1>1, <1>2, NewestInWindow DEF Visible, Call, Lifecycle

\* In a step Clean joins the policy's invariant.
LEMMA CleanStep ==
  ASSUME ~Reuses, ~Invents
  PROVE  SSpec => [](CInv /\ Clean)
<1>1. CInv /\ [Next]_vars => CInv'
  BY NextKnown
<1>2. SInit => CInv /\ Paid /\ Clean
  BY InitStep, InitKnown
<1>3. CInv => TypeOK
  BY DEF CInv
<1> QED
  BY <1>1, <1>2, <1>3, NextPaid, StepOfPolicy, NextClean, PTL DEF SSpec

\* The model of a step is shown every error of the newest batch.
THEOREM ErrorsAreShown ==
  ASSUME ~Reuses, ~Invents
  PROVE  SSpec => []ErrorsReachModel
  BY CleanStep, CleanErrors, PTL

\* No Observation that the judge counts comes from a batch with a failed call.
THEOREM FailureIsNoEvidence ==
  ASSUME ~Reuses, ~Invents
  PROVE  SSpec => []NoEvidenceOfFailure
  BY CleanStep, CleanEvidence, PTL
===============================================================================
