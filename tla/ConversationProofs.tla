-------------------------- MODULE ConversationProofs -------------------------
(***************************************************************************)
(* What holds of a conversation for every number of calls, services and    *)
(* faults: its types, the order in which a turn, its call and its Agent    *)
(* run come about, the agreement of a turn with its run; and one active    *)
(* turn at most where the turns are plan_execute turns and nobody calls    *)
(* resume.                                                                 *)
(***************************************************************************)
EXTENDS Conversation, FiniteSetTheorems, SequenceTheorems, TLAPS

Party == Caller \union Resumer

Early == {"new", "asking", "reconciling", "reconciled", "ready"}
Own   == {"pending", "working", "executing", "answered", "cancelled"}
About == {"asking", "reconciling", "resuming", "executing", "answered", "cancelled"}

\* TypeOK without the bounds that follow from the other parts.
Types ==
  /\ turns \in Seq(Turn)
  /\ live \in [Service -> SUBSET Caller]
  /\ pc \in [Party -> Location]
  /\ sequence \in [Party -> Nat]
  /\ answer \in [Party -> Result]
  /\ runs \in [Caller -> {"absent", "open"} \union Ended]
  /\ holder \in [Caller -> Party \union {"none", "crashed"}]
  /\ faults \in 0 .. MaxFaults

\* A run ID is used once, by a call that has appended.
Runs ==
  /\ \A m, n \in DOMAIN turns : turns[m].run = turns[n].run => m = n
  /\ \A c \in Caller : pc[c] \in Early => \A n \in DOMAIN turns : turns[n].run # c
  /\ \A c \in Caller : runs[c] # "absent" => \E n \in DOMAIN turns : turns[n].run = c
  /\ \A c \in Caller : pc[c] \in {"pending", "working"} => runs[c] = "absent"

\* The turn a call or a resume is about.
Subjects ==
  /\ \A c \in Party : sequence[c] <= Len(turns) + 1
  /\ \A c \in Party : pc[c] \in About => sequence[c] \in DOMAIN turns
  /\ \A c \in Caller : pc[c] \in Own
       => sequence[c] \in DOMAIN turns /\ turns[sequence[c]].run = c
  /\ \A c \in Resumer : pc[c] \in {"new", "resuming", "executing", "answered"}

\* Whoever executes a run holds it, and it is open.
Execution ==
  \A c \in Party : pc[c] = "executing"
    => runs[RunOf(c)] = "open" /\ holder[RunOf(c)] = c

\* An ended status that is about to be written is that of the run.
Answers ==
  \A c \in Party :
    /\ pc[c] \in {"reconciling", "answered", "cancelled"}
    /\ answer[c].status \in Ended
    /\ ModeOf(c) = "plan_execute"
    => runs[RunOf(c)] = answer[c].status

CInv == Types /\ Runs /\ Subjects /\ Execution /\ Answers /\ OutcomeFollowsRun

Unattended == Modes = {"plan_execute"} /\ Resumer = {}

\* What the calls write into turns, when all they meet are plan_execute turns.
Exclusive ==
  /\ \A c \in Caller : pc[c] = "reconciling" => answer[c].status \in Ended
  /\ \A c \in Caller : pc[c] \in {"answered", "cancelled"} => answer[c].status \notin Active
  /\ \A c \in Caller : pc[c] = "pending" => IsActive(sequence[c])
  /\ OneActiveTurn

\* A turn of the table is a row with a call, a mode and a result.
LEMMA TurnAt ==
  ASSUME Types, NEW n \in DOMAIN turns
  PROVE  /\ n \in 1 .. Len(turns)
         /\ turns[n] \in Turn /\ turns[n].run \in Caller /\ turns[n].mode \in Modes
         /\ turns[n].result \in Result
<1>1. turns \in Seq(Turn) /\ n \in 1 .. Len(turns)
  BY DEF Types
<1>2. turns[n] \in Turn
  BY <1>1, ElementOfSeq
<1> QED BY <1>1, <1>2 DEF Turn

\* The run of a call without a turn was never created.
LEMMA Unstarted ==
  ASSUME CInv, NEW c \in Caller, \A n \in DOMAIN turns : turns[n].run # c
  PROVE  runs[c] = "absent"
BY DEF CInv, Runs

\* Neither the run nor the mode of a turn ever changes.
SameTurns ==
  /\ turns' \in Seq(Turn)
  /\ Len(turns') = Len(turns)
  /\ DOMAIN turns' = DOMAIN turns
  /\ \A n \in DOMAIN turns : turns'[n].run = turns[n].run /\ turns'[n].mode = turns[n].mode

\* Setting the result of one turn.
Set(n, result) ==
  \A m \in DOMAIN turns : turns'[m].result = IF m = n THEN result ELSE turns[m].result

\* update() changes the result of the addressed row and nothing else.
LEMMA Setting ==
  ASSUME Types, NEW n \in DOMAIN turns, NEW result \in Result,
         turns' = [turns EXCEPT ![n].result = result]
  PROVE  SameTurns /\ Set(n, result)
<1> DEFINE row == [turns[n] EXCEPT !.result = result]
<1>1. row \in Turn /\ row.run = turns[n].run /\ row.mode = turns[n].mode /\ row.result = result
  BY TurnAt DEF Turn
<1>2. turns' = [turns EXCEPT ![n] = row] /\ turns \in Seq(Turn) /\ n \in 1 .. Len(turns)
  BY TurnAt DEF Types
<1> HIDE DEF row
<1>3. turns' \in Seq(Turn) /\ Len(turns') = Len(turns) /\ DOMAIN turns' = DOMAIN turns
      /\ \A m \in DOMAIN turns : turns'[m] = IF m = n THEN row ELSE turns[m]
  BY <1>1, <1>2, ExceptSeq
<1> QED BY <1>1, <1>3 DEF SameTurns, Set

\* A call that writes, or is refused because nothing changes, leaves its answer.
LEMMA Writing ==
  ASSUME Types, NEW c \in Party, sequence[c] \in DOMAIN turns,
         Write(c) \/ (Refused(c) /\ UNCHANGED turns)
  PROVE  SameTurns /\ Set(sequence[c], answer[c])
<1>1. turns \in Seq(Turn) /\ answer[c] \in Result
  BY DEF Types
<1>2. CASE Write(c)
  BY <1>1, <1>2, Setting DEF Write
<1>3. CASE Refused(c) /\ UNCHANGED turns
  BY <1>1, <1>3 DEF Refused, SameTurns, Set
<1> QED BY <1>2, <1>3

\* The new turn is the last, and the others stay.
Appended(c) ==
  /\ turns' \in Seq(Turn)
  /\ Len(turns') = Len(turns) + 1
  /\ DOMAIN turns' = DOMAIN turns \union {Len(turns) + 1}
  /\ \A n \in DOMAIN turns : turns'[n] = turns[n]
  /\ turns'[Len(turns) + 1].run = c
  /\ turns'[Len(turns) + 1].result = Res("pending", "none")

\* append() adds a pending row at the end.
LEMMA Appending ==
  ASSUME Types, NEW c \in Caller, NEW mode \in Modes,
         turns' = Append(turns, [run |-> c, mode |-> mode, result |-> Res("pending", "none")])
  PROVE  Appended(c)
<1>1. turns \in Seq(Turn)
  BY DEF Types
<1>2. [run |-> c, mode |-> mode, result |-> Res("pending", "none")] \in Turn
  BY DEF Turn, Result, Res, Active, Text
<1> QED BY <1>1, <1>2 DEF Appended

\* A call appends, or is refused and starts again.
Refusal(c) == Leave(c, "new") /\ UNCHANGED <<turns, live, runs, holder, faults>>

Acceptance(c) ==
  /\ Appended(c)
  /\ sequence[c] = Len(turns) + 1
  /\ ~Busy
  /\ Go(c, "pending")
  /\ UNCHANGED <<sequence, answer, live, runs, holder, faults>>

LEMMA AppendCases ==
  ASSUME Types, NEW c \in Caller, AppendTurn(c)
  PROVE  Refusal(c) \/ Acceptance(c)
BY Appending DEF AppendTurn, Refusal, Acceptance

\* A call that had no turn has one after it appended, and so has every other.
LEMMA AppendedOnce ==
  ASSUME NEW c \in Caller, Appended(c), Runs, \A n \in DOMAIN turns : turns[n].run # c
  PROVE  \A m, n \in DOMAIN turns' : turns'[m].run = turns'[n].run => m = n
BY DEF Appended, Runs

\* Every step keeps the types: rows, notes, places, answers and statuses.
LEMMA TypesKept ==
  ASSUME CInv, [Next]_vars
  PROVE  Types'
<1> USE DEF CInv, Types, Subjects, Early, Own, About
<1> USE CallAssumption, NameAssumption, ServiceAssumption, ModesAssumption,
  MaxFaultsAssumption
<1> USE DEF Go, Leave, Fault, Forget, Released, Abandoned, Free, Refused, Res,
  NoAnswer, DurableAnswer, ModeOf, RunOf, Active, Ended, Text, Result, Turn, Location,
  Party, IsActive, IsFirstActive, Busy, vars
<1>1. ASSUME NEW c \in Caller, Create(c) PROVE Types'
  BY <1>1 DEF Create
<1>2. ASSUME NEW c \in Caller, GetIdle(c) PROVE Types'
  BY <1>2 DEF GetIdle
<1>3. ASSUME NEW c \in Caller, GetEphemeral(c) PROVE Types'
  <2>1. CASE Go(c, "reconciled") /\ UNCHANGED <<turns, live, sequence, answer, runs, holder, faults>>
    BY <1>3, <2>1 DEF GetEphemeral
  <2>2. ASSUME NEW n \in DOMAIN turns,
               sequence' = [sequence EXCEPT ![c] = n],
               answer' = [answer EXCEPT ![c] = Res("failed", "unrecovered")],
               Go(c, "reconciling"), UNCHANGED <<turns, live, runs, holder, faults>>
        PROVE  Types'
    BY <1>3, <2>2 DEF GetEphemeral
  <2> QED BY <1>3, <2>1, <2>2 DEF GetEphemeral
<1>4. ASSUME NEW c \in Caller, GetPlan(c) PROVE Types'
  BY <1>4 DEF GetPlan
<1>5. ASSUME NEW c \in Caller, AskRun(c) PROVE Types'
  <2>1. CASE \E place \in {"new", "reconciled"} : Leave(c, place)
    BY <1>5, <2>1 DEF AskRun
  <2>2. ASSUME NEW status \in Ended, status = runs[RunOf(c)],
               answer' = [answer EXCEPT ![c] = Res(status, "none")],
               Go(c, "reconciling"), UNCHANGED sequence
        PROVE  Types'
    BY <1>5, <2>2 DEF AskRun
  <2> QED BY <1>5, <2>1, <2>2 DEF AskRun
<1>6. ASSUME NEW c \in Caller, Reconcile(c) PROVE Types'
  <2>1. sequence[c] \in DOMAIN turns /\ pc[c] = "reconciling"
    BY <1>6 DEF Reconcile
  <2>2. SameTurns /\ Set(sequence[c], answer[c])
    BY <1>6, <2>1, Writing DEF Reconcile
  <2>3. UNCHANGED <<live, runs, holder, faults>>
    BY <1>6 DEF Reconcile
  <2> PICK place \in {"new", "reconciled"} : Leave(c, place)
    BY <1>6 DEF Reconcile
  <2> QED BY <2>2, <2>3 DEF SameTurns
<1>7. ASSUME NEW c \in Caller, ReadHistory(c) PROVE Types'
  <2>1. CASE Go(c, "new") /\ UNCHANGED sequence
    BY <1>7, <2>1 DEF ReadHistory
  <2>2. CASE Go(c, "ready") /\ sequence' = [sequence EXCEPT ![c] = Len(turns) + 1]
    BY <1>7, <2>2 DEF ReadHistory
  <2> QED BY <1>7, <2>1, <2>2 DEF ReadHistory
<1>8. ASSUME NEW c \in Caller, AppendTurn(c) PROVE Types'
  <2>1. CASE Refusal(c)
    BY <1>8, <2>1 DEF AppendTurn, Refusal
  <2>2. CASE Acceptance(c)
    BY <1>8, <2>2 DEF AppendTurn, Appended, Acceptance
  <2> QED BY <1>8, <2>1, <2>2, AppendCases
<1>9. ASSUME NEW c \in Caller, BeginTurn(c) PROVE Types'
  <2>1. sequence[c] \in DOMAIN turns /\ Res("running", "none") \in Result
    BY <1>9 DEF BeginTurn
  <2>2. turns' = [turns EXCEPT ![sequence[c]].result = Res("running", "none")]
    BY <1>9 DEF BeginTurn
  <2>3. turns' \in Seq(Turn)
    <3> HIDE DEF Res, Result, Types, Turn
    <3> QED BY <2>1, <2>2, Setting DEF SameTurns, CInv
  <2>4. live' \in [Service -> SUBSET Caller]
    BY <1>9 DEF BeginTurn
  <2> QED BY <1>9, <2>3, <2>4 DEF BeginTurn
<1>10. ASSUME NEW c \in Caller, AnswerEphemeral(c) PROVE Types'
  BY <1>10 DEF AnswerEphemeral
<1>11. ASSUME NEW c \in Caller, StartRun(c) PROVE Types'
  BY <1>11 DEF StartRun
<1>12. ASSUME NEW c \in Caller, AgentResume(c) PROVE Types'
  BY <1>12 DEF AgentResume
<1>13. ASSUME NEW c \in Caller, RaiseOutside(c) PROVE Types'
  BY <1>13 DEF RaiseOutside
<1>14. ASSUME NEW c \in Caller, Cancel(c) PROVE Types'
  BY <1>14 DEF Cancel
<1>15. ASSUME NEW c \in Resumer, GetActive(c) PROVE Types'
  BY <1>15 DEF GetActive
<1>16. ASSUME NEW c \in Resumer, ResumeEnded(c) PROVE Types'
  BY <1>16 DEF ResumeEnded
<1>17. ASSUME NEW c \in Resumer, ResumeFailed(c) PROVE Types'
  BY <1>17 DEF ResumeFailed
<1>18. ASSUME NEW c \in Resumer, ResumeRun(c) PROVE Types'
  BY <1>18 DEF ResumeRun
<1>19. ASSUME NEW c \in Resumer, CancelResume(c) PROVE Types'
  BY <1>19 DEF CancelResume
<1>20. ASSUME NEW c \in Resumer, CrashResume(c) PROVE Types'
  BY <1>20 DEF CrashResume
<1>21. ASSUME NEW c \in Party, FinishRun(c) PROVE Types'
  <2> PICK status \in Ended : /\ runs' = [runs EXCEPT ![RunOf(c)] = status]
                             /\ answer' = [answer EXCEPT ![c] = DurableAnswer(status)]
    BY <1>21 DEF FinishRun
  <2>1. DurableAnswer(status) \in Result
    OBVIOUS
  <2> HIDE DEF DurableAnswer
  <2> QED BY <1>21, <2>1, TurnAt DEF FinishRun
<1>22. ASSUME NEW c \in Party, Record(c) PROVE Types'
  <2>1. sequence[c] \in DOMAIN turns /\ pc[c] \in {"answered", "cancelled"}
    BY <1>22 DEF Record
  <2>2. SameTurns /\ Set(sequence[c], answer[c])
    BY <1>22, <2>1, Writing DEF Record
  <2>3. UNCHANGED <<runs, holder, faults>>
    BY <1>22 DEF Record
  <2> PICK place \in {"new", "done"} : Leave(c, place) /\ (c \in Caller <=> place = "done")
    BY <1>22 DEF Record
  <2>4. live' \in [Service -> SUBSET Caller]
    <3>1. CASE c \in Caller
      <4>1. live' = [live EXCEPT ![ServiceOf[c]] = live[ServiceOf[c]] \ {c}]
        BY <1>22, <3>1 DEF Record
      <4> QED BY <3>1, <4>1
    <3>2. CASE c \notin Caller
      BY <1>22, <3>2 DEF Record
    <3> QED BY <3>1, <3>2
  <2> QED BY <2>2, <2>3, <2>4 DEF SameTurns
<1>23. ASSUME NEW c \in Party, RaiseRun(c) PROVE Types'
  BY <1>23 DEF RaiseRun
<1>24. ASSUME NEW c \in Service, Crash(c) PROVE Types'
  BY <1>24 DEF Crash
<1>25. CASE UNCHANGED vars
  BY <1>25
<1> QED
  BY <1>1, <1>2, <1>3, <1>4, <1>5, <1>6, <1>7, <1>8, <1>9, <1>10, <1>11, <1>12, <1>13,
    <1>14, <1>15, <1>16, <1>17, <1>18, <1>19, <1>20, <1>21, <1>22, <1>23, <1>24, <1>25
    DEF Next, CallStep, ResumeStep

\* Every step keeps run IDs unique: a call appends once, and its run starts after.
LEMMA RunsKept ==
  ASSUME CInv, [Next]_vars
  PROVE  Runs'
<1> USE DEF CInv, Types, Runs, Subjects, Execution, Early, Own, About
<1> USE CallAssumption, NameAssumption, ServiceAssumption, ModesAssumption,
  MaxFaultsAssumption
<1> USE DEF Go, Leave, Fault, Forget, Released, Abandoned, Free, Refused, Res,
  NoAnswer, DurableAnswer, ModeOf, RunOf, Active, Ended, Text, Result, Turn, Location,
  Party, IsActive, IsFirstActive, Busy, vars
<1>1. ASSUME NEW c \in Caller, Create(c) PROVE Runs'
  BY <1>1 DEF Create
<1>2. ASSUME NEW c \in Caller, GetIdle(c) PROVE Runs'
  BY <1>2 DEF GetIdle
<1>3. ASSUME NEW c \in Caller, GetEphemeral(c) PROVE Runs'
  <2>1. CASE Go(c, "reconciled") /\ UNCHANGED <<turns, live, sequence, answer, runs, holder, faults>>
    BY <1>3, <2>1 DEF GetEphemeral
  <2>2. ASSUME NEW n \in DOMAIN turns,
               sequence' = [sequence EXCEPT ![c] = n],
               answer' = [answer EXCEPT ![c] = Res("failed", "unrecovered")],
               Go(c, "reconciling"), UNCHANGED <<turns, live, runs, holder, faults>>
        PROVE  Runs'
    BY <1>3, <2>2 DEF GetEphemeral
  <2> QED BY <1>3, <2>1, <2>2 DEF GetEphemeral
<1>4. ASSUME NEW c \in Caller, GetPlan(c) PROVE Runs'
  BY <1>4 DEF GetPlan
<1>5. ASSUME NEW c \in Caller, AskRun(c) PROVE Runs'
  <2>1. CASE \E place \in {"new", "reconciled"} : Leave(c, place)
    BY <1>5, <2>1 DEF AskRun
  <2>2. ASSUME NEW status \in Ended, status = runs[RunOf(c)],
               answer' = [answer EXCEPT ![c] = Res(status, "none")],
               Go(c, "reconciling"), UNCHANGED sequence
        PROVE  Runs'
    BY <1>5, <2>2 DEF AskRun
  <2> QED BY <1>5, <2>1, <2>2 DEF AskRun
<1>6. ASSUME NEW c \in Caller, Reconcile(c) PROVE Runs'
  <2>1. sequence[c] \in DOMAIN turns /\ pc[c] = "reconciling"
    BY <1>6 DEF Reconcile
  <2>2. SameTurns /\ Set(sequence[c], answer[c])
    BY <1>6, <2>1, Writing DEF Reconcile
  <2>3. UNCHANGED <<live, runs, holder, faults>>
    BY <1>6 DEF Reconcile
  <2> PICK place \in {"new", "reconciled"} : Leave(c, place)
    BY <1>6 DEF Reconcile
  <2>4. \A d \in Party : d # c => pc'[d] = pc[d]
    OBVIOUS
  <2>5. c \in Caller => pc'[c] \in {"new", "reconciled"}
    OBVIOUS
  <2>6. \A n \in DOMAIN turns : turns'[n].run = turns[n].run
    BY <2>2 DEF SameTurns
  <2>7. DOMAIN turns' = DOMAIN turns
    BY <2>2 DEF SameTurns
  <2>8. \A d \in Caller : pc'[d] \in Early => \A n \in DOMAIN turns' : turns'[n].run # d
    <3> SUFFICES ASSUME NEW d \in Caller, pc'[d] \in Early, NEW n \in DOMAIN turns
                 PROVE  turns[n].run # d
      BY <2>6, <2>7
    <3>1. pc[d] \in Early
      BY <2>1, <2>4, <2>5
    <3> QED BY <3>1
  <2>9. \A d \in Caller : runs'[d] # "absent" => \E n \in DOMAIN turns' : turns'[n].run = d
    <3> TAKE d \in Caller
    <3> HAVE runs'[d] # "absent"
    <3>1. PICK n \in DOMAIN turns : turns[n].run = d
      BY <2>3
    <3> QED BY <2>6, <2>7, <3>1
  <2>10. \A d \in Caller : pc'[d] \in {"pending", "working"} => runs'[d] = "absent"
    BY <2>3, <2>4, <2>5
  <2> QED BY <2>6, <2>7, <2>8, <2>9, <2>10
<1>7. ASSUME NEW c \in Caller, ReadHistory(c) PROVE Runs'
  <2>1. CASE Go(c, "new") /\ UNCHANGED sequence
    BY <1>7, <2>1 DEF ReadHistory
  <2>2. CASE Go(c, "ready") /\ sequence' = [sequence EXCEPT ![c] = Len(turns) + 1]
    BY <1>7, <2>2 DEF ReadHistory
  <2> QED BY <1>7, <2>1, <2>2 DEF ReadHistory
<1>8. ASSUME NEW c \in Caller, AppendTurn(c) PROVE Runs'
  <2>1. CASE Refusal(c)
    BY <1>8, <2>1 DEF AppendTurn, Refusal
  <2>2. CASE Acceptance(c)
    <3>0. Appended(c) /\ Go(c, "pending") /\ UNCHANGED runs
      BY <2>2 DEF Acceptance
    <3>1. \A n \in DOMAIN turns : turns[n].run # c
      BY <1>8 DEF AppendTurn
    <3>2. runs[c] = "absent"
      <4> HIDE DEF CInv
      <4> QED BY <3>1, Unstarted
    <3>3. \A d \in Caller : d # c => pc'[d] = pc[d]
      BY <3>0
    <3>4. \A d \in Caller : pc'[d] \in Early => d # c /\ pc[d] \in Early
      BY <3>0, <3>3
    <3>5. \A m, n \in DOMAIN turns' : turns'[m].run = turns'[n].run => m = n
      <4>1. Runs
        BY DEF CInv
      <4> HIDE DEF CInv, Runs
      <4> QED BY <3>0, <3>1, <4>1, AppendedOnce
    <3>6. \A d \in Caller : runs'[d] # "absent" => \E n \in DOMAIN turns' : turns'[n].run = d
      <4> SUFFICES ASSUME NEW d \in Caller, runs[d] # "absent"
                   PROVE  \E n \in DOMAIN turns' : turns'[n].run = d
        BY <3>0
      <4>1. PICK n \in DOMAIN turns : turns[n].run = d
        OBVIOUS
      <4> QED BY <3>0, <4>1 DEF Appended
    <3>7. \A d \in Caller : pc'[d] \in {"pending", "working"} => runs'[d] = "absent"
      BY <3>0, <3>2, <3>3
    <3>8. \A d \in Caller : pc'[d] \in Early => \A n \in DOMAIN turns' : turns'[n].run # d
      BY <3>0, <3>4 DEF Appended
    <3> QED BY <3>5, <3>6, <3>7, <3>8
  <2> QED BY <1>8, <2>1, <2>2, AppendCases
<1>9. ASSUME NEW c \in Caller, BeginTurn(c) PROVE Runs'
  BY <1>9 DEF BeginTurn
<1>10. ASSUME NEW c \in Caller, AnswerEphemeral(c) PROVE Runs'
  BY <1>10 DEF AnswerEphemeral
<1>11. ASSUME NEW c \in Caller, StartRun(c) PROVE Runs'
  BY <1>11 DEF StartRun
<1>12. ASSUME NEW c \in Caller, AgentResume(c) PROVE Runs'
  BY <1>12 DEF AgentResume
<1>13. ASSUME NEW c \in Caller, RaiseOutside(c) PROVE Runs'
  BY <1>13 DEF RaiseOutside
<1>14. ASSUME NEW c \in Caller, Cancel(c) PROVE Runs'
  BY <1>14 DEF Cancel
<1>15. ASSUME NEW c \in Resumer, GetActive(c) PROVE Runs'
  BY <1>15 DEF GetActive
<1>16. ASSUME NEW c \in Resumer, ResumeEnded(c) PROVE Runs'
  BY <1>16 DEF ResumeEnded
<1>17. ASSUME NEW c \in Resumer, ResumeFailed(c) PROVE Runs'
  BY <1>17 DEF ResumeFailed
<1>18. ASSUME NEW c \in Resumer, ResumeRun(c) PROVE Runs'
  BY <1>18 DEF ResumeRun
<1>19. ASSUME NEW c \in Resumer, CancelResume(c) PROVE Runs'
  BY <1>19 DEF CancelResume
<1>20. ASSUME NEW c \in Resumer, CrashResume(c) PROVE Runs'
  BY <1>20 DEF CrashResume
<1>21. ASSUME NEW c \in Party, FinishRun(c) PROVE Runs'
  BY <1>21 DEF FinishRun
<1>22. ASSUME NEW c \in Party, Record(c) PROVE Runs'
  <2>1. sequence[c] \in DOMAIN turns /\ pc[c] \in {"answered", "cancelled"}
    BY <1>22 DEF Record
  <2>2. SameTurns /\ Set(sequence[c], answer[c])
    BY <1>22, <2>1, Writing DEF Record
  <2>3. UNCHANGED <<runs, holder, faults>>
    BY <1>22 DEF Record
  <2> PICK place \in {"new", "done"} : Leave(c, place) /\ (c \in Caller <=> place = "done")
    BY <1>22 DEF Record
  <2>4. \A d \in Party : d # c => pc'[d] = pc[d]
    OBVIOUS
  <2>5. c \in Caller => pc'[c] = "done"
    OBVIOUS
  <2>6. \A n \in DOMAIN turns : turns'[n].run = turns[n].run
    BY <2>2 DEF SameTurns
  <2>7. DOMAIN turns' = DOMAIN turns
    BY <2>2 DEF SameTurns
  <2>8. \A d \in Caller : pc'[d] \in Early => \A n \in DOMAIN turns' : turns'[n].run # d
    <3> SUFFICES ASSUME NEW d \in Caller, pc'[d] \in Early, NEW n \in DOMAIN turns
                 PROVE  turns[n].run # d
      BY <2>6, <2>7
    <3>1. pc[d] \in Early
      BY <2>1, <2>4, <2>5
    <3> QED BY <3>1
  <2>9. \A d \in Caller : runs'[d] # "absent" => \E n \in DOMAIN turns' : turns'[n].run = d
    <3> TAKE d \in Caller
    <3> HAVE runs'[d] # "absent"
    <3>1. PICK n \in DOMAIN turns : turns[n].run = d
      BY <2>3
    <3> QED BY <2>6, <2>7, <3>1
  <2>10. \A d \in Caller : pc'[d] \in {"pending", "working"} => runs'[d] = "absent"
    BY <2>3, <2>4, <2>5
  <2> QED BY <2>6, <2>7, <2>8, <2>9, <2>10
<1>23. ASSUME NEW c \in Party, RaiseRun(c) PROVE Runs'
  BY <1>23 DEF RaiseRun
<1>24. ASSUME NEW c \in Service, Crash(c) PROVE Runs'
  BY <1>24 DEF Crash
<1>25. CASE UNCHANGED vars
  BY <1>25
<1> QED
  BY <1>1, <1>2, <1>3, <1>4, <1>5, <1>6, <1>7, <1>8, <1>9, <1>10, <1>11, <1>12, <1>13,
    <1>14, <1>15, <1>16, <1>17, <1>18, <1>19, <1>20, <1>21, <1>22, <1>23, <1>24, <1>25
    DEF Next, CallStep, ResumeStep

\* Every step keeps the turn a call is about: its own once it has appended.
LEMMA SubjectsKept ==
  ASSUME CInv, [Next]_vars
  PROVE  Subjects'
<1> USE DEF CInv, Types, Runs, Subjects, Early, Own, About
<1> USE CallAssumption, NameAssumption, ServiceAssumption, ModesAssumption,
  MaxFaultsAssumption
<1> USE DEF Go, Leave, Fault, Forget, Released, Abandoned, Free, Refused, Res,
  NoAnswer, DurableAnswer, ModeOf, RunOf, Active, Ended, Text, Result, Turn, Location,
  Party, IsActive, IsFirstActive, Busy, vars
<1>1. ASSUME NEW c \in Caller, Create(c) PROVE Subjects'
  BY <1>1 DEF Create
<1>2. ASSUME NEW c \in Caller, GetIdle(c) PROVE Subjects'
  BY <1>2 DEF GetIdle
<1>3. ASSUME NEW c \in Caller, GetEphemeral(c) PROVE Subjects'
  <2>1. CASE Go(c, "reconciled") /\ UNCHANGED <<turns, live, sequence, answer, runs, holder, faults>>
    BY <1>3, <2>1 DEF GetEphemeral
  <2>2. ASSUME NEW n \in DOMAIN turns,
               sequence' = [sequence EXCEPT ![c] = n],
               answer' = [answer EXCEPT ![c] = Res("failed", "unrecovered")],
               Go(c, "reconciling"), UNCHANGED <<turns, live, runs, holder, faults>>
        PROVE  Subjects'
    BY <1>3, <2>2 DEF GetEphemeral
  <2> QED BY <1>3, <2>1, <2>2 DEF GetEphemeral
<1>4. ASSUME NEW c \in Caller, GetPlan(c) PROVE Subjects'
  BY <1>4 DEF GetPlan
<1>5. ASSUME NEW c \in Caller, AskRun(c) PROVE Subjects'
  <2>1. CASE \E place \in {"new", "reconciled"} : Leave(c, place)
    BY <1>5, <2>1 DEF AskRun
  <2>2. ASSUME NEW status \in Ended, status = runs[RunOf(c)],
               answer' = [answer EXCEPT ![c] = Res(status, "none")],
               Go(c, "reconciling"), UNCHANGED sequence
        PROVE  Subjects'
    BY <1>5, <2>2 DEF AskRun
  <2> QED BY <1>5, <2>1, <2>2 DEF AskRun
<1>6. ASSUME NEW c \in Caller, Reconcile(c) PROVE Subjects'
  <2>1. sequence[c] \in DOMAIN turns /\ pc[c] = "reconciling"
    BY <1>6 DEF Reconcile
  <2>2. SameTurns /\ Set(sequence[c], answer[c])
    BY <1>6, <2>1, Writing DEF Reconcile
  <2>3. UNCHANGED <<live, runs, holder, faults>>
    BY <1>6 DEF Reconcile
  <2> PICK place \in {"new", "reconciled"} : Leave(c, place)
    BY <1>6 DEF Reconcile
  <2>4. \A d \in Party : d # c => pc'[d] = pc[d] /\ sequence'[d] = sequence[d]
    OBVIOUS
  <2>5. pc'[c] = place /\ sequence'[c] = 0
    OBVIOUS
  <2>6. Len(turns') = Len(turns) /\ DOMAIN turns' = DOMAIN turns
        /\ \A n \in DOMAIN turns : turns'[n].run = turns[n].run
    BY <2>2 DEF SameTurns
  <2>7. Len(turns) \in Nat
    OBVIOUS
  <2>8. \A d \in Party : sequence'[d] <= Len(turns') + 1
    BY <2>4, <2>5, <2>6, <2>7
  <2>9. \A d \in Party : pc'[d] \in About => sequence'[d] \in DOMAIN turns'
    BY <2>4, <2>5, <2>6
  <2>10. \A d \in Caller : pc'[d] \in Own
           => sequence'[d] \in DOMAIN turns' /\ turns'[sequence'[d]].run = d
    <3> SUFFICES ASSUME NEW d \in Caller, pc'[d] \in Own
                 PROVE  sequence'[d] \in DOMAIN turns /\ turns'[sequence'[d]].run = d
      BY <2>6
    <3>1. d # c /\ pc[d] \in Own /\ sequence'[d] = sequence[d]
      BY <2>4, <2>5
    <3>2. sequence[d] \in DOMAIN turns /\ turns[sequence[d]].run = d
      BY <3>1
    <3> QED BY <2>6, <3>1, <3>2
  <2>11. \A d \in Resumer : pc'[d] \in {"new", "resuming", "executing", "answered"}
    BY <2>1, <2>4, <2>5
  <2> QED BY <2>8, <2>9, <2>10, <2>11
<1>7. ASSUME NEW c \in Caller, ReadHistory(c) PROVE Subjects'
  <2>1. CASE Go(c, "new") /\ UNCHANGED sequence
    BY <1>7, <2>1 DEF ReadHistory
  <2>2. CASE Go(c, "ready") /\ sequence' = [sequence EXCEPT ![c] = Len(turns) + 1]
    BY <1>7, <2>2 DEF ReadHistory
  <2> QED BY <1>7, <2>1, <2>2 DEF ReadHistory
<1>8. ASSUME NEW c \in Caller, AppendTurn(c) PROVE Subjects'
  <2>1. CASE Refusal(c)
    BY <1>8, <2>1 DEF AppendTurn, Refusal
  <2>2. CASE Acceptance(c)
    BY <1>8, <2>2 DEF AppendTurn, Appended, Acceptance
  <2> QED BY <1>8, <2>1, <2>2, AppendCases
<1>9. ASSUME NEW c \in Caller, BeginTurn(c) PROVE Subjects'
  BY <1>9 DEF BeginTurn
<1>10. ASSUME NEW c \in Caller, AnswerEphemeral(c) PROVE Subjects'
  BY <1>10 DEF AnswerEphemeral
<1>11. ASSUME NEW c \in Caller, StartRun(c) PROVE Subjects'
  BY <1>11 DEF StartRun
<1>12. ASSUME NEW c \in Caller, AgentResume(c) PROVE Subjects'
  BY <1>12 DEF AgentResume
<1>13. ASSUME NEW c \in Caller, RaiseOutside(c) PROVE Subjects'
  BY <1>13 DEF RaiseOutside
<1>14. ASSUME NEW c \in Caller, Cancel(c) PROVE Subjects'
  BY <1>14 DEF Cancel
<1>15. ASSUME NEW c \in Resumer, GetActive(c) PROVE Subjects'
  BY <1>15 DEF GetActive
<1>16. ASSUME NEW c \in Resumer, ResumeEnded(c) PROVE Subjects'
  BY <1>16 DEF ResumeEnded
<1>17. ASSUME NEW c \in Resumer, ResumeFailed(c) PROVE Subjects'
  BY <1>17 DEF ResumeFailed
<1>18. ASSUME NEW c \in Resumer, ResumeRun(c) PROVE Subjects'
  BY <1>18 DEF ResumeRun
<1>19. ASSUME NEW c \in Resumer, CancelResume(c) PROVE Subjects'
  BY <1>19 DEF CancelResume
<1>20. ASSUME NEW c \in Resumer, CrashResume(c) PROVE Subjects'
  BY <1>20 DEF CrashResume
<1>21. ASSUME NEW c \in Party, FinishRun(c) PROVE Subjects'
  BY <1>21 DEF FinishRun
<1>22. ASSUME NEW c \in Party, Record(c) PROVE Subjects'
  <2>1. sequence[c] \in DOMAIN turns /\ pc[c] \in {"answered", "cancelled"}
    BY <1>22 DEF Record
  <2>2. SameTurns /\ Set(sequence[c], answer[c])
    BY <1>22, <2>1, Writing DEF Record
  <2>3. UNCHANGED <<runs, holder, faults>>
    BY <1>22 DEF Record
  <2> PICK place \in {"new", "done"} : Leave(c, place) /\ (c \in Caller <=> place = "done")
    BY <1>22 DEF Record
  <2>4. \A d \in Party : d # c => pc'[d] = pc[d] /\ sequence'[d] = sequence[d]
    OBVIOUS
  <2>5. pc'[c] = place /\ sequence'[c] = 0
    OBVIOUS
  <2>6. Len(turns') = Len(turns) /\ DOMAIN turns' = DOMAIN turns
        /\ \A n \in DOMAIN turns : turns'[n].run = turns[n].run
    BY <2>2 DEF SameTurns
  <2>7. Len(turns) \in Nat
    OBVIOUS
  <2>8. \A d \in Party : sequence'[d] <= Len(turns') + 1
    BY <2>4, <2>5, <2>6, <2>7
  <2>9. \A d \in Party : pc'[d] \in About => sequence'[d] \in DOMAIN turns'
    BY <2>4, <2>5, <2>6
  <2>10. \A d \in Caller : pc'[d] \in Own
           => sequence'[d] \in DOMAIN turns' /\ turns'[sequence'[d]].run = d
    <3> SUFFICES ASSUME NEW d \in Caller, pc'[d] \in Own
                 PROVE  sequence'[d] \in DOMAIN turns /\ turns'[sequence'[d]].run = d
      BY <2>6
    <3>1. d # c /\ pc[d] \in Own /\ sequence'[d] = sequence[d]
      BY <2>4, <2>5
    <3>2. sequence[d] \in DOMAIN turns /\ turns[sequence[d]].run = d
      BY <3>1
    <3> QED BY <2>6, <3>1, <3>2
  <2>11. \A d \in Resumer : pc'[d] \in {"new", "resuming", "executing", "answered"}
    BY <2>1, <2>4, <2>5
  <2> QED BY <2>8, <2>9, <2>10, <2>11
<1>23. ASSUME NEW c \in Party, RaiseRun(c) PROVE Subjects'
  <2>1. pc[c] \in {"executing", "working"} /\ pc' = [pc EXCEPT ![c] = "answered"]
        /\ UNCHANGED <<turns, sequence>>
    BY <1>23 DEF RaiseRun
  <2>2. sequence[c] \in DOMAIN turns
    BY <2>1
  <2> QED BY <2>1, <2>2
<1>24. ASSUME NEW c \in Service, Crash(c) PROVE Subjects'
  BY <1>24 DEF Crash
<1>25. CASE UNCHANGED vars
  BY <1>25
<1> QED
  BY <1>1, <1>2, <1>3, <1>4, <1>5, <1>6, <1>7, <1>8, <1>9, <1>10, <1>11, <1>12, <1>13,
    <1>14, <1>15, <1>16, <1>17, <1>18, <1>19, <1>20, <1>21, <1>22, <1>23, <1>24, <1>25
    DEF Next, CallStep, ResumeStep

\* Every step leaves an open run that is executed to its holder.
LEMMA ExecutionKept ==
  ASSUME CInv, [Next]_vars
  PROVE  Execution'
<1> USE DEF CInv, Types, Runs, Subjects, Execution, Early, Own, About
<1> USE CallAssumption, NameAssumption, ServiceAssumption, ModesAssumption,
  MaxFaultsAssumption
<1> USE DEF Go, Leave, Fault, Forget, Released, Abandoned, Free, Refused, Res,
  NoAnswer, DurableAnswer, ModeOf, RunOf, Active, Ended, Text, Result, Turn, Location,
  Party, IsActive, IsFirstActive, Busy, vars
<1>1. ASSUME NEW c \in Caller, Create(c) PROVE Execution'
  BY <1>1 DEF Create
<1>2. ASSUME NEW c \in Caller, GetIdle(c) PROVE Execution'
  BY <1>2 DEF GetIdle
<1>3. ASSUME NEW c \in Caller, GetEphemeral(c) PROVE Execution'
  <2>1. CASE Go(c, "reconciled") /\ UNCHANGED <<turns, live, sequence, answer, runs, holder, faults>>
    BY <1>3, <2>1 DEF GetEphemeral
  <2>2. ASSUME NEW n \in DOMAIN turns,
               sequence' = [sequence EXCEPT ![c] = n],
               answer' = [answer EXCEPT ![c] = Res("failed", "unrecovered")],
               Go(c, "reconciling"), UNCHANGED <<turns, live, runs, holder, faults>>
        PROVE  Execution'
    BY <1>3, <2>2 DEF GetEphemeral
  <2> QED BY <1>3, <2>1, <2>2 DEF GetEphemeral
<1>4. ASSUME NEW c \in Caller, GetPlan(c) PROVE Execution'
  BY <1>4 DEF GetPlan
<1>5. ASSUME NEW c \in Caller, AskRun(c) PROVE Execution'
  <2>1. CASE \E place \in {"new", "reconciled"} : Leave(c, place)
    BY <1>5, <2>1 DEF AskRun
  <2>2. ASSUME NEW status \in Ended, status = runs[RunOf(c)],
               answer' = [answer EXCEPT ![c] = Res(status, "none")],
               Go(c, "reconciling"), UNCHANGED sequence
        PROVE  Execution'
    BY <1>5, <2>2 DEF AskRun
  <2> QED BY <1>5, <2>1, <2>2 DEF AskRun
<1>6. ASSUME NEW c \in Caller, Reconcile(c) PROVE Execution'
  <2>1. sequence[c] \in DOMAIN turns /\ pc[c] = "reconciling"
    BY <1>6 DEF Reconcile
  <2>2. SameTurns /\ Set(sequence[c], answer[c])
    BY <1>6, <2>1, Writing DEF Reconcile
  <2>3. UNCHANGED <<live, runs, holder, faults>>
    BY <1>6 DEF Reconcile
  <2> PICK place \in {"new", "reconciled"} : Leave(c, place)
    BY <1>6 DEF Reconcile
  <2> SUFFICES ASSUME NEW d \in Party, pc'[d] = "executing"
               PROVE  runs'[RunOf(d)'] = "open" /\ holder'[RunOf(d)'] = d
    OBVIOUS
  <2>4. d # c /\ pc[d] = "executing" /\ sequence'[d] = sequence[d]
    OBVIOUS
  <2>5. RunOf(d)' = RunOf(d)
    BY <2>2, <2>4 DEF SameTurns
  <2> QED BY <2>3, <2>4, <2>5
<1>7. ASSUME NEW c \in Caller, ReadHistory(c) PROVE Execution'
  <2>1. CASE Go(c, "new") /\ UNCHANGED sequence
    BY <1>7, <2>1 DEF ReadHistory
  <2>2. CASE Go(c, "ready") /\ sequence' = [sequence EXCEPT ![c] = Len(turns) + 1]
    BY <1>7, <2>2 DEF ReadHistory
  <2> QED BY <1>7, <2>1, <2>2 DEF ReadHistory
<1>8. ASSUME NEW c \in Caller, AppendTurn(c) PROVE Execution'
  <2>1. CASE Refusal(c)
    BY <1>8, <2>1 DEF AppendTurn, Refusal
  <2>2. CASE Acceptance(c)
    BY <1>8, <2>2 DEF AppendTurn, Appended, Acceptance
  <2> QED BY <1>8, <2>1, <2>2, AppendCases
<1>9. ASSUME NEW c \in Caller, BeginTurn(c) PROVE Execution'
  BY <1>9 DEF BeginTurn
<1>10. ASSUME NEW c \in Caller, AnswerEphemeral(c) PROVE Execution'
  BY <1>10 DEF AnswerEphemeral
<1>11. ASSUME NEW c \in Caller, StartRun(c) PROVE Execution'
  BY <1>11 DEF StartRun
<1>12. ASSUME NEW c \in Caller, AgentResume(c) PROVE Execution'
  BY <1>12 DEF AgentResume
<1>13. ASSUME NEW c \in Caller, RaiseOutside(c) PROVE Execution'
  BY <1>13 DEF RaiseOutside
<1>14. ASSUME NEW c \in Caller, Cancel(c) PROVE Execution'
  <2> SUFFICES ASSUME NEW d \in Party, pc'[d] = "executing"
                PROVE  runs'[RunOf(d)'] = "open" /\ holder'[RunOf(d)'] = d
    OBVIOUS
  <2>1. d # c /\ pc[d] = "executing" /\ UNCHANGED <<turns, runs>> /\ sequence'[d] = sequence[d]
    BY <1>14 DEF Cancel
  <2>2. turns[sequence[d]].run \in Caller
    BY <2>1, TurnAt
  <2>3. holder'[turns[sequence[d]].run] = holder[turns[sequence[d]].run]
    BY <1>14, <2>1, <2>2 DEF Cancel
  <2> QED BY <2>1, <2>3
<1>15. ASSUME NEW c \in Resumer, GetActive(c) PROVE Execution'
  BY <1>15 DEF GetActive
<1>16. ASSUME NEW c \in Resumer, ResumeEnded(c) PROVE Execution'
  BY <1>16 DEF ResumeEnded
<1>17. ASSUME NEW c \in Resumer, ResumeFailed(c) PROVE Execution'
  BY <1>17 DEF ResumeFailed
<1>18. ASSUME NEW c \in Resumer, ResumeRun(c) PROVE Execution'
  <2> SUFFICES ASSUME NEW d \in Party, pc'[d] = "executing"
                PROVE  runs'[RunOf(d)'] = "open" /\ holder'[RunOf(d)'] = d
    OBVIOUS
  <2>1. UNCHANGED <<turns, sequence, runs>> /\ turns[sequence[c]].run \in Caller
        /\ runs[RunOf(c)] = "open" /\ holder[RunOf(c)] \in {"none", "crashed"}
        /\ holder' = [holder EXCEPT ![RunOf(c)] = c]
    BY <1>18, TurnAt DEF ResumeRun
  <2>2. CASE d = c
    BY <2>1, <2>2
  <2>3. CASE d # c
    <3>1. pc[d] = "executing"
      BY <1>18, <2>3 DEF ResumeRun
    <3>2. runs[RunOf(d)] = "open" /\ holder[RunOf(d)] = d
      BY <3>1
    <3> QED BY <2>1, <3>2
  <2> QED BY <2>2, <2>3
<1>19. ASSUME NEW c \in Resumer, CancelResume(c) PROVE Execution'
  <2> SUFFICES ASSUME NEW d \in Party, pc'[d] = "executing"
                PROVE  runs'[RunOf(d)'] = "open" /\ holder'[RunOf(d)'] = d
    OBVIOUS
  <2>1. d # c /\ pc[d] = "executing" /\ UNCHANGED <<turns, runs>> /\ sequence'[d] = sequence[d]
    BY <1>19 DEF CancelResume
  <2>2. turns[sequence[d]].run \in Caller
    BY <2>1, TurnAt
  <2>3. holder'[turns[sequence[d]].run] = holder[turns[sequence[d]].run]
    BY <1>19, <2>1, <2>2 DEF CancelResume
  <2> QED BY <2>1, <2>3
<1>20. ASSUME NEW c \in Resumer, CrashResume(c) PROVE Execution'
  <2> SUFFICES ASSUME NEW d \in Party, pc'[d] = "executing"
                PROVE  runs'[RunOf(d)'] = "open" /\ holder'[RunOf(d)'] = d
    OBVIOUS
  <2>1. d # c /\ pc[d] = "executing" /\ UNCHANGED <<turns, runs>> /\ sequence'[d] = sequence[d]
    BY <1>20 DEF CrashResume
  <2>2. turns[sequence[d]].run \in Caller
    BY <2>1, TurnAt
  <2>3. holder'[turns[sequence[d]].run] = holder[turns[sequence[d]].run]
    BY <1>20, <2>1, <2>2 DEF CrashResume
  <2> QED BY <2>1, <2>3
<1>21. ASSUME NEW c \in Party, FinishRun(c) PROVE Execution'
  BY <1>21 DEF FinishRun
<1>22. ASSUME NEW c \in Party, Record(c) PROVE Execution'
  <2>1. sequence[c] \in DOMAIN turns /\ pc[c] \in {"answered", "cancelled"}
    BY <1>22 DEF Record
  <2>2. SameTurns /\ Set(sequence[c], answer[c])
    BY <1>22, <2>1, Writing DEF Record
  <2>3. UNCHANGED <<runs, holder, faults>>
    BY <1>22 DEF Record
  <2> PICK place \in {"new", "done"} : Leave(c, place) /\ (c \in Caller <=> place = "done")
    BY <1>22 DEF Record
  <2> SUFFICES ASSUME NEW d \in Party, pc'[d] = "executing"
               PROVE  runs'[RunOf(d)'] = "open" /\ holder'[RunOf(d)'] = d
    OBVIOUS
  <2>4. d # c /\ pc[d] = "executing" /\ sequence'[d] = sequence[d]
    OBVIOUS
  <2>5. RunOf(d)' = RunOf(d)
    BY <2>2, <2>4 DEF SameTurns
  <2> QED BY <2>3, <2>4, <2>5
<1>23. ASSUME NEW c \in Party, RaiseRun(c) PROVE Execution'
  <2> SUFFICES ASSUME NEW d \in Party, pc'[d] = "executing"
                PROVE  runs'[RunOf(d)'] = "open" /\ holder'[RunOf(d)'] = d
    OBVIOUS
  <2>1. d # c /\ pc[d] = "executing" /\ UNCHANGED <<turns, runs>> /\ sequence'[d] = sequence[d]
    BY <1>23 DEF RaiseRun
  <2>2. turns[sequence[d]].run \in Caller
    BY <2>1, TurnAt
  <2>3. holder'[turns[sequence[d]].run] = holder[turns[sequence[d]].run]
    BY <1>23, <2>1, <2>2 DEF RaiseRun
  <2> QED BY <2>1, <2>3
<1>24. ASSUME NEW c \in Service, Crash(c) PROVE Execution'
  <2> SUFFICES ASSUME NEW d \in Party, pc'[d] = "executing"
                PROVE  runs'[RunOf(d)'] = "open" /\ holder'[RunOf(d)'] = d
    OBVIOUS
  <2> DEFINE lost == {e \in Caller : ServiceOf[e] = c /\ pc[e] # "done"}
  <2>1. pc' = [e \in Party |-> IF e \in lost THEN "dead" ELSE pc[e]]
        /\ sequence' = [e \in Party |-> IF e \in lost THEN 0 ELSE sequence[e]]
        /\ holder' = [r \in Caller |-> IF holder[r] \in lost THEN "crashed" ELSE holder[r]]
        /\ UNCHANGED <<turns, runs>>
    BY <1>24 DEF Crash
  <2> HIDE DEF lost
  <2>2. d \notin lost /\ pc[d] = "executing" /\ sequence'[d] = sequence[d]
    BY <2>1
  <2>3. turns[sequence[d]].run \in Caller
    BY <2>2, TurnAt
  <2> QED BY <2>1, <2>2, <2>3
<1>25. CASE UNCHANGED vars
  BY <1>25
<1> QED
  BY <1>1, <1>2, <1>3, <1>4, <1>5, <1>6, <1>7, <1>8, <1>9, <1>10, <1>11, <1>12, <1>13,
    <1>14, <1>15, <1>16, <1>17, <1>18, <1>19, <1>20, <1>21, <1>22, <1>23, <1>24, <1>25
    DEF Next, CallStep, ResumeStep

\* Every step keeps an ended answer that waits to be written equal to the status of
\* the run: an ended run never changes again.
LEMMA AnswersKept ==
  ASSUME CInv, [Next]_vars
  PROVE  Answers'
<1> USE DEF CInv, Types, Runs, Subjects, Execution, Answers, Early, Own, About
<1> USE CallAssumption, NameAssumption, ServiceAssumption, ModesAssumption,
  MaxFaultsAssumption
<1> USE DEF Go, Leave, Fault, Forget, Released, Abandoned, Free, Refused, Res,
  NoAnswer, DurableAnswer, ModeOf, RunOf, Active, Ended, Text, Result, Turn, Location,
  Party, IsActive, IsFirstActive, Busy, vars
<1>1. ASSUME NEW c \in Caller, Create(c) PROVE Answers'
  BY <1>1 DEF Create
<1>2. ASSUME NEW c \in Caller, GetIdle(c) PROVE Answers'
  BY <1>2 DEF GetIdle
<1>3. ASSUME NEW c \in Caller, GetEphemeral(c) PROVE Answers'
  <2>1. CASE Go(c, "reconciled") /\ UNCHANGED <<turns, live, sequence, answer, runs, holder, faults>>
    BY <1>3, <2>1 DEF GetEphemeral
  <2>2. ASSUME NEW n \in DOMAIN turns,
               sequence' = [sequence EXCEPT ![c] = n],
               answer' = [answer EXCEPT ![c] = Res("failed", "unrecovered")],
               Go(c, "reconciling"), UNCHANGED <<turns, live, runs, holder, faults>>
        PROVE  Answers'
    BY <1>3, <2>2 DEF GetEphemeral
  <2> QED BY <1>3, <2>1, <2>2 DEF GetEphemeral
<1>4. ASSUME NEW c \in Caller, GetPlan(c) PROVE Answers'
  BY <1>4 DEF GetPlan
<1>5. ASSUME NEW c \in Caller, AskRun(c) PROVE Answers'
  <2>1. CASE \E place \in {"new", "reconciled"} : Leave(c, place)
    BY <1>5, <2>1 DEF AskRun
  <2>2. ASSUME NEW status \in Ended, status = runs[RunOf(c)],
               answer' = [answer EXCEPT ![c] = Res(status, "none")],
               Go(c, "reconciling"), UNCHANGED sequence
        PROVE  Answers'
    BY <1>5, <2>2 DEF AskRun
  <2> QED BY <1>5, <2>1, <2>2 DEF AskRun
<1>6. ASSUME NEW c \in Caller, Reconcile(c) PROVE Answers'
  <2>1. sequence[c] \in DOMAIN turns /\ pc[c] = "reconciling"
    BY <1>6 DEF Reconcile
  <2>2. SameTurns /\ Set(sequence[c], answer[c])
    BY <1>6, <2>1, Writing DEF Reconcile
  <2>3. UNCHANGED <<live, runs, holder, faults>>
    BY <1>6 DEF Reconcile
  <2> PICK place \in {"new", "reconciled"} : Leave(c, place)
    BY <1>6 DEF Reconcile
  <2> SUFFICES ASSUME NEW d \in Party, pc'[d] \in {"reconciling", "answered", "cancelled"},
                      answer'[d].status \in Ended, ModeOf(d)' = "plan_execute"
               PROVE  runs'[RunOf(d)'] = answer'[d].status
    OBVIOUS
  <2>4. d # c /\ pc'[d] = pc[d] /\ sequence'[d] = sequence[d] /\ answer'[d] = answer[d]
    OBVIOUS
  <2>5. sequence[d] \in DOMAIN turns
    BY <2>4
  <2>6. ModeOf(d)' = ModeOf(d) /\ RunOf(d)' = RunOf(d)
    BY <2>2, <2>4, <2>5 DEF SameTurns
  <2>7. runs[RunOf(d)] = answer[d].status
    BY <2>4, <2>6
  <2> QED BY <2>3, <2>4, <2>6, <2>7
<1>7. ASSUME NEW c \in Caller, ReadHistory(c) PROVE Answers'
  <2>1. CASE Go(c, "new") /\ UNCHANGED sequence
    BY <1>7, <2>1 DEF ReadHistory
  <2>2. CASE Go(c, "ready") /\ sequence' = [sequence EXCEPT ![c] = Len(turns) + 1]
    BY <1>7, <2>2 DEF ReadHistory
  <2> QED BY <1>7, <2>1, <2>2 DEF ReadHistory
<1>8. ASSUME NEW c \in Caller, AppendTurn(c) PROVE Answers'
  <2>1. CASE Refusal(c)
    BY <1>8, <2>1 DEF AppendTurn, Refusal
  <2>2. CASE Acceptance(c)
    BY <1>8, <2>2 DEF AppendTurn, Appended, Acceptance
  <2> QED BY <1>8, <2>1, <2>2, AppendCases
<1>9. ASSUME NEW c \in Caller, BeginTurn(c) PROVE Answers'
  BY <1>9 DEF BeginTurn
<1>10. ASSUME NEW c \in Caller, AnswerEphemeral(c) PROVE Answers'
  BY <1>10 DEF AnswerEphemeral
<1>11. ASSUME NEW c \in Caller, StartRun(c) PROVE Answers'
  BY <1>11 DEF StartRun
<1>12. ASSUME NEW c \in Caller, AgentResume(c) PROVE Answers'
  BY <1>12 DEF AgentResume
<1>13. ASSUME NEW c \in Caller, RaiseOutside(c) PROVE Answers'
  BY <1>13 DEF RaiseOutside
<1>14. ASSUME NEW c \in Caller, Cancel(c) PROVE Answers'
  BY <1>14 DEF Cancel
<1>15. ASSUME NEW c \in Resumer, GetActive(c) PROVE Answers'
  BY <1>15 DEF GetActive
<1>16. ASSUME NEW c \in Resumer, ResumeEnded(c) PROVE Answers'
  BY <1>16 DEF ResumeEnded
<1>17. ASSUME NEW c \in Resumer, ResumeFailed(c) PROVE Answers'
  BY <1>17 DEF ResumeFailed
<1>18. ASSUME NEW c \in Resumer, ResumeRun(c) PROVE Answers'
  BY <1>18 DEF ResumeRun
<1>19. ASSUME NEW c \in Resumer, CancelResume(c) PROVE Answers'
  BY <1>19 DEF CancelResume
<1>20. ASSUME NEW c \in Resumer, CrashResume(c) PROVE Answers'
  BY <1>20 DEF CrashResume
<1>21. ASSUME NEW c \in Party, FinishRun(c) PROVE Answers'
  <2> PICK status \in Ended : /\ runs' = [runs EXCEPT ![RunOf(c)] = status]
                             /\ answer' = [answer EXCEPT ![c] = DurableAnswer(status)]
    BY <1>21 DEF FinishRun
  <2>1. DurableAnswer(status).status = status
    OBVIOUS
  <2>2. UNCHANGED <<turns, sequence>> /\ RunOf(c) \in Caller /\ runs[RunOf(c)] = "open"
    BY <1>21, TurnAt DEF FinishRun
  <2> HIDE DEF DurableAnswer
  <2> SUFFICES ASSUME NEW d \in Party, pc'[d] \in {"reconciling", "answered", "cancelled"},
                      answer'[d].status \in Ended, ModeOf(d)' = "plan_execute"
               PROVE  runs'[RunOf(d)'] = answer'[d].status
    OBVIOUS
  <2>3. CASE d = c
    BY <2>1, <2>2, <2>3
  <2>4. CASE d # c
    BY <1>21, <2>2, <2>4 DEF FinishRun
  <2> QED BY <2>3, <2>4
<1>22. ASSUME NEW c \in Party, Record(c) PROVE Answers'
  <2>1. sequence[c] \in DOMAIN turns /\ pc[c] \in {"answered", "cancelled"}
    BY <1>22 DEF Record
  <2>2. SameTurns /\ Set(sequence[c], answer[c])
    BY <1>22, <2>1, Writing DEF Record
  <2>3. UNCHANGED <<runs, holder, faults>>
    BY <1>22 DEF Record
  <2> PICK place \in {"new", "done"} : Leave(c, place) /\ (c \in Caller <=> place = "done")
    BY <1>22 DEF Record
  <2> SUFFICES ASSUME NEW d \in Party, pc'[d] \in {"reconciling", "answered", "cancelled"},
                      answer'[d].status \in Ended, ModeOf(d)' = "plan_execute"
               PROVE  runs'[RunOf(d)'] = answer'[d].status
    OBVIOUS
  <2>4. d # c /\ pc'[d] = pc[d] /\ sequence'[d] = sequence[d] /\ answer'[d] = answer[d]
    OBVIOUS
  <2>5. sequence[d] \in DOMAIN turns
    BY <2>4
  <2>6. ModeOf(d)' = ModeOf(d) /\ RunOf(d)' = RunOf(d)
    BY <2>2, <2>4, <2>5 DEF SameTurns
  <2>7. runs[RunOf(d)] = answer[d].status
    BY <2>4, <2>6
  <2> QED BY <2>3, <2>4, <2>6, <2>7
<1>23. ASSUME NEW c \in Party, RaiseRun(c) PROVE Answers'
  BY <1>23 DEF RaiseRun
<1>24. ASSUME NEW c \in Service, Crash(c) PROVE Answers'
  BY <1>24 DEF Crash
<1>25. CASE UNCHANGED vars
  BY <1>25
<1> QED
  BY <1>1, <1>2, <1>3, <1>4, <1>5, <1>6, <1>7, <1>8, <1>9, <1>10, <1>11, <1>12, <1>13,
    <1>14, <1>15, <1>16, <1>17, <1>18, <1>19, <1>20, <1>21, <1>22, <1>23, <1>24, <1>25
    DEF Next, CallStep, ResumeStep

\* Every step keeps the agreement of recorded outcomes with runs.
LEMMA OutcomeFollowsRunKept ==
  ASSUME CInv, [Next]_vars
  PROVE  OutcomeFollowsRun'
<1> USE DEF CInv, Types, Runs, Subjects, Execution, Answers, OutcomeFollowsRun, Early, Own, About
<1> USE CallAssumption, NameAssumption, ServiceAssumption, ModesAssumption,
  MaxFaultsAssumption
<1> USE DEF Go, Leave, Fault, Forget, Released, Abandoned, Free, Refused, Res,
  NoAnswer, DurableAnswer, ModeOf, RunOf, Active, Ended, Text, Result, Turn, Location,
  Party, IsActive, IsFirstActive, Busy, vars
<1>1. ASSUME NEW c \in Caller, Create(c) PROVE OutcomeFollowsRun'
  BY <1>1 DEF Create
<1>2. ASSUME NEW c \in Caller, GetIdle(c) PROVE OutcomeFollowsRun'
  BY <1>2 DEF GetIdle
<1>3. ASSUME NEW c \in Caller, GetEphemeral(c) PROVE OutcomeFollowsRun'
  <2>1. CASE Go(c, "reconciled") /\ UNCHANGED <<turns, live, sequence, answer, runs, holder, faults>>
    BY <1>3, <2>1 DEF GetEphemeral
  <2>2. ASSUME NEW n \in DOMAIN turns,
               sequence' = [sequence EXCEPT ![c] = n],
               answer' = [answer EXCEPT ![c] = Res("failed", "unrecovered")],
               Go(c, "reconciling"), UNCHANGED <<turns, live, runs, holder, faults>>
        PROVE  OutcomeFollowsRun'
    BY <1>3, <2>2 DEF GetEphemeral
  <2> QED BY <1>3, <2>1, <2>2 DEF GetEphemeral
<1>4. ASSUME NEW c \in Caller, GetPlan(c) PROVE OutcomeFollowsRun'
  BY <1>4 DEF GetPlan
<1>5. ASSUME NEW c \in Caller, AskRun(c) PROVE OutcomeFollowsRun'
  <2>1. CASE \E place \in {"new", "reconciled"} : Leave(c, place)
    BY <1>5, <2>1 DEF AskRun
  <2>2. ASSUME NEW status \in Ended, status = runs[RunOf(c)],
               answer' = [answer EXCEPT ![c] = Res(status, "none")],
               Go(c, "reconciling"), UNCHANGED sequence
        PROVE  OutcomeFollowsRun'
    BY <1>5, <2>2 DEF AskRun
  <2> QED BY <1>5, <2>1, <2>2 DEF AskRun
<1>6. ASSUME NEW c \in Caller, Reconcile(c) PROVE OutcomeFollowsRun'
  <2>1. sequence[c] \in DOMAIN turns /\ pc[c] = "reconciling"
    BY <1>6 DEF Reconcile
  <2>2. SameTurns /\ Set(sequence[c], answer[c])
    BY <1>6, <2>1, Writing DEF Reconcile
  <2>3. UNCHANGED <<live, runs, holder, faults>>
    BY <1>6 DEF Reconcile
  <2> PICK place \in {"new", "reconciled"} : Leave(c, place)
    BY <1>6 DEF Reconcile
  <2>4. \A n \in DOMAIN turns :
           n # sequence[c] => turns'[n].result = turns[n].result
    BY <2>2 DEF Set
  <2>5. turns'[sequence[c]].result = answer[c]
    BY <2>1, <2>2 DEF Set
  <2>6. answer[c].status \in Ended /\ ModeOf(c) = "plan_execute" => runs[RunOf(c)] = answer[c].status
    BY <2>1
  <2> SUFFICES ASSUME NEW n \in DOMAIN turns, turns'[n].mode = "plan_execute",
                      turns'[n].result.status \in Ended
               PROVE  runs'[turns'[n].run] = turns'[n].result.status
    BY <2>2 DEF SameTurns
  <2>7. turns'[n].run = turns[n].run /\ turns[n].mode = "plan_execute"
    BY <2>2 DEF SameTurns
  <2>8. CASE n = sequence[c]
    BY <2>3, <2>5, <2>6, <2>7, <2>8
  <2>9. CASE n # sequence[c]
    <3>1. turns'[n].result = turns[n].result
      BY <2>4, <2>9
    <3>2. runs[turns[n].run] = turns[n].result.status
      BY <2>7, <3>1
    <3> QED BY <2>3, <2>7, <3>1, <3>2
  <2> QED BY <2>8, <2>9
<1>7. ASSUME NEW c \in Caller, ReadHistory(c) PROVE OutcomeFollowsRun'
  <2>1. CASE Go(c, "new") /\ UNCHANGED sequence
    BY <1>7, <2>1 DEF ReadHistory
  <2>2. CASE Go(c, "ready") /\ sequence' = [sequence EXCEPT ![c] = Len(turns) + 1]
    BY <1>7, <2>2 DEF ReadHistory
  <2> QED BY <1>7, <2>1, <2>2 DEF ReadHistory
<1>8. ASSUME NEW c \in Caller, AppendTurn(c) PROVE OutcomeFollowsRun'
  <2>1. CASE Refusal(c)
    BY <1>8, <2>1 DEF AppendTurn, Refusal
  <2>2. CASE Acceptance(c)
    BY <1>8, <2>2 DEF AppendTurn, Appended, Acceptance
  <2> QED BY <1>8, <2>1, <2>2, AppendCases
<1>9. ASSUME NEW c \in Caller, BeginTurn(c) PROVE OutcomeFollowsRun'
  BY <1>9 DEF BeginTurn
<1>10. ASSUME NEW c \in Caller, AnswerEphemeral(c) PROVE OutcomeFollowsRun'
  BY <1>10 DEF AnswerEphemeral
<1>11. ASSUME NEW c \in Caller, StartRun(c) PROVE OutcomeFollowsRun'
  BY <1>11 DEF StartRun
<1>12. ASSUME NEW c \in Caller, AgentResume(c) PROVE OutcomeFollowsRun'
  BY <1>12 DEF AgentResume
<1>13. ASSUME NEW c \in Caller, RaiseOutside(c) PROVE OutcomeFollowsRun'
  BY <1>13 DEF RaiseOutside
<1>14. ASSUME NEW c \in Caller, Cancel(c) PROVE OutcomeFollowsRun'
  BY <1>14 DEF Cancel
<1>15. ASSUME NEW c \in Resumer, GetActive(c) PROVE OutcomeFollowsRun'
  BY <1>15 DEF GetActive
<1>16. ASSUME NEW c \in Resumer, ResumeEnded(c) PROVE OutcomeFollowsRun'
  BY <1>16 DEF ResumeEnded
<1>17. ASSUME NEW c \in Resumer, ResumeFailed(c) PROVE OutcomeFollowsRun'
  BY <1>17 DEF ResumeFailed
<1>18. ASSUME NEW c \in Resumer, ResumeRun(c) PROVE OutcomeFollowsRun'
  BY <1>18 DEF ResumeRun
<1>19. ASSUME NEW c \in Resumer, CancelResume(c) PROVE OutcomeFollowsRun'
  BY <1>19 DEF CancelResume
<1>20. ASSUME NEW c \in Resumer, CrashResume(c) PROVE OutcomeFollowsRun'
  BY <1>20 DEF CrashResume
<1>21. ASSUME NEW c \in Party, FinishRun(c) PROVE OutcomeFollowsRun'
  BY <1>21 DEF FinishRun
<1>22. ASSUME NEW c \in Party, Record(c) PROVE OutcomeFollowsRun'
  <2>1. sequence[c] \in DOMAIN turns /\ pc[c] \in {"answered", "cancelled"}
    BY <1>22 DEF Record
  <2>2. SameTurns /\ Set(sequence[c], answer[c])
    BY <1>22, <2>1, Writing DEF Record
  <2>3. UNCHANGED <<runs, holder, faults>>
    BY <1>22 DEF Record
  <2> PICK place \in {"new", "done"} : Leave(c, place) /\ (c \in Caller <=> place = "done")
    BY <1>22 DEF Record
  <2>4. \A n \in DOMAIN turns :
           n # sequence[c] => turns'[n].result = turns[n].result
    BY <2>2 DEF Set
  <2>5. turns'[sequence[c]].result = answer[c]
    BY <2>1, <2>2 DEF Set
  <2>6. answer[c].status \in Ended /\ ModeOf(c) = "plan_execute" => runs[RunOf(c)] = answer[c].status
    BY <2>1
  <2> SUFFICES ASSUME NEW n \in DOMAIN turns, turns'[n].mode = "plan_execute",
                      turns'[n].result.status \in Ended
               PROVE  runs'[turns'[n].run] = turns'[n].result.status
    BY <2>2 DEF SameTurns
  <2>7. turns'[n].run = turns[n].run /\ turns[n].mode = "plan_execute"
    BY <2>2 DEF SameTurns
  <2>8. CASE n = sequence[c]
    BY <2>3, <2>5, <2>6, <2>7, <2>8
  <2>9. CASE n # sequence[c]
    <3>1. turns'[n].result = turns[n].result
      BY <2>4, <2>9
    <3>2. runs[turns[n].run] = turns[n].result.status
      BY <2>7, <3>1
    <3> QED BY <2>3, <2>7, <3>1, <3>2
  <2> QED BY <2>8, <2>9
<1>23. ASSUME NEW c \in Party, RaiseRun(c) PROVE OutcomeFollowsRun'
  BY <1>23 DEF RaiseRun
<1>24. ASSUME NEW c \in Service, Crash(c) PROVE OutcomeFollowsRun'
  BY <1>24 DEF Crash
<1>25. CASE UNCHANGED vars
  BY <1>25
<1> QED
  BY <1>1, <1>2, <1>3, <1>4, <1>5, <1>6, <1>7, <1>8, <1>9, <1>10, <1>11, <1>12, <1>13,
    <1>14, <1>15, <1>16, <1>17, <1>18, <1>19, <1>20, <1>21, <1>22, <1>23, <1>24, <1>25
    DEF Next, CallStep, ResumeStep

\* With plan_execute turns only and no resume, every step keeps the active turn unique:
\* what ends a turn is its own call, or a reconciliation whose run has ended, and then
\* the call has long written "running".
LEMMA ExclusiveKept ==
  ASSUME CInv, Exclusive, Unattended, [Next]_vars
  PROVE  Exclusive'
<1> USE DEF CInv, Types, Runs, Subjects, Answers, Exclusive, OneActiveTurn, Unattended, Early, Own, About
<1> USE CallAssumption, NameAssumption, ServiceAssumption, ModesAssumption,
  MaxFaultsAssumption
<1> USE DEF Go, Leave, Fault, Forget, Released, Abandoned, Free, Refused, Res,
  NoAnswer, DurableAnswer, ModeOf, RunOf, Active, Ended, Text, Result, Turn, Location,
  Party, IsActive, IsFirstActive, Busy, vars
<1>1. ASSUME NEW c \in Caller, Create(c) PROVE Exclusive'
  BY <1>1 DEF Create
<1>2. ASSUME NEW c \in Caller, GetIdle(c) PROVE Exclusive'
  BY <1>2 DEF GetIdle
<1>3. ASSUME NEW c \in Caller, GetEphemeral(c) PROVE Exclusive'
  <2>1. \A n \in DOMAIN turns : turns[n].mode # "ephemeral"
    BY TurnAt
  <2> QED BY <1>3, <2>1 DEF GetEphemeral
<1>4. ASSUME NEW c \in Caller, GetPlan(c) PROVE Exclusive'
  BY <1>4 DEF GetPlan
<1>5. ASSUME NEW c \in Caller, AskRun(c) PROVE Exclusive'
  <2>1. CASE \E place \in {"new", "reconciled"} : Leave(c, place)
    BY <1>5, <2>1 DEF AskRun
  <2>2. ASSUME NEW status \in Ended, status = runs[RunOf(c)],
               answer' = [answer EXCEPT ![c] = Res(status, "none")],
               Go(c, "reconciling"), UNCHANGED sequence
        PROVE  Exclusive'
    BY <1>5, <2>2 DEF AskRun
  <2> QED BY <1>5, <2>1, <2>2 DEF AskRun
<1>6. ASSUME NEW c \in Caller, Reconcile(c) PROVE Exclusive'
  <2>1. sequence[c] \in DOMAIN turns /\ pc[c] = "reconciling"
    BY <1>6 DEF Reconcile
  <2>2. SameTurns /\ Set(sequence[c], answer[c])
    BY <1>6, <2>1, Writing DEF Reconcile
  <2>3. UNCHANGED <<live, runs, holder, faults>>
    BY <1>6 DEF Reconcile
  <2> PICK place \in {"new", "reconciled"} : Leave(c, place)
    BY <1>6 DEF Reconcile
  <2>4. ASSUME NEW n, n = sequence[c] PROVE ~IsActive(n)'
    BY <2>1, <2>2, <2>4 DEF SameTurns, Set
  <2>5. ASSUME NEW n, n # sequence[c] PROVE IsActive(n)' <=> IsActive(n)
    BY <2>2, <2>5 DEF SameTurns, Set
  <2>6. \A d \in Caller : pc'[d] = "pending" => sequence'[d] # sequence[c]
    <3>1. ModeOf(c) = "plan_execute"
      BY <2>1, TurnAt
    <3>2. runs[RunOf(c)] \in Ended
      BY <2>1, <3>1
    <3> QED BY <2>1, <3>2
  <2>7. \A d \in Caller : pc'[d] = "pending" => IsActive(sequence[d])'
    BY <2>5, <2>6
  <2>8. OneActiveTurn'
    <3>1. \A n : IsActive(n)' => IsActive(n)
      BY <2>4, <2>5
    <3> QED BY <2>2, <3>1 DEF SameTurns
  <2> QED BY <2>7, <2>8
<1>7. ASSUME NEW c \in Caller, ReadHistory(c) PROVE Exclusive'
  <2>1. CASE Go(c, "new") /\ UNCHANGED sequence
    BY <1>7, <2>1 DEF ReadHistory
  <2>2. CASE Go(c, "ready") /\ sequence' = [sequence EXCEPT ![c] = Len(turns) + 1]
    BY <1>7, <2>2 DEF ReadHistory
  <2> QED BY <1>7, <2>1, <2>2 DEF ReadHistory
<1>8. ASSUME NEW c \in Caller, AppendTurn(c) PROVE Exclusive'
  <2>1. CASE Refusal(c)
    BY <1>8, <2>1 DEF AppendTurn, Refusal
  <2>2. CASE Acceptance(c)
    <3>1. \A n \in DOMAIN turns : ~IsActive(n)'
      BY <2>2 DEF Acceptance, Appended
    <3>3. DOMAIN turns' = DOMAIN turns \union {Len(turns) + 1}
      BY <2>2 DEF Acceptance, Appended
    <3>4. OneActiveTurn'
      BY <3>1, <3>3
    <3>5. \A d \in Caller : pc[d] # "pending"
      BY <2>2 DEF Acceptance
    <3>6. \A d \in Caller : pc'[d] = "pending" => d = c
      BY <2>2, <3>5 DEF Acceptance
    <3>7. IsActive(sequence[c])'
      BY <2>2, <3>3 DEF Acceptance, Appended
    <3>8. \A d \in Caller : d # c => pc'[d] = pc[d] /\ answer'[d] = answer[d]
      BY <2>2 DEF Acceptance
    <3>9. pc'[c] = "pending"
      BY <2>2 DEF Acceptance
    <3> QED BY <3>4, <3>6, <3>7, <3>8, <3>9
  <2> QED BY <1>8, <2>1, <2>2, AppendCases
<1>9. ASSUME NEW c \in Caller, BeginTurn(c) PROVE Exclusive'
  BY <1>9 DEF BeginTurn
<1>10. ASSUME NEW c \in Caller, AnswerEphemeral(c) PROVE Exclusive'
  BY <1>10 DEF AnswerEphemeral
<1>11. ASSUME NEW c \in Caller, StartRun(c) PROVE Exclusive'
  BY <1>11 DEF StartRun
<1>12. ASSUME NEW c \in Caller, AgentResume(c) PROVE Exclusive'
  BY <1>12 DEF AgentResume
<1>13. ASSUME NEW c \in Caller, RaiseOutside(c) PROVE Exclusive'
  BY <1>13 DEF RaiseOutside
<1>14. ASSUME NEW c \in Caller, Cancel(c) PROVE Exclusive'
  BY <1>14 DEF Cancel
<1>15. ASSUME NEW c \in Party, FinishRun(c) PROVE Exclusive'
  BY <1>15 DEF FinishRun
<1>16. ASSUME NEW c \in Party, Record(c) PROVE Exclusive'
  <2>1. sequence[c] \in DOMAIN turns /\ pc[c] \in {"answered", "cancelled"}
    BY <1>16 DEF Record
  <2>2. SameTurns /\ Set(sequence[c], answer[c])
    BY <1>16, <2>1, Writing DEF Record
  <2>3. UNCHANGED <<runs, holder, faults>>
    BY <1>16 DEF Record
  <2> PICK place \in {"new", "done"} : Leave(c, place) /\ (c \in Caller <=> place = "done")
    BY <1>16 DEF Record
  <2>4. ASSUME NEW n, n = sequence[c] PROVE ~IsActive(n)'
    BY <2>1, <2>2, <2>4 DEF SameTurns, Set
  <2>5. ASSUME NEW n, n # sequence[c] PROVE IsActive(n)' <=> IsActive(n)
    BY <2>2, <2>5 DEF SameTurns, Set
  <2>6. \A d \in Caller : pc'[d] = "pending" => sequence'[d] # sequence[c]
    <3> SUFFICES ASSUME NEW d \in Caller, pc'[d] = "pending" PROVE sequence'[d] # sequence[c]
      OBVIOUS
    <3>1. c \in Caller /\ turns[sequence[c]].run = c
      BY <2>1
    <3>2. d # c /\ pc[d] = "pending" /\ sequence'[d] = sequence[d]
      OBVIOUS
    <3>3. turns[sequence[d]].run = d
      BY <3>2
    <3> QED BY <3>1, <3>2, <3>3
  <2>7. \A d \in Caller : pc'[d] = "pending" => IsActive(sequence[d])'
    BY <2>5, <2>6
  <2>8. OneActiveTurn'
    <3>1. \A n : IsActive(n)' => IsActive(n)
      BY <2>4, <2>5
    <3> QED BY <2>2, <3>1 DEF SameTurns
  <2> QED BY <2>7, <2>8
<1>17. ASSUME NEW c \in Party, RaiseRun(c) PROVE Exclusive'
  BY <1>17 DEF RaiseRun
<1>18. ASSUME NEW c \in Service, Crash(c) PROVE Exclusive'
  BY <1>18 DEF Crash
<1>19. CASE UNCHANGED vars
  BY <1>19
<1> QED
  BY <1>1, <1>2, <1>3, <1>4, <1>5, <1>6, <1>7, <1>8, <1>9, <1>10, <1>11, <1>12, <1>13,
    <1>14, <1>15, <1>16, <1>17, <1>18, <1>19 DEF Next, CallStep, ResumeStep

\* The invariant holds initially and is kept, so it holds always.
LEMMA Invariant == Spec => []CInv
<1>1. Init => CInv
  <2> SUFFICES ASSUME Init PROVE CInv
    OBVIOUS
  <2>1. turns = <<>> /\ DOMAIN turns = {} /\ Len(turns) = 0 /\ turns \in Seq(Turn)
    BY DEF Init
  <2>2. Types
    BY <2>1, MaxFaultsAssumption
    DEF Init, Types, Party, Location, NoAnswer, Res, Result, Text, Active, Ended
  <2>3. Runs
    BY <2>1 DEF Init, Runs
  <2>4. Subjects
    BY <2>1, CallAssumption DEF Init, Subjects, Party, About, Own
  <2>5. Execution /\ Answers /\ OutcomeFollowsRun
    BY <2>1 DEF Init, Execution, Answers, OutcomeFollowsRun, Party
  <2> QED BY <2>2, <2>3, <2>4, <2>5 DEF CInv
<1>2. CInv /\ [Next]_vars => CInv'
  BY TypesKept, RunsKept, SubjectsKept, ExecutionKept, AnswersKept, OutcomeFollowsRunKept
  DEF CInv
<1> QED BY <1>1, <1>2, PTL DEF Spec

-----------------------------------------------------------------------------
(***************************************************************************)
(* The theorems.                                                           *)
(***************************************************************************)
\* No step changes what happened before.
LEMMA EarlierStays == [Next]_vars => UNCHANGED earlier
  BY DEF vars, Next, CallStep, ResumeStep, Create, GetIdle, GetEphemeral, GetPlan, AskRun,
         Reconcile, ReadHistory, AppendTurn, BeginTurn, AnswerEphemeral, StartRun, FinishRun,
         Record, GetActive, ResumeEnded, ResumeFailed, ResumeRun, AgentResume, RaiseRun,
         RaiseOutside, Cancel, CancelResume, CrashResume, Crash

\* A conversation has at most one turn for each call, since a call appends once.
LEMMA TurnsBounded == CInv => Len(turns) <= Cardinality(Caller)
<1> SUFFICES ASSUME CInv PROVE Len(turns) <= Cardinality(Caller)
  OBVIOUS
<1> DEFINE runOf == [n \in 1 .. Len(turns) |-> turns[n].run]
<1>1. turns \in Seq(Turn) /\ Types
  BY DEF CInv, Types
<1>2. Len(turns) \in Nat /\ DOMAIN turns = 1 .. Len(turns)
  BY <1>1
<1>3. runOf \in [1 .. Len(turns) -> Caller]
  BY <1>1, <1>2, TurnAt
<1>4. \A m, n \in 1 .. Len(turns) : runOf[m] = runOf[n] => m = n
  BY <1>2 DEF CInv, Runs
<1> HIDE DEF runOf
<1>5. runOf \in Injection(1 .. Len(turns), Caller)
  BY <1>3, <1>4 DEF Injection, IsInjective
<1>6. Cardinality(1 .. Len(turns)) <= Cardinality(Caller)
  BY <1>5, FS_Injection, CallAssumption
<1>7. Cardinality(1 .. Len(turns)) = Len(turns)
  <2>1. 1 \in Int /\ Len(turns) \in Int
    BY <1>2
  <2>2. Cardinality(1 .. Len(turns)) = IF 1 > Len(turns) THEN 0 ELSE Len(turns) - 1 + 1
    BY <2>1, FS_Interval
  <2> QED BY <1>2, <2>2
<1> QED BY <1>6, <1>7

\* The types of the rows, notes and calls for every number of calls, services
\* and faults; in particular no call appends a second turn (append and update of
\* MySQLConversationStore).
THEOREM ConversationTypes == Spec => []TypeOK
<1>1. CInv /\ earlier \in BOOLEAN => TypeOK
  <2> SUFFICES ASSUME CInv, earlier \in BOOLEAN PROVE TypeOK
    OBVIOUS
  <2>1. Types /\ Subjects /\ Len(turns) <= Cardinality(Caller)
    BY TurnsBounded DEF CInv
  <2>2. Len(turns) \in Nat /\ Cardinality(Caller) \in Nat
    BY <2>1, CallAssumption, FS_CardinalityType DEF Types
  <2>3. sequence \in [Party -> 0 .. Cardinality(Caller) + 1]
    BY <2>1, <2>2 DEF Types, Subjects
  <2> QED BY <2>1, <2>3 DEF Types, TypeOK, Party
<1>2. Init => earlier \in BOOLEAN
  BY DEF Init
<1>3. earlier \in BOOLEAN /\ [Next]_vars => (earlier \in BOOLEAN)'
  BY EarlierStays
<1> QED BY <1>1, <1>2, <1>3, Invariant, PTL DEF Spec

\* A call that works has its turn on record under the sequence number it read,
\* and an Agent run that exists belongs to a recorded turn.
THEOREM RecordedFirst == Spec => []TurnRecordedFirst
<1>1. CInv => TurnRecordedFirst
  BY DEF CInv, Runs, Subjects, Own, TurnRecordedFirst
<1> QED BY <1>1, Invariant, PTL

\* A plan_execute turn that says completed or blocked has a run that does, although
\* calls, resumes and reconciliations write it without a guard on its status.
THEOREM OutcomesAgree == Spec => []OutcomeFollowsRun
<1>1. CInv => OutcomeFollowsRun
  BY DEF CInv
<1> QED BY <1>1, Invariant, PTL

\* Where turns are plan_execute turns and nobody resumes, one turn at most is
\* active, whatever crashes, signals and errors there are.
THEOREM OneActive == ASSUME Unattended PROVE Spec => []OneActiveTurn
<1>1. Init => Exclusive
  BY DEF Init, Exclusive, OneActiveTurn
<1>2. CInv /\ Exclusive /\ [Next]_vars => Exclusive'
  BY ExclusiveKept
<1>3. Exclusive => OneActiveTurn
  BY DEF Exclusive
<1> QED BY <1>1, <1>2, <1>3, Invariant, PTL DEF Spec

-----------------------------------------------------------------------------
(***************************************************************************)
(* Interrupted turns.  When processes only die, and nobody resumes a turn  *)
(* under them, a plan_execute turn is ended by a result of its run alone:  *)
(* no call is in a place where it would write an answer of its own (Owed), *)
(* and a turn whose run has not begun is active.  Signals, errors and busy *)
(* leases break this: each writes "failed" over an open run.               *)
(***************************************************************************)
OnlyCrashes == FaultKinds \subseteq {"crash"} /\ Resumer = {}

Owed ==
  /\ \A c \in Caller : pc[c] # "cancelled"
  /\ \A c \in Caller : pc[c] \in {"reconciling", "answered"} /\ ModeOf(c) = "plan_execute"
       => answer[c].status \in Ended
  /\ \A c \in Caller : pc[c] = "working" /\ ModeOf(c) = "plan_execute" => IsActive(sequence[c])
  /\ InterruptedTurnStaysActive

\* A turn that is written by its call or by a reconciliation has a run that ended
\* or no run at all, and is not that of a call about to start one.
LEMMA WrittenTurns ==
  ASSUME CInv, Owed, OnlyCrashes, NEW c \in Caller, pc[c] \in {"reconciling", "answered"},
         NEW place \in {"new", "reconciled", "done"}, Leave(c, place),
         SameTurns, Set(sequence[c], answer[c]), UNCHANGED runs
  PROVE  Owed'
<1> USE DEF CInv, Types, Runs, Subjects, Answers, Party, About, Own, OnlyCrashes, Leave, Go
<1> USE CallAssumption
<1>1. c \in Party /\ sequence[c] \in DOMAIN turns
  OBVIOUS
<1>2. ModeOf(c) = "plan_execute" => runs[RunOf(c)] \in Ended
  BY <1>1 DEF Owed
<1>3. /\ \A d \in Caller : d # c => /\ pc'[d] = pc[d] /\ sequence'[d] = sequence[d]
                                    /\ answer'[d] = answer[d]
      /\ pc'[c] = place
  OBVIOUS
<1>4. \A d \in Caller : pc[d] \in Own \cup About =>
        sequence[d] \in DOMAIN turns /\ turns'[sequence[d]].mode = turns[sequence[d]].mode
  BY DEF SameTurns
<1>5. \A n : n # sequence[c] => (IsActive(n)' <=> IsActive(n))
  BY DEF SameTurns, Set, IsActive, Active
<1>6. ASSUME NEW d \in Caller, pc'[d] = "working", ModeOf(d)' = "plan_execute"
      PROVE  IsActive(sequence[d])'
  <2>1. d # c /\ pc[d] = "working" /\ ModeOf(d) = "plan_execute" /\ sequence'[d] = sequence[d]
    BY <1>3, <1>4, <1>6 DEF ModeOf
  <2>2. runs[d] = "absent" /\ turns[sequence[d]].run = d /\ IsActive(sequence[d])
    BY <2>1 DEF Owed
  <2>3. sequence[d] # sequence[c]
    BY <1>2, <2>1, <2>2 DEF ModeOf, RunOf, Ended
  <2> QED
    BY <1>5, <2>1, <2>2, <2>3
<1>7. InterruptedTurnStaysActive'
  <2> SUFFICES ASSUME NEW n \in DOMAIN turns, turns'[n].mode = "plan_execute",
                      runs'[turns'[n].run] = "open"
               PROVE  IsActive(n)'
    BY DEF InterruptedTurnStaysActive, SameTurns
  <2>1. turns[n].mode = "plan_execute" /\ runs[turns[n].run] = "open"
    BY DEF SameTurns
  <2>2. n # sequence[c]
    BY <1>2, <2>1 DEF ModeOf, RunOf, Ended
  <2> QED
    BY <1>5, <2>1, <2>2 DEF Owed, InterruptedTurnStaysActive
<1>8. \A d \in Caller : pc'[d] # "cancelled"
  BY <1>3 DEF Owed
<1>9. \A d \in Caller : pc'[d] \in {"reconciling", "answered"} /\ ModeOf(d)' = "plan_execute"
                          => answer'[d].status \in Ended
  BY <1>3, <1>4 DEF Owed, ModeOf
<1> QED
  BY <1>3, <1>6, <1>7, <1>8, <1>9 DEF Owed, ModeOf

\* The two writes that end a turn.
LEMMA WritersKeepOwed ==
  ASSUME CInv, Owed, OnlyCrashes, NEW c \in Caller, Reconcile(c) \/ Record(c)
  PROVE  Owed'
<1>1. pc[c] \in {"reconciling", "answered"}
  BY DEF Reconcile, Record, Owed
<1>2. c \in Party /\ sequence[c] \in DOMAIN turns
  BY <1>1 DEF CInv, Subjects, About, Party
<1>3. Write(c) \/ (Refused(c) /\ UNCHANGED turns)
  BY DEF Reconcile, Record
<1>5. SameTurns /\ Set(sequence[c], answer[c])
  BY <1>2, <1>3, Writing DEF CInv
<1>6. UNCHANGED runs /\ \E place \in {"new", "reconciled", "done"} : Leave(c, place)
  BY DEF Reconcile, Record
<1> QED BY <1>1, <1>5, <1>6, WrittenTurns

\* An ephemeral turn is reconciled without asking for a run.
LEMMA EphemeralLeavesPlans ==
  ASSUME CInv, Owed, NEW c \in Caller, GetEphemeral(c)
  PROVE  Owed'
<1>1. /\ UNCHANGED <<turns, runs>> /\ pc \in [Party -> Location] /\ c \in Party
      /\ sequence \in [Party -> Nat] /\ answer \in [Party -> Result]
  BY DEF GetEphemeral, CInv, Types, Party
<1>2. CASE Go(c, "reconciled") /\ UNCHANGED <<sequence, answer>>
  BY <1>1, <1>2
  DEF Owed, InterruptedTurnStaysActive, IsActive, ModeOf, Go, Party
<1>3. ASSUME NEW n \in DOMAIN turns, turns[n].mode = "ephemeral",
             sequence' = [sequence EXCEPT ![c] = n],
             \E result : answer' = [answer EXCEPT ![c] = result],
             Go(c, "reconciling")
      PROVE  Owed'
  <2>1. \A d \in Caller : d # c => /\ pc'[d] = pc[d] /\ sequence'[d] = sequence[d]
                                  /\ answer'[d] = answer[d]
    BY <1>1, <1>3 DEF Go, Party
  <2>2. pc'[c] = "reconciling" /\ ModeOf(c)' = "ephemeral"
    BY <1>1, <1>3 DEF Go, ModeOf
  <2> QED
    BY <1>1, <2>1, <2>2 DEF Owed, InterruptedTurnStaysActive, IsActive, ModeOf
<1> QED
  BY <1>2, <1>3 DEF GetEphemeral

\* The call that appended the turn writes "running", before its run exists.
LEMMA BeginningKeepsOwed ==
  ASSUME CInv, Owed, NEW c \in Caller, BeginTurn(c)
  PROVE  Owed'
<1>1. /\ sequence[c] \in DOMAIN turns /\ turns[sequence[c]].run = c /\ runs[c] = "absent"
      /\ UNCHANGED <<runs, sequence, answer>> /\ Res("running", "none") \in Result
      /\ c \in Party /\ pc[c] = "pending"
  BY DEF BeginTurn, CInv, Subjects, Runs, Own, Party, Res, Result, Active, Text
<1>2. SameTurns /\ Set(sequence[c], Res("running", "none"))
  BY <1>1, Setting DEF BeginTurn, CInv
<1>3. pc'[c] = "working" /\ \A d \in Caller : d # c => pc'[d] = pc[d]
  BY <1>1 DEF BeginTurn, Go, CInv, Types, Party
<1>4. \A n \in DOMAIN turns : IsActive(n) \/ n = sequence[c] => IsActive(n)'
  BY <1>2 DEF SameTurns, Set, IsActive, Active, Res
<1>5. \A d \in Caller : pc[d] \in Own \cup About =>
        sequence[d] \in DOMAIN turns /\ turns'[sequence[d]].mode = turns[sequence[d]].mode
  BY <1>2 DEF SameTurns, CInv, Subjects, Party
<1>6. ASSUME NEW d \in Caller, pc'[d] = "working", ModeOf(d)' = "plan_execute"
      PROVE  IsActive(sequence[d])'
  <2>1. CASE d = c
    BY <1>1, <1>4, <2>1
  <2>2. CASE d # c
    <3>1. pc[d] = "working" /\ sequence[d] \in DOMAIN turns /\ ModeOf(d) = "plan_execute"
      BY <1>1, <1>3, <1>5, <1>6, <2>2 DEF ModeOf, Own
    <3> QED
      BY <1>1, <1>4, <3>1 DEF Owed
  <2> QED
    BY <2>1, <2>2
<1>7. InterruptedTurnStaysActive'
  BY <1>1, <1>2, <1>4 DEF SameTurns, Owed, InterruptedTurnStaysActive
<1>8. \A d \in Caller : pc'[d] \in {"reconciling", "answered"} /\ ModeOf(d)' = "plan_execute"
        => answer'[d].status \in Ended
  BY <1>1, <1>3, <1>5 DEF Owed, ModeOf, About
<1> QED
  BY <1>3, <1>6, <1>7, <1>8 DEF Owed

LEMMA OwedKept ==
  ASSUME CInv, Owed, OnlyCrashes, [Next]_vars
  PROVE  Owed'
<1> USE DEF CInv, Types, Runs, Subjects, Answers, Owed, InterruptedTurnStaysActive, OnlyCrashes,
            Early, Own, About
<1> USE CallAssumption, NameAssumption, ServiceAssumption, ModesAssumption
<1> USE DEF Go, Leave, Fault, Forget, Abandoned, Free, Refused, Res, NoAnswer, DurableAnswer,
  ModeOf, RunOf, Active, Ended, Text, Result, Turn, Location, Party, IsActive, IsFirstActive,
  Busy, vars
<1>1. ASSUME NEW c \in Caller, Create(c) \/ GetIdle(c) PROVE Owed'
  BY <1>1 DEF Create, GetIdle
<1>2. ASSUME NEW c \in Caller, GetEphemeral(c) PROVE Owed'
  BY <1>2, EphemeralLeavesPlans
<1>3. ASSUME NEW c \in Caller, GetPlan(c) PROVE Owed'
  BY <1>3 DEF GetPlan
<1>4. ASSUME NEW c \in Caller, AskRun(c) PROVE Owed'
  <2>1. CASE \E place \in {"new", "reconciled"} : Leave(c, place)
    BY <1>4, <2>1 DEF AskRun
  <2>2. ASSUME NEW status \in Ended, status = runs[RunOf(c)],
               answer' = [answer EXCEPT ![c] = Res(status, "none")],
               Go(c, "reconciling"), UNCHANGED sequence
        PROVE  Owed'
    BY <1>4, <2>2 DEF AskRun
  <2> QED BY <1>4, <2>1, <2>2 DEF AskRun
<1>5. ASSUME NEW c \in Caller, Reconcile(c) \/ Record(c) PROVE Owed'
  BY <1>5, WritersKeepOwed
<1>6. ASSUME NEW c \in Caller, ReadHistory(c) PROVE Owed'
  <2>1. CASE Go(c, "new") /\ UNCHANGED sequence
    BY <1>6, <2>1 DEF ReadHistory
  <2>2. CASE Go(c, "ready") /\ sequence' = [sequence EXCEPT ![c] = Len(turns) + 1]
    BY <1>6, <2>2 DEF ReadHistory
  <2> QED BY <1>6, <2>1, <2>2 DEF ReadHistory
<1>7. ASSUME NEW c \in Caller, AppendTurn(c) PROVE Owed'
  <2>1. CASE Refusal(c)
    BY <1>7, <2>1 DEF AppendTurn, Refusal
  <2>2. CASE Acceptance(c)
    <3>1. /\ DOMAIN turns' = DOMAIN turns \union {Len(turns) + 1}
          /\ \A n \in DOMAIN turns : turns'[n] = turns[n]
          /\ turns'[Len(turns) + 1].run = c
          /\ UNCHANGED <<runs, sequence, answer>>
      BY <2>2 DEF Acceptance, Appended
    <3>2. runs[c] = "absent"
      BY <1>7, Unstarted DEF AppendTurn
    <3>3. /\ \A d \in Caller : d # c => pc'[d] = pc[d]
          /\ pc'[c] = "pending"
      BY <2>2 DEF Acceptance
    <3>4. InterruptedTurnStaysActive'
      <4> SUFFICES ASSUME NEW n \in DOMAIN turns', turns'[n].mode = "plan_execute",
                          runs'[turns'[n].run] = "open"
                   PROVE  IsActive(n)'
        BY DEF InterruptedTurnStaysActive
      <4>1. n \in DOMAIN turns
        BY <3>1, <3>2
      <4> QED BY <3>1, <4>1
    <3>5. \A d \in Caller : pc'[d] = "working" /\ ModeOf(d)' = "plan_execute"
            => IsActive(sequence[d])'
      BY <3>1, <3>3
    <3>6. \A d \in Caller : pc'[d] \in {"reconciling", "answered"} /\ ModeOf(d)' = "plan_execute"
            => answer'[d].status \in Ended
      BY <3>1, <3>3
    <3> QED BY <3>1, <3>3, <3>4, <3>5, <3>6
  <2> QED BY <1>7, <2>1, <2>2, AppendCases
<1>8. ASSUME NEW c \in Caller, BeginTurn(c) PROVE Owed'
  BY <1>8, BeginningKeepsOwed
<1>9. ASSUME NEW c \in Caller, AnswerEphemeral(c) PROVE Owed'
  BY <1>9 DEF AnswerEphemeral
<1>10. ASSUME NEW c \in Caller, StartRun(c) PROVE Owed'
  BY <1>10 DEF StartRun
<1>11. ASSUME NEW r \in Caller, AgentResume(r) PROVE Owed'
  BY <1>11 DEF AgentResume
<1>12. ASSUME NEW c \in Caller, FinishRun(c) PROVE Owed'
  BY <1>12 DEF FinishRun
<1>14. ASSUME NEW s \in Service, Crash(s) PROVE Owed'
  BY <1>14 DEF Crash
<1>15. ASSUME NEW c \in Caller, RaiseRun(c) \/ RaiseOutside(c) \/ Cancel(c) PROVE FALSE
  BY <1>15 DEF RaiseRun, RaiseOutside, Cancel
<1>16. CASE UNCHANGED vars
  BY <1>16
<1> QED
  BY <1>1, <1>2, <1>3, <1>4, <1>5, <1>6, <1>7, <1>8, <1>9, <1>10, <1>11, <1>12, <1>14,
    <1>15, <1>16 DEF Next, CallStep

\* Where processes only die and nobody resumes meanwhile, a plan_execute turn stays
\* active as long as its run is open, for any number of calls, services, reconciliations
\* and deaths: a later resume finds it.
THEOREM CrashedTurnStaysActive == ASSUME OnlyCrashes PROVE Spec => []InterruptedTurnStaysActive
<1>1. Init => Owed
  BY DEF Init, Owed, InterruptedTurnStaysActive
<1>2. CInv /\ Owed /\ [Next]_vars => Owed'
  BY OwedKept
<1>3. Owed => InterruptedTurnStaysActive
  BY DEF Owed
<1> QED BY <1>1, <1>2, <1>3, Invariant, PTL DEF Spec
===============================================================================
