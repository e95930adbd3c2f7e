---------------------------- MODULE RunLeaseProofs ---------------------------
(***************************************************************************)
(* RunLease: the types, and that the lease excludes a second executor for  *)
(* any number of invocations, any length of the lease and any faults, as   *)
(* long as no renewal has been late or refused.                            *)
(*                                                                         *)
(* AtMostOneExecutor alone is not inductive: it does not say whose lease   *)
(* it is.  The invariant Exclusive says that an invocation between acquire *)
(* and release owns the lease, that its renewal task is alive, and that    *)
(* the lease has lost a tick exactly when the renewal is due.              *)
(***************************************************************************)
EXTENDS RunLease, FiniteSetTheorems, TLAPS

Holding(p) == proc[p] \in {"reading", "executing", "returned", "leaving"}

Exclusive ==
  \A p \in Owner : Holding(p) =>
    /\ lease.owner = p
    /\ renewal[p] = "asleep"
    /\ lease.left = LeaseTicks - 1 + wait[p]

LInv == TypeOK /\ Exclusive

-----------------------------------------------------------------------------
\* Before the run exists every variable has its type.
LEMMA InitTypeOK == Init => TypeOK
<1> SUFFICES ASSUME Init PROVE TypeOK
  OBVIOUS
<1>1. /\ faults \in 0 .. MaxFaults
      /\ lease \in [owner : Owner \union {NoOwner}, left : 0 .. LeaseTicks]
      /\ wait \in [Owner -> 0 .. 1]
  BY BoundAssumption, LeaseAssumption DEF Init
<1>2. missed \in BOOLEAN
  BY DEF Init
<1> QED
  BY <1>1, <1>2 DEF Init, TypeOK, Location, Found, Terminal, Ended

\* What a signal leaves in the checkpoint is one of the things to be found.
LEMMA InterruptedFound == \A found \in Found : Interrupted(found) \subseteq Found
  BY DEF Interrupted, Found

\* Every step keeps the types.
LEMMA NextTypeOK == TypeOK /\ [Next]_vars => TypeOK'
<1> SUFFICES ASSUME TypeOK, [Next]_vars PROVE TypeOK'
  OBVIOUS
<1> USE BoundAssumption, LeaseAssumption DEF TypeOK, Location, Found, Terminal, Ended
<1>1. CASE UNCHANGED vars
  BY <1>1 DEF vars
<1>2. ASSUME NEW kind, Fault(kind) PROVE faults' \in 0 .. MaxFaults
  BY <1>2 DEF Fault
<1>3. ASSUME NEW p \in Owner, Create(p) \/ Check(p) \/ Busy(p) \/ Begin(p) PROVE TypeOK'
  BY <1>3 DEF Create, Check, Busy, Begin, Go
<1>4. ASSUME NEW p \in Owner, Acquire(p) PROVE TypeOK'
  BY <1>4 DEF Acquire, Take, Go
<1>5. ASSUME NEW p \in Owner, Read(p) PROVE TypeOK'
  <2>1. /\ proc' = [proc EXCEPT ![p] = proc'[p]]
        /\ proc'[p] \in {"returned", "leaving", "executing"}
    BY <1>5 DEF Read, Go, Refused
  <2>2. proc' \in [Owner -> Location]
    BY <2>1
  <2>3. /\ result' \in [Owner -> {"none"} \union Terminal]
        /\ \A q \in Owner \ {p} : result'[q] = result[q] /\ proc'[q] = proc[q]
    BY <1>5 DEF Read, Go
  <2>4. proc'[p] = "returned" => result'[p] \in Terminal
    BY <1>5, <2>1 DEF Read, Go, Refused
  <2>5. \A q \in Owner : proc'[q] = "returned" => result'[q] \in Terminal
    BY <2>3, <2>4
  <2> QED
    BY <1>5, <2>2, <2>3, <2>5 DEF Read
<1>6. ASSUME NEW p \in Owner, Finish(p) \/ Progress(p) \/ SetTerminal(p) PROVE TypeOK'
  <2>1. CASE Finish(p)
    BY <2>1 DEF Finish, Go
  <2>2. CASE Progress(p)
    BY <2>2 DEF Progress
  <2>3. CASE SetTerminal(p)
    BY <2>3 DEF SetTerminal, Go
  <2> QED
    BY <1>6, <2>1, <2>2, <2>3
<1>7. ASSUME NEW p \in Owner, Leave(p) PROVE TypeOK'
  BY <1>7 DEF Leave, Go
<1>8. ASSUME NEW p \in Owner, Raise(p) PROVE TypeOK'
  BY <1>2, <1>8 DEF Raise, Go
<1>9. ASSUME NEW p \in Owner, Cancel(p) PROVE TypeOK'
  <2>1. checkpoint' \in Found
    BY <1>9, InterruptedFound DEF Cancel
  <2> QED
    BY <1>2, <1>9, <2>1 DEF Cancel, Go
<1>10. ASSUME NEW p \in Owner, Crash(p) PROVE TypeOK'
  BY <1>2, <1>10 DEF Crash, Go
<1>11. ASSUME NEW p \in Owner, Renew(p) PROVE TypeOK'
  BY <1>11 DEF Renew
<1>12. ASSUME NEW p \in Owner, RenewRaises(p) PROVE TypeOK'
  BY <1>2, <1>12 DEF RenewRaises
<1>13. CASE Tick
  <2>1. \A p \in Owner : (IF wait[p] > 0 THEN wait[p] - 1 ELSE 0) \in 0 .. 1
    OBVIOUS
  <2>2. wait' \in [Owner -> 0 .. 1]
    BY <1>13, <2>1 DEF Tick
  <2>3. lease' \in [owner : Owner \union {NoOwner}, left : 0 .. LeaseTicks]
    BY <1>13 DEF Tick
  <2> QED
    BY <1>13, <2>2, <2>3 DEF Tick
<1> QED
  BY <1>1, <1>3, <1>4, <1>5, <1>6, <1>7, <1>8, <1>9, <1>10, <1>11, <1>12, <1>13
     DEF Next, Work

\* Every variable keeps its type: the lease never outlasts LEASE_SECONDS, and
\* the owner of an expired or released one is known to the row.
THEOREM LeaseTypes == Spec => []TypeOK
  BY InitTypeOK, NextTypeOK, PTL DEF Spec

-----------------------------------------------------------------------------
\* While somebody holds the lease it has not expired.
LEMMA HeldIsLive ==
  ASSUME LInv, NEW p \in Owner, Holding(p)
  PROVE  lease.owner # NoOwner /\ lease.left > 0
  BY LeaseAssumption, OwnerAssumption DEF LInv, TypeOK, Exclusive

\* A step of one invocation that neither takes nor renews the lease, and keeps
\* its own renewal task if it stays between acquire and release, keeps it.
LEMMA OtherStepKeeps ==
  ASSUME LInv, NEW p \in Owner,
         UNCHANGED <<lease, renewal, wait>>,
         \E place : proc' = [proc EXCEPT ![p] = place],
         Holding(p)' => Holding(p)
  PROVE  Exclusive'
  BY DEF LInv, TypeOK, Exclusive, Holding

\* A step that misses no renewal keeps the lease exclusive.
LEMMA NextExclusive ==
  ASSUME LInv, [Next]_vars, ~missed'
  PROVE  Exclusive'
<1> USE LeaseAssumption, OwnerAssumption
<1>1. CASE UNCHANGED vars
  BY <1>1 DEF vars, LInv, Exclusive, Holding
<1>2. ASSUME NEW p \in Owner, Create(p) \/ Check(p) \/ Busy(p) PROVE Exclusive'
  <2>1. UNCHANGED <<lease, renewal, wait>> /\ \E place : proc' = [proc EXCEPT ![p] = place]
    BY <1>2 DEF Create, Check, Busy, Go
  <2>2. ~Holding(p)'
    BY <1>2 DEF Create, Check, Busy, Go, Holding, LInv, TypeOK
  <2> QED
    BY <2>1, <2>2, OtherStepKeeps
<1>3. ASSUME NEW p \in Owner, Acquire(p) PROVE Exclusive'
  <2>1. \A q \in Owner : ~Holding(q)
    BY <1>3, HeldIsLive DEF Acquire, LInv, TypeOK
  <2>2. \A q \in Owner \ {p} : ~Holding(q)'
    BY <1>3, <2>1 DEF Acquire, Take, Go, Holding, LInv, TypeOK
  <2>3. lease'.owner = p /\ renewal'[p] = "asleep" /\ lease'.left = LeaseTicks - 1 + wait'[p]
    BY <1>3 DEF Acquire, Take, LInv, TypeOK
  <2> QED
    BY <2>2, <2>3 DEF Exclusive
<1>4. ASSUME NEW p \in Owner, Begin(p) \/ Read(p) \/ Finish(p) \/ SetTerminal(p) \/ Raise(p) \/ Cancel(p)
      PROVE Exclusive'
  <2>1. UNCHANGED <<lease, renewal, wait>> /\ \E place : proc' = [proc EXCEPT ![p] = place]
    BY <1>4 DEF Begin, Read, Finish, SetTerminal, Raise, Cancel, Go
  <2>2. Holding(p)
    BY <1>4 DEF Begin, Read, Finish, SetTerminal, Raise, Cancel, Holding
  <2> QED
    BY <2>1, <2>2, OtherStepKeeps
<1>5. ASSUME NEW p \in Owner, Progress(p) PROVE Exclusive'
  BY <1>5 DEF Progress, LInv, Exclusive, Holding
<1>6. ASSUME NEW p \in Owner, Leave(p) PROVE Exclusive'
  <2>1. Holding(p) /\ lease.owner = p
    BY <1>6 DEF Leave, Holding, LInv, Exclusive
  <2>2. \A q \in Owner \ {p} : ~Holding(q)
    BY <2>1 DEF LInv, Exclusive
  <2>3. \A q \in Owner : ~Holding(q)'
    BY <1>6, <2>2 DEF Leave, Go, Holding, LInv, TypeOK
  <2> QED
    BY <2>3 DEF Exclusive
<1>7. ASSUME NEW p \in Owner, Crash(p) PROVE Exclusive'
  <2>1. ~Holding(p)'
    BY <1>7 DEF Crash, Go, Holding, LInv, TypeOK
  <2>2. UNCHANGED lease /\ \A q \in Owner \ {p} :
          renewal'[q] = renewal[q] /\ wait'[q] = wait[q] /\ (Holding(q)' => Holding(q))
    BY <1>7 DEF Crash, Go, Holding, LInv, TypeOK
  <2> QED
    BY <2>1, <2>2 DEF LInv, Exclusive
<1>8. ASSUME NEW p \in Owner, Renew(p) PROVE Exclusive'
  <2>1. UNCHANGED proc /\ Awake(p)
    BY <1>8 DEF Renew
  <2>2. CASE lease.owner = p /\ lease.left > 0
    <3>1. /\ lease'.owner = p /\ lease'.left = LeaseTicks
          /\ wait'[p] = 1 /\ UNCHANGED renewal
      BY <1>8, <2>2 DEF Renew, LInv, TypeOK
    <3>2. \A q \in Owner : Holding(q)' => q = p
      BY <2>1, <2>2 DEF Holding, LInv, Exclusive
    <3> QED
      BY <2>1, <3>1, <3>2 DEF Awake, Exclusive
  <2>3. CASE ~(lease.owner = p /\ lease.left > 0)
    <3>1. UNCHANGED <<lease, wait>> /\ renewal' = [renewal EXCEPT ![p] = "failed"]
      BY <1>8, <2>3 DEF Renew
    <3>2. ~Holding(p)
      BY <2>3, HeldIsLive DEF LInv, Exclusive
    <3> QED
      BY <2>1, <3>1, <3>2 DEF LInv, TypeOK, Exclusive, Holding
  <2> QED
    BY <2>2, <2>3
<1>9. ASSUME NEW p \in Owner PROVE ~RenewRaises(p)
  BY DEF RenewRaises
<1>10. CASE Tick
  <2>1. \A p \in Owner : ~Awake(p)
    BY <1>10 DEF Tick
  <2> SUFFICES ASSUME NEW p \in Owner, Holding(p)'
               PROVE  /\ lease'.owner = p
                      /\ renewal'[p] = "asleep"
                      /\ lease'.left = LeaseTicks - 1 + wait'[p]
    BY DEF Exclusive
  <2>2. Holding(p) /\ UNCHANGED renewal
    BY <1>10 DEF Tick, Holding
  <2>3. wait[p] = 1 /\ lease.owner = p /\ lease.left = LeaseTicks
    BY <2>1, <2>2 DEF Awake, LInv, TypeOK, Exclusive
  <2>4. wait'[p] = 0 /\ lease'.owner = p /\ lease'.left = LeaseTicks - 1
    BY <1>10, <2>3 DEF Tick, LInv, TypeOK
  <2> QED
    BY <2>2, <2>4 DEF LInv, Exclusive
<1> QED
  BY <1>1, <1>2, <1>3, <1>4, <1>5, <1>6, <1>7, <1>8, <1>9, <1>10 DEF Next, Work

\* Among the holders of one lease there is at most one executor.
LEMMA ExclusiveIsEnough == LInv => AtMostOneExecutor
<1> SUFFICES ASSUME LInv PROVE Cardinality(Executors) <= 1
  BY DEF AtMostOneExecutor
<1>1. \A p \in Executors : Executors = {p}
  BY DEF Executors, LInv, Exclusive, Holding
<1>2. CASE Executors = {}
  BY <1>2, FS_EmptySet
<1>3. CASE Executors # {}
  <2>1. PICK p \in Executors : Executors = {p}
    BY <1>1, <1>3
  <2> QED
    BY <2>1, FS_Singleton
<1> QED
  BY <1>2, <1>3

\* No step forgets that a renewal was missed.
LEMMA MissedStays == TypeOK /\ [Next]_vars /\ missed => missed'
  BY DEF TypeOK, vars, Next, Work, Create, Check, Acquire, Take, Busy, Begin, Read, Finish,
         SetTerminal, Leave, Progress, Renew, Raise, Cancel, Crash, RenewRaises, Tick

\* The lease is exclusive as long as no renewal was missed.
Excludes == TypeOK /\ (~missed => Exclusive)

\* Excludes is inductive.
LEMMA ExcludesInductive == (Init => Excludes) /\ (Excludes /\ [Next]_vars => Excludes')
<1>1. Init => Excludes
  BY InitTypeOK DEF Init, Excludes, Exclusive, Holding
<1>2. Excludes /\ [Next]_vars => Excludes'
  BY NextTypeOK, NextExclusive, MissedStays DEF LInv, Excludes
<1> QED
  BY <1>1, <1>2

\* As long as no renewal has been late or refused, two processes never execute
\* the run at once: whatever crashes, signals, errors, takeovers and races
\* between the check of a resume and its acquire there are, for any number of
\* invocations.
THEOREM LeaseExcludes == Spec => []PunctualExclusion
<1>1. Excludes => PunctualExclusion
  BY ExclusiveIsEnough DEF Excludes, LInv, PunctualExclusion
<1> QED
  BY <1>1, ExcludesInductive, PTL DEF Spec

-----------------------------------------------------------------------------
\* Until the creating invocation starts nothing is saved, executed or returned.
Fresh ==
  /\ record = "absent" => checkpoint = "unsaved" /\ \A p \in Owner : proc[p] = "new"
  /\ creator \in Owner => proc[creator] # "new"
  /\ creator \in Owner /\ proc[creator] \in {"checked", "reading"} =>
       /\ checkpoint = "unsaved"
       /\ record # "completed"
       /\ \A p \in Owner : proc[p] \notin {"executing", "returned"}

\* A completed run has a checkpoint that cannot be opened again, and whoever is
\* about to register a result registers completed.
Completion ==
  record = "completed" =>
    /\ checkpoint \in {"completed", "ahead"}
    /\ \A p \in Owner : /\ proc[p] # "executing"
                        /\ proc[p] = "returned" => result[p] = "completed"

\* A result that says completed was saved first.
Saved ==
  \A p \in Owner : proc[p] = "returned" /\ result[p] = "completed" => checkpoint = "completed"

CInv == Excludes /\ Fresh /\ (~missed => Completion /\ Saved)

\* Every step keeps Fresh.
LEMMA NextFresh ==
  ASSUME TypeOK, Fresh, [Next]_vars
  PROVE  Fresh'
<1> USE OwnerAssumption
<1>1. CASE UNCHANGED vars
  BY <1>1 DEF vars, Fresh
<1>2. ASSUME NEW p \in Owner, Create(p) PROVE Fresh'
  BY <1>2 DEF Create, Go, Fresh, TypeOK
<1>3. ASSUME NEW p \in Owner, Check(p) \/ Busy(p) \/ Acquire(p) PROVE Fresh'
  <2>1. /\ UNCHANGED <<checkpoint, record, creator>>
        /\ proc' = [proc EXCEPT ![p] = proc'[p]]
        /\ proc'[p] \in {"new", "done", "answered", "checked", "reading"}
        /\ record = "absent" => proc'[p] = "new"
        /\ p = creator => proc[p] \in {"checked", "reading"} /\ proc'[p] # "new"
    <3>1. CASE Check(p)
      <4>1. proc[p] = "new" /\ record # "absent"
        BY <3>1 DEF Check
      <4>2. proc' = [proc EXCEPT ![p] = IF record \in Terminal THEN "answered" ELSE "checked"]
        BY <3>1 DEF Check, Go
      <4>3. proc' = [proc EXCEPT ![p] = proc'[p]] /\ proc'[p] \in {"answered", "checked"}
        BY <4>2 DEF TypeOK
      <4>4. p # creator
        BY <4>1 DEF Fresh
      <4> QED
        BY <3>1, <4>1, <4>3, <4>4 DEF Check
    <3>2. CASE Busy(p)
      BY <1>3, <3>2 DEF Busy, Go, TypeOK, Fresh
    <3>3. CASE Acquire(p)
      BY <1>3, <3>3 DEF Acquire, Take, Go, TypeOK, Fresh
    <3> QED
      BY <1>3, <3>1, <3>2, <3>3
  <2> QED
    BY <2>1 DEF Fresh, TypeOK
<1>4. ASSUME NEW p \in Owner, Begin(p) PROVE Fresh'
  BY <1>4 DEF Begin, Go, Fresh, TypeOK
<1>5. ASSUME NEW p \in Owner, Read(p) PROVE Fresh'
  BY <1>5 DEF Read, Go, Fresh, TypeOK, Ended, Refused
<1>6. ASSUME NEW p \in Owner, Progress(p) \/ Finish(p) PROVE Fresh'
  BY <1>6 DEF Progress, Finish, Go, Fresh, TypeOK
<1>7. ASSUME NEW p \in Owner, SetTerminal(p) PROVE Fresh'
  BY <1>7 DEF SetTerminal, Go, Fresh, TypeOK, Terminal, Ended
<1>8. ASSUME NEW p \in Owner, Leave(p) PROVE Fresh'
  BY <1>8 DEF Leave, Go, Fresh, TypeOK
<1>9. ASSUME NEW p \in Owner, Raise(p) PROVE Fresh'
  BY <1>9 DEF Raise, Go, Fresh, TypeOK
<1>10. ASSUME NEW p \in Owner, Cancel(p) PROVE Fresh'
  BY <1>10 DEF Cancel, Go, Interrupted, Fresh, TypeOK
<1>11. ASSUME NEW p \in Owner, Crash(p) PROVE Fresh'
  BY <1>11 DEF Crash, Go, Fresh, TypeOK
<1>12. ASSUME NEW p \in Owner, Renew(p) \/ RenewRaises(p) PROVE Fresh'
  BY <1>12 DEF Renew, RenewRaises, Fresh
<1>13. CASE Tick
  BY <1>13 DEF Tick, Fresh
<1> QED
  BY <1>1, <1>2, <1>3, <1>4, <1>5, <1>6, <1>7, <1>8, <1>9, <1>10, <1>11, <1>12, <1>13
     DEF Next, Work

\* A step that misses no renewal keeps Completion and Saved: between acquire and
\* release an invocation is the only one that writes the checkpoint.
LEMMA NextCompletion ==
  ASSUME TypeOK, Exclusive, Fresh, Completion, Saved, [Next]_vars, ~missed'
  PROVE  Completion' /\ Saved'
<1>1. CASE UNCHANGED vars
  BY <1>1 DEF vars, Completion, Saved
<1>2. \A p, q \in Owner : Holding(p) /\ Holding(q) => p = q
  BY DEF Exclusive
<1>3. ASSUME NEW p \in Owner, Create(p) PROVE Completion' /\ Saved'
  BY <1>3 DEF Create, Go, Fresh, Completion, Saved, TypeOK
<1>4. ASSUME NEW p \in Owner, Check(p) \/ Busy(p) \/ Acquire(p) \/ Leave(p) PROVE Completion' /\ Saved'
  <2>1. /\ UNCHANGED <<checkpoint, record, result>>
        /\ proc' = [proc EXCEPT ![p] = proc'[p]]
        /\ proc'[p] \in {"new", "done", "answered", "checked", "reading"}
    <3>1. CASE Check(p)
      BY <3>1 DEF Check, Go, TypeOK
    <3>2. CASE Busy(p)
      BY <3>2 DEF Busy, Go, TypeOK
    <3>3. CASE Acquire(p)
      BY <3>3 DEF Acquire, Take, Go, TypeOK
    <3>4. CASE Leave(p)
      BY <3>4 DEF Leave, Go, TypeOK
    <3> QED
      BY <1>4, <3>1, <3>2, <3>3, <3>4
  <2> QED
    BY <2>1 DEF Completion, Saved, TypeOK
<1>5. ASSUME NEW p \in Owner, Begin(p) PROVE Completion' /\ Saved'
  BY <1>5 DEF Begin, Go, Fresh, Completion, Saved, TypeOK
<1>6. ASSUME NEW p \in Owner, Read(p) PROVE Completion' /\ Saved'
  BY <1>6 DEF Read, Go, Ended, Refused, Completion, Saved, TypeOK
<1>7. ASSUME NEW p \in Owner, proc[p] = "executing",
             \A q \in Owner \ {p} : proc'[q] = proc[q] /\ result'[q] = result[q],
             UNCHANGED record,
             proc'[p] = "returned" /\ result'[p] = "completed" => checkpoint' = "completed"
      PROVE Completion' /\ Saved'
  <2>1. record # "completed"
    BY <1>7 DEF Completion
  <2>2. \A q \in Owner \ {p} : proc[q] # "returned"
    BY <1>2, <1>7 DEF Holding
  <2> QED
    BY <1>7, <2>1, <2>2 DEF Completion, Saved
<1>8. ASSUME NEW p \in Owner, Progress(p) PROVE Completion' /\ Saved'
  BY <1>7, <1>8 DEF Progress
<1>9. ASSUME NEW p \in Owner, Finish(p) PROVE Completion' /\ Saved'
  BY <1>7, <1>9 DEF Finish, Go, TypeOK
<1>10. ASSUME NEW p \in Owner, Raise(p) PROVE Completion' /\ Saved'
  <2>1. CASE proc[p] = "executing"
    BY <1>7, <1>10, <2>1 DEF Raise, Go, TypeOK
  <2>2. CASE proc[p] # "executing"
    BY <1>10, <2>2 DEF Raise, Go, Fresh, Completion, Saved, TypeOK
  <2> QED
    BY <2>1, <2>2
<1>11. ASSUME NEW p \in Owner, Cancel(p) PROVE Completion' /\ Saved'
  <2>1. CASE proc[p] = "executing"
    BY <1>7, <1>11, <2>1 DEF Cancel, Go, TypeOK
  <2>2. CASE proc[p] = "reading"
    <3>1. \A q \in Owner : proc'[q] \notin {"executing", "returned"}
      BY <1>2, <1>11, <2>2 DEF Cancel, Go, Holding, TypeOK
    <3> QED
      BY <1>11, <2>2, <3>1 DEF Cancel, Interrupted, Completion, Saved
  <2>3. CASE proc[p] = "returned"
    BY <1>11, <2>3 DEF Cancel, Go, Completion, Saved, TypeOK
  <2> QED
    BY <1>11, <2>1, <2>2, <2>3 DEF Cancel
<1>12. ASSUME NEW p \in Owner, SetTerminal(p) PROVE Completion' /\ Saved'
  <2>1. \A q \in Owner : proc'[q] \notin {"executing", "returned"}
    BY <1>2, <1>12 DEF SetTerminal, Go, Holding, TypeOK
  <2> QED
    BY <1>12, <2>1 DEF SetTerminal, Completion, Saved, TypeOK
<1>13. ASSUME NEW p \in Owner, Crash(p) PROVE Completion' /\ Saved'
  <2>1. CASE proc[p] = "executing"
    BY <1>7, <1>13, <2>1 DEF Crash, Go, TypeOK
  <2>2. CASE proc[p] # "executing"
    BY <1>13, <2>2 DEF Crash, Go, Completion, Saved, TypeOK
  <2> QED
    BY <2>1, <2>2
<1>14. ASSUME NEW p \in Owner, Renew(p) \/ RenewRaises(p) PROVE Completion' /\ Saved'
  BY <1>14 DEF Renew, RenewRaises, Completion, Saved
<1>15. CASE Tick
  BY <1>15 DEF Tick, Completion, Saved
<1> QED
  BY <1>1, <1>3, <1>4, <1>5, <1>6, <1>8, <1>9, <1>10, <1>11, <1>12, <1>13, <1>14, <1>15
     DEF Next, Work

\* CInv is inductive.
LEMMA CInvInductive == (Init => CInv) /\ (CInv /\ [Next]_vars => CInv')
<1>1. Init => Fresh /\ Completion /\ Saved
  BY OwnerAssumption DEF Init, Fresh, Completion, Saved
<1>2. ASSUME CInv, [Next]_vars PROVE CInv'
  <2>1. Excludes' /\ Fresh'
    BY <1>2, ExcludesInductive, NextFresh DEF CInv, Excludes
  <2>2. ASSUME ~missed' PROVE Completion' /\ Saved'
    BY <1>2, <2>2, MissedStays, NextCompletion DEF CInv, Excludes
  <2> QED
    BY <2>1, <2>2 DEF CInv
<1> QED
  BY <1>1, <1>2, ExcludesInductive DEF CInv

\* As long as no renewal was late or refused, nobody executes a run whose
\* registry says completed, for any number of invocations and any faults.
THEOREM CompletedRunRests == Spec => []NoWorkAfterCompletion
<1>1. CInv => NoWorkAfterCompletion
  BY DEF CInv, Completion, NoWorkAfterCompletion, Executors
<1> QED
  BY <1>1, CInvInductive, PTL DEF Spec

\* Under the same condition no invocation gives a completed run another status,
\* although set_terminal asks neither for the expiry nor for the old status.
THEOREM CompletedStays == Spec => CompletedIsFinal
<1>1. ASSUME CInv, [Next]_vars, ~missed, record = "completed" PROVE UNCHANGED record
  <2>1. ASSUME NEW p \in Owner, SetTerminal(p) PROVE UNCHANGED record
    BY <1>1, <2>1 DEF SetTerminal, CInv, Completion
  <2> QED
    BY <1>1, <2>1 DEF vars, Next, Work, Create, Check, Acquire, Take, Busy, Begin, Read, Finish,
       Leave, Progress, Renew, Raise, Cancel, Crash, RenewRaises, Tick
<1>2. CInv /\ [Next]_vars => [~missed /\ record = "completed" => UNCHANGED record]_vars
  BY <1>1
<1> QED
  BY <1>2, CInvInductive, PTL DEF Spec, CompletedIsFinal

-----------------------------------------------------------------------------
(***************************************************************************)
(* What is at fault when two processes execute the run.                    *)
(***************************************************************************)
\* A renewal is missed only by a database that refuses it or a process that is
\* late.
LEMMA NothingMissed ==
  ASSUME {"late", "database"} \cap FaultKinds = {}, ~missed, [Next]_vars
  PROVE  ~missed'
<1>1. CASE UNCHANGED vars
  BY <1>1 DEF vars
<1>2. CASE Tick
  BY <1>2 DEF Tick
<1>3. ASSUME NEW p \in Owner, RenewRaises(p) PROVE FALSE
  BY <1>3 DEF RenewRaises, Fault
<1>4. ASSUME NEW p \in Owner,
             Work(p) \/ Progress(p) \/ Renew(p) \/ Raise(p) \/ Cancel(p) \/ Crash(p)
      PROVE  ~missed'
  BY <1>4 DEF Work, Create, Check, Acquire, Busy, Begin, Read, Finish, SetTerminal, Leave,
              Progress, Renew, Raise, Cancel, Crash
<1> QED
  BY <1>1, <1>2, <1>3, <1>4 DEF Next

\* The README's promise of the lease, which a refused renewal breaks (LeaseRenewal),
\* holds for any number of invocations that crash, raise, are cancelled, take over
\* and release, when renewals are punctual and the database accepts them.
THEOREM LeaseKept ==
  ASSUME {"late", "database"} \cap FaultKinds = {}
  PROVE  Spec => []AtMostOneExecutor
<1>1. Init => ~missed
  BY DEF Init
<1>2. ~missed /\ [Next]_vars => ~missed'
  BY NothingMissed
<1>3. PunctualExclusion /\ ~missed => AtMostOneExecutor
  BY DEF PunctualExclusion
<1> QED
  BY <1>1, <1>2, <1>3, LeaseExcludes, PTL DEF Spec
===============================================================================
