------------------------------- MODULE RunLease ------------------------------
(***************************************************************************)
(* Who may work on a durable run: the lease and the terminal status in the *)
(* agent_runs row (agent/registry.py), and the processes that create,      *)
(* check, acquire, renew, end and release it (_run and _renew_lease of     *)
(* agent/durable.py).                                                      *)
(*                                                                         *)
(* Time passes in ticks of RENEWAL_SECONDS.  lease_expires_at is modelled  *)
(* as the ticks left until it, so that "lease_expires_at <= now" is        *)
(* left = 0.  A process invents a new owner ID for every invocation; an    *)
(* invocation that was told "run busy" has left no trace and may be tried  *)
(* again under the same name here.  Every method of the registry is one    *)
(* transaction.                                                            *)
(***************************************************************************)
EXTENDS Naturals, FiniteSets

CONSTANTS
  Owner,         \* invocations of _run for this run
  LeaseTicks,    \* LEASE_SECONDS, in ticks (4 in the code)
  FaultKinds,    \* a subset of crash, cancel, raise, database, late
  MaxFaults      \* bound on the number of faults, late ticks not counted

ASSUME LeaseAssumption  == LeaseTicks \in Nat \ {0, 1}
ASSUME FaultAssumption  == FaultKinds \subseteq {"crash", "cancel", "raise", "database", "late"}
ASSUME BoundAssumption  == MaxFaults \in Nat

VARIABLES
  lease,         \* lease_owner, NoOwner for NULL, and the ticks left
  record,        \* status in agent_runs, "absent" before the row exists
  checkpoint,    \* what a resume would find in the newest checkpoint
  creator,       \* the invocation of run, the others being resumes
  proc,          \* where each invocation is
  result,        \* the status an invocation is about to register
  renewal,       \* its renewal task
  wait,          \* ticks until the renewal task wakes up
  faults,
  missed         \* history: a renewal that was due has been late or refused

vars == <<lease, record, checkpoint, creator, proc, result, renewal, wait, faults, missed>>

NoOwner == "null"
ASSUME OwnerAssumption == NoOwner \notin Owner

Ended    == {"completed", "blocked"}
Terminal == Ended \union {"failed"}

(***************************************************************************)
(* What a resume finds (DurableRun has the details): no checkpoint yet, an *)
(* open run whose versions agree, an ended one, or versions that differ,   *)
(* the checkpoint being behind the rows or ahead of them.  An aborted run  *)
(* is blocked, its checkpoint one version behind the abort's row.          *)
(***************************************************************************)
Found   == {"unsaved", "open", "completed", "blocked", "aborted", "behind", "ahead"}
Refused == {"unsaved", "aborted", "behind", "ahead"}

\* What interrupt() makes of it: it raises the checkpoint's version, and adds
\* a row of that version only when the checkpoint has a running step.
Interrupted(found) ==
  CASE found = "unsaved" -> {"unsaved"}
    [] found = "open"    -> {"open", "ahead"}
    [] found = "behind"  -> {"behind", "open"}
    [] found = "aborted" -> {"open"}
    [] OTHER             -> {"ahead"}

Location == {"new", "checked", "reading", "executing", "returned", "leaving",
             "answered", "done", "dead"}

Init ==
  /\ lease = [owner |-> NoOwner, left |-> 0]
  /\ record = "absent"
  /\ checkpoint = "unsaved"
  /\ creator = NoOwner
  /\ proc = [p \in Owner |-> "new"]
  /\ result = [p \in Owner |-> "none"]
  /\ renewal = [p \in Owner |-> "off"]
  /\ wait = [p \in Owner |-> 0]
  /\ faults = 0
  /\ missed = FALSE

Go(p, place) == proc' = [proc EXCEPT ![p] = place]

Fault(kind) ==
  /\ kind \in FaultKinds
  /\ faults < MaxFaults
  /\ faults' = faults + 1

-----------------------------------------------------------------------------
\* run: the row is inserted, and not yet leased.
Create(p) ==
  /\ proc[p] = "new"
  /\ record = "absent"
  /\ record' = "running"
  /\ creator' = p
  /\ Go(p, "checked")
  /\ UNCHANGED <<lease, checkpoint, result, renewal, wait, faults, missed>>

\* resume: ensure_compatible returns the row; a terminal one is the answer.
Check(p) ==
  /\ proc[p] = "new"
  /\ record # "absent"
  /\ Go(p, IF record \in Terminal THEN "answered" ELSE "checked")
  /\ UNCHANGED <<creator, lease, record, checkpoint, result, renewal, wait, faults, missed>>

Take(p) ==
  /\ lease' = [owner |-> p, left |-> LeaseTicks]
  /\ renewal' = [renewal EXCEPT ![p] = "asleep"]
  /\ wait' = [wait EXCEPT ![p] = 1]
  /\ Go(p, "reading")

\* Mutants of Acquire: a lease that was not renewed in this tick counts as
\* expired; an expired lease is not taken over.
AcquireEarly(p) ==
  /\ proc[p] = "checked"
  /\ lease.owner = NoOwner \/ lease.left <= LeaseTicks - 1
  /\ Take(p)
  /\ UNCHANGED <<creator, record, checkpoint, result, faults, missed>>

AcquireReleased(p) ==
  /\ proc[p] = "checked"
  /\ lease.owner = NoOwner
  /\ Take(p)
  /\ UNCHANGED <<creator, record, checkpoint, result, faults, missed>>

Acquire(p) ==
  /\ proc[p] = "checked"
  /\ lease.owner = NoOwner \/ lease.left = 0
  /\ Take(p)
  /\ UNCHANGED <<creator, record, checkpoint, result, faults, missed>>

\* RunBusyError; the operator may resume again later.
Busy(p) ==
  /\ proc[p] = "checked"
  /\ lease.owner # NoOwner /\ lease.left > 0
  /\ Go(p, IF p = creator THEN "done" ELSE "new")
  /\ UNCHANGED <<creator, lease, record, checkpoint, result, renewal, wait, faults, missed>>

-----------------------------------------------------------------------------
(***************************************************************************)
(* The work, between acquire and release.                                  *)
(***************************************************************************)
\* Mutant of Read: a checkpoint that already ended is not looked at.
ReadAfresh(p) ==
  /\ proc[p] = "reading"
  /\ Go(p, "executing")
  /\ UNCHANGED <<creator, lease, record, checkpoint, result, renewal, wait, faults, missed>>

\* The creating invocation starts from the goal.
Begin(p) ==
  /\ proc[p] = "reading"
  /\ p = creator
  /\ Go(p, "executing")
  /\ UNCHANGED <<creator, lease, record, checkpoint, result, renewal, wait, faults, missed>>

\* A resume returns an ended checkpoint's result without any work, and refuses
\* versions that differ.
Read(p) ==
  /\ proc[p] = "reading"
  /\ p # creator
  /\ result' = [result EXCEPT ![p] = IF checkpoint \in Ended THEN checkpoint ELSE "none"]
  /\ Go(p, CASE checkpoint \in Ended   -> "returned"
             [] checkpoint \in Refused -> "leaving"
             [] OTHER                  -> "executing")
  /\ UNCHANGED <<creator, lease, record, checkpoint, renewal, wait, faults, missed>>

\* A node's checkpoint: the run is open.
Progress(p) ==
  /\ proc[p] = "executing"
  /\ checkpoint' = "open"
  /\ UNCHANGED <<creator, lease, record, proc, result, renewal, wait, faults, missed>>

\* Mutant of Finish: the result is returned before its checkpoint is stored.
FinishUnsaved(p) ==
  /\ proc[p] = "executing"
  /\ \E status \in Ended : result' = [result EXCEPT ![p] = status]
  /\ Go(p, "returned")
  /\ UNCHANGED <<creator, lease, record, checkpoint, renewal, wait, faults, missed>>

Finish(p) ==
  /\ proc[p] = "executing"
  /\ \E found \in {"completed", "blocked", "aborted"} :
       /\ checkpoint' = found
       /\ result' = [result EXCEPT ![p] = IF found = "aborted" THEN "blocked" ELSE found]
  /\ Go(p, "returned")
  /\ UNCHANGED <<creator, lease, record, renewal, wait, faults, missed>>

\* The work raises, maybe after a row without a checkpoint.  The router of the
\* creating run turns the error into a failed answer; a resume has no router.
Raise(p) ==
  /\ Fault("raise")
  /\ \/ /\ proc[p] = "executing"
        /\ checkpoint' \in {"open", "behind"}
     \/ /\ proc[p] = "reading"
        /\ UNCHANGED checkpoint
  /\ \/ /\ p = creator
        /\ result' = [result EXCEPT ![p] = "failed"]
        /\ Go(p, "returned")
     \/ /\ Go(p, "leaving")
        /\ UNCHANGED result
  /\ UNCHANGED <<creator, lease, record, renewal, wait, missed>>

\* A signal: interrupt() stores its checkpoint without asking for the lease,
\* or gives up.  While the result is being registered nothing is stored.
Cancel(p) ==
  /\ Fault("cancel")
  /\ \/ /\ proc[p] \in {"reading", "executing"}
        /\ checkpoint' \in Interrupted(checkpoint) \union {checkpoint}
     \/ /\ proc[p] = "returned"
        /\ UNCHANGED checkpoint
  /\ Go(p, "leaving")
  /\ UNCHANGED <<creator, lease, record, result, renewal, wait, missed>>

\* set_terminal asks for the owner, not for the expiry.
SetTerminal(p) ==
  /\ proc[p] = "returned"
  /\ record' = IF lease.owner = p THEN result[p] ELSE record
  /\ Go(p, "leaving")
  /\ UNCHANGED <<creator, lease, checkpoint, result, renewal, wait, faults, missed>>

\* The finally clause: a renewal task that died raises its error again here,
\* and release is not reached.
Leave(p) ==
  /\ proc[p] = "leaving"
  /\ lease' = IF renewal[p] = "asleep" /\ lease.owner = p
              THEN [owner |-> NoOwner, left |-> 0] ELSE lease
  /\ renewal' = [renewal EXCEPT ![p] = "off"]
  /\ wait' = [wait EXCEPT ![p] = 0]
  /\ Go(p, "done")
  /\ UNCHANGED <<creator, record, checkpoint, result, faults, missed>>

Crash(p) ==
  /\ Fault("crash")
  /\ proc[p] \in {"checked", "reading", "executing", "returned", "leaving"}
  /\ checkpoint' \in {checkpoint} \union (IF proc[p] = "executing" THEN {"behind"} ELSE {})
  /\ renewal' = [renewal EXCEPT ![p] = "off"]
  /\ wait' = [wait EXCEPT ![p] = 0]
  /\ Go(p, "dead")
  /\ UNCHANGED <<creator, lease, record, result, missed>>

-----------------------------------------------------------------------------
(***************************************************************************)
(* The renewal task, and time.                                             *)
(***************************************************************************)
Awake(p) == renewal[p] = "asleep" /\ wait[p] = 0

Renew(p) ==
  /\ Awake(p)
  /\ IF lease.owner = p /\ lease.left > 0
     THEN /\ lease' = [lease EXCEPT !.left = LeaseTicks]
          /\ wait' = [wait EXCEPT ![p] = 1]
          /\ UNCHANGED renewal
     ELSE /\ renewal' = [renewal EXCEPT ![p] = "failed"]
          /\ UNCHANGED <<lease, wait>>
  /\ UNCHANGED <<creator, record, checkpoint, proc, result, faults, missed>>

\* The database refuses the renewal: the task dies, the work goes on.
RenewRaises(p) ==
  /\ Fault("database")
  /\ Awake(p)
  /\ missed' = TRUE
  /\ renewal' = [renewal EXCEPT ![p] = "failed"]
  /\ UNCHANGED <<creator, lease, record, checkpoint, proc, result, wait>>

\* A tick.  A renewal that is due is made before the next tick, unless the
\* process is late: suspended, or its event loop held up.
Tick ==
  /\ lease.left > 0 \/ \E p \in Owner : wait[p] > 0
  /\ "late" \in FaultKinds \/ \A p \in Owner : ~Awake(p)
  /\ missed' = (missed \/ \E p \in Owner : Awake(p))
  /\ lease' = [lease EXCEPT !.left = IF @ > 0 THEN @ - 1 ELSE 0]
  /\ wait' = [p \in Owner |-> IF wait[p] > 0 THEN wait[p] - 1 ELSE 0]
  /\ UNCHANGED <<creator, record, checkpoint, proc, result, renewal, faults>>

-----------------------------------------------------------------------------
Work(p) ==
  \/ Create(p) \/ Check(p) \/ Acquire(p) \/ Busy(p)
  \/ Begin(p) \/ Read(p) \/ Finish(p) \/ SetTerminal(p) \/ Leave(p)

Next ==
  \/ \E p \in Owner : \/ Work(p) \/ Progress(p) \/ Renew(p)
                      \/ Raise(p) \/ Cancel(p) \/ Crash(p) \/ RenewRaises(p)
  \/ Tick

Spec == Init /\ [][Next]_vars

(***************************************************************************)
(* Every invocation goes on until it is done, the operator tries a busy    *)
(* run again, renewal tasks run and time passes.                           *)
(***************************************************************************)
FairSpec ==
  /\ Spec
  /\ \A p \in Owner : WF_vars(Work(p)) /\ WF_vars(Renew(p))
  /\ WF_vars(Tick)

-----------------------------------------------------------------------------
TypeOK ==
  /\ lease \in [owner : Owner \union {NoOwner}, left : 0 .. LeaseTicks]
  /\ record \in {"absent", "running"} \union Terminal
  /\ checkpoint \in Found
  /\ creator \in Owner \union {NoOwner}
  /\ proc \in [Owner -> Location]
  /\ result \in [Owner -> {"none"} \union Terminal]
  /\ \A p \in Owner : proc[p] = "returned" => result[p] \in Terminal
  /\ renewal \in [Owner -> {"off", "asleep", "failed"}]
  /\ wait \in [Owner -> 0 .. 1]
  /\ faults \in 0 .. MaxFaults
  /\ missed \in BOOLEAN

Executors == {p \in Owner : proc[p] = "executing"}

\* Two processes never execute the run at once: the README's promise of the
\* lease.  It fails once a renewal is refused (LeaseRenewal).
AtMostOneExecutor == Cardinality(Executors) <= 1

\* As long as no renewal has been late or refused, two processes never execute
\* the run at once, across crashes, takeovers of expired leases, releases and
\* resumes that checked the run before another ended it.
PunctualExclusion == ~missed => AtMostOneExecutor

\* Under the same condition nothing is executed any more once the registry says
\* completed, although a resume checks that status before it has the lease.
\* (For "blocked" an abort leaves a checkpoint that a cancelled resume can open
\* again.)
NoWorkAfterCompletion == ~missed /\ record = "completed" => Executors = {}

\* And a completed run stays so, whoever registers a result later.
CompletedIsFinal == [][~missed /\ record = "completed" => UNCHANGED record]_vars

\* A run that was created reaches a terminal status, or versions that differ,
\* while an operator still has an invocation left to resume it with.
EventuallyTerminal ==
  record = "running" ~> \/ record \in Terminal
                        \/ checkpoint \in Refused
                        \/ \A p \in Owner : proc[p] \in {"done", "dead", "answered"}

-----------------------------------------------------------------------------
(***************************************************************************)
(* What the documentation promises and the code does not keep.             *)
(***************************************************************************)
\* A run whose registry says failed is answered from its saved result, and not
\* worked on again.
NoWorkAfterFailure == record = "failed" => Executors = {}
=============================================================================
