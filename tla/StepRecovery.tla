---------------------------- MODULE StepRecovery -----------------------------
(***************************************************************************)
(* The step recovery store of agent/recovery.py for one run: the rows of   *)
(* step_recovery_attempts, which are only ever inserted.  The code reads   *)
(* the table in two orders: record() takes a step's last inserted row,     *)
(* restore() and history() sort by (common_version, record_id).  So the    *)
(* rows of each step are kept in insertion order, and beside them what     *)
(* the sorted reads return: each step's newest row and the newest version  *)
(* of the run (0 while there are no rows).                                 *)
(***************************************************************************)
EXTENDS AgentStates

Row == [attempt : Nat, status : ExecutionStatus, version : Nat]

NoRow == [attempt |-> 0, status |-> "absent", version |-> 0]

Store == [rows   : [Key -> Seq(Row)],
          newest : [Key -> Row \union {NoRow}],
          latest : Nat]

EmptyStore == [rows   |-> [k \in Key |-> <<>>],
               newest |-> [k \in Key |-> NoRow],
               latest |-> 0]

Recorded(st, k)     == st.rows[k] # <<>>
LastInserted(st, k) == st.rows[k][Len(st.rows[k])]

\* Mutant of NextAttempt: a row that follows an interrupted one stays in its attempt.
NextAttemptAfterInterrupt(st, k) ==
  IF ~Recorded(st, k) THEN 1
  ELSE IF LastInserted(st, k).status \in {"running", "interrupted"}
       THEN LastInserted(st, k).attempt
  ELSE LastInserted(st, k).attempt + 1

\* The attempt number record() gives the next row of step k: a row that
\* follows a running one belongs to the same attempt.
NextAttempt(st, k) ==
  IF ~Recorded(st, k) THEN 1
  ELSE IF LastInserted(st, k).status = "running" THEN LastInserted(st, k).attempt
  ELSE LastInserted(st, k).attempt + 1

\* The table's UNIQUE KEY (run_id, revision, step_id, attempt, status).
Collides(st, k, status) ==
  \E n \in DOMAIN st.rows[k] :
    /\ st.rows[k][n].attempt = NextAttempt(st, k)
    /\ st.rows[k][n].status = status

\* Mutant of Insert: of the rows of one attempt the first one wins.
InsertFirstWins(st, k, status, version) ==
  LET row == [attempt |-> NextAttempt(st, k), status |-> status, version |-> version]
  IN  [rows   |-> [st.rows EXCEPT ![k] = Append(@, row)],
       newest |-> [st.newest EXCEPT ![k] = IF row.attempt > @.attempt THEN row ELSE @],
       latest |-> IF version > st.latest THEN version ELSE st.latest]

Insert(st, k, status, version) ==
  LET row == [attempt |-> NextAttempt(st, k), status |-> status, version |-> version]
  IN  [rows   |-> [st.rows EXCEPT ![k] = Append(@, row)],
       newest |-> [st.newest EXCEPT ![k] = IF version >= @.version THEN row ELSE @],
       latest |-> IF version > st.latest THEN version ELSE st.latest]

-----------------------------------------------------------------------------
(***************************************************************************)
(* restore(): the versions must agree, then the newest row of each step    *)
(* overlays the checkpointed executions, and the context is rebuilt from   *)
(* every row that says completed.                                          *)
(***************************************************************************)
Confirmed(st, version) == st.latest = 0 \/ st.latest = version

RestoreExecutions(st, s) ==
  [s EXCEPT !.execs = [k \in Key |->
     IF Recorded(st, k) THEN st.newest[k].status ELSE s.execs[k]]]

HasRow(st, k, status) ==
  \E n \in DOMAIN st.rows[k] : st.rows[k][n].status = status

EverCompleted(st) == {k \in Key : HasRow(st, k, "completed")}

\* Mutant of RestoreContext: the checkpointed context is kept.
RestoreContextKept(st, context) == context

RestoreContext(st, context) ==
  IF st.latest = 0 THEN context ELSE EverCompleted(st)
=============================================================================
