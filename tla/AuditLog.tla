-------------------------------- MODULE AuditLog --------------------------------
(***************************************************************************)
(* The append-only audit log and its Lamport clock (audit/lamport.py,      *)
(* audit/writer.py, db/session.py, api/audit.py).                          *)
(*                                                                         *)
(* write_audit_entry draws a stamp from the clock of the process and then  *)
(* flushes a row; the row becomes visible when its session commits, which  *)
(* other sessions may do first.  SQLite has one writer: the first flush of *)
(* a transaction takes the write lock, commit and rollback give it back,   *)
(* and a flush that waits longer than busy_timeout raises.  The clock      *)
(* lives in memory: after a restart it is read back from the log.          *)
(***************************************************************************)
EXTENDS Ranks

CONSTANTS
  Sessions,   \* the database sessions that write audit entries
  PageSize    \* `limit` of GET /audit

ASSUME PageAssumption == PageSize \in Nat \ {0}

VARIABLES
  counter,    \* LamportClock._counter
  log,        \* the committed rows of audit_log, in the order of their ids
  ticket,     \* a session's stamp between tick() and flush(), 0 if it has none
  pending,    \* a session's rows that are flushed and not committed
  walk        \* one client that follows next_cursor from the newest page

auditVars == << counter, log, ticket, pending, walk >>

\* AuditLog: the stamp, whose correlation id it has, and `success`.
Entry == [lamport : Nat \ {0}, by : Sessions, success : BOOLEAN]

NoWalk == [state |-> "none", cursor |-> 0, got |-> << >>, first |-> {}]

AuditInit ==
  /\ counter = 0
  /\ log = << >>
  /\ ticket = [s \in Sessions |-> 0]
  /\ pending = [s \in Sessions |-> << >>]
  /\ walk = NoWalk

Stamps(rows) == {rows[i].lamport : i \in DOMAIN rows}

-----------------------------------------------------------------------------
(* write_audit_entry *)

\* LamportClock.tick(), under its own lock.
Tick(s) ==
  /\ ticket[s] = 0
  /\ counter' = counter + 1
  /\ ticket' = [ticket EXCEPT ![s] = counter + 1]
  /\ UNCHANGED << log, pending, walk >>

Holds(s) == pending[s] # << >>
Locked(s) == \E t \in Sessions \ {s} : Holds(t)

\* session.flush(): the INSERT.
Flush(s, success) ==
  /\ ticket[s] # 0 /\ ~Locked(s)
  /\ pending' = [pending EXCEPT ![s] =
       Append(@, [lamport |-> ticket[s], by |-> s, success |-> success])]
  /\ ticket' = [ticket EXCEPT ![s] = 0]
  /\ UNCHANGED << counter, log, walk >>

\* "database is locked": the stamp is lost, get_session rolls back.
FlushFails(s) ==
  /\ ticket[s] # 0 /\ Locked(s)
  /\ ticket' = [ticket EXCEPT ![s] = 0]
  /\ UNCHANGED << counter, log, pending, walk >>

Commit(s) ==
  /\ ticket[s] = 0 /\ Holds(s)
  /\ log' = log \o pending[s]
  /\ pending' = [pending EXCEPT ![s] = << >>]
  /\ UNCHANGED << counter, ticket, walk >>

\* The handler raised after a flush.
Rollback(s) ==
  /\ Holds(s)
  /\ pending' = [pending EXCEPT ![s] = << >>]
  /\ ticket' = [ticket EXCEPT ![s] = 0]
  /\ UNCHANGED << counter, log, walk >>

\* Mutation: the number of rows.
BootstrappedFromCount(rows) == Len(rows)

\* LamportClock.bootstrap: order by lamport_clock desc, limit 1.
Bootstrapped(rows) ==
  IF rows = << >> THEN 0
  ELSE CHOOSE n \in Stamps(rows) : \A m \in Stamps(rows) : m <= n

\* Mutation: the clock starts from 0 again.
RestartWithoutBootstrap ==
  /\ counter' = 0
  /\ ticket' = [s \in Sessions |-> 0]
  /\ pending' = [s \in Sessions |-> << >>]
  /\ UNCHANGED << log, walk >>

\* The process dies, its transactions with it, and starts again.
Restart ==
  /\ counter' = Bootstrapped(log)
  /\ ticket' = [s \in Sessions |-> 0]
  /\ pending' = [s \in Sessions |-> << >>]
  /\ UNCHANGED << log, walk >>

-----------------------------------------------------------------------------
(* list_audit *)

\* The stamps of the matching rows below the cursor (0: no cursor).
Matching(cursor) == {n \in Stamps(log) : cursor = 0 \/ n < cursor}

\* The newest PageSize of them, newest first.
Page(set) ==
  LET size == IF Cardinality(set) > PageSize THEN PageSize ELSE Cardinality(set)
  IN  SubSeq(Descending(set), 1, size)

\* Mutation: the cursor of the row that tells there is more.
NextCursorOfExtraRow(set) ==
  IF Cardinality(set) > PageSize
  THEN Descending(set)[PageSize + 1] ELSE 0

\* next_cursor: the last row of the page, if there is more.
NextCursor(set) ==
  IF Cardinality(set) > PageSize THEN Page(set)[PageSize] ELSE 0

ReadPage ==
  LET set == Matching(walk.cursor)
  IN  /\ walk.state # "done"
      /\ walk' = [state  |-> IF NextCursor(set) = 0 THEN "done" ELSE "reading",
                  cursor |-> NextCursor(set),
                  got    |-> walk.got \o Page(set),
                  first  |-> IF walk.state = "none" THEN Stamps(log) ELSE walk.first]
      /\ UNCHANGED << counter, log, ticket, pending >>

-----------------------------------------------------------------------------
AuditNext ==
  \/ \E s \in Sessions :
       \/ Tick(s)
       \/ \E success \in BOOLEAN : Flush(s, success)
       \/ FlushFails(s) \/ Commit(s) \/ Rollback(s)
  \/ Restart
  \/ ReadPage

AuditSpec == AuditInit /\ [][AuditNext]_auditVars
=============================================================================
