---------------------- MODULE MigrationEngineProperties ----------------------
(***************************************************************************)
(* What the migration engine promises, and what its documentation says of  *)
(* it, as properties of MigrationEngine.                                   *)
(***************************************************************************)
EXTENDS MigrationEngine

\* Every variable keeps its type: the row, the step rows, the effects on the
\* queue managers, the audit log and the coroutines.
TypeOK ==
  /\ row \in [ state : RowState, plan : PlanBlob ]
  /\ steps \in [ Command -> StepRow ]
  /\ mq \in [ Command -> Effect ]
  /\ audit \subseteq [ op : { "APPROVED", "ABORTED", "REVISED" },
                       by : Task, corr : Nat ]
  /\ attempt \in Nat /\ planned \in Nat
  /\ found \in [ Command -> Effect ]
  /\ tasks \in [ Task -> TaskRec ]

AllIdle == \A t \in Task : ~ Running(t)
Approved(t) == \E r \in audit : r.op = "APPROVED" /\ r.by = t

-----------------------------------------------------------------------------
(* Properties that survive every interleaving of operators and tasks. *)

\* The human gate ("every destructive MQSC command downstream of here is
\* gated on an explicit human decision"): a MigrationStep row was written by
\* a task that put a MIGRATION_APPROVED entry on the audit log first, and
\* nothing changed on a queue manager unless such an entry exists.
HumanGate ==
  \A i \in Command :
    /\ steps[i].status # "absent" => Approved(steps[i].by)
    /\ mq[i] # "before" => \E t \in Task : Approved(t)

\* Whatever operators and tasks do to each other, a migration nobody works
\* on is at the gate or settled: no interleaving (short of a crash) leaves
\* it PLANNED, in a state of the forward path or ROLLING_BACK for good.
NeverLeftInFlight ==
  AllIdle => row.state \in { "NO_ROW", "AWAITING_APPROVAL" } \cup TERMINAL_STATES

\* A MigrationStep row is committed before its command runs, so that a crash
\* mid-command leaves a trace: an effect this attempt had on a queue manager
\* has a row.
EffectHasRow ==
  \A i \in Command : mq[i] # found[i] => steps[i].status # "absent"

-----------------------------------------------------------------------------
(* Properties of one operator acting on a migration at rest. *)

\* A migration past the gate carries an APPROVED decision on its plan: no
\* path leads around the gate, and no later write loses the decision.
PastGateApproved ==
  row.state \in Executing \cup { "COMPLETED" } => row.plan.approval = "APPROVED"

\* COMPLETED is only reached with every command of the rewire plan in force
\* and its step row succeeded.
CompletedIsRewired ==
  row.state = "COMPLETED" =>
    \A i \in Command : mq[i] = "after" /\ steps[i].status = "succeeded"

\* ROLLED_BACK means what it says: of what the attempt did to the queue
\* managers nothing is left.
RolledBackLeavesNothing ==
  row.state = "ROLLED_BACK" =>
    \A i \in Command : mq[i] \in { "before", found[i] }

\* A decision on the plan is on the audit log under the attempt it decides.
DecisionLogged ==
  AllIdle /\ row.plan.approval # "NONE" =>
    \E r \in audit : r.op = row.plan.approval /\ r.corr = attempt

\* Undoing runs in reverse step order: when the effect of a command goes
\* away, what this attempt did after it is gone already, so that no queue
\* is left forwarding into a bridge that was removed, unless an inverse was
\* refused and the rollback is going to end in ROLLBACK_FAILED.
UndoneInReverse ==
  [][ \A i, j \in Command :
        i < j /\ mq[i] # "before" /\ mq'[i] = "before" =>
          \/ mq'[j] \in { "before", found[j] }
          \/ \E t \in Task : Running(t) /\ ~ tasks[t].ok ]_vars

\* A migration that is executing or being rolled back settles.
EventuallySettles ==
  row.state \in Executing \cup { "ROLLING_BACK" } ~> is_terminal(row.state)

-----------------------------------------------------------------------------
(* Why they hold: the inductive invariants behind HumanGate and            *)
(* NeverLeftInFlight.                                                      *)

\* What a coroutine can be about to do, by what it runs: handlers and
\* rewiring belong to the forward path, planning leads to the gate.
WellFormed(t) ==
  /\ tasks[t].op = "plan" => tasks[t].pc \in { "resolve", "t_read", "t_write", "done" }
  /\ tasks[t].pc = "resolve" => tasks[t].op = "plan"
  /\ tasks[t].pc = "sign_abort" => tasks[t].op = "abort"
  /\ tasks[t].pc = "handler" => tasks[t].op = "forward" /\ tasks[t].to \in Executing
  /\ tasks[t].pc \in { "insert_step", "apply", "record" } =>
       tasks[t].op = "forward" /\ tasks[t].to = "REWIRING"
  /\ tasks[t].pc = "log_abort" => tasks[t].op = "abort"
  /\ tasks[t].pc \in { "t_read", "t_write" } =>
       \/ tasks[t].op = "plan" /\ tasks[t].to = "AWAITING_APPROVAL"
       \/ /\ tasks[t].op = "forward"
          /\ tasks[t].to \in Executing \cup { "COMPLETED", "ROLLING_BACK" }
       \/ tasks[t].op = "abort" /\ tasks[t].to = "ROLLING_BACK"

AllWellFormed == \A t \in Task : WellFormed(t)

\* Whoever runs the forward path, or is about to, has signed an approval.
ForwardIsApproved ==
  \A t \in Task :
    tasks[t].op = "forward" \/ tasks[t].pc = "context" => Approved(t)

GateInv == TypeOK /\ AllWellFormed /\ ForwardIsApproved /\ HumanGate

\* Task t will move a row it finds in state s of the forward path out of it.
Drives(t, s) ==
  \/ /\ tasks[t].pc \in { "handler", "insert_step", "apply", "record" }
     /\ tasks[t].to = s
  \/ /\ tasks[t].pc \in { "t_read", "t_write" }
     /\ tasks[t].op = "forward"
     /\ tasks[t].to \in { next_forward[s], "ROLLING_BACK" }
  \/ tasks[t].pc \in { "snapshot", "undo_step" }

\* A row in flight always has a coroutine that will move it on.
Driven ==
  /\ row.state = "PLANNED" =>
       \E t \in Task : tasks[t].op = "plan" /\ Running(t)
  /\ row.state = "ROLLING_BACK" =>
       \E t \in Task : tasks[t].pc \in { "find_pods", "snapshot", "undo_step" }
  /\ row.state \in Executing => \E t \in Task : Drives(t, row.state)

DriveInv == TypeOK /\ AllWellFormed /\ Driven

-----------------------------------------------------------------------------
(* Why the properties of a migration at rest hold: the inductive invariant *)
(* of operators who wait until nothing runs.                               *)

\* One coroutine at a time works on the migration.
Lone == \A t, u \in Task : Running(t) /\ Running(u) => t = u

\* Where the row stands while coroutine t is at its pc: what it has read is
\* still so, and its next transition is an edge of the machine.
Stage(t) ==
  LET at(pcs) == tasks[t].pc \in pcs
  IN  /\ at({ "insert_row" }) =>
           /\ tasks[t].seen = row.state
           /\ row.state = "NO_ROW" \/ is_terminal(row.state)
      /\ tasks[t].op = "plan" => row.state = "PLANNED" /\ row.plan.approval = "NONE"
      /\ at({ "read_plan", "sign", "context", "sign_abort", "log_abort", "install" }) =>
           row.state = "AWAITING_APPROVAL"
      /\ at({ "sign", "sign_abort", "install", "file_narrative" }) =>
           tasks[t].plan = row.plan
      /\ at({ "context" }) => row.plan.approval = "APPROVED"
      /\ at({ "t_read", "t_write" }) /\ tasks[t].op = "forward" =>
           /\ row.plan.approval = "APPROVED"
           /\ row.state \in Executing \cup { "AWAITING_APPROVAL" }
           /\ \/ tasks[t].to = next_forward[row.state]
              \/ tasks[t].to = "ROLLING_BACK" /\ row.state \in Executing
      /\ at({ "t_read", "t_write" }) /\ tasks[t].op = "abort" =>
           row.state = "AWAITING_APPROVAL"
      /\ at({ "handler", "insert_step", "apply", "record" }) =>
           row.state = tasks[t].to
      /\ at({ "force" }) =>
           /\ tasks[t].seen = row.state
           /\ row.state \in MigrationState \ { "ROLLED_BACK", "ROLLBACK_FAILED" }
      /\ at({ "find_pods", "snapshot", "undo_step" }) => row.state = "ROLLING_BACK"

Staged == \A t \in Task : Running(t) => Stage(t)

\* The row of the command a coroutine runs, and those of the commands it
\* undoes, are there; so is what it did before.
Traced(t) ==
  /\ tasks[t].pc \in { "apply", "record" } =>
       steps[tasks[t].i] = [ status |-> "pending", by |-> t ]
  /\ tasks[t].pc = "undo_step" => tasks[t].todo \subseteq Undoable

EffectInv == EffectHasRow /\ \A t \in Task : Running(t) => Traced(t)

InPlace(i) == mq[i] = "after" /\ steps[i].status = "succeeded"

\* A command is in place once the coroutine is past it, all of them once the
\* row has left REWIRING forward.
Wired(t) ==
  /\ tasks[t].pc = "handler" => tasks[t].to # "REWIRING"
  /\ tasks[t].pc \in { "insert_step", "apply", "record" } =>
       \A j \in Command : j < tasks[t].i => InPlace(j)
  /\ tasks[t].pc = "record" /\ tasks[t].ok => mq[tasks[t].i] = "after"
  /\ tasks[t].pc \in { "t_read", "t_write" } /\ tasks[t].to = "DRAIN_WAIT" =>
       \A j \in Command : InPlace(j)

WiredInv ==
  /\ row.state \in { "DRAIN_WAIT", "VALIDATING_DURING", "DRAINING_SOURCE",
                     "VALIDATING_POST", "COMPLETED" } =>
       \A i \in Command : InPlace(i)
  /\ \A t \in Task : Running(t) => Wired(t)

\* The decision on the plan is on the log, or is about to be.
DecisionInv ==
  /\ planned = attempt
  /\ \A t \in Task : Running(t) =>
       /\ tasks[t].pc \in { "sign", "install" } => tasks[t].corr = attempt
       /\ tasks[t].pc = "log_abort" => row.plan.approval = "ABORTED"
  /\ row.plan.approval # "NONE" =>
       \/ \E r \in audit : r.op = row.plan.approval /\ r.corr = attempt
       \/ \E t \in Task : tasks[t].pc = "log_abort"

\* What the attempt did to a queue manager is what its rollback would undo or
\* what its current command just did; what a rollback under way has not
\* undone is on its list, or one of its inverses failed.
Gone(i) == mq[i] \in { "before", found[i] }
UndoInv ==
  /\ \A i \in Command :
       \/ Gone(i) \/ i \in Undoable
       \/ \E t \in Task : tasks[t].pc = "record" /\ tasks[t].i = i /\ tasks[t].ok
  /\ \A t \in Task : Running(t) /\ tasks[t].pc = "undo_step" =>
       \A i \in Command : Gone(i) \/ i \in tasks[t].todo \/ ~ tasks[t].ok
  /\ RolledBackLeavesNothing

QuietInv == TypeOK /\ AllWellFormed /\ Lone /\ Staged /\ PastGateApproved
RewireInv == QuietInv /\ EffectInv /\ WiredInv

-----------------------------------------------------------------------------
(* Statements of the code's comments and documentation. *)

\* "Idempotency: refuses unless the migration is in AWAITING_APPROVAL": one
\* attempt is driven by one forward path.
OneForwardPath ==
  \A t, u \in Task :
    /\ tasks[t].op = "forward" /\ tasks[u].op = "forward"
    /\ tasks[t].corr = tasks[u].corr
    /\ Running(t) /\ Running(u)
    => t = u

\* A manual rollback "works on ... in-progress migrations": where no queue
\* manager fails, it does not end in ROLLBACK_FAILED.
ManualRollbackWorks == row.state # "ROLLBACK_FAILED"

\* "On restart, an operator can re-trigger rollback and the idempotent
\* inverse commands will skip already-undone steps": where no queue manager
\* refuses or loses a command, no inverse of a forward path that succeeded
\* fails, however often rollback is started.
RollbackCanBeRetriggered ==
  (\A i \in Command : steps[i].status \in { "absent", "succeeded" }) =>
    \A t \in Task : tasks[t].op = "undo" => tasks[t].ok

=============================================================================
