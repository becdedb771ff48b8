--------------------------- MODULE MigrationEngine ---------------------------
(***************************************************************************)
(* One Migration row and the coroutines that drive it                      *)
(* (bcl/migration/engine.py and bcl/rollback/engine.py).                   *)
(*                                                                         *)
(* A task is one asyncio coroutine: an operator's HTTP request and, for    *)
(* the requests that spawn one, the background task it turns into.  A step *)
(* of a task runs from one suspension point to the next: a session that    *)
(* reads the row and later writes it is two steps, because every await     *)
(* between the read and the commit lets another task run.  A command sent  *)
(* to a queue manager is one step of its own, between the commit of its    *)
(* "pending" MigrationStep row and the commit of its verdict.              *)
(*                                                                         *)
(* The queue managers are reduced to what the rewire plan's commands have  *)
(* done to them: per command, whether its effect is absent ("before"),     *)
(* half there ("partial": the QLOCAL is deleted, no QREMOTE in its place)  *)
(* or in force ("after").                                                  *)
(***************************************************************************)
EXTENDS MigrationStates, Naturals, Sequences, FiniteSets

CONSTANTS
  Task,        \* coroutines; each is used for one request
  Nobody,      \* not a task
  Plan,        \* build_rewire_plan's commands, as records [label, on]
  Requests,    \* the operator requests of this instance
  Operators,   \* "quiescent", "single" or "multi": see MayRequest
  Faults       \* the external failures of this instance

OperatorRequest == { "start", "approve", "abort", "revise", "rollback" }

FaultKind ==
  { "refused",   \* runmqsc reports failure and did nothing
    "batch_cut", \* the first command of a two-command batch took effect only
    "timeout",   \* the command took effect, its answer was lost (exit -1)
    "probe",     \* a probe or the readiness check fails
    "context",   \* a QM or its pod cannot be resolved
    "crash" }    \* the process is killed

ASSUME PlanAssumption ==
  /\ Plan \in Seq([label : STRING, on : {"source", "target"}])
  /\ Len(Plan) > 0
ASSUME TaskAssumption == Nobody \notin Task
ASSUME InstanceAssumption ==
  /\ Requests \subseteq OperatorRequest
  /\ Operators \in { "quiescent", "single", "multi" }
  /\ Faults \subseteq FaultKind

VARIABLES
  row,      \* the Migration row: state and the plan blob
  steps,    \* the MigrationStep rows, by step_index
  mq,       \* what each command's effect on the queue managers is now
  audit,    \* the operator decisions on the audit log
  attempt,  \* attempts started so far; each logs under its own number
  planned,  \* correlation id of the latest MIGRATION_PLANNED entry
  found,    \* mq as the current attempt found it
  tasks     \* the coroutines

vars == << row, steps, mq, audit, attempt, planned, found, tasks >>

Command == 1 .. Len(Plan)
Cutover(i) == Plan[i].label = "rewire-qlocal-as-qremote"

-----------------------------------------------------------------------------
(* Types and initial state. *)

Effect == { "before", "partial", "after" }
Decision == { "NONE", "APPROVED", "ABORTED" }
PlanBlob == [ approval  : Decision,
              history   : SUBSET Task,   \* revisions of the plan
              narrative : Nat ]          \* attempt narrated, 0 for none
NoPlan == [ approval |-> "NONE", history |-> {}, narrative |-> 0 ]

StepRow == [ status : { "absent", "pending", "succeeded", "failed" },
             by : Task \cup {Nobody} ]
NoStep == [ status |-> "absent", by |-> Nobody ]

RowState == MigrationState \cup { "NO_ROW" }

\* What a coroutine is running: an HTTP handler, or the background task the
\* handler spawned before it answered.
Handler == OperatorRequest
Background == { "plan", "forward", "undo" }

TaskRec ==
  [ op   : Handler \cup Background \cup { "none" },
    pc   : { "free", "done", "insert_row", "resolve", "t_read", "t_write",
             "read_plan", "sign", "context", "sign_abort", "log_abort",
             "install", "force", "find_pods", "handler", "insert_step",
             "apply", "record", "snapshot", "undo_step", "narrate",
             "file_narrative" },
    corr : Nat,                 \* correlation id it logs under
    seen : RowState,            \* the state it read
    plan : PlanBlob,            \* the plan blob it read
    to   : MigrationState,      \* the state it is moving the row into
    i    : Command,             \* the command it is at
    ok   : BOOLEAN,             \* the last command's verdict / no failure yet
    todo : SUBSET Command ]     \* steps the rollback still has to invert

Unused ==
  [ op |-> "none", pc |-> "free", corr |-> 0, seen |-> "NO_ROW",
    plan |-> NoPlan, to |-> "PLANNED", i |-> 1, ok |-> TRUE, todo |-> {} ]

Init ==
  /\ row = [ state |-> "NO_ROW", plan |-> NoPlan ]
  /\ steps = [ i \in Command |-> NoStep ]
  /\ mq = [ i \in Command |-> "before" ]
  /\ audit = {}
  /\ attempt = 0
  /\ planned = 0
  /\ found = [ i \in Command |-> "before" ]
  /\ tasks = [ t \in Task |-> Unused ]

-----------------------------------------------------------------------------
(* Helpers. *)

Running(t) == tasks[t].pc \notin { "free", "done" }
At(t, pc) == tasks[t].pc = pc
Become(t, rec) == tasks' = [ tasks EXCEPT ![t] = rec ]
Finished(t) == [ Unused EXCEPT !.op = tasks[t].op, !.pc = "done" ]
Move(t, to) == [ tasks[t] EXCEPT !.pc = "t_read", !.to = to ]

\* When operators act.  "quiescent": only while nothing runs for this
\* migration.  "single": one operator, whose next request waits for the
\* answer to the previous one (the buttons are disabled meanwhile) but not
\* for the background task it left behind.  "multi": any number of them.
MayRequest ==
  CASE Operators = "quiescent" -> \A t \in Task : ~ Running(t)
    [] Operators = "single" ->
         \A t \in Task : Running(t) => tasks[t].op \in Background
    [] OTHER -> TRUE

\* A request the handler accepts: the coroutine starts, having read the row.
Accept(t, op, pc) ==
  /\ At(t, "free")
  /\ op \in Requests
  /\ MayRequest
  /\ Become(t, [ Unused EXCEPT !.op = op, !.pc = pc, !.corr = planned,
                               !.seen = row.state, !.plan = row.plan ])
  /\ UNCHANGED << row, steps, mq, audit, attempt, planned, found >>

-----------------------------------------------------------------------------
(* start_migration_run, _reset_for_retry and _execute_migration. *)

\* Refused (409) while the row is in a non-terminal state.
StartMigrationRun(t) ==
  /\ row.state = "NO_ROW" \/ is_terminal(row.state)
  /\ Accept(t, "start", "insert_row")

\* Insert the row, or recycle the one that was read as terminal; then the
\* request answers and its background task plans.  The second of two
\* inserts fails on the (app, target) unique constraint.
InsertRow(t) ==
  /\ At(t, "insert_row")
  /\ IF tasks[t].seen = "NO_ROW" /\ row.state # "NO_ROW"
     THEN /\ Become(t, Finished(t))
          /\ UNCHANGED << row, steps, attempt, planned, found >>
     ELSE /\ row' = [ state |-> "PLANNED", plan |-> NoPlan ]
          /\ steps' = [ i \in Command |-> NoStep ]
          /\ attempt' = attempt + 1
          /\ planned' = attempt + 1
          /\ found' = mq
          /\ Become(t, [ tasks[t] EXCEPT !.op = "plan", !.pc = "resolve",
                                         !.corr = attempt + 1 ])
  /\ UNCHANGED << mq, audit >>

\* _abort: the QMs or their pods cannot be resolved.  The row goes to
\* ROLLBACK_FAILED whatever state it is in.
HardAbort(t) ==
  /\ "context" \in Faults
  /\ \/ At(t, "resolve")
     \/ At(t, "context")
  /\ row' = [ row EXCEPT !.state = "ROLLBACK_FAILED" ]
  /\ Become(t, Finished(t))
  /\ UNCHANGED << steps, mq, audit, attempt, planned, found >>

\* Mutation: the engine before the gate existed, which went straight on.
StorePlanUngated(t) ==
  /\ At(t, "resolve")
  /\ row' = [ row EXCEPT !.plan = NoPlan, !.state = "AWAITING_APPROVAL" ]
  /\ Become(t, [ Move(t, "PROVISIONING_TARGET_QM") EXCEPT !.op = "forward" ])
  /\ UNCHANGED << steps, mq, audit, attempt, planned, found >>

\* The plan, risk brief and go/no-go score are stored; then the gate.
StorePlan(t) ==
  /\ At(t, "resolve")
  /\ row' = [ row EXCEPT !.plan = NoPlan ]
  /\ Become(t, Move(t, "AWAITING_APPROVAL"))
  /\ UNCHANGED << steps, mq, audit, attempt, planned, found >>

-----------------------------------------------------------------------------
(* _transition: read the state, check the edge, write the new state.       *)

\* What a task does once its move into tasks[t].to was made or refused.  A
\* refusal matters only to a handler of the forward path: it turns to
\* rollback.  Everywhere else the result is ignored.
AfterTransition(t, accepted) ==
  LET to == tasks[t].to
  IN  CASE tasks[t].op = "forward" /\ to \in Executing ->
             IF ~ accepted THEN Move(t, "ROLLING_BACK")
             ELSE IF to = "REWIRING"
                  THEN [ tasks[t] EXCEPT !.pc = "insert_step", !.i = 1 ]
                  ELSE [ tasks[t] EXCEPT !.pc = "handler" ]
        [] to = "ROLLING_BACK" -> [ tasks[t] EXCEPT !.pc = "snapshot" ]
        [] tasks[t].op = "forward" /\ to = "COMPLETED" ->
             [ tasks[t] EXCEPT !.pc = "narrate" ]
        [] OTHER -> Finished(t)

TransitionRead(t) ==
  /\ At(t, "t_read")
  /\ IF is_valid_transition(row.state, tasks[t].to)
     THEN Become(t, [ tasks[t] EXCEPT !.pc = "t_write",
                                      !.seen = row.state ])
     ELSE Become(t, AfterTransition(t, FALSE))
  /\ UNCHANGED << row, steps, mq, audit, attempt, planned, found >>

TransitionWrite(t) ==
  /\ At(t, "t_write")
  /\ row' = [ row EXCEPT !.state = tasks[t].to ]
  /\ Become(t, AfterTransition(t, TRUE))
  /\ UNCHANGED << steps, mq, audit, attempt, planned, found >>

-----------------------------------------------------------------------------
(* The approval gate: resume_migration, abort_at_gate, re_plan_at_gate.    *)

Approve(t) ==
  /\ row.state = "AWAITING_APPROVAL"
  /\ Accept(t, "approve", "read_plan")

\* _correlation_id_for, and a second session that reads the plan blob again;
\* the state is not re-checked.
ReadPlan(t) ==
  /\ At(t, "read_plan")
  /\ Become(t, [ tasks[t] EXCEPT !.pc = "sign", !.corr = planned,
                                 !.plan = row.plan ])
  /\ UNCHANGED << row, steps, mq, audit, attempt, planned, found >>

\* The whole blob is written back, with the decision.
SignApproval(t) ==
  /\ At(t, "sign")
  /\ row' = [ row EXCEPT
                !.plan = [ tasks[t].plan EXCEPT !.approval = "APPROVED" ] ]
  /\ audit' = audit \cup
       { [ op |-> "APPROVED", by |-> t, corr |-> tasks[t].corr ] }
  /\ Become(t, [ tasks[t] EXCEPT !.pc = "context" ])
  /\ UNCHANGED << steps, mq, attempt, planned, found >>

\* The runtime context is rebuilt and the forward path launched.
LaunchForwardPath(t) ==
  /\ At(t, "context")
  /\ Become(t, [ Move(t, "PROVISIONING_TARGET_QM") EXCEPT
                   !.op = "forward" ])
  /\ UNCHANGED << row, steps, mq, audit, attempt, planned, found >>

AbortAtGate(t) ==
  /\ row.state = "AWAITING_APPROVAL"
  /\ Accept(t, "abort", "sign_abort")

SignAbort(t) ==
  /\ At(t, "sign_abort")
  /\ row' = [ row EXCEPT
                !.plan = [ tasks[t].plan EXCEPT !.approval = "ABORTED" ] ]
  /\ Become(t, [ tasks[t] EXCEPT !.pc = "log_abort" ])
  /\ UNCHANGED << steps, mq, audit, attempt, planned, found >>

\* Mutation: the abort leaves no entry.
LogAbortForgotten(t) ==
  /\ At(t, "log_abort")
  /\ Become(t, Move(t, "ROLLING_BACK"))
  /\ UNCHANGED << row, steps, mq, audit, attempt, planned, found >>

\* The entry is written by another session, after the decision.
LogAbort(t) ==
  /\ At(t, "log_abort")
  /\ audit' = audit \cup
       { [ op |-> "ABORTED", by |-> t, corr |-> planned ] }
  /\ Become(t, Move(t, "ROLLING_BACK"))
  /\ UNCHANGED << row, steps, mq, attempt, planned, found >>

\* Mutation: a revision is accepted in any state.
ReviseAnywhere(t) ==
  /\ row.state # "NO_ROW"
  /\ Accept(t, "revise", "install")

ReviseAtGate(t) ==
  /\ row.state = "AWAITING_APPROVAL"
  /\ Accept(t, "revise", "install")

\* The planner and the auditor ran meanwhile.  The new plan replaces the
\* blob: no decision, and the history read at the start plus this revision.
\* The entry is another MIGRATION_PLANNED one.
InstallRevision(t) ==
  /\ At(t, "install")
  /\ row' = [ row EXCEPT !.plan =
       [ NoPlan EXCEPT !.history = tasks[t].plan.history \cup {t} ] ]
  /\ planned' = tasks[t].corr
  /\ audit' = audit \cup
       { [ op |-> "REVISED", by |-> t, corr |-> tasks[t].corr ] }
  /\ Become(t, Finished(t))
  /\ UNCHANGED << steps, mq, attempt, found >>

\* No planner input could be rebuilt: 409, nothing is written.
DropRevision(t) ==
  /\ At(t, "install")
  /\ "context" \in Faults
  /\ Become(t, Finished(t))
  /\ UNCHANGED << row, steps, mq, audit, attempt, planned, found >>

-----------------------------------------------------------------------------
(* _run_forward_path: the handler of each state.                           *)

MayFail == IF "probe" \in Faults THEN { FALSE } ELSE {}
XmitqGone == mq[1] = "before"

\* The verdicts a handler can come to.  The target's readiness was looked up
\* when the context was built; the source QM may not answer DISPLAY.
do_provisioning_target_qm == { TRUE } \cup MayFail
do_validating_pre == { TRUE } \cup MayFail

\* A queue that is still there may not drain in time; one that is gone, or
\* is a QREMOTE now, counts as drained.
do_drain_wait == { TRUE } \cup MayFail

\* The bridge's XMITQ must answer a probe.
do_validating_during == IF XmitqGone THEN { FALSE } ELSE { TRUE } \cup MayFail

\* It must drain.  A vanished one counts as drained, if any probe in time is
\* answered.
do_draining_source == { TRUE } \cup MayFail

\* Findings are recorded, never judged.
do_validating_post == { TRUE }

Verdicts(state) ==
  CASE state = "PROVISIONING_TARGET_QM" -> do_provisioning_target_qm
    [] state = "VALIDATING_PRE"         -> do_validating_pre
    [] state = "DRAIN_WAIT"             -> do_drain_wait
    [] state = "VALIDATING_DURING"      -> do_validating_during
    [] state = "DRAINING_SOURCE"        -> do_draining_source
    [] OTHER                            -> do_validating_post

HandlerSucceeds(t) ==
  /\ At(t, "handler")
  /\ TRUE \in Verdicts(tasks[t].to)
  /\ Become(t, Move(t, next_forward[tasks[t].to]))
  /\ UNCHANGED << row, steps, mq, audit, attempt, planned, found >>

\* Mutation: a failing handler ends the forward path where it is.
HandlerGivesUp(t) ==
  /\ At(t, "handler")
  /\ FALSE \in Verdicts(tasks[t].to)
  /\ Become(t, Finished(t))
  /\ UNCHANGED << row, steps, mq, audit, attempt, planned, found >>

HandlerFails(t) ==
  /\ At(t, "handler")
  /\ FALSE \in Verdicts(tasks[t].to)
  /\ Become(t, Move(t, "ROLLING_BACK"))
  /\ UNCHANGED << row, steps, mq, audit, attempt, planned, found >>

-----------------------------------------------------------------------------
(* _do_rewiring: one MigrationStep row per command.                        *)

\* Mutation: the row is only written with the verdict.
InsertStepLater(t) ==
  /\ At(t, "insert_step")
  /\ steps[tasks[t].i].status = "absent"
  /\ Become(t, [ tasks[t] EXCEPT !.pc = "apply" ])
  /\ UNCHANGED << row, steps, mq, audit, attempt, planned, found >>

\* The row is committed as pending before the command runs.  A second row
\* with the same step_index breaks the unique constraint: the handler
\* raises, which the forward path treats as a failure.
InsertStep(t) ==
  LET i == tasks[t].i
  IN  /\ At(t, "insert_step")
      /\ IF steps[i].status = "absent"
         THEN /\ steps' = [ steps EXCEPT
                              ![i] = [ status |-> "pending", by |-> t ] ]
              /\ Become(t, [ tasks[t] EXCEPT !.pc = "apply" ])
         ELSE /\ Become(t, Move(t, "ROLLING_BACK"))
              /\ UNCHANGED steps
      /\ UNCHANGED << row, mq, audit, attempt, planned, found >>

\* Forward command i leaves its object in state e and is judged ok or not.
\* Every answer of a command that finds its effect in place already is in
\* the idempotent set, so it is judged a success.
ForwardOutcome(i, e, ok) ==
  \/ e = "after" /\ ok
  \/ "refused" \in Faults /\ e = mq[i] /\ ~ ok
  \/ "batch_cut" \in Faults /\ Cutover(i) /\ mq[i] = "before"
       /\ e = "partial" /\ ~ ok
  \/ "timeout" \in Faults /\ e = "after" /\ ~ ok

ApplyMqsc(t) ==
  /\ At(t, "apply")
  /\ \E e \in Effect, ok \in BOOLEAN :
       /\ ForwardOutcome(tasks[t].i, e, ok)
       /\ mq' = [ mq EXCEPT ![tasks[t].i] = e ]
       /\ Become(t, [ tasks[t] EXCEPT !.pc = "record", !.ok = ok ])
  /\ UNCHANGED << row, steps, audit, attempt, planned, found >>

\* Mutations: the last command is left out; a failed one is stepped over.
RecordStepOffByOne(t) ==
  LET i == tasks[t].i
  IN  /\ At(t, "record")
      /\ steps' = [ steps EXCEPT ![i].status =
                       IF tasks[t].ok THEN "succeeded" ELSE "failed" ]
      /\ Become(t, IF ~ tasks[t].ok THEN Move(t, "ROLLING_BACK")
                   ELSE IF i < Len(Plan) - 1
                   THEN [ tasks[t] EXCEPT !.pc = "insert_step", !.i = i + 1 ]
                   ELSE Move(t, "DRAIN_WAIT"))
      /\ UNCHANGED << row, mq, audit, attempt, planned, found >>

RecordStepAnyVerdict(t) ==
  LET i == tasks[t].i
  IN  /\ At(t, "record")
      /\ steps' = [ steps EXCEPT ![i].status =
                       IF tasks[t].ok THEN "succeeded" ELSE "failed" ]
      /\ Become(t, IF i < Len(Plan)
                   THEN [ tasks[t] EXCEPT !.pc = "insert_step", !.i = i + 1 ]
                   ELSE Move(t, "DRAIN_WAIT"))
      /\ UNCHANGED << row, mq, audit, attempt, planned, found >>

\* The verdict is stored on the row, found by id: a row deleted meanwhile
\* by a retry fails the assertion and so the handler.
RecordStep(t) ==
  LET i  == tasks[t].i
      ok == tasks[t].ok /\ steps[i].by = t
  IN  /\ At(t, "record")
      /\ steps' = IF steps[i].by # t THEN steps
                  ELSE [ steps EXCEPT ![i].status =
                           IF ok THEN "succeeded" ELSE "failed" ]
      /\ Become(t, CASE ~ ok -> Move(t, "ROLLING_BACK")
                     [] ok /\ i < Len(Plan) ->
                          [ tasks[t] EXCEPT !.pc = "insert_step",
                                            !.i = i + 1 ]
                     [] OTHER -> Move(t, "DRAIN_WAIT"))
      /\ UNCHANGED << row, mq, audit, attempt, planned, found >>

-----------------------------------------------------------------------------
(* execute_rollback: undo in reverse step_index order.                     *)

\* Mutation: a half-done cutover is not undone.
UndoableSucceeded == { i \in Command : steps[i].status = "succeeded" }

\* Steps that succeeded, and cutovers whatever became of them.
Undoable == { i \in Command :
                \/ steps[i].status = "succeeded"
                \/ Cutover(i) /\ steps[i].status # "absent" }

SnapshotSteps(t) ==
  /\ At(t, "snapshot")
  /\ Become(t, [ tasks[t] EXCEPT !.pc = "undo_step", !.todo = Undoable,
                                 !.ok = TRUE ])
  /\ UNCHANGED << row, steps, mq, audit, attempt, planned, found >>

\* The inverse of command i.  Deleting or stopping what is not there is
\* idempotent, except for a cutover: DELETE QREMOTE on a queue that is (still
\* or again) a QLOCAL answers AMQ8138E, which is not in the inverse set.
InverseOutcome(i, e, ok) ==
  \/ /\ e = "before"
     /\ ok = ~ (Cutover(i) /\ mq[i] = "before")
  \/ "refused" \in Faults /\ e = mq[i] /\ ~ ok
  \/ "batch_cut" \in Faults /\ Cutover(i) /\ mq[i] = "after"
       /\ e = "partial" /\ ~ ok
  \/ "timeout" \in Faults /\ e = "before" /\ ~ ok

\* Mutation: undo in forward order.
FirstOf(S) == CHOOSE i \in S : \A j \in S : i <= j

LastOf(S) == CHOOSE i \in S : \A j \in S : j <= i

UndoStep(t) ==
  /\ At(t, "undo_step")
  /\ tasks[t].todo # {}
  /\ LET i == LastOf(tasks[t].todo)
     IN  \E e \in Effect, ok \in BOOLEAN :
           /\ InverseOutcome(i, e, ok)
           /\ mq' = [ mq EXCEPT ![i] = e ]
           /\ Become(t, [ tasks[t] EXCEPT !.todo = @ \ {i},
                                          !.ok = @ /\ ok ])
  /\ UNCHANGED << row, steps, audit, attempt, planned, found >>

\* Mutation: an audit operation's name is written as the state.
FinishRollbackMisnamed(t) ==
  /\ At(t, "undo_step")
  /\ tasks[t].todo = {}
  /\ row' = [ row EXCEPT !.state = "ROLLBACK_COMPLETED" ]
  /\ Become(t, Finished(t))
  /\ UNCHANGED << steps, mq, audit, attempt, planned, found >>

\* The final state is written over whatever state the row is in.
FinishRollback(t) ==
  /\ At(t, "undo_step")
  /\ tasks[t].todo = {}
  /\ row' = [ row EXCEPT !.state =
                IF tasks[t].ok THEN "ROLLED_BACK" ELSE "ROLLBACK_FAILED" ]
  /\ Become(t, IF tasks[t].op = "forward"
               THEN [ tasks[t] EXCEPT !.pc = "narrate" ] ELSE Finished(t))
  /\ UNCHANGED << steps, mq, audit, attempt, planned, found >>

-----------------------------------------------------------------------------
(* _run_compliance_narrator, after a forward path that ended.  The agent's  *)
(* answer takes long; then the plan blob is read, and written back with    *)
(* the narrative.                                                          *)

ReadForNarrative(t) ==
  /\ At(t, "narrate")
  /\ Become(t, [ tasks[t] EXCEPT !.pc = "file_narrative",
                                 !.plan = row.plan ])
  /\ UNCHANGED << row, steps, mq, audit, attempt, planned, found >>

FileNarrative(t) ==
  /\ At(t, "file_narrative")
  /\ row' = [ row EXCEPT !.plan =
                [ tasks[t].plan EXCEPT !.narrative = tasks[t].corr ] ]
  /\ Become(t, Finished(t))
  /\ UNCHANGED << steps, mq, audit, attempt, planned, found >>

-----------------------------------------------------------------------------
(* start_manual_rollback. *)

\* Refused only in ROLLED_BACK and ROLLBACK_FAILED.
ManualRollback(t) ==
  /\ row.state \in MigrationState
  /\ is_terminal(row.state) => row.state = "COMPLETED"
  /\ Accept(t, "rollback", "force")

\* A row read as ROLLING_BACK is not written: the session sees no change.
ForceRollingBack(t) ==
  /\ At(t, "force")
  /\ row' = IF tasks[t].seen = "ROLLING_BACK" THEN row
            ELSE [ row EXCEPT !.state = "ROLLING_BACK" ]
  /\ Become(t, [ tasks[t] EXCEPT !.pc = "find_pods" ])
  /\ UNCHANGED << steps, mq, audit, attempt, planned, found >>

\* The QMs are read off the step rows: a source and a target one is needed.
SideKnown(side) ==
  \E i \in Command : Plan[i].on = side /\ steps[i].status # "absent"

SpawnRollback(t) ==
  /\ At(t, "find_pods")
  /\ SideKnown("source") /\ SideKnown("target")
  /\ Become(t, [ tasks[t] EXCEPT !.op = "undo", !.pc = "snapshot" ])
  /\ UNCHANGED << row, steps, mq, audit, attempt, planned, found >>

\* Mutation: the request returns without settling the row.
GiveUpQuietly(t) ==
  /\ At(t, "find_pods")
  /\ ~ (SideKnown("source") /\ SideKnown("target"))
  /\ Become(t, Finished(t))
  /\ UNCHANGED << row, steps, mq, audit, attempt, planned, found >>

GiveUpRollback(t) ==
  /\ At(t, "find_pods")
  /\ \/ ~ (SideKnown("source") /\ SideKnown("target"))
     \/ "context" \in Faults
  /\ row' = [ row EXCEPT !.state = "ROLLBACK_FAILED" ]
  /\ Become(t, Finished(t))
  /\ UNCHANGED << steps, mq, audit, attempt, planned, found >>

-----------------------------------------------------------------------------
(* The process is killed: every coroutine is gone, the database and the    *)
(* queue managers stay.  Nothing resumes at start-up.                      *)
Crash ==
  /\ "crash" \in Faults
  /\ \E t \in Task : Running(t)
  /\ tasks' = [ t \in Task |-> IF Running(t) THEN Finished(t) ELSE tasks[t] ]
  /\ UNCHANGED << row, steps, mq, audit, attempt, planned, found >>

Request(t) ==
  \/ StartMigrationRun(t)
  \/ Approve(t)
  \/ AbortAtGate(t)
  \/ ReviseAtGate(t)
  \/ ManualRollback(t)

Step(t) ==
  \/ InsertRow(t)
  \/ HardAbort(t)
  \/ StorePlan(t)
  \/ TransitionRead(t)
  \/ TransitionWrite(t)
  \/ ReadPlan(t)
  \/ SignApproval(t)
  \/ LaunchForwardPath(t)
  \/ SignAbort(t)
  \/ LogAbort(t)
  \/ InstallRevision(t)
  \/ DropRevision(t)
  \/ HandlerSucceeds(t)
  \/ HandlerFails(t)
  \/ InsertStep(t)
  \/ ApplyMqsc(t)
  \/ RecordStep(t)
  \/ SnapshotSteps(t)
  \/ UndoStep(t)
  \/ FinishRollback(t)
  \/ ReadForNarrative(t)
  \/ FileNarrative(t)
  \/ ForceRollingBack(t)
  \/ SpawnRollback(t)
  \/ GiveUpRollback(t)

\* Nothing runs and the operators have made all their requests.
AtRest ==
  /\ \A t \in Task : ~ Running(t)
  /\ UNCHANGED vars

Next ==
  \/ \E t \in Task : Request(t) \/ Step(t)
  \/ Crash
  \/ AtRest

\* The event loop runs every coroutine that can run; operators owe nothing.
Fairness == \A t \in Task : WF_vars(Step(t))

Spec == Init /\ [][Next]_vars
FairSpec == Spec /\ Fairness

=============================================================================
