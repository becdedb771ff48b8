------------------------- MODULE MigrationQuietProofs -------------------------
(***************************************************************************)
(* Proofs about MigrationEngine while operators wait until nothing runs    *)
(* for the migration: for every plan, any set of tasks, any mix of         *)
(* requests and, where a theorem names none, every set of faults.          *)
(***************************************************************************)
EXTENDS MigrationEngineProofs, MigrationEngineRefinement, WellFoundedInduction

-----------------------------------------------------------------------------
(* One coroutine at a time. *)

\* A step is one of a running coroutine; a request is accepted at rest only.
LEMMA OthersIdle ==
  ASSUME TypeOK, Lone, Operators = "quiescent", NEW t \in Task, Request(t) \/ Step(t)
  PROVE  /\ Request(t) => \A u \in Task : ~ Running(u)
         /\ \A u \in Task \ {t} : ~ Running(u) /\ tasks'[u] = tasks[u]
<1>1. CASE Request(t)
  <2>1. \A u \in Task : ~ Running(u)
    BY <1>1 DEF Request, StartMigrationRun, Approve, AbortAtGate, ReviseAtGate,
         ManualRollback, Accept, MayRequest
  <2> QED
    BY <2>1, StepsOneTask
<1>2. CASE Step(t)
  <2>1. Running(t)
    BY <1>2 DEF Step, InsertRow, HardAbort, StorePlan, TransitionRead,
         TransitionWrite, ReadPlan, SignApproval, LaunchForwardPath, SignAbort,
         LogAbort, InstallRevision, DropRevision, HandlerSucceeds, HandlerFails,
         InsertStep, ApplyMqsc, RecordStep, SnapshotSteps, UndoStep,
         FinishRollback, ReadForNarrative, FileNarrative, ForceRollingBack,
         SpawnRollback, GiveUpRollback, At, Running
  <2>2. ~ Request(t)
    BY <2>1 DEF Request, StartMigrationRun, Approve, AbortAtGate, ReviseAtGate,
         ManualRollback, Accept, At, Running
  <2> QED
    BY <2>1, <2>2, StepsOneTask DEF Lone
<1> QED
  BY <1>1, <1>2

LEMMA LoneStep ==
  ASSUME TypeOK, Lone, Operators = "quiescent", NEW t \in Task, Request(t) \/ Step(t)
  PROVE  Lone'
BY OthersIdle DEF Lone, Running

\* What the two common ends of a step make of a coroutine.
LEMMA Outcomes ==
  ASSUME TypeOK, NEW t \in Task
  PROVE  /\ Become(t, Finished(t)) => tasks'[t].pc = "done" /\ tasks'[t].op = tasks[t].op
         /\ \A to : Become(t, Move(t, to)) =>
              /\ tasks'[t].pc = "t_read" /\ tasks'[t].to = to
              /\ tasks'[t].op = tasks[t].op /\ tasks'[t].corr = tasks[t].corr
<1>1. tasks[t] \in TaskRec
  BY DEF TypeOK
<1>2. Finished(t).pc = "done" /\ Finished(t).op = tasks[t].op
  BY DEF Finished, Unused
<1>3. ASSUME NEW to
      PROVE  /\ Move(t, to).pc = "t_read" /\ Move(t, to).to = to
             /\ Move(t, to).op = tasks[t].op /\ Move(t, to).corr = tasks[t].corr
  BY <1>1 DEF Move, TaskRec
<1> QED
  BY <1>2, <1>3, BecomeOnly

\* A request reads the row and starts a coroutine.
LEMMA AcceptShape ==
  ASSUME TypeOK, NEW t \in Task, Request(t)
  PROVE  /\ UNCHANGED << row, steps, mq, audit, attempt, planned, found >>
         /\ tasks'[t].seen = row.state /\ tasks'[t].plan = row.plan
         /\ tasks'[t].corr = planned /\ tasks'[t].op \in Handler
         /\ \/ /\ tasks'[t].pc = "insert_row"
               /\ row.state = "NO_ROW" \/ is_terminal(row.state)
            \/ /\ tasks'[t].pc \in { "read_plan", "sign_abort", "install" }
               /\ row.state = "AWAITING_APPROVAL"
            \/ /\ tasks'[t].pc = "force"
               /\ row.state \in MigrationState \ { "ROLLED_BACK", "ROLLBACK_FAILED" }
<1>1. ASSUME NEW op \in OperatorRequest, NEW pc, Accept(t, op, pc)
      PROVE  /\ UNCHANGED << row, steps, mq, audit, attempt, planned, found >>
             /\ tasks'[t].seen = row.state /\ tasks'[t].plan = row.plan
             /\ tasks'[t].corr = planned /\ tasks'[t].op \in Handler
             /\ tasks'[t].pc = pc
  BY <1>1 DEF Accept, Become, TypeOK, Unused, Handler
<1>2. CASE StartMigrationRun(t)
  BY <1>1, <1>2 DEF StartMigrationRun, OperatorRequest
<1>3. CASE Approve(t) \/ AbortAtGate(t) \/ ReviseAtGate(t)
  BY <1>1, <1>3 DEF Approve, AbortAtGate, ReviseAtGate, OperatorRequest
<1>4. CASE ManualRollback(t)
  BY <1>1, <1>4 DEF ManualRollback, OperatorRequest, is_terminal, TERMINAL_STATES,
       MigrationState
<1> QED
  BY <1>2, <1>3, <1>4 DEF Request

\* Where a coroutine goes on once its transition was made.
LEMMA Landing ==
  ASSUME TypeOK, NEW t \in Task, WellFormed(t), tasks[t].pc = "t_write",
         Become(t, AfterTransition(t, TRUE))
  PROVE  /\ tasks'[t].op = tasks[t].op
         /\ \/ tasks[t].to = "AWAITING_APPROVAL" /\ tasks'[t].pc = "done"
            \/ /\ tasks[t].to = "REWIRING" /\ tasks'[t].to = "REWIRING"
               /\ tasks'[t].pc = "insert_step" /\ tasks'[t].i = 1
            \/ /\ tasks[t].to \in Executing \ { "REWIRING" }
               /\ tasks'[t].to = tasks[t].to /\ tasks'[t].pc = "handler"
            \/ tasks[t].to = "COMPLETED" /\ tasks'[t].pc = "narrate"
            \/ tasks[t].to = "ROLLING_BACK" /\ tasks'[t].pc = "snapshot"
<1>1. tasks[t] \in TaskRec /\ tasks'[t] = AfterTransition(t, TRUE)
  BY BecomeOnly DEF TypeOK
<1>2. CASE tasks[t].to = "REWIRING"
  <2>1. tasks'[t] = [ tasks[t] EXCEPT !.pc = "insert_step", !.i = 1 ]
    BY <1>1, <1>2 DEF AfterTransition, WellFormed, Executing
  <2> QED
    BY <1>1, <1>2, <2>1 DEF TaskRec
<1>3. CASE tasks[t].to \in Executing \ { "REWIRING" }
  <2>1. tasks'[t] = [ tasks[t] EXCEPT !.pc = "handler" ]
    BY <1>1, <1>3 DEF AfterTransition, WellFormed, Executing
  <2> QED
    BY <1>1, <1>3, <2>1 DEF TaskRec
<1>4. CASE tasks[t].to = "COMPLETED"
  <2>1. tasks'[t] = [ tasks[t] EXCEPT !.pc = "narrate" ]
    BY <1>1, <1>4 DEF AfterTransition, WellFormed, Executing
  <2> QED
    BY <1>1, <1>4, <2>1 DEF TaskRec
<1>5. CASE tasks[t].to = "ROLLING_BACK"
  <2>1. tasks'[t] = [ tasks[t] EXCEPT !.pc = "snapshot" ]
    BY <1>1, <1>5 DEF AfterTransition, Executing
  <2> QED
    BY <1>1, <1>5, <2>1 DEF TaskRec
<1>6. CASE tasks[t].op = "plan" /\ tasks[t].to = "AWAITING_APPROVAL"
  <2>1. tasks'[t] = Finished(t)
    BY <1>1, <1>6 DEF AfterTransition, Executing
  <2> QED
    BY <1>6, <2>1 DEF Finished, Unused
<1> QED
  BY <1>2, <1>3, <1>4, <1>5, <1>6 DEF WellFormed

-----------------------------------------------------------------------------
(* Where the row stands while a coroutine works on it. *)

\* No coroutine's transition is refused: what it wants to leave is where the
\* row is.
LEMMA NeverRefused ==
  ASSUME TypeOK, NEW t \in Task, WellFormed(t), Stage(t),
         tasks[t].pc \in { "t_read", "t_write" }
  PROVE  is_valid_transition(row.state, tasks[t].to)
<1>1. CASE tasks[t].op = "plan"
  BY <1>1 DEF WellFormed, Stage, is_valid_transition, next_forward
<1>2. CASE tasks[t].op = "forward"
  <2>1. row.state \in Executing \cup { "AWAITING_APPROVAL" }
    BY <1>2 DEF Stage
  <2> QED
    BY <1>2, <2>1, ForwardEdges DEF Stage, is_valid_transition, next_forward, Executing
<1>3. CASE tasks[t].op = "abort"
  BY <1>3 DEF WellFormed, Stage, is_valid_transition, next_forward
<1> QED
  BY <1>1, <1>2, <1>3 DEF WellFormed

\* A step takes its coroutine from one stage to the next, and no step loses
\* the approval of a row past the gate.
LEMMA StageStep ==
  ASSUME QuietInv, Operators = "quiescent", NEW t \in Task, Request(t) \/ Step(t)
  PROVE  Staged' /\ PastGateApproved'
<1>1. /\ TypeOK /\ WellFormed(t) /\ tasks[t] \in TaskRec /\ row.state \in RowState
      /\ row \in [ state : RowState, plan : PlanBlob ]
      /\ PastGateApproved
  BY DEF QuietInv, TypeOK, AllWellFormed
<1>2. Running(t) => Stage(t)
  BY DEF QuietInv, Staged
<1>3. SUFFICES (Running(t)' => Stage(t)') /\ PastGateApproved'
  BY OthersIdle DEF QuietInv, Staged, Running
<1>4. ASSUME row'.state = row.state, row'.plan.approval = row.plan.approval
      PROVE  PastGateApproved'
  BY <1>1, <1>4 DEF PastGateApproved
<1>5. ASSUME row'.state \in { "NO_ROW", "PLANNED", "AWAITING_APPROVAL", "ROLLING_BACK",
                              "ROLLED_BACK", "ROLLBACK_FAILED" }
      PROVE  PastGateApproved'
  BY <1>5 DEF PastGateApproved, Executing
<1>6. ASSUME tasks'[t].pc = "done" PROVE Running(t)' => Stage(t)'
  BY <1>6 DEF Running
<1>7. CASE Request(t)
  BY <1>1, <1>4, <1>7, AcceptShape DEF Stage, Handler, OperatorRequest
<1>8. CASE InsertRow(t)
  <2> DEFINE lost == tasks[t].seen = "NO_ROW" /\ row.state # "NO_ROW"
  <2>1. CASE lost
    BY <1>1, <1>4, <1>6, <1>8, <2>1, Outcomes DEF InsertRow
  <2>2. CASE ~ lost
    <3>1. row' = [ state |-> "PLANNED", plan |-> NoPlan ]
      BY <1>8, <2>2 DEF InsertRow
    <3>2. tasks'[t].op = "plan" /\ tasks'[t].pc = "resolve"
      <4>1. tasks'[t] = [ tasks[t] EXCEPT !.op = "plan", !.pc = "resolve",
                                          !.corr = attempt + 1 ]
        BY <1>1, <1>8, <2>2 DEF InsertRow, Become, TypeOK
      <4> QED
        BY <1>1, <4>1 DEF TaskRec
    <3> QED
      BY <1>5, <3>1, <3>2 DEF Stage, NoPlan
  <2> QED
    BY <2>1, <2>2
<1>9. CASE HardAbort(t) \/ GiveUpRollback(t)
  BY <1>1, <1>5, <1>6, <1>9, Outcomes DEF HardAbort, GiveUpRollback
<1>10. CASE StorePlan(t)
  <2>1. row'.state = "PLANNED" /\ row'.plan.approval = "NONE"
    BY <1>1, <1>2, <1>10 DEF StorePlan, At, Running, Stage, WellFormed, NoPlan
  <2>2. tasks'[t].pc = "t_read" /\ tasks'[t].op = "plan"
    BY <1>1, <1>10, Outcomes DEF StorePlan, At, WellFormed
  <2> QED
    BY <1>5, <2>1, <2>2 DEF Stage
<1>11. CASE TransitionRead(t)
  <2>1. Stage(t) /\ tasks[t].pc = "t_read" /\ row' = row
    BY <1>2, <1>11 DEF TransitionRead, At, Running
  <2>2. is_valid_transition(row.state, tasks[t].to)
    BY <1>1, <2>1, NeverRefused
  <2>3. /\ tasks'[t].pc = "t_write" /\ tasks'[t].op = tasks[t].op
        /\ tasks'[t].to = tasks[t].to
    <3>1. tasks'[t] = [ tasks[t] EXCEPT !.pc = "t_write", !.seen = row.state ]
      BY <1>1, <1>11, <2>2 DEF TransitionRead, Become, TypeOK
    <3> QED
      BY <1>1, <3>1 DEF TaskRec
  <2> QED
    BY <1>4, <2>1, <2>3 DEF Stage
<1>12. CASE TransitionWrite(t)
  <2>1. Stage(t) /\ tasks[t].pc = "t_write" /\ row'.state = tasks[t].to
    BY <1>1, <1>2, <1>12 DEF TransitionWrite, At, Running
  <2>2. row'.plan = row.plan
    BY <1>1, <1>12 DEF TransitionWrite
  <2>3. PastGateApproved'
    <3>1. CASE tasks[t].op = "forward"
      BY <2>1, <2>2, <3>1 DEF Stage, PastGateApproved
    <3>2. CASE tasks[t].op # "forward"
      BY <1>1, <1>5, <2>1, <3>2 DEF WellFormed
    <3> QED
      BY <3>1, <3>2
  <2>4. Running(t)' => Stage(t)'
    <3>1. tasks[t].to # "AWAITING_APPROVAL" => tasks[t].op # "plan"
      BY <1>1, <2>1 DEF WellFormed
    <3>2. Become(t, AfterTransition(t, TRUE))
      BY <1>12 DEF TransitionWrite
    <3>3. CASE tasks'[t].pc = "done"
      BY <1>6, <3>3
    <3>4. CASE /\ tasks'[t].pc \in { "insert_step", "handler" }
               /\ tasks'[t].to = tasks[t].to /\ tasks'[t].op # "plan"
      BY <2>1, <3>4 DEF Stage
    <3>5. CASE tasks'[t].pc = "narrate" /\ tasks'[t].op # "plan"
      BY <3>5 DEF Stage
    <3>6. CASE /\ tasks'[t].pc = "snapshot" /\ tasks[t].to = "ROLLING_BACK"
               /\ tasks'[t].op # "plan"
      BY <2>1, <3>6 DEF Stage
    <3> QED
      BY <1>1, <2>1, <3>1, <3>2, <3>3, <3>4, <3>5, <3>6, Landing DEF Executing
  <2> QED
    BY <2>3, <2>4
<1>13. CASE ReadPlan(t)
  <2>1. tasks'[t].pc = "sign" /\ tasks'[t].op = tasks[t].op /\ tasks'[t].plan = row.plan
    BY <1>1, <1>13 DEF ReadPlan, TaskRec, Become, TypeOK
  <2> QED
    BY <1>2, <1>4, <1>13, <2>1 DEF ReadPlan, At, Running, Stage
<1>14. CASE SignApproval(t) \/ SignAbort(t)
  <2>1. tasks[t].pc \in { "sign", "sign_abort" } /\ row.state = "AWAITING_APPROVAL"
    BY <1>2, <1>14 DEF SignApproval, SignAbort, At, Running, Stage
  <2>2. row'.state = row.state
    BY <1>1, <1>14 DEF SignApproval, SignAbort
  <2>3. SignApproval(t) => row'.plan.approval = "APPROVED"
    BY <1>1, <1>14 DEF SignApproval, TaskRec, PlanBlob
  <2>4. /\ tasks'[t].op = tasks[t].op
        /\ tasks'[t].pc = IF SignApproval(t) THEN "context" ELSE "log_abort"
    BY <1>1, <1>14 DEF SignApproval, SignAbort, At, TaskRec, Become, TypeOK
  <2> QED
    BY <1>1, <1>2, <1>5, <2>1, <2>2, <2>3, <2>4 DEF Stage, WellFormed, Running
<1>15. CASE LaunchForwardPath(t)
  <2>1. /\ tasks'[t].pc = "t_read" /\ tasks'[t].op = "forward"
        /\ tasks'[t].to = "PROVISIONING_TARGET_QM"
    BY <1>1, <1>15 DEF LaunchForwardPath, Move, TaskRec, Become, TypeOK
  <2>2. row.state = "AWAITING_APPROVAL" /\ row.plan.approval = "APPROVED" /\ row' = row
    BY <1>2, <1>15 DEF LaunchForwardPath, At, Running, Stage
  <2> QED
    BY <1>4, <2>1, <2>2 DEF Stage, next_forward
<1>16. CASE LogAbort(t)
  BY <1>1, <1>2, <1>4, <1>16, Outcomes DEF LogAbort, At, Running, Stage, WellFormed
<1>17. CASE InstallRevision(t) \/ DropRevision(t)
  <2>1. row'.state = "AWAITING_APPROVAL"
    BY <1>1, <1>2, <1>17 DEF InstallRevision, DropRevision, At, Running, Stage
  <2> QED
    BY <1>1, <1>5, <1>6, <1>17, <2>1, Outcomes DEF InstallRevision, DropRevision
<1>18. CASE HandlerSucceeds(t) \/ HandlerFails(t)
  <2>1. /\ row.state = tasks[t].to /\ row.state \in Executing /\ row' = row
        /\ tasks[t].op = "forward"
    BY <1>1, <1>2, <1>18 DEF HandlerSucceeds, HandlerFails, At, Running, Stage, WellFormed
  <2>2. /\ tasks'[t].pc = "t_read" /\ tasks'[t].op = "forward"
        /\ tasks'[t].to \in { next_forward[row.state], "ROLLING_BACK" }
    BY <1>1, <1>18, <2>1, Outcomes DEF HandlerSucceeds, HandlerFails
  <2> QED
    BY <1>1, <1>4, <2>1, <2>2 DEF Stage, PastGateApproved
<1>19. CASE InsertStep(t) \/ ApplyMqsc(t) \/ RecordStep(t)
  <2>1. /\ row.state = "REWIRING" /\ row' = row /\ tasks[t].to = "REWIRING"
        /\ tasks[t].op = "forward"
    BY <1>1, <1>2, <1>19 DEF InsertStep, ApplyMqsc, RecordStep, At, Running, Stage,
         WellFormed
  <2>2. \/ /\ tasks'[t].pc \in { "apply", "record", "insert_step" }
           /\ tasks'[t].to = "REWIRING" /\ tasks'[t].op = "forward"
        \/ /\ tasks'[t].pc = "t_read" /\ tasks'[t].op = "forward"
           /\ tasks'[t].to \in { "DRAIN_WAIT", "ROLLING_BACK" }
    <3>1. CASE Become(t, [ tasks[t] EXCEPT !.pc = "apply" ])
      BY <1>1, <2>1, <3>1 DEF TaskRec, Become, TypeOK
    <3>2. CASE \E ok \in BOOLEAN : Become(t, [ tasks[t] EXCEPT !.pc = "record", !.ok = ok ])
      BY <1>1, <2>1, <3>2 DEF TaskRec, Become, TypeOK
    <3>3. CASE Become(t, [ tasks[t] EXCEPT !.pc = "insert_step", !.i = tasks[t].i + 1 ])
      BY <1>1, <2>1, <3>3 DEF TaskRec, Become, TypeOK
    <3>4. CASE Become(t, Move(t, "DRAIN_WAIT")) \/ Become(t, Move(t, "ROLLING_BACK"))
      BY <1>1, <2>1, <3>4, Outcomes
    <3> QED
      BY <1>19, <3>1, <3>2, <3>3, <3>4 DEF InsertStep, ApplyMqsc, RecordStep
  <2> QED
    BY <1>1, <1>4, <2>1, <2>2 DEF Stage, PastGateApproved, Executing, next_forward
<1>20. CASE SnapshotSteps(t) \/ UndoStep(t) \/ SpawnRollback(t)
  <2>1. row.state = "ROLLING_BACK" /\ row' = row /\ tasks[t].op # "plan"
    BY <1>1, <1>2, <1>20 DEF SnapshotSteps, UndoStep, SpawnRollback, At, Running, Stage,
         WellFormed
  <2>2. tasks'[t].pc \in { "snapshot", "undo_step" } /\ tasks'[t].op \in { tasks[t].op, "undo" }
    <3>1. CASE SnapshotSteps(t)
      BY <1>1, <3>1 DEF SnapshotSteps, TaskRec, Become, TypeOK
    <3>2. CASE UndoStep(t)
      BY <1>1, <3>2 DEF UndoStep, At, TaskRec, Become, TypeOK
    <3>3. CASE SpawnRollback(t)
      BY <1>1, <3>3 DEF SpawnRollback, TaskRec, Become, TypeOK
    <3> QED
      BY <1>20, <3>1, <3>2, <3>3
  <2> QED
    BY <1>4, <2>1, <2>2 DEF Stage
<1>21. CASE FinishRollback(t)
  <2>1. row'.state \in { "ROLLED_BACK", "ROLLBACK_FAILED" }
    BY <1>1, <1>21 DEF FinishRollback
  <2>2. \/ tasks'[t].pc = "done"
        \/ tasks'[t].pc = "narrate" /\ tasks'[t].op = "forward"
    <3>1. CASE tasks[t].op = "forward"
      BY <1>1, <1>21, <3>1 DEF FinishRollback, TaskRec, Become, TypeOK
    <3>2. CASE tasks[t].op # "forward"
      BY <1>1, <1>21, <3>2, Outcomes DEF FinishRollback
    <3> QED
      BY <3>1, <3>2
  <2> QED
    BY <1>5, <1>6, <2>1, <2>2 DEF Stage
<1>22. CASE ReadForNarrative(t)
  <2>1. /\ tasks'[t].pc = "file_narrative" /\ tasks'[t].op = tasks[t].op
        /\ tasks'[t].plan = row.plan /\ tasks[t].op # "plan" /\ row' = row
    BY <1>1, <1>22 DEF ReadForNarrative, At, WellFormed, TaskRec, Become, TypeOK
  <2> QED
    BY <1>4, <2>1 DEF Stage
<1>23. CASE FileNarrative(t)
  <2>1. tasks[t].plan = row.plan
    BY <1>2, <1>23 DEF FileNarrative, At, Running, Stage
  <2>2. row'.state = row.state /\ row'.plan.approval = row.plan.approval
    BY <1>1, <1>23, <2>1 DEF FileNarrative, PlanBlob
  <2> QED
    BY <1>1, <1>4, <1>6, <1>23, <2>2, Outcomes DEF FileNarrative
<1>24. CASE ForceRollingBack(t)
  <2>1. row'.state = "ROLLING_BACK" /\ tasks[t].op # "plan"
    BY <1>1, <1>2, <1>24 DEF ForceRollingBack, At, Running, Stage, WellFormed
  <2>2. tasks'[t].pc = "find_pods" /\ tasks'[t].op = tasks[t].op
    BY <1>1, <1>24 DEF ForceRollingBack, TaskRec, Become, TypeOK
  <2> QED
    BY <1>5, <2>1, <2>2 DEF Stage
<1> QED
  BY <1>7, <1>8, <1>9, <1>10, <1>11, <1>12, <1>13, <1>14, <1>15, <1>16, <1>17, <1>18,
     <1>19, <1>20, <1>21, <1>22, <1>23, <1>24 DEF Step

\* After a kill nothing runs.
LEMMA CrashEndsAll ==
  Crash => /\ \A t \in Task : ~ Running(t)' /\ tasks'[t].pc \in { "free", "done" }
           /\ UNCHANGED << row, steps, mq, audit, attempt, planned, found >>
BY DEF Crash, Running, Finished, Unused

LEMMA QuietInit == Init => QuietInv
<1> SUFFICES ASSUME Init PROVE Lone /\ Staged /\ PastGateApproved
  BY TypeInit DEF QuietInv
<1>1. \A t \in Task : ~ Running(t)
  BY DEF Init, Running, Unused
<1> QED
  BY <1>1 DEF Init, Lone, Staged, PastGateApproved, Executing

LEMMA QuietNext ==
  Operators = "quiescent" => (QuietInv /\ [Next]_vars => QuietInv')
<1> SUFFICES ASSUME Operators = "quiescent", QuietInv, [Next]_vars
             PROVE  Lone' /\ Staged' /\ PastGateApproved'
  BY TypeNext DEF QuietInv
<1>1. CASE \E t \in Task : Request(t) \/ Step(t)
  BY <1>1, LoneStep, StageStep DEF QuietInv
<1>2. CASE Crash
  BY <1>2, CrashEndsAll DEF QuietInv, Lone, Staged, PastGateApproved
<1>3. CASE UNCHANGED vars
  BY <1>3 DEF vars, QuietInv, Lone, Staged, Stage, Running, PastGateApproved, Undoable
<1> QED
  BY <1>1, <1>2, <1>3 DEF Next, AtRest

\* A migration past the gate carries an APPROVED decision on its plan, whatever
\* fails and whenever the process is killed: no path of one operator leads
\* around the gate, and neither the narrator nor a revision writes a blob back
\* that has lost it.
THEOREM PastGateApprovedHolds ==
  Operators = "quiescent" => (Spec => []PastGateApproved)
<1> SUFFICES ASSUME Operators = "quiescent" PROVE Spec => []PastGateApproved
  OBVIOUS
<1>1. QuietInv => PastGateApproved
  BY DEF QuietInv
<1>2. QuietInv /\ [Next]_vars => QuietInv'
  BY QuietNext
<1> QED
  BY <1>1, <1>2, QuietInit, PTL DEF Spec

-----------------------------------------------------------------------------
(* Commands in plan order, undone in reverse. *)

\* A non-empty set of commands has a last one, and LastOf is it.
LEMMA LastOfFacts ==
  ASSUME NEW S \in SUBSET Command, S # {}
  PROVE  LastOf(S) \in S /\ \A j \in S : j <= LastOf(S)
<1> DEFINE N == Len(Plan)
           R == { p \in Nat \X Nat : p[1] < p[2] }
           T == { k \in Nat : \E i \in S : k = N - i }
<1>1. N \in Nat /\ S \subseteq 1 .. N
  BY CommandFacts DEF Command
<1>2. IsWellFoundedOn(R, Nat)
  BY NatLessThanWellFounded, IsWellFoundedOnSubrelation DEF OpToRel
<1> HIDE DEF N
<1>3. T \subseteq Nat /\ T # {}
  <2>1. PICK i \in S : TRUE
    OBVIOUS
  <2>2. N - i \in Nat
    BY <1>1
  <2> QED
    BY <2>2
<1> HIDE DEF R
<1>4. PICK x \in T : \A y \in T : ~ (<< y, x >> \in R)
  BY <1>2, <1>3, WFMin
<1>5. PICK i \in S : x = N - i
  BY <1>4
<1>6. ASSUME NEW j \in S PROVE j <= i
  <2>1. N - j \in T
    BY <1>1
  <2>2. << N - j, N - i >> \notin R
    BY <1>4, <1>5, <2>1
  <2> QED
    BY <1>1, <2>2 DEF R
<1> QED
  BY <1>6 DEF LastOf

\* The steps that rewire and undo; every other one leaves the commands, their
\* rows and what the attempt found alone.
Rewires(t) == \/ InsertRow(t) \/ InsertStep(t) \/ ApplyMqsc(t) \/ RecordStep(t)
              \/ SnapshotSteps(t) \/ UndoStep(t)

LEMMA OtherSteps ==
  ASSUME QuietInv, NEW t \in Task, Request(t) \/ Step(t), ~ Rewires(t)
  PROVE  /\ UNCHANGED << steps, mq, found >>
         /\ tasks'[t].pc \notin { "apply", "record", "undo_step" }
         /\ tasks'[t].pc = "insert_step" => tasks'[t].i = 1
         /\ tasks'[t].pc = "handler" => tasks'[t].to # "REWIRING"
         /\ tasks'[t].pc \in { "t_read", "t_write" } /\ tasks'[t].to = "DRAIN_WAIT" =>
              \/ tasks[t].pc = "t_read" /\ tasks[t].to = "DRAIN_WAIT"
              \/ tasks[t].pc = "handler" /\ tasks[t].to = "REWIRING"
<1>1. TypeOK /\ WellFormed(t) /\ tasks[t] \in TaskRec /\ (Running(t) => Stage(t))
  BY DEF QuietInv, TypeOK, AllWellFormed, Staged
<1>2. UNCHANGED << steps, mq, found >>
  BY DEF Rewires, Request, StartMigrationRun, Approve, AbortAtGate, ReviseAtGate,
     ManualRollback, Accept, Step, HardAbort, StorePlan, TransitionRead,
     TransitionWrite, ReadPlan, SignApproval, LaunchForwardPath, SignAbort, LogAbort,
     InstallRevision, DropRevision, HandlerSucceeds, HandlerFails, FinishRollback,
     ReadForNarrative, FileNarrative, ForceRollingBack, SpawnRollback, GiveUpRollback
<1> DEFINE Fine ==
     /\ tasks'[t].pc \notin { "apply", "record", "undo_step" }
     /\ tasks'[t].pc = "insert_step" => tasks'[t].i = 1
     /\ tasks'[t].pc = "handler" => tasks'[t].to # "REWIRING"
     /\ tasks'[t].pc \in { "t_read", "t_write" } /\ tasks'[t].to = "DRAIN_WAIT" =>
          \/ tasks[t].pc = "t_read" /\ tasks[t].to = "DRAIN_WAIT"
          \/ tasks[t].pc = "handler" /\ tasks[t].to = "REWIRING"
<1> SUFFICES Fine
  BY <1>2
<1>3. CASE Request(t)
  BY <1>1, <1>3, AcceptShape
<1>4. CASE Become(t, Finished(t))
  BY <1>1, <1>4, Outcomes
<1>5. CASE StorePlan(t) \/ LogAbort(t) \/ HandlerFails(t)
  <2>1. tasks'[t].pc = "t_read" /\ tasks'[t].to \in { "AWAITING_APPROVAL", "ROLLING_BACK" }
    BY <1>1, <1>5, Outcomes DEF StorePlan, LogAbort, HandlerFails
  <2> QED
    BY <2>1
<1>6. CASE TransitionRead(t)
  <2>1. is_valid_transition(row.state, tasks[t].to)
    BY <1>1, <1>6, NeverRefused DEF TransitionRead, At, Running
  <2>2. tasks'[t] = [ tasks[t] EXCEPT !.pc = "t_write", !.seen = row.state ]
    BY <1>1, <1>6, <2>1 DEF TransitionRead, Become, TypeOK
  <2>3. tasks'[t].pc = "t_write" /\ tasks'[t].to = tasks[t].to
    BY <1>1, <2>2 DEF TaskRec
  <2> QED
    BY <1>6, <2>3 DEF TransitionRead, At
<1>7. CASE TransitionWrite(t)
  BY <1>1, <1>7, Landing DEF TransitionWrite, At
<1>8. CASE ReadPlan(t) \/ SignApproval(t) \/ SignAbort(t)
  <2>1. tasks'[t].pc \in { "sign", "context", "log_abort" }
    <3>1. CASE ReadPlan(t)
      BY <1>1, <3>1 DEF ReadPlan, Become, TypeOK, TaskRec
    <3>2. CASE SignApproval(t) \/ SignAbort(t)
      BY <1>1, <3>2 DEF SignApproval, SignAbort, Become, TypeOK, TaskRec
    <3> QED
      BY <1>8, <3>1, <3>2
  <2> QED
    BY <2>1
<1>9. CASE LaunchForwardPath(t)
  <2>1. tasks'[t].pc = "t_read" /\ tasks'[t].to = "PROVISIONING_TARGET_QM"
    BY <1>1, <1>9 DEF LaunchForwardPath, Move, Become, TypeOK, TaskRec
  <2> QED
    BY <2>1
<1>10. CASE HandlerSucceeds(t)
  <2>1. /\ tasks'[t].pc = "t_read" /\ tasks'[t].to = next_forward[tasks[t].to]
        /\ tasks[t].pc = "handler" /\ tasks[t].to \in Executing
    BY <1>1, <1>10, Outcomes DEF HandlerSucceeds, At, WellFormed
  <2>2. tasks'[t].to = "DRAIN_WAIT" => tasks[t].to = "REWIRING"
    BY <2>1 DEF Executing, next_forward
  <2> QED
    BY <2>1, <2>2
<1>11. CASE ReadForNarrative(t) \/ ForceRollingBack(t) \/ SpawnRollback(t)
  <2>1. tasks'[t].pc \in { "file_narrative", "find_pods", "snapshot" }
    <3>1. CASE ReadForNarrative(t)
      BY <1>1, <3>1 DEF ReadForNarrative, Become, TypeOK, TaskRec
    <3>2. CASE ForceRollingBack(t)
      BY <1>1, <3>2 DEF ForceRollingBack, Become, TypeOK, TaskRec
    <3>3. CASE SpawnRollback(t)
      BY <1>1, <3>3 DEF SpawnRollback, Become, TypeOK, TaskRec
    <3> QED
      BY <1>11, <3>1, <3>2, <3>3
  <2> QED
    BY <2>1
<1>12. CASE FinishRollback(t)
  <2>1. CASE tasks[t].op = "forward"
    BY <1>1, <1>12, <2>1 DEF FinishRollback, Become, TypeOK, TaskRec
  <2>2. CASE tasks[t].op # "forward"
    BY <1>1, <1>4, <1>12, <2>2 DEF FinishRollback
  <2> QED
    BY <2>1, <2>2
<1> QED
  BY <1>3, <1>4, <1>5, <1>6, <1>7, <1>8, <1>9, <1>10, <1>11, <1>12
  DEF Rewires, Step, HardAbort, InstallRevision, DropRevision, FileNarrative, GiveUpRollback

\* The row of a command is there before the command runs, and while its
\* effect is: whatever is done or undone has a row.
LEMMA EffectStep ==
  ASSUME QuietInv, EffectInv, Operators = "quiescent", NEW t \in Task, Request(t) \/ Step(t)
  PROVE  EffectInv'
<1>1. TypeOK /\ tasks[t] \in TaskRec /\ (Running(t) => Traced(t)) /\ EffectHasRow
  BY DEF QuietInv, TypeOK, EffectInv
<1>2. SUFFICES EffectHasRow' /\ Traced(t)'
  BY OthersIdle DEF QuietInv, EffectInv, Running
<1>3. CASE ~ Rewires(t)
  BY <1>1, <1>3, OtherSteps DEF EffectHasRow, Traced
<1>4. CASE InsertRow(t)
  <2> DEFINE lost == tasks[t].seen = "NO_ROW" /\ row.state # "NO_ROW"
  <2>1. CASE lost
    BY <1>1, <1>4, <2>1, Outcomes DEF InsertRow, EffectHasRow, Traced
  <2>2. CASE ~ lost
    <3>1. tasks'[t] = [ tasks[t] EXCEPT !.op = "plan", !.pc = "resolve",
                                        !.corr = attempt + 1 ]
      BY <1>1, <1>4, <2>2 DEF InsertRow, Become, TypeOK
    <3>2. tasks'[t].pc = "resolve"
      BY <1>1, <3>1 DEF TaskRec
    <3> QED
      BY <1>4, <2>2, <3>2 DEF InsertRow, EffectHasRow, Traced
  <2> QED
    BY <2>1, <2>2
<1>5. CASE InsertStep(t)
  <2>1. CASE steps[tasks[t].i].status = "absent"
    <3>1. tasks'[t].pc = "apply" /\ tasks'[t].i = tasks[t].i
      BY <1>1, <1>5, <2>1 DEF InsertStep, Become, TypeOK, TaskRec
    <3>2. /\ steps' = [ steps EXCEPT ![tasks[t].i] = [ status |-> "pending", by |-> t ] ]
          /\ mq' = mq /\ found' = found /\ tasks[t].i \in Command
      BY <1>1, <1>5, <2>1 DEF InsertStep, TaskRec
    <3> QED
      BY <1>1, <3>1, <3>2 DEF EffectHasRow, Traced, TypeOK
  <2>2. CASE steps[tasks[t].i].status # "absent"
    BY <1>1, <1>5, <2>2, Outcomes DEF InsertStep, EffectHasRow, Traced
  <2> QED
    BY <2>1, <2>2
<1>6. CASE ApplyMqsc(t)
  <2>1. tasks'[t].pc = "record" /\ tasks'[t].i = tasks[t].i
    BY <1>1, <1>6 DEF ApplyMqsc, Become, TypeOK, TaskRec
  <2>2. steps[tasks[t].i] = [ status |-> "pending", by |-> t ]
    BY <1>1, <1>6 DEF ApplyMqsc, At, Running, Traced
  <2> QED
    BY <1>1, <1>6, <2>1, <2>2 DEF ApplyMqsc, EffectHasRow, Traced, TypeOK
<1>7. CASE RecordStep(t)
  <2>1. tasks'[t].pc \in { "insert_step", "t_read" }
    <3>1. CASE Become(t, [ tasks[t] EXCEPT !.pc = "insert_step", !.i = tasks[t].i + 1 ])
      BY <1>1, <3>1 DEF Become, TypeOK, TaskRec
    <3>2. CASE Become(t, Move(t, "DRAIN_WAIT")) \/ Become(t, Move(t, "ROLLING_BACK"))
      BY <1>1, <3>2, Outcomes
    <3> QED
      BY <1>7, <3>1, <3>2 DEF RecordStep
  <2>2. \A i \in Command : steps[i].status # "absent" => steps'[i].status # "absent"
    BY <1>1, <1>7 DEF RecordStep, TypeOK, StepRow
  <2> QED
    BY <1>1, <1>7, <2>1, <2>2 DEF RecordStep, EffectHasRow, Traced
<1>8. CASE SnapshotSteps(t)
  <2>1. tasks'[t].pc = "undo_step" /\ tasks'[t].todo = Undoable
    BY <1>1, <1>8 DEF SnapshotSteps, Become, TypeOK, TaskRec
  <2> QED
    BY <1>1, <1>8, <2>1 DEF SnapshotSteps, EffectHasRow, Traced, Undoable
<1>9. CASE UndoStep(t)
  <2>1. /\ tasks[t].todo \subseteq Undoable /\ tasks[t].todo # {}
        /\ tasks[t].todo \subseteq Command
    BY <1>1, <1>9 DEF UndoStep, At, Running, Traced, TaskRec
  <2>2. LastOf(tasks[t].todo) \in tasks[t].todo
    BY <2>1, LastOfFacts
  <2>3. steps[LastOf(tasks[t].todo)].status # "absent"
    BY <2>1, <2>2 DEF Undoable
  <2>4. \A i \in Command : mq'[i] # mq[i] => i = LastOf(tasks[t].todo)
    BY <1>1, <1>9 DEF UndoStep, TypeOK
  <2>5. tasks'[t].pc = "undo_step" /\ tasks'[t].todo \subseteq tasks[t].todo
    BY <1>1, <1>9 DEF UndoStep, At, Become, TypeOK, TaskRec
  <2>6. Undoable' = Undoable
    BY <1>9 DEF UndoStep, Undoable
  <2> QED
    BY <1>1, <1>9, <2>1, <2>3, <2>4, <2>5, <2>6 DEF UndoStep, EffectHasRow, Traced
<1> QED
  BY <1>3, <1>4, <1>5, <1>6, <1>7, <1>8, <1>9 DEF Rewires

\* Commands are put in place in plan order, and the row leaves REWIRING
\* forward only when the last one is.
LEMMA WiredStep ==
  ASSUME QuietInv, EffectInv, WiredInv, Operators = "quiescent",
         NEW t \in Task, Request(t) \/ Step(t)
  PROVE  WiredInv'
<1> DEFINE Past == { "DRAIN_WAIT", "VALIDATING_DURING", "DRAINING_SOURCE",
                     "VALIDATING_POST", "COMPLETED" }
<1>1. /\ TypeOK /\ tasks[t] \in TaskRec /\ WellFormed(t)
      /\ Running(t) => Wired(t) /\ Stage(t) /\ Traced(t)
      /\ row.state \in Past => \A i \in Command : InPlace(i)
      /\ row \in [ state : RowState, plan : PlanBlob ]
  BY DEF QuietInv, TypeOK, AllWellFormed, Staged, EffectInv, WiredInv
<1>2. SUFFICES /\ row'.state \in Past => \A i \in Command : InPlace(i)'
               /\ Running(t)' => Wired(t)'
  BY OthersIdle DEF QuietInv, WiredInv, Running
<1>3. CASE ~ Rewires(t)
  <2>1. \A i \in Command : InPlace(i)' <=> InPlace(i)
    BY <1>3, OtherSteps DEF InPlace
  <2>2. row'.state \in Past => row.state \in Past \/ (Running(t) /\ tasks[t].pc = "t_write"
                                 /\ row'.state = tasks[t].to)
    <3>1. CASE Request(t)
      BY <1>1, <3>1, AcceptShape
    <3>2. CASE TransitionWrite(t)
      BY <1>1, <3>2 DEF TransitionWrite, At, Running
    <3>3. CASE \/ StorePlan(t) \/ SignApproval(t) \/ SignAbort(t)
               \/ InstallRevision(t) \/ FileNarrative(t)
      BY <1>1, <3>3 DEF StorePlan, SignApproval, SignAbort, InstallRevision, FileNarrative
    <3>4. CASE \/ HardAbort(t) \/ FinishRollback(t)
               \/ ForceRollingBack(t) \/ GiveUpRollback(t)
      BY <1>1, <3>4 DEF HardAbort, FinishRollback, ForceRollingBack, GiveUpRollback
    <3> QED
      BY <1>3, <3>1, <3>2, <3>3, <3>4
      DEF Rewires, Step, TransitionRead, ReadPlan, LaunchForwardPath, LogAbort, DropRevision,
          HandlerSucceeds, HandlerFails, ReadForNarrative, SpawnRollback
  <2>3. row'.state \in Past => \A i \in Command : InPlace(i)
    <3>1. ASSUME Running(t), tasks[t].pc = "t_write", tasks[t].to \in Past
          PROVE  \A i \in Command : InPlace(i)
      <4>1. CASE tasks[t].to = "DRAIN_WAIT"
        BY <1>1, <3>1, <4>1 DEF Wired
      <4>2. CASE tasks[t].to # "DRAIN_WAIT"
        <5>1. /\ tasks[t].to = next_forward[row.state]
              /\ row.state \in Executing \cup { "AWAITING_APPROVAL" }
          BY <1>1, <3>1 DEF Stage, WellFormed
        <5>2. row.state \in Past
          BY <3>1, <4>2, <5>1 DEF Executing, next_forward
        <5> QED
          BY <1>1, <5>2
      <4> QED
        BY <4>1, <4>2
    <3> QED
      BY <1>1, <2>2, <3>1
  <2>4. Running(t)' => Wired(t)'
    <3>1. tasks'[t].pc = "insert_step" => \A j \in Command : ~ (j < tasks'[t].i)
      BY <1>3, CommandFacts, OtherSteps DEF Command
    <3>2. tasks'[t].pc \in { "t_read", "t_write" } /\ tasks'[t].to = "DRAIN_WAIT" =>
            \A j \in Command : InPlace(j)
      BY <1>1, <1>3, OtherSteps DEF Wired, Running
    <3> QED
      BY <1>3, <2>1, <3>1, <3>2, OtherSteps DEF Wired
  <2> QED
    BY <2>1, <2>3, <2>4
<1>4. CASE InsertRow(t)
  <2> DEFINE lost == tasks[t].seen = "NO_ROW" /\ row.state # "NO_ROW"
  <2>1. CASE lost
    BY <1>1, <1>4, <2>1, Outcomes DEF InsertRow, InPlace, Running
  <2>2. CASE ~ lost
    <3>1. tasks'[t] = [ tasks[t] EXCEPT !.op = "plan", !.pc = "resolve",
                                        !.corr = attempt + 1 ]
      BY <1>1, <1>4, <2>2 DEF InsertRow, Become, TypeOK
    <3>2. tasks'[t].pc = "resolve" /\ row'.state = "PLANNED"
      BY <1>1, <1>4, <2>2, <3>1 DEF InsertRow, TaskRec
    <3> QED
      BY <3>2 DEF Wired
  <2> QED
    BY <2>1, <2>2
<1>5. CASE InsertStep(t) \/ ApplyMqsc(t) \/ RecordStep(t)
  <2>0. PICK i \in Command : i = tasks[t].i
    BY <1>1 DEF TaskRec
  <2>1. /\ row' = row /\ row.state = "REWIRING" /\ tasks[t].i = i
        /\ \A j \in Command : j < i => InPlace(j)
        /\ tasks[t].pc \in { "insert_step", "apply", "record" }
    BY <1>1, <1>5, <2>0 DEF InsertStep, ApplyMqsc, RecordStep, At, Running, Wired, Stage,
         WellFormed
  <2>2. \A j \in Command : j # i => mq'[j] = mq[j] /\ steps'[j] = steps[j]
    BY <1>1, <1>5, <2>1 DEF InsertStep, ApplyMqsc, RecordStep, TypeOK
  <2>3. \A j \in Command : j < i => InPlace(j)'
    <3>1. \A j \in Command : j < i => j # i
      BY CommandFacts
    <3> QED
      BY <2>1, <2>2, <3>1 DEF InPlace
  <2>4. CASE InsertStep(t)
    <3>1. CASE steps[i].status = "absent"
      <4>1. tasks'[t].pc = "apply" /\ tasks'[t].i = i
        BY <1>1, <2>1, <2>4, <3>1 DEF InsertStep, Become, TypeOK, TaskRec
      <4> QED
        BY <2>1, <2>3, <4>1 DEF Wired
    <3>2. CASE steps[i].status # "absent"
      <4>1. tasks'[t].pc = "t_read" /\ tasks'[t].to = "ROLLING_BACK"
        BY <1>1, <2>1, <2>4, <3>2, Outcomes DEF InsertStep
      <4> QED
        BY <2>1, <4>1 DEF Wired
    <3> QED
      BY <3>1, <3>2
  <2>5. CASE ApplyMqsc(t)
    <3>1. tasks'[t].pc = "record" /\ tasks'[t].i = i
      BY <1>1, <2>1, <2>5 DEF ApplyMqsc, Become, TypeOK, TaskRec
    <3>2. tasks'[t].ok => mq'[i] = "after"
      BY <1>1, <2>1, <2>5 DEF ApplyMqsc, ForwardOutcome, Become, TypeOK, TaskRec
    <3> QED
      BY <2>1, <2>3, <3>1, <3>2 DEF Wired
  <2>6. CASE RecordStep(t)
    <3>1. tasks[t].pc = "record" /\ steps[i] = [ status |-> "pending", by |-> t ]
      BY <1>1, <2>1, <2>6 DEF RecordStep, At, Running, Traced
    <3>2. CASE ~ tasks[t].ok
      <4>1. tasks'[t].pc = "t_read" /\ tasks'[t].to = "ROLLING_BACK"
        BY <1>1, <2>1, <2>6, <3>2, Outcomes DEF RecordStep
      <4> QED
        BY <2>1, <4>1 DEF Wired
    <3>3. CASE tasks[t].ok
      <4>1. InPlace(i)'
        <5>1. mq'[i] = "after"
          BY <1>1, <2>1, <2>6, <3>1, <3>3 DEF RecordStep, Running, Wired
        <5>2. steps'[i].status = "succeeded"
          BY <1>1, <2>1, <2>6, <3>1, <3>3 DEF RecordStep, TypeOK, StepRow
        <5> QED
          BY <5>1, <5>2 DEF InPlace
      <4>2. \A j \in Command : j < i + 1 => InPlace(j)'
        <5>1. \A j \in Command : j < i + 1 => j < i \/ j = i
          BY CommandFacts
        <5> QED
          BY <2>3, <4>1, <5>1
      <4>3. CASE i < Len(Plan)
        <5>1. tasks'[t].pc = "insert_step" /\ tasks'[t].i = i + 1
          BY <1>1, <2>1, <2>6, <3>1, <3>3, <4>3 DEF RecordStep, Become, TypeOK, TaskRec
        <5> QED
          BY <2>1, <4>2, <5>1 DEF Wired
      <4>4. CASE ~ (i < Len(Plan))
        <5>1. tasks'[t].pc = "t_read" /\ tasks'[t].to = "DRAIN_WAIT"
          BY <1>1, <2>1, <2>6, <3>1, <3>3, <4>4, Outcomes DEF RecordStep
        <5>2. \A j \in Command : j < i + 1
          BY <2>1, <4>4, CommandFacts DEF Command
        <5> QED
          BY <2>1, <4>2, <5>1, <5>2 DEF Wired
      <4> QED
        BY <4>3, <4>4
    <3> QED
      BY <3>2, <3>3
  <2> QED
    BY <1>5, <2>4, <2>5, <2>6
<1>6. CASE SnapshotSteps(t) \/ UndoStep(t)
  <2>1. row'.state = "ROLLING_BACK"
    BY <1>1, <1>6 DEF SnapshotSteps, UndoStep, At, Running, Stage
  <2>2. tasks'[t].pc = "undo_step"
    <3>1. CASE SnapshotSteps(t)
      BY <1>1, <3>1 DEF SnapshotSteps, Become, TypeOK, TaskRec
    <3>2. CASE UndoStep(t)
      BY <1>1, <3>2 DEF UndoStep, At, Become, TypeOK, TaskRec
    <3> QED
      BY <1>6, <3>1, <3>2
  <2> QED
    BY <2>1, <2>2 DEF Wired
<1> QED
  BY <1>3, <1>4, <1>5, <1>6 DEF Rewires

LEMMA RewireInit == Init => RewireInv
<1> SUFFICES ASSUME Init PROVE EffectInv /\ WiredInv
  BY QuietInit DEF RewireInv
<1>1. \A t \in Task : ~ Running(t)
  BY DEF Init, Running, Unused
<1> QED
  BY <1>1 DEF Init, EffectInv, EffectHasRow, WiredInv

LEMMA RewireNext ==
  Operators = "quiescent" => (RewireInv /\ [Next]_vars => RewireInv')
<1> SUFFICES ASSUME Operators = "quiescent", RewireInv, [Next]_vars
             PROVE  EffectInv' /\ WiredInv'
  BY QuietNext DEF RewireInv
<1>1. CASE \E t \in Task : Request(t) \/ Step(t)
  BY <1>1, EffectStep, WiredStep DEF RewireInv
<1>2. CASE Crash
  BY <1>2, CrashEndsAll DEF RewireInv, EffectInv, EffectHasRow, WiredInv, InPlace
<1>3. CASE UNCHANGED vars
  BY <1>3 DEF vars, RewireInv, EffectInv, EffectHasRow, Traced, WiredInv, Wired, InPlace,
       Running, Undoable
<1> QED
  BY <1>1, <1>2, <1>3 DEF Next, AtRest

\* Whatever fails and whenever the process is killed, an effect the attempt had
\* on a queue manager has a step row: it is committed before the command, and
\* neither a rollback nor a verdict takes it away.
THEOREM EffectHasRowHolds ==
  Operators = "quiescent" => (Spec => []EffectHasRow)
<1> SUFFICES ASSUME Operators = "quiescent" PROVE Spec => []EffectHasRow
  OBVIOUS
<1>1. RewireInv => EffectHasRow
  BY DEF RewireInv, EffectInv
<1>2. RewireInv /\ [Next]_vars => RewireInv'
  BY RewireNext
<1> QED
  BY <1>1, <1>2, RewireInit, PTL DEF Spec

\* COMPLETED is only reached with every command of the plan in force and
\* recorded, for a plan of any length and any pattern of failures, lost answers
\* and kills.
THEOREM CompletedIsRewiredHolds ==
  Operators = "quiescent" => (Spec => []CompletedIsRewired)
<1> SUFFICES ASSUME Operators = "quiescent" PROVE Spec => []CompletedIsRewired
  OBVIOUS
<1>1. RewireInv => CompletedIsRewired
  BY DEF RewireInv, WiredInv, InPlace, CompletedIsRewired
<1>2. RewireInv /\ [Next]_vars => RewireInv'
  BY RewireNext
<1> QED
  BY <1>1, <1>2, RewireInit, PTL DEF Spec

-----------------------------------------------------------------------------
(* Decisions are logged. *)

\* The steps of the gate, and those that write the plan or the attempt; every
\* other one leaves the decision, the log and the attempt alone.
Decides(t) == \/ Request(t) \/ InsertRow(t) \/ StorePlan(t) \/ ReadPlan(t)
              \/ SignApproval(t) \/ SignAbort(t) \/ LogAbort(t)
              \/ InstallRevision(t) \/ FileNarrative(t)

LEMMA UndecidingSteps ==
  ASSUME QuietInv, NEW t \in Task, Step(t), ~ Decides(t)
  PROVE  /\ UNCHANGED << audit, attempt, planned >> /\ row'.plan = row.plan
         /\ tasks[t].pc # "log_abort"
         /\ tasks'[t].pc \notin { "sign", "install", "log_abort" }
<1>1. TypeOK /\ WellFormed(t) /\ tasks[t] \in TaskRec /\ (Running(t) => Stage(t))
  BY DEF QuietInv, TypeOK, AllWellFormed, Staged
<1>2. UNCHANGED << audit, attempt, planned >> /\ row'.plan = row.plan
  BY <1>1 DEF Decides, Step, HardAbort, TransitionRead, TransitionWrite, LaunchForwardPath,
     DropRevision, HandlerSucceeds, HandlerFails, InsertStep, ApplyMqsc, RecordStep,
     SnapshotSteps, UndoStep, FinishRollback, ReadForNarrative, ForceRollingBack,
     SpawnRollback, GiveUpRollback, TypeOK
<1>3. tasks[t].pc # "log_abort"
  BY DEF Decides, Step, HardAbort, TransitionRead, TransitionWrite, LaunchForwardPath,
     DropRevision, HandlerSucceeds, HandlerFails, InsertStep, ApplyMqsc, RecordStep,
     SnapshotSteps, UndoStep, FinishRollback, ReadForNarrative, ForceRollingBack,
     SpawnRollback, GiveUpRollback, At
<1> DEFINE Elsewhere == tasks'[t].pc \notin { "sign", "install", "log_abort" }
<1> SUFFICES Elsewhere
  BY <1>2, <1>3
<1>4. CASE Become(t, Finished(t))
  BY <1>1, <1>4, Outcomes
<1>5. CASE \E to : Become(t, Move(t, to))
  BY <1>1, <1>5, Outcomes
<1>6. CASE TransitionRead(t)
  <2>1. is_valid_transition(row.state, tasks[t].to)
    BY <1>1, <1>6, NeverRefused DEF TransitionRead, At, Running
  <2>2. tasks'[t] = [ tasks[t] EXCEPT !.pc = "t_write", !.seen = row.state ]
    BY <1>1, <1>6, <2>1 DEF TransitionRead, Become, TypeOK
  <2> QED
    BY <1>1, <2>2 DEF TaskRec
<1>7. CASE TransitionWrite(t)
  BY <1>1, <1>7, Landing DEF TransitionWrite, At
<1>8. CASE LaunchForwardPath(t)
  BY <1>1, <1>8 DEF LaunchForwardPath, Move, Become, TypeOK, TaskRec
<1>9. CASE Become(t, [ tasks[t] EXCEPT !.pc = "apply" ])
  BY <1>1, <1>9 DEF Become, TypeOK, TaskRec
<1>10. CASE ApplyMqsc(t)
  BY <1>1, <1>10 DEF ApplyMqsc, Become, TypeOK, TaskRec
<1>11. CASE Become(t, [ tasks[t] EXCEPT !.pc = "insert_step", !.i = tasks[t].i + 1 ])
  BY <1>1, <1>11 DEF Become, TypeOK, TaskRec
<1>12. CASE SnapshotSteps(t)
  BY <1>1, <1>12 DEF SnapshotSteps, Become, TypeOK, TaskRec
<1>13. CASE UndoStep(t)
  BY <1>1, <1>13 DEF UndoStep, At, Become, TypeOK, TaskRec
<1>14. CASE Become(t, [ tasks[t] EXCEPT !.pc = "narrate" ])
  BY <1>1, <1>14 DEF Become, TypeOK, TaskRec
<1>15. CASE ReadForNarrative(t)
  BY <1>1, <1>15 DEF ReadForNarrative, Become, TypeOK, TaskRec
<1>16. CASE ForceRollingBack(t)
  BY <1>1, <1>16 DEF ForceRollingBack, Become, TypeOK, TaskRec
<1>17. CASE SpawnRollback(t)
  BY <1>1, <1>17 DEF SpawnRollback, Become, TypeOK, TaskRec
<1> QED
  BY <1>4, <1>5, <1>6, <1>7, <1>8, <1>9, <1>10, <1>11, <1>12, <1>13, <1>14, <1>15, <1>16,
     <1>17
  DEF Decides, Step, HardAbort, DropRevision, HandlerSucceeds, HandlerFails, InsertStep,
      RecordStep, FinishRollback, GiveUpRollback

LEMMA DecisionStep ==
  ASSUME QuietInv, DecisionInv, Operators = "quiescent",
         NEW t \in Task, Request(t) \/ Step(t)
  PROVE  DecisionInv'
<1> DEFINE Logged == \E r \in audit : r.op = row.plan.approval /\ r.corr = attempt
           Ready(u) == /\ tasks[u].pc \in { "sign", "install" } => tasks[u].corr = attempt
                       /\ tasks[u].pc = "log_abort" => row.plan.approval = "ABORTED"
<1>1. /\ TypeOK /\ WellFormed(t) /\ tasks[t] \in TaskRec
      /\ row \in [ state : RowState, plan : PlanBlob ]
      /\ planned = attempt
      /\ Running(t) => Stage(t) /\ Ready(t)
  BY DEF QuietInv, TypeOK, AllWellFormed, Staged, DecisionInv
<1>2. \A u \in Task \ {t} : tasks[u].pc # "log_abort" /\ ~ Running(u)'
  BY OthersIdle DEF QuietInv, Running
<1>3. row.plan.approval # "NONE" => Logged \/ tasks[t].pc = "log_abort"
  BY <1>2 DEF DecisionInv
<1>4. SUFFICES /\ planned' = attempt'
               /\ Ready(t)'
               /\ row'.plan.approval # "NONE" => Logged' \/ tasks'[t].pc = "log_abort"
  BY <1>2 DEF DecisionInv
<1>5. CASE Request(t)
  <2>1. tasks[t].pc = "free"
    BY <1>5 DEF Request, StartMigrationRun, Approve, AbortAtGate, ReviseAtGate,
         ManualRollback, Accept, At
  <2> QED
    BY <1>1, <1>3, <1>5, <2>1, AcceptShape
<1>6. CASE Step(t) /\ ~ Decides(t)
  BY <1>1, <1>3, <1>6, UndecidingSteps
<1>7. CASE InsertRow(t)
  <2> DEFINE lost == tasks[t].seen = "NO_ROW" /\ row.state # "NO_ROW"
  <2>1. CASE lost
    BY <1>1, <1>3, <1>7, <2>1, Outcomes DEF InsertRow, At
  <2>2. CASE ~ lost
    <3>1. tasks'[t] = [ tasks[t] EXCEPT !.op = "plan", !.pc = "resolve",
                                        !.corr = attempt + 1 ]
      BY <1>1, <1>7, <2>2 DEF InsertRow, Become, TypeOK
    <3>2. tasks'[t].pc = "resolve" /\ row'.plan.approval = "NONE" /\ planned' = attempt'
      BY <1>1, <1>7, <2>2, <3>1 DEF InsertRow, TaskRec, NoPlan
    <3> QED
      BY <3>2
  <2> QED
    BY <2>1, <2>2
<1>8. CASE StorePlan(t)
  <2>1. tasks'[t].pc = "t_read" /\ row'.plan.approval = "NONE"
    BY <1>1, <1>8, Outcomes DEF StorePlan, NoPlan
  <2> QED
    BY <1>1, <1>8, <2>1 DEF StorePlan
<1>9. CASE ReadPlan(t)
  <2>1. tasks'[t].pc = "sign" /\ tasks'[t].corr = planned
    BY <1>1, <1>9 DEF ReadPlan, Become, TypeOK, TaskRec
  <2> QED
    BY <1>1, <1>3, <1>9, <2>1 DEF ReadPlan, At
<1>10. CASE SignApproval(t)
  <2>1. tasks'[t].pc = "context" /\ row'.plan.approval = "APPROVED"
    BY <1>1, <1>10 DEF SignApproval, Become, TypeOK, TaskRec, PlanBlob
  <2>2. [ op |-> "APPROVED", by |-> t, corr |-> attempt ] \in audit'
    BY <1>1, <1>10 DEF SignApproval, At, Running
  <2> QED
    BY <1>1, <1>10, <2>1, <2>2 DEF SignApproval
<1>11. CASE SignAbort(t)
  <2>1. tasks'[t].pc = "log_abort" /\ row'.plan.approval = "ABORTED"
    BY <1>1, <1>11 DEF SignAbort, Become, TypeOK, TaskRec, PlanBlob
  <2> QED
    BY <1>1, <1>11, <2>1 DEF SignAbort
<1>12. CASE LogAbort(t)
  <2>1. tasks'[t].pc = "t_read" /\ row' = row /\ row.plan.approval = "ABORTED"
    BY <1>1, <1>12, Outcomes DEF LogAbort, At, Running
  <2>2. [ op |-> "ABORTED", by |-> t, corr |-> attempt ] \in audit'
    BY <1>1, <1>12 DEF LogAbort
  <2> QED
    BY <1>1, <1>12, <2>1, <2>2 DEF LogAbort
<1>13. CASE InstallRevision(t)
  <2>1. /\ tasks'[t].pc = "done" /\ row'.plan.approval = "NONE"
        /\ planned' = attempt /\ attempt' = attempt
    BY <1>1, <1>13, Outcomes DEF InstallRevision, At, Running, NoPlan
  <2> QED
    BY <2>1
<1>14. CASE FileNarrative(t)
  <2>1. tasks[t].pc = "file_narrative" /\ tasks[t].plan = row.plan
    BY <1>1, <1>14 DEF FileNarrative, At, Running, Stage
  <2>2. tasks'[t].pc = "done" /\ row'.plan.approval = row.plan.approval
    BY <1>1, <1>14, <2>1, Outcomes DEF FileNarrative, PlanBlob
  <2> QED
    BY <1>1, <1>3, <1>14, <2>1, <2>2 DEF FileNarrative
<1> QED
  BY <1>5, <1>6, <1>7, <1>8, <1>9, <1>10, <1>11, <1>12, <1>13, <1>14 DEF Decides

\* While the process lives, an approval or an abort that stands on the plan of
\* a migration at rest is on the audit log, under the attempt it decides. (A kill
\* between an abort's two commits leaves a decision without an entry.)
THEOREM DecisionLoggedHolds ==
  Operators = "quiescent" /\ "crash" \notin Faults => (Spec => []DecisionLogged)
<1> SUFFICES ASSUME Operators = "quiescent", "crash" \notin Faults
             PROVE  Spec => []DecisionLogged
  OBVIOUS
<1>1. Init => QuietInv /\ DecisionInv
  <2>1. Init => DecisionInv
    BY DEF Init, DecisionInv, NoPlan, Running, Unused
  <2> QED
    BY <2>1, QuietInit
<1>2. QuietInv /\ DecisionInv /\ [Next]_vars => (QuietInv /\ DecisionInv)'
  <2> SUFFICES ASSUME QuietInv, DecisionInv, [Next]_vars PROVE DecisionInv'
    BY QuietNext
  <2>1. CASE \E t \in Task : Request(t) \/ Step(t)
    BY <2>1, DecisionStep
  <2>2. CASE Crash
    BY <2>2 DEF Crash
  <2>3. CASE UNCHANGED vars
    BY <2>3 DEF vars, DecisionInv, Running
  <2> QED
    BY <2>1, <2>2, <2>3 DEF Next, AtRest
<1>3. DecisionInv => DecisionLogged
  BY DEF DecisionInv, DecisionLogged, AllIdle, Running
<1> QED
  BY <1>1, <1>2, <1>3, PTL DEF Spec

-----------------------------------------------------------------------------
(* A rollback that succeeds leaves nothing behind. *)

\* Where no answer is lost, a command that is judged failed has done nothing,
\* or half of a cutover, whose row makes it undoable.
LEMMA UndoStepInv ==
  ASSUME QuietInv, EffectInv, UndoInv, Operators = "quiescent", "timeout" \notin Faults,
         NEW t \in Task, Request(t) \/ Step(t)
  PROVE  UndoInv'
<1> DEFINE Recording(u, i) == tasks[u].pc = "record" /\ tasks[u].i = i /\ tasks[u].ok
           Undoing(u) == tasks[u].pc = "undo_step" =>
                           \A i \in Command : Gone(i) \/ i \in tasks[u].todo \/ ~ tasks[u].ok
<1>1. /\ TypeOK /\ tasks[t] \in TaskRec /\ row \in [ state : RowState, plan : PlanBlob ]
      /\ Running(t) => Traced(t) /\ Stage(t) /\ Undoing(t)
      /\ tasks[t].pc = "record" => Running(t)
      /\ RolledBackLeavesNothing
  BY DEF QuietInv, TypeOK, EffectInv, Staged, UndoInv, Running
<1>2. \A u \in Task \ {t} : tasks[u].pc # "record" /\ ~ Running(u)'
  BY OthersIdle DEF QuietInv, Running
<1>3. \A i \in Command : Gone(i) \/ i \in Undoable \/ Recording(t, i)
  BY <1>2 DEF UndoInv
<1>4. SUFFICES /\ \A i \in Command : Gone(i)' \/ i \in Undoable' \/ Recording(t, i)'
               /\ Undoing(t)'
               /\ RolledBackLeavesNothing'
  BY <1>2 DEF UndoInv
<1>5. ASSUME row'.state # "ROLLED_BACK" PROVE RolledBackLeavesNothing'
  BY <1>5 DEF RolledBackLeavesNothing
<1>6. CASE ~ Rewires(t)
  <2>1. tasks[t].pc # "record"
    BY <1>6 DEF Rewires, Request, StartMigrationRun, Approve, AbortAtGate, ReviseAtGate,
       ManualRollback, Accept, Step, HardAbort, StorePlan, TransitionRead, TransitionWrite,
       ReadPlan, SignApproval, LaunchForwardPath, SignAbort, LogAbort, InstallRevision,
       DropRevision, HandlerSucceeds, HandlerFails, FinishRollback, ReadForNarrative,
       FileNarrative, ForceRollingBack, SpawnRollback, GiveUpRollback, At
  <2>2. /\ \A i \in Command : Gone(i)' <=> Gone(i)
        /\ Undoable' = Undoable
        /\ tasks'[t].pc # "undo_step"
    BY <1>6, OtherSteps DEF Gone, Undoable
  <2>3. RolledBackLeavesNothing'
    <3>1. CASE row'.state = row.state
      BY <1>1, <2>2, <3>1 DEF RolledBackLeavesNothing, Gone
    <3>2. CASE TransitionWrite(t)
      <4>1. tasks[t].to # "ROLLED_BACK"
        BY <3>2 DEF TransitionWrite, At, QuietInv, AllWellFormed, WellFormed, Executing
      <4> QED
        BY <1>1, <1>5, <3>2, <4>1 DEF TransitionWrite
    <3>3. CASE HardAbort(t) \/ ForceRollingBack(t) \/ GiveUpRollback(t)
      <4>1. row'.state = row.state \/ row'.state \in { "ROLLING_BACK", "ROLLBACK_FAILED" }
        BY <1>1, <3>3 DEF HardAbort, ForceRollingBack, GiveUpRollback
      <4> QED
        BY <1>5, <3>1, <4>1
    <3>4. CASE FinishRollback(t)
      <4>1. CASE tasks[t].ok
        <5>1. \A i \in Command : Gone(i)
          BY <1>1, <3>4, <4>1 DEF FinishRollback, At, Running
        <5> QED
          BY <2>2, <5>1 DEF RolledBackLeavesNothing, Gone
      <4>2. CASE ~ tasks[t].ok
        BY <1>1, <1>5, <3>4, <4>2 DEF FinishRollback
      <4> QED
        BY <4>1, <4>2
    <3>5. CASE Request(t)
      BY <1>1, <3>1, <3>5, AcceptShape
    <3>6. CASE \/ StorePlan(t) \/ SignApproval(t) \/ SignAbort(t)
               \/ InstallRevision(t) \/ FileNarrative(t)
      BY <1>1, <3>1, <3>6 DEF StorePlan, SignApproval, SignAbort, InstallRevision,
         FileNarrative
    <3> QED
      BY <1>6, <3>1, <3>2, <3>3, <3>4, <3>5, <3>6
      DEF Rewires, Step, TransitionRead, ReadPlan, LaunchForwardPath, LogAbort, DropRevision,
          HandlerSucceeds, HandlerFails, ReadForNarrative, SpawnRollback
  <2> QED
    BY <1>3, <2>1, <2>2, <2>3
<1>7. CASE InsertRow(t)
  <2> DEFINE lost == tasks[t].seen = "NO_ROW" /\ row.state # "NO_ROW"
  <2>1. CASE lost
    BY <1>1, <1>3, <1>7, <2>1, Outcomes
    DEF InsertRow, At, Gone, Undoable, RolledBackLeavesNothing
  <2>2. CASE ~ lost
    <3>1. tasks'[t] = [ tasks[t] EXCEPT !.op = "plan", !.pc = "resolve",
                                        !.corr = attempt + 1 ]
      BY <1>1, <1>7, <2>2 DEF InsertRow, Become, TypeOK
    <3>2. tasks'[t].pc = "resolve" /\ row'.state = "PLANNED" /\ mq' = mq /\ found' = mq
      BY <1>1, <1>7, <2>2, <3>1 DEF InsertRow, TaskRec
    <3>3. \A i \in Command : Gone(i)'
      BY <3>2 DEF Gone
    <3> QED
      BY <1>5, <3>2, <3>3
  <2> QED
    BY <2>1, <2>2
<1>8. CASE InsertStep(t)
  <2>1. row' = row /\ mq' = mq /\ found' = found /\ tasks[t].pc # "record"
    BY <1>8 DEF InsertStep, At
  <2>2. Undoable \subseteq Undoable'
    BY <1>1, <1>8 DEF InsertStep, Undoable, TypeOK
  <2>3. tasks'[t].pc \in { "apply", "t_read" }
    <3>1. CASE Become(t, [ tasks[t] EXCEPT !.pc = "apply" ])
      BY <1>1, <3>1 DEF Become, TypeOK, TaskRec
    <3>2. CASE Become(t, Move(t, "ROLLING_BACK"))
      BY <1>1, <3>2, Outcomes
    <3> QED
      BY <1>8, <3>1, <3>2 DEF InsertStep
  <2> QED
    BY <1>1, <1>3, <2>1, <2>2, <2>3 DEF Gone, RolledBackLeavesNothing
<1>9. CASE ApplyMqsc(t)
  <2>1. PICK e \in Effect, ok \in BOOLEAN :
          /\ ForwardOutcome(tasks[t].i, e, ok)
          /\ mq' = [ mq EXCEPT ![tasks[t].i] = e ]
          /\ Become(t, [ tasks[t] EXCEPT !.pc = "record", !.ok = ok ])
    BY <1>9 DEF ApplyMqsc
  <2>2. tasks'[t].pc = "record" /\ tasks'[t].i = tasks[t].i /\ tasks'[t].ok = ok
    BY <1>1, <2>1 DEF Become, TypeOK, TaskRec
  <2>3. /\ steps' = steps /\ found' = found /\ row' = row /\ Undoable' = Undoable
        /\ tasks[t].pc = "apply"
        /\ steps[tasks[t].i].status = "pending" /\ row.state = tasks[t].to
    BY <1>1, <1>9 DEF ApplyMqsc, At, Running, Traced, Stage, Undoable
  <2>4. row.state # "ROLLED_BACK"
    BY <2>3 DEF QuietInv, AllWellFormed, WellFormed
  <2>5. PICK k \in Command : k = tasks[t].i
    BY <1>1 DEF TaskRec
  <2>6. \A i \in Command : i # k => mq'[i] = mq[i]
    BY <1>1, <2>1, <2>5 DEF TypeOK
  <2>7. Gone(k)' \/ k \in Undoable \/ ok
    <3>1. CASE e = "partial" /\ Cutover(k)
      BY <2>3, <2>5, <3>1 DEF Undoable
    <3>2. CASE e = mq[k]
      <4>1. mq'[k] = mq[k]
        BY <1>1, <2>1, <2>5, <3>2 DEF TypeOK
      <4> QED
        BY <1>3, <2>3, <4>1 DEF Gone
    <3> QED
      BY <2>1, <2>5, <3>1, <3>2 DEF ForwardOutcome
  <2>8. \A i \in Command : i # k => Gone(i)' \/ i \in Undoable
    BY <1>3, <2>3, <2>6 DEF Gone
  <2> QED
    BY <1>5, <2>2, <2>3, <2>4, <2>5, <2>7, <2>8
<1>10. CASE RecordStep(t)
  <2>1. /\ mq' = mq /\ found' = found /\ row' = row
        /\ tasks[t].pc = "record" /\ tasks[t].i \in Command
        /\ steps[tasks[t].i] = [ status |-> "pending", by |-> t ]
    BY <1>1, <1>10 DEF RecordStep, At, Running, Traced, TaskRec
  <2>2. steps' = [ steps EXCEPT ![tasks[t].i].status =
                     IF tasks[t].ok THEN "succeeded" ELSE "failed" ]
    BY <1>10, <2>1 DEF RecordStep
  <2>3. Undoable \subseteq Undoable' /\ (tasks[t].ok => tasks[t].i \in Undoable')
    <3>1. \A i \in Command : i # tasks[t].i => steps'[i] = steps[i]
      BY <1>1, <2>1, <2>2 DEF TypeOK
    <3>2. steps'[tasks[t].i].status = IF tasks[t].ok THEN "succeeded" ELSE "failed"
      BY <1>1, <2>1, <2>2 DEF TypeOK, StepRow
    <3> QED
      BY <2>1, <3>1, <3>2 DEF Undoable
  <2>4. tasks'[t].pc \in { "insert_step", "t_read" }
    <3>1. CASE Become(t, [ tasks[t] EXCEPT !.pc = "insert_step", !.i = tasks[t].i + 1 ])
      BY <1>1, <3>1 DEF Become, TypeOK, TaskRec
    <3>2. CASE Become(t, Move(t, "DRAIN_WAIT")) \/ Become(t, Move(t, "ROLLING_BACK"))
      BY <1>1, <3>2, Outcomes
    <3> QED
      BY <1>10, <3>1, <3>2 DEF RecordStep
  <2> QED
    BY <1>1, <1>3, <2>1, <2>3, <2>4 DEF Gone, RolledBackLeavesNothing
<1>11. CASE SnapshotSteps(t)
  <2>1. /\ tasks'[t].pc = "undo_step" /\ tasks'[t].todo = Undoable
        /\ tasks[t].pc = "snapshot"
    BY <1>1, <1>11 DEF SnapshotSteps, At, Become, TypeOK, TaskRec
  <2>2. /\ Undoable' = Undoable /\ row' = row
        /\ \A i \in Command : Gone(i)' <=> Gone(i)
    BY <1>11 DEF SnapshotSteps, Undoable, Gone
  <2> QED
    BY <1>1, <1>3, <2>1, <2>2 DEF RolledBackLeavesNothing, Gone
<1>12. CASE UndoStep(t)
  <2> DEFINE last == LastOf(tasks[t].todo)
  <2>1. /\ row.state = "ROLLING_BACK" /\ row' = row /\ found' = found
        /\ tasks[t].pc = "undo_step" /\ Undoable' = Undoable
        /\ tasks[t].todo \subseteq Undoable /\ tasks[t].todo # {}
    BY <1>1, <1>12 DEF UndoStep, At, Running, Stage, Traced, Undoable
  <2>2. PICK k \in Command : k = last /\ k \in tasks[t].todo
    BY <2>1, LastOfFacts DEF Undoable
  <2>3. PICK e \in Effect, ok \in BOOLEAN :
          /\ InverseOutcome(k, e, ok)
          /\ mq' = [ mq EXCEPT ![k] = e ]
          /\ Become(t, [ tasks[t] EXCEPT !.todo = @ \ {k}, !.ok = @ /\ ok ])
    BY <1>12, <2>2 DEF UndoStep
  <2>4. /\ tasks'[t].pc = "undo_step" /\ tasks'[t].todo = tasks[t].todo \ {k}
        /\ tasks'[t].ok = (tasks[t].ok /\ ok)
    BY <1>1, <2>1, <2>3 DEF Become, TypeOK, TaskRec
  <2>5. \A i \in Command : i # k => (Gone(i)' <=> Gone(i))
    BY <1>1, <2>1, <2>3 DEF Gone, TypeOK
  <2>6. Gone(k)' \/ ~ ok
    BY <1>1, <2>3 DEF Gone, InverseOutcome, TypeOK
  <2>7. \A i \in Command : Gone(i)' \/ i \in tasks'[t].todo \/ ~ tasks'[t].ok
    BY <1>1, <2>1, <2>4, <2>5, <2>6 DEF Running
  <2>8. \A i \in Command : Gone(i)' \/ i \in Undoable'
    BY <1>3, <2>1, <2>2, <2>5
  <2> QED
    BY <1>5, <2>1, <2>7, <2>8
<1> QED
  BY <1>6, <1>7, <1>8, <1>9, <1>10, <1>11, <1>12 DEF Rewires

UndoQuiet == QuietInv /\ EffectInv /\ UndoInv

LEMMA UndoInit == Init => UndoQuiet
<1> SUFFICES ASSUME Init PROVE UndoInv
  BY RewireInit DEF UndoQuiet, RewireInv
<1>1. row.state = "NO_ROW" /\ \A i \in Command : Gone(i)
  BY DEF Init, Gone
<1>2. \A t \in Task : ~ Running(t)
  BY DEF Init, Running, Unused
<1> QED
  BY <1>1, <1>2 DEF UndoInv, RolledBackLeavesNothing

LEMMA UndoNext ==
  ASSUME Operators = "quiescent", "timeout" \notin Faults, "crash" \notin Faults
  PROVE  UndoQuiet /\ [Next]_vars => UndoQuiet'
<1> SUFFICES ASSUME UndoQuiet, [Next]_vars PROVE EffectInv' /\ UndoInv'
  BY QuietNext DEF UndoQuiet
<1>1. CASE \E t \in Task : Request(t) \/ Step(t)
  BY <1>1, EffectStep, UndoStepInv DEF UndoQuiet
<1>2. CASE Crash
  BY <1>2 DEF Crash
<1>3. CASE UNCHANGED vars
  BY <1>3 DEF vars, UndoQuiet, EffectInv, EffectHasRow, Traced, UndoInv, Gone, Undoable,
     Running, RolledBackLeavesNothing
<1> QED
  BY <1>1, <1>2, <1>3 DEF Next, AtRest

\* Where every answer of a queue manager arrives and the process lives, ROLLED_BACK
\* means what it says, whatever was refused, half done or failed a probe.  (A
\* command whose answer was lost is judged failed and left out of the rollback;
\* so is one that a kill cut off from its verdict.)
THEOREM RolledBackLeavesNothingHolds ==
  Operators = "quiescent" /\ "timeout" \notin Faults /\ "crash" \notin Faults =>
    (Spec => []RolledBackLeavesNothing)
<1> SUFFICES ASSUME Operators = "quiescent", "timeout" \notin Faults, "crash" \notin Faults
             PROVE  Spec => []RolledBackLeavesNothing
  OBVIOUS
<1>1. UndoQuiet => RolledBackLeavesNothing
  BY DEF UndoQuiet, UndoInv
<1>2. UndoQuiet /\ [Next]_vars => UndoQuiet'
  BY UndoNext
<1> QED
  BY <1>1, <1>2, UndoInit, PTL DEF Spec

\* Who takes an effect away: the rollback, from the command it inverts.
LEMMA OnlyUndoRemoves ==
  ASSUME QuietInv, EffectInv, NEW t \in Task, Request(t) \/ Step(t),
         NEW i \in Command, mq[i] # "before", mq'[i] = "before"
  PROVE  /\ UndoStep(t) /\ i = LastOf(tasks[t].todo)
         /\ \A j \in Command : j # i => mq'[j] = mq[j]
<1>1. TypeOK /\ tasks[t] \in TaskRec
  BY DEF QuietInv, TypeOK
<1>2. mq' # mq
  OBVIOUS
<1>3. ~ ApplyMqsc(t)
  <2> SUFFICES ASSUME ApplyMqsc(t) PROVE FALSE
    OBVIOUS
  <2>1. PICK e \in Effect, ok \in BOOLEAN :
          /\ ForwardOutcome(tasks[t].i, e, ok)
          /\ mq' = [ mq EXCEPT ![tasks[t].i] = e ]
    BY DEF ApplyMqsc
  <2>2. i = tasks[t].i /\ e = "before"
    BY <1>1, <2>1 DEF TypeOK
  <2> QED
    BY <2>1, <2>2 DEF ForwardOutcome
<1>4. UndoStep(t)
  <2>1. Rewires(t)
    BY <1>2, OtherSteps
  <2> QED
    BY <1>2, <1>3, <2>1 DEF Rewires, InsertRow, InsertStep, RecordStep, SnapshotSteps
<1> QED
  BY <1>1, <1>4 DEF UndoStep, TypeOK

\* Undoing runs in reverse step order: while no inverse has failed, an effect
\* goes away only after all that the attempt did later.
THEOREM UndoneInReverseHolds ==
  Operators = "quiescent" /\ "timeout" \notin Faults /\ "crash" \notin Faults =>
    (Spec => UndoneInReverse)
<1> SUFFICES ASSUME Operators = "quiescent", "timeout" \notin Faults, "crash" \notin Faults
             PROVE  Spec => UndoneInReverse
  OBVIOUS
<1> DEFINE Reverse ==
      \A i, j \in Command :
        i < j /\ mq[i] # "before" /\ mq'[i] = "before" =>
          \/ mq'[j] \in { "before", found[j] }
          \/ \E t \in Task : Running(t) /\ ~ tasks[t].ok
<1>1. UndoQuiet /\ [Next]_vars => Reverse
  <2> SUFFICES ASSUME UndoQuiet, [Next]_vars, NEW i \in Command, NEW j \in Command,
                      i < j, mq[i] # "before", mq'[i] = "before",
                      \A t \in Task : Running(t) => tasks[t].ok
               PROVE  mq'[j] \in { "before", found[j] }
    OBVIOUS
  <2>1. PICK t \in Task : Request(t) \/ Step(t)
    BY DEF Next, AtRest, Crash, vars
  <2>2. /\ UndoStep(t) /\ i = LastOf(tasks[t].todo)
        /\ \A k \in Command : k # i => mq'[k] = mq[k]
    BY <2>1, OnlyUndoRemoves DEF UndoQuiet
  <2>3. /\ Running(t) /\ tasks[t].pc = "undo_step" /\ tasks[t].todo # {}
        /\ tasks[t].todo \subseteq Command
    BY <2>2 DEF UndoStep, At, Running, UndoQuiet, QuietInv, TypeOK, TaskRec
  <2>4. j # i /\ j \notin tasks[t].todo
    BY <2>2, <2>3, LastOfFacts, CommandFacts
  <2>5. Gone(j)
    BY <2>3, <2>4 DEF UndoQuiet, UndoInv
  <2> QED
    BY <2>2, <2>4, <2>5 DEF Gone
<1>2. UndoQuiet /\ [Next]_vars => UndoQuiet'
  BY UndoNext
<1> QED
  BY <1>1, <1>2, UndoInit, PTL DEF Spec, UndoneInReverse

-----------------------------------------------------------------------------
(* The engine implements the lifecycle: every step of a coroutine is a step *)
(* of MigrationLifecycle or changes nothing the lifecycle shows.            *)

InForce == { i \in Command : mq[i] # "before" }
Inherited == { i \in Command : found[i] # "before" }
LifecycleStep == Lifecycle!Next \/ UNCHANGED Lifecycle!vars

LEMMA PhaseFacts ==
  /\ row.state = "NO_ROW" => PhaseOf = "none"
  /\ row.state = "PLANNED" => PhaseOf = "planning"
  /\ row.state = "AWAITING_APPROVAL" => PhaseOf = "gate"
  /\ row.state \in Executing => PhaseOf = "executing"
  /\ row.state = "ROLLING_BACK" => PhaseOf = "undoing"
  /\ row.state = "COMPLETED" => PhaseOf = "completed"
  /\ row.state = "ROLLED_BACK" => PhaseOf = "undone"
  /\ row.state = "ROLLBACK_FAILED" => PhaseOf = "stuck"
BY DEF PhaseOf, Executing

\* Steps that leave the queue managers and the decision alone.
LEMMA PhaseMoves ==
  ASSUME UNCHANGED << mq, found >>, row'.plan.approval = row.plan.approval,
         \/ PhaseOf' = PhaseOf
         \/ PhaseOf = "planning" /\ PhaseOf' = "gate"
         \/ PhaseOf = "gate" /\ row.plan.approval = "APPROVED" /\ PhaseOf' = "executing"
         \/ PhaseOf = "executing" /\ InForce = Command /\ PhaseOf' = "completed"
         \/ /\ PhaseOf \in { "planning", "gate", "executing", "completed" }
            /\ PhaseOf' = "undoing"
         \/ PhaseOf = "undoing" /\ InForce \subseteq Inherited /\ PhaseOf' = "undone"
         \/ /\ \/ PhaseOf \in { "planning", "undoing" }
               \/ PhaseOf = "gate" /\ row.plan.approval = "APPROVED"
            /\ PhaseOf' = "stuck"
  PROVE  LifecycleStep
<1>1. InForce' = InForce /\ Inherited' = Inherited
  BY DEF InForce, Inherited
<1>2. CASE PhaseOf' = PhaseOf
  BY <1>1, <1>2 DEF LifecycleStep, Lifecycle!vars, InForce, Inherited
<1>3. CASE PhaseOf = "planning" /\ PhaseOf' = "gate"
  BY <1>1, <1>3 DEF LifecycleStep, Lifecycle!Next, Lifecycle!Park, InForce, Inherited
<1>4. CASE PhaseOf = "gate" /\ row.plan.approval = "APPROVED" /\ PhaseOf' = "executing"
  BY <1>1, <1>4 DEF LifecycleStep, Lifecycle!Next, Lifecycle!Execute, InForce, Inherited
<1>5. CASE PhaseOf = "executing" /\ InForce = Command /\ PhaseOf' = "completed"
  BY <1>1, <1>5 DEF LifecycleStep, Lifecycle!Next, Lifecycle!Complete, InForce, Inherited,
     Command
<1>6. CASE /\ PhaseOf \in { "planning", "gate", "executing", "completed" }
           /\ PhaseOf' = "undoing"
  BY <1>1, <1>6 DEF LifecycleStep, Lifecycle!Next, Lifecycle!BeginUndo, InForce, Inherited
<1>7. CASE PhaseOf = "undoing" /\ InForce \subseteq Inherited /\ PhaseOf' = "undone"
  BY <1>1, <1>7 DEF LifecycleStep, Lifecycle!Next, Lifecycle!FinishUndo, InForce, Inherited
<1>8. CASE /\ \/ PhaseOf \in { "planning", "undoing" }
              \/ PhaseOf = "gate" /\ row.plan.approval = "APPROVED"
           /\ PhaseOf' = "stuck"
  BY <1>1, <1>8 DEF LifecycleStep, Lifecycle!Next, Lifecycle!GetStuck, InForce, Inherited
<1> QED
  BY <1>2, <1>3, <1>4, <1>5, <1>6, <1>7, <1>8

LEMMA GateMoves ==
  ASSUME UNCHANGED << mq, found >>, PhaseOf = "gate", PhaseOf' = "gate",
         row'.plan.approval \in { "NONE", "APPROVED", "ABORTED" }
  PROVE  LifecycleStep
<1>1. InForce' = InForce /\ Inherited' = Inherited
  BY DEF InForce, Inherited
<1>2. Lifecycle!Decide(row'.plan.approval)
  BY <1>1 DEF Lifecycle!Decide, InForce, Inherited
<1> QED
  BY <1>2 DEF LifecycleStep, Lifecycle!Next

\* A command of the forward path and an inverse: what is in force changes by
\* that command at most.
LEMMA CommandMoves ==
  ASSUME TypeOK, NEW k \in Command, NEW e \in Effect, mq' = [ mq EXCEPT ![k] = e ],
         UNCHANGED << row, found >>,
         \/ /\ PhaseOf = "executing" /\ e \in { "partial", "after", mq[k] }
            /\ \A j \in Command : j < k => mq[j] = "after"
         \/ PhaseOf = "undoing" /\ (e = "before" \/ (e = "partial" /\ mq[k] = "after") \/ e = mq[k])
  PROVE  LifecycleStep
<1>1. Inherited' = Inherited /\ PhaseOf' = PhaseOf
  BY DEF Inherited, PhaseOf
<1>2. InForce' = IF e = "before" THEN InForce \ {k} ELSE InForce \cup {k}
  BY DEF InForce, TypeOK
<1>3. CASE InForce' = InForce
  BY <1>1, <1>3 DEF LifecycleStep, Lifecycle!vars, InForce, Inherited
<1>4. CASE PhaseOf = "executing" /\ InForce' # InForce
  <2>1. e # "before" /\ InForce' = InForce \cup {k}
    BY <1>2, <1>4 DEF InForce
  <2>2. 1 .. (k - 1) \subseteq InForce
    BY <1>4, CommandFacts DEF InForce, Command
  <2>3. Lifecycle!Apply(k)
    BY <1>1, <1>4, <2>1, <2>2 DEF Lifecycle!Apply, InForce, Inherited
  <2> QED
    BY <2>3 DEF LifecycleStep, Lifecycle!Next, Command
<1>5. CASE PhaseOf = "undoing" /\ InForce' # InForce
  <2>1. InForce' = InForce \ {k}
    BY <1>2, <1>5 DEF InForce
  <2>2. Lifecycle!Undo(k)
    BY <1>1, <1>5, <2>1 DEF Lifecycle!Undo, InForce, Inherited
  <2> QED
    BY <2>2 DEF LifecycleStep, Lifecycle!Next, Command
<1> QED
  BY <1>3, <1>4, <1>5

LEMMA LifecycleSimulation ==
  ASSUME RewireInv, UndoInv, Operators = "quiescent", NEW t \in Task, Request(t) \/ Step(t)
  PROVE  LifecycleStep
<1>1. /\ TypeOK /\ tasks[t] \in TaskRec /\ WellFormed(t)
      /\ row \in [ state : RowState, plan : PlanBlob ] /\ row.state \in RowState
      /\ Running(t) => Stage(t) /\ Traced(t) /\ Wired(t)
  BY DEF RewireInv, QuietInv, TypeOK, AllWellFormed, Staged, EffectInv, WiredInv
<1>2. ASSUME UNCHANGED << mq, found >>, row'.plan.approval = row.plan.approval,
             row'.state = row.state
      PROVE  LifecycleStep
  BY <1>2, PhaseMoves DEF PhaseOf
<1>3. ASSUME row'.state = "ROLLING_BACK" PROVE PhaseOf' = "undoing"
  BY <1>3 DEF PhaseOf, Executing
<1>4. ASSUME row'.state = "ROLLBACK_FAILED" PROVE PhaseOf' = "stuck"
  BY <1>4 DEF PhaseOf, Executing
<1>5. ASSUME row'.state = "AWAITING_APPROVAL" PROVE PhaseOf' = "gate"
  BY <1>5 DEF PhaseOf, Executing
<1>6. CASE Request(t)
  BY <1>1, <1>2, <1>6, AcceptShape
<1>7. CASE InsertRow(t)
  <2> DEFINE lost == tasks[t].seen = "NO_ROW" /\ row.state # "NO_ROW"
  <2>1. CASE lost
    BY <1>2, <1>7, <2>1 DEF InsertRow
  <2>2. CASE ~ lost
    <3>1. /\ row' = [ state |-> "PLANNED", plan |-> NoPlan ] /\ mq' = mq /\ found' = mq
          /\ row.state = "NO_ROW" \/ is_terminal(row.state)
      BY <1>1, <1>7, <2>2 DEF InsertRow, At, Running, Stage
    <3>2. PhaseOf \in { "none", "completed", "undone", "stuck" }
      BY <3>1, PhaseFacts DEF is_terminal, TERMINAL_STATES
    <3>3. PhaseOf' = "planning" /\ row'.plan.approval = "NONE"
      BY <3>1 DEF PhaseOf, Executing, NoPlan
    <3>4. InForce' = InForce /\ Inherited' = InForce
      BY <3>1 DEF InForce, Inherited
    <3>5. Lifecycle!Begin
      BY <3>2, <3>3, <3>4 DEF Lifecycle!Begin, InForce, Inherited
    <3> QED
      BY <3>5 DEF LifecycleStep, Lifecycle!Next
  <2> QED
    BY <2>1, <2>2
<1>8. CASE HardAbort(t)
  <2>1. /\ UNCHANGED << mq, found >> /\ row'.plan.approval = row.plan.approval
        /\ row'.state = "ROLLBACK_FAILED"
    BY <1>1, <1>8 DEF HardAbort
  <2>2. \/ row.state = "PLANNED"
        \/ row.state = "AWAITING_APPROVAL" /\ row.plan.approval = "APPROVED"
    BY <1>1, <1>8 DEF HardAbort, At, Running, Stage, WellFormed
  <2> QED
    BY <1>4, <2>1, <2>2, PhaseFacts, PhaseMoves
<1>9. CASE StorePlan(t)
  <2>1. row'.plan.approval = "NONE" /\ row.plan.approval = "NONE" /\ row'.state = row.state
    BY <1>1, <1>9 DEF StorePlan, At, Running, Stage, WellFormed, NoPlan
  <2> QED
    BY <1>2, <1>9, <2>1 DEF StorePlan
<1>10. CASE TransitionWrite(t)
  <2>1. /\ UNCHANGED << mq, found >> /\ row'.plan.approval = row.plan.approval
        /\ row'.state = tasks[t].to /\ Stage(t) /\ tasks[t].pc = "t_write"
    BY <1>1, <1>10 DEF TransitionWrite, At, Running
  <2>2. CASE tasks[t].op = "plan"
    <3>1. row.state = "PLANNED" /\ row'.state = "AWAITING_APPROVAL"
      BY <1>1, <2>1, <2>2 DEF Stage, WellFormed
    <3> QED
      BY <1>5, <2>1, <3>1, PhaseFacts, PhaseMoves
  <2>3. CASE tasks[t].op = "abort"
    <3>1. row.state = "AWAITING_APPROVAL" /\ row'.state = "ROLLING_BACK"
      BY <1>1, <2>1, <2>3 DEF Stage, WellFormed
    <3> QED
      BY <1>3, <2>1, <3>1, PhaseFacts, PhaseMoves
  <2>4. CASE tasks[t].op = "forward"
    <3>1. /\ row.plan.approval = "APPROVED"
          /\ row.state \in Executing \cup { "AWAITING_APPROVAL" }
          /\ \/ row'.state = next_forward[row.state]
             \/ row'.state = "ROLLING_BACK" /\ row.state \in Executing
      BY <2>1, <2>4 DEF Stage
    <3>2. CASE row'.state = "ROLLING_BACK" /\ row.state \in Executing
      BY <1>3, <2>1, <3>2, PhaseFacts, PhaseMoves
    <3>3. CASE row.state = "AWAITING_APPROVAL" /\ row'.state = next_forward[row.state]
      <4>1. PhaseOf' = "executing"
        BY <3>3 DEF next_forward, PhaseOf, Executing
      <4> QED
        BY <2>1, <3>1, <3>3, <4>1, PhaseFacts, PhaseMoves
    <3>4. CASE row.state = "VALIDATING_POST" /\ row'.state = next_forward[row.state]
      <4>1. PhaseOf' = "completed" /\ PhaseOf = "executing"
        BY <3>4 DEF next_forward, PhaseOf, Executing
      <4>2. InForce = Command
        BY <3>4 DEF RewireInv, WiredInv, InPlace, InForce
      <4> QED
        BY <2>1, <4>1, <4>2, PhaseMoves
    <3>5. CASE /\ row.state \in Executing \ { "VALIDATING_POST" }
               /\ row'.state = next_forward[row.state]
      <4>1. row'.state \in Executing
        BY <3>5 DEF next_forward, Executing
      <4>2. PhaseOf' = "executing" /\ PhaseOf = "executing"
        BY <3>5, <4>1 DEF PhaseOf, Executing
      <4> QED
        BY <2>1, <4>2, PhaseMoves
    <3> QED
      BY <3>1, <3>2, <3>3, <3>4, <3>5
  <2> QED
    BY <1>1, <2>1, <2>2, <2>3, <2>4 DEF WellFormed
<1>11. CASE SignApproval(t) \/ SignAbort(t) \/ InstallRevision(t)
  <2>1. row.state = "AWAITING_APPROVAL" /\ row'.state = row.state /\ UNCHANGED << mq, found >>
    BY <1>1, <1>11 DEF SignApproval, SignAbort, InstallRevision, At, Running, Stage
  <2>2. row'.plan.approval \in { "NONE", "APPROVED", "ABORTED" }
    BY <1>1, <1>11 DEF SignApproval, SignAbort, InstallRevision, TaskRec, PlanBlob, NoPlan
  <2> QED
    BY <1>5, <2>1, <2>2, PhaseFacts, GateMoves
<1>12. CASE ApplyMqsc(t)
  <2>1. PICK k \in Command : k = tasks[t].i
    BY <1>1 DEF TaskRec
  <2>2. PICK e \in Effect, ok \in BOOLEAN :
          ForwardOutcome(k, e, ok) /\ mq' = [ mq EXCEPT ![k] = e ]
    BY <1>12, <2>1 DEF ApplyMqsc
  <2>3. e \in { "partial", "after", mq[k] }
    BY <2>2 DEF ForwardOutcome
  <2>4. row.state = "REWIRING" /\ \A j \in Command : j < k => mq[j] = "after"
    BY <1>1, <1>12, <2>1 DEF ApplyMqsc, At, Running, Stage, Wired, InPlace, WellFormed
  <2>5. PhaseOf = "executing"
    BY <2>4 DEF PhaseOf, Executing
  <2>6. UNCHANGED << row, found >>
    BY <1>12 DEF ApplyMqsc
  <2> QED
    BY <1>1, <2>2, <2>3, <2>4, <2>5, <2>6, CommandMoves
<1>13. CASE UndoStep(t)
  <2>1. /\ UNCHANGED << row, found >> /\ row.state = "ROLLING_BACK"
        /\ tasks[t].todo # {} /\ tasks[t].todo \subseteq Command
    BY <1>1, <1>13 DEF UndoStep, At, Running, Stage, TaskRec
  <2>2. PICK k \in Command : k = LastOf(tasks[t].todo)
    BY <2>1, LastOfFacts
  <2>3. PICK e \in Effect, ok \in BOOLEAN :
          InverseOutcome(k, e, ok) /\ mq' = [ mq EXCEPT ![k] = e ]
    BY <1>13, <2>2 DEF UndoStep
  <2>4. e = "before" \/ (e = "partial" /\ mq[k] = "after") \/ e = mq[k]
    BY <2>3 DEF InverseOutcome
  <2> QED
    BY <1>1, <2>1, <2>3, <2>4, PhaseFacts, CommandMoves
<1>14. CASE FinishRollback(t)
  <2>1. /\ UNCHANGED << mq, found >> /\ row'.plan.approval = row.plan.approval
        /\ row.state = "ROLLING_BACK" /\ tasks[t].pc = "undo_step" /\ tasks[t].todo = {}
        /\ row'.state = IF tasks[t].ok THEN "ROLLED_BACK" ELSE "ROLLBACK_FAILED"
    BY <1>1, <1>14 DEF FinishRollback, At, Running, Stage
  <2>2. CASE tasks[t].ok
    <3>1. \A i \in Command : Gone(i)
      BY <2>1, <2>2 DEF UndoInv, Running
    <3>2. InForce \subseteq Inherited
      BY <3>1 DEF Gone, InForce, Inherited
    <3>3. PhaseOf' = "undone"
      BY <2>1, <2>2 DEF PhaseOf, Executing
    <3> QED
      BY <2>1, <3>2, <3>3, PhaseFacts, PhaseMoves
  <2>3. CASE ~ tasks[t].ok
    BY <1>4, <2>1, <2>3, PhaseFacts, PhaseMoves
  <2> QED
    BY <2>2, <2>3
<1>15. CASE GiveUpRollback(t)
  <2>1. /\ UNCHANGED << mq, found >> /\ row'.plan.approval = row.plan.approval
        /\ row.state = "ROLLING_BACK" /\ row'.state = "ROLLBACK_FAILED"
    BY <1>1, <1>15 DEF GiveUpRollback, At, Running, Stage
  <2> QED
    BY <1>4, <2>1, PhaseFacts, PhaseMoves
<1>16. CASE ForceRollingBack(t)
  <2>1. /\ UNCHANGED << mq, found >> /\ row'.plan.approval = row.plan.approval
        /\ row'.state = "ROLLING_BACK"
    BY <1>1, <1>16 DEF ForceRollingBack, At, Running, Stage
  <2>2. row.state \in MigrationState \ { "ROLLED_BACK", "ROLLBACK_FAILED" }
    BY <1>1, <1>16 DEF ForceRollingBack, At, Running, Stage
  <2>3. PhaseOf \in { "planning", "gate", "executing", "completed", "undoing" }
    BY <2>2, PhaseFacts DEF MigrationState, TERMINAL_STATES
  <2> QED
    BY <1>3, <2>1, <2>3, PhaseMoves
<1>17. CASE FileNarrative(t)
  <2>1. row'.state = row.state /\ row'.plan.approval = row.plan.approval
    BY <1>1, <1>17 DEF FileNarrative, At, Running, Stage, PlanBlob
  <2> QED
    BY <1>2, <1>17, <2>1 DEF FileNarrative
<1> QED
  BY <1>2, <1>6, <1>7, <1>8, <1>9, <1>10, <1>11, <1>12, <1>13, <1>14, <1>15, <1>16, <1>17
  DEF Step, TransitionRead, ReadPlan, LaunchForwardPath, LogAbort, DropRevision,
      HandlerSucceeds, HandlerFails, InsertStep, RecordStep, SnapshotSteps,
      ReadForNarrative, SpawnRollback

\* The engine, driven by operators who act on a migration at rest, implements the
\* lifecycle the API promises, for a plan of any length: nothing executes without
\* an approval, commands take effect in plan order, COMPLETED means that all are
\* in force and ROLLED_BACK that none the attempt added is.
THEOREM ImplementsLifecycleHolds ==
  Operators = "quiescent" /\ "timeout" \notin Faults /\ "crash" \notin Faults =>
    (Spec => ImplementsLifecycle)
<1> SUFFICES ASSUME Operators = "quiescent", "timeout" \notin Faults, "crash" \notin Faults
             PROVE  Spec => ImplementsLifecycle
  OBVIOUS
<1> DEFINE Inv == RewireInv /\ UndoInv
<1>1. Init => Lifecycle!Init
  <2> SUFFICES ASSUME Init PROVE Lifecycle!Init
    OBVIOUS
  <2>1. PhaseOf = "none" /\ row.plan.approval = "NONE"
    BY PhaseFacts DEF Init, NoPlan
  <2>2. InForce = {} /\ Inherited = {}
    BY DEF Init, InForce, Inherited
  <2> QED
    BY <2>1, <2>2 DEF Lifecycle!Init, InForce, Inherited
<1>2. Inv /\ [Next]_vars => Lifecycle!Next \/ UNCHANGED Lifecycle!vars
  <2> SUFFICES ASSUME Inv, [Next]_vars PROVE LifecycleStep
    BY DEF LifecycleStep
  <2>1. CASE \E t \in Task : Request(t) \/ Step(t)
    BY <2>1, LifecycleSimulation
  <2>2. CASE UNCHANGED vars
    BY <2>2, PhaseMoves DEF vars, PhaseOf
  <2> QED
    BY <2>1, <2>2 DEF Next, AtRest, Crash
<1>3. Init => Inv
  BY RewireInit, UndoInit DEF UndoQuiet
<1>4. Inv /\ [Next]_vars => Inv'
  BY RewireNext, UndoNext DEF RewireInv, UndoQuiet
<1> QED
  BY <1>1, <1>2, <1>3, <1>4, PTL DEF Spec, ImplementsLifecycle, Lifecycle!Spec

=============================================================================
