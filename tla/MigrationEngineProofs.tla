------------------------- MODULE MigrationEngineProofs -------------------------
(***************************************************************************)
(* Proofs about MigrationEngine, for every plan, every set of tasks, every *)
(* mix of requests and every set of faults.                                *)
(***************************************************************************)
EXTENDS MigrationEngineProperties, TLAPS

-----------------------------------------------------------------------------
(* Type correctness. *)

\* The constants' assumptions give the plan a first command.
LEMMA CommandFacts ==
  /\ Len(Plan) \in Nat \ {0}
  /\ Command \subseteq Nat
  /\ 1 \in Command
  /\ \A i \in Command : i < Len(Plan) => i + 1 \in Command
BY PlanAssumption DEF Command

LEMMA UnusedType == Unused \in TaskRec
BY CommandFacts DEF Unused, TaskRec, NoPlan, PlanBlob, Decision, RowState,
     MigrationState, Handler, OperatorRequest, Background

\* A coroutine that ends, or moves on to a transition, stays a coroutine.
LEMMA TaskShapes ==
  ASSUME TypeOK, NEW t \in Task
  PROVE  /\ Finished(t) \in TaskRec
         /\ \A to \in MigrationState : Move(t, to) \in TaskRec
<1>1. tasks[t] \in TaskRec
  BY DEF TypeOK
<1>2. Finished(t) \in TaskRec
  BY <1>1, UnusedType DEF Finished, TaskRec
<1>3. ASSUME NEW to \in MigrationState PROVE Move(t, to) \in TaskRec
  BY <1>1 DEF Move, TaskRec
<1> QED
  BY <1>2, <1>3

LEMMA BecomeType ==
  ASSUME TypeOK, NEW t \in Task, NEW rec \in TaskRec, Become(t, rec)
  PROVE  tasks' \in [ Task -> TaskRec ]
BY DEF Become, TypeOK

\* The forward path moves a row to states of the machine only.
LEMMA NextForwardType ==
  \A s \in Executing : next_forward[s] \in MigrationState
BY DEF Executing, next_forward, MigrationState, TERMINAL_STATES

\* After a transition, made or refused, a coroutine is well typed.
LEMMA AfterTransitionType ==
  ASSUME TypeOK, NEW t \in Task, NEW accepted \in BOOLEAN
  PROVE  AfterTransition(t, accepted) \in TaskRec
<1>1. tasks[t] \in TaskRec
  BY DEF TypeOK
<1>2. Move(t, "ROLLING_BACK") \in TaskRec /\ Finished(t) \in TaskRec
  BY TaskShapes DEF MigrationState
<1>3. /\ [ tasks[t] EXCEPT !.pc = "insert_step", !.i = 1 ] \in TaskRec
      /\ [ tasks[t] EXCEPT !.pc = "handler" ] \in TaskRec
      /\ [ tasks[t] EXCEPT !.pc = "snapshot" ] \in TaskRec
      /\ [ tasks[t] EXCEPT !.pc = "narrate" ] \in TaskRec
  BY <1>1, CommandFacts DEF TaskRec
<1> QED
  BY <1>2, <1>3 DEF AfterTransition

\* An accepted request only starts a coroutine.
LEMMA AcceptType ==
  ASSUME TypeOK, NEW t \in Task, NEW op \in OperatorRequest,
         NEW pc \in { "insert_row", "read_plan", "sign_abort", "install",
                      "force" },
         Accept(t, op, pc)
  PROVE  TypeOK'
<1> DEFINE rec == [ Unused EXCEPT !.op = op, !.pc = pc, !.corr = planned,
                                  !.seen = row.state, !.plan = row.plan ]
<1>1. rec \in TaskRec
  BY UnusedType DEF TypeOK, TaskRec, Handler, RowState
<1>2. tasks' \in [ Task -> TaskRec ]
  BY <1>1, BecomeType DEF Accept
<1> QED
  BY <1>2 DEF TypeOK, Accept

LEMMA TypeStep ==
  ASSUME TypeOK, AllWellFormed, NEW t \in Task, Request(t) \/ Step(t)
  PROVE  TypeOK'
<1>1. tasks[t] \in TaskRec
  BY DEF TypeOK
<1>2. Finished(t) \in TaskRec
  BY TaskShapes
<1>3. \A to \in MigrationState : Move(t, to) \in TaskRec
  BY TaskShapes
<1>4. CASE Request(t)
  BY <1>4, AcceptType DEF Request, StartMigrationRun, Approve, AbortAtGate,
       ReviseAtGate, ManualRollback, OperatorRequest
<1>5. CASE InsertRow(t)
  <2>0. attempt + 1 \in Nat
    BY DEF TypeOK
  <2>1. [ tasks[t] EXCEPT !.op = "plan", !.pc = "resolve",
                          !.corr = attempt + 1 ] \in TaskRec
    BY <1>1, <2>0 DEF TaskRec, Background
  <2>2. tasks' \in [ Task -> TaskRec ]
    BY <1>2, <1>5, <2>1, BecomeType DEF InsertRow
  <2>3. /\ row' \in [ state : RowState, plan : PlanBlob ]
        /\ steps' \in [ Command -> StepRow ]
        /\ attempt' \in Nat /\ planned' \in Nat
        /\ found' \in [ Command -> Effect ]
    BY <1>5 DEF InsertRow, TypeOK, RowState, MigrationState, NoPlan, PlanBlob,
         Decision, NoStep, StepRow
  <2> QED
    BY <1>5, <2>2, <2>3 DEF InsertRow, TypeOK
<1>6. CASE HardAbort(t)
  <2>1. tasks' \in [ Task -> TaskRec ]
    BY <1>2, <1>6, BecomeType DEF HardAbort
  <2>2. row' \in [ state : RowState, plan : PlanBlob ]
    BY <1>6 DEF HardAbort, TypeOK, RowState, MigrationState, TERMINAL_STATES
  <2> QED
    BY <1>6, <2>1, <2>2 DEF HardAbort, TypeOK
<1>7. CASE StorePlan(t)
  <2>1. tasks' \in [ Task -> TaskRec ]
    BY <1>3, <1>7, BecomeType DEF StorePlan, MigrationState
  <2>2. row' \in [ state : RowState, plan : PlanBlob ]
    BY <1>7 DEF StorePlan, TypeOK, NoPlan, PlanBlob, Decision
  <2> QED
    BY <1>7, <2>1, <2>2 DEF StorePlan, TypeOK
<1>8. CASE TransitionRead(t)
  <2>1. [ tasks[t] EXCEPT !.pc = "t_write", !.seen = row.state ] \in TaskRec
    BY <1>1 DEF TypeOK, TaskRec
  <2>2. tasks' \in [ Task -> TaskRec ]
    BY <1>8, <2>1, AfterTransitionType, BecomeType DEF TransitionRead
  <2> QED
    BY <1>8, <2>2 DEF TransitionRead, TypeOK
<1>9. CASE TransitionWrite(t)
  <2>1. tasks' \in [ Task -> TaskRec ]
    BY <1>9, AfterTransitionType, BecomeType DEF TransitionWrite
  <2>2. row' \in [ state : RowState, plan : PlanBlob ]
    BY <1>1, <1>9 DEF TransitionWrite, TypeOK, RowState, TaskRec
  <2> QED
    BY <1>9, <2>1, <2>2 DEF TransitionWrite, TypeOK
<1>10. CASE ReadPlan(t)
  <2>1. [ tasks[t] EXCEPT !.pc = "sign", !.corr = planned, !.plan = row.plan ]
          \in TaskRec
    BY <1>1 DEF TypeOK, TaskRec
  <2>2. tasks' \in [ Task -> TaskRec ]
    BY <1>10, <2>1, BecomeType DEF ReadPlan
  <2> QED
    BY <1>10, <2>2 DEF ReadPlan, TypeOK
<1>11. CASE SignApproval(t)
  <2>1. [ tasks[t] EXCEPT !.pc = "context" ] \in TaskRec
    BY <1>1 DEF TaskRec
  <2>2. tasks' \in [ Task -> TaskRec ]
    BY <1>11, <2>1, BecomeType DEF SignApproval
  <2>3. row' \in [ state : RowState, plan : PlanBlob ]
    BY <1>1, <1>11 DEF SignApproval, TypeOK, TaskRec, PlanBlob, Decision
  <2>4. audit' \subseteq [ op : { "APPROVED", "ABORTED", "REVISED" },
                           by : Task, corr : Nat ]
    BY <1>1, <1>11 DEF SignApproval, TypeOK, TaskRec
  <2> QED
    BY <1>11, <2>2, <2>3, <2>4 DEF SignApproval, TypeOK
<1>12. CASE LaunchForwardPath(t)
  <2>1. [ Move(t, "PROVISIONING_TARGET_QM") EXCEPT !.op = "forward" ]
          \in TaskRec
    BY <1>1 DEF Move, TaskRec, Background, MigrationState, Executing
  <2>2. tasks' \in [ Task -> TaskRec ]
    BY <1>12, <2>1, BecomeType DEF LaunchForwardPath
  <2> QED
    BY <1>12, <2>2 DEF LaunchForwardPath, TypeOK
<1>13. CASE SignAbort(t)
  <2>1. [ tasks[t] EXCEPT !.pc = "log_abort" ] \in TaskRec
    BY <1>1 DEF TaskRec
  <2>2. tasks' \in [ Task -> TaskRec ]
    BY <1>13, <2>1, BecomeType DEF SignAbort
  <2>3. row' \in [ state : RowState, plan : PlanBlob ]
    BY <1>1, <1>13 DEF SignAbort, TypeOK, TaskRec, PlanBlob, Decision
  <2> QED
    BY <1>13, <2>2, <2>3 DEF SignAbort, TypeOK
<1>14. CASE LogAbort(t)
  <2>1. tasks' \in [ Task -> TaskRec ]
    BY <1>3, <1>14, BecomeType DEF LogAbort, MigrationState
  <2>2. audit' \subseteq [ op : { "APPROVED", "ABORTED", "REVISED" },
                           by : Task, corr : Nat ]
    BY <1>14 DEF LogAbort, TypeOK
  <2> QED
    BY <1>14, <2>1, <2>2 DEF LogAbort, TypeOK
<1>15. CASE InstallRevision(t)
  <2>1. tasks' \in [ Task -> TaskRec ]
    BY <1>2, <1>15, BecomeType DEF InstallRevision
  <2>2. row' \in [ state : RowState, plan : PlanBlob ]
    BY <1>1, <1>15 DEF InstallRevision, TypeOK, TaskRec, PlanBlob, Decision, NoPlan
  <2>3. audit' \subseteq [ op : { "APPROVED", "ABORTED", "REVISED" },
                           by : Task, corr : Nat ]
    BY <1>1, <1>15 DEF InstallRevision, TypeOK, TaskRec
  <2>4. planned' \in Nat
    BY <1>1, <1>15 DEF InstallRevision, TaskRec
  <2> QED
    BY <1>15, <2>1, <2>2, <2>3, <2>4 DEF InstallRevision, TypeOK
<1>16. CASE DropRevision(t)
  <2>1. tasks' \in [ Task -> TaskRec ]
    BY <1>2, <1>16, BecomeType DEF DropRevision
  <2> QED
    BY <1>16, <2>1 DEF DropRevision, TypeOK
<1>17. CASE HandlerSucceeds(t)
  <2>1. next_forward[tasks[t].to] \in MigrationState
    BY <1>17, NextForwardType DEF HandlerSucceeds, At, AllWellFormed, WellFormed
  <2>2. tasks' \in [ Task -> TaskRec ]
    BY <1>3, <1>17, <2>1, BecomeType DEF HandlerSucceeds
  <2> QED
    BY <1>17, <2>2 DEF HandlerSucceeds, TypeOK
<1>18. CASE HandlerFails(t)
  <2>1. tasks' \in [ Task -> TaskRec ]
    BY <1>3, <1>18, BecomeType DEF HandlerFails, MigrationState
  <2> QED
    BY <1>18, <2>1 DEF HandlerFails, TypeOK
<1>19. CASE InsertStep(t)
  <2>1. [ tasks[t] EXCEPT !.pc = "apply" ] \in TaskRec
    BY <1>1 DEF TaskRec
  <2>2. tasks' \in [ Task -> TaskRec ]
    BY <1>3, <1>19, <2>1, BecomeType DEF InsertStep, MigrationState
  <2>3. steps' \in [ Command -> StepRow ]
    BY <1>19 DEF InsertStep, TypeOK, StepRow
  <2> QED
    BY <1>19, <2>2, <2>3 DEF InsertStep, TypeOK
<1>20. CASE ApplyMqsc(t)
  <2>1. \A ok \in BOOLEAN : [ tasks[t] EXCEPT !.pc = "record", !.ok = ok ]
                              \in TaskRec
    BY <1>1 DEF TaskRec
  <2>2. tasks' \in [ Task -> TaskRec ]
    BY <1>20, <2>1, BecomeType DEF ApplyMqsc
  <2>3. mq' \in [ Command -> Effect ]
    BY <1>20 DEF ApplyMqsc, TypeOK
  <2> QED
    BY <1>20, <2>2, <2>3 DEF ApplyMqsc, TypeOK
<1>21. CASE RecordStep(t)
  <2>1. tasks[t].i < Len(Plan) =>
          [ tasks[t] EXCEPT !.pc = "insert_step", !.i = tasks[t].i + 1 ]
            \in TaskRec
    BY <1>1, CommandFacts DEF TaskRec
  <2>2. Move(t, "ROLLING_BACK") \in TaskRec /\ Move(t, "DRAIN_WAIT") \in TaskRec
    BY <1>3 DEF MigrationState, Executing
  <2>3. tasks' \in [ Task -> TaskRec ]
    <3>1. CASE Become(t, Move(t, "ROLLING_BACK"))
      BY <2>2, <3>1, BecomeType
    <3>2. CASE Become(t, Move(t, "DRAIN_WAIT"))
      BY <2>2, <3>2, BecomeType
    <3>3. CASE /\ tasks[t].i < Len(Plan)
               /\ Become(t, [ tasks[t] EXCEPT !.pc = "insert_step",
                                              !.i = tasks[t].i + 1 ])
      BY <2>1, <3>3, BecomeType
    <3> QED
      BY <1>21, <3>1, <3>2, <3>3 DEF RecordStep
  <2>4. steps' \in [ Command -> StepRow ]
    <3>1. \A st \in { "succeeded", "failed" } :
            [ steps EXCEPT ![tasks[t].i].status = st ] \in [ Command -> StepRow ]
      BY DEF TypeOK, StepRow
    <3> QED
      BY <1>21, <3>1 DEF RecordStep, TypeOK
  <2> QED
    BY <1>21, <2>3, <2>4 DEF RecordStep, TypeOK
<1>22. CASE SnapshotSteps(t)
  <2>1. [ tasks[t] EXCEPT !.pc = "undo_step", !.todo = Undoable, !.ok = TRUE ]
          \in TaskRec
    BY <1>1 DEF TaskRec, Undoable
  <2>2. tasks' \in [ Task -> TaskRec ]
    BY <1>22, <2>1, BecomeType DEF SnapshotSteps
  <2> QED
    BY <1>22, <2>2 DEF SnapshotSteps, TypeOK
<1>23. CASE UndoStep(t)
  <2> DEFINE i == LastOf(tasks[t].todo)
  <2>1. PICK e \in Effect, ok \in BOOLEAN :
          /\ mq' = [ mq EXCEPT ![i] = e ]
          /\ Become(t, [ tasks[t] EXCEPT !.todo = @ \ {i}, !.ok = @ /\ ok ])
    BY <1>23 DEF UndoStep
  <2>2. [ tasks[t] EXCEPT !.todo = @ \ {i}, !.ok = @ /\ ok ] \in TaskRec
    <3> HIDE DEF i
    <3>1. \A b \in BOOLEAN :
            [ tasks[t] EXCEPT !.todo = @ \ {i}, !.ok = b ] \in TaskRec
      BY <1>1 DEF TaskRec
    <3>2. (tasks[t].ok /\ ok) \in BOOLEAN
      OBVIOUS
    <3> QED
      BY <3>1, <3>2
  <2>3. tasks' \in [ Task -> TaskRec ]
    BY <2>1, <2>2, BecomeType
  <2>4. mq' \in [ Command -> Effect ]
    BY <2>1 DEF TypeOK
  <2> QED
    BY <1>23, <2>3, <2>4 DEF UndoStep, TypeOK
<1>24. CASE FinishRollback(t)
  <2>1. [ tasks[t] EXCEPT !.pc = "narrate" ] \in TaskRec
    BY <1>1 DEF TaskRec
  <2>2. tasks' \in [ Task -> TaskRec ]
    BY <1>2, <1>24, <2>1, BecomeType DEF FinishRollback
  <2>3. row' \in [ state : RowState, plan : PlanBlob ]
    BY <1>24 DEF FinishRollback, TypeOK, RowState, MigrationState,
         TERMINAL_STATES
  <2> QED
    BY <1>24, <2>2, <2>3 DEF FinishRollback, TypeOK
<1>25. CASE ReadForNarrative(t)
  <2>1. [ tasks[t] EXCEPT !.pc = "file_narrative", !.plan = row.plan ] \in TaskRec
    BY <1>1 DEF TypeOK, TaskRec
  <2>2. tasks' \in [ Task -> TaskRec ]
    BY <1>25, <2>1, BecomeType DEF ReadForNarrative
  <2> QED
    BY <1>25, <2>2 DEF ReadForNarrative, TypeOK
<1>26. CASE FileNarrative(t)
  <2>1. tasks' \in [ Task -> TaskRec ]
    BY <1>2, <1>26, BecomeType DEF FileNarrative
  <2>2. row' \in [ state : RowState, plan : PlanBlob ]
    BY <1>1, <1>26 DEF FileNarrative, TypeOK, TaskRec, PlanBlob
  <2> QED
    BY <1>26, <2>1, <2>2 DEF FileNarrative, TypeOK
<1>27. CASE ForceRollingBack(t)
  <2>1. [ tasks[t] EXCEPT !.pc = "find_pods" ] \in TaskRec
    BY <1>1 DEF TaskRec
  <2>2. tasks' \in [ Task -> TaskRec ]
    BY <1>27, <2>1, BecomeType DEF ForceRollingBack
  <2>3. row' \in [ state : RowState, plan : PlanBlob ]
    BY <1>27 DEF ForceRollingBack, TypeOK, RowState, MigrationState
  <2> QED
    BY <1>27, <2>2, <2>3 DEF ForceRollingBack, TypeOK
<1>28. CASE SpawnRollback(t)
  <2>1. [ tasks[t] EXCEPT !.op = "undo", !.pc = "snapshot" ] \in TaskRec
    BY <1>1 DEF TaskRec, Background
  <2>2. tasks' \in [ Task -> TaskRec ]
    BY <1>28, <2>1, BecomeType DEF SpawnRollback
  <2> QED
    BY <1>28, <2>2 DEF SpawnRollback, TypeOK
<1>29. CASE GiveUpRollback(t)
  <2>1. tasks' \in [ Task -> TaskRec ]
    BY <1>2, <1>29, BecomeType DEF GiveUpRollback
  <2>2. row' \in [ state : RowState, plan : PlanBlob ]
    BY <1>29 DEF GiveUpRollback, TypeOK, RowState, MigrationState,
         TERMINAL_STATES
  <2> QED
    BY <1>29, <2>1, <2>2 DEF GiveUpRollback, TypeOK
<1> QED
  BY <1>4, <1>5, <1>6, <1>7, <1>8, <1>9, <1>10, <1>11, <1>12, <1>13, <1>14,
     <1>15, <1>16, <1>17, <1>18, <1>19, <1>20, <1>21, <1>22, <1>23, <1>24,
     <1>25, <1>26, <1>27, <1>28, <1>29 DEF Step

LEMMA BecomeOnly ==
  ASSUME TypeOK, NEW t \in Task, NEW rec, Become(t, rec)
  PROVE  /\ tasks'[t] = rec
         /\ \A u \in Task \ {t} : tasks'[u] = tasks[u]
BY DEF Become, TypeOK

\* Every action of a coroutine goes through Become, so it leaves the others
\* as they are.
LEMMA StepsOneTask ==
  ASSUME TypeOK, NEW t \in Task, Request(t) \/ Step(t)
  PROVE  \A u \in Task \ {t} : tasks'[u] = tasks[u]
<1>1. \E rec : Become(t, rec)
  BY DEF Request, StartMigrationRun, Approve, AbortAtGate, ReviseAtGate,
       ManualRollback, Accept, Step, InsertRow, HardAbort, StorePlan,
       TransitionRead, TransitionWrite, ReadPlan, SignApproval,
       LaunchForwardPath, SignAbort, LogAbort, InstallRevision, DropRevision,
       HandlerSucceeds, HandlerFails, InsertStep, ApplyMqsc, RecordStep,
       SnapshotSteps, UndoStep, FinishRollback, ReadForNarrative,
       FileNarrative, ForceRollingBack, SpawnRollback, GiveUpRollback
<1> QED
  BY <1>1, BecomeOnly

\* What a transition, made or refused, leaves of a coroutine.
LEMMA AfterTransitionShape ==
  ASSUME TypeOK, NEW t \in Task, NEW accepted \in BOOLEAN, WellFormed(t),
         tasks[t].pc \in { "t_read", "t_write" },
         Become(t, AfterTransition(t, accepted))
  PROVE  WellFormed(t)'
<1>1. tasks[t] \in TaskRec /\ tasks'[t] = AfterTransition(t, accepted)
  BY DEF TypeOK, Become
<1>2. CASE tasks[t].op = "forward" /\ tasks[t].to \in Executing /\ ~ accepted
  <2>1. tasks'[t] = Move(t, "ROLLING_BACK")
    BY <1>1, <1>2 DEF AfterTransition, Executing
  <2> QED
    BY <1>1, <1>2, <2>1 DEF Move, TaskRec, WellFormed
<1>3. CASE tasks[t].op = "forward" /\ tasks[t].to \in Executing /\ accepted
  <2>1. CASE tasks[t].to = "REWIRING"
    <3>1. tasks'[t] = [ tasks[t] EXCEPT !.pc = "insert_step", !.i = 1 ]
      BY <1>1, <1>3, <2>1 DEF AfterTransition
    <3> QED
      BY <1>1, <1>3, <2>1, <3>1 DEF TaskRec, WellFormed
  <2>2. CASE tasks[t].to # "REWIRING"
    <3>1. tasks'[t] = [ tasks[t] EXCEPT !.pc = "handler" ]
      BY <1>1, <1>3, <2>2 DEF AfterTransition, Executing
    <3> QED
      BY <1>1, <1>3, <2>2, <3>1 DEF TaskRec, WellFormed
  <2> QED
    BY <2>1, <2>2
<1>4. CASE tasks[t].to = "ROLLING_BACK"
  <2>1. tasks'[t] = [ tasks[t] EXCEPT !.pc = "snapshot" ]
    BY <1>1, <1>4 DEF AfterTransition, Executing
  <2> QED
    BY <1>1, <1>4, <2>1 DEF TaskRec, WellFormed
<1>5. CASE tasks[t].op = "forward" /\ tasks[t].to = "COMPLETED"
  <2>1. tasks'[t] = [ tasks[t] EXCEPT !.pc = "narrate" ]
    BY <1>1, <1>5 DEF AfterTransition, Executing
  <2> QED
    BY <1>1, <1>5, <2>1 DEF TaskRec, WellFormed
<1>6. CASE tasks[t].op # "forward" /\ tasks[t].to # "ROLLING_BACK"
  <2>1. tasks'[t] = Finished(t)
    BY <1>1, <1>6 DEF AfterTransition
  <2> QED
    BY <1>1, <2>1 DEF Finished, Unused, TaskRec, WellFormed
<1> QED
  BY <1>2, <1>3, <1>4, <1>5, <1>6 DEF WellFormed

\* Handlers and rewiring stay with the forward path, whatever a step does.
LEMMA WellFormedStep ==
  ASSUME TypeOK, AllWellFormed, NEW t \in Task, Request(t) \/ Step(t)
  PROVE  AllWellFormed'
<1>1. tasks[t] \in TaskRec /\ WellFormed(t)
  BY DEF TypeOK, AllWellFormed
<1>2. SUFFICES WellFormed(t)'
  BY StepsOneTask DEF AllWellFormed, WellFormed
<1>3. CASE Request(t)
  <2>1. ASSUME NEW op \in OperatorRequest,
               NEW pc \in { "insert_row", "read_plan", "sign_abort", "install",
                            "force" },
               Accept(t, op, pc), pc = "sign_abort" => op = "abort"
        PROVE  WellFormed(t)'
    <3>1. tasks'[t].op = op /\ tasks'[t].pc = pc
      BY <2>1 DEF Accept, Become, TypeOK, Unused
    <3> QED
      BY <2>1, <3>1 DEF WellFormed, OperatorRequest
  <2> QED
    BY <1>3, <2>1 DEF Request, StartMigrationRun, Approve, AbortAtGate,
         ReviseAtGate, ManualRollback, OperatorRequest
<1>4. CASE InsertRow(t)
  <2>1. CASE Become(t, Finished(t))
    BY <1>1, <2>1 DEF Become, TypeOK, WellFormed, TaskRec, Finished, Unused
  <2>2. CASE tasks'[t].op = "plan" /\ tasks'[t].pc = "resolve"
    BY <2>2 DEF WellFormed
  <2>3. Become(t, [ tasks[t] EXCEPT !.op = "plan", !.pc = "resolve",
                                    !.corr = attempt + 1 ])
          => tasks'[t].op = "plan" /\ tasks'[t].pc = "resolve"
    BY <1>1 DEF Become, TypeOK, TaskRec
  <2> QED
    BY <1>4, <2>1, <2>2, <2>3 DEF InsertRow
<1>5. CASE HardAbort(t)
  BY <1>1, <1>5 DEF HardAbort, Become, At, TypeOK, WellFormed, TaskRec, Finished, Unused
<1>6. CASE StorePlan(t)
  BY <1>1, <1>6 DEF StorePlan, Become, At, TypeOK, WellFormed, TaskRec, Move
<1>7. CASE TransitionRead(t)
  <2>1. CASE Become(t, [ tasks[t] EXCEPT !.pc = "t_write", !.seen = row.state ])
    BY <1>1, <1>7, <2>1 DEF TransitionRead, At, Become, TypeOK, TaskRec, WellFormed
  <2>2. CASE Become(t, AfterTransition(t, FALSE))
    BY <1>1, <1>7, <2>2, AfterTransitionShape DEF TransitionRead, At
  <2> QED
    BY <1>7, <2>1, <2>2 DEF TransitionRead
<1>8. CASE TransitionWrite(t)
  BY <1>1, <1>8, AfterTransitionShape DEF TransitionWrite, At
<1>9. CASE ReadPlan(t)
  BY <1>1, <1>9 DEF ReadPlan, Become, At, TypeOK, WellFormed, TaskRec
<1>10. CASE SignApproval(t)
  BY <1>1, <1>10 DEF SignApproval, Become, At, TypeOK, WellFormed, TaskRec
<1>11. CASE LaunchForwardPath(t)
  BY <1>1, <1>11 DEF LaunchForwardPath, Become, At, TypeOK, WellFormed, TaskRec, Move, Executing
<1>12. CASE SignAbort(t)
  BY <1>1, <1>12 DEF SignAbort, Become, At, TypeOK, WellFormed, TaskRec
<1>13. CASE LogAbort(t)
  BY <1>1, <1>13 DEF LogAbort, Become, At, TypeOK, WellFormed, TaskRec, Move
<1>14. CASE InstallRevision(t)
  BY <1>1, <1>14 DEF InstallRevision, Become, At, TypeOK, WellFormed, TaskRec, Finished, Unused
<1>15. CASE DropRevision(t)
  BY <1>1, <1>15 DEF DropRevision, Become, At, TypeOK, WellFormed, TaskRec, Finished, Unused
<1>16. CASE HandlerSucceeds(t)
  BY <1>1, <1>16 DEF HandlerSucceeds, Become, At, TypeOK, WellFormed, TaskRec, Move, next_forward, Executing
<1>17. CASE HandlerFails(t)
  BY <1>1, <1>17 DEF HandlerFails, Become, At, TypeOK, WellFormed, TaskRec, Move
<1>18. CASE InsertStep(t)
  <2>1. CASE Become(t, [ tasks[t] EXCEPT !.pc = "apply" ])
    BY <1>1, <1>18, <2>1 DEF InsertStep, At, Become, TypeOK, TaskRec, WellFormed
  <2>2. CASE Become(t, Move(t, "ROLLING_BACK"))
    BY <1>1, <1>18, <2>2 DEF InsertStep, At, Become, Move, TypeOK, TaskRec,
         WellFormed
  <2> QED
    BY <1>18, <2>1, <2>2 DEF InsertStep
<1>19. CASE ApplyMqsc(t)
  BY <1>1, <1>19 DEF ApplyMqsc, Become, At, TypeOK, WellFormed, TaskRec
<1>20. CASE RecordStep(t)
  BY <1>1, <1>20 DEF RecordStep, Become, At, TypeOK, WellFormed, TaskRec, Move, Executing
<1>21. CASE SnapshotSteps(t)
  BY <1>1, <1>21 DEF SnapshotSteps, Become, At, TypeOK, WellFormed, TaskRec
<1>22. CASE UndoStep(t)
  BY <1>1, <1>22 DEF UndoStep, Become, At, TypeOK, WellFormed, TaskRec
<1>23. CASE FinishRollback(t)
  <2>1. CASE Become(t, Finished(t))
    BY <1>1, <2>1 DEF Become, TypeOK, WellFormed, TaskRec, Finished, Unused
  <2>2. CASE Become(t, [ tasks[t] EXCEPT !.pc = "narrate" ])
             /\ tasks[t].op = "forward"
    BY <1>1, <2>2 DEF Become, TypeOK, WellFormed, TaskRec
  <2> QED
    BY <1>23, <2>1, <2>2 DEF FinishRollback
<1>24. CASE ReadForNarrative(t)
  <2>1. tasks[t].op # "plan"
    BY <1>1, <1>24 DEF ReadForNarrative, At, WellFormed
  <2> QED
    BY <1>1, <1>24, <2>1 DEF ReadForNarrative, Become, TypeOK, WellFormed, TaskRec
<1>25. CASE FileNarrative(t)
  BY <1>1, <1>25 DEF FileNarrative, Become, TypeOK, WellFormed, TaskRec,
       Finished, Unused
<1>26. CASE ForceRollingBack(t)
  BY <1>1, <1>26 DEF ForceRollingBack, Become, At, TypeOK, WellFormed, TaskRec
<1>27. CASE SpawnRollback(t)
  BY <1>1, <1>27 DEF SpawnRollback, Become, At, TypeOK, WellFormed, TaskRec
<1>28. CASE GiveUpRollback(t)
  BY <1>1, <1>28 DEF GiveUpRollback, Become, At, TypeOK, WellFormed, TaskRec, Finished, Unused
<1> QED
  BY <1>3, <1>4, <1>5, <1>6, <1>7, <1>8, <1>9, <1>10, <1>11, <1>12, <1>13,
     <1>14, <1>15, <1>16, <1>17, <1>18, <1>19, <1>20, <1>21, <1>22, <1>23,
     <1>24, <1>25, <1>26, <1>27, <1>28 DEF Step

LEMMA TypeInit == Init => TypeOK /\ AllWellFormed
<1> SUFFICES ASSUME Init PROVE TypeOK /\ AllWellFormed
  OBVIOUS
<1>1. TypeOK
  BY UnusedType DEF Init, TypeOK, RowState, NoPlan, PlanBlob, Decision, NoStep,
       StepRow, Effect
<1>2. AllWellFormed
  BY DEF Init, AllWellFormed, WellFormed, Unused
<1> QED
  BY <1>1, <1>2

\* A kill ends coroutines and changes nothing else.
LEMMA TypeCrash == TypeOK /\ AllWellFormed /\ Crash => TypeOK' /\ AllWellFormed'
<1> SUFFICES ASSUME TypeOK, AllWellFormed, Crash PROVE TypeOK' /\ AllWellFormed'
  OBVIOUS
<1>1. tasks' \in [ Task -> TaskRec ]
  BY TaskShapes DEF Crash, TypeOK
<1>2. \A t \in Task : tasks'[t] \in { Finished(t), tasks[t] }
  BY DEF Crash
<1>3. ASSUME NEW t \in Task PROVE WellFormed(t)'
  <2>1. CASE tasks'[t] = Finished(t)
    BY <2>1 DEF WellFormed, Finished, Unused
  <2>2. CASE tasks'[t] = tasks[t]
    BY <2>2 DEF AllWellFormed, WellFormed
  <2> QED
    BY <1>2, <2>1, <2>2
<1> QED
  BY <1>1, <1>3 DEF Crash, TypeOK, AllWellFormed

LEMMA TypeNext ==
  TypeOK /\ AllWellFormed /\ [Next]_vars => TypeOK' /\ AllWellFormed'
<1> SUFFICES ASSUME TypeOK, AllWellFormed, [Next]_vars
             PROVE  TypeOK' /\ AllWellFormed'
  OBVIOUS
<1>1. CASE \E t \in Task : Request(t) \/ Step(t)
  BY <1>1, TypeStep, WellFormedStep
<1>2. CASE Crash
  BY <1>2, TypeCrash
<1>3. CASE UNCHANGED vars
  BY <1>3 DEF vars, TypeOK, AllWellFormed, WellFormed
<1> QED
  BY <1>1, <1>2, <1>3 DEF Next, AtRest

\* Every reachable state is well typed, whatever the instance.
THEOREM TypeCorrect == Spec => []TypeOK
<1>1. Init => TypeOK /\ AllWellFormed
  BY TypeInit
<1>2. TypeOK /\ AllWellFormed /\ [Next]_vars => TypeOK' /\ AllWellFormed'
  BY TypeNext
<1> QED
  BY <1>1, <1>2, PTL DEF Spec

-----------------------------------------------------------------------------
(* The human gate. *)

\* Decisions are only ever added to the audit log.
LEMMA ApprovalsStay ==
  ASSUME NEW t \in Task, Request(t) \/ Step(t), NEW u \in Task, Approved(u)
  PROVE  Approved(u)'
<1>1. audit \subseteq audit'
  BY DEF Request, StartMigrationRun, Approve, AbortAtGate, ReviseAtGate,
       ManualRollback, Accept, Step, InsertRow, HardAbort, StorePlan,
       TransitionRead, TransitionWrite, ReadPlan, SignApproval,
       LaunchForwardPath, SignAbort, LogAbort, InstallRevision, DropRevision,
       HandlerSucceeds, HandlerFails, InsertStep, ApplyMqsc, RecordStep,
       SnapshotSteps, UndoStep, FinishRollback, ReadForNarrative,
       FileNarrative, ForceRollingBack, SpawnRollback, GiveUpRollback
<1> QED
  BY <1>1 DEF Approved

\* Leaving a transition never makes a coroutine a forward path.
LEMMA AfterTransitionOp ==
  ASSUME TypeOK, NEW t \in Task, NEW accepted \in BOOLEAN
  PROVE  /\ AfterTransition(t, accepted).op = tasks[t].op
         /\ AfterTransition(t, accepted).pc # "context"
<1>1. tasks[t] \in TaskRec
  BY DEF TypeOK
<1>2. /\ Move(t, "ROLLING_BACK").op = tasks[t].op
      /\ Move(t, "ROLLING_BACK").pc # "context"
      /\ Finished(t).op = tasks[t].op
      /\ Finished(t).pc # "context"
  BY <1>1 DEF Move, Finished, Unused, TaskRec
<1>3. \A pc \in { "handler", "snapshot", "narrate" } :
        /\ [ tasks[t] EXCEPT !.pc = pc ].op = tasks[t].op
        /\ [ tasks[t] EXCEPT !.pc = pc ].pc # "context"
  BY <1>1 DEF TaskRec
<1>4. /\ [ tasks[t] EXCEPT !.pc = "insert_step", !.i = 1 ].op = tasks[t].op
      /\ [ tasks[t] EXCEPT !.pc = "insert_step", !.i = 1 ].pc # "context"
  BY <1>1 DEF TaskRec
<1> QED
  BY <1>2, <1>3, <1>4 DEF AfterTransition

\* Only an approval leads to the forward path.
LEMMA ForwardIsApprovedStep ==
  ASSUME TypeOK, AllWellFormed, ForwardIsApproved,
         NEW t \in Task, Request(t) \/ Step(t)
  PROVE  ForwardIsApproved'
<1>1. tasks[t] \in TaskRec /\ WellFormed(t)
  BY DEF TypeOK, AllWellFormed
<1>2. tasks[t].op = "forward" \/ tasks[t].pc = "context" => Approved(t)
  BY DEF ForwardIsApproved
<1>3. ASSUME tasks'[t].op = "forward" \/ tasks'[t].pc = "context"
              => tasks[t].op = "forward" \/ tasks[t].pc = "context"
      PROVE  ForwardIsApproved'
  BY <1>3, StepsOneTask, ApprovalsStay DEF ForwardIsApproved
<1>4. CASE SignApproval(t)
  <2>1. [ op |-> "APPROVED", by |-> t, corr |-> tasks[t].corr ] \in audit'
    BY <1>4 DEF SignApproval
  <2>2. Approved(t)'
    BY <2>1 DEF Approved
  <2> QED
    BY <2>2, StepsOneTask, ApprovalsStay DEF ForwardIsApproved
<1>5. CASE LaunchForwardPath(t)
  BY <1>3, <1>5 DEF LaunchForwardPath, At
<1>6. CASE TransitionRead(t) \/ TransitionWrite(t)
  <2>1. CASE Become(t, [ tasks[t] EXCEPT !.pc = "t_write", !.seen = row.state ])
    BY <1>1, <1>3, <2>1 DEF Become, TypeOK, TaskRec
  <2>2. CASE \E accepted \in BOOLEAN : Become(t, AfterTransition(t, accepted))
    BY <1>3, <2>2, AfterTransitionOp, BecomeOnly
  <2> QED
    BY <1>6, <2>1, <2>2 DEF TransitionRead, TransitionWrite
<1>7. CASE Request(t)
  <2>1. ASSUME NEW op \in OperatorRequest,
               NEW pc \in { "insert_row", "read_plan", "sign_abort", "install",
                            "force" },
               Accept(t, op, pc)
        PROVE  ForwardIsApproved'
    <3>1. tasks'[t].op = op /\ tasks'[t].pc = pc
      BY <2>1 DEF Accept, Become, TypeOK, Unused
    <3> QED
      BY <1>3, <2>1, <3>1 DEF OperatorRequest
  <2> QED
    BY <1>7, <2>1 DEF Request, StartMigrationRun, Approve, AbortAtGate,
         ReviseAtGate, ManualRollback, OperatorRequest
<1>8. CASE Become(t, Finished(t))
  BY <1>3, <1>8 DEF Become, TypeOK, Finished, Unused
<1>9. CASE \E to : Become(t, Move(t, to))
  BY <1>1, <1>3, <1>9 DEF Become, Move, TypeOK, TaskRec
<1>10. CASE InsertRow(t) \/ SpawnRollback(t)
  <2>1. /\ [ tasks[t] EXCEPT !.op = "plan", !.pc = "resolve",
                             !.corr = attempt + 1 ].op # "forward"
        /\ [ tasks[t] EXCEPT !.op = "plan", !.pc = "resolve",
                             !.corr = attempt + 1 ].pc # "context"
        /\ [ tasks[t] EXCEPT !.op = "undo", !.pc = "snapshot" ].op # "forward"
        /\ [ tasks[t] EXCEPT !.op = "undo", !.pc = "snapshot" ].pc # "context"
    BY <1>1 DEF TaskRec
  <2> QED
    BY <1>3, <1>8, <1>10, <2>1, BecomeOnly DEF InsertRow, SpawnRollback
<1>11. CASE InsertStep(t) \/ ApplyMqsc(t) \/ RecordStep(t)
  BY <1>1, <1>3, <1>11 DEF InsertStep, ApplyMqsc, RecordStep, At, WellFormed
<1>12. CASE ReadPlan(t)
  BY <1>1, <1>3, <1>12 DEF ReadPlan, Become, TypeOK, TaskRec
<1>13. CASE SnapshotSteps(t)
  BY <1>1, <1>3, <1>13 DEF SnapshotSteps, Become, TypeOK, TaskRec
<1>14. CASE UndoStep(t)
  <2>1. tasks'[t].op = tasks[t].op /\ tasks'[t].pc = tasks[t].pc
    BY <1>1, <1>14 DEF UndoStep, Become, TypeOK, TaskRec
  <2> QED
    BY <1>3, <2>1
<1>15. CASE ForceRollingBack(t)
  BY <1>1, <1>3, <1>15 DEF ForceRollingBack, Become, TypeOK, TaskRec
<1>16. CASE SignAbort(t)
  BY <1>1, <1>3, <1>16 DEF SignAbort, Become, TypeOK, TaskRec
<1>17. CASE Become(t, [ tasks[t] EXCEPT !.pc = "narrate" ])
  BY <1>1, <1>3, <1>17 DEF Become, TypeOK, TaskRec
<1>18. CASE ReadForNarrative(t)
  BY <1>1, <1>3, <1>18 DEF ReadForNarrative, Become, TypeOK, TaskRec
<1> QED
  BY <1>4, <1>5, <1>6, <1>7, <1>8, <1>9, <1>10, <1>11, <1>12, <1>13, <1>14,
     <1>15, <1>16, <1>17, <1>18
  DEF Step, HardAbort, StorePlan, LogAbort, FileNarrative, InstallRevision,
       DropRevision, HandlerSucceeds, HandlerFails, FinishRollback,
       GiveUpRollback

LEMMA HumanGateStep ==
  ASSUME TypeOK, AllWellFormed, ForwardIsApproved, HumanGate,
         NEW t \in Task, Request(t) \/ Step(t)
  PROVE  HumanGate'
<1>1. tasks[t] \in TaskRec /\ WellFormed(t)
  BY DEF TypeOK, AllWellFormed
<1>2. tasks[t].pc \in { "insert_step", "apply", "record" } => Approved(t)
  BY <1>1 DEF ForwardIsApproved, WellFormed
<1>3. \A i \in Command : steps[i].status # "absent" => steps[i].by \in Task
  BY TaskAssumption DEF HumanGate, Approved, TypeOK
<1>4. ASSUME UNCHANGED << steps, mq >>
      PROVE  HumanGate'
  BY <1>3, <1>4, ApprovalsStay DEF HumanGate
<1>5. CASE InsertRow(t)
  <2>1. \A i \in Command :
          steps'[i].status # "absent" => steps'[i] = steps[i]
    BY <1>5 DEF InsertRow, NoStep
  <2> QED
    BY <1>3, <1>5, <2>1, ApprovalsStay DEF InsertRow, HumanGate
<1>6. CASE InsertStep(t)
  <2>1. \A i \in Command : steps'[i] = steps[i] \/ steps'[i].by = t
    BY <1>6 DEF InsertStep, TypeOK
  <2> QED
    BY <1>2, <1>3, <1>6, <2>1, ApprovalsStay DEF InsertStep, At, HumanGate
<1>7. CASE ApplyMqsc(t)
  BY <1>2, <1>3, <1>7, ApprovalsStay DEF ApplyMqsc, At, HumanGate
<1>8. CASE RecordStep(t)
  <2>1. \A i \in Command : steps'[i] = steps[i] \/ steps'[i].by = t
    BY <1>8 DEF RecordStep, TypeOK, StepRow
  <2> QED
    BY <1>2, <1>3, <1>8, <2>1, ApprovalsStay DEF RecordStep, At, HumanGate
<1>9. CASE UndoStep(t)
  <2>1. \A i \in Command :
          mq'[i] # "before" => \E j \in Command : mq[j] # "before"
    BY <1>9 DEF UndoStep, InverseOutcome, TypeOK, Effect
  <2> QED
    BY <1>3, <1>9, <2>1, ApprovalsStay DEF UndoStep, HumanGate
<1>10. CASE UNCHANGED << steps, mq >>
  BY <1>4, <1>10
<1> QED
  BY <1>5, <1>6, <1>7, <1>8, <1>9, <1>10
  DEF Request, StartMigrationRun, Approve, AbortAtGate, ReviseAtGate,
      ManualRollback, Accept, Step, HardAbort, StorePlan, TransitionRead,
      TransitionWrite, ReadPlan, SignApproval, LaunchForwardPath, SignAbort,
      LogAbort, InstallRevision, DropRevision, HandlerSucceeds, HandlerFails,
      SnapshotSteps, FinishRollback, ReadForNarrative, FileNarrative,
      ForceRollingBack, SpawnRollback, GiveUpRollback

LEMMA GateInit == Init => GateInv
<1> SUFFICES ASSUME Init PROVE GateInv
  OBVIOUS
<1>1. ForwardIsApproved
  BY DEF Init, ForwardIsApproved, Unused
<1>2. HumanGate
  BY DEF Init, HumanGate, NoStep
<1> QED
  BY <1>1, <1>2, TypeInit DEF GateInv

LEMMA GateNext == GateInv /\ [Next]_vars => GateInv'
<1> SUFFICES ASSUME GateInv, [Next]_vars PROVE ForwardIsApproved' /\ HumanGate'
  BY TypeNext DEF GateInv
<1>1. CASE \E t \in Task : Request(t) \/ Step(t)
  BY <1>1, ForwardIsApprovedStep, HumanGateStep DEF GateInv
<1>2. CASE Crash
  <2>1. \A t \in Task : tasks'[t] \in { Finished(t), tasks[t] }
    BY <1>2 DEF Crash
  <2>2. \A t \in Task : /\ tasks'[t].op = tasks[t].op
                        /\ tasks'[t].pc = "context" => tasks[t].pc = "context"
    BY <2>1, TaskShapes DEF Finished, Unused
  <2> QED
    BY <1>2, <2>2 DEF Crash, GateInv, ForwardIsApproved, Approved, HumanGate
<1>3. CASE UNCHANGED vars
  BY <1>3 DEF vars, GateInv, ForwardIsApproved, Approved, HumanGate
<1> QED
  BY <1>1, <1>2, <1>3 DEF Next, AtRest

\* Whatever operators and coroutines do to each other, whatever fails and
\* whenever the process is killed, nothing is done to a queue manager, and no
\* step row is written, but by a task that signed an approval first.
THEOREM HumanGateHolds == Spec => []HumanGate
<1>1. GateInv => HumanGate
  BY DEF GateInv
<1> QED
  BY <1>1, GateInit, GateNext, PTL DEF Spec

-----------------------------------------------------------------------------
(* No migration is left in flight. *)

\* Every state of the forward path has its successor, or ROLLING_BACK, as the
\* only places the machine lets it go.
LEMMA ForwardEdges ==
  \A s \in Executing \cup { "PLANNED" } :
    /\ is_valid_transition(s, next_forward[s])
    /\ is_valid_transition(s, "ROLLING_BACK")
BY DEF is_valid_transition, next_forward, Executing

\* A coroutine that does not touch the row keeps the row driven if it keeps
\* driving what it drives.
LEMMA DrivenFrame ==
  ASSUME Driven, NEW t \in Task, Request(t) \/ Step(t), TypeOK,
         row'.state = row.state,
         row.state = "PLANNED" /\ tasks[t].op = "plan" /\ Running(t)
           => tasks'[t].op = "plan" /\ Running(t)',
         row.state = "ROLLING_BACK"
           /\ tasks[t].pc \in { "find_pods", "snapshot", "undo_step" }
           => tasks'[t].pc \in { "find_pods", "snapshot", "undo_step" },
         row.state \in Executing /\ Drives(t, row.state)
           => Drives(t, row.state)'
  PROVE  Driven'
<1>1. \A u \in Task \ {t} : tasks'[u] = tasks[u]
  BY StepsOneTask
<1>2. row'.state = "PLANNED" => \E u \in Task : (tasks[u].op = "plan" /\ Running(u))'
  BY <1>1 DEF Driven, Running
<1>3. row'.state = "ROLLING_BACK" =>
        \E u \in Task : tasks'[u].pc \in { "find_pods", "snapshot", "undo_step" }
  BY <1>1 DEF Driven
<1>4. row'.state \in Executing => \E u \in Task : Drives(u, row.state)'
  BY <1>1 DEF Driven, Drives
<1> QED
  BY <1>2, <1>3, <1>4 DEF Driven

\* A row that is settled, or waits at the gate, needs nobody.
LEMMA DrivenAtRest ==
  row'.state \in { "AWAITING_APPROVAL" } \cup TERMINAL_STATES => Driven'
BY DEF Driven, Executing, TERMINAL_STATES

LEMMA DrivenStep ==
  ASSUME TypeOK, AllWellFormed, Driven, NEW t \in Task, Request(t) \/ Step(t)
  PROVE  Driven'
<1>1. tasks[t] \in TaskRec /\ WellFormed(t) /\ row.state \in RowState
  BY DEF TypeOK, AllWellFormed
<1>2. CASE Request(t)
  <2>1. tasks[t].pc = "free" /\ row' = row
    BY <1>2 DEF Request, StartMigrationRun, Approve, AbortAtGate, ReviseAtGate,
         ManualRollback, Accept, At
  <2> QED
    BY <2>1, DrivenFrame DEF Running, Drives
<1>3. CASE InsertRow(t)
  <2>1. CASE row' = row
    BY <1>1, <1>3, <2>1, DrivenFrame DEF InsertRow, At, WellFormed, Running, Drives
  <2>2. CASE row' # row
    <3> DEFINE rec == [ tasks[t] EXCEPT !.op = "plan", !.pc = "resolve",
                                        !.corr = attempt + 1 ]
    <3>1. rec.op = "plan" /\ rec.pc = "resolve"
      BY <1>1 DEF TaskRec
    <3>2. row'.state = "PLANNED" /\ Become(t, rec)
      BY <1>3, <2>2 DEF InsertRow
    <3>3. tasks'[t].op = "plan" /\ tasks'[t].pc = "resolve"
      BY <3>1, <3>2, BecomeOnly
    <3> QED
      BY <3>2, <3>3 DEF Driven, Running, Executing
  <2> QED
    BY <2>1, <2>2
<1>4. CASE HardAbort(t) \/ FinishRollback(t) \/ GiveUpRollback(t)
  <2>1. row'.state \in TERMINAL_STATES
    BY <1>4 DEF HardAbort, FinishRollback, GiveUpRollback, TypeOK, TERMINAL_STATES
  <2> QED
    BY <2>1, DrivenAtRest
<1>5. CASE StorePlan(t)
  <2>1. row'.state = row.state /\ tasks'[t].op = tasks[t].op /\ tasks'[t].pc = "t_read"
    BY <1>1, <1>5 DEF StorePlan, Become, Move, TypeOK, TaskRec
  <2> QED
    BY <1>5, <2>1, DrivenFrame DEF StorePlan, At, Running, Drives
<1>6. CASE TransitionRead(t)
  <2>1. CASE is_valid_transition(row.state, tasks[t].to)
    <3> DEFINE rec == [ tasks[t] EXCEPT !.pc = "t_write", !.seen = row.state ]
    <3>1. rec.pc = "t_write" /\ rec.op = tasks[t].op /\ rec.to = tasks[t].to
      BY <1>1 DEF TaskRec
    <3>2. tasks'[t] = rec
      BY <1>6, <2>1, BecomeOnly DEF TransitionRead
    <3> HIDE DEF rec
    <3> QED
      BY <1>6, <3>1, <3>2, DrivenFrame DEF TransitionRead, At, Running, Drives
  <2>2. CASE ~ is_valid_transition(row.state, tasks[t].to)
    <3>1. ~ (row.state = "PLANNED" /\ tasks[t].op = "plan")
      BY <1>1, <1>6, <2>2 DEF TransitionRead, At, WellFormed,
           is_valid_transition, next_forward
    <3>2. ~ (row.state \in Executing /\ Drives(t, row.state))
      BY <1>6, <2>2, ForwardEdges DEF TransitionRead, At, Drives
    <3> QED
      BY <1>6, <3>1, <3>2, DrivenFrame DEF TransitionRead, At
  <2> QED
    BY <2>1, <2>2
<1>7. CASE TransitionWrite(t)
  <2>1. row'.state = tasks[t].to /\ tasks'[t] = AfterTransition(t, TRUE)
    BY <1>1, <1>7 DEF TransitionWrite, Become, TypeOK
  <2>2. CASE tasks[t].to \in { "AWAITING_APPROVAL", "COMPLETED" }
    BY <2>1, <2>2, DrivenAtRest DEF TERMINAL_STATES
  <2>3. CASE tasks[t].to = "ROLLING_BACK"
    <3>1. tasks'[t].pc = "snapshot"
      BY <1>1, <2>1, <2>3 DEF AfterTransition, Executing, TaskRec
    <3> QED
      BY <2>1, <2>3, <3>1 DEF Driven, Executing
  <2>4. CASE tasks[t].op = "forward" /\ tasks[t].to \in Executing
    <3>1. tasks'[t].pc \in { "handler", "insert_step" } /\ tasks'[t].to = tasks[t].to
      BY <1>1, <2>1, <2>4 DEF AfterTransition, Executing, TaskRec
    <3>2. Drives(t, row.state)'
      BY <2>1, <3>1 DEF Drives
    <3> QED
      BY <2>1, <2>4, <3>2 DEF Driven, Executing
  <2> QED
    BY <1>1, <1>7, <2>2, <2>3, <2>4 DEF TransitionWrite, At, WellFormed
<1>8. CASE ReadPlan(t) \/ SignApproval(t) \/ LaunchForwardPath(t)
           \/ SignAbort(t) \/ LogAbort(t) \/ InstallRevision(t) \/ DropRevision(t)
           \/ ReadForNarrative(t) \/ FileNarrative(t)
  <2>1. /\ row'.state = row.state
        /\ tasks[t].pc \in { "read_plan", "sign", "context", "sign_abort", "log_abort",
                           "install", "narrate", "file_narrative" }
    BY <1>8 DEF ReadPlan, SignApproval, LaunchForwardPath, SignAbort, LogAbort,
         ReadForNarrative, FileNarrative,
         InstallRevision, DropRevision, At, TypeOK
  <2> QED
    BY <1>1, <2>1, DrivenFrame DEF WellFormed, Drives
<1>9. CASE HandlerSucceeds(t) \/ HandlerFails(t)
  <2>1. /\ tasks'[t].op = tasks[t].op
        /\ tasks'[t].pc = "t_read"
        /\ tasks'[t].to \in { next_forward[tasks[t].to], "ROLLING_BACK" }
    <3>1. PICK to \in { next_forward[tasks[t].to], "ROLLING_BACK" } :
            tasks'[t] = Move(t, to)
      BY <1>9, BecomeOnly DEF HandlerSucceeds, HandlerFails
    <3>2. Move(t, to).op = tasks[t].op /\ Move(t, to).pc = "t_read" /\ Move(t, to).to = to
      BY <1>1 DEF Move, TaskRec
    <3> QED
      BY <3>1, <3>2
  <2>2. /\ row' = row
        /\ tasks[t].pc = "handler"
        /\ tasks[t].op = "forward"
    BY <1>1, <1>9 DEF HandlerSucceeds, HandlerFails, At, WellFormed
  <2> QED
    BY <2>1, <2>2, DrivenFrame DEF Drives
<1>10. CASE InsertStep(t) \/ ApplyMqsc(t) \/ RecordStep(t)
  <2>1. /\ row' = row
        /\ tasks[t].pc \in { "insert_step", "apply", "record" }
        /\ tasks[t].op = "forward"
        /\ tasks[t].to = "REWIRING"
    BY <1>1, <1>10 DEF InsertStep, ApplyMqsc, RecordStep, At, WellFormed
  <2>2. \/ /\ tasks'[t].pc \in { "insert_step", "apply", "record" }
           /\ tasks'[t].to = "REWIRING"
        \/ /\ tasks'[t].pc = "t_read"
           /\ tasks'[t].op = "forward"
           /\ tasks'[t].to \in { "DRAIN_WAIT", "ROLLING_BACK" }
    <3>1. CASE \E to \in { "DRAIN_WAIT", "ROLLING_BACK" } : Become(t, Move(t, to))
      BY <1>1, <2>1, <3>1 DEF Become, Move, TypeOK, TaskRec
    <3>2. CASE Become(t, [ tasks[t] EXCEPT !.pc = "apply" ])
      BY <1>1, <2>1, <3>2 DEF Become, TypeOK, TaskRec
    <3>3. CASE \E ok \in BOOLEAN :
                 Become(t, [ tasks[t] EXCEPT !.pc = "record", !.ok = ok ])
      BY <1>1, <2>1, <3>3 DEF Become, TypeOK, TaskRec
    <3>4. CASE Become(t, [ tasks[t] EXCEPT !.pc = "insert_step",
                                           !.i = tasks[t].i + 1 ])
      BY <1>1, <2>1, <3>4 DEF Become, TypeOK, TaskRec
    <3> QED
      BY <1>10, <3>1, <3>2, <3>3, <3>4 DEF InsertStep, ApplyMqsc, RecordStep
  <2>3. next_forward["REWIRING"] = "DRAIN_WAIT"
    BY DEF next_forward
  <2> QED
    BY <2>1, <2>2, <2>3, DrivenFrame DEF Drives
<1>11. CASE SnapshotSteps(t) \/ UndoStep(t) \/ SpawnRollback(t)
  <2>1. /\ row' = row
        /\ tasks[t].pc \in { "find_pods", "snapshot", "undo_step" }
    BY <1>11 DEF SnapshotSteps, UndoStep, SpawnRollback, At
  <2>2. tasks'[t].pc \in { "snapshot", "undo_step" }
    <3>1. CASE Become(t, [ tasks[t] EXCEPT !.pc = "undo_step", !.todo = Undoable,
                                           !.ok = TRUE ])
      BY <1>1, <3>1 DEF Become, TypeOK, TaskRec
    <3>2. CASE Become(t, [ tasks[t] EXCEPT !.op = "undo", !.pc = "snapshot" ])
      BY <1>1, <3>2 DEF Become, TypeOK, TaskRec
    <3>3. CASE UndoStep(t)
      BY <1>1, <3>3 DEF UndoStep, At, Become, TypeOK, TaskRec
    <3> QED
      BY <1>11, <3>1, <3>2, <3>3 DEF SnapshotSteps, SpawnRollback
  <2> QED
    BY <1>1, <2>1, <2>2, DrivenFrame DEF WellFormed, Drives
<1>12. CASE ForceRollingBack(t)
  <2>1. tasks[t].pc = "force" /\ tasks'[t].pc = "find_pods"
    BY <1>1, <1>12 DEF ForceRollingBack, At, Become, TypeOK, TaskRec
  <2>2. CASE row' = row
    BY <1>1, <2>1, <2>2, DrivenFrame DEF WellFormed, Drives
  <2>3. CASE row'.state = "ROLLING_BACK"
    BY <2>1, <2>3 DEF Driven, Executing
  <2> QED
    BY <1>12, <2>2, <2>3 DEF ForceRollingBack, TypeOK
<1> QED
  BY <1>2, <1>3, <1>4, <1>5, <1>6, <1>7, <1>8, <1>9, <1>10, <1>11, <1>12 DEF Step

LEMMA DriveInit == Init => DriveInv
<1> SUFFICES ASSUME Init PROVE Driven
  BY TypeInit DEF DriveInv
<1> QED
  BY DEF Init, Driven, Executing

LEMMA DriveNext ==
  "crash" \notin Faults => (DriveInv /\ [Next]_vars => DriveInv')
<1> SUFFICES ASSUME "crash" \notin Faults, DriveInv, [Next]_vars
             PROVE  Driven'
  BY TypeNext DEF DriveInv
<1>1. CASE \E t \in Task : Request(t) \/ Step(t)
  BY <1>1, DrivenStep DEF DriveInv
<1>2. CASE Crash
  BY <1>2 DEF Crash
<1>3. CASE UNCHANGED vars
  BY <1>3 DEF vars, DriveInv, Driven, Drives, Running
<1> QED
  BY <1>1, <1>2, <1>3 DEF Next, AtRest

\* While the process lives, no interleaving of any number of operators and
\* coroutines, and no other fault, leaves a migration that nobody works on in
\* PLANNED, in a state of the forward path or in ROLLING_BACK.
THEOREM NothingLeftInFlight ==
  "crash" \notin Faults => (Spec => []NeverLeftInFlight)
<1> SUFFICES ASSUME "crash" \notin Faults PROVE Spec => []NeverLeftInFlight
  OBVIOUS
<1>1. DriveInv => NeverLeftInFlight
  BY DEF DriveInv, Driven, Drives, Running, NeverLeftInFlight, AllIdle, TypeOK,
     RowState, MigrationState
<1>2. DriveInv /\ [Next]_vars => DriveInv'
  BY DriveNext
<1> QED
  BY <1>1, <1>2, DriveInit, PTL DEF Spec

=============================================================================
