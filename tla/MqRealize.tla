------------------------------- MODULE MqRealize -------------------------------
(***************************************************************************)
(* Realising a topology on its queue managers (provisioning/mq_realize.py):*)
(* a request creates an MqRealizeRun row and a background coroutine, which *)
(* walks the queue managers and sends one MQSC command at a time, each     *)
(* followed by its audit entry and its progress event, every one of them a *)
(* transaction of its own.  Direction APPLY defines, TEARDOWN deletes.     *)
(*                                                                         *)
(* Two runs of one topology may overlap: nothing refuses the second.  The  *)
(* environment destroys and re-creates pods, deletes the topology, kills   *)
(* the process, refuses a command, loses its answer, or makes a database   *)
(* write raise (SQLite's write lock held past busy_timeout).               *)
(***************************************************************************)
EXTENDS MqscDerivation, FiniteSetsExt, TLC

CONSTANTS
  Runs,         \* bound: how many runs are started, 1 to Runs in their order
  QmOrder,      \* the topology's queue managers in the order of their rows
  Topologies,   \* the lists of flows a topology may have
  MaxTroubles,  \* bound: commands refused or unanswered, writes that raise,
                \* losses of pods, crashes and runs that overlap another
  Nobody

VARIABLES
  flows,        \* Topology.spec["flows"]
  plans,        \* what each run derives from them, for each direction
  deletion,     \* of the topology's rows: "none", "checked" or "done"
  pod,          \* QueueManager.pod_name while it is_ready and that pod exists
  objects,      \* the MQ objects that exist on each queue manager
  row,          \* MqRealizeRun
  coroutine,    \* _execute_realize_run
  logged,       \* audit entries of a run, by classification
  env           \* what the environment did, its bound and its history

vars == << coroutine, row, objects, logged, env, pod, deletion, flows, plans >>

NoPod == 0

Run == 1 .. Runs
Qm == Range(QmOrder)

\* start_realize_run refuses a topology without queue managers.  No channel
\* has the name of the dead-letter queue: IBM MQ gives channels 20 characters.
ASSUME TopologyAssumption ==
  /\ QmOrder \in Seq(Qm) /\ QmOrder # << >>
  /\ \A topology \in Topologies :
       /\ topology \in Seq(FlowSpec(Qm))
       /\ \A i \in DOMAIN topology : topology[i].channel # DefaultDlq

Direction == {"APPLY", "TEARDOWN"}
Finished == {"COMPLETED", "PARTIALLY_COMPLETED", "FAILED"}

-----------------------------------------------------------------------------
(* A queue manager, as runmqsc shows it.  Queues of every kind share one    *)
(* name space and channels another; a transmission queue is a local queue  *)
(* with a usage.                                                           *)

MqType(kind) == IF kind = "QXMIT" THEN "QLOCAL" ELSE kind
NameSpace(kind) ==
  IF kind \in {"CHANNEL_SDR", "CHANNEL_RCVR"} THEN "channel" ELSE "queue"

Named(qm, c) ==
  {o \in objects[qm] : o.name = c.name /\ NameSpace(o.kind) = NameSpace(c.kind)}

Object(c, running) ==
  [kind |-> c.kind, name |-> c.name, refers |-> c.refers, running |-> running]

\* MqscResult of one command: the exit code and the AMQ messages read.
Done == [exit |-> 0, messages |-> << "AMQ8006I" >>]
Refused(code) == [exit |-> 10, messages |-> << code >>]
Unanswered == [exit |-> -1, messages |-> << >>]

\* What a reachable queue manager does with a command: the objects it has
\* then, and its answer.
Effects(qm, c) ==
  LET named == Named(qm, c)
      other == {o \in named : MqType(o.kind) # MqType(c.kind)}
      Becomes(set, reply) == [objects |-> (objects[qm] \ named) \cup set, reply |-> reply]
      Stays(reply) == [objects |-> objects[qm], reply |-> reply]
  IN  CASE c.verb \in {"ALTER", "REFRESH"} -> {Stays(Done)}
        [] c.verb = "DEFINE" /\ other # {} ->
             {Stays(Refused("AMQ8013E")), Stays(Refused("AMQ8138E"))}
        [] c.verb = "DEFINE" /\ other = {} ->
             {Becomes({Object(c, \E o \in named : o.running)}, Done)}
        [] c.verb \in {"START", "STOP", "DELETE"} /\ named = {} ->
             {Stays(Refused("AMQ8147E"))}
        [] c.verb \in {"START", "STOP", "DELETE"} /\ other # {} ->
             {Stays(Refused("AMQ8138E"))}
        [] c.verb = "START" /\ other = {} /\ named # {} ->
             IF \E o \in named : o.running
             THEN {Stays(Refused("AMQ9508E"))}
             ELSE {Becomes({[o EXCEPT !.running = TRUE] : o \in named}, Done)}
        [] c.verb = "STOP" /\ other = {} /\ named # {} ->
             IF \E o \in named : o.running
             THEN {Becomes({[o EXCEPT !.running = FALSE] : o \in named}, Done)}
             ELSE {Stays(Refused("AMQ9531E"))}
        [] c.verb = "DELETE" /\ other = {} /\ named # {} ->
             IF \E o \in named : o.running
             THEN {Stays(Refused("AMQ8149E"))}
             ELSE {Becomes({}, Done)}

\* A command whose answer is lost, or that is refused, whatever it is; a START
\* that finds the channel program ending.
Faulty(qm, c) ==
  {[objects |-> e.objects, reply |-> Unanswered] : e \in Effects(qm, c)}
  \cup {[objects |-> objects[qm], reply |-> Unanswered],
        [objects |-> objects[qm], reply |-> Refused("AMQ8101E")]}
  \cup {[objects |-> objects[qm], reply |-> Refused("AMQ9509E")] : v \in {c.verb} \cap {"START"}}

-----------------------------------------------------------------------------
(* Classification of a result *)

Severity == [I |-> {"AMQ8006I"},
             E |-> {"AMQ8013E", "AMQ8101E", "AMQ8138E", "AMQ8147E", "AMQ8149E",
                    "AMQ9508E", "AMQ9509E", "AMQ9531E"}]

\* parse_runmqsc_output for one command: the first of the most severe
\* messages that follow its echo, none if there is no message.
FirstAmq(reply) ==
  LET at(codes) == {i \in DOMAIN reply.messages : reply.messages[i] \in codes}
  IN  IF at(Severity.E) # {} THEN reply.messages[Min(at(Severity.E))]
      ELSE IF at(Severity.I) # {} THEN reply.messages[Min(at(Severity.I))]
      ELSE NoName

AllSucceeded(reply) == reply.exit = 0 /\ FirstAmq(reply) \notin Severity.E

\* Mutation: a channel that is running already is a failure.
IdempotentUnlessRunning ==
  [APPLY    |-> {"AMQ8350E", "AMQ8013E", "AMQ8348E"},
   TEARDOWN |-> {"AMQ8147E", "AMQ8016E", "AMQ8260E", "AMQ9531E"}]

Idempotent == [APPLY    |-> {"AMQ8350E", "AMQ8013E", "AMQ8348E", "AMQ9508E", "AMQ9509E"},
               TEARDOWN |-> {"AMQ8147E", "AMQ8016E", "AMQ8260E", "AMQ9531E"}]

\* No message is not a code.
ASSUME NoneAssumption ==
  /\ \A direction \in DOMAIN Idempotent : NoName \notin Idempotent[direction]
  /\ Nobody \notin 1 .. Runs

_is_idempotent_success(code, direction) == code \in Idempotent[direction]

Classify(reply, direction) ==
  IF AllSucceeded(reply) THEN "APPLIED"
  ELSE IF _is_idempotent_success(FirstAmq(reply), direction) THEN "SKIPPED_IDEMPOTENT"
  ELSE "FAILED"

-----------------------------------------------------------------------------
(* State *)

Tally(applied, skipped, failed) ==
  [APPLIED |-> applied, SKIPPED_IDEMPOTENT |-> skipped, FAILED |-> failed]
NoTally == Tally(0, 0, 0)
Plus(a, b) == [c \in DOMAIN a |-> a[c] + b[c]]
One(class) == [NoTally EXCEPT ![class] = 1]

NoRow == [state |-> "none", direction |-> "APPLY", completed |-> 0,
          failed |-> 0, commands |-> NoTally]
NoCoroutine == [pc |-> "none", dry |-> FALSE, snapshot |-> [q \in Qm |-> NoPod], left |-> << >>,
                plan |-> << >>, class |-> "APPLIED", qm |-> NoTally,
                completed |-> 0, failed |-> 0, commands |-> NoTally]

\* derive_mqsc_for_qm, and its inverse for a TEARDOWN.
PlansOf(topology) ==
  LET derived == [q \in Qm |-> derive_mqsc_for_qm(topology, q, DefaultDlq)]
  IN  [APPLY |-> derived, TEARDOWN |-> [q \in Qm |-> inverse_plan(derived[q])]]

Init ==
  /\ flows \in Topologies
  /\ plans = PlansOf(flows)
  /\ deletion = "none"
  /\ pod = [q \in Qm |-> 1]
  /\ objects = [q \in Qm |-> {}]
  /\ row = [r \in Run |-> NoRow]
  /\ coroutine = [r \in Run |-> NoCoroutine]
  /\ logged = [r \in Run |-> NoTally]
  /\ env = [troubles |-> 0, orderly |-> TRUE, faulted |-> {}, last |-> Nobody,
            made |-> 1, late |-> [r \in Run |-> 0]]

Active(r) == coroutine[r].pc \notin {"none", "done", "dead", "killed"}
Head_(r) == Head(coroutine[r].left)

\* One more trouble, if the bound allows it; orderly says that no command was
\* refused or lost, no pod was and no two runs overlapped.
Trouble(orderly, faulted, last) ==
  /\ env.troubles < MaxTroubles
  /\ env' = [env EXCEPT !.troubles = @ + 1, !.orderly = @ /\ orderly,
                        !.faulted = @ \cup faulted, !.last = last]

Goto(r, pc) == coroutine' = [coroutine EXCEPT ![r].pc = pc]

-----------------------------------------------------------------------------
(* start_realize_run *)

\* Refused without a topology, and APPLY while a queue manager is not ready;
\* a run that is active already is not looked for.
StartRun(r, direction, dry) ==
  /\ row[r].state = "none" /\ \A s \in 1 .. r - 1 : row[s].state # "none"
  /\ deletion # "done"
  /\ direction = "APPLY" => \A q \in Qm : pod[q] # NoPod
  /\ row' = [row EXCEPT ![r].state = "PENDING", ![r].direction = direction]
  /\ coroutine' = [coroutine EXCEPT ![r].pc = "pending", ![r].dry = dry]
  /\ IF \E s \in Run : Active(s) THEN Trouble(FALSE, {}, Nobody)
     ELSE env' = [env EXCEPT !.last = r]
  /\ UNCHANGED << flows, plans, deletion, pod, objects, logged >>

\* POST and DELETE /realize-mq-objects.
RequestRun(r) == \E direction \in Direction, dry \in BOOLEAN : StartRun(r, direction, dry)

-----------------------------------------------------------------------------
(* _execute_realize_run *)

\* The first transaction: PENDING -> RUNNING.
MoveToRunning(r) ==
  /\ coroutine[r].pc = "pending" /\ row[r].state # "gone"
  /\ row' = [row EXCEPT ![r].state = "RUNNING"]
  /\ Goto(r, "load")
  /\ UNCHANGED << flows, plans, deletion, pod, objects, logged, env >>

\* The second reads the topology and a snapshot of its queue managers, which
\* the whole run goes by.
LoadTopology(r) ==
  /\ coroutine[r].pc = "load" /\ deletion # "done"
  /\ coroutine' = [coroutine EXCEPT ![r].pc = "derive", ![r].left = QmOrder,
                                    ![r].snapshot = pod]
  /\ UNCHANGED << flows, plans, deletion, pod, objects, row, logged, env >>

\* The topology is gone, and its runs with it: _finalize_run finds no row.
TopologyDisappeared(r) ==
  /\ coroutine[r].pc = "load" /\ deletion = "done"
  /\ Goto(r, "dead")
  /\ UNCHANGED << flows, plans, deletion, pod, objects, row, logged, env >>

PlanOf(r, qm) == plans[row[r].direction][qm]

\* The counters of the run after one queue manager, and the next one.
NextQm(r, outcome) ==
  LET co == coroutine[r]
  IN  coroutine' = [coroutine EXCEPT ![r] =
        [co EXCEPT !.pc = IF Len(co.left) = 1 THEN "final" ELSE "derive",
                   !.left = Tail(co.left),
                   !.plan = << >>,
                   !.qm = NoTally,
                   !.commands = Plus(co.commands, outcome),
                   !.completed = co.completed + (IF outcome.FAILED = 0 THEN 1 ELSE 0),
                   !.failed = co.failed + (IF outcome.FAILED = 0 THEN 0 ELSE 1)]]

CommandOrClose(plan) == IF plan = << >> THEN "close" ELSE "command"

\* _realize_one_qm: the plan, its PLAN_DERIVED event, and the two checks.
DerivePlan(r) ==
  LET qm == Head_(r) plan == PlanOf(r, qm)
  IN  /\ coroutine[r].pc = "derive" /\ row[r].state # "gone"
      /\ coroutine' = [coroutine EXCEPT
           ![r].plan = plan,
           ![r].pc = IF coroutine[r].snapshot[qm] = NoPod THEN "skip"
                     ELSE IF coroutine[r].dry THEN "dry" ELSE CommandOrClose(plan)]
      /\ UNCHANGED << flows, plans, deletion, pod, objects, row, logged, env >>

\* A queue manager that was not ready fails an APPLY and is taken for torn
\* down by a TEARDOWN.
SkipQm(r) ==
  /\ coroutine[r].pc = "skip" /\ row[r].state # "gone"
  /\ NextQm(r, IF row[r].direction = "APPLY" THEN Tally(0, 0, 1)
               ELSE Tally(0, Len(coroutine[r].plan), 0))
  /\ UNCHANGED << flows, plans, deletion, pod, objects, row, logged, env >>

\* One DRY_RUN event per command; the command is not sent.
DryRun(r) ==
  /\ coroutine[r].pc = "dry" /\ row[r].state # "gone"
  /\ NextQm(r, Tally(0, Len(coroutine[r].plan), 0))
  /\ UNCHANGED << flows, plans, deletion, pod, objects, row, logged, env >>

\* The pod of the snapshot is still the queue manager's.
Reaches(r, qm) == coroutine[r].snapshot[qm] = pod[qm]

\* _apply_one_command: the command and its classification.  It goes to the
\* pod of the snapshot, whatever has become of the row or of the pod.
ApplyCommand(r) ==
  LET qm == Head_(r) c == Head(coroutine[r].plan)
      late == IF row[r].state = "gone" THEN env.late[r] + 1 ELSE env.late[r]
      Answer(e) ==
        /\ objects' = [objects EXCEPT ![qm] = e.objects]
        /\ coroutine' = [coroutine EXCEPT ![r].pc = "audit",
                           ![r].class = Classify(e.reply, row[r].direction)]
  IN  /\ coroutine[r].pc = "command"
      /\ \E e \in IF Reaches(r, qm) THEN Effects(qm, c)
                 ELSE {[objects |-> objects[qm], reply |-> Unanswered]} : Answer(e)
      /\ env' = [env EXCEPT !.late[r] = late]
      /\ UNCHANGED << flows, plans, deletion, pod, row, logged >>

\* The same command, refused or its answer lost.
CommandMiscarries(r) ==
  LET qm == Head_(r)
  IN  /\ coroutine[r].pc = "command" /\ Reaches(r, qm) /\ row[r].state # "gone"
      /\ Trouble(FALSE, {r}, env.last)
      /\ \E e \in Faulty(qm, Head(coroutine[r].plan)) :
           /\ objects' = [objects EXCEPT ![qm] = e.objects]
           /\ coroutine' = [coroutine EXCEPT ![r].pc = "audit",
                              ![r].class = Classify(e.reply, row[r].direction)]
      /\ UNCHANGED << flows, plans, deletion, pod, row, logged >>

\* _write_command_audit, a transaction of its own.
WriteCommandAudit(r) ==
  /\ coroutine[r].pc = "audit"
  /\ logged' = [logged EXCEPT ![r] = Plus(@, One(coroutine[r].class))]
  /\ Goto(r, "event")
  /\ UNCHANGED << flows, plans, deletion, pod, objects, row, env >>

\* The command's progress event; the next command, failed or not.
RecordCommand(r) ==
  /\ coroutine[r].pc = "event" /\ row[r].state # "gone"
  /\ coroutine' = [coroutine EXCEPT
       ![r].qm = Plus(@, One(coroutine[r].class)),
       ![r].plan = Tail(@),
       ![r].pc = CommandOrClose(Tail(coroutine[r].plan))]
  /\ UNCHANGED << flows, plans, deletion, pod, objects, row, logged, env >>

\* Mutation: a queue manager counts as failed in any case.
CloseQmCountsTwice(r) ==
  LET tally == coroutine[r].qm
  IN  /\ coroutine[r].pc = "close" /\ row[r].state # "gone"
      /\ row' = [row EXCEPT ![r].commands = Plus(@, tally),
                   ![r].completed = @ + (IF tally.FAILED = 0 THEN 1 ELSE 0),
                   ![r].failed = @ + 1]
      /\ NextQm(r, tally)
      /\ UNCHANGED << flows, plans, deletion, pod, objects, logged, env >>

\* The COMPLETE event, and the counters that a polling client sees.
CloseQm(r) ==
  LET tally == coroutine[r].qm
  IN  /\ coroutine[r].pc = "close" /\ row[r].state # "gone"
      /\ row' = [row EXCEPT ![r].commands = Plus(@, tally),
                   ![r].completed = @ + (IF tally.FAILED = 0 THEN 1 ELSE 0),
                   ![r].failed = @ + (IF tally.FAILED = 0 THEN 0 ELSE 1)]
      /\ NextQm(r, tally)
      /\ UNCHANGED << flows, plans, deletion, pod, objects, logged, env >>

\* The handler around one queue manager: an EXCEPTION event, and the next
\* one.  What this one's commands did is not counted.
LogException(r) ==
  LET co == coroutine[r]
  IN  /\ co.pc = "handler" /\ row[r].state # "gone"
      /\ coroutine' = [coroutine EXCEPT
           ![r].pc = IF Len(co.left) = 1 THEN "final" ELSE "derive",
           ![r].left = Tail(co.left), ![r].plan = << >>, ![r].qm = NoTally,
           ![r].failed = co.failed + 1]
      /\ UNCHANGED << flows, plans, deletion, pod, objects, row, logged, env >>

\* Mutation: one queue manager done is enough.
VerdictOfOne(completed, failed, commands) ==
  IF completed > 0 THEN "COMPLETED" ELSE "FAILED"

Verdict(completed, failed, commands) ==
  IF failed = 0 /\ commands.FAILED = 0 THEN "COMPLETED"
  ELSE IF completed = 0 THEN "FAILED"
  ELSE "PARTIALLY_COMPLETED"

\* Mutation: a run with a failed queue manager is never closed.
FinalizeCompletedRun(r) ==
  LET co == coroutine[r]
  IN  /\ co.pc = "final" /\ row[r].state # "gone" /\ co.failed = 0
      /\ row' = [row EXCEPT ![r].completed = co.completed, ![r].failed = co.failed,
                   ![r].commands = co.commands,
                   ![r].state = Verdict(co.completed, co.failed, co.commands)]
      /\ Goto(r, "done")
      /\ UNCHANGED << flows, plans, deletion, pod, objects, logged, env >>

FinalizeRun(r) ==
  LET co == coroutine[r]
  IN  /\ co.pc = "final" /\ row[r].state # "gone"
      /\ row' = [row EXCEPT ![r].completed = co.completed, ![r].failed = co.failed,
                   ![r].commands = co.commands,
                   ![r].state = Verdict(co.completed, co.failed, co.commands)]
      /\ Goto(r, "done")
      /\ UNCHANGED << flows, plans, deletion, pod, objects, logged, env >>

-----------------------------------------------------------------------------
(* A write that raises: the run's row is gone, or the database is locked.   *)
(* Inside the loop the handler catches it; anywhere else the coroutine ends.*)

Guarded == {"derive", "skip", "dry", "event", "close"}

\* Mutation: a command whose bookkeeping raises is sent again.
AfterRaiseRetry(pc) ==
  IF pc \in {"audit", "event"} THEN "command"
  ELSE IF pc \in Guarded THEN "handler" ELSE "dead"

AfterRaise(pc) == IF pc \in Guarded \cup {"audit"} THEN "handler" ELSE "dead"

WriteFindsNoRow(r) ==
  /\ coroutine[r].pc \in Guarded \cup {"pending", "handler", "final"}
  /\ row[r].state = "gone"
  /\ Goto(r, AfterRaise(coroutine[r].pc))
  /\ UNCHANGED << flows, plans, deletion, pod, objects, row, logged, env >>

WriteIsLocked(r) ==
  /\ coroutine[r].pc \in Guarded \cup {"audit", "pending", "handler", "final"}
  /\ Trouble(TRUE, {r}, env.last)
  /\ Goto(r, AfterRaise(coroutine[r].pc))
  /\ UNCHANGED << flows, plans, deletion, pod, objects, row, logged >>

-----------------------------------------------------------------------------
(* The environment *)

\* K8s teardown, of all queue managers or of as many as it reached: pods,
\* their volumes and the objects on them.
LosePods(lost) ==
  /\ \A q \in lost : pod[q] # NoPod
  /\ pod' = [q \in Qm |-> IF q \in lost THEN NoPod ELSE pod[q]]
  /\ objects' = [q \in Qm |-> IF q \in lost THEN {} ELSE objects[q]]
  /\ Trouble(FALSE, {}, Nobody)
  /\ UNCHANGED << flows, plans, deletion, row, coroutine, logged >>

\* A provisioning run has made the queue managers ready again, in pods with
\* new names.
GainPods ==
  /\ deletion # "done" /\ \E q \in Qm : pod[q] = NoPod
  /\ pod' = [q \in Qm |-> IF pod[q] = NoPod THEN env.made + 1 ELSE pod[q]]
  /\ env' = [env EXCEPT !.made = @ + 1, !.last = Nobody]
  /\ UNCHANGED << flows, plans, deletion, objects, row, coroutine, logged >>

\* delete_topology: refused while a queue manager is ready.
CheckDelete ==
  /\ deletion = "none" /\ \A q \in Qm : pod[q] = NoPod
  /\ deletion' = "checked"
  /\ UNCHANGED << flows, plans, pod, objects, row, coroutine, logged, env >>

\* Its rows go, those of its runs with them.  Nothing looks whether a run is
\* active or a queue manager is ready by now.
DeleteTopology ==
  /\ deletion = "checked"
  /\ deletion' = "done"
  /\ env' = [env EXCEPT !.last = Nobody]
  /\ row' = [r \in Run |-> IF row[r].state = "none" THEN row[r]
                           ELSE [row[r] EXCEPT !.state = "gone"]]
  /\ UNCHANGED << flows, plans, pod, objects, coroutine, logged >>

Crash ==
  /\ \E r \in Run : Active(r)
  /\ coroutine' = [r \in Run |-> IF Active(r) THEN [coroutine[r] EXCEPT !.pc = "killed"]
                                 ELSE coroutine[r]]
  /\ deletion' = IF deletion = "checked" THEN "none" ELSE deletion
  /\ Trouble(TRUE, {}, env.last)
  /\ UNCHANGED << flows, plans, pod, objects, row, logged >>

-----------------------------------------------------------------------------
Step(r) ==
  \/ MoveToRunning(r) \/ LoadTopology(r) \/ TopologyDisappeared(r)
  \/ DerivePlan(r) \/ SkipQm(r) \/ DryRun(r)
  \/ ApplyCommand(r) \/ WriteCommandAudit(r) \/ RecordCommand(r)
  \/ CloseQm(r) \/ LogException(r) \/ FinalizeRun(r)
  \/ WriteFindsNoRow(r)

Next ==
  \/ \E r \in Run :
       \/ Step(r)
       \/ CommandMiscarries(r) \/ WriteIsLocked(r)
       \/ RequestRun(r)
  \/ \E lost \in (SUBSET Qm) \ {{}} : LosePods(lost)
  \/ GainPods
  \/ CheckDelete \/ DeleteTopology
  \/ Crash

Spec == Init /\ [][Next]_vars

\* The event loop runs every coroutine that can, and every subprocess ends
\* within its timeout.
FairSpec == Spec /\ \A r \in Run : WF_vars(Step(r))
=============================================================================
