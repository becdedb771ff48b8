# Verification of the BCL migration backend

The repository's backend (`bcl/src/bcl`, Python: FastAPI, asyncio, SQLite through SQLAlchemy) moves
applications from a shared IBM MQ topology to dedicated queue managers. This directory holds TLA+
specifications of it, the TLC configurations that check them on small instances, and proofs for TLAPS.
All paths below are relative to `bcl/src/bcl`.

## 1. Inventory

### 1.1 Components, their state and their operations

| Component | State | Operations |
|---|---|---|
| Migration state machine (`migration/states.py`) | none; the edges between the 13 states | `is_valid_transition`, `next_forward`, `is_terminal` |
| Migration engine (`migration/engine.py`) | the `Migration` row (state, plan blob), its `MigrationStep` rows, one background coroutine per run | `start_migration_run`, `resume_migration` (approve), `abort_at_gate`, `re_plan_at_gate` (revise), the forward path's seven handlers, the narrator |
| Rollback engine (`rollback/engine.py`) | the same rows | `execute_rollback`, `start_manual_rollback` |
| Choreography (`migration/choreography.py`) | none | `build_rewire_plan`: the ordered commands with their inverses |
| Drain probes (`migration/drain.py`) | consecutive zero polls, a deadline | `probe_queue`, `wait_for_drain` |
| Audit log (`audit/`, `api/audit.py`, `db/session.py`) | the Lamport clock (memory and bootstrap), `AuditLog` rows, SQLite's one write lock | `tick`, `write_audit_entry`, commit, paging |
| Provisioning engine (`provisioning/engine.py`, `k8s_client.py`, `api/provisioning.py`) | `ProvisionRun` rows, `QueueManager.is_ready` and `pod_name`, the resources on the cluster | start run, provision one QM, teardown |
| MQ realisation (`provisioning/mq_realize.py`, `mqsc_derivation.py`, `mq_client.py`) | `MqRealizeRun` rows, objects on the queue managers | apply, teardown, finalise |
| Topology registry (`api/topology.py`) | `Topology` rows | upload, delete with or without cascade |
| Message flow test (`api/message_flow.py`) | one long session | put, poll, verdict |
| Go/no-go score, blast radius (`analysis/`) | none | pure functions |
| Agents and LLM client (`agents/`, `llm/`) | a cached failure flag | advisory calls with a deterministic fallback |
| Web UI (`ui/`) | the busy flag of the gate's buttons | the five operator requests |

### 1.2 How they interact

An operator's request is an HTTP handler: a coroutine on the one event loop. `start`, `approve` and
`rollback` answer early and leave a background task; `abort` and `revise` do all their work before
they answer. All coroutines share only the database (each session reads, awaits, writes and commits on its
own; rows are not locked, and `Migration.version` is incremented but never compared) and the queue
managers, reached with `oc exec runmqsc`, whose answers the engine judges by AMQ code. Every state
change writes an audit entry in its own session.

### 1.3 What is hard

* **Interleaving.** Every `await` lets other coroutines run. A check in one session is acted on in a
  later one (approve, abort, revise), and a state is read and written back several awaits later
  (`_transition`). Two operators, or one operator and the background task the previous request
  left, meet here.
* **Partial failure.** A command may be refused, may have taken effect although its answer was
  lost, and the cutover is a batch of two commands of which the first alone may take effect.
* **Crash.** Nothing resumes at start-up. What the database says then is all there is.
* **Ordering.** Effects are undone in reverse step order; Lamport order, flush order and
  commit order of audit entries differ.
* **Recycling.** A settled row is reset for another attempt: coroutines of the old attempt may
  still be running, and what its rollback could not undo is still on the queue managers.

`PROJECT.json` lists each hazard at its line, with the properties that cover it.

### 1.4 What makes each component correct

* State machine and engine: nothing destructive without an explicit approval; the migration always
  settles or waits at the gate; COMPLETED means completely rewired; decisions are on the audit log.
* Rollback: ROLLED_BACK means that nothing of the attempt is left; reverse order; can be repeated.
* Audit: clock values are unique and grow with causality; a page cursor skips nothing that was committed.
* Provisioning and realisation: a run ends in a verdict that agrees with its per-QM results;
  readiness is never claimed for a QM that is being torn down; what COMPLETED says of the objects is so;
  the dead-letter queue is never taken away.
* Drain: declared only after the required consecutive zero polls.
* Message flow test: a success means that the payload arrived; the log tells all of a test or nothing, and all
  that was answered.

## 2. The modules

| Module | Models |
|---|---|
| `MigrationStates` | `migration/states.py`: states, edges |
| `MigrationEngine` | `migration/engine.py`, `rollback/engine.py`: one `Migration` row and every coroutine on it |
| `MigrationEngineProperties` | type invariant, properties, inductive invariants, statements of the docs |
| `MigrationLifecycle` | the abstract specification: phases, the decision, what is in force on the queue managers |
| `MigrationEngineRefinement` | the refinement mapping |
| `MigrationEngineProofs` | the theorems for any operators |
| `MigrationQuietProofs` | the theorems for operators who wait until nothing runs, and the refinement |
| `MCMigrationEngine` | instances for TLC: plans, symmetry |
| `Provisioning` | `provisioning/engine.py`, `api/provisioning.py`, `api/topology.py`: one topology, its runs, teardowns and deletion |
| `ProvisioningProperties` | type invariant, properties, inductive invariant, statements of the docs |
| `ProvisioningProofs` | the theorems |
| `MCProvisioning` | instances for TLC: manifests, symmetry |
| `MqscDerivation` | `provisioning/mqsc_derivation.py`: the commands for one queue manager, and their inverse, as operators |
| `MqRealize` | `provisioning/mq_realize.py`, the judging half of `mq_client.py`: the runs of one topology over the objects of its queue managers |
| `MqRealizeProperties`, `MqRealizeProofs` | properties; the theorems about verdicts and deleted runs |
| `MqRealizeObjectsProofs` | the theorems about the objects on the queue managers |
| `MCMqRealize` | instance for TLC: the topologies |
| `AuditLog` | `audit/`, `db/session.py`, `api/audit.py`: clock, sessions, write lock, restart, paging |
| `AuditLogProperties`, `AuditLogProofs` | properties; theorems |
| `Ranks`, `RankProofs` | the numbers of a finite set in order (`sorted`, `ORDER BY`), for `AuditLog` and `MqscDerivation`; lemmas |
| `Drain` | `migration/drain.py`: the wait for a zero window |
| `MessageFlow` | `api/message_flow.py`, on top of `AuditLog`: the end-to-end test of a flow |
| `MessageFlowSystem` | the composition: tests, other writers, page readers and a drain wait on one queue and one log; properties |
| `MessageFlowSystemProofs` | the refinement of `AuditLog` and what follows from it |
| `MCMessageFlow` | instance for TLC: payloads, topologies |

### 2.1 MigrationEngine

**State.** `row` is the `Migration` row: its state and, of the plan blob, the fields more than one
writer touches (approval, revision history, narrative). `steps` are the `MigrationStep` rows by
`step_index`. `mq` says of each command of the plan whether its effect is absent ("before"), half
there ("partial", the QLOCAL deleted and no QREMOTE defined) or in force ("after"). `audit` keeps
the entries of the operators' decisions, `attempt` and `planned` the correlation ids (an attempt's,
and the one `_correlation_id_for` finds), `found` is history: `mq` when the attempt began. `tasks`
are the coroutines.

**Steps.** A task is one coroutine, from the request to the end of the background task it turns
into. A step runs from one suspension point to the next wherever another coroutine could tell the
difference: a session that reads the row and writes it later is two steps (`TransitionRead`,
`TransitionWrite`; `Approve` ... `ReadPlan`, `SignApproval`; `ReviseAtGate`, `InstallRevision`;
`ReadForNarrative`, `FileNarrative`), a command is one step between the commit of its pending row
(`InsertStep`) and of its verdict (`RecordStep`). Sessions that overwrite without looking
(`HardAbort`, `FinishRollback`, `GiveUpRollback`) are one step. An inverse command and its audit
entry are one step: no other coroutine reads that entry.

**Left out.** `version` (never read), `started_at`/`completed_at`, the content of plans, risk
briefs and narratives, entries other than the decisions', pods and names. The probes of the validation and drain
handlers are nondeterministic verdicts, restricted by what is known of the transmission queue (a wait for one that is gone may
still time out, if no probe is answered). A
database error is not a fault of the model.

**Faults.** `refused`, `batch_cut`, `timeout`, `probe`, `context`, `crash`: each an external
failure the code handles or documents. Each instance names those it allows.

**Operators.** `quiescent`: requests only while nothing runs for this migration. `single`: one
operator whose UI disables its buttons while a request is open
(`ui/src/components/ApprovalGate.tsx`), but not while a background task runs; it idealises, since a second tab or the
API is not bound by the buttons, which is what `multi` is for. `multi`: any number.

### 2.2 Provisioning

**State.** `topology` is the `Topology` row, `rows` the `QueueManager` rows (`is_ready`, and whether
`pod_name` is set), `run` the `ProvisionRun` rows, `cluster` what exists on the cluster of each queue
manager's four resources. `task` are the runs' coroutines with their locals (the queue manager and the
manifest they are at, the counters), `tear` the teardown requests with the rows they loaded and whether
their transaction is open, `delete` a deletion that has made its check. `overlapped` is history: the runs
that were alive while a teardown was.

**Steps.** A run commits after every step, so each action is one external call or one committed session.
A teardown is one session: its first audit entry is flushed, not committed, and from there to its end
it holds SQLite's only write lock (`Unlocked`). While it does, another session's write either waits
(the action is not enabled) or raises after `busy_timeout` (`WriteFails`, `TeardownRaises`,
`DeleteRaises`). Where a raise is caught, and where it ends the coroutine, follows `_execute_run`. The
ORM writes only attributes that differ from what the session loaded, which is what `CommitTeardown` does
with `seen`.

**Left out.** Progress events and their read-modify-write (one writer per run), rendered YAML and
passwords, `service_name`, `deployed_at`. The event that announces a manifest and the commit that
records the previous one are one step; so are the events of a dry run. A topology lives once: after its
deletion the name may be used again, with new rows. `cascade=true` with a ready queue manager changes nothing
(section 6); a deletion refused because a migration still refers to the topology is not modelled.

**Faults.** `k8s`: an `oc` call fails or times out, with or without its effect. `crash`: the process
dies, and with it every coroutine and open transaction.

### 2.3 MqscDerivation and MqRealize

`MqscDerivation` translates `derive_mqsc_for_qm` and `inverse_plan` as operators over a list of flows: which
commands, in which order, about which objects, and what each object refers to (a QREMOTE to its
transmission queue and remote queue, a transmission queue to the channel its trigger starts, a sender to its
transmission queue and connection name). First binding wins, conflicts are in `Warned`. MQSC text is data.
Each section of a plan is an operator of its own, over the sorted names of what the section defines. A flow is what
`FlowSpec` of `models/api.py` lets through: Local if and only if it stays on one queue manager, with a transmission
queue and a channel if it does not. No channel has the name of the dead-letter queue (`TopologyAssumption`),
which is longer than a channel name of IBM MQ may be. That queue is a local queue of every queue manager:
a transmission queue or a remote queue of its name is a clash (`Clashing`).

**State.** `flows` and `plans` are fixed at the start: `Topology.spec` never changes. `deletion` says
whether the topology's rows are there, and whether a deletion has made its check. `pod` is the pod of each ready queue
manager, by a number that no later pod has again; `objects` is what is defined on each and whether a channel runs. `row` are the `MqRealizeRun` rows, `coroutine` the background
tasks with their locals (the snapshot of pods, the queue managers left, the plan left, the counters),
`logged` the audit entries of each run by classification. `env` holds the bound on faults and the
history the properties refer to.

**Steps.** One command is four: the `oc exec` (`ApplyCommand`), its audit entry
(`WriteCommandAudit`), its progress event (`RecordCommand`), each a transaction of its own. Readiness and pod names
are read once, at the start of the run (`LoadTopology`): a command for a pod that has been replaced since reaches
nothing (`Reaches`). A deletion is two steps, its check and its write; the environment may act in between. A write that raises goes where the code's `try` sends it
(`AfterRaise`): to the handler of the loop inside it, to the end of the coroutine anywhere else, the
handler's own write included.

**The queue manager** (`Effects`) is external: what IBM MQ does and answers for a command, given the objects
that are there, with the codes `mq_realize.py` and its tests name. A name taken by an object of another
type answers AMQ8013 or AMQ8138: both are seen, and the first is one that an APPLY tolerates.

**Environment.** Pods are lost, with their objects, and provisioned again; the topology is deleted once
nothing is ready; the process dies; a command is refused or its answer lost, with or without its effect; a
database write raises; a run is requested while another is active, which nothing refuses.

### 2.4 AuditLog, MessageFlow, Drain and their composition

`AuditLog` has one action per step of `write_audit_entry` and of its session: the stamp is drawn
(`Tick`), the row flushed (`Flush`, which takes SQLite's write lock, or `FlushFails` after
`busy_timeout`), and made visible by `Commit` or lost by `Rollback`. `Restart` drops what is not committed
and reads the clock back. `walk` is one client that follows `next_cursor`.

`MessageFlow` is a request of `test-message`: `Lookup`, put, poll, get, and after each of the three the two
steps of its audit entry; the first flush takes the write lock and `CommitSteps` gives it back. The answer is a step
of its own: a process killed before it leaves a log that tells of a test nobody was answered. A client that then
asks again is a test of its own; `Retry` uses a request once more only if the log tells nothing of it (a bound). The two queues
and the channel between them are shared by all tests. Polling is one step: it sees a message (anyone's), or
gives up, for which the deadline needs no reason. `amqsget` takes messages in order until one has the
payload; its process may outlive its client and swallow more (`lingers`). Its output is read with a blocking
`readline`, so that a stalled `oc exec` holds the request for good (`AmqsGetHangs`).

`Drain` is `wait_for_drain`, by its readings. `MessageFlowSystem` lets it read the queue that the tests use:
`Readings` are those that `probe_queue` may return then, one of them an MQSC error at any time.

**Left out.** The diagnosis in the answer (which transmission queue a message is stuck in), the filters of
the audit list, `predict_drain_time`, the truncation of payloads.

## 3. The runs

| Run | Instance | Shows |
|---|---|---|
| `EngineQuiescent` | 4 requests, the full five-command plan, commands refused or cut in half, failing probes and lookups | the engine implements the lifecycle; ROLLED_BACK leaves nothing; undoing in reverse order; decisions logged |
| `EngineRaces` | 3 requests of any operators interleaved freely, three-command plan, failing probes | types; the human gate; nothing is left in flight; an executing migration settles |
| `EngineCrash` | 5 requests, lost answers, cut batches, crash at any point | every effect has a step row; past the gate means approved; COMPLETED means rewired |
| `DocApproveTwice` | one operator | "refuses unless ... AWAITING_APPROVAL" does not keep two forward paths apart |
| `DocManualRollback` | at rest, no fault | a rollback before the first step rows ends in ROLLBACK_FAILED |
| `DocRetrigger` | at rest, crash | a rollback repeated over an undone cutover ends in ROLLBACK_FAILED |
| `DocTimeout` | at rest, lost answers | a failed command may have created something that ROLLED_BACK forgets |
| `Provision` | two queue managers, two runs, a teardown, a deletion, failing calls, crash | types; COMPLETED means every queue manager stands; a ready row is backed by resources |
| `ProvisionEnds` | two queue managers, all four manifests, one run, a teardown, a deletion, failing calls, crash | a run ends in a verdict |
| `DocMidRun` | one run, one teardown, no fault | "engine must not crash mid-run": a teardown's write lock makes it |
| `Realize` | two queue managers, four topologies, two runs, one trouble | a verdict agrees with objects and log; re-applying is safe; references resolve at every step; a run whose rows are deleted stops; the dead-letter queue stays; a run settles |
| `AuditFlow` | two tests, another writer, a page reader, a drain wait, three topologies, one trouble | stamps unique and causal over a restart; pages complete; all of a test is logged or nothing; a passing test has read its payload; a wait ends as its readings say; a request ends |

**Bounds.** Each task serves one request, so the number of tasks bounds the requests (3 to 5): three
suffice for start against two decisions, four for start, approve, rollback and a recycled second
attempt, five for that with a crash and a second rollback. The short plan has one command of every behaviour
(on source, on target, cutover), the full plan adds the ones between, whose order the refinement
and `UndoneInReverse` are about. There is no other bound: the state spaces of the engine are finite.
For provisioning, two queue managers make a mixed verdict and a "next one" possible, two runs race, and
one teardown overlaps either. `Provision` applies two manifests, the Deployment and one it needs: the
order of four is in `ProvisionEnds`, and no property of `Provision` tells the other kinds apart.
For realisation, two queue managers are a producer's and a consumer's side, and a "next one". Two runs (`Runs`)
overlap, or the second repeats what the first left half done. `MaxTroubles = 1` bounds what goes wrong: one
fault at any step of either run, or one overlap (which leaves no room for a fault besides); pods that come back, a
deletion and the steps of the runs themselves are free. All queue managers come back together: an APPLY
needs them all. The topologies (`AllTopologies`) are one flow each way and three conflicts that the
derivation meets in production exports. In `AuditFlow`, `MaxTroubles` bounds
faults, other writers' entries and page readers together, `MaxActive = 2` is a request beside another or
beside a reader, `MaxPolls = 3` is a window of two and a reading that breaks it. A drain wait is combined with
one test (`Alone`): a second one adds no reading that one test, its lingering process and the stale message do
not give. `PageSize = 2` with up to six entries makes three pages.

**Fairness.** `FairSpec` gives each coroutine weak fairness: the event loop runs every coroutine
that can run, and every external call has a timeout. Operators owe nothing: no request is fair.
In `Provisioning` it is weak fairness of each run, of each teardown and of a deletion's second
step, for the same reason: every `oc` call has a timeout, and so has every wait for the write lock.
In `MqRealize` it is weak fairness of each run's own steps (not of faults), every command having a timeout of its own;
in `MessageFlowSystem` of each test's. There, one subprocess has none, the stream that `amqsget` is
read from, and `RequestsEnd` excepts the request that waits for it. Nothing is asked of channels, page
readers, other writers, or of a client that might try again.

**Exceptions the properties make.** `CompletedStands` excepts runs that met a teardown, `ReadyIsBacked`
excepts overlaps and teardowns that failed, `RunEnds` the run whose topology is deleted, that met a
teardown or died: in each of these cases the code does break the property, as the hazards say.
`CompletedDelivers` and `CompletedRemoves` are about a run that nothing disturbed since it began (`Undisturbed`), whatever was
before; the first is about flows of which the derivation keeps everything (`Consistent`): not those
with a recorded warning, those whose names denote two kinds of object on one queue manager, and those whose
transmission queue has two channels, for which COMPLETED is said of a flow that delivers nothing.
`CompletedRemoves` is about queue managers that the run found ready: a TEARDOWN counts the others as completed without
sending a command. `RefsResolve` needs runs that do not overlap and commands that are not refused. `DlqStays` needs names that are not
taken twice: a transmission queue or a remote queue of the dead-letter queue's name redefines it. `RunSettles`
says that again and again no run is awaited: with a bounded number of runs, none of which is awaited again once it is
not, that each settles. It excepts the run whose own write raises where nothing catches it: in the handler of the loop, at the verdict
and before the loop, the row stays PENDING or RUNNING, as `DocMidRun` shows of the provisioning engine.
`WalkComplete` promises the entries committed when the walk began; one that commits later with a smaller stamp
than the cursor is found, with a greater one missed. `SuccessMeansDelivered` is about payloads: with the default
payload, a test takes an earlier test's message for its own.

## 4. The proofs

`MigrationEngineProofs` proves for every plan, any set of tasks, every operator discipline and every
set of faults:

* `TypeCorrect`: `Spec => []TypeOK`.
* `HumanGateHolds`: `Spec => []HumanGate`. The gate alone is not inductive: that a step row's
  writer is approved rests on `ForwardIsApproved` (whoever runs the forward path has signed an entry,
  and entries are never removed) and on `AllWellFormed` (handlers and rewiring belong to the forward path).
* `NothingLeftInFlight`: if the process is not killed, `Spec => []NeverLeftInFlight`. The
  strengthening is `Driven`: a row in a state in flight has a coroutine that will move it out of that
  state, by its own success, by failing, or by an overriding write. It survives the unprotected
  read-then-write of `_transition` because every writer of an in-flight state drives that state itself.

`MigrationQuietProofs` proves, for every plan, any set of tasks and any requests of operators who act on a
migration at rest (`Operators = "quiescent"`; with others two forward paths may be at work at once, as
`DocApproveTwice` shows, and none of this is claimed):

* Under every set of faults, kills included: `PastGateApprovedHolds`, `EffectHasRowHolds`,
  `CompletedIsRewiredHolds`. None of the three is inductive. `QuietInv` adds that one coroutine runs at a time
  (`Lone`) and what its place in the code says of the row: which state it finds, what it has read and will write
  back (`Stage`). `EffectInv` adds that the pending row of the command under way is committed and that what a
  rollback is about to undo is in the step rows; `WiredInv`, that all commands before the current one are in place,
  and all of them once the forward path has left REWIRING.
* While the process lives: `DecisionLoggedHolds`, from `DecisionInv`: a decision is on the log, or the
  coroutine that made it is about to write it. A kill between an abort's two commits leaves it without an entry.
* Where answers arrive, too (no `timeout`): `RolledBackLeavesNothingHolds`, `UndoneInReverseHolds` and
  `ImplementsLifecycleHolds`. What the attempt did is undoable, or is what the command under way just did; what a
  rollback has not undone yet is on its list, or one of its inverses failed (`UndoInv`). A lost answer or a kill
  between a command and its verdict breaks this: the step counts as failed, a failed step is not undone (`DocTimeout`).
  The order of undoing needs the greatest element of a set of step numbers, which exists because the set is
  finite. The refinement is a step simulation, one lemma per abstract step (`LifecycleSimulation`): most
  steps of the engine stutter, a commit of a state moves the phase, a command or an inverse changes what is in force.

`ProvisioningProofs` proves for any number of queue managers, any manifests, any runs and teardowns and
every set of faults:

* `ProvisioningTypeCorrect`: `Spec => []TypeOK`. That counters stay in range is not local: it needs
  `Tallied`, by which ready and failed queue managers add up to those the coroutine has passed, and the
  row never counts more ready ones than the coroutine.
* `ReadyIsBackedHolds`: `Spec => []ReadyIsBacked`, and `CompletedStandsHolds`: `Spec => CompletedStands`,
  both from `IInv`. Neither is inductive. What a run no teardown met can rely on is `Solid`: the manifests
  it has applied are there, and while nothing failed every queue manager behind it stands. It survives
  other runs' steps because they only add resources and readiness (`SolidGrows`), and teardowns because
  a run alive during one is in `overlapped`. `SeenAll` carries the other half: a teardown that overlapped
  no run has loaded every ready row it will find at its commit, so the ORM writes them all.

`AuditLogProofs` proves of `AuditSpec`, for any number of sessions:

* `StampsUnique`: `[]LamportUnique`, and `StampsAreCausal`: `CausalOrder`. Uniqueness in the log alone
  is not inductive: a stamp may be in a session's hand, flushed, or committed. `AuditInv` says that no
  stamp is in two of these places, and none is beyond the clock. A restart sets the clock back, below
  stamps that were drawn, but only those that died with their sessions: what is
  committed is at most the new value.
* `WalksAreComplete`: `[]WalkComplete`, for any page size. `RankOnto` (in `RankProofs`) says that ranks number the
  stamps of a finite set without a gap (an injection of a finite set into one of its size is onto), so that a page
  is an initial piece of what matches (`PageFacts`). The invariant of the walk is that what was there at first is
  fetched or below the cursor, and that all that is fetched is not.

`MessageFlowSystemProofs` proves of the composition, for any tests, writers, payloads and windows:

* `SystemWritesAuditLog`: `SystemSpec => AuditSpec`, a refinement: each step of a request, of another
  writer, of a page reader or a crash is a step of the log or leaves it alone. So the three theorems above
  hold of the system (`SystemStampsUnique`, `SystemStampsAreCausal`, `SystemWalksAreComplete`).
* `AnswersAreLogged`: `[]AnswerIsLogged`. `FlowInv` follows a request's entries from hand to log: the rows of its open
  transaction mirror its steps, nothing of it is in the log before its commit, and what it commits
  is the whole test, in one block that later commits and a crash before the answer leave where it is. `Shape` ties the steps of a request to the stage it is at.
* `PassedIsDelivered`: `[]SuccessMeansDelivered`. The result of a step is one flag for put, poll and get;
  only the stage, tied by `Shape` to the number of steps, says that it is the get's (`Delivered`).
* `SystemTypes`: `[]TypeOK` of the composition.
* `DrainFollowsItsHistory`: `[]DrainFollowsHistory`. The inductive part is that `zeros` is the length of the
  run of zero readings at the end of the history, and below the window while polling.

`MqRealizeProofs` proves for any number of runs and queue managers, any topologies and plans and any bound on faults:

* `VerdictsAgree`: `[]VerdictAgreesWithLog`. `RunInv` is one `Story` per run: the coroutine's counters,
  the current queue manager's and the command that is logged and not counted yet make up the log (`Counted`), exactly
  so while no queue manager failed; a row with a verdict has a coroutine that is done (`Closed`). When a queue manager
  raises, its counters are lost: the sum becomes a bound, and COMPLETED impossible.
* `DeletedRunsStop`: `[]DeletedRunStops`, from `Late`: after its first late command a run is on its way
  through audit entry, event and handler to its end, and none of these leads back to a command.

`MqRealizeObjectsProofs` proves for the same instances what a verdict says of the objects. Its lemmas come in layers:

* **Plans.** What a derived plan holds, and in which order, for every topology (`PlanOrder`, `InverseOrder`): what
  refers to a transmission queue is defined after it and deleted before it; a START comes right after its DEFINE, a
  STOP before its DELETE; an inverse deletes all but the dead-letter queue. Sections are sequences over `Sorted`
  names, so this rests on `AscendingFacts` of `RankProofs`; the first binding of a name is `LeastElement`.
* **Commands.** What one command makes of the objects of its queue manager (`Outcome`): what stands in its way
  (`Obstacle`), what it changes, and that it touches no other name.
* **A run.** `WalkInv`: the queue managers a run has left, and the commands left of the plan of the first, are the
  end pieces of what it was given, and every object was defined by a command of some plan of the topology. `Alone`
  (`LastRunIsAlone`): an undisturbed last run is the only active one and its snapshot of pods is still true.

On these rest six theorems:

* `CompletedTeardownRemoves`: `[]CompletedRemoves`, and `CompletedApplyDelivers`: `[]CompletedDelivers`. The
  invariant is `ProgressInv`: as long as nothing failed, what the run has sent is `Fulfilled`, here and on the queue
  managers it has left behind. Whatever earlier runs left half done does not matter: each command
  establishes its own effect or fails. Without clashes no later command of the plan undoes it (`Clear`). That the
  parts together deliver is the triggers' chain: a transmission queue names the channel of the first flow
  bound to it (`TriggerIsChannel`), which is the flow's own unless two channels share the queue.
* `Reapplication`: `[]ReapplicationSafe`. `Faultless` says that a run on its own, with nothing the environment does to
  it, meets no obstacle: what a command needs was `Fulfilled` by the commands before it, and what it finds already there
  answers with a code that the classification tolerates.
* `ReferencesResolve`: `[]RefsResolve`, at every point between two commands, so also where a crash leaves the objects. `RefsInv`
  says it of all queue managers; a command keeps it because the rest of its plan is ordered, in either direction.
* `DeadLetterQueueStays`: `DlqStays`, for overlapping runs, refused commands and every fault: no command of a derived plan
  or of its inverse is a DELETE of that name (`OutcomeKeepsDlq`), and where no name is taken twice none redefines it.
* `TypesHold`: `[]TypeOK`. That counters fit their types needs `RunInv` (they add up to what is logged) and `WalkInv`
  (a plan is sent once, so that they are bounded by its length).

Assumptions: `SizeAssumption` (at least one queue manager), `ManifestAssumption` (a Deployment is among
the manifests), `ProvisionFaults`; for the engine `PlanAssumption` (a non-empty sequence of commands), `TaskAssumption`,
`InstanceAssumption`; `PageAssumption` and `WindowAssumption` (positive), `TestAssumption` (tests are sessions);
`NameAssumption` (names are in a finite order), `TopologyAssumption` (at least one queue manager; flows as in 2.3),
`NoneAssumption` (no message is not a code, nobody is not a run). TLC evaluates them in the runs of each module. The theorems
of `MqRealizeProofs` use none.

Every invariant that a passing run checks is stated by a theorem. Only model-checked are the liveness properties
(`EventuallySettles`, `RunEnds`, `RunSettles`, `RequestsEnd`), which need fairness and ENABLED, beyond the prover.

## 5. What could follow

* Pure functions: the verdict rules of `analysis/decision.py` and the recommended order of
  `analysis/blast_radius.py` against declarative definitions.
* A database error as a fault of `MigrationEngine` (`_transition` outside the handlers' try,
  `migration/engine.py:851`). `ReadPlan` is one read where the code reads the correlation id and the plan in
  two sessions, and the content of the plan is opaque.

## 6. What the modelling showed besides

Without a run of their own, in the order of the code:

* `api/topology.py:469`: `cascade=true` with a ready queue manager calls `get_session_factory`, which the module does not
  import. The `NameError` is caught at 473 and answered with 500: the MQ teardown that the description promises
  (408) never starts. `MqRealize` therefore has no action for it.
* `mqsc_derivation.py:756`: a comment says that two channels on one transmission queue were recorded as a warning;
  nothing records it, and one of the flows does not deliver.
* `mq_realize.py:131`: overlapping runs of a topology are not refused; `api/topology.py` deletes a topology
  whatever run is active on it.
* `mq_realize.py:291-301`: the branch for a topology that "disappeared mid-run" writes to the run's row, which
  disappeared with it, and so always raises.
* `mq_realize.py:350`: the handler that keeps the run alive writes to the database that just raised.
* `api/message_flow.py:364`: "we kill the process below" is reached only when `readline` returns.
* `api/message_flow.py`: the write lock is held from the first flush to the commit, about as long as polling and
  `amqsget` take together; `busy_timeout` is 5 s, so that other writers fail meanwhile; a process killed between
  commit and answer leaves the entries of a test that nobody was answered; and a test
  whose first flush fails has put its message without an entry.

## 7. Not modelled

See `components` in `PROJECT.json`. Statistics, agents, rendering and the UI stay out: they compute
floating point or text, and nothing in them changes the state of a migration.
