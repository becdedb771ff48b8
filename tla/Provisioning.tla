---------------------------- MODULE Provisioning ----------------------------
(***************************************************************************)
(* The life of one topology: its registration, the runs that provision it, *)
(* its teardown and its deletion (bcl/provisioning/engine.py,              *)
(* bcl/api/provisioning.py, bcl/api/topology.py).                          *)
(*                                                                         *)
(* A run is a background coroutine that applies four manifests per queue   *)
(* manager, one queue manager after the other, and commits after every     *)
(* step.  A teardown is one long request: it deletes the same resources    *)
(* with its database transaction open from the first audit entry to the    *)
(* end, so it holds SQLite's only write lock while `oc delete` runs.       *)
(* Another writer waits for that lock, or raises after busy_timeout.       *)
(***************************************************************************)
EXTENDS Naturals, Sequences, FiniteSets

CONSTANTS
  N,          \* queue managers, numbered in the order of their rows
  Manifests,  \* the kinds of a QM's resources, in the order of their apply
  Run,        \* provisioning runs
  Teardown,   \* teardown requests
  Faults      \* "k8s": oc fails, its effect unknown; "crash": the process dies

ASSUME SizeAssumption == N \in Nat \ {0}
ASSUME ManifestAssumption ==
  /\ Manifests \in Seq(STRING)
  /\ \E k \in DOMAIN Manifests : Manifests[k] = "Deployment"
ASSUME ProvisionFaults == Faults \subseteq { "k8s", "crash" }

VARIABLES
  topology,   \* the Topology row: "none", "stored" or "deleted"
  rows,       \* the QueueManager rows: is_ready, and whether pod_name is set
  cluster,    \* the resources that exist on the cluster, per queue manager
  run,        \* the ProvisionRun rows
  task,       \* the runs' coroutines
  tear,       \* the teardown requests
  delete,     \* the DELETE /topologies request: "idle" or "checked"
  overlapped  \* history: runs that were alive together with a teardown

vars == << topology, rows, cluster, run, task, tear, delete, overlapped >>

QM == 1 .. N

K == Len(Manifests)
Kind == { Manifests[k] : k \in 1 .. K }

\* teardown_topology deletes in reverse-apply order.
TeardownOrder == [ k \in 1 .. K |-> Manifests[K + 1 - k] ]

NotReady == [ is_ready |-> FALSE, pod_name |-> FALSE ]

Verdict == { "COMPLETED", "FAILED", "PARTIALLY_COMPLETED" }
ProvisionRun ==
  [ state : { "NO_ROW", "PENDING", "RUNNING" } \cup Verdict,
    qms_ready : 0 .. N, qms_failed : 0 .. N ]
NoRow == [ state |-> "NO_ROW", qms_ready |-> 0, qms_failed |-> 0 ]

\* Where a coroutine stands: "raised" is the exception handler around one
\* queue manager, "dead" a coroutine ended by an exception nobody caught,
\* "killed" one that died with the process.
Writing == { "load", "record", "timed_out", "mark" }
RunPc == Writing \cup { "free", "start", "apply", "poll", "pod", "raised",
                        "finalize", "done", "dead", "killed" }
Coroutine(pc, dry) == [ pc |-> pc, dry |-> dry, i |-> 1, k |-> 1, ok |-> TRUE,
                        ready |-> 0, failed |-> 0 ]
Idle == Coroutine("free", FALSE)
NoTeardown == [ pc |-> "free", i |-> 1, k |-> 1, open |-> FALSE,
                seen |-> [ q \in QM |-> NotReady ] ]

Init ==
  /\ topology = "none"
  /\ rows = [ q \in QM |-> NotReady ]
  /\ cluster = [ q \in QM |-> {} ]
  /\ run = [ r \in Run |-> NoRow ]
  /\ task = [ r \in Run |-> Idle ]
  /\ tear = [ t \in Teardown |-> NoTeardown ]
  /\ delete = "idle"
  /\ overlapped = {}

-----------------------------------------------------------------------------
(* Helpers. *)

Alive(r) == task[r].pc \notin { "free", "done", "dead", "killed" }
TearingDown(t) == tear[t].pc \notin { "free", "done", "failed" }

\* SQLite's write lock: only a teardown keeps it from one step to another.
Unlocked == \A t \in Teardown : ~ tear[t].open

\* A run's session can write when it gets the lock and finds its run row
\* (_fetch_run uses scalar_one, which raises without one).  Otherwise it
\* raises, or waits for the lock.
CanWrite(r) == Unlocked /\ run[r].state # "NO_ROW"
WriteRaises(r) == ~ Unlocked \/ run[r].state = "NO_ROW"

Goto(r, pc) == task' = [ task EXCEPT ![r].pc = pc ]

\* A coroutine or a request is over: its locals are gone.
Over(pc) == Coroutine(pc, FALSE)
Answered(pc) == [ NoTeardown EXCEPT !.pc = pc ]

\* One queue manager is dealt with: count it and go to the next.
NextQm(rec) ==
  [ rec EXCEPT !.i = @ + 1, !.k = 1, !.ok = TRUE,
               !.pc = IF rec.i = N THEN "finalize" ELSE "load" ]
CountReady(r) == NextQm([ task[r] EXCEPT !.ready = @ + 1 ])
CountFailed(r) == NextQm([ task[r] EXCEPT !.failed = @ + 1 ])

-----------------------------------------------------------------------------
(* create_topology (and ingest_topology_csv, which ends in it). *)

CreateTopology ==
  /\ topology = "none"
  /\ Unlocked
  /\ topology' = "stored"
  /\ UNCHANGED << rows, cluster, run, task, tear, delete, overlapped >>

-----------------------------------------------------------------------------
(* The provisioning run. *)

\* start_provision_run: nothing keeps a second run, or a run during a
\* teardown, from starting.
StartProvisionRun(r) ==
  /\ task[r].pc = "free"
  /\ topology = "stored"
  /\ Unlocked
  /\ run' = [ run EXCEPT ![r].state = "PENDING" ]
  /\ \E dry \in BOOLEAN :
       task' = [ task EXCEPT ![r] = Coroutine("start", dry) ]
  /\ overlapped' = IF \E t \in Teardown : TearingDown(t)
                   THEN overlapped \cup {r} ELSE overlapped
  /\ UNCHANGED << topology, rows, cluster, tear, delete >>

BeginRun(r) ==
  /\ task[r].pc = "start"
  /\ CanWrite(r)
  /\ run' = [ run EXCEPT ![r].state = "RUNNING" ]
  /\ Goto(r, "load")
  /\ UNCHANGED << topology, rows, cluster, tear, delete, overlapped >>

\* _provision_one_qm: a queue manager whose row is gone counts as failed.
\* A dry run only writes a progress event per manifest.
LoadQm(r) ==
  /\ task[r].pc = "load"
  /\ \/ /\ topology # "stored"
        /\ task' = [ task EXCEPT ![r] = CountFailed(r) ]
     \/ /\ topology = "stored"
        /\ CanWrite(r)
        /\ task' = [ task EXCEPT ![r] =
             IF task[r].dry THEN CountReady(r)
             ELSE [ task[r] EXCEPT !.pc = "apply" ] ]
  /\ UNCHANGED << topology, rows, cluster, run, tear, delete, overlapped >>

\* oc apply.  A failed or timed out call may have had its effect.
ApplyYaml(r) ==
  /\ task[r].pc = "apply"
  /\ \E ok, effect \in BOOLEAN :
       /\ ok \/ "k8s" \in Faults
       /\ ok => effect
       /\ task' = [ task EXCEPT ![r].pc = "record", ![r].ok = ok ]
       /\ cluster' = IF effect
                     THEN [ cluster EXCEPT ![task[r].i] =
                              @ \cup { Manifests[task[r].k] } ]
                     ELSE cluster
  /\ UNCHANGED << topology, rows, run, tear, delete, overlapped >>

\* Mutation: the result of the call is recorded but not returned.
RecordApplyAnyway(r) ==
  /\ task[r].pc = "record"
  /\ CanWrite(r)
  /\ task' = [ task EXCEPT ![r] =
       IF task[r].k = K THEN [ task[r] EXCEPT !.pc = "poll", !.k = 1 ]
       ELSE [ task[r] EXCEPT !.pc = "apply", !.k = task[r].k + 1 ] ]
  /\ UNCHANGED << topology, rows, cluster, run, tear, delete, overlapped >>

\* The audit entry and the progress events of one manifest, with the event
\* that announces the next one or the wait for readiness.
RecordApply(r) ==
  /\ task[r].pc = "record"
  /\ CanWrite(r)
  /\ task' = [ task EXCEPT ![r] =
       IF ~ task[r].ok THEN CountFailed(r)
       ELSE IF task[r].k = K THEN [ task[r] EXCEPT !.pc = "poll", !.k = 1 ]
       ELSE [ task[r] EXCEPT !.pc = "apply", !.k = task[r].k + 1 ] ]
  /\ UNCHANGED << topology, rows, cluster, run, tear, delete, overlapped >>

\* wait_for_deployment_available polls until the Deployment is available or
\* the deadline passes; a Deployment that is gone never becomes available.
WaitForDeployment(r) ==
  /\ task[r].pc = "poll"
  /\ \/ /\ "Deployment" \in cluster[task[r].i]
        /\ Goto(r, "pod")
     \/ /\ "k8s" \in Faults \/ "Deployment" \notin cluster[task[r].i]
        /\ Goto(r, "timed_out")
  /\ UNCHANGED << topology, rows, cluster, run, tear, delete, overlapped >>

RecordTimeout(r) ==
  /\ task[r].pc = "timed_out"
  /\ CanWrite(r)
  /\ task' = [ task EXCEPT ![r] = CountFailed(r) ]
  /\ UNCHANGED << topology, rows, cluster, run, tear, delete, overlapped >>

\* get_pod_name may come back without a name; the QM is marked ready anyway.
GetPodName(r) ==
  /\ task[r].pc = "pod"
  /\ \E named \in BOOLEAN :
       /\ named => "Deployment" \in cluster[task[r].i]
       /\ named \/ "k8s" \in Faults \/ "Deployment" \notin cluster[task[r].i]
       /\ task' = [ task EXCEPT ![r].pc = "mark", ![r].ok = named ]
  /\ UNCHANGED << topology, rows, cluster, run, tear, delete, overlapped >>

MarkReady(r) ==
  /\ task[r].pc = "mark"
  /\ CanWrite(r)
  /\ rows' = [ rows EXCEPT ![task[r].i] =
                 [ is_ready |-> TRUE, pod_name |-> task[r].ok ] ]
  /\ run' = [ run EXCEPT ![r].qms_ready = @ + 1 ]
  /\ task' = [ task EXCEPT ![r] = CountReady(r) ]
  /\ UNCHANGED << topology, cluster, tear, delete, overlapped >>

\* A write raises.  Inside the loop over queue managers the exception is
\* caught and the queue manager counted as failed; before the loop, after
\* it and in the handler itself the exception ends the coroutine.
WriteFails(r) ==
  /\ WriteRaises(r)
  /\ \/ /\ task[r].pc \in Writing
        /\ task[r].pc = "load" => topology = "stored"
        /\ Goto(r, "raised")
     \/ /\ task[r].pc \in { "start", "raised", "finalize" }
        /\ task' = [ task EXCEPT ![r] = Over("dead") ]
  /\ UNCHANGED << topology, rows, cluster, run, tear, delete, overlapped >>

\* Mutation: the failure is counted where it is raised and where it is caught.
LogExceptionTwice(r) ==
  /\ task[r].pc = "raised"
  /\ CanWrite(r)
  /\ task' = [ task EXCEPT ![r] = 
                 NextQm([ task[r] EXCEPT !.failed = task[r].failed + 2 ]) ]
  /\ UNCHANGED << topology, rows, cluster, run, tear, delete, overlapped >>

\* The handler writes an EXCEPTION event and goes on.
LogException(r) ==
  /\ task[r].pc = "raised"
  /\ CanWrite(r)
  /\ task' = [ task EXCEPT ![r] = CountFailed(r) ]
  /\ UNCHANGED << topology, rows, cluster, run, tear, delete, overlapped >>

VerdictOn(ready, failed) ==
  IF failed = 0 THEN "COMPLETED"
  ELSE IF ready = 0 THEN "FAILED" ELSE "PARTIALLY_COMPLETED"

\* Mutation: the verdict on a mixed run is forgotten.
FinalizeRunUnmixed(r) ==
  /\ task[r].pc = "finalize"
  /\ CanWrite(r)
  /\ run' = [ run EXCEPT ![r].state =
       IF task[r].failed = 0 THEN "COMPLETED"
       ELSE IF task[r].ready = 0 THEN "FAILED" ELSE @ ]
  /\ task' = [ task EXCEPT ![r] = Over("done") ]
  /\ UNCHANGED << topology, rows, cluster, tear, delete, overlapped >>

FinalizeRun(r) ==
  /\ task[r].pc = "finalize"
  /\ CanWrite(r)
  /\ run' = [ run EXCEPT ![r] =
       [ state |-> VerdictOn(task[r].ready, task[r].failed),
         qms_ready |-> task[r].ready, qms_failed |-> task[r].failed ] ]
  /\ task' = [ task EXCEPT ![r] = Over("done") ]
  /\ UNCHANGED << topology, rows, cluster, tear, delete, overlapped >>

RunStep(r) ==
  \/ BeginRun(r) \/ LoadQm(r) \/ ApplyYaml(r) \/ RecordApply(r)
  \/ WaitForDeployment(r) \/ RecordTimeout(r)
  \/ GetPodName(r) \/ MarkReady(r) \/ WriteFails(r) \/ LogException(r)
  \/ FinalizeRun(r)

-----------------------------------------------------------------------------
(* teardown_topology: one session, committed at the very end. *)

BeginTeardown(t) ==
  /\ tear[t].pc = "free"
  /\ topology = "stored"
  /\ tear' = [ tear EXCEPT ![t].pc = "delete", ![t].seen = rows ]
  /\ overlapped' = overlapped \cup { r \in Run : Alive(r) }
  /\ UNCHANGED << topology, rows, cluster, run, task, delete >>

\* oc delete --ignore-not-found.  Its failure changes nothing in what follows.
DeleteResource(t) ==
  /\ tear[t].pc = "delete"
  /\ \E effect \in BOOLEAN :
       /\ effect \/ "k8s" \in Faults
       /\ cluster' = IF effect
                     THEN [ cluster EXCEPT ![tear[t].i] =
                              @ \ { TeardownOrder[tear[t].k] } ]
                     ELSE cluster
  /\ tear' = [ tear EXCEPT ![t].pc = "audit" ]
  /\ UNCHANGED << topology, rows, run, task, delete, overlapped >>

\* The ORM writes only attributes whose value differs from the one loaded.
ChangedBefore(t, i) ==
  \E q \in 1 .. (i - 1) : tear[t].seen[q] # NotReady

\* A flush needs the write lock, and the rows it updates must still exist.
CanFlush(t, i) ==
  /\ \A s \in Teardown \ {t} : ~ tear[s].open
  /\ topology = "stored" \/ ~ ChangedBefore(t, i)
FlushRaises(t, i) ==
  \/ \E s \in Teardown \ {t} : tear[s].open
  \/ topology # "stored" /\ ChangedBefore(t, i)

\* The audit entry of one deletion is flushed, not committed: from the first
\* one on the request holds the write lock.
AuditDeletion(t) ==
  /\ tear[t].pc = "audit"
  /\ CanFlush(t, tear[t].i)
  /\ tear' = [ tear EXCEPT ![t] =
       IF tear[t].k < K
       THEN [ tear[t] EXCEPT !.pc = "delete", !.open = TRUE,
                             !.k = tear[t].k + 1 ]
       ELSE IF tear[t].i < N
       THEN [ tear[t] EXCEPT !.pc = "delete", !.open = TRUE, !.k = 1,
                             !.i = tear[t].i + 1 ]
       ELSE [ tear[t] EXCEPT !.pc = "commit", !.open = TRUE ] ]
  /\ UNCHANGED << topology, rows, cluster, run, task, delete, overlapped >>

\* Mutation: the rows keep their readiness.
CommitTeardownForgets(t) ==
  /\ tear[t].pc = "commit"
  /\ CanFlush(t, N + 1)
  /\ tear' = [ tear EXCEPT ![t] = Answered("done") ]
  /\ UNCHANGED << topology, rows, cluster, run, task, delete, overlapped >>

CommitTeardown(t) ==
  /\ tear[t].pc = "commit"
  /\ CanFlush(t, N + 1)
  /\ rows' = [ q \in QM |->
       [ is_ready |-> rows[q].is_ready /\ ~ tear[t].seen[q].is_ready,
         pod_name |-> rows[q].pod_name /\ ~ tear[t].seen[q].pod_name ] ]
  /\ tear' = [ tear EXCEPT ![t] = Answered("done") ]
  /\ UNCHANGED << topology, cluster, run, task, delete, overlapped >>

\* The request answers 500 and its session is rolled back; what was deleted
\* on the cluster stays deleted.
TeardownRaises(t) ==
  /\ \/ tear[t].pc = "audit" /\ FlushRaises(t, tear[t].i)
     \/ tear[t].pc = "commit" /\ FlushRaises(t, N + 1)
  /\ tear' = [ tear EXCEPT ![t] = Answered("failed") ]
  /\ UNCHANGED << topology, rows, cluster, run, task, delete, overlapped >>

TeardownStep(t) ==
  DeleteResource(t) \/ AuditDeletion(t) \/ CommitTeardown(t) \/ TeardownRaises(t)

-----------------------------------------------------------------------------
(* delete_topology.  With cascade=true and ready queue managers it starts a *)
(* teardown of MQ objects instead and changes nothing here.                 *)

CheckDelete ==
  /\ delete = "idle"
  /\ topology = "stored"
  /\ \A q \in QM : ~ rows[q].is_ready
  /\ delete' = "checked"
  /\ UNCHANGED << topology, rows, cluster, run, task, tear, overlapped >>

\* ON DELETE CASCADE takes the queue managers' rows and the run rows along.
DeleteTopology ==
  /\ delete = "checked"
  /\ delete' = "idle"
  /\ Unlocked
  /\ topology' = "deleted"
  /\ rows' = [ q \in QM |-> NotReady ]
  /\ run' = [ r \in Run |-> NoRow ]
  /\ UNCHANGED << cluster, task, tear, overlapped >>

DeleteRaises ==
  /\ delete = "checked"
  /\ ~ Unlocked
  /\ delete' = "idle"
  /\ UNCHANGED << topology, rows, cluster, run, task, tear, overlapped >>

-----------------------------------------------------------------------------
(* The process is killed: coroutines and open transactions vanish. *)

Crash ==
  /\ "crash" \in Faults
  /\ \/ \E r \in Run : Alive(r)
     \/ \E t \in Teardown : TearingDown(t)
  /\ task' = [ r \in Run |->
       IF Alive(r) THEN Over("killed") ELSE task[r] ]
  /\ tear' = [ t \in Teardown |->
       IF TearingDown(t) THEN Answered("failed") ELSE tear[t] ]
  /\ delete' = "idle"
  /\ UNCHANGED << topology, rows, cluster, run, overlapped >>

Next ==
  \/ CreateTopology
  \/ \E r \in Run : StartProvisionRun(r) \/ RunStep(r)
  \/ \E t \in Teardown : BeginTeardown(t) \/ TeardownStep(t)
  \/ CheckDelete \/ DeleteTopology \/ DeleteRaises
  \/ Crash

Spec == Init /\ [][Next]_vars

\* The event loop runs every coroutine that can run; operators owe nothing.
Fairness ==
  /\ \A r \in Run : WF_vars(RunStep(r))
  /\ \A t \in Teardown : WF_vars(TeardownStep(t))
  /\ WF_vars(DeleteTopology \/ DeleteRaises)
FairSpec == Spec /\ Fairness
=============================================================================
