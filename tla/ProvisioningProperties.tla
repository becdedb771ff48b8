----------------------- MODULE ProvisioningProperties -----------------------
(***************************************************************************)
(* What provisioning and teardown of a topology must guarantee.            *)
(***************************************************************************)
EXTENDS Provisioning

TaskRec ==
  [ pc : RunPc, dry : BOOLEAN, i : 1 .. (N + 1), k : 1 .. K, ok : BOOLEAN,
    ready : 0 .. N, failed : 0 .. N ]
RowRec == [ is_ready : BOOLEAN, pod_name : BOOLEAN ]
TearRec ==
  [ pc : { "free", "delete", "audit", "commit", "done", "failed" },
    i : QM, k : 1 .. K, open : BOOLEAN, seen : [ QM -> RowRec ] ]

\* Types of all variables (provisioning/engine.py, api/provisioning.py).
TypeOK ==
  /\ topology \in { "none", "stored", "deleted" }
  /\ rows \in [ QM -> RowRec ]
  /\ cluster \in [ QM -> SUBSET Kind ]
  /\ run \in [ Run -> ProvisionRun ]
  /\ task \in [ Run -> TaskRec ]
  /\ tear \in [ Teardown -> TearRec ]
  /\ delete \in { "idle", "checked" }
  /\ overlapped \subseteq Run

\* A queue manager stands when its row says ready and all four of its
\* resources exist.
Stands(q) == rows[q].is_ready /\ cluster[q] = Kind

\* Finalising a run as COMPLETED (engine.py:243) tells the truth: unless it
\* was a dry run or a teardown ran during it, every queue manager of the
\* topology stands at that moment, however many runs work on it at once and
\* whichever calls to the cluster failed.
CompletedStands ==
  [][ \A r \in Run :
        /\ run[r].state # "COMPLETED" /\ run'[r].state = "COMPLETED"
        /\ ~ task[r].dry /\ r \notin overlapped
        => \A q \in QM : Stands(q) ]_vars

\* At rest, a queue manager that api/topology.py takes for running really
\* has its resources: is_ready is neither set early nor kept by a teardown
\* that answered.  Overlapping requests and a teardown that raised or died
\* midway are excluded: they do break it.
ReadyIsBacked ==
  /\ overlapped = {}
  /\ \A t \in Teardown : tear[t].pc \in { "free", "done" }
  => \A q \in QM : rows[q].is_ready => Stands(q)

\* A run ends in a verdict that clients of the status endpoint poll for
\* (api/provisioning.py:152), unless its topology is deleted, a teardown
\* holds the write lock from it, or the process dies.
RunEnds ==
  \A r \in Run :
    task[r].pc = "start"
      ~> \/ run[r].state \in Verdict
         \/ topology = "deleted"
         \/ r \in overlapped
         \/ task[r].pc = "killed"

\* "engine must not crash mid-run" (engine.py:219): while its topology is
\* there, a running run's coroutine is not ended by an exception.
NeverCrashesMidRun ==
  \A r \in Run :
    topology = "stored" /\ run[r].state = "RUNNING" => task[r].pc # "dead"
-----------------------------------------------------------------------------
(* The inductive invariant behind CompletedStands and ReadyIsBacked. *)

\* A coroutine has dealt with the queue managers before its own, and its row
\* counts no more ready ones than it does.
Tallied(r) ==
  /\ task[r].pc = "free" => run[r] = NoRow /\ task[r] = Idle
  /\ Alive(r) =>
       /\ task[r].ready + task[r].failed = task[r].i - 1
       /\ task[r].pc = "finalize" <=> task[r].i = N + 1
       /\ run[r].state # "NO_ROW" => run[r].qms_ready <= task[r].ready

\* What a run that no teardown met can rely on: the manifests it applied are
\* there, and while nothing failed every queue manager behind it stands.
OnCluster == { "apply", "record", "poll", "timed_out", "pod", "mark" }
Solid(r) ==
  Alive(r) /\ r \notin overlapped =>
    /\ \A t \in Teardown : ~ TearingDown(t)
    /\ task[r].pc \in { "start", "load" } => task[r].k = 1
    /\ task[r].pc \in OnCluster => ~ task[r].dry
    /\ task[r].pc \in { "apply", "record" } =>
         \A j \in 1 .. K : j < task[r].k => Manifests[j] \in cluster[task[r].i]
    /\ task[r].pc = "record" /\ task[r].ok =>
         Manifests[task[r].k] \in cluster[task[r].i]
    /\ task[r].pc \in { "poll", "timed_out", "pod", "mark" } =>
         cluster[task[r].i] = Kind
    /\ ~ task[r].dry /\ task[r].failed = 0 /\ run[r].state # "NO_ROW" =>
         \A q \in QM : q < task[r].i => Stands(q)

\* As long as no run and no teardown met, a teardown has seen every ready
\* row it finds at its commit.
SeenAll ==
  overlapped = {} =>
    \A t \in Teardown : TearingDown(t) =>
      /\ \A r \in Run : ~ Alive(r)
      /\ \A q \in QM : rows[q].is_ready => tear[t].seen[q].is_ready

IInv ==
  /\ TypeOK
  /\ \A r \in Run : Tallied(r) /\ Solid(r)
  /\ SeenAll
  /\ ReadyIsBacked
=============================================================================
