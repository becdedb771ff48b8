-------------------------- MODULE MqRealizeProperties --------------------------
(***************************************************************************)
(* What a realisation run promises, beyond a single step.                  *)
(***************************************************************************)
EXTENDS MqRealize

Tallies == [{"APPLIED", "SKIPPED_IDEMPOTENT", "FAILED"} -> Nat]

\* Every variable stays in its range, a row's counters never exceed the
\* number of its queue managers, and a coroutine that has ended normally has
\* stored a verdict (unless its row has been deleted).
TypeOK ==
  /\ deletion \in {"none", "checked", "done"}
  /\ pod \in [Qm -> Nat]
  /\ \A r \in Run :
       /\ row[r].state \in {"none", "PENDING", "RUNNING", "gone"} \cup Finished
       /\ row[r].completed + row[r].failed \in 0 .. Len(QmOrder)
       /\ {row[r].commands, coroutine[r].commands, coroutine[r].qm, logged[r]}
            \subseteq Tallies
       /\ coroutine[r].pc = "done" => row[r].state \in Finished \cup {"gone"}

-----------------------------------------------------------------------------
(* What the plans mean *)

QueueManagers(f) == {f.producer_qm, f.consumer_qm}

\* Names the flows use for objects of different MQ types on one queue
\* manager: a QREMOTE and a local queue (the dead-letter queue is one), a
\* sender and a receiver.  The plan holds a command for each, and one of them
\* cannot succeed.
Clashing(qm) ==
  LET local == {DefaultDlq} \cup LocalQueues(flows, qm) \cup ConsumerLocals(flows, qm)
  IN  (RemoteQueues(flows, qm) \cap (local \cup TransmitQueues(flows, qm)))
      \cup (local \cap TransmitQueues(flows, qm))
      \cup (SenderChannels(flows, qm) \cap ReceiverChannels(flows, qm))

\* Two sender channels bound to one transmission queue: no warning is
\* recorded, whatever the comment at xmitq_to_channel says.
SharesXmitq(i) ==
  \E j \in Producing(flows, flows[i].producer_qm) :
    /\ flows[j].transmit_queue = flows[i].transmit_queue
    /\ flows[j].channel # flows[i].channel

Consistent(i) ==
  /\ i \notin Warned(flows, flows[i].producer_qm)
  /\ \A qm \in QueueManagers(flows[i]) : Clashing(qm) = {}
  /\ flows[i].type = "Remote" => ~SharesXmitq(i)

Exists(qm, kind, name) == \E o \in objects[qm] : o.kind = kind /\ o.name = name

\* A message put on the producer's queue reaches the consumer's: the QREMOTE
\* stages it on its transmission queue, whose trigger starts a sender channel
\* that reads that very queue and calls the consumer's queue manager, where a
\* receiver of the same name and the queue of that name are.
Delivers(f) ==
  IF f.type = "Local" THEN Exists(f.producer_qm, "QLOCAL", f.consumer_queue)
  ELSE \E q, x, s \in objects[f.producer_qm] :
         /\ q.kind = "QREMOTE" /\ q.name = f.producer_queue
         /\ x.kind = "QXMIT" /\ x.name = q.refers.xmitq
         /\ s.kind = "CHANNEL_SDR" /\ s.name = x.refers.trigdata
         /\ s.refers.xmitq = x.name
         /\ s.refers.conname = Service[q.refers.rqmname]
         /\ q.refers.rqmname = f.consumer_qm
         /\ Exists(f.consumer_qm, "CHANNEL_RCVR", s.name)
         /\ q.refers.rname = f.consumer_queue
         /\ Exists(f.consumer_qm, "QLOCAL", f.consumer_queue)

-----------------------------------------------------------------------------
(* Safety *)

\* A run that nothing has disturbed since it began.
Undisturbed(r, direction) ==
  /\ env.last = r
  /\ row[r].direction = direction
  /\ ~coroutine[r].dry

\* A live APPLY that says COMPLETED has wired every consistent flow from end
\* to end, whatever earlier runs left half done, were killed in, or had
\* refused: derive_mqsc_for_qm on the two sides agrees, and no tolerated
\* answer hides a missing object.
CompletedDelivers ==
  \A r \in Run :
    Undisturbed(r, "APPLY") /\ row[r].state = "COMPLETED" =>
      \A i \in DOMAIN flows : Consistent(i) => Delivers(flows[i])

\* A live TEARDOWN that says COMPLETED has left none of the topology's
\* objects on the queue managers it found ready: no object but the dead-letter
\* queue, which DlqStays is about.
CompletedRemoves ==
  \A r \in Run :
    Undisturbed(r, "TEARDOWN") /\ row[r].state = "COMPLETED" =>
      \A q \in Qm : coroutine[r].snapshot[q] # NoPod =>
        {o.name : o \in objects[q]} \subseteq {DefaultDlq}

\* The dead-letter queue outlives every run: no command of either direction,
\* overlapping another's, refused, unanswered or sent by a run that was deleted,
\* takes it from a queue manager that keeps its pod, unless a name is taken
\* twice (mqsc_derivation.py:899).
DlqStays ==
  [][\A q \in Qm :
       pod'[q] = pod[q] /\ Exists(q, "QLOCAL", DefaultDlq)
         => Exists(q, "QLOCAL", DefaultDlq)' \/ Clashing(q) # {}]_vars

\* The module's promise that re-applying is safe: a live run that overlaps no
\* other and meets no fault of its own is COMPLETED, whatever objects an
\* earlier one left, unless a name of the topology is taken twice.
ReapplicationSafe ==
  \A r \in Run, direction \in Direction :
    /\ Undisturbed(r, direction)
    /\ r \notin env.faulted
    /\ row[r].state \in Finished
    /\ \A q \in Qm : Clashing(q) = {}
    => row[r].state = "COMPLETED"

\* As long as no two runs overlap and nothing is refused or lost, no object
\* refers to a transmission queue that is not there: defined before what
\* refers to them, deleted after it, and so at every crash in between.
RefsResolve ==
  env.orderly =>
    \/ \A q \in Qm : \A o \in objects[q] :
         o.kind \in {"QREMOTE", "CHANNEL_SDR"} => Exists(q, "QXMIT", o.refers.xmitq)
    \/ \E q \in Qm : Clashing(q) # {}

\* The row and the append-only log tell one story: a verdict never claims
\* more applied commands than the log has entries, and COMPLETED stands for a
\* log without a failed command.
VerdictAgreesWithLog ==
  \A r \in Run : row[r].state \in Finished =>
    /\ row[r].commands.APPLIED <= logged[r].APPLIED
    /\ row[r].state = "COMPLETED" =>
         row[r].commands.APPLIED = logged[r].APPLIED /\ logged[r].FAILED = 0

\* Once the topology and its rows are deleted, a run sends at most one more
\* command: the command's audit entry still commits, its progress event does
\* not, and neither does the handler's.
DeletedRunStops == \A r \in Run : env.late[r] <= 1

-----------------------------------------------------------------------------
(* Liveness *)

\* A client polls a run that has no verdict yet: its row has not been deleted,
\* the process has not died and none of its writes was refused.
Awaited(r) ==
  /\ row[r].state \in {"PENDING", "RUNNING"}
  /\ coroutine[r].pc # "killed"
  /\ coroutine[r].pc = "dead" => r \notin env.faulted

\* However many runs are started, again and again a time comes when none is
\* awaited: commands that fail or hang never strand one.  (A run that is no
\* longer awaited never is again.)
RunSettles == []<>(\A r \in Run : ~Awaited(r))
=============================================================================
