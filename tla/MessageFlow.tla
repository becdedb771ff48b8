------------------------------- MODULE MessageFlow -------------------------------
(***************************************************************************)
(* The end-to-end test of a flow (api/message_flow.py): put one message on *)
(* the producer's queue, poll the consumer's until something is there, get *)
(* it back.  Each of the three steps is an audit entry; the first flush    *)
(* takes the database's write lock, and the request keeps it until it      *)
(* commits; then it answers.                                               *)
(*                                                                         *)
(* Tests share the queues, and the log with every other writer.  The queue *)
(* managers, `oc exec` and the process are the environment: a put loses    *)
(* its answer, a channel stops, an amqsget whose client is gone goes on    *)
(* reading, the process dies.                                              *)
(***************************************************************************)
EXTENDS AuditLog

CONSTANTS
  Tests,          \* test-message-flow requests, the other Sessions are other writers
  Stale,          \* a message that an earlier test left behind
  Payload,        \* the payload of each test and of Stale
  TopologyFlows,  \* the lists of flows a topology may have
  Apps,           \* the pairs of apps a request may name
  MaxTroubles,    \* bound: faults of the environment, entries of other writers,
                  \* clients that page through the log
  MaxActive       \* bound: requests and page readers at work at once

ASSUME TestAssumption == Tests \subseteq Sessions

VARIABLES
  flows,    \* Topology.spec["flows"]
  mq,       \* pods and the consumer queue exist, the channel runs, the two queues
  request,  \* the requests
  troubles  \* how many there were

vars == << auditVars, flows, mq, request, troubles >>

Writers == Sessions \ Tests

NoFlow == [kind |-> "none", apps |-> << >>]

\* The first Remote flow between the two apps, else the first Local one.
_find_flow_between(list, apps) ==
  LET between(kind) == {i \in DOMAIN list : list[i].apps = apps /\ list[i].kind = kind}
      first(set) == list[CHOOSE i \in set : \A j \in set : i <= j]
  IN  IF between("Remote") # {} THEN first(between("Remote"))
      ELSE IF between("Local") # {} THEN first(between("Local"))
      ELSE NoFlow

NoRequest == [pc |-> "idle", flow |-> NoFlow, stage |-> "put", ok |-> FALSE,
              steps |-> << >>, seen |-> {}, lingers |-> FALSE]

Init ==
  /\ AuditInit
  /\ flows \in TopologyFlows
  /\ mq \in [pods : BOOLEAN, exists : BOOLEAN, channel : {TRUE},
             xmitq : {<< >>}, queue : {<< >>, << Stale >>}]
  /\ mq.queue # << >> => mq.exists
  /\ ~mq.pods => ~mq.exists
  /\ request = [t \in Tests |-> NoRequest]
  /\ troubles = 0

Goto(t, pc) == request' = [request EXCEPT ![t].pc = pc]

\* A step has its result; its audit entry comes next.
Result(t, ok) == [request[t] EXCEPT !.pc = "tick", !.ok = ok]
Finish(t, ok) == request' = [request EXCEPT ![t] = Result(t, ok)]

Running(t) == request[t].pc \notin {"idle", "refused", "failed", "answered", "lost"}
Working == {t \in Tests : Running(t)} \cup {w \in Writers : ticket[w] # 0 \/ Holds(w)}
MayBegin ==
  Cardinality(Working) + (IF walk.state = "reading" THEN 1 ELSE 0) < MaxActive

Trouble == troubles < MaxTroubles /\ troubles' = troubles + 1

-----------------------------------------------------------------------------
(* test_message_flow *)

\* 404 and 400 without an audit entry; otherwise on to the put.
Lookup(t, apps) ==
  LET flow == _find_flow_between(flows, apps)
  IN  /\ request[t].pc = "idle" /\ MayBegin
      /\ request' = [request EXCEPT ![t].flow = flow,
           ![t].pc = IF flow = NoFlow \/ ~mq.pods THEN "refused" ELSE "put"]
      /\ UNCHANGED << auditVars, flows, mq, troubles >>

\* amqsput: onto the transmission queue behind a QREMOTE, or the local queue.
Arrives(t) == IF request[t].flow.kind = "Remote" THEN [mq EXCEPT !.xmitq = Append(@, t)]
              ELSE [mq EXCEPT !.queue = Append(@, t)]
CanPut(t) == request[t].flow.kind = "Remote" \/ mq.exists

AmqsPut(t) ==
  /\ request[t].pc = "put"
  /\ mq' = IF CanPut(t) THEN Arrives(t) ELSE mq
  /\ Finish(t, CanPut(t))
  /\ UNCHANGED << auditVars, flows, troubles >>

\* An exit code other than 0, or a time-out, whatever became of the message.
AmqsPutMiscarries(t) ==
  /\ request[t].pc = "put" /\ Trouble
  /\ mq' \in {mq} \cup IF CanPut(t) THEN {Arrives(t)} ELSE {}
  /\ Finish(t, FALSE)
  /\ UNCHANGED << auditVars, flows >>

\* write_audit_entry for the step.
StampStep(t) ==
  /\ request[t].pc = "tick"
  /\ Tick(t)
  /\ Goto(t, "flush")
  /\ UNCHANGED << flows, mq, troubles >>

NextStage == [put |-> "poll", poll |-> "get"]

\* Mutation: the next step although this one failed.
AfterAnyway(t) ==
  LET r == request[t]
      steps == Append(r.steps, [stage |-> r.stage, success |-> r.ok, lamport |-> ticket[t]])
  IN  IF r.stage # "get"
      THEN [r EXCEPT !.steps = steps, !.pc = NextStage[r.stage], !.stage = NextStage[r.stage]]
      ELSE [r EXCEPT !.steps = steps, !.pc = "commit"]

\* Mutation: a test that failed answers without a commit.
AfterWithoutCommit(t) ==
  LET r == request[t]
      steps == Append(r.steps, [stage |-> r.stage, success |-> r.ok, lamport |-> ticket[t]])
  IN  IF r.ok /\ r.stage # "get"
      THEN [r EXCEPT !.steps = steps, !.pc = NextStage[r.stage], !.stage = NextStage[r.stage]]
      ELSE [r EXCEPT !.steps = steps, !.pc = IF r.ok THEN "commit" ELSE "answered"]

\* The next step, or the end: of the test, or of what is left to be tried.
After(t) ==
  LET r == request[t]
      steps == Append(r.steps, [stage |-> r.stage, success |-> r.ok, lamport |-> ticket[t]])
  IN  IF r.ok /\ r.stage # "get"
      THEN [r EXCEPT !.steps = steps, !.pc = NextStage[r.stage], !.stage = NextStage[r.stage]]
      ELSE [r EXCEPT !.steps = steps, !.pc = "commit"]

RecordStep(t) ==
  /\ request[t].pc = "flush"
  /\ Flush(t, request[t].ok)
  /\ request' = [request EXCEPT ![t] = After(t)]
  /\ UNCHANGED << flows, mq, troubles >>

\* 500: what was put stays put.
RecordStepFails(t) ==
  /\ request[t].pc = "flush"
  /\ FlushFails(t)
  /\ Goto(t, "failed")
  /\ UNCHANGED << flows, mq, troubles >>

-----------------------------------------------------------------------------
(* The poll loop *)

\* _probe_queue_depth: CURDEPTH of the consumer queue is 1 or more.
DepthSeen == mq.exists /\ mq.queue # << >>

\* The queue has a message, whoever's it is.
PollSees(t) ==
  /\ request[t].pc = "poll" /\ DepthSeen
  /\ Finish(t, TRUE)
  /\ UNCHANGED << auditVars, flows, mq, troubles >>

\* Mutation: no deadline.
PollNeverGivesUp(t) ==
  /\ request[t].pc = "poll" /\ ~mq.exists
  /\ Finish(t, FALSE)
  /\ UNCHANGED << auditVars, flows, mq, troubles >>

\* The queue is not there, or the deadline passes after a reading of zero or
\* one that failed; what the transmission queues hold is for the answer only.
PollGivesUp(t) ==
  /\ request[t].pc = "poll"
  /\ Finish(t, FALSE)
  /\ UNCHANGED << auditVars, flows, mq, troubles >>

-----------------------------------------------------------------------------
(* amqsget *)

\* Mutation: any message will do.
MatchesAny(t, m) == TRUE

\* _extract_strict_payload
Matches(t, m) == Payload[m] = Payload[t]

\* One message in the order of the queue; the first that matches ends it, but
\* the process in the pod may read on.
AmqsGet(t) ==
  /\ request[t].pc = "get" /\ mq.queue # << >>
  /\ LET m == Head(mq.queue)
         seen == [request[t] EXCEPT !.seen = @ \cup {m}]
     IN  request' = [request EXCEPT ![t] =
           IF Matches(t, m) THEN [seen EXCEPT !.pc = "tick", !.ok = TRUE, !.lingers = TRUE]
           ELSE seen]
  /\ mq' = [mq EXCEPT !.queue = Tail(@)]
  /\ UNCHANGED << auditVars, flows, troubles >>

\* The queue stays empty and amqsget ends by itself, its own 15 s after.
AmqsGetEnds(t) ==
  /\ request[t].pc = "get" /\ mq.queue = << >>
  /\ Finish(t, FALSE)
  /\ UNCHANGED << auditVars, flows, mq, troubles >>

\* It cannot run, or is terminated at the deadline.
AmqsGetCut(t) ==
  /\ request[t].pc = "get" /\ Trouble
  /\ request' = [request EXCEPT ![t] = [Result(t, FALSE) EXCEPT !.lingers = TRUE]]
  /\ UNCHANGED << auditVars, flows, mq >>

\* The deadline is looked at between two lines of output only: readline waits
\* for as long as a stalled `oc exec` prints nothing and does not end.
AmqsGetHangs(t) ==
  /\ request[t].pc = "get" /\ Trouble
  /\ request' = [request EXCEPT ![t].pc = "hung", ![t].lingers = TRUE]
  /\ UNCHANGED << auditVars, flows, mq >>

\* A message read by a process that has outlived its client, and lost.  (One
\* that has ended is one that reads no more.)
Swallow(t) ==
  /\ request[t].lingers /\ mq.queue # << >>
  /\ mq' = [mq EXCEPT !.queue = Tail(@)]
  /\ UNCHANGED << auditVars, flows, request, troubles >>

\* await session.commit().
CommitSteps(t) ==
  /\ request[t].pc = "commit"
  /\ Commit(t)
  /\ Goto(t, "reply")
  /\ UNCHANGED << flows, mq, troubles >>

\* The TestMessageResponse.
Answer(t) ==
  /\ request[t].pc = "reply"
  /\ Goto(t, "answered")
  /\ UNCHANGED << auditVars, flows, mq, troubles >>

\* success in the answer: each of the three steps'.
Successful(t) ==
  /\ request[t].pc = "answered"
  /\ Len(request[t].steps) = 3
  /\ \A i \in DOMAIN request[t].steps : request[t].steps[i].success

-----------------------------------------------------------------------------
(* The environment *)

\* The channel moves a message; without its queue it goes to a dead-letter queue.
Transmit ==
  /\ mq.channel /\ mq.xmitq # << >>
  /\ mq' = [mq EXCEPT !.xmitq = Tail(@),
                      !.queue = IF mq.exists THEN Append(@, Head(mq.xmitq)) ELSE @]
  /\ UNCHANGED << auditVars, flows, request, troubles >>

ChannelStops ==
  /\ mq.channel /\ Trouble
  /\ mq' = [mq EXCEPT !.channel = FALSE]
  /\ UNCHANGED << auditVars, flows, request >>

ChannelStarts ==
  /\ ~mq.channel
  /\ mq' = [mq EXCEPT !.channel = TRUE]
  /\ UNCHANGED << auditVars, flows, request, troubles >>

\* Any other code that writes an audit entry.
OtherTicks(w) ==
  /\ MayBegin /\ Trouble
  /\ Tick(w)
  /\ UNCHANGED << flows, mq, request >>

OtherWrites(w) ==
  /\ Flush(w, TRUE) \/ FlushFails(w) \/ Commit(w) \/ Rollback(w)
  /\ UNCHANGED << flows, mq, request, troubles >>

Crash ==
  /\ Trouble /\ Restart
  /\ request' = [t \in Tests |->
       IF Running(t) THEN [request[t] EXCEPT !.pc = "lost",
                             !.lingers = @ \/ request[t].pc = "get"]
       ELSE request[t]]
  /\ UNCHANGED << flows, mq >>

\* The client of a request that died with the process asks again, with a new
\* correlation id.  Bound: the old one is used once more, so only if no row
\* bears it; otherwise the next request is another test's.
Retry(t) ==
  /\ request[t].pc = "lost" /\ \A i \in DOMAIN log : log[i].by # t
  /\ request' = [request EXCEPT ![t] = [NoRequest EXCEPT !.lingers = request[t].lingers]]
  /\ UNCHANGED << auditVars, flows, mq, troubles >>

FetchPage ==
  /\ IF walk.state = "none" THEN MayBegin /\ Trouble ELSE UNCHANGED troubles
  /\ ReadPage
  /\ UNCHANGED << flows, mq, request >>

-----------------------------------------------------------------------------
Step(t) ==
  \/ AmqsPut(t) \/ StampStep(t) \/ RecordStep(t) \/ RecordStepFails(t)
  \/ PollSees(t) \/ PollGivesUp(t)
  \/ AmqsGet(t) \/ AmqsGetEnds(t) \/ CommitSteps(t) \/ Answer(t)

Next ==
  \/ \E t \in Tests :
       \/ \E apps \in Apps : Lookup(t, apps)
       \/ Step(t)
       \/ AmqsPutMiscarries(t) \/ AmqsGetCut(t) \/ AmqsGetHangs(t)
       \/ Swallow(t) \/ Retry(t)
  \/ \E w \in Writers : OtherTicks(w) \/ OtherWrites(w)
  \/ Transmit \/ ChannelStops \/ ChannelStarts
  \/ Crash
  \/ FetchPage

Spec == Init /\ [][Next]_vars
=============================================================================
