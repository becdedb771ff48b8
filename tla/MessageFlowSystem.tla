---------------------------- MODULE MessageFlowSystem ----------------------------
(***************************************************************************)
(* Tests of a flow while the migration engine waits for the flow's consumer *)
(* queue to drain, and what the tests, the wait and the log promise.       *)
(***************************************************************************)
EXTENDS MessageFlow, Drain, AuditLogProperties

systemVars == << vars, drain >>

\* An amqsget has the queue open for input; it may have, or a channel for
\* output.
Opened == \E t \in Tests : request[t].pc = "get"
PerhapsOpened == mq.channel \/ \E t \in Tests : request[t].lingers

\* probe_queue on the consumer queue.
Readings ==
  {"mqsc_error"}
  \cup (IF mq.exists THEN {} ELSE {"queue_not_found"})
  \cup (IF mq.exists /\ mq.queue = << >> /\ ~Opened THEN {"zero"} ELSE {})
  \cup (IF mq.exists /\ (mq.queue # << >> \/ Opened \/ PerhapsOpened) THEN {"busy"} ELSE {})

\* Bound: beside a drain there is one test and no client that pages through
\* the log, with which it has no state in common.
Alone == walk.state = "none" /\ Cardinality({t \in Tests : request[t].pc # "idle"}) <= 1
SystemInit == Init /\ DrainInit
SystemNext ==
  \/ Next /\ (drain.history # << >> => Alone') /\ UNCHANGED drain
  \/ Alone /\ (\E probe \in Readings : Poll(probe)) /\ UNCHANGED vars
  \/ DrainTimesOut /\ UNCHANGED vars

SystemSpec == SystemInit /\ [][SystemNext]_systemVars

\* The event loop runs a request that can, and every subprocess that does not
\* stall ends or is ended, and so does the poll loop.
FairSystemSpec == SystemSpec /\ \A t \in Tests : WF_systemVars(Step(t) /\ UNCHANGED drain)

-----------------------------------------------------------------------------
\* Types; the steps of a request are the three in their order, each but the
\* last a success.
TypeOK ==
  /\ AuditTypeOK
  /\ \A t \in Tests : LET steps == request[t].steps IN
       /\ request[t].pc \in {"idle", "refused", "put", "tick", "flush", "poll", "get",
                             "hung", "commit", "reply", "answered", "failed", "lost"}
       /\ \A i \in DOMAIN steps :
            /\ steps[i].stage = << "put", "poll", "get" >>[i]
            /\ i < Len(steps) => steps[i].success
  /\ drain.state \in {"polling", "drained", "failed", "timeout"}
  /\ \A i \in DOMAIN drain.history : drain.history[i] \in Probe

\* The committed entries with the request's correlation id.
Own(t) == {i \in DOMAIN log : log[i].by = t}

\* A test that has come to its end: its last step, or one that failed.
Whole(steps) == steps # << >> /\ (Len(steps) = 3 \/ ~steps[Len(steps)].success)

\* The log tells all of a test or nothing, at any time and across a crash,
\* that between commit and answer included: the committed entries of a request
\* are its steps up to its end, with their stamps and results, in their order
\* and next to each other, or there are none.  All of them are there when it
\* answers; none, while it is refused or when it raised.
AnswerIsLogged ==
  \A t \in Tests : \E told \in {<< >>, request[t].steps}, k \in 0 .. Len(log) :
    /\ Own(t) = k + 1 .. k + Len(told)
    /\ \A i \in DOMAIN told : /\ log[k + i].lamport = told[i].lamport
                              /\ log[k + i].success = told[i].success
    /\ told # << >> => Whole(told)
    /\ request[t].pc = "answered" => told # << >> /\ told = request[t].steps
    /\ request[t].pc \in {"refused", "failed"} => told = << >>

\* "If this passes, we know the wiring works end-to-end" (message_flow.py:20):
\* a test that passes has read a message with its payload from the consumer
\* queue, its own unless another message bears the same payload, whatever
\* other tests put and read meanwhile.
SuccessMeansDelivered ==
  \A t \in Tests : Successful(t) =>
    LET matching == {m \in Tests \cup {Stale} : Payload[m] = Payload[t]}
    IN  request[t].seen \cap matching # {}

\* A wait ends as its history says: "drained" after ZeroWindow zero readings
\* in a row or with the queue gone, never on scattered ones, and it neither
\* polls on past a full window nor times out after one.
ZeroWindowAt(i) ==
  i >= ZeroWindow /\ \A j \in i - ZeroWindow + 1 .. i : drain.history[j] = "zero"
DrainFollowsHistory ==
  LET n == Len(drain.history)
  IN  /\ drain.state = "drained" =>
           ZeroWindowAt(n) \/ drain.history[n] = "queue_not_found"
      /\ \A i \in 1 .. n : ZeroWindowAt(i) => i = n /\ drain.state = "drained"

\* A request ends and leaves the write lock free, though it polls and reads
\* with its transaction open, unless the stream that it reads amqsget from
\* stalls.
RequestsEnd ==
  \A t \in Tests : Running(t) ~> \/ ~Running(t) /\ ~Holds(t)
                                 \/ request[t].pc = "hung"
=============================================================================
