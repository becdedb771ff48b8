---------------------------- MODULE MqscDerivation ----------------------------
(***************************************************************************)
(* The MQSC plan of one queue manager, derived from the flows of a         *)
(* topology, and the plan that takes it down (provisioning/                *)
(* mqsc_derivation.py).  Pure: no state.                                   *)
(*                                                                         *)
(* A flow is a record [type, producer_qm, producer_queue, transmit_queue,  *)
(* channel, consumer_qm, consumer_queue].  The text of a command is        *)
(* abstracted to its verb, the object it names and the objects it refers   *)
(* to; `undo` is the verb of its rollback_text.                            *)
(***************************************************************************)
EXTENDS Ranks, Functions

CONSTANTS
  NameOrder,    \* every queue and channel name, in alphabetical order
  Service,      \* the in-cluster address of each queue manager's Service
  DefaultDlq,   \* "SYSTEM.DEAD.LETTER.QUEUE"
  NoName        \* an optional name that is not given

Name == Range(NameOrder)

ASSUME NameAssumption == NameOrder \in Seq(Name)

-----------------------------------------------------------------------------
(* Data shapes *)

Command(verb, kind, name, refers, undo) ==
  [verb |-> verb, kind |-> kind, name |-> name, refers |-> refers, undo |-> undo]

NoRefs == [xmitq |-> NoName]

\* FlowSpec, between queue managers qms: a Local flow stays on one, a Remote
\* one has a transmission queue and a channel.
FlowSpec(qms) ==
  {f \in [type : {"Local", "Remote"}, producer_qm : qms, producer_queue : Name,
          transmit_queue : Name \cup {NoName}, channel : Name \cup {NoName},
          consumer_qm : qms, consumer_queue : Name] :
     /\ f.type = "Local" <=> f.producer_qm = f.consumer_qm
     /\ f.type = "Remote" => f.transmit_queue \in Name /\ f.channel \in Name}

compute_conname(qm) == Service[qm]

\* sorted(names)
Sorted(names) ==
  LET at == Ascending({i \in DOMAIN NameOrder : NameOrder[i] \in names})
  IN  [i \in DOMAIN at |-> NameOrder[at[i]]]

\* The flow that comes first.
First(flows, chosen) == flows[CHOOSE i \in chosen : \A j \in chosen : i <= j]

-----------------------------------------------------------------------------
(* Command builders *)

AlterDeadq(qm) == Command("ALTER", "QMGR", qm, NoRefs, "none")
AlterChlauth(qm) == Command("ALTER", "QMGR", qm, NoRefs, "none")
RefreshSecurity(qm) == Command("REFRESH", "QMGR", qm, NoRefs, "none")
DefineDlq(dlq) == Command("DEFINE", "QLOCAL", dlq, NoRefs, "DELETE")
DefineQlocal(queue) == Command("DEFINE", "QLOCAL", queue, NoRefs, "DELETE")
DefineQxmit(xmitq, trigger) ==
  Command("DEFINE", "QXMIT", xmitq, [trigdata |-> trigger], "DELETE")
\* Mutation: a QREMOTE without rollback text.
DefineQremoteForGood(queue, rname, rqmname, xmitq) ==
  Command("DEFINE", "QREMOTE", queue,
          [rname |-> rname, rqmname |-> rqmname, xmitq |-> xmitq], "none")

DefineQremote(queue, rname, rqmname, xmitq) ==
  Command("DEFINE", "QREMOTE", queue,
          [rname |-> rname, rqmname |-> rqmname, xmitq |-> xmitq], "DELETE")
DefineSdr(channel, xmitq, conname) ==
  Command("DEFINE", "CHANNEL_SDR", channel, [xmitq |-> xmitq, conname |-> conname],
          "DELETE")
StartSdr(channel) == Command("START", "CHANNEL_SDR", channel, NoRefs, "STOP")
DefineRcvr(channel) == Command("DEFINE", "CHANNEL_RCVR", channel, NoRefs, "DELETE")

-----------------------------------------------------------------------------
(* derive_mqsc_for_qm: the walk over the flows.  A dictionary that keeps    *)
(* the first binding of a key is the index of the first flow with the key. *)

Local(flows, qm) ==
  {i \in DOMAIN flows : flows[i].type = "Local" /\ flows[i].producer_qm = qm}
Producing(flows, qm) ==
  {i \in DOMAIN flows : flows[i].type = "Remote" /\ flows[i].producer_qm = qm}
Consuming(flows, qm) ==
  {i \in DOMAIN flows : flows[i].type = "Remote" /\ flows[i].consumer_qm = qm}

LocalQueues(flows, qm) ==
  UNION {{flows[i].producer_queue, flows[i].consumer_queue} : i \in Local(flows, qm)}
\* Mutation: the consumer's queues are left to someone else.
ConsumerLocalsForgotten(flows, qm) == {}

ConsumerLocals(flows, qm) == {flows[i].consumer_queue : i \in Consuming(flows, qm)}
TransmitQueues(flows, qm) == {flows[i].transmit_queue : i \in Producing(flows, qm)}
RemoteQueues(flows, qm) == {flows[i].producer_queue : i \in Producing(flows, qm)}
SenderChannels(flows, qm) == {flows[i].channel : i \in Producing(flows, qm)}
ReceiverChannels(flows, qm) == {flows[i].channel : i \in Consuming(flows, qm)}

QremoteBinding(flows, qm, queue) ==
  First(flows, {i \in Producing(flows, qm) : flows[i].producer_queue = queue})
SdrBinding(flows, qm, channel) ==
  First(flows, {i \in Producing(flows, qm) : flows[i].channel = channel})

\* xmitq_to_channel: the first channel bound to the transmission queue; none
\* if each channel of its flows was bound to another queue before.
TriggerChannel(flows, qm, xmitq) ==
  LET bound == {i \in Producing(flows, qm) :
                  SdrBinding(flows, qm, flows[i].channel).transmit_queue = xmitq}
  IN  IF bound = {} THEN NoName ELSE First(flows, bound).channel

\* The flows that contradict an earlier one, or themselves; the plan warns of
\* them and keeps the first binding.
Warned(flows, qm) ==
  {i \in Local(flows, qm) : flows[i].producer_queue # flows[i].consumer_queue}
  \cup
  {i \in Producing(flows, qm) :
     LET first == QremoteBinding(flows, qm, flows[i].producer_queue)
         sdr   == SdrBinding(flows, qm, flows[i].channel)
     IN  \/ << first.consumer_queue, first.consumer_qm, first.transmit_queue >>
              # << flows[i].consumer_queue, flows[i].consumer_qm, flows[i].transmit_queue >>
         \/ << sdr.transmit_queue, sdr.consumer_qm >>
              # << flows[i].transmit_queue, flows[i].consumer_qm >>}

\* One command for each name, in the order of the names; two for a sender.
QlocalCommands(names) ==
  LET order == Sorted(names) IN [i \in DOMAIN order |-> DefineQlocal(order[i])]
QxmitCommands(flows, qm) ==
  LET order == Sorted(TransmitQueues(flows, qm))
  IN  [i \in DOMAIN order |-> DefineQxmit(order[i], TriggerChannel(flows, qm, order[i]))]
QremoteOf(flows, qm, queue) ==
  LET f == QremoteBinding(flows, qm, queue)
  IN  DefineQremote(queue, f.consumer_queue, f.consumer_qm, f.transmit_queue)
QremoteCommands(flows, qm) ==
  LET order == Sorted(RemoteQueues(flows, qm))
  IN  [i \in DOMAIN order |-> QremoteOf(flows, qm, order[i])]
SdrOf(flows, qm, channel) ==
  LET f == SdrBinding(flows, qm, channel)
  IN  DefineSdr(channel, f.transmit_queue, compute_conname(f.consumer_qm))
SenderCommands(flows, qm) ==
  LET order == Sorted(SenderChannels(flows, qm))
  IN  [i \in 1 .. 2 * Len(order) |->
         IF i % 2 = 1 THEN SdrOf(flows, qm, order[(i + 1) \div 2])
         ELSE StartSdr(order[(i + 1) \div 2])]
ReceiverCommands(flows, qm) ==
  LET order == Sorted(ReceiverChannels(flows, qm))
  IN  [i \in DOMAIN order |-> DefineRcvr(order[i])]

\* The plan: queues before the channels that refer to them.
derive_mqsc_for_qm(flows, qm, dlq) ==
  << AlterDeadq(qm), AlterChlauth(qm), RefreshSecurity(qm), DefineDlq(dlq) >>
  \o QlocalCommands(LocalQueues(flows, qm))
  \o QlocalCommands(ConsumerLocals(flows, qm) \ LocalQueues(flows, qm))
  \o QxmitCommands(flows, qm)
  \o QremoteCommands(flows, qm)
  \o SenderCommands(flows, qm)
  \o ReceiverCommands(flows, qm)

-----------------------------------------------------------------------------
(* inverse_plan: in reverse order, without what has no rollback text and   *)
(* without the queue named like the default dead-letter queue.             *)

TeardownOf(c) == Command(c.undo, c.kind, c.name, NoRefs, c.verb)
Invertible(c) == c.undo # "none" /\ c.name # DefaultDlq

Kept(plan) == {i \in DOMAIN plan : Invertible(plan[i])}

\* Mutation: in the order of the plan.
inverse_plan_forward(plan) ==
  LET kept == Ascending(Kept(plan))
  IN  [i \in DOMAIN kept |-> TeardownOf(plan[kept[i]])]

\* Mutation: all that the plan has defined, the dead-letter queue too.
inverse_plan_with_dlq(plan) ==
  LET kept == Descending({i \in DOMAIN plan : plan[i].undo # "none"})
  IN  [i \in DOMAIN kept |-> TeardownOf(plan[kept[i]])]

inverse_plan(plan) ==
  LET kept == Descending(Kept(plan))
  IN  [i \in DOMAIN kept |-> TeardownOf(plan[kept[i]])]
=============================================================================
