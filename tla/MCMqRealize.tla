------------------------------ MODULE MCMqRealize ------------------------------
(***************************************************************************)
(* Instances of MqRealize for TLC: two queue managers, A and B.            *)
(***************************************************************************)
EXTENDS MqRealizeProperties

CONSTANTS A, B, Q1, Q2, X1, X2, C1, C2, Dlq

Names == << C1, C2, Q1, Q2, X1, X2, Dlq >>
Rows == << A, B >>
Addresses == [q \in {A, B} |-> q]

Remote(from, put, xmitq, channel, to, get) ==
  [type |-> "Remote", producer_qm |-> from, producer_queue |-> put,
   transmit_queue |-> xmitq, channel |-> channel,
   consumer_qm |-> to, consumer_queue |-> get]
LocalFlow(qm, queue) ==
  [type |-> "Local", producer_qm |-> qm, producer_queue |-> queue,
   transmit_queue |-> NoName, channel |-> NoName,
   consumer_qm |-> qm, consumer_queue |-> queue]

\* One flow each way; what production exports also have: a channel with two
\* transmission queues and a QREMOTE with two targets, two channels on one
\* transmission queue, a name that is both QREMOTE and local queue.
TwoWay == << Remote(A, Q1, X1, C1, B, Q1), Remote(B, Q2, X2, C2, A, Q2) >>
TwoBindings == << Remote(A, Q1, X1, C1, B, Q1), Remote(A, Q1, X2, C1, B, Q2) >>
TwoChannels == << Remote(A, Q1, X1, C1, B, Q1), Remote(A, Q2, X1, C2, B, Q1) >>
TakenTwice == << Remote(A, Q1, X1, C1, B, Q1), LocalFlow(A, Q1) >>

AllTopologies == {TwoWay, TwoBindings, TwoChannels, TakenTwice}
=============================================================================
