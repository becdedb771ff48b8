-------------------------- MODULE MqRealizeObjectsProofs --------------------------
(***************************************************************************)
(* Proofs about the MQ objects that MqRealize leaves on the queue managers,*)
(* for any topology, any number of runs, queue managers and troubles.      *)
(*                                                                         *)
(*   the plans of MqscDerivation: what they hold and in which order        *)
(*   one command: what it makes of the objects, and of what was there      *)
(*   WalkInv: where a run is in its queue managers and its plan            *)
(*   Alone: the last run that nothing disturbed runs alone                 *)
(*   ProgressInv: what it has sent without a failure is fulfilled          *)
(*   Faultless: it fails nothing that the environment does not fail        *)
(*   RefsInv: no reference dangles, at any point of any plan               *)
(*                                                                         *)
(* and, last, that the dead-letter queue stays, and the types and counters  *)
(* of a run (TypeInv).                                                     *)
(***************************************************************************)
EXTENDS MqRealizeProofs, RankProofs

-----------------------------------------------------------------------------
(* Sequences and names *)

Has(k, c) == \E i \in 1 .. Len(k) : k[i] = c

\* Up to a position k has elements of A, and of B after it.
Split(k, A, B) ==
  \E m \in Nat : \A i \in 1 .. Len(k) : (i <= m => k[i] \in A) /\ (~(i <= m) => k[i] \in B)

\* What k has of late comes right after what it needs: pairs of both.
Follows(k, late, pairs) ==
  \A i \in 1 .. Len(k) : k[i] \in late =>
    i - 1 \in 1 .. Len(k) /\ << k[i - 1], k[i] >> \in pairs

\* What k has of early comes right before what needs it.
Leads(k, early, pairs) ==
  \A i \in 1 .. Len(k) : k[i] \in early =>
    i + 1 \in 1 .. Len(k) /\ << k[i], k[i + 1] >> \in pairs

LEMMA Concat ==
  ASSUME NEW C, NEW a \in Seq(C), NEW b \in Seq(C)
  PROVE  /\ a \o b \in Seq(C)
         /\ \A c : Has(a, c) \/ Has(b, c) => Has(a \o b, c)
<1>1. /\ a \o b \in Seq(C) /\ Len(a \o b) = Len(a) + Len(b)
      /\ \A i \in 1 .. Len(a) : (a \o b)[i] = a[i]
      /\ \A i \in 1 .. Len(b) : (a \o b)[Len(a) + i] = b[i]
      /\ Len(a) \in Nat /\ Len(b) \in Nat
  OBVIOUS
<1> DEFINE k == a \o b
<1> HIDE DEF k
<1>2. ASSUME NEW c, Has(a, c) \/ Has(b, c) PROVE Has(k, c)
  <2>1. CASE Has(a, c)
    <3>1. PICK i \in 1 .. Len(a) : a[i] = c
      BY <2>1 DEF Has
    <3>2. i \in 1 .. Len(k) /\ k[i] = c
      BY <1>1, <3>1 DEF k
    <3> QED BY <3>2 DEF Has
  <2>2. CASE Has(b, c)
    <3>1. PICK i \in 1 .. Len(b) : b[i] = c
      BY <2>2 DEF Has
    <3>2. Len(a) + i \in 1 .. Len(k) /\ k[Len(a) + i] = c
      BY <1>1, <3>1 DEF k
    <3> QED BY <3>2 DEF Has
  <2> QED BY <1>2, <2>1, <2>2
<1> QED BY <1>1, <1>2 DEF k

LEMMA Wider ==
  ASSUME NEW A, NEW B, A \subseteq B, NEW k \in Seq(A)
  PROVE  k \in Seq(B)
OBVIOUS

LEMMA NoneFollows ==
  ASSUME NEW A, NEW k \in Seq(A), NEW late, A \cap late = {}, NEW pairs
  PROVE  Follows(k, late, pairs) /\ Leads(k, late, pairs)
<1>1. \A i \in 1 .. Len(k) : k[i] \in A
  OBVIOUS
<1> QED BY <1>1 DEF Follows, Leads

LEMMA SplitStart ==
  ASSUME NEW A, NEW B, NEW k \in Seq(A)
  PROVE  Split(k, A, B)
<1>1. Len(k) \in Nat /\ \A i \in 1 .. Len(k) : k[i] \in A /\ i <= Len(k)
  OBVIOUS
<1> QED BY <1>1 DEF Split

LEMMA SplitConcat ==
  ASSUME NEW A, NEW B, NEW C, NEW a \in Seq(C), NEW b \in Seq(C),
         Split(a, A, B), b \in Seq(B)
  PROVE  Split(a \o b, A, B)
<1>1. /\ Len(a \o b) = Len(a) + Len(b) /\ Len(a) \in Nat /\ Len(b) \in Nat
      /\ \A i \in 1 .. Len(a) : (a \o b)[i] = a[i]
      /\ \A i \in 1 .. Len(b) : (a \o b)[Len(a) + i] = b[i]
  OBVIOUS
<1>2. PICK m \in Nat : \A i \in 1 .. Len(a) :
                         (i <= m => a[i] \in A) /\ (~(i <= m) => a[i] \in B)
  BY DEF Split
<1> DEFINE l == IF m <= Len(a) THEN m ELSE Len(a)
           k == a \o b
<1>3. l \in Nat /\ l <= Len(a) /\ \A i \in 1 .. Len(a) : i <= l <=> i <= m
  BY <1>1
<1> HIDE DEF l, k
<1>4. ASSUME NEW i \in 1 .. Len(k)
      PROVE  (i <= l => k[i] \in A) /\ (~(i <= l) => k[i] \in B)
  <2>1. CASE i \in 1 .. Len(a)
    BY <1>1, <1>2, <1>3, <2>1 DEF k
  <2>2. CASE i \notin 1 .. Len(a)
    <3>1. i - Len(a) \in 1 .. Len(b) /\ Len(a) + (i - Len(a)) = i /\ ~(i <= l)
      BY <1>1, <1>3, <2>2 DEF k
    <3>2. k[i] = b[i - Len(a)]
      BY <1>1, <3>1 DEF k
    <3>3. b[i - Len(a)] \in B
      BY <3>1
    <3> QED BY <3>1, <3>2, <3>3
  <2> QED BY <2>1, <2>2
<1> QED BY <1>3, <1>4 DEF Split, k

LEMMA FollowsConcat ==
  ASSUME NEW C, NEW a \in Seq(C), NEW b \in Seq(C), NEW late, NEW pairs,
         Follows(a, late, pairs), Follows(b, late, pairs)
  PROVE  Follows(a \o b, late, pairs)
<1> DEFINE k == a \o b
<1>1. /\ Len(k) = Len(a) + Len(b) /\ Len(a) \in Nat /\ Len(b) \in Nat
      /\ \A i \in 1 .. Len(a) : k[i] = a[i]
      /\ \A i \in 1 .. Len(b) : k[Len(a) + i] = b[i]
  OBVIOUS
<1> HIDE DEF k
<1>2. ASSUME NEW i \in 1 .. Len(k), k[i] \in late
      PROVE  i - 1 \in 1 .. Len(k) /\ << k[i - 1], k[i] >> \in pairs
  <2>1. CASE i \in 1 .. Len(a)
    <3>1. i - 1 \in 1 .. Len(a) /\ << a[i - 1], a[i] >> \in pairs
      BY <1>1, <1>2, <2>1 DEF Follows
    <3>2. k[i - 1] = a[i - 1] /\ k[i] = a[i] /\ i - 1 \in 1 .. Len(k)
      BY <1>1, <2>1, <3>1
    <3> QED BY <3>1, <3>2
  <2>2. CASE i \notin 1 .. Len(a)
    <3>1. i - Len(a) \in 1 .. Len(b) /\ Len(a) + (i - Len(a)) = i
          /\ Len(a) + ((i - Len(a)) - 1) = i - 1
      BY <1>1, <2>2
    <3>2. k[i] = b[i - Len(a)]
      BY <1>1, <3>1
    <3>3. (i - Len(a)) - 1 \in 1 .. Len(b) /\ << b[(i - Len(a)) - 1], b[i - Len(a)] >> \in pairs
      BY <1>2, <3>1, <3>2 DEF Follows
    <3>4. k[i - 1] = b[(i - Len(a)) - 1] /\ i - 1 \in 1 .. Len(k)
      BY <1>1, <3>1, <3>3
    <3> QED BY <3>2, <3>3, <3>4
  <2> QED BY <2>1, <2>2
<1> QED BY <1>2 DEF Follows, k

LEMMA LeadsConcat ==
  ASSUME NEW C, NEW a \in Seq(C), NEW b \in Seq(C), NEW early, NEW pairs,
         Leads(a, early, pairs), Leads(b, early, pairs)
  PROVE  Leads(a \o b, early, pairs)
<1> DEFINE k == a \o b
<1>1. /\ Len(k) = Len(a) + Len(b) /\ Len(a) \in Nat /\ Len(b) \in Nat
      /\ \A i \in 1 .. Len(a) : k[i] = a[i]
      /\ \A i \in 1 .. Len(b) : k[Len(a) + i] = b[i]
  OBVIOUS
<1> HIDE DEF k
<1>2. ASSUME NEW i \in 1 .. Len(k), k[i] \in early
      PROVE  i + 1 \in 1 .. Len(k) /\ << k[i], k[i + 1] >> \in pairs
  <2>1. CASE i \in 1 .. Len(a)
    <3>1. i + 1 \in 1 .. Len(a) /\ << a[i], a[i + 1] >> \in pairs
      BY <1>1, <1>2, <2>1 DEF Leads
    <3>2. k[i + 1] = a[i + 1] /\ k[i] = a[i] /\ i + 1 \in 1 .. Len(k)
      BY <1>1, <2>1, <3>1
    <3> QED BY <3>1, <3>2
  <2>2. CASE i \notin 1 .. Len(a)
    <3>1. i - Len(a) \in 1 .. Len(b) /\ Len(a) + (i - Len(a)) = i
          /\ Len(a) + ((i - Len(a)) + 1) = i + 1
      BY <1>1, <2>2
    <3>2. k[i] = b[i - Len(a)]
      BY <1>1, <3>1
    <3>3. (i - Len(a)) + 1 \in 1 .. Len(b) /\ << b[i - Len(a)], b[(i - Len(a)) + 1] >> \in pairs
      BY <1>2, <3>1, <3>2 DEF Leads
    <3>4. k[i + 1] = b[(i - Len(a)) + 1] /\ i + 1 \in 1 .. Len(k)
      BY <1>1, <3>1, <3>3
    <3> QED BY <3>2, <3>3, <3>4
  <2> QED BY <2>1, <2>2
<1> QED BY <1>2 DEF Leads, k

\* sorted() lists each of the names.
LEMMA SortedFacts ==
  ASSUME NEW names \in SUBSET Name
  PROVE  /\ Sorted(names) \in Seq(names)
         /\ \A n \in names : \E i \in DOMAIN Sorted(names) : Sorted(names)[i] = n
<1> DEFINE chosen == {i \in DOMAIN NameOrder : NameOrder[i] \in names}
           at == Ascending(chosen)
<1>1. /\ Len(NameOrder) \in Nat /\ DOMAIN NameOrder = 1 .. Len(NameOrder)
  BY NameAssumption
<1>2. IsFiniteSet(chosen) /\ chosen \in SUBSET Nat
  <2>1. IsFiniteSet(1 .. Len(NameOrder))
    BY <1>1, FS_Interval
  <2>2. chosen \in SUBSET (1 .. Len(NameOrder))
    BY <1>1
  <2> HIDE DEF chosen
  <2>3. IsFiniteSet(chosen)
    BY <2>1, <2>2, FS_Subset
  <2>4. chosen \in SUBSET Nat
    BY <1>1, <2>2
  <2> QED BY <2>3, <2>4
<1>3. /\ at \in Seq(chosen)
      /\ \A n \in chosen : \E i \in 1 .. Cardinality(chosen) : at[i] = n
      /\ Len(at) = Cardinality(chosen)
  BY <1>2, AscendingFacts
<1>4. DOMAIN Sorted(names) = DOMAIN at /\ \A i \in DOMAIN at : Sorted(names)[i] = NameOrder[at[i]]
  BY DEF Sorted
<1>5. Len(at) \in Nat /\ DOMAIN at = 1 .. Len(at) /\ \A i \in DOMAIN at : at[i] \in chosen
  <2> HIDE DEF chosen, at
  <2> QED BY <1>3
<1>6. Sorted(names) = [i \in 1 .. Len(at) |-> NameOrder[at[i]]]
  BY <1>5 DEF Sorted
<1>7. \A i \in 1 .. Len(at) : NameOrder[at[i]] \in names
  BY <1>5
<1> HIDE DEF at
<1>8. Sorted(names) \in Seq(names)
  BY <1>5, <1>6, <1>7
<1>9. ASSUME NEW n \in names PROVE \E i \in DOMAIN Sorted(names) : Sorted(names)[i] = n
  <2>1. PICK j \in DOMAIN NameOrder : NameOrder[j] = n
    BY DEF Name, Range
  <2>2. j \in chosen
    BY <2>1
  <2>3. PICK i \in DOMAIN at : at[i] = j
    BY <1>3, <1>5, <2>2
  <2> QED BY <1>4, <2>1, <2>3
<1> QED BY <1>8, <1>9

\* The first of some flows is one of them.
LEMMA FirstFacts ==
  ASSUME NEW X, NEW fl \in Seq(X), NEW chosen \in SUBSET DOMAIN fl, chosen # {}
  PROVE  \E i \in chosen : First(fl, chosen) = fl[i]
<1>1. IsFiniteSet(chosen) /\ chosen \in SUBSET Nat
  <2>1. Len(fl) \in Nat /\ DOMAIN fl = 1 .. Len(fl)
    OBVIOUS
  <2>2. IsFiniteSet(1 .. Len(fl))
    BY <2>1, FS_Interval
  <2> QED BY <2>1, <2>2, FS_Subset
<1>2. \E i \in chosen : \A j \in chosen : i <= j
  BY <1>1, LeastElement
<1> QED BY <1>2 DEF First

-----------------------------------------------------------------------------
(* The commands a plan may hold *)

\* The topologies that there are.
FlowsOK(fl) ==
  fl \in Seq(FlowSpec(Qm)) /\ \A i \in DOMAIN fl : fl[i].channel # DefaultDlq

LocalNames(fl, qm) == {DefaultDlq} \cup LocalQueues(fl, qm) \cup ConsumerLocals(fl, qm)

Settings(qm) == {AlterDeadq(qm), AlterChlauth(qm), RefreshSecurity(qm)}
Locals(fl, qm) == {DefineQlocal(n) : n \in LocalNames(fl, qm)}
Xmits(fl, qm) ==
  {DefineQxmit(x, TriggerChannel(fl, qm, x)) : x \in TransmitQueues(fl, qm)}
Remotes(fl, qm) == {QremoteOf(fl, qm, q) : q \in RemoteQueues(fl, qm)}
Senders(fl, qm) == {SdrOf(fl, qm, c) : c \in SenderChannels(fl, qm)}
Starts(fl, qm) == {StartSdr(c) : c \in SenderChannels(fl, qm)}
Receivers(fl, qm) == {DefineRcvr(c) : c \in ReceiverChannels(fl, qm)}

Head1(fl, qm) == Settings(qm) \cup Locals(fl, qm) \cup Xmits(fl, qm)
Tail1(fl, qm) ==
  Remotes(fl, qm) \cup Senders(fl, qm) \cup Starts(fl, qm) \cup Receivers(fl, qm)

LEMMA NameSets ==
  ASSUME NEW fl, FlowsOK(fl), NEW qm
  PROVE  /\ LocalQueues(fl, qm) \in SUBSET Name /\ ConsumerLocals(fl, qm) \in SUBSET Name
         /\ TransmitQueues(fl, qm) \in SUBSET Name /\ RemoteQueues(fl, qm) \in SUBSET Name
         /\ SenderChannels(fl, qm) \in SUBSET (Name \ {DefaultDlq})
         /\ ReceiverChannels(fl, qm) \in SUBSET (Name \ {DefaultDlq})
<1>1. \A i \in DOMAIN fl :
        /\ fl[i].producer_queue \in Name /\ fl[i].consumer_queue \in Name
        /\ fl[i].type = "Remote" => /\ fl[i].transmit_queue \in Name
                                    /\ fl[i].channel \in Name \ {DefaultDlq}
  BY DEF FlowsOK, FlowSpec
<1> QED BY <1>1 DEF LocalQueues, ConsumerLocals, TransmitQueues, RemoteQueues, SenderChannels,
        ReceiverChannels, Local, Producing, Consuming

LEMMA QlocalSection ==
  ASSUME NEW fl, FlowsOK(fl), NEW qm, NEW names \in SUBSET LocalNames(fl, qm),
         names \in SUBSET Name
  PROVE  /\ QlocalCommands(names) \in Seq(Locals(fl, qm))
         /\ \A n \in names : Has(QlocalCommands(names), DefineQlocal(n))
<1> DEFINE order == Sorted(names)
<1>1. order \in Seq(names) /\ \A n \in names : \E i \in DOMAIN order : order[i] = n
  BY SortedFacts
<1>2. QlocalCommands(names) = [i \in DOMAIN order |-> DefineQlocal(order[i])]
  BY DEF QlocalCommands
<1> HIDE DEF order
<1>3. /\ Len(order) \in Nat /\ DOMAIN order = 1 .. Len(order)
      /\ \A i \in DOMAIN order : order[i] \in names
  BY <1>1
<1>4. \A i \in 1 .. Len(order) : DefineQlocal(order[i]) \in Locals(fl, qm)
  BY <1>3 DEF Locals
<1>5. QlocalCommands(names) \in Seq(Locals(fl, qm))
  BY <1>2, <1>3, <1>4
<1>6. Len(QlocalCommands(names)) = Len(order)
  BY <1>2, <1>3
<1> QED BY <1>1, <1>2, <1>3, <1>5, <1>6 DEF Has

LEMMA QxmitSection ==
  ASSUME NEW fl, FlowsOK(fl), NEW qm
  PROVE  /\ QxmitCommands(fl, qm) \in Seq(Xmits(fl, qm))
         /\ \A c \in Xmits(fl, qm) : Has(QxmitCommands(fl, qm), c)
<1> DEFINE names == TransmitQueues(fl, qm)
           order == Sorted(names)
           Build(n) == DefineQxmit(n, TriggerChannel(fl, qm, n))
<1>1. order \in Seq(names) /\ \A n \in names : \E i \in DOMAIN order : order[i] = n
  BY NameSets, SortedFacts
<1>2. QxmitCommands(fl, qm) = [i \in DOMAIN order |-> Build(order[i])]
  BY DEF QxmitCommands
<1>3. Xmits(fl, qm) = {Build(n) : n \in names}
  BY DEF Xmits
<1> HIDE DEF order, names, Build
<1>4. /\ Len(order) \in Nat /\ DOMAIN order = 1 .. Len(order)
      /\ \A i \in DOMAIN order : order[i] \in names
  BY <1>1
<1>5. \A i \in 1 .. Len(order) : Build(order[i]) \in Xmits(fl, qm)
  BY <1>3, <1>4
<1>6. QxmitCommands(fl, qm) \in Seq(Xmits(fl, qm))
  BY <1>2, <1>4, <1>5
<1>7. Len(QxmitCommands(fl, qm)) = Len(order)
  BY <1>2, <1>4
<1> QED BY <1>1, <1>2, <1>3, <1>4, <1>6, <1>7 DEF Has

LEMMA QremoteSection ==
  ASSUME NEW fl, FlowsOK(fl), NEW qm
  PROVE  /\ QremoteCommands(fl, qm) \in Seq(Remotes(fl, qm))
         /\ \A c \in Remotes(fl, qm) : Has(QremoteCommands(fl, qm), c)
<1> DEFINE names == RemoteQueues(fl, qm)
           order == Sorted(names)
<1>1. order \in Seq(names) /\ \A n \in names : \E i \in DOMAIN order : order[i] = n
  BY NameSets, SortedFacts
<1>2. QremoteCommands(fl, qm) = [i \in DOMAIN order |-> QremoteOf(fl, qm, order[i])]
  BY DEF QremoteCommands
<1> HIDE DEF order, names
<1>3. Remotes(fl, qm) = {QremoteOf(fl, qm, n) : n \in names}
  BY DEF Remotes, names
<1>4. /\ Len(order) \in Nat /\ DOMAIN order = 1 .. Len(order)
      /\ \A i \in DOMAIN order : order[i] \in names
  BY <1>1
<1>5. \A i \in 1 .. Len(order) : QremoteOf(fl, qm, order[i]) \in Remotes(fl, qm)
  BY <1>3, <1>4
<1>6. QremoteCommands(fl, qm) \in Seq(Remotes(fl, qm))
  BY <1>2, <1>4, <1>5
<1>7. Len(QremoteCommands(fl, qm)) = Len(order)
  BY <1>2, <1>4
<1> QED BY <1>1, <1>2, <1>3, <1>4, <1>6, <1>7 DEF Has

LEMMA ReceiverSection ==
  ASSUME NEW fl, FlowsOK(fl), NEW qm
  PROVE  /\ ReceiverCommands(fl, qm) \in Seq(Receivers(fl, qm))
         /\ \A c \in Receivers(fl, qm) : Has(ReceiverCommands(fl, qm), c)
<1> DEFINE names == ReceiverChannels(fl, qm)
           order == Sorted(names)
<1>1. order \in Seq(names) /\ \A n \in names : \E i \in DOMAIN order : order[i] = n
  BY NameSets, SortedFacts
<1>2. ReceiverCommands(fl, qm) = [i \in DOMAIN order |-> DefineRcvr(order[i])]
  BY DEF ReceiverCommands
<1> HIDE DEF order, names
<1>3. Receivers(fl, qm) = {DefineRcvr(n) : n \in names}
  BY DEF Receivers, names
<1>4. /\ Len(order) \in Nat /\ DOMAIN order = 1 .. Len(order)
      /\ \A i \in DOMAIN order : order[i] \in names
  BY <1>1
<1>5. \A i \in 1 .. Len(order) : DefineRcvr(order[i]) \in Receivers(fl, qm)
  BY <1>3, <1>4
<1>6. ReceiverCommands(fl, qm) \in Seq(Receivers(fl, qm))
  BY <1>2, <1>4, <1>5
<1>7. Len(ReceiverCommands(fl, qm)) = Len(order)
  BY <1>2, <1>4
<1> QED BY <1>1, <1>2, <1>3, <1>4, <1>6, <1>7 DEF Has

\* Each START with the DEFINE it follows.
StartPairs(fl, qm) ==
  {<< SdrOf(fl, qm, c), StartSdr(c) >> : c \in SenderChannels(fl, qm)}

\* Each sender is defined and started right after.
LEMMA SenderSection ==
  ASSUME NEW fl, FlowsOK(fl), NEW qm
  PROVE  LET part == SenderCommands(fl, qm)
         IN  /\ part \in Seq(Senders(fl, qm) \cup Starts(fl, qm))
             /\ \A c \in SenderChannels(fl, qm) : Has(part, SdrOf(fl, qm, c))
             /\ Leads(part, Senders(fl, qm), StartPairs(fl, qm))
             /\ Follows(part, Starts(fl, qm), StartPairs(fl, qm))
<1> DEFINE names == SenderChannels(fl, qm)
           order == Sorted(names)
           part == SenderCommands(fl, qm)
<1>1. order \in Seq(names) /\ \A n \in names : \E i \in DOMAIN order : order[i] = n
  BY NameSets, SortedFacts
<1>2. part = [i \in 1 .. 2 * Len(order) |->
                IF i % 2 = 1 THEN SdrOf(fl, qm, order[(i + 1) \div 2])
                ELSE StartSdr(order[(i + 1) \div 2])]
  BY DEF SenderCommands
<1> HIDE DEF order, part
<1>3. /\ Len(order) \in Nat /\ DOMAIN order = 1 .. Len(order)
      /\ \A i \in DOMAIN order : order[i] \in names
  BY <1>1
<1>4. \A i \in 1 .. 2 * Len(order) : (i + 1) \div 2 \in 1 .. Len(order)
  BY <1>3
<1>5. \A i \in 1 .. 2 * Len(order) :
        part[i] \in {SdrOf(fl, qm, order[(i + 1) \div 2]), StartSdr(order[(i + 1) \div 2])}
  BY <1>2
<1>6. \A i \in 1 .. 2 * Len(order) : part[i] \in Senders(fl, qm) \cup Starts(fl, qm)
  BY <1>3, <1>4, <1>5 DEF Senders, Starts
<1>7. /\ part \in Seq(Senders(fl, qm) \cup Starts(fl, qm)) /\ Len(part) = 2 * Len(order)
  <2>1. part \in [1 .. 2 * Len(order) -> Senders(fl, qm) \cup Starts(fl, qm)]
    BY <1>2, <1>6
  <2>2. 2 * Len(order) \in Nat
    BY <1>3
  <2> QED BY <2>1, <2>2
<1>8. ASSUME NEW c \in names PROVE \E i \in 1 .. Len(part) : part[i] = SdrOf(fl, qm, c)
  <2>1. PICK j \in 1 .. Len(order) : order[j] = c
    BY <1>1, <1>3
  <2>2. 2 * j - 1 \in 1 .. Len(part) /\ (2 * j - 1) % 2 = 1 /\ ((2 * j - 1) + 1) \div 2 = j
    BY <1>3, <1>7
  <2>3. part[2 * j - 1] = SdrOf(fl, qm, c)
    BY <1>2, <1>7, <2>1, <2>2
  <2> QED BY <2>2, <2>3
<1>10. ASSUME NEW i \in 1 .. Len(part), part[i] \in Senders(fl, qm)
       PROVE  \E c \in names : /\ part[i] = SdrOf(fl, qm, c)
                               /\ i + 1 \in 1 .. Len(part) /\ part[i + 1] = StartSdr(c)
  <2>1. i % 2 = 1
    <3>1. part[i].verb = "DEFINE"
      BY <1>10 DEF Senders, SdrOf, DefineSdr, Command
    <3>2. i % 2 # 1 => part[i].verb = "START"
      BY <1>2, <1>7 DEF StartSdr, Command
    <3> QED BY <3>1, <3>2
  <2>2. /\ i + 1 \in 1 .. Len(part) /\ (i + 1) % 2 # 1 /\ ((i + 1) + 1) \div 2 = (i + 1) \div 2
        /\ (i + 1) \div 2 \in 1 .. Len(order)
    BY <1>3, <1>7, <2>1
  <2>3. /\ part[i] = SdrOf(fl, qm, order[(i + 1) \div 2])
        /\ part[i + 1] = StartSdr(order[(i + 1) \div 2])
    BY <1>2, <1>7, <2>1, <2>2
  <2> QED BY <1>3, <2>2, <2>3
<1>9. ASSUME NEW i \in 1 .. Len(part), part[i] \in Starts(fl, qm)
      PROVE  \E c \in names : /\ part[i] = StartSdr(c)
                              /\ i - 1 \in 1 .. Len(part) /\ part[i - 1] = SdrOf(fl, qm, c)
  <2>1. i % 2 # 1
    <3>1. part[i].verb = "START"
      BY <1>9 DEF Starts, StartSdr, Command
    <3>2. i % 2 = 1 => part[i].verb = "DEFINE"
      BY <1>2, <1>7 DEF SdrOf, DefineSdr, Command
    <3> QED BY <3>1, <3>2
  <2>2. /\ i - 1 \in 1 .. Len(part) /\ (i - 1) % 2 = 1 /\ ((i - 1) + 1) \div 2 = (i + 1) \div 2
        /\ (i + 1) \div 2 \in 1 .. Len(order)
    BY <1>3, <1>7, <2>1
  <2>3. /\ part[i] = StartSdr(order[(i + 1) \div 2])
        /\ part[i - 1] = SdrOf(fl, qm, order[(i + 1) \div 2])
    BY <1>2, <1>7, <2>1, <2>2
  <2> QED BY <1>3, <2>2, <2>3
<1> QED BY <1>7, <1>8, <1>9, <1>10 DEF part, names, Has, Follows, Leads, StartPairs

\* The whole plan: first the settings and the queues that others refer to,
\* then what refers to them; every command there is; a START after its DEFINE.
LEMMA PlanShape ==
  ASSUME NEW fl, FlowsOK(fl), NEW qm
  PROVE  LET plan == derive_mqsc_for_qm(fl, qm, DefaultDlq)
         IN  /\ plan \in Seq(Head1(fl, qm) \cup Tail1(fl, qm))
             /\ Split(plan, Head1(fl, qm), Tail1(fl, qm))
             /\ \A c \in Locals(fl, qm) \cup Xmits(fl, qm) \cup Remotes(fl, qm)
                           \cup Senders(fl, qm) \cup Receivers(fl, qm) : Has(plan, c)
             /\ Leads(plan, Senders(fl, qm), StartPairs(fl, qm))
             /\ Follows(plan, Starts(fl, qm), StartPairs(fl, qm))
<1> DEFINE own == LocalQueues(fl, qm)
           far == ConsumerLocals(fl, qm) \ LocalQueues(fl, qm)
           p0 == << AlterDeadq(qm), AlterChlauth(qm), RefreshSecurity(qm), DefineDlq(DefaultDlq) >>
           p1 == QlocalCommands(own)
           p2 == QlocalCommands(far)
           p3 == QxmitCommands(fl, qm)
           p4 == QremoteCommands(fl, qm)
           p5 == SenderCommands(fl, qm)
           p6 == ReceiverCommands(fl, qm)
           H == Head1(fl, qm)
           T == Tail1(fl, qm)
           C == H \cup T
           late == Starts(fl, qm)
           early == Senders(fl, qm)
           pairs == StartPairs(fl, qm)
<1>1. p0 \in Seq(H) /\ Has(p0, DefineQlocal(DefaultDlq))
  <2>1. /\ AlterDeadq(qm) \in H /\ AlterChlauth(qm) \in H /\ RefreshSecurity(qm) \in H
        /\ DefineDlq(DefaultDlq) = DefineQlocal(DefaultDlq)
    BY DEF Head1, Settings, DefineDlq, DefineQlocal
  <2>2. DefineDlq(DefaultDlq) \in H
    BY <2>1 DEF Head1, Locals, LocalNames
  <2> HIDE DEF H
  <2>3. p0 \in Seq(H) /\ Len(p0) = 4 /\ p0[4] = DefineDlq(DefaultDlq)
    BY <2>1, <2>2
  <2> QED BY <2>1, <2>3 DEF Has
<1>2. /\ own \in SUBSET Name /\ own \in SUBSET LocalNames(fl, qm)
      /\ far \in SUBSET Name /\ far \in SUBSET LocalNames(fl, qm)
  BY NameSets DEF LocalNames
<1>3. /\ p1 \in Seq(Locals(fl, qm)) /\ p2 \in Seq(Locals(fl, qm)) /\ p3 \in Seq(Xmits(fl, qm))
      /\ p4 \in Seq(Remotes(fl, qm)) /\ p5 \in Seq(Senders(fl, qm) \cup Starts(fl, qm))
      /\ p6 \in Seq(Receivers(fl, qm))
  BY <1>2, QlocalSection, QxmitSection, QremoteSection, SenderSection, ReceiverSection
<1>4. /\ \A n \in own : Has(p1, DefineQlocal(n))
      /\ \A n \in far : Has(p2, DefineQlocal(n))
      /\ \A c \in Xmits(fl, qm) : Has(p3, c)
      /\ \A c \in Remotes(fl, qm) : Has(p4, c)
      /\ \A c \in Receivers(fl, qm) : Has(p6, c)
  BY <1>2, QlocalSection, QxmitSection, QremoteSection, ReceiverSection
<1>5. /\ \A c \in Senders(fl, qm) : Has(p5, c)
      /\ Follows(p5, late, pairs) /\ Leads(p5, early, pairs)
  BY SenderSection DEF Senders
<1>6. derive_mqsc_for_qm(fl, qm, DefaultDlq) = p0 \o p1 \o p2 \o p3 \o p4 \o p5 \o p6
  BY DEF derive_mqsc_for_qm
<1>7. \A c \in Locals(fl, qm) : \/ c = DefineQlocal(DefaultDlq)
                                \/ \E n \in own : c = DefineQlocal(n)
                                \/ \E n \in far : c = DefineQlocal(n)
  BY DEF Locals, LocalNames
<1>8. /\ Remotes(fl, qm) \cap late = {} /\ Receivers(fl, qm) \cap late = {}
      /\ H \cap late = {}
      /\ Remotes(fl, qm) \cap early = {} /\ Receivers(fl, qm) \cap early = {}
      /\ H \cap early = {}
  BY DEF Senders, SdrOf, DefineSdr, Remotes, Receivers, Head1, Settings, Locals, Xmits, Starts,
         QremoteOf, DefineQremote,
         DefineRcvr, AlterDeadq, AlterChlauth, RefreshSecurity, DefineQlocal, DefineQxmit,
         StartSdr, Command
<1>9. /\ Locals(fl, qm) \subseteq H /\ Xmits(fl, qm) \subseteq H
      /\ Remotes(fl, qm) \subseteq T /\ Senders(fl, qm) \cup Starts(fl, qm) \subseteq T
      /\ Receivers(fl, qm) \subseteq T /\ H \subseteq C /\ T \subseteq C
  BY DEF Head1, Tail1
<1> HIDE DEF own, far, p0, p1, p2, p3, p4, p5, p6, H, T, C, late, early, pairs
<1>10. /\ p1 \in Seq(H) /\ p2 \in Seq(H) /\ p3 \in Seq(H)
       /\ p4 \in Seq(T) /\ p5 \in Seq(T) /\ p6 \in Seq(T)
  BY <1>3, <1>9, Wider
<1>11. /\ p0 \in Seq(C) /\ p1 \in Seq(C) /\ p2 \in Seq(C) /\ p3 \in Seq(C)
       /\ p4 \in Seq(C) /\ p5 \in Seq(C) /\ p6 \in Seq(C)
  BY <1>1, <1>9, <1>10, Wider
<1>12. /\ Follows(p0, late, pairs) /\ Follows(p1, late, pairs) /\ Follows(p2, late, pairs)
       /\ Follows(p3, late, pairs) /\ Follows(p4, late, pairs) /\ Follows(p6, late, pairs)
       /\ Leads(p0, early, pairs) /\ Leads(p1, early, pairs) /\ Leads(p2, early, pairs)
       /\ Leads(p3, early, pairs) /\ Leads(p4, early, pairs) /\ Leads(p6, early, pairs)
  BY <1>1, <1>3, <1>8, <1>10, NoneFollows
<1> DEFINE k1 == p0 \o p1
           k2 == k1 \o p2
           k3 == k2 \o p3
           k4 == k3 \o p4
           k5 == k4 \o p5
           k6 == k5 \o p6
<1>13. /\ k1 \in Seq(C)
       /\ k1 \in Seq(H)
       /\ \A c : Has(p0, c) \/ Has(p1, c) => Has(k1, c)
       /\ Follows(k1, late, pairs) /\ Leads(k1, early, pairs)
  <2>1. /\ p0 \in Seq(C) /\ Follows(p0, late, pairs) /\ Leads(p0, early, pairs)
        /\ p1 \in Seq(C) /\ Follows(p1, late, pairs) /\ Leads(p1, early, pairs)
    BY <1>5, <1>11, <1>12
  <2>2. k1 \in Seq(C) /\ \A c : Has(p0, c) \/ Has(p1, c) => Has(k1, c)
    BY <2>1, Concat, Zenon
  <2>3. Leads(k1, early, pairs)
    BY <2>1, LeadsConcat, Zenon
  <2>4. Follows(k1, late, pairs)
    BY <2>1, FollowsConcat, Zenon
  <2>5. k1 \in Seq(H)
    BY <1>1, <1>10, Concat, Zenon
  <2> QED BY <2>2, <2>3, <2>4, <2>5
<1> HIDE DEF k1
<1>14. /\ k2 \in Seq(C)
       /\ k2 \in Seq(H)
       /\ \A c : Has(k1, c) \/ Has(p2, c) => Has(k2, c)
       /\ Follows(k2, late, pairs) /\ Leads(k2, early, pairs)
  <2>1. /\ k1 \in Seq(C) /\ Follows(k1, late, pairs) /\ Leads(k1, early, pairs)
        /\ p2 \in Seq(C) /\ Follows(p2, late, pairs) /\ Leads(p2, early, pairs)
    BY <1>5, <1>11, <1>12, <1>13
  <2>2. k2 \in Seq(C) /\ \A c : Has(k1, c) \/ Has(p2, c) => Has(k2, c)
    BY <2>1, Concat, Zenon
  <2>3. Leads(k2, early, pairs)
    BY <2>1, LeadsConcat, Zenon
  <2>4. Follows(k2, late, pairs)
    BY <2>1, FollowsConcat, Zenon
  <2>5. k2 \in Seq(H)
    BY <1>1, <1>10, <1>13, Concat, Zenon
  <2> QED BY <2>2, <2>3, <2>4, <2>5
<1> HIDE DEF k2
<1>15. /\ k3 \in Seq(C)
       /\ k3 \in Seq(H)
       /\ \A c : Has(k2, c) \/ Has(p3, c) => Has(k3, c)
       /\ Follows(k3, late, pairs) /\ Leads(k3, early, pairs)
  <2>1. /\ k2 \in Seq(C) /\ Follows(k2, late, pairs) /\ Leads(k2, early, pairs)
        /\ p3 \in Seq(C) /\ Follows(p3, late, pairs) /\ Leads(p3, early, pairs)
    BY <1>5, <1>11, <1>12, <1>14
  <2>2. k3 \in Seq(C) /\ \A c : Has(k2, c) \/ Has(p3, c) => Has(k3, c)
    BY <2>1, Concat, Zenon
  <2>3. Leads(k3, early, pairs)
    BY <2>1, LeadsConcat, Zenon
  <2>4. Follows(k3, late, pairs)
    BY <2>1, FollowsConcat, Zenon
  <2>5. k3 \in Seq(H)
    BY <1>1, <1>10, <1>14, Concat, Zenon
  <2> QED BY <2>2, <2>3, <2>4, <2>5
<1> HIDE DEF k3
<1>16. /\ k4 \in Seq(C)
       /\ Split(k4, H, T)
       /\ \A c : Has(k3, c) \/ Has(p4, c) => Has(k4, c)
       /\ Follows(k4, late, pairs) /\ Leads(k4, early, pairs)
  <2>1. /\ k3 \in Seq(C) /\ Follows(k3, late, pairs) /\ Leads(k3, early, pairs)
        /\ p4 \in Seq(C) /\ Follows(p4, late, pairs) /\ Leads(p4, early, pairs)
    BY <1>5, <1>11, <1>12, <1>15
  <2>2. k4 \in Seq(C) /\ \A c : Has(k3, c) \/ Has(p4, c) => Has(k4, c)
    BY <2>1, Concat, Zenon
  <2>3. Leads(k4, early, pairs)
    BY <2>1, LeadsConcat, Zenon
  <2>4. Follows(k4, late, pairs)
    BY <2>1, FollowsConcat, Zenon
  <2>6. Split(k3, H, T)
    BY <1>15, SplitStart, Zenon
  <2>5. Split(k4, H, T)
    BY <1>10, <2>1, <2>6, SplitConcat, Zenon
  <2> QED BY <2>2, <2>3, <2>4, <2>5
<1> HIDE DEF k4
<1>17. /\ k5 \in Seq(C)
       /\ Split(k5, H, T)
       /\ \A c : Has(k4, c) \/ Has(p5, c) => Has(k5, c)
       /\ Follows(k5, late, pairs) /\ Leads(k5, early, pairs)
  <2>1. /\ k4 \in Seq(C) /\ Follows(k4, late, pairs) /\ Leads(k4, early, pairs)
        /\ p5 \in Seq(C) /\ Follows(p5, late, pairs) /\ Leads(p5, early, pairs)
    BY <1>5, <1>11, <1>12, <1>16
  <2>2. k5 \in Seq(C) /\ \A c : Has(k4, c) \/ Has(p5, c) => Has(k5, c)
    BY <2>1, Concat, Zenon
  <2>3. Leads(k5, early, pairs)
    BY <2>1, LeadsConcat, Zenon
  <2>4. Follows(k5, late, pairs)
    BY <2>1, FollowsConcat, Zenon
  <2>5. Split(k5, H, T)
    BY <1>10, <1>16, <2>1, SplitConcat, Zenon
  <2> QED BY <2>2, <2>3, <2>4, <2>5
<1> HIDE DEF k5
<1>18. /\ k6 \in Seq(C)
       /\ Split(k6, H, T)
       /\ \A c : Has(k5, c) \/ Has(p6, c) => Has(k6, c)
       /\ Follows(k6, late, pairs) /\ Leads(k6, early, pairs)
  <2>1. /\ k5 \in Seq(C) /\ Follows(k5, late, pairs) /\ Leads(k5, early, pairs)
        /\ p6 \in Seq(C) /\ Follows(p6, late, pairs) /\ Leads(p6, early, pairs)
    BY <1>5, <1>11, <1>12, <1>17
  <2>2. k6 \in Seq(C) /\ \A c : Has(k5, c) \/ Has(p6, c) => Has(k6, c)
    BY <2>1, Concat, Zenon
  <2>3. Leads(k6, early, pairs)
    BY <2>1, LeadsConcat, Zenon
  <2>4. Follows(k6, late, pairs)
    BY <2>1, FollowsConcat, Zenon
  <2>5. Split(k6, H, T)
    BY <1>10, <1>17, <2>1, SplitConcat, Zenon
  <2> QED BY <2>2, <2>3, <2>4, <2>5
<1> HIDE DEF k6
<1>20. \A c \in Locals(fl, qm) : Has(k6, c)
  BY <1>1, <1>4, <1>7, <1>13, <1>14, <1>15, <1>16, <1>17, <1>18
<1>21. \A c \in Xmits(fl, qm) : Has(k6, c)
  BY <1>4, <1>15, <1>16, <1>17, <1>18
<1>22. \A c \in Remotes(fl, qm) : Has(k6, c)
  BY <1>4, <1>16, <1>17, <1>18
<1>23. \A c \in Receivers(fl, qm) : Has(k6, c)
  BY <1>4, <1>18
<1>24. \A c \in Senders(fl, qm) : Has(k6, c)
  BY <1>5, <1>17, <1>18
<1> QED BY <1>6, <1>18, <1>20, <1>21, <1>22, <1>23, <1>24
        DEF k1, k2, k3, k4, k5, k6, H, T, C, late, early, pairs
-----------------------------------------------------------------------------
(* What the commands are *)

Commands(fl, qm) == Head1(fl, qm) \cup Tail1(fl, qm)
Defines(fl, qm) ==
  Locals(fl, qm) \cup Xmits(fl, qm) \cup Remotes(fl, qm) \cup Senders(fl, qm)
    \cup Receivers(fl, qm)

\* The first binding of a name is that of a flow with the name.
LEMMA Bindings ==
  ASSUME NEW fl, FlowsOK(fl), NEW qm
  PROVE  /\ \A q \in RemoteQueues(fl, qm) : \E i \in Producing(fl, qm) :
              fl[i].producer_queue = q /\ QremoteBinding(fl, qm, q) = fl[i]
         /\ \A c \in SenderChannels(fl, qm) : \E i \in Producing(fl, qm) :
              fl[i].channel = c /\ SdrBinding(fl, qm, c) = fl[i]
<1>1. ASSUME NEW q \in RemoteQueues(fl, qm)
      PROVE  \E i \in Producing(fl, qm) :
               fl[i].producer_queue = q /\ QremoteBinding(fl, qm, q) = fl[i]
  <2> DEFINE chosen == {i \in Producing(fl, qm) : fl[i].producer_queue = q}
  <2>1. chosen \in SUBSET DOMAIN fl /\ chosen # {}
    BY DEF RemoteQueues, Producing
  <2>2. fl \in Seq(FlowSpec(Qm))
    BY DEF FlowsOK
  <2>3. QremoteBinding(fl, qm, q) = First(fl, chosen)
    BY DEF QremoteBinding
  <2>4. \E i \in chosen : First(fl, chosen) = fl[i]
    <3> HIDE DEF chosen
    <3> QED BY <2>1, <2>2, FirstFacts
  <2> QED BY <2>3, <2>4
<1>2. ASSUME NEW c \in SenderChannels(fl, qm)
      PROVE  \E i \in Producing(fl, qm) :
               fl[i].channel = c /\ SdrBinding(fl, qm, c) = fl[i]
  <2> DEFINE chosen == {i \in Producing(fl, qm) : fl[i].channel = c}
  <2>1. chosen \in SUBSET DOMAIN fl /\ chosen # {}
    BY DEF SenderChannels, Producing
  <2>2. fl \in Seq(FlowSpec(Qm))
    BY DEF FlowsOK
  <2>3. SdrBinding(fl, qm, c) = First(fl, chosen)
    BY DEF SdrBinding
  <2>4. \E i \in chosen : First(fl, chosen) = fl[i]
    <3> HIDE DEF chosen
    <3> QED BY <2>1, <2>2, FirstFacts
  <2> QED BY <2>3, <2>4
<1> QED BY <1>1, <1>2

LEMMA CommandForms ==
  ASSUME NEW fl, FlowsOK(fl), NEW qm
  PROVE  /\ \A c \in Settings(qm) : c.verb \in {"ALTER", "REFRESH"} /\ c.undo = "none"
         /\ \A c \in Locals(fl, qm) :
              c.verb = "DEFINE" /\ c.kind = "QLOCAL" /\ c.undo = "DELETE" /\ c.refers = NoRefs
              /\ c.name \in LocalNames(fl, qm)
         /\ \A c \in Xmits(fl, qm) :
              c.verb = "DEFINE" /\ c.kind = "QXMIT" /\ c.undo = "DELETE"
              /\ c.name \in TransmitQueues(fl, qm)
         /\ \A c \in Remotes(fl, qm) :
              c.verb = "DEFINE" /\ c.kind = "QREMOTE" /\ c.undo = "DELETE"
              /\ c.name \in RemoteQueues(fl, qm) /\ c.refers.xmitq \in TransmitQueues(fl, qm)
         /\ \A c \in Senders(fl, qm) :
              c.verb = "DEFINE" /\ c.kind = "CHANNEL_SDR" /\ c.undo = "DELETE"
              /\ c.name \in SenderChannels(fl, qm) /\ c.refers.xmitq \in TransmitQueues(fl, qm)
         /\ \A c \in Starts(fl, qm) :
              c.verb = "START" /\ c.kind = "CHANNEL_SDR" /\ c.undo = "STOP"
              /\ c.name \in SenderChannels(fl, qm)
         /\ \A c \in Receivers(fl, qm) :
              c.verb = "DEFINE" /\ c.kind = "CHANNEL_RCVR" /\ c.undo = "DELETE"
              /\ c.refers = NoRefs /\ c.name \in ReceiverChannels(fl, qm)
<1>1. \A c \in Settings(qm) : c.verb \in {"ALTER", "REFRESH"} /\ c.undo = "none"
  BY DEF Settings, AlterDeadq, AlterChlauth, RefreshSecurity, Command
<1>2. \A c \in Locals(fl, qm) :
        c.verb = "DEFINE" /\ c.kind = "QLOCAL" /\ c.undo = "DELETE" /\ c.refers = NoRefs
        /\ c.name \in LocalNames(fl, qm)
  BY DEF Locals, DefineQlocal, Command
<1>3. \A c \in Xmits(fl, qm) :
        c.verb = "DEFINE" /\ c.kind = "QXMIT" /\ c.undo = "DELETE"
        /\ c.name \in TransmitQueues(fl, qm)
  BY DEF Xmits, DefineQxmit, Command
<1>4. ASSUME NEW q \in RemoteQueues(fl, qm)
      PROVE  /\ QremoteOf(fl, qm, q).verb = "DEFINE" /\ QremoteOf(fl, qm, q).kind = "QREMOTE"
             /\ QremoteOf(fl, qm, q).undo = "DELETE" /\ QremoteOf(fl, qm, q).name = q
             /\ QremoteOf(fl, qm, q).refers.xmitq \in TransmitQueues(fl, qm)
  <2>1. QremoteBinding(fl, qm, q).transmit_queue \in TransmitQueues(fl, qm)
    BY Bindings DEF TransmitQueues
  <2> QED BY <2>1 DEF QremoteOf, DefineQremote, Command
<1>5. ASSUME NEW c \in SenderChannels(fl, qm)
      PROVE  /\ SdrOf(fl, qm, c).verb = "DEFINE" /\ SdrOf(fl, qm, c).kind = "CHANNEL_SDR"
             /\ SdrOf(fl, qm, c).undo = "DELETE" /\ SdrOf(fl, qm, c).name = c
             /\ SdrOf(fl, qm, c).refers.xmitq \in TransmitQueues(fl, qm)
  <2>1. SdrBinding(fl, qm, c).transmit_queue \in TransmitQueues(fl, qm)
    BY Bindings DEF TransmitQueues
  <2> QED BY <2>1 DEF SdrOf, DefineSdr, Command
<1>6. \A c \in Starts(fl, qm) :
        c.verb = "START" /\ c.kind = "CHANNEL_SDR" /\ c.undo = "STOP"
        /\ c.name \in SenderChannels(fl, qm)
  BY DEF Starts, StartSdr, Command
<1>7. \A c \in Receivers(fl, qm) :
        c.verb = "DEFINE" /\ c.kind = "CHANNEL_RCVR" /\ c.undo = "DELETE" /\ c.refers = NoRefs
        /\ c.name \in ReceiverChannels(fl, qm)
  BY DEF Receivers, DefineRcvr, Command
<1> QED BY <1>1, <1>2, <1>3, <1>4, <1>5, <1>6, <1>7 DEF Remotes, Senders

\* No name of the queue manager is used for objects of two types.
Clear(fl, qm) ==
  /\ RemoteQueues(fl, qm) \cap (LocalNames(fl, qm) \cup TransmitQueues(fl, qm)) = {}
  /\ LocalNames(fl, qm) \cap TransmitQueues(fl, qm) = {}
  /\ SenderChannels(fl, qm) \cap ReceiverChannels(fl, qm) = {}

LEMMA ClearIs == ASSUME NEW qm, Clashing(qm) = {} PROVE Clear(flows, qm)
BY DEF Clashing, Clear, LocalNames

\* Then a name stands for one object, and only the dead-letter queue has its
\* name.
LEMMA ClearNames ==
  ASSUME NEW fl, FlowsOK(fl), NEW qm, Clear(fl, qm),
         NEW c \in Commands(fl, qm), NEW d \in Commands(fl, qm),
         c.verb \in {"DEFINE", "START"}, d.verb \in {"DEFINE", "START"},
         c.name = d.name, NameSpace(c.kind) = NameSpace(d.kind)
  PROVE  /\ c.kind = d.kind
         /\ c.verb = "DEFINE" /\ d.verb = "DEFINE" => c = d
         /\ c.kind \in {"QXMIT", "QREMOTE"} => c.name # DefaultDlq
<1> DEFINE Same(x) == x.name = c.name /\ NameSpace(x.kind) = NameSpace(c.kind)
<1>1. /\ NameSpace("QLOCAL") = "queue" /\ NameSpace("QXMIT") = "queue"
      /\ NameSpace("QREMOTE") = "queue" /\ NameSpace("CHANNEL_SDR") = "channel"
      /\ NameSpace("CHANNEL_RCVR") = "channel"
  BY DEF NameSpace
<1>2. c \notin Settings(qm) /\ d \notin Settings(qm)
  BY CommandForms
<1>3. /\ c \in Defines(fl, qm) \cup Starts(fl, qm)
      /\ d \in Defines(fl, qm) \cup Starts(fl, qm)
  BY <1>2 DEF Commands, Head1, Tail1, Defines
<1>4. /\ LocalNames(fl, qm) \cap TransmitQueues(fl, qm) = {}
      /\ LocalNames(fl, qm) \cap RemoteQueues(fl, qm) = {}
      /\ TransmitQueues(fl, qm) \cap RemoteQueues(fl, qm) = {}
      /\ SenderChannels(fl, qm) \cap ReceiverChannels(fl, qm) = {}
      /\ DefaultDlq \in LocalNames(fl, qm)
  BY DEF Clear, LocalNames
<1>5. c.kind = d.kind
  BY <1>1, <1>3, <1>4, CommandForms DEF Defines
<1>6. c.kind \in {"QXMIT", "QREMOTE"} => c.name # DefaultDlq
  BY <1>3, <1>4, CommandForms DEF Defines
<1>8. ASSUME NEW x \in Defines(fl, qm)
      PROVE  /\ x.kind = "QLOCAL" => x \in Locals(fl, qm)
             /\ x.kind = "QXMIT" => x \in Xmits(fl, qm)
             /\ x.kind = "QREMOTE" => x \in Remotes(fl, qm)
             /\ x.kind = "CHANNEL_SDR" => x \in Senders(fl, qm)
             /\ x.kind = "CHANNEL_RCVR" => x \in Receivers(fl, qm)
  BY <1>8, CommandForms DEF Defines
<1>7. ASSUME c.verb = "DEFINE", d.verb = "DEFINE" PROVE c = d
  <2>1. c \in Defines(fl, qm) /\ d \in Defines(fl, qm)
    BY <1>3, <1>7, CommandForms
  <2>2. CASE c.kind = "QLOCAL"
    <3>1. c \in Locals(fl, qm) /\ d \in Locals(fl, qm)
      BY <1>5, <1>8, <2>1, <2>2
    <3> QED BY <3>1 DEF Locals, DefineQlocal, Command
  <2>3. CASE c.kind = "QXMIT"
    <3>1. c \in Xmits(fl, qm) /\ d \in Xmits(fl, qm)
      BY <1>5, <1>8, <2>1, <2>3
    <3> QED BY <3>1 DEF Xmits, DefineQxmit, Command
  <2>4. CASE c.kind = "QREMOTE"
    <3>1. c \in Remotes(fl, qm) /\ d \in Remotes(fl, qm)
      BY <1>5, <1>8, <2>1, <2>4
    <3> QED BY <3>1 DEF Remotes, QremoteOf, DefineQremote, Command
  <2>5. CASE c.kind = "CHANNEL_SDR"
    <3>1. c \in Senders(fl, qm) /\ d \in Senders(fl, qm)
      BY <1>5, <1>8, <2>1, <2>5
    <3> QED BY <3>1 DEF Senders, SdrOf, DefineSdr, Command
  <2>6. CASE c.kind = "CHANNEL_RCVR"
    <3>1. c \in Receivers(fl, qm) /\ d \in Receivers(fl, qm)
      BY <1>5, <1>8, <2>1, <2>6
    <3> QED BY <3>1 DEF Receivers, DefineRcvr, Command
  <2>7. c.kind \in {"QLOCAL", "QXMIT", "QREMOTE", "CHANNEL_SDR", "CHANNEL_RCVR"}
    BY <2>1, CommandForms DEF Defines
  <2> QED BY <2>2, <2>3, <2>4, <2>5, <2>6, <2>7
<1> QED BY <1>5, <1>6, <1>7

-----------------------------------------------------------------------------
(* The order of a plan and of its inverse *)

DefinesAt(plan, i, kind, name) ==
  plan[i].verb = "DEFINE" /\ plan[i].kind = kind /\ plan[i].name = name
DeletesAt(plan, i, kind, name) ==
  plan[i].verb = "DELETE" /\ plan[i].kind = kind /\ plan[i].name = name

\* What refers to a transmission queue.
Refers(c) == c.kind \in {"QREMOTE", "CHANNEL_SDR"}

ApplyOrder(plan, fl, qm) ==
  /\ plan \in Seq(Commands(fl, qm))
  /\ \A c \in Defines(fl, qm) : Has(plan, c)
  /\ \A i \in 1 .. Len(plan) : plan[i].verb = "DEFINE" /\ Refers(plan[i]) =>
       \E j \in 1 .. i - 1 : DefinesAt(plan, j, "QXMIT", plan[i].refers.xmitq)
  /\ \A i \in 1 .. Len(plan) : plan[i].verb = "START" =>
       i - 1 \in 1 .. Len(plan) /\ DefinesAt(plan, i - 1, "CHANNEL_SDR", plan[i].name)

LEMMA PlanOrder ==
  ASSUME NEW fl, FlowsOK(fl), NEW qm
  PROVE  ApplyOrder(derive_mqsc_for_qm(fl, qm, DefaultDlq), fl, qm)
<1> DEFINE plan == derive_mqsc_for_qm(fl, qm, DefaultDlq)
<1>1. /\ plan \in Seq(Head1(fl, qm) \cup Tail1(fl, qm))
      /\ Split(plan, Head1(fl, qm), Tail1(fl, qm))
      /\ \A c \in Defines(fl, qm) : Has(plan, c)
      /\ Follows(plan, Starts(fl, qm), StartPairs(fl, qm))
  BY PlanShape DEF Defines
<1> HIDE DEF plan
<1>2. Len(plan) \in Nat /\ \A i \in 1 .. Len(plan) : plan[i] \in Commands(fl, qm)
  BY <1>1 DEF Commands
<1>3. PICK m \in Nat : \A i \in 1 .. Len(plan) :
        (i <= m => plan[i] \in Head1(fl, qm)) /\ (~(i <= m) => plan[i] \in Tail1(fl, qm))
  BY <1>1 DEF Split
<1>4. ASSUME NEW i \in 1 .. Len(plan), plan[i].verb = "DEFINE", Refers(plan[i])
      PROVE  \E j \in 1 .. i - 1 : DefinesAt(plan, j, "QXMIT", plan[i].refers.xmitq)
  <2>1. plan[i] \notin Head1(fl, qm)
    BY <1>4, CommandForms DEF Head1, Refers
  <2>2. ~(i <= m) /\ plan[i] \in Tail1(fl, qm)
    BY <1>3, <2>1
  <2>3. plan[i] \in Remotes(fl, qm) \cup Senders(fl, qm)
    BY <1>4, <2>2, CommandForms DEF Tail1, Refers
  <2>4. PICK x \in TransmitQueues(fl, qm) : plan[i].refers.xmitq = x
    BY <2>3, CommandForms
  <2> DEFINE c == DefineQxmit(x, TriggerChannel(fl, qm, x))
  <2>5. c \in Xmits(fl, qm) /\ c.verb = "DEFINE" /\ c.kind = "QXMIT" /\ c.name = x
    BY DEF Xmits, DefineQxmit, Command
  <2> HIDE DEF c
  <2>6. PICK j \in 1 .. Len(plan) : plan[j] = c
    BY <1>1, <2>5 DEF Has, Defines
  <2>7. plan[j] \notin Tail1(fl, qm)
    BY <2>5, <2>6, CommandForms DEF Tail1
  <2>8. j <= m
    BY <1>3, <2>7
  <2>9. j \in 1 .. i - 1
    BY <1>2, <2>2, <2>8
  <2> QED BY <2>4, <2>5, <2>6, <2>9 DEF DefinesAt
<1>5. ASSUME NEW i \in 1 .. Len(plan), plan[i].verb = "START"
      PROVE  i - 1 \in 1 .. Len(plan) /\ DefinesAt(plan, i - 1, "CHANNEL_SDR", plan[i].name)
  <2>1. plan[i] \in Starts(fl, qm)
    BY <1>2, <1>5, CommandForms DEF Commands, Head1, Tail1
  <2>2. i - 1 \in 1 .. Len(plan) /\ << plan[i - 1], plan[i] >> \in StartPairs(fl, qm)
    BY <1>1, <2>1 DEF Follows
  <2>3. PICK c \in SenderChannels(fl, qm) : plan[i - 1] = SdrOf(fl, qm, c) /\ plan[i] = StartSdr(c)
    BY <2>2 DEF StartPairs
  <2> QED BY <2>2, <2>3 DEF DefinesAt, SdrOf, DefineSdr, StartSdr, Command
<1> QED BY <1>1, <1>4, <1>5 DEF ApplyOrder, plan, Commands

\* The inverse of a plan, by positions in it.
LEMMA InverseShape ==
  ASSUME NEW C, NEW plan \in Seq(C)
  PROVE  LET T == inverse_plan(plan)
         IN  /\ Len(T) \in Nat /\ DOMAIN T = 1 .. Len(T)
             /\ \E at \in [1 .. Len(T) -> Kept(plan)] :
                  /\ \A k \in 1 .. Len(T) : T[k] = TeardownOf(plan[at[k]])
                  /\ \A j, k \in 1 .. Len(T) : j < k => at[k] < at[j]
                  /\ \A i \in Kept(plan) : \E k \in 1 .. Len(T) : at[k] = i
<1> DEFINE S == Kept(plan)
           at == Descending(S)
           T == inverse_plan(plan)
<1>1. Len(plan) \in Nat /\ DOMAIN plan = 1 .. Len(plan)
  OBVIOUS
<1>2. S \in SUBSET Nat /\ IsFiniteSet(S)
  <2>1. IsFiniteSet(1 .. Len(plan))
    BY <1>1, FS_Interval
  <2>2. S \in SUBSET (1 .. Len(plan))
    BY <1>1 DEF Kept
  <2> HIDE DEF S
  <2>3. IsFiniteSet(S)
    BY <2>1, <2>2, FS_Subset
  <2>4. S \in SUBSET Nat
    BY <1>1, <2>2
  <2> QED BY <2>3, <2>4
<1>3. T = [k \in DOMAIN at |-> TeardownOf(plan[at[k]])]
  BY DEF inverse_plan
<1> HIDE DEF S
<1>4. /\ at \in Seq(S) /\ Len(at) = Cardinality(S)
      /\ \A j, k \in 1 .. Cardinality(S) : j < k => at[k] < at[j]
      /\ \A n \in S : Rank(n, S) \in 1 .. Cardinality(S) /\ at[Rank(n, S)] = n
  BY <1>2, DescendingFacts
<1>5. Cardinality(S) \in Nat
  BY <1>2, FS_CardinalityType
<1> HIDE DEF at, T
<1>6. at \in [1 .. Cardinality(S) -> S]
  BY <1>4
<1>7. /\ Len(T) = Cardinality(S) /\ DOMAIN T = 1 .. Cardinality(S)
      /\ \A k \in 1 .. Cardinality(S) : T[k] = TeardownOf(plan[at[k]])
  BY <1>3, <1>5, <1>6
<1>8. \A n \in S : \E k \in 1 .. Cardinality(S) : at[k] = n
  BY <1>4
<1>9. /\ at \in [1 .. Len(T) -> Kept(plan)]
      /\ \A k \in 1 .. Len(T) : T[k] = TeardownOf(plan[at[k]])
      /\ \A j, k \in 1 .. Len(T) : j < k => at[k] < at[j]
      /\ \A i \in Kept(plan) : \E k \in 1 .. Len(T) : at[k] = i
  BY <1>4, <1>6, <1>7, <1>8 DEF S
<1> QED BY <1>5, <1>7, <1>9 DEF T

TeardownOrder(plan, fl, qm) ==
  /\ Len(plan) \in Nat /\ DOMAIN plan = 1 .. Len(plan)
  /\ \A k \in 1 .. Len(plan) :
       /\ plan[k].name # DefaultDlq
       /\ \E c \in Defines(fl, qm) :
            plan[k].kind = c.kind /\ plan[k].name = c.name
       /\ \/ plan[k].verb = "DELETE"
          \/ plan[k].verb = "STOP" /\ plan[k].kind = "CHANNEL_SDR"
  /\ \A c \in Defines(fl, qm) : c.name # DefaultDlq =>
       \E k \in 1 .. Len(plan) : DeletesAt(plan, k, c.kind, c.name)
  /\ \A k \in 1 .. Len(plan), c \in Defines(fl, qm) :
       /\ Refers(c) /\ c.name # DefaultDlq
       /\ DeletesAt(plan, k, "QXMIT", c.refers.xmitq)
       => \E j \in 1 .. k - 1 : DeletesAt(plan, j, c.kind, c.name)
  /\ \A k \in 1 .. Len(plan) :
       plan[k].verb = "DELETE" /\ plan[k].kind = "CHANNEL_SDR" =>
         \E j \in 1 .. k - 1 : /\ plan[j].verb = "STOP" /\ plan[j].kind = "CHANNEL_SDR"
                               /\ plan[j].name = plan[k].name

LEMMA InverseOrder ==
  ASSUME NEW fl, FlowsOK(fl), NEW qm
  PROVE  TeardownOrder(inverse_plan(derive_mqsc_for_qm(fl, qm, DefaultDlq)), fl, qm)
<1> DEFINE plan == derive_mqsc_for_qm(fl, qm, DefaultDlq)
           T == inverse_plan(plan)
<1>1. /\ plan \in Seq(Commands(fl, qm))
      /\ Split(plan, Head1(fl, qm), Tail1(fl, qm))
      /\ \A c \in Defines(fl, qm) : Has(plan, c)
      /\ Leads(plan, Senders(fl, qm), StartPairs(fl, qm))
  BY PlanShape DEF Defines, Commands
<1> HIDE DEF plan
<1>2. /\ Len(plan) \in Nat /\ DOMAIN plan = 1 .. Len(plan)
      /\ \A i \in 1 .. Len(plan) : plan[i] \in Commands(fl, qm)
  BY <1>1
<1>3. PICK m \in Nat : \A i \in 1 .. Len(plan) :
        (i <= m => plan[i] \in Head1(fl, qm)) /\ (~(i <= m) => plan[i] \in Tail1(fl, qm))
  BY <1>1 DEF Split
<1>4. /\ Len(T) \in Nat /\ DOMAIN T = 1 .. Len(T)
      /\ \E at \in [1 .. Len(T) -> Kept(plan)] :
           /\ \A k \in 1 .. Len(T) : T[k] = TeardownOf(plan[at[k]])
           /\ \A j, k \in 1 .. Len(T) : j < k => at[k] < at[j]
           /\ \A i \in Kept(plan) : \E k \in 1 .. Len(T) : at[k] = i
  BY <1>1, InverseShape
<1> HIDE DEF T
<1>5. PICK at \in [1 .. Len(T) -> Kept(plan)] :
        /\ \A k \in 1 .. Len(T) : T[k] = TeardownOf(plan[at[k]])
        /\ \A j, k \in 1 .. Len(T) : j < k => at[k] < at[j]
        /\ \A i \in Kept(plan) : \E k \in 1 .. Len(T) : at[k] = i
  BY <1>4
<1>6. Kept(plan) \in SUBSET (1 .. Len(plan)) /\ \A i \in Kept(plan) : Invertible(plan[i])
  BY <1>2 DEF Kept
<1>7. \A c \in Commands(fl, qm) :
        /\ c.undo # "none" => c \in Defines(fl, qm) \cup Starts(fl, qm)
        /\ c \in Defines(fl, qm) => c.verb = "DEFINE" /\ c.undo = "DELETE"
        /\ c \in Starts(fl, qm) => c.undo = "STOP" /\ c.kind = "CHANNEL_SDR"
                                  /\ \E d \in Defines(fl, qm) : d.kind = c.kind /\ d.name = c.name
  <2>1. \A c \in Commands(fl, qm) : c.undo # "none" => c \in Defines(fl, qm) \cup Starts(fl, qm)
    BY CommandForms DEF Commands, Head1, Tail1, Defines
  <2>2. \A c \in Defines(fl, qm) : c.verb = "DEFINE" /\ c.undo = "DELETE"
    BY CommandForms DEF Defines
  <2>3. \A c \in Starts(fl, qm) : \E d \in Defines(fl, qm) : d.kind = c.kind /\ d.name = c.name
    <3> SUFFICES ASSUME NEW n \in SenderChannels(fl, qm)
                 PROVE  \E d \in Defines(fl, qm) :
                          d.kind = StartSdr(n).kind /\ d.name = StartSdr(n).name
      BY DEF Starts
    <3>1. SdrOf(fl, qm, n) \in Defines(fl, qm)
      BY DEF Defines, Senders
    <3> QED BY <3>1 DEF StartSdr, SdrOf, DefineSdr, Command
  <2> QED BY <2>1, <2>2, <2>3, CommandForms
<1>8. \A c : /\ TeardownOf(c).verb = c.undo /\ TeardownOf(c).kind = c.kind
             /\ TeardownOf(c).name = c.name
  BY DEF TeardownOf, Command
\* An earlier position in the plan is a later one in its inverse.
<1>9. \A j, k \in 1 .. Len(T) : at[k] < at[j] => j < k
  <2> SUFFICES ASSUME NEW j \in 1 .. Len(T), NEW k \in 1 .. Len(T), at[k] < at[j], ~(j < k)
               PROVE  FALSE
    OBVIOUS
  <2>1. at[j] \in Nat /\ at[k] \in Nat
    BY <1>2, <1>6
  <2>2. j = k \/ k < j
    BY <1>4
  <2>3. k < j => at[j] < at[k]
    BY <1>5
  <2> QED BY <2>1, <2>2, <2>3
<1>10. ASSUME NEW k \in 1 .. Len(T)
       PROVE  /\ T[k].name # DefaultDlq
              /\ \E c \in Defines(fl, qm) : T[k].kind = c.kind /\ T[k].name = c.name
              /\ \/ T[k].verb = "DELETE"
                 \/ T[k].verb = "STOP" /\ T[k].kind = "CHANNEL_SDR"
              /\ T[k].verb = "DELETE" => plan[at[k]] \in Defines(fl, qm)
  <2>1. at[k] \in 1 .. Len(plan) /\ Invertible(plan[at[k]]) /\ T[k] = TeardownOf(plan[at[k]])
    BY <1>5, <1>6
  <2>2. plan[at[k]] \in Commands(fl, qm) /\ plan[at[k]].undo # "none"
        /\ plan[at[k]].name # DefaultDlq
    BY <1>2, <2>1 DEF Invertible
  <2>3. CASE plan[at[k]] \in Defines(fl, qm)
    BY <1>7, <1>8, <2>1, <2>2, <2>3
  <2>4. CASE plan[at[k]] \in Starts(fl, qm)
    BY <1>7, <1>8, <2>1, <2>2, <2>4
  <2> QED BY <1>7, <2>2, <2>3, <2>4
<1>11. ASSUME NEW c \in Defines(fl, qm), c.name # DefaultDlq
       PROVE  \E k \in 1 .. Len(T) : DeletesAt(T, k, c.kind, c.name) /\ plan[at[k]] = c
  <2>1. PICK i \in 1 .. Len(plan) : plan[i] = c
    BY <1>1 DEF Has
  <2>2. c \in Commands(fl, qm)
    BY <1>2, <2>1
  <2>3. i \in Kept(plan)
    BY <1>2, <1>7, <1>11, <2>1, <2>2 DEF Kept, Invertible
  <2>4. PICK k \in 1 .. Len(T) : at[k] = i
    BY <1>5, <2>3
  <2>5. T[k] = TeardownOf(c)
    BY <1>5, <2>1, <2>4
  <2> QED BY <1>7, <1>8, <2>1, <2>2, <2>4, <2>5 DEF DeletesAt
<1>12. ASSUME NEW k \in 1 .. Len(T), NEW c \in Defines(fl, qm), Refers(c), c.name # DefaultDlq,
              DeletesAt(T, k, "QXMIT", c.refers.xmitq)
       PROVE  \E j \in 1 .. k - 1 : DeletesAt(T, j, c.kind, c.name)
  <2>1. PICK j \in 1 .. Len(T) : DeletesAt(T, j, c.kind, c.name) /\ plan[at[j]] = c
    BY <1>11, <1>12
  <2>2. at[j] \in 1 .. Len(plan) /\ at[k] \in 1 .. Len(plan)
    BY <1>5, <1>6
  <2>3. c \notin Head1(fl, qm)
    BY <1>12, CommandForms DEF Head1, Refers, Defines
  <2>4. ~(at[j] <= m)
    BY <1>3, <2>1, <2>2, <2>3
  <2>5. plan[at[k]] \in Defines(fl, qm) /\ plan[at[k]].kind = "QXMIT"
    BY <1>5, <1>8, <1>10, <1>12 DEF DeletesAt
  <2>6. plan[at[k]] \notin Tail1(fl, qm)
    BY <2>5, CommandForms DEF Tail1
  <2>7. at[k] <= m
    BY <1>3, <2>2, <2>6
  <2>8. j < k
    BY <1>2, <1>9, <2>2, <2>4, <2>7
  <2> QED BY <1>4, <2>1, <2>8
<1>13. ASSUME NEW k \in 1 .. Len(T), T[k].verb = "DELETE", T[k].kind = "CHANNEL_SDR"
       PROVE  \E j \in 1 .. k - 1 : /\ T[j].verb = "STOP" /\ T[j].kind = "CHANNEL_SDR"
                                    /\ T[j].name = T[k].name
  <2>1. /\ at[k] \in 1 .. Len(plan) /\ T[k] = TeardownOf(plan[at[k]])
        /\ plan[at[k]] \in Defines(fl, qm) /\ plan[at[k]].name # DefaultDlq
    BY <1>5, <1>6, <1>10, <1>13 DEF Invertible
  <2>2. plan[at[k]] \in Senders(fl, qm)
    BY <1>8, <1>13, <2>1, CommandForms DEF Defines
  <2>3. at[k] + 1 \in 1 .. Len(plan) /\ << plan[at[k]], plan[at[k] + 1] >> \in StartPairs(fl, qm)
    BY <1>1, <2>1, <2>2 DEF Leads
  <2>4. PICK c \in SenderChannels(fl, qm) :
          plan[at[k]] = SdrOf(fl, qm, c) /\ plan[at[k] + 1] = StartSdr(c)
    BY <2>3 DEF StartPairs
  <2>5. /\ plan[at[k]].name = c /\ plan[at[k] + 1].name = c /\ plan[at[k] + 1].undo = "STOP"
        /\ plan[at[k] + 1].kind = "CHANNEL_SDR"
    BY <2>4 DEF SdrOf, DefineSdr, StartSdr, Command
  <2>6. at[k] + 1 \in Kept(plan)
    BY <1>2, <2>1, <2>3, <2>5 DEF Kept, Invertible
  <2>7. PICK j \in 1 .. Len(T) : at[j] = at[k] + 1
    BY <1>5, <2>6
  <2>8. j < k
    BY <1>9, <2>1, <2>7
  <2>9. T[j].verb = "STOP" /\ T[j].kind = "CHANNEL_SDR" /\ T[j].name = T[k].name
    BY <1>5, <1>8, <2>1, <2>5, <2>7
  <2> QED BY <1>4, <2>8, <2>9
<1>14. \A c \in Defines(fl, qm) : c.name # DefaultDlq =>
         \E k \in 1 .. Len(T) : DeletesAt(T, k, c.kind, c.name)
  BY <1>11
<1> QED BY <1>4, <1>10, <1>12, <1>13, <1>14 DEF TeardownOrder, T, plan

-----------------------------------------------------------------------------
(* What a command does to the objects of its queue manager *)

NamedIn(set, c) == {o \in set : o.name = c.name /\ NameSpace(o.kind) = NameSpace(c.kind)}
OtherIn(set, c) == {o \in NamedIn(set, c) : MqType(o.kind) # MqType(c.kind)}
RunningIn(set, c) == \E o \in NamedIn(set, c) : o.running

Redefined(set, c) == (set \ NamedIn(set, c)) \cup {Object(c, RunningIn(set, c))}
Switched(set, c, on) ==
  (set \ NamedIn(set, c)) \cup {[o EXCEPT !.running = on] : o \in NamedIn(set, c)}

\* The objects after a command, and its class.
Outcome(before, c, direction, after, class) ==
  /\ \/ after = before
     \/ c.verb = "DEFINE" /\ OtherIn(before, c) = {} /\ after = Redefined(before, c)
     \/ c.verb = "START" /\ OtherIn(before, c) = {} /\ after = Switched(before, c, TRUE)
     \/ c.verb = "STOP" /\ OtherIn(before, c) = {} /\ after = Switched(before, c, FALSE)
     \/ c.verb = "DELETE" /\ after = before \ NamedIn(before, c)
  /\ class # "FAILED" =>
       /\ direction = "APPLY" /\ c.verb = "DEFINE" /\ OtherIn(before, c) = {} =>
            after = Redefined(before, c)
       /\ direction = "TEARDOWN" /\ c.verb = "DELETE" => NamedIn(after, c) = {}
       /\ direction = "TEARDOWN" /\ c.verb = "STOP" =>
            \/ after = before /\ ~RunningIn(before, c)
            \/ after = Switched(before, c, FALSE)

\* A queue manager that answers fails a command for one of these reasons.
Obstacle(before, c, direction) ==
  \/ c.verb \in {"DEFINE", "START", "STOP", "DELETE"} /\ OtherIn(before, c) # {}
  \/ direction = "APPLY" /\ c.verb = "START" /\ NamedIn(before, c) = {}
  \/ direction = "TEARDOWN" /\ c.verb = "DELETE" /\ RunningIn(before, c)

\* The direction's verbs.
Sendable(c, direction) ==
  \/ direction = "APPLY" /\ c.verb \in {"ALTER", "REFRESH", "DEFINE", "START"}
  \/ direction = "TEARDOWN" /\ c.verb \in {"STOP", "DELETE"}

LEMMA ClassOfRefusal ==
  ASSUME NEW code \in Severity.E, NEW direction
  PROVE  Classify(Refused(code), direction) =
           IF code \in Idempotent[direction] THEN "SKIPPED_IDEMPOTENT" ELSE "FAILED"
<1> DEFINE reply == Refused(code)
           S == {i \in DOMAIN reply.messages : reply.messages[i] \in Severity.E}
<1>1. reply.exit = 10 /\ reply.messages = << code >>
  BY DEF Refused
<1>2. S = {1}
  BY <1>1
<1> HIDE DEF S
<1>3. Min(S) = 1
  BY <1>2 DEF Min
<1>4. FirstAmq(reply) = code
  BY <1>1, <1>2, <1>3 DEF FirstAmq, S
<1> QED BY <1>1, <1>4 DEF Classify, AllSucceeded, _is_idempotent_success

LEMMA ClassOfDone == ASSUME NEW direction PROVE Classify(Done, direction) = "APPLIED"
<1> DEFINE S == {i \in DOMAIN Done.messages : Done.messages[i] \in Severity.E}
           I == {i \in DOMAIN Done.messages : Done.messages[i] \in Severity.I}
<1>1. Done.exit = 0 /\ Done.messages = << "AMQ8006I" >>
  BY DEF Done
<1>2. S = {} /\ I = {1}
  BY <1>1 DEF Severity
<1> HIDE DEF S, I
<1>3. Min(I) = 1
  BY <1>2 DEF Min
<1>4. FirstAmq(Done) = "AMQ8006I"
  BY <1>1, <1>2, <1>3 DEF FirstAmq, S, I
<1>5. "AMQ8006I" \notin Severity.E
  BY DEF Severity
<1> QED BY <1>1, <1>4, <1>5 DEF Classify, AllSucceeded

LEMMA ClassOfNone ==
  ASSUME NEW direction \in Direction
  PROVE  Classify(Unanswered, direction) = "FAILED"
<1>1. Unanswered.exit = -1 /\ Unanswered.messages = << >>
  BY DEF Unanswered
<1>2. FirstAmq(Unanswered) = NoName
  BY <1>1 DEF FirstAmq
<1>3. NoName \notin Idempotent[direction]
  BY NoneAssumption DEF Idempotent, Direction
<1> QED BY <1>1, <1>2, <1>3 DEF Classify, AllSucceeded, _is_idempotent_success

LEMMA EffectsOf ==
  ASSUME NEW qm, NEW c, NEW direction \in Direction, Sendable(c, direction),
         NEW e \in Effects(qm, c)
  PROVE  /\ Outcome(objects[qm], c, direction, e.objects, Classify(e.reply, direction))
         /\ ~Obstacle(objects[qm], c, direction) =>
              Classify(e.reply, direction) # "FAILED"
<1> DEFINE before == objects[qm]
           named == Named(qm, c)
           other == {o \in named : MqType(o.kind) # MqType(c.kind)}
           Becomes(set, reply) == [objects |-> (before \ named) \cup set, reply |-> reply]
           Stays(reply) == [objects |-> before, reply |-> reply]
           class == Classify(e.reply, direction)
<1>1. named = NamedIn(before, c) /\ other = OtherIn(before, c)
  BY DEF Named, NamedIn, OtherIn
<1>2. \A code \in Severity.E : Classify(Refused(code), direction) =
        IF code \in Idempotent[direction] THEN "SKIPPED_IDEMPOTENT" ELSE "FAILED"
  BY ClassOfRefusal
<1>3. Classify(Done, direction) = "APPLIED"
  BY ClassOfDone
<1>4. /\ \A set, reply : Becomes(set, reply).objects = (before \ named) \cup set
                         /\ Becomes(set, reply).reply = reply
      /\ \A reply : Stays(reply).objects = before /\ Stays(reply).reply = reply
  OBVIOUS
<1>5. /\ Severity.E = {"AMQ8013E", "AMQ8101E", "AMQ8138E", "AMQ8147E", "AMQ8149E",
                       "AMQ9508E", "AMQ9509E", "AMQ9531E"}
      /\ Idempotent["APPLY"] = {"AMQ8350E", "AMQ8013E", "AMQ8348E", "AMQ9508E", "AMQ9509E"}
      /\ Idempotent["TEARDOWN"] = {"AMQ8147E", "AMQ8016E", "AMQ8260E", "AMQ9531E"}
  BY DEF Severity, Idempotent
<1>6. direction = "APPLY" \/ direction = "TEARDOWN"
  BY DEF Direction
<1>7. CASE c.verb \in {"ALTER", "REFRESH"}
  <2>1. e = Stays(Done)
    BY <1>7 DEF Effects
  <2> QED BY <1>3, <1>4, <1>7, <2>1 DEF Outcome, Obstacle
<1>8. CASE c.verb = "DEFINE"
  <2>1. CASE other # {}
    <3>1. e = Stays(Refused("AMQ8013E")) \/ e = Stays(Refused("AMQ8138E"))
      BY <1>8, <2>1 DEF Effects
    <3>2. e.objects = before
      BY <1>4, <3>1
    <3> QED BY <1>1, <1>8, <2>1, <3>2 DEF Outcome, Obstacle
  <2>2. CASE other = {}
    <3>1. e = Becomes({Object(c, \E o \in named : o.running)}, Done)
      BY <1>8, <2>2 DEF Effects
    <3>2. e.objects = Redefined(before, c) /\ e.reply = Done
      BY <1>1, <1>4, <3>1 DEF Redefined, RunningIn
    <3> QED BY <1>1, <1>3, <1>8, <2>2, <3>2 DEF Outcome
  <2> QED BY <2>1, <2>2
<1>9. CASE c.verb \in {"START", "STOP", "DELETE"} /\ named = {}
  <2>1. e = Stays(Refused("AMQ8147E"))
    BY <1>9 DEF Effects
  <2>2. e.objects = before /\ e.reply = Refused("AMQ8147E")
    BY <1>4, <2>1
  <2>3. direction = "TEARDOWN" => class # "FAILED"
    BY <1>2, <1>5, <2>2
  <2> QED BY <1>1, <1>6, <1>9, <2>2, <2>3 DEF Outcome, Obstacle, Sendable, RunningIn
<1>10. CASE c.verb \in {"START", "STOP", "DELETE"} /\ other # {}
  <2>1. e = Stays(Refused("AMQ8138E"))
    BY <1>10 DEF Effects
  <2>2. e.objects = before /\ e.reply = Refused("AMQ8138E")
    BY <1>4, <2>1
  <2>3. class = "FAILED"
    BY <1>2, <1>5, <1>6, <2>2
  <2> QED BY <1>1, <1>10, <2>2, <2>3 DEF Outcome, Obstacle
<1>11. CASE c.verb = "START" /\ other = {} /\ named # {}
  <2>1. CASE RunningIn(before, c)
    <3>1. e = Stays(Refused("AMQ9508E"))
      BY <1>1, <1>11, <2>1 DEF Effects, RunningIn
    <3>2. e.objects = before /\ e.reply = Refused("AMQ9508E")
      BY <1>4, <3>1
    <3>3. direction = "APPLY" => class # "FAILED"
      BY <1>2, <1>5, <3>2
    <3> QED BY <1>6, <1>11, <3>2, <3>3 DEF Outcome, Sendable
  <2>2. CASE ~RunningIn(before, c)
    <3>1. e = Becomes({[o EXCEPT !.running = TRUE] : o \in named}, Done)
      BY <1>1, <1>11, <2>2 DEF Effects, RunningIn
    <3>2. e.objects = Switched(before, c, TRUE) /\ e.reply = Done
      BY <1>1, <1>4, <3>1 DEF Switched
    <3> QED BY <1>1, <1>3, <1>11, <3>2 DEF Outcome
  <2> QED BY <2>1, <2>2
<1>12. CASE c.verb = "STOP" /\ other = {} /\ named # {}
  <2>1. CASE RunningIn(before, c)
    <3>1. e = Becomes({[o EXCEPT !.running = FALSE] : o \in named}, Done)
      BY <1>1, <1>12, <2>1 DEF Effects, RunningIn
    <3>2. e.objects = Switched(before, c, FALSE) /\ e.reply = Done
      BY <1>1, <1>4, <3>1 DEF Switched
    <3> QED BY <1>1, <1>3, <1>12, <3>2 DEF Outcome
  <2>2. CASE ~RunningIn(before, c)
    <3>1. e = Stays(Refused("AMQ9531E"))
      BY <1>1, <1>12, <2>2 DEF Effects, RunningIn
    <3>2. e.objects = before /\ e.reply = Refused("AMQ9531E")
      BY <1>4, <3>1
    <3>3. direction = "TEARDOWN" => class # "FAILED"
      BY <1>2, <1>5, <3>2
    <3> QED BY <1>6, <1>12, <2>2, <3>2, <3>3 DEF Outcome, Sendable
  <2> QED BY <2>1, <2>2
<1>13. CASE c.verb = "DELETE" /\ other = {} /\ named # {}
  <2>1. CASE RunningIn(before, c)
    <3>1. e = Stays(Refused("AMQ8149E"))
      BY <1>1, <1>13, <2>1 DEF Effects, RunningIn
    <3>2. e.objects = before /\ e.reply = Refused("AMQ8149E")
      BY <1>4, <3>1
    <3>3. class = "FAILED"
      BY <1>2, <1>5, <1>6, <3>2
    <3> QED BY <1>6, <1>13, <2>1, <3>2, <3>3 DEF Outcome, Obstacle, Sendable
  <2>2. CASE ~RunningIn(before, c)
    <3>1. e = Becomes({}, Done)
      BY <1>1, <1>13, <2>2 DEF Effects, RunningIn
    <3>2. e.objects = before \ NamedIn(before, c) /\ e.reply = Done
      BY <1>1, <1>4, <3>1
    <3>3. NamedIn(e.objects, c) = {}
      BY <3>2 DEF NamedIn
    <3> QED BY <1>1, <1>3, <1>13, <3>2, <3>3 DEF Outcome
  <2> QED BY <2>1, <2>2
<1> QED BY <1>7, <1>8, <1>9, <1>10, <1>11, <1>12, <1>13 DEF Sendable

LEMMA MiscarriageOf ==
  ASSUME NEW qm, NEW c, NEW direction \in Direction, Sendable(c, direction),
         NEW e \in Faulty(qm, c)
  PROVE  Outcome(objects[qm], c, direction, e.objects, Classify(e.reply, direction))
<1> DEFINE before == objects[qm]
<1>1. /\ \A code \in {"AMQ8101E", "AMQ9509E"} : code \in Severity.E
      /\ "AMQ8101E" \notin Idempotent[direction]
  BY DEF Severity, Idempotent, Direction
<1>2. Classify(Unanswered, direction) = "FAILED"
  BY ClassOfNone
<1>3. Classify(Refused("AMQ8101E"), direction) = "FAILED"
  BY <1>1, ClassOfRefusal
<1>4. CASE \E x \in Effects(qm, c) : e = [objects |-> x.objects, reply |-> Unanswered]
  <2>1. PICK x \in Effects(qm, c) : e = [objects |-> x.objects, reply |-> Unanswered]
    BY <1>4
  <2>2. e.objects = x.objects /\ Classify(e.reply, direction) = "FAILED"
    BY <1>2, <2>1
  <2>3. Outcome(before, c, direction, x.objects, Classify(x.reply, direction))
    BY EffectsOf
  <2> QED BY <2>2, <2>3 DEF Outcome
<1>5. CASE e = [objects |-> before, reply |-> Unanswered]
  <2>1. e.objects = before /\ Classify(e.reply, direction) = "FAILED"
    BY <1>2, <1>5
  <2> QED BY <2>1 DEF Outcome
<1>6. CASE e = [objects |-> before, reply |-> Refused("AMQ8101E")]
  <2>1. e.objects = before /\ Classify(e.reply, direction) = "FAILED"
    BY <1>3, <1>6
  <2> QED BY <2>1 DEF Outcome
<1>7. CASE c.verb = "START" /\ e = [objects |-> before, reply |-> Refused("AMQ9509E")]
  <2>1. e.objects = before
    BY <1>7
  <2> QED BY <1>7, <2>1 DEF Outcome
<1> QED BY <1>4, <1>5, <1>6, <1>7 DEF Faulty

\* The objects are the topology's, and only a sender runs.
Held(fl, qm, set) ==
  \A o \in set : \E d \in Defines(fl, qm), b \in BOOLEAN :
    o = Object(d, b) /\ (b => d.kind = "CHANNEL_SDR")

\* A command of the plan of a direction.
Ordered(c, fl, qm, direction) ==
  \/ direction = "APPLY" /\ c \in Commands(fl, qm)
  \/ /\ direction = "TEARDOWN" /\ c.name # DefaultDlq
     /\ \E d \in Defines(fl, qm) : c.kind = d.kind /\ c.name = d.name
     /\ \/ c.verb = "DELETE"
        \/ c.verb = "STOP" /\ c.kind = "CHANNEL_SDR"

\* What a command is sent for.
Fulfilled(set, c, direction) ==
  /\ direction = "APPLY" /\ c.verb = "DEFINE" => \E b \in BOOLEAN : Object(c, b) \in set
  /\ direction = "TEARDOWN" /\ c.verb = "DELETE" => NamedIn(set, c) = {}
  /\ direction = "TEARDOWN" /\ c.verb = "STOP" => ~RunningIn(set, c)

LEMMA ObjectFields ==
  ASSUME NEW d, NEW b
  PROVE  /\ Object(d, b).kind = d.kind /\ Object(d, b).name = d.name
         /\ Object(d, b).refers = d.refers /\ Object(d, b).running = b
         /\ \A on : [Object(d, b) EXCEPT !.running = on] = Object(d, on)
BY DEF Object

LEMMA OrderedForms ==
  ASSUME NEW fl, FlowsOK(fl), NEW qm, NEW direction, NEW c, Ordered(c, fl, qm, direction)
  PROVE  /\ Sendable(c, direction)
         /\ c.verb = "DEFINE" => c \in Defines(fl, qm)
         /\ c.verb \in {"START", "STOP"} => c.kind = "CHANNEL_SDR"
         /\ c.verb \in {"DEFINE", "START", "STOP", "DELETE"} =>
              \E d \in Defines(fl, qm) : c.kind = d.kind /\ c.name = d.name
<1>1. CASE direction = "APPLY" /\ c \in Commands(fl, qm)
  <2>1. c \in Settings(qm) \cup Defines(fl, qm) \cup Starts(fl, qm)
    BY <1>1 DEF Commands, Head1, Tail1, Defines
  <2>2. CASE c \in Settings(qm)
    BY <1>1, <2>2, CommandForms DEF Sendable
  <2>3. CASE c \in Defines(fl, qm)
    <3>1. c.verb = "DEFINE"
      BY <2>3, CommandForms DEF Defines
    <3> QED BY <1>1, <2>3, <3>1 DEF Sendable
  <2>4. CASE c \in Starts(fl, qm)
    <3>1. c.verb = "START" /\ c.kind = "CHANNEL_SDR" /\ c.name \in SenderChannels(fl, qm)
      BY <2>4, CommandForms
    <3>2. SdrOf(fl, qm, c.name) \in Defines(fl, qm)
      BY <3>1 DEF Defines, Senders
    <3>3. /\ SdrOf(fl, qm, c.name).kind = "CHANNEL_SDR"
          /\ SdrOf(fl, qm, c.name).name = c.name
      BY DEF SdrOf, DefineSdr, Command
    <3> QED BY <1>1, <3>1, <3>2, <3>3 DEF Sendable
  <2> QED BY <2>1, <2>2, <2>3, <2>4
<1>2. CASE direction = "TEARDOWN"
  BY <1>2 DEF Ordered, Sendable
<1> QED BY <1>1, <1>2 DEF Ordered

\* What is named like a command, on a queue manager without clashes, is what
\* the command is about.
LEMMA HeldKind ==
  ASSUME NEW fl, FlowsOK(fl), NEW qm, Clear(fl, qm), NEW direction,
         NEW c, Ordered(c, fl, qm, direction),
         c.verb \in {"DEFINE", "START", "STOP", "DELETE"},
         NEW set, Held(fl, qm, set)
  PROVE  /\ \A o \in NamedIn(set, c) : o.kind = c.kind
         /\ OtherIn(set, c) = {}
<1>1. ASSUME NEW o \in NamedIn(set, c) PROVE o.kind = c.kind
  <2>1. PICK d \in Defines(fl, qm), b \in BOOLEAN : o = Object(d, b)
    BY DEF NamedIn, Held
  <2>2. o.kind = d.kind /\ o.name = d.name
    BY <2>1, ObjectFields
  <2>3. PICK x \in Defines(fl, qm) : c.kind = x.kind /\ c.name = x.name
    BY OrderedForms
  <2>4. d.verb = "DEFINE" /\ x.verb = "DEFINE"
    BY CommandForms DEF Defines
  <2>5. d \in Commands(fl, qm) /\ x \in Commands(fl, qm)
    BY DEF Commands, Defines, Head1, Tail1
  <2>6. d.name = x.name /\ NameSpace(d.kind) = NameSpace(x.kind)
    BY <2>2, <2>3 DEF NamedIn
  <2>7. d.kind = x.kind
    BY <2>4, <2>5, <2>6, ClearNames
  <2> QED BY <2>2, <2>3, <2>7
<1> QED BY <1>1 DEF OtherIn, NamedIn

LEMMA OutcomeHeld ==
  ASSUME NEW fl, FlowsOK(fl), NEW qm, NEW direction, NEW c, Ordered(c, fl, qm, direction),
         NEW before, Held(fl, qm, before), NEW after, NEW class,
         Outcome(before, c, direction, after, class)
  PROVE  Held(fl, qm, after)
<1>1. CASE after = before
  BY <1>1
<1>2. CASE c.verb = "DEFINE" /\ OtherIn(before, c) = {} /\ after = Redefined(before, c)
  <2>1. c \in Defines(fl, qm)
    BY <1>2, OrderedForms
  <2>2. c.kind \in {"QLOCAL", "QXMIT", "QREMOTE", "CHANNEL_SDR", "CHANNEL_RCVR"}
    BY <2>1, CommandForms DEF Defines
  <2>3. ASSUME RunningIn(before, c) PROVE c.kind = "CHANNEL_SDR"
    <3>1. PICK o \in NamedIn(before, c) : o.running
      BY <2>3 DEF RunningIn
    <3>2. PICK d \in Defines(fl, qm), b \in BOOLEAN :
            o = Object(d, b) /\ (b => d.kind = "CHANNEL_SDR")
      BY DEF NamedIn, Held
    <3>3. o.kind = "CHANNEL_SDR"
      BY <3>1, <3>2, ObjectFields
    <3>4. MqType(o.kind) = MqType(c.kind)
      BY <1>2 DEF OtherIn
    <3> QED BY <2>2, <3>3, <3>4 DEF MqType
  <2>4. ASSUME NEW o \in after
        PROVE  \E d \in Defines(fl, qm), b \in BOOLEAN :
                 o = Object(d, b) /\ (b => d.kind = "CHANNEL_SDR")
    <3>1. CASE o \in before
      BY <3>1 DEF Held
    <3>2. CASE o \notin before
      <4>1. o = Object(c, RunningIn(before, c))
        BY <1>2, <3>2 DEF Redefined
      <4>2. RunningIn(before, c) \in BOOLEAN
        BY DEF RunningIn
      <4> QED BY <2>1, <2>3, <4>1, <4>2
    <3> QED BY <3>1, <3>2
  <2> QED BY <2>4 DEF Held
<1>3. ASSUME NEW on \in BOOLEAN, after = Switched(before, c, on), c.verb \in {"START", "STOP"},
             OtherIn(before, c) = {}
      PROVE  Held(fl, qm, after)
  <2>1. c.kind = "CHANNEL_SDR"
    BY <1>3, OrderedForms
  <2>2. ASSUME NEW o \in after
        PROVE  \E d \in Defines(fl, qm), b \in BOOLEAN :
                 o = Object(d, b) /\ (b => d.kind = "CHANNEL_SDR")
    <3>1. CASE o \in before
      BY <3>1 DEF Held
    <3>2. CASE o \notin before
      <4>1. PICK p \in NamedIn(before, c) : o = [p EXCEPT !.running = on]
        BY <1>3, <3>2 DEF Switched
      <4>2. PICK d \in Defines(fl, qm), b \in BOOLEAN : p = Object(d, b)
        BY DEF NamedIn, Held
      <4>3. o = Object(d, on) /\ p.kind = d.kind
        BY <4>1, <4>2, ObjectFields
      <4>4. MqType(p.kind) = MqType(c.kind)
        BY <1>3 DEF OtherIn
      <4>5. d.kind = "CHANNEL_SDR"
        <5>1. d.kind \in {"QLOCAL", "QXMIT", "QREMOTE", "CHANNEL_SDR", "CHANNEL_RCVR"}
          BY CommandForms DEF Defines
        <5> QED BY <2>1, <4>3, <4>4, <5>1 DEF MqType
      <4> QED BY <4>3, <4>5
    <3> QED BY <3>1, <3>2
  <2> QED BY <2>2 DEF Held
<1>4. CASE after = before \ NamedIn(before, c)
  BY <1>4 DEF Held
<1> QED BY <1>1, <1>2, <1>3, <1>4 DEF Outcome

\* A command that did not fail has done what it is for.
LEMMA OutcomeFulfils ==
  ASSUME NEW fl, FlowsOK(fl), NEW qm, NEW direction, NEW c, Ordered(c, fl, qm, direction),
         direction = "APPLY" => Clear(fl, qm),
         NEW before, Held(fl, qm, before), NEW after, NEW class, class # "FAILED",
         Outcome(before, c, direction, after, class)
  PROVE  Fulfilled(after, c, direction)
<1>1. ASSUME direction = "APPLY", c.verb = "DEFINE"
      PROVE  \E b \in BOOLEAN : Object(c, b) \in after
  <2>1. OtherIn(before, c) = {}
    BY <1>1, HeldKind
  <2>2. after = Redefined(before, c)
    BY <1>1, <2>1 DEF Outcome
  <2>3. RunningIn(before, c) \in BOOLEAN
    BY DEF RunningIn
  <2> QED BY <2>2, <2>3 DEF Redefined
<1>2. ASSUME direction = "TEARDOWN", c.verb = "DELETE"
      PROVE  NamedIn(after, c) = {}
  BY <1>2 DEF Outcome
<1>3. ASSUME direction = "TEARDOWN", c.verb = "STOP"
      PROVE  ~RunningIn(after, c)
  <2>1. CASE after = before /\ ~RunningIn(before, c)
    BY <2>1
  <2>2. CASE after = Switched(before, c, FALSE)
    <3> SUFFICES ASSUME NEW o \in NamedIn(after, c), o.running PROVE FALSE
      BY DEF RunningIn
    <3>1. o \notin before \ NamedIn(before, c)
      BY DEF NamedIn
    <3>2. PICK p \in NamedIn(before, c) : o = [p EXCEPT !.running = FALSE]
      BY <2>2, <3>1 DEF Switched, NamedIn
    <3>3. PICK d \in Defines(fl, qm), b \in BOOLEAN : p = Object(d, b)
      BY DEF NamedIn, Held
    <3>4. o.running = FALSE
      BY <3>2, <3>3, ObjectFields
    <3> QED BY <3>4
  <2> QED BY <1>3, <2>1, <2>2 DEF Outcome
<1> QED BY <1>1, <1>2, <1>3 DEF Fulfilled

\* No later command of the plan undoes what an earlier one did.
LEMMA OutcomeKeeps ==
  ASSUME NEW fl, FlowsOK(fl), NEW qm, NEW direction,
         direction = "APPLY" => Clear(fl, qm),
         NEW c, Ordered(c, fl, qm, direction), NEW d, Ordered(d, fl, qm, direction),
         NEW before, Held(fl, qm, before), NEW after, NEW class,
         Outcome(before, c, direction, after, class), Fulfilled(before, d, direction)
  PROVE  Fulfilled(after, d, direction)
<1>1. ASSUME direction = "APPLY", d.verb = "DEFINE"
      PROVE  \E b \in BOOLEAN : Object(d, b) \in after
  <2>1. PICK b \in BOOLEAN : Object(d, b) \in before
    BY <1>1 DEF Fulfilled
  <2>2. Object(d, b).kind = d.kind /\ Object(d, b).name = d.name
    BY ObjectFields
  <2>3. CASE after = before
    BY <2>1, <2>3
  <2>4. CASE c.verb = "DEFINE" /\ after = Redefined(before, c)
    <3>1. CASE Object(d, b) \notin NamedIn(before, c)
      BY <2>1, <2>4, <3>1 DEF Redefined
    <3>2. CASE Object(d, b) \in NamedIn(before, c)
      <4>1. d.name = c.name /\ NameSpace(d.kind) = NameSpace(c.kind)
        BY <2>2, <3>2 DEF NamedIn
      <4>2. c \in Commands(fl, qm) /\ d \in Commands(fl, qm)
        BY <1>1 DEF Ordered
      <4>3. c = d
        BY <1>1, <2>4, <4>1, <4>2, ClearNames
      <4>4. RunningIn(before, c) \in BOOLEAN
        BY DEF RunningIn
      <4> QED BY <2>4, <4>3, <4>4 DEF Redefined
    <3> QED BY <3>1, <3>2
  <2>5. CASE after = Switched(before, c, TRUE)
    <3>1. CASE Object(d, b) \notin NamedIn(before, c)
      BY <2>1, <2>5, <3>1 DEF Switched
    <3>2. CASE Object(d, b) \in NamedIn(before, c)
      <4>1. [Object(d, b) EXCEPT !.running = TRUE] \in after
        BY <2>5, <3>2 DEF Switched
      <4> QED BY <4>1, ObjectFields
    <3> QED BY <3>1, <3>2
  <2>6. Sendable(c, direction)
    BY OrderedForms
  <2> QED BY <1>1, <2>3, <2>4, <2>5, <2>6 DEF Outcome, Sendable
<1>2. ASSUME direction = "TEARDOWN"
      PROVE  \A o \in after : \E p \in before :
               o.name = p.name /\ o.kind = p.kind /\ (o.running => p.running)
  <2>1. Sendable(c, direction)
    BY OrderedForms
  <2>2. CASE after \subseteq before
    BY <2>2
  <2>3. CASE after = Switched(before, c, FALSE)
    <3> SUFFICES ASSUME NEW o \in after
                 PROVE  \E p \in before :
                          o.name = p.name /\ o.kind = p.kind /\ (o.running => p.running)
      OBVIOUS
    <3>1. CASE o \in before
      BY <3>1
    <3>2. CASE o \notin before
      <4>1. PICK p \in NamedIn(before, c) : o = [p EXCEPT !.running = FALSE]
        BY <2>3, <3>2 DEF Switched
      <4>2. PICK x \in Defines(fl, qm), b \in BOOLEAN : p = Object(x, b)
        BY DEF NamedIn, Held
      <4>3. o.running = FALSE
        BY <4>1, <4>2, ObjectFields
      <4>4. o.name = p.name /\ o.kind = p.kind
        BY <4>1, <4>2 DEF Object
      <4> QED BY <4>3, <4>4 DEF NamedIn
    <3> QED BY <3>1, <3>2
  <2> QED BY <1>2, <2>1, <2>2, <2>3 DEF Outcome, Sendable
<1>3. ASSUME direction = "TEARDOWN", d.verb = "DELETE"
      PROVE  NamedIn(after, d) = {}
  BY <1>2, <1>3 DEF NamedIn, Fulfilled
<1>4. ASSUME direction = "TEARDOWN", d.verb = "STOP"
      PROVE  ~RunningIn(after, d)
  BY <1>2, <1>4 DEF NamedIn, RunningIn, Fulfilled
<1> QED BY <1>1, <1>3, <1>4 DEF Fulfilled

RefsIn(set) ==
  \A o \in set : Refers(o) =>
    \E x \in set : x.kind = "QXMIT" /\ x.name = o.refers.xmitq

\* References stay resolved if a command defines nothing before what it refers
\* to, and deletes nothing that is referred to.
LEMMA OutcomeRefs ==
  ASSUME NEW fl, FlowsOK(fl), NEW qm, Clear(fl, qm), NEW direction,
         NEW c, Ordered(c, fl, qm, direction),
         NEW before, Held(fl, qm, before), RefsIn(before), NEW after, NEW class,
         Outcome(before, c, direction, after, class),
         c.verb = "DEFINE" /\ Refers(c) =>
           \E x \in before : x.kind = "QXMIT" /\ x.name = c.refers.xmitq,
         c.verb = "DELETE" /\ c.kind = "QXMIT" =>
           \A o \in before : Refers(o) => o.refers.xmitq # c.name
  PROVE  RefsIn(after)
<1>1. ASSUME NEW x \in before, x.kind = "QXMIT",
             ~(c.verb = "DELETE" /\ c.kind = "QXMIT" /\ c.name = x.name)
      PROVE  \E y \in after : y.kind = "QXMIT" /\ y.name = x.name
  <2>1. CASE x \notin NamedIn(before, c)
    BY <1>1, <2>1 DEF Outcome, Redefined, Switched
  <2>2. CASE after = before
    BY <1>1, <2>2
  <2>3. CASE x \in NamedIn(before, c) /\ after # before
    <3>1. c.verb \in {"DEFINE", "START", "STOP", "DELETE"}
      BY <2>3 DEF Outcome
    <3>2. c.kind = "QXMIT" /\ c.name = x.name
      BY <1>1, <2>3, <3>1, HeldKind DEF NamedIn
    <3>3. c.verb = "DEFINE"
      BY <1>1, <3>1, <3>2, OrderedForms
    <3>4. after = Redefined(before, c)
      BY <2>3, <3>3 DEF Outcome
    <3> QED BY <3>2, <3>4, ObjectFields DEF Redefined
  <2> QED BY <2>1, <2>2, <2>3
<1>2. ASSUME NEW o \in after, o \notin before
      PROVE  \/ c.verb = "DEFINE" /\ o.kind = c.kind /\ o.refers = c.refers
             \/ \E p \in before : o.kind = p.kind /\ o.refers = p.refers
  <2>1. CASE c.verb = "DEFINE" /\ after = Redefined(before, c)
    BY <1>2, <2>1, ObjectFields DEF Redefined
  <2>2. ASSUME NEW on, after = Switched(before, c, on)
        PROVE  \E p \in before : o.kind = p.kind /\ o.refers = p.refers
    <3>1. PICK p \in NamedIn(before, c) : o = [p EXCEPT !.running = on]
      BY <1>2, <2>2 DEF Switched
    <3>2. PICK d \in Defines(fl, qm), b \in BOOLEAN : p = Object(d, b)
      BY DEF NamedIn, Held
    <3>3. o.kind = p.kind /\ o.refers = p.refers
      BY <3>1, <3>2 DEF Object
    <3> QED BY <3>3 DEF NamedIn
  <2> QED BY <1>2, <2>1, <2>2 DEF Outcome
<1>3. ASSUME NEW o \in after, Refers(o)
      PROVE  \E y \in after : y.kind = "QXMIT" /\ y.name = o.refers.xmitq
  <2>1. CASE \E p \in before : o.kind = p.kind /\ o.refers = p.refers
    <3>1. PICK p \in before : o.kind = p.kind /\ o.refers = p.refers
      BY <2>1
    <3>2. PICK x \in before : x.kind = "QXMIT" /\ x.name = o.refers.xmitq
      BY <1>3, <3>1 DEF RefsIn, Refers
    <3>3. ~(c.verb = "DELETE" /\ c.kind = "QXMIT" /\ c.name = x.name)
      BY <1>3, <3>1, <3>2 DEF Refers
    <3> QED BY <1>1, <3>2, <3>3
  <2>2. CASE c.verb = "DEFINE" /\ o.kind = c.kind /\ o.refers = c.refers
    <3>1. PICK x \in before : x.kind = "QXMIT" /\ x.name = c.refers.xmitq
      BY <1>3, <2>2 DEF Refers
    <3> QED BY <1>1, <2>2, <3>1
  <2> QED BY <1>2, <2>1, <2>2
<1> QED BY <1>3 DEF RefsIn

-----------------------------------------------------------------------------
(* Positions in a plan *)

\* What is left of a plan.
Rest(p, full) ==
  /\ p \in Seq({full[i] : i \in 1 .. Len(full)}) /\ Len(p) <= Len(full)
  /\ \A i \in 1 .. Len(p) : p[i] = full[Len(full) - Len(p) + i]

LEMMA RestAll ==
  ASSUME NEW C, NEW full \in Seq(C)
  PROVE  Rest(full, full)
<1>1. Len(full) \in Nat /\ full \in Seq({full[i] : i \in 1 .. Len(full)})
  OBVIOUS
<1>2. \A i \in 1 .. Len(full) : full[i] = full[Len(full) - Len(full) + i]
  BY <1>1
<1> QED BY <1>1, <1>2 DEF Rest

LEMMA RestTail ==
  ASSUME NEW full, Len(full) \in Nat, NEW p, Rest(p, full), p # << >>
  PROVE  /\ Rest(Tail(p), full) /\ Len(Tail(p)) = Len(p) - 1 /\ Len(p) \in 1 .. Len(full)
         /\ Head(p) = full[Len(full) - Len(p) + 1]
<1> DEFINE S == {full[i] : i \in 1 .. Len(full)}
<1>1. p \in Seq(S)
  BY DEF Rest
<1> HIDE DEF S
<1>2. /\ Len(p) \in Nat /\ Len(p) > 0 /\ Len(Tail(p)) = Len(p) - 1 /\ Tail(p) \in Seq(S)
      /\ \A i \in 1 .. Len(p) - 1 : Tail(p)[i] = p[i + 1]
      /\ Head(p) = p[1]
  BY <1>1
<1>3. ASSUME NEW i \in 1 .. Len(Tail(p))
      PROVE  Tail(p)[i] = full[Len(full) - Len(Tail(p)) + i]
  <2>1. i + 1 \in 1 .. Len(p) /\ Tail(p)[i] = p[i + 1]
    BY <1>2
  <2>2. p[i + 1] = full[Len(full) - Len(p) + (i + 1)]
    BY <2>1 DEF Rest
  <2>3. Len(full) - Len(p) + (i + 1) = Len(full) - Len(Tail(p)) + i
    BY <1>2
  <2> QED BY <2>1, <2>2, <2>3
<1>4. Head(p) = full[Len(full) - Len(p) + 1]
  BY <1>2 DEF Rest
<1>5. Len(p) <= Len(full)
  BY DEF Rest
<1> QED BY <1>2, <1>3, <1>4, <1>5 DEF Rest, S

\* The plan of a direction on a queue manager.
PlanOK(plan, fl, qm, direction) ==
  /\ Len(plan) \in Nat
  /\ \E C : plan \in Seq(C)
  /\ \A k \in 1 .. Len(plan) : Ordered(plan[k], fl, qm, direction)
  /\ direction = "APPLY" => ApplyOrder(plan, fl, qm)
  /\ direction = "TEARDOWN" => TeardownOrder(plan, fl, qm)

LEMMA InversePlanSeq ==
  ASSUME NEW C, NEW plan \in Seq(C)
  PROVE  \E D : inverse_plan(plan) \in Seq(D)
<1> DEFINE T == inverse_plan(plan)
           at == Descending(Kept(plan))
<1>1. T = [k \in DOMAIN at |-> TeardownOf(plan[at[k]])]
  BY DEF inverse_plan
<1>2. Len(T) \in Nat /\ DOMAIN T = 1 .. Len(T)
  BY InverseShape
<1> HIDE DEF at
<1>3. T = [k \in 1 .. Len(T) |-> TeardownOf(plan[at[k]])]
  BY <1>1, <1>2
<1> DEFINE D == {TeardownOf(plan[at[k]]) : k \in 1 .. Len(T)}
<1>4. T \in [1 .. Len(T) -> D]
  BY <1>3
<1> HIDE DEF T, D
<1>5. T \in Seq(D)
  BY <1>2, <1>4
<1> QED BY <1>5 DEF T

LEMMA Plans ==
  ASSUME FlowsOK(flows), plans = PlansOf(flows), NEW direction \in Direction, NEW q \in Qm
  PROVE  PlanOK(plans[direction][q], flows, q, direction)
<1> DEFINE plan == derive_mqsc_for_qm(flows, q, DefaultDlq)
<1>1. plans["APPLY"][q] = plan /\ plans["TEARDOWN"][q] = inverse_plan(plan)
  BY DEF PlansOf
<1> HIDE DEF plan
<1>2. ApplyOrder(plan, flows, q) /\ TeardownOrder(inverse_plan(plan), flows, q)
  BY PlanOrder, InverseOrder DEF plan
<1>3. PlanOK(plan, flows, q, "APPLY")
  <2>1. plan \in Seq(Commands(flows, q))
    BY <1>2 DEF ApplyOrder
  <2>2. Len(plan) \in Nat /\ \A k \in 1 .. Len(plan) : plan[k] \in Commands(flows, q)
    BY <2>1
  <2> QED BY <1>2, <2>1, <2>2 DEF PlanOK, Ordered
<1>4. PlanOK(inverse_plan(plan), flows, q, "TEARDOWN")
  <2>1. plan \in Seq(Commands(flows, q))
    BY <1>2 DEF ApplyOrder
  <2>2. \E D : inverse_plan(plan) \in Seq(D)
    BY <2>1, InversePlanSeq
  <2> DEFINE T == inverse_plan(plan)
  <2> HIDE DEF T
  <2>3. TeardownOrder(T, flows, q)
    BY <1>2 DEF T
  <2>4. ASSUME NEW k \in 1 .. Len(T) PROVE Ordered(T[k], flows, q, "TEARDOWN")
    <3>1. /\ T[k].name # DefaultDlq
          /\ \E c \in Defines(flows, q) : T[k].kind = c.kind /\ T[k].name = c.name
          /\ \/ T[k].verb = "DELETE"
             \/ T[k].verb = "STOP" /\ T[k].kind = "CHANNEL_SDR"
      BY <2>3 DEF TeardownOrder
    <3> QED BY <3>1 DEF Ordered
  <2>5. Len(T) \in Nat
    BY <2>3 DEF TeardownOrder
  <2> QED BY <2>2, <2>3, <2>4, <2>5 DEF PlanOK, T
<1>5. direction = "APPLY" \/ direction = "TEARDOWN"
  BY DEF Direction
<1> QED BY <1>1, <1>3, <1>4, <1>5

-----------------------------------------------------------------------------
(* Where a run is: the second inductive invariant. *)

Sending == {"command", "audit", "event", "close"}
InLoop == Sending \cup {"derive", "skip", "dry", "handler"}
Walking == InLoop \cup {"final", "done"}

Base ==
  /\ FlowsOK(flows) /\ plans = PlansOf(flows)
  /\ DOMAIN pod = Qm
  /\ DOMAIN objects = Qm /\ \A q \in Qm : Held(flows, q, objects[q])

\* The queue managers still to come; the commands of the first still to come.
Walk(co, rw, all) ==
  /\ rw.direction \in Direction
  /\ DOMAIN co.snapshot = Qm
  /\ co.left \in Seq(Qm)
  /\ co.pc \in InLoop => co.left # << >>
  /\ co.pc \in {"final", "done"} => co.left = << >>
  /\ co.pc \in {"skip", "dry"} \cup Sending =>
       Rest(co.plan, all[rw.direction][Head(co.left)])
  /\ co.pc \in {"command", "audit", "event"} => co.plan # << >>
  /\ co.pc = "close" => co.plan = << >>
  /\ co.pc \in Sending => co.snapshot[Head(co.left)] # NoPod /\ ~co.dry
  /\ co.pc = "skip" => co.snapshot[Head(co.left)] = NoPod
  /\ co.pc = "dry" => co.dry
  /\ rw.state \in Finished => rw.state = Verdict(co.completed, co.failed, co.commands)

WalkInv == Base /\ \A r \in Run : Walk(coroutine[r], row[r], plans)

LEMMA InitWalkInv == Init => WalkInv
<1> SUFFICES ASSUME Init PROVE WalkInv
  OBVIOUS
<1>1. FlowsOK(flows)
  BY TopologyAssumption DEF Init, FlowsOK
<1>2. Base
  BY <1>1 DEF Init, Base, Held
<1>3. ASSUME NEW r \in Run PROVE Walk(coroutine[r], row[r], plans)
  <2>1. coroutine[r] = NoCoroutine /\ row[r] = NoRow
    BY DEF Init
  <2>2. /\ NoCoroutine.pc = "none" /\ NoCoroutine.left = << >>
        /\ NoCoroutine.snapshot = [q \in Qm |-> NoPod]
        /\ NoRow.direction = "APPLY" /\ NoRow.state = "none"
    BY DEF NoCoroutine, NoRow
  <2>3. << >> \in Seq(Qm)
    OBVIOUS
  <2> QED BY <2>1, <2>2, <2>3 DEF Walk, InLoop, Sending, Direction, Finished
<1> QED BY <1>2, <1>3 DEF WalkInv

\* What a step of run r leaves alone.
Others(r) == \A s \in Run \ {r} : coroutine'[s] = coroutine[s] /\ row'[s] = row[s]

LEMMA FrameWalk ==
  ASSUME WalkInv, NEW r \in Run, Others(r), UNCHANGED << flows, plans, pod >>,
         DOMAIN objects' = Qm, \A q \in Qm : Held(flows, q, objects'[q]),
         Walk(coroutine'[r], row'[r], plans)
  PROVE  WalkInv'
<1>1. Base'
  BY DEF WalkInv, Base
<1>2. ASSUME NEW s \in Run PROVE Walk(coroutine'[s], row'[s], plans')
  <2>1. CASE s = r
    BY <2>1
  <2>2. CASE s # r
    BY <2>2 DEF Others, WalkInv
  <2> QED BY <2>1, <2>2
<1> QED BY <1>1, <1>2 DEF WalkInv

\* What Goto leaves as it was.
LEMMA GotoWalk ==
  ASSUME RunInv, NEW r \in Run, NEW pc, Goto(r, pc)
  PROVE  LET old == coroutine[r] new == coroutine'[r]
         IN  /\ \A s \in Run \ {r} : coroutine'[s] = coroutine[s]
             /\ new.pc = pc /\ new.dry = old.dry /\ new.snapshot = old.snapshot
             /\ new.left = old.left /\ new.plan = old.plan /\ new.qm = old.qm
             /\ new.class = old.class /\ new.completed = old.completed
             /\ new.failed = old.failed /\ new.commands = old.commands
BY DEF RunInv, Domains, Story, ShapeOK, Goto, CoroutineFields

LEMMA HereWalk ==
  ASSUME WalkInv, NEW r \in Run
  PROVE  /\ Walk(coroutine[r], row[r], plans) /\ FlowsOK(flows) /\ plans = PlansOf(flows)
         /\ DOMAIN objects = Qm /\ \A q \in Qm : Held(flows, q, objects[q])
BY DEF WalkInv, Base

\* Steps that leave the objects, and the rows or their verdicts.
LEMMA GotoKeepsWalk ==
  ASSUME RunInv, WalkInv, NEW r \in Run, NEW pc, Goto(r, pc),
         UNCHANGED << flows, plans, pod, objects >>,
         \A s \in Run \ {r} : row'[s] = row[s],
         row'[r].direction = row[r].direction,
         row'[r].state \in Finished =>
           row'[r].state = Verdict(coroutine[r].completed, coroutine[r].failed,
                                   coroutine[r].commands),
         \/ pc \in {"load", "dead"}
         \/ pc = "event" /\ coroutine[r].pc = "audit"
         \/ pc = "done" /\ coroutine[r].pc = "final"
         \/ pc = "handler" /\ coroutine[r].pc \in InLoop
  PROVE  WalkInv'
<1>1. Walk(coroutine[r], row[r], plans)
  BY HereWalk
<1>2. Walk(coroutine'[r], row'[r], plans)
  BY <1>1, GotoWalk DEF Walk, InLoop, Sending
<1>3. Others(r)
  BY GotoWalk DEF Others
<1>4. DOMAIN objects' = Qm /\ \A q \in Qm : Held(flows, q, objects'[q])
  BY HereWalk
<1> QED BY <1>2, <1>3, <1>4, FrameWalk

LEMMA StartRunWalk ==
  ASSUME RunInv, WalkInv, NEW r \in Run, NEW direction \in Direction, NEW dry,
         StartRun(r, direction, dry)
  PROVE  WalkInv'
<1>1. Walk(coroutine[r], row[r], plans)
  BY HereWalk
<1>2. /\ \A s \in Run \ {r} : coroutine'[s] = coroutine[s] /\ row'[s] = row[s]
      /\ row'[r].direction = direction /\ row'[r].state = "PENDING"
      /\ coroutine'[r].pc = "pending" /\ coroutine'[r].left = coroutine[r].left
      /\ coroutine'[r].snapshot = coroutine[r].snapshot
      /\ UNCHANGED << flows, plans, pod, objects >>
  BY DEF StartRun, RunInv, Domains, Story, ShapeOK, CoroutineFields, RowFields
<1>3. Walk(coroutine'[r], row'[r], plans)
  BY <1>1, <1>2 DEF Walk, InLoop, Sending, Finished
<1> QED BY <1>2, <1>3, HereWalk, FrameWalk DEF Others

LEMMA MovesWalk ==
  ASSUME RunInv, WalkInv, NEW r \in Run,
         \/ MoveToRunning(r) \/ TopologyDisappeared(r) \/ WriteCommandAudit(r)
         \/ FinalizeRun(r) \/ WriteFindsNoRow(r) \/ WriteIsLocked(r)
  PROVE  WalkInv'
<1>1. Walk(coroutine[r], row[r], plans)
  BY HereWalk
<1>2. DOMAIN row = Run /\ DOMAIN row[r] = RowFields
  BY DEF RunInv, Domains, Story, ShapeOK
<1>3. CASE MoveToRunning(r)
  <2>1. /\ Goto(r, "load") /\ UNCHANGED << flows, plans, pod, objects >>
        /\ \A s \in Run \ {r} : row'[s] = row[s]
        /\ row'[r].direction = row[r].direction /\ row'[r].state = "RUNNING"
    BY <1>2, <1>3 DEF MoveToRunning, RowFields
  <2>2. "RUNNING" \notin Finished
    BY DEF Finished
  <2> QED BY <2>1, <2>2, GotoKeepsWalk
<1>4. CASE TopologyDisappeared(r) \/ WriteFindsNoRow(r) \/ WriteIsLocked(r)
  <2>1. PICK pc : /\ Goto(r, pc)
                  /\ pc = "dead" \/ (pc = "handler" /\ coroutine[r].pc \in InLoop)
    BY <1>4 DEF TopologyDisappeared, WriteFindsNoRow, WriteIsLocked, AfterRaise, Guarded, InLoop,
                Sending
  <2>2. UNCHANGED << flows, plans, pod, objects, row >>
    BY <1>4 DEF TopologyDisappeared, WriteFindsNoRow, WriteIsLocked
  <2>3. row'[r].state \in Finished =>
          row'[r].state = Verdict(coroutine[r].completed, coroutine[r].failed,
                                  coroutine[r].commands)
    BY <1>1, <2>2 DEF Walk
  <2> QED BY <2>1, <2>2, <2>3, GotoKeepsWalk
<1>5. CASE WriteCommandAudit(r)
  <2>1. /\ Goto(r, "event") /\ coroutine[r].pc = "audit"
        /\ UNCHANGED << flows, plans, pod, objects, row >>
    BY <1>5 DEF WriteCommandAudit
  <2>2. row'[r].state \in Finished =>
          row'[r].state = Verdict(coroutine[r].completed, coroutine[r].failed,
                                  coroutine[r].commands)
    BY <1>1, <2>1 DEF Walk
  <2> QED BY <2>1, <2>2, GotoKeepsWalk
<1>6. CASE FinalizeRun(r)
  <2>1. /\ Goto(r, "done") /\ coroutine[r].pc = "final"
        /\ UNCHANGED << flows, plans, pod, objects >>
        /\ \A s \in Run \ {r} : row'[s] = row[s]
        /\ row'[r].direction = row[r].direction
        /\ row'[r].state = Verdict(coroutine[r].completed, coroutine[r].failed,
                                   coroutine[r].commands)
    BY <1>2, <1>6 DEF FinalizeRun, RowFields
  <2> QED BY <2>1, GotoKeepsWalk
<1> QED BY <1>3, <1>4, <1>5, <1>6

LEMMA LoadTopologyWalk ==
  ASSUME RunInv, WalkInv, NEW r \in Run, LoadTopology(r)
  PROVE  WalkInv'
<1>1. Walk(coroutine[r], row[r], plans) /\ DOMAIN pod = Qm
  BY HereWalk DEF WalkInv, Base
<1>2. /\ \A s \in Run \ {r} : coroutine'[s] = coroutine[s]
      /\ coroutine'[r].pc = "derive" /\ coroutine'[r].left = QmOrder
      /\ coroutine'[r].snapshot = pod
      /\ coroutine'[r].completed = coroutine[r].completed
      /\ coroutine'[r].failed = coroutine[r].failed
      /\ coroutine'[r].commands = coroutine[r].commands
      /\ UNCHANGED << flows, plans, pod, objects, row >>
  BY DEF LoadTopology, RunInv, Domains, Story, ShapeOK, CoroutineFields
<1>3. QmOrder \in Seq(Qm) /\ QmOrder # << >>
  BY TopologyAssumption
<1>4. Walk(coroutine'[r], row'[r], plans)
  BY <1>1, <1>2, <1>3 DEF Walk, InLoop, Sending
<1> QED BY <1>2, <1>4, HereWalk, FrameWalk DEF Others

LEMMA DerivePlanWalk ==
  ASSUME RunInv, WalkInv, NEW r \in Run, DerivePlan(r)
  PROVE  WalkInv'
<1> DEFINE qm == Head(coroutine[r].left)
           plan == plans[row[r].direction][qm]
<1>1. Walk(coroutine[r], row[r], plans)
  BY HereWalk
<1>2. /\ \A s \in Run \ {r} : coroutine'[s] = coroutine[s]
      /\ coroutine[r].pc = "derive" /\ coroutine'[r].left = coroutine[r].left
      /\ coroutine'[r].snapshot = coroutine[r].snapshot
      /\ coroutine'[r].plan = plan
      /\ coroutine'[r].dry = coroutine[r].dry
      /\ coroutine'[r].pc = IF coroutine[r].snapshot[qm] = NoPod THEN "skip"
                            ELSE IF coroutine[r].dry THEN "dry" ELSE CommandOrClose(plan)
      /\ coroutine'[r].completed = coroutine[r].completed
      /\ coroutine'[r].failed = coroutine[r].failed
      /\ coroutine'[r].commands = coroutine[r].commands
      /\ UNCHANGED << flows, plans, pod, objects, row >>
  BY DEF DerivePlan, PlanOf, Head_, RunInv, Domains, Story, ShapeOK, CoroutineFields
<1>3. qm \in Qm /\ row[r].direction \in Direction
  BY <1>1, <1>2 DEF Walk, InLoop
<1>4. PlanOK(plan, flows, qm, row[r].direction)
  BY <1>3, HereWalk, Plans
<1> HIDE DEF plan, qm
<1>5. Rest(plan, plan)
  BY <1>4, RestAll DEF PlanOK
<1>6. coroutine'[r].pc \in {"skip", "dry", "command", "close"}
      /\ (coroutine'[r].pc = "close" => plan = << >>)
      /\ (coroutine'[r].pc = "command" => plan # << >>)
      /\ (coroutine'[r].pc \in Sending => coroutine[r].snapshot[qm] # NoPod /\ ~coroutine[r].dry)
      /\ (coroutine'[r].pc = "skip" => coroutine[r].snapshot[qm] = NoPod)
      /\ (coroutine'[r].pc = "dry" => coroutine[r].dry)
  BY <1>2 DEF CommandOrClose, Sending
<1>7. Walk(coroutine'[r], row'[r], plans)
  <2>1. coroutine[r].left # << >> /\ coroutine[r].left \in Seq(Qm)
        /\ DOMAIN coroutine[r].snapshot = Qm
        /\ (row[r].state \in Finished => row[r].state = Verdict(coroutine[r].completed,
              coroutine[r].failed, coroutine[r].commands))
    BY <1>1, <1>2 DEF Walk, InLoop
  <2> QED BY <1>2, <1>3, <1>5, <1>6, <2>1 DEF Walk, InLoop, Sending, qm, plan
<1> QED BY <1>2, <1>7, HereWalk, FrameWalk DEF Others

\* The next queue manager, after one that was passed, closed or that raised.
LEMMA AdvanceEffect ==
  ASSUME RunInv, WalkInv, NEW r \in Run,
         SkipQm(r) \/ DryRun(r) \/ CloseQm(r) \/ LogException(r)
  PROVE  LET old == coroutine[r] new == coroutine'[r]
         IN  /\ \A s \in Run \ {r} : coroutine'[s] = coroutine[s] /\ row'[s] = row[s]
             /\ UNCHANGED << flows, plans, deletion, pod, objects, logged, env >>
             /\ old.pc \in {"skip", "dry", "close", "handler"} /\ row[r].state # "gone"
             /\ new.pc \in {"final", "derive"}
             /\ new.pc = "final" <=> Len(old.left) = 1
             /\ new.left = Tail(old.left) /\ new.qm = NoTally
             /\ new.dry = old.dry /\ new.snapshot = old.snapshot
             /\ row'[r].direction = row[r].direction /\ row'[r].state = row[r].state
<1>1. /\ DOMAIN coroutine = Run /\ DOMAIN coroutine[r] = CoroutineFields
      /\ DOMAIN row = Run /\ DOMAIN row[r] = RowFields
  BY DEF RunInv, Domains, Story, ShapeOK
<1>2. ASSUME NEW outcome, NextQm(r, outcome)
      PROVE  /\ \A s \in Run \ {r} : coroutine'[s] = coroutine[s]
             /\ coroutine'[r].pc = IF Len(coroutine[r].left) = 1 THEN "final" ELSE "derive"
             /\ coroutine'[r].left = Tail(coroutine[r].left) /\ coroutine'[r].qm = NoTally
             /\ coroutine'[r].dry = coroutine[r].dry
             /\ coroutine'[r].snapshot = coroutine[r].snapshot
  BY <1>1, <1>2 DEF NextQm, CoroutineFields
<1>3. CASE SkipQm(r) \/ DryRun(r)
  <2>1. /\ coroutine[r].pc \in {"skip", "dry"} /\ row[r].state # "gone"
        /\ \E outcome : NextQm(r, outcome)
        /\ UNCHANGED << flows, plans, deletion, pod, objects, row, logged, env >>
    BY <1>3 DEF SkipQm, DryRun
  <2> QED BY <1>2, <2>1
<1>4. CASE CloseQm(r)
  <2>1. /\ coroutine[r].pc = "close" /\ row[r].state # "gone"
        /\ NextQm(r, coroutine[r].qm)
        /\ UNCHANGED << flows, plans, deletion, pod, objects, logged, env >>
        /\ \A s \in Run \ {r} : row'[s] = row[s]
        /\ row'[r].direction = row[r].direction /\ row'[r].state = row[r].state
    BY <1>1, <1>4 DEF CloseQm, RowFields
  <2> QED BY <1>2, <2>1
<1>5. CASE LogException(r)
  BY <1>1, <1>5 DEF LogException, CoroutineFields
<1> QED BY <1>3, <1>4, <1>5

LEMMA Tails ==
  ASSUME NEW C, NEW s \in Seq(C), s # << >>
  PROVE  /\ Tail(s) \in Seq(C) /\ Len(Tail(s)) = Len(s) - 1 /\ Head(s) \in C
         /\ Len(s) \in Nat
         /\ Len(s) = 1 => Tail(s) = << >>
         /\ Len(s) # 1 => Tail(s) # << >>
         /\ Range(s) = {Head(s)} \cup Range(Tail(s))
<1>1. /\ Tail(s) \in Seq(C) /\ Len(Tail(s)) = Len(s) - 1 /\ Len(s) \in Nat /\ Len(s) > 0
      /\ Head(s) = s[1] /\ DOMAIN s = 1 .. Len(s) /\ s[1] \in C
      /\ DOMAIN Tail(s) = 1 .. Len(s) - 1
      /\ \A i \in 1 .. Len(s) - 1 : Tail(s)[i] = s[i + 1]
  OBVIOUS
<1>2. ASSUME NEW t \in Seq(C), Len(t) = 0 PROVE t = << >>
  BY <1>2
<1>3. ASSUME NEW t \in Seq(C), t = << >> PROVE Len(t) = 0
  BY <1>3
<1>4. Len(s) = 1 => Tail(s) = << >>
  BY <1>1, <1>2
<1>5. Len(s) # 1 => Tail(s) # << >>
  <2> SUFFICES ASSUME Tail(s) = << >> PROVE Len(s) = 1
    OBVIOUS
  <2>1. Len(Tail(s)) = 0
    BY <1>3, <1>1
  <2> QED BY <1>1, <2>1
<1>6. \A x \in Range(s) : x = Head(s) \/ x \in Range(Tail(s))
  <2> SUFFICES ASSUME NEW i \in 1 .. Len(s) PROVE s[i] = Head(s) \/ s[i] \in Range(Tail(s))
    BY <1>1 DEF Range
  <2>1. CASE i = 1
    BY <1>1, <2>1
  <2>2. CASE i # 1
    <3>1. i - 1 \in DOMAIN Tail(s) /\ Tail(s)[i - 1] = s[i]
      <4>1. i - 1 \in 1 .. Len(s) - 1 /\ (i - 1) + 1 = i
        BY <1>1, <2>2
      <4> QED BY <1>1, <4>1
    <3> QED BY <3>1 DEF Range
  <2> QED BY <2>1, <2>2
<1>7. \A i \in DOMAIN Tail(s) : Tail(s)[i] = s[i + 1] /\ i + 1 \in DOMAIN s
  BY <1>1
<1>8. Head(s) \in Range(s) /\ \A x \in Range(Tail(s)) : x \in Range(s)
  BY <1>1, <1>7 DEF Range
<1> QED BY <1>1, <1>4, <1>5, <1>6, <1>8

LEMMA AdvanceWalk ==
  ASSUME RunInv, WalkInv, NEW r \in Run,
         SkipQm(r) \/ DryRun(r) \/ CloseQm(r) \/ LogException(r)
  PROVE  WalkInv'
<1> DEFINE left == coroutine[r].left
<1>1. Walk(coroutine[r], row[r], plans)
  BY HereWalk
<1>2. /\ coroutine[r].pc \in {"skip", "dry", "close", "handler"}
      /\ coroutine'[r].pc \in {"final", "derive"}
      /\ coroutine'[r].pc = "final" <=> Len(left) = 1
      /\ coroutine'[r].left = Tail(left)
      /\ coroutine'[r].snapshot = coroutine[r].snapshot
      /\ row'[r].direction = row[r].direction /\ row'[r].state = row[r].state
      /\ UNCHANGED << flows, plans, pod, objects >>
      /\ Others(r)
  BY AdvanceEffect DEF Others
<1>3. left \in Seq(Qm) /\ left # << >>
  BY <1>1, <1>2 DEF Walk, InLoop, Sending
<1> HIDE DEF left
<1>4. /\ Tail(left) \in Seq(Qm)
      /\ Len(left) = 1 => Tail(left) = << >>
      /\ Len(left) # 1 => Tail(left) # << >>
  BY <1>3, Tails
<1>5. row[r].state \notin Finished
  <2>1. row[r].state \in Finished => coroutine[r].pc = "done"
    BY DEF RunInv, Story, Closed
  <2> QED BY <1>2, <2>1
<1>6. Walk(coroutine'[r], row'[r], plans)
  BY <1>1, <1>2, <1>4, <1>5 DEF Walk, InLoop, Sending
<1>7. DOMAIN objects' = Qm /\ \A q \in Qm : Held(flows, q, objects'[q])
  BY <1>2, HereWalk
<1> QED BY <1>2, <1>6, <1>7, FrameWalk

LEMMA RecordEffect ==
  ASSUME RunInv, WalkInv, NEW r \in Run, RecordCommand(r)
  PROVE  LET old == coroutine[r] new == coroutine'[r]
         IN  /\ \A s \in Run \ {r} : coroutine'[s] = coroutine[s]
             /\ UNCHANGED << flows, plans, deletion, pod, objects, row, logged, env >>
             /\ old.pc = "event" /\ row[r].state # "gone"
             /\ new.pc = CommandOrClose(Tail(old.plan))
             /\ new.left = old.left /\ new.plan = Tail(old.plan)
             /\ new.dry = old.dry /\ new.snapshot = old.snapshot
             /\ new.completed = old.completed /\ new.failed = old.failed
             /\ new.commands = old.commands
             /\ new.qm = Plus(old.qm, One(old.class))
BY DEF RecordCommand, RunInv, Domains, Story, ShapeOK, CoroutineFields

LEMMA RecordWalk ==
  ASSUME RunInv, WalkInv, NEW r \in Run, RecordCommand(r)
  PROVE  WalkInv'
<1> DEFINE full == plans[row[r].direction][Head(coroutine[r].left)]
           plan == coroutine[r].plan
<1>1. Walk(coroutine[r], row[r], plans)
  BY HereWalk
<1>2. /\ coroutine[r].pc = "event"
      /\ coroutine'[r].pc = CommandOrClose(Tail(plan))
      /\ coroutine'[r].left = coroutine[r].left /\ coroutine'[r].plan = Tail(plan)
      /\ coroutine'[r].dry = coroutine[r].dry
      /\ coroutine'[r].snapshot = coroutine[r].snapshot
      /\ coroutine'[r].completed = coroutine[r].completed
      /\ coroutine'[r].failed = coroutine[r].failed
      /\ coroutine'[r].commands = coroutine[r].commands
      /\ UNCHANGED << flows, plans, pod, objects, row >>
      /\ Others(r)
  BY RecordEffect DEF Others
<1>3. /\ coroutine[r].left \in Seq(Qm) /\ coroutine[r].left # << >>
      /\ row[r].direction \in Direction /\ Rest(plan, full) /\ plan # << >>
  BY <1>1, <1>2 DEF Walk, InLoop, Sending
<1>4. Len(full) \in Nat
  <2>1. Head(coroutine[r].left) \in Qm
    BY <1>3
  <2> QED BY <1>3, <2>1, HereWalk, Plans DEF PlanOK
<1>5. Rest(Tail(plan), full)
  <2> HIDE DEF full, plan
  <2> QED BY <1>3, <1>4, RestTail
<1>6. /\ coroutine'[r].pc \in {"command", "close"}
      /\ coroutine'[r].pc = "command" => Tail(plan) # << >>
      /\ coroutine'[r].pc = "close" => Tail(plan) = << >>
  BY <1>2 DEF CommandOrClose
<1>7. Walk(coroutine'[r], row'[r], plans)
  <2> HIDE DEF plan
  <2> QED BY <1>1, <1>2, <1>3, <1>5, <1>6 DEF Walk, InLoop, Sending
<1>8. DOMAIN objects' = Qm /\ \A q \in Qm : Held(flows, q, objects'[q])
  BY <1>2, HereWalk
<1> QED BY <1>2, <1>7, <1>8, FrameWalk

\* The command that a run sends is the next of its plan, on the first of the
\* queue managers left; what it leaves there.
SentCommand(r) ==
  LET q == Head(coroutine[r].left) full == plans[row[r].direction][q]
  IN  full[Len(full) - Len(coroutine[r].plan) + 1]

LEMMA CommandEffect ==
  ASSUME RunInv, WalkInv, NEW r \in Run, ApplyCommand(r) \/ CommandMiscarries(r)
  PROVE  LET old == coroutine[r] new == coroutine'[r] q == Head(coroutine[r].left)
         IN  /\ \A s \in Run \ {r} : coroutine'[s] = coroutine[s]
             /\ UNCHANGED << flows, plans, deletion, pod, row, logged >>
             /\ old.pc = "command" /\ new.pc = "audit" /\ q \in Qm
             /\ new.left = old.left /\ new.plan = old.plan
             /\ new.dry = old.dry /\ new.snapshot = old.snapshot
             /\ new.completed = old.completed /\ new.failed = old.failed
             /\ new.commands = old.commands /\ new.qm = old.qm
             /\ DOMAIN objects' = Qm
             /\ \A p \in Qm \ {q} : objects'[p] = objects[p]
             /\ Head(old.plan) = SentCommand(r)
             /\ Ordered(SentCommand(r), flows, q, row[r].direction)
             /\ Outcome(objects[q], SentCommand(r), row[r].direction, objects'[q], new.class)
             /\ ~CommandMiscarries(r) /\ Reaches(r, q)
                  /\ ~Obstacle(objects[q], SentCommand(r), row[r].direction)
                => new.class # "FAILED"
<1> DEFINE q == Head(coroutine[r].left)
           dir == row[r].direction
           full == plans[dir][q]
           plan == coroutine[r].plan
           c == Head(plan)
<1>1. Walk(coroutine[r], row[r], plans) /\ coroutine[r].pc = "command"
  BY HereWalk DEF ApplyCommand, CommandMiscarries
<1>2. /\ coroutine[r].left \in Seq(Qm) /\ coroutine[r].left # << >>
      /\ dir \in Direction /\ Rest(plan, full) /\ plan # << >>
  BY <1>1 DEF Walk, InLoop, Sending
<1>3. q \in Qm
  BY <1>2
<1>4. PlanOK(full, flows, q, dir)
  BY <1>2, <1>3, HereWalk, Plans
<1>5. c = full[Len(full) - Len(plan) + 1] /\ Len(plan) \in 1 .. Len(full) /\ Len(full) \in Nat
  <2>1. Len(full) \in Nat
    BY <1>4 DEF PlanOK
  <2> HIDE DEF full, plan
  <2> QED BY <1>2, <2>1, RestTail
<1>6. c = SentCommand(r)
  BY <1>5 DEF SentCommand
<1>7. Ordered(c, flows, q, dir)
  <2>1. Len(full) - Len(plan) + 1 \in 1 .. Len(full)
    <3> HIDE DEF full, plan
    <3> QED BY <1>5
  <2> QED BY <1>4, <1>5, <2>1 DEF PlanOK
<1>8. Sendable(c, dir)
  BY <1>7, HereWalk, OrderedForms
<1>9. \E e : /\ objects' = [objects EXCEPT ![q] = e.objects]
             /\ coroutine' = [coroutine EXCEPT ![r].pc = "audit",
                                ![r].class = Classify(e.reply, dir)]
             /\ Outcome(objects[q], c, dir, e.objects, Classify(e.reply, dir))
             /\ ~CommandMiscarries(r) /\ Reaches(r, q) /\ ~Obstacle(objects[q], c, dir)
                  => Classify(e.reply, dir) # "FAILED"
  <2> HIDE DEF c, dir, q
  <2>1. CASE CommandMiscarries(r)
    <3>1. PICK e \in Faulty(q, c) :
            /\ objects' = [objects EXCEPT ![q] = e.objects]
            /\ coroutine' = [coroutine EXCEPT ![r].pc = "audit",
                                ![r].class = Classify(e.reply, dir)]
      BY <2>1 DEF CommandMiscarries, Head_, c, dir, q
    <3>2. Outcome(objects[q], c, dir, e.objects, Classify(e.reply, dir))
      BY <1>2, <1>8, MiscarriageOf
    <3> QED BY <2>1, <3>1, <3>2
  <2>2. CASE ApplyCommand(r)
    <3>1. PICK e \in IF Reaches(r, q) THEN Effects(q, c)
                    ELSE {[objects |-> objects[q], reply |-> Unanswered]} :
            /\ objects' = [objects EXCEPT ![q] = e.objects]
            /\ coroutine' = [coroutine EXCEPT ![r].pc = "audit",
                                ![r].class = Classify(e.reply, dir)]
      BY <2>2 DEF ApplyCommand, Head_, c, dir, q
    <3>2. CASE Reaches(r, q)
      <4>1. e \in Effects(q, c)
        BY <3>2
      <4>2. /\ Outcome(objects[q], c, dir, e.objects, Classify(e.reply, dir))
            /\ ~Obstacle(objects[q], c, dir) => Classify(e.reply, dir) # "FAILED"
        BY <1>2, <1>8, <4>1, EffectsOf
      <4> QED BY <3>1, <4>2
    <3>3. CASE ~Reaches(r, q)
      <4>1. e.objects = objects[q] /\ e.reply = Unanswered
        BY <3>3
      <4>2. Classify(e.reply, dir) = "FAILED"
        BY <1>2, <4>1, ClassOfNone
      <4>3. Outcome(objects[q], c, dir, e.objects, Classify(e.reply, dir))
        BY <4>1, <4>2 DEF Outcome
      <4> QED BY <3>1, <3>3, <4>3
    <3> QED BY <3>2, <3>3
  <2> QED BY <2>1, <2>2
<1>10. PICK e : /\ objects' = [objects EXCEPT ![q] = e.objects]
                /\ coroutine' = [coroutine EXCEPT ![r].pc = "audit",
                                   ![r].class = Classify(e.reply, dir)]
                /\ Outcome(objects[q], c, dir, e.objects, Classify(e.reply, dir))
                /\ ~CommandMiscarries(r) /\ Reaches(r, q) /\ ~Obstacle(objects[q], c, dir)
                     => Classify(e.reply, dir) # "FAILED"
  BY <1>9
<1>11. /\ \A s \in Run \ {r} : coroutine'[s] = coroutine[s]
       /\ coroutine'[r].pc = "audit" /\ coroutine'[r].class = Classify(e.reply, dir)
       /\ coroutine'[r].left = coroutine[r].left /\ coroutine'[r].plan = coroutine[r].plan
       /\ coroutine'[r].dry = coroutine[r].dry
       /\ coroutine'[r].snapshot = coroutine[r].snapshot
       /\ coroutine'[r].completed = coroutine[r].completed
       /\ coroutine'[r].failed = coroutine[r].failed
       /\ coroutine'[r].commands = coroutine[r].commands
       /\ coroutine'[r].qm = coroutine[r].qm
  <2>1. DOMAIN coroutine = Run /\ DOMAIN coroutine[r] = CoroutineFields
    BY DEF RunInv, Domains, Story, ShapeOK
  <2> QED BY <1>10, <2>1 DEF CoroutineFields
<1>12. /\ DOMAIN objects' = Qm /\ objects'[q] = e.objects
       /\ \A p \in Qm \ {q} : objects'[p] = objects[p]
  <2> HIDE DEF q
  <2> QED BY <1>3, <1>10, HereWalk
<1>13. UNCHANGED << flows, plans, deletion, pod, row, logged >>
  BY DEF ApplyCommand, CommandMiscarries
<1> HIDE DEF c
<1>14. Outcome(objects[q], c, dir, objects'[q], coroutine'[r].class)
  BY <1>10, <1>11, <1>12
<1>15. ~CommandMiscarries(r) /\ Reaches(r, q) /\ ~Obstacle(objects[q], c, dir)
         => coroutine'[r].class # "FAILED"
  BY <1>10, <1>11
<1> QED BY <1>1, <1>3, <1>6, <1>7, <1>11, <1>12, <1>13, <1>14, <1>15 DEF c

LEMMA CommandWalk ==
  ASSUME RunInv, WalkInv, NEW r \in Run, ApplyCommand(r) \/ CommandMiscarries(r)
  PROVE  WalkInv'
<1> DEFINE q == Head(coroutine[r].left)
<1>1. Walk(coroutine[r], row[r], plans)
  BY HereWalk
<1>2. /\ coroutine[r].pc = "command" /\ coroutine'[r].pc = "audit" /\ q \in Qm
      /\ coroutine'[r].left = coroutine[r].left /\ coroutine'[r].plan = coroutine[r].plan
      /\ coroutine'[r].dry = coroutine[r].dry
      /\ coroutine'[r].snapshot = coroutine[r].snapshot
      /\ coroutine'[r].completed = coroutine[r].completed
      /\ coroutine'[r].failed = coroutine[r].failed
      /\ coroutine'[r].commands = coroutine[r].commands
      /\ UNCHANGED << flows, plans, pod, row >>
      /\ Others(r)
      /\ DOMAIN objects' = Qm /\ \A p \in Qm \ {q} : objects'[p] = objects[p]
  BY CommandEffect DEF Others
<1>3. /\ Ordered(SentCommand(r), flows, q, row[r].direction)
      /\ Outcome(objects[q], SentCommand(r), row[r].direction, objects'[q], coroutine'[r].class)
  BY CommandEffect
<1> HIDE DEF q
<1>4. Held(flows, q, objects'[q])
  BY <1>2, <1>3, HereWalk, OutcomeHeld
<1>5. \A p \in Qm : Held(flows, p, objects'[p])
  BY <1>2, <1>4, HereWalk
<1>6. Walk(coroutine'[r], row'[r], plans)
  BY <1>1, <1>2 DEF Walk, InLoop, Sending
<1> QED BY <1>2, <1>5, <1>6, FrameWalk

LEMMA EnvironmentWalk ==
  ASSUME RunInv, WalkInv,
         (\E lost \in SUBSET Qm : LosePods(lost)) \/ GainPods \/ CheckDelete \/ DeleteTopology \/ Crash
  PROVE  WalkInv'
<1>1. /\ FlowsOK(flows) /\ plans = PlansOf(flows) /\ DOMAIN pod = Qm
      /\ DOMAIN objects = Qm /\ \A q \in Qm : Held(flows, q, objects[q])
      /\ UNCHANGED << flows, plans >>
  BY DEF WalkInv, Base, LosePods, GainPods, CheckDelete, DeleteTopology, Crash
<1>2. Base'
  <2>1. CASE \E lost \in SUBSET Qm : LosePods(lost)
    <3>1. PICK lost \in SUBSET Qm : LosePods(lost)
      BY <2>1
    <3>2. DOMAIN pod' = Qm
      BY <1>1, <3>1 DEF LosePods
    <3>3. DOMAIN objects' = Qm /\ \A q \in Qm : Held(flows, q, objects'[q])
      BY <1>1, <3>1 DEF LosePods, Held
    <3> QED BY <1>1, <3>2, <3>3 DEF Base
  <2>2. CASE GainPods
    <3>1. DOMAIN pod' = Qm /\ UNCHANGED objects
      BY <2>2 DEF GainPods
    <3> QED BY <1>1, <3>1 DEF Base
  <2>3. CASE CheckDelete \/ DeleteTopology \/ Crash
    <3>1. UNCHANGED << pod, objects >>
      BY <2>3 DEF CheckDelete, DeleteTopology, Crash
    <3> QED BY <1>1, <3>1 DEF Base
  <2> QED BY <2>1, <2>2, <2>3
<1>3. ASSUME NEW r \in Run PROVE Walk(coroutine'[r], row'[r], plans)
  <2>1. Walk(coroutine[r], row[r], plans)
    BY HereWalk
  <2>2. DOMAIN coroutine[r] = CoroutineFields /\ DOMAIN row[r] = RowFields
    BY DEF RunInv, Domains, Story, ShapeOK
  <2>3. CASE (\E lost \in SUBSET Qm : LosePods(lost)) \/ GainPods \/ CheckDelete
    BY <2>1, <2>3 DEF LosePods, GainPods, CheckDelete
  <2>4. CASE DeleteTopology
    <3>1. /\ UNCHANGED coroutine
          /\ row'[r] = row[r] \/ (row'[r].state = "gone"
                                  /\ row'[r].direction = row[r].direction)
      BY <2>2, <2>4 DEF DeleteTopology, RowFields
    <3> QED BY <2>1, <3>1 DEF Walk, Finished
  <2>5. CASE Crash
    <3>1. UNCHANGED row
      BY <2>5 DEF Crash
    <3>2. CASE ~Active(r)
      BY <2>1, <2>5, <3>1, <3>2 DEF Crash
    <3>3. CASE Active(r)
      <4>1. coroutine'[r] = [coroutine[r] EXCEPT !.pc = "killed"]
        BY <2>5, <3>3 DEF Crash
      <4>2. /\ coroutine'[r].pc = "killed" /\ coroutine'[r].left = coroutine[r].left
            /\ coroutine'[r].snapshot = coroutine[r].snapshot
            /\ coroutine'[r].completed = coroutine[r].completed
            /\ coroutine'[r].failed = coroutine[r].failed
            /\ coroutine'[r].commands = coroutine[r].commands
        BY <2>2, <4>1 DEF CoroutineFields
      <4> QED BY <2>1, <3>1, <4>2 DEF Walk, InLoop, Sending
    <3> QED BY <3>2, <3>3
  <2> QED BY <2>3, <2>4, <2>5
<1> QED BY <1>1, <1>2, <1>3 DEF WalkInv

LEMMA NextWalk == RunInv /\ WalkInv /\ [Next]_vars => WalkInv'
<1> SUFFICES ASSUME RunInv, WalkInv, [Next]_vars PROVE WalkInv'
  OBVIOUS
<1>1. ASSUME NEW r \in Run, Step(r) PROVE WalkInv'
  <2>1. CASE \/ MoveToRunning(r) \/ TopologyDisappeared(r) \/ WriteCommandAudit(r)
             \/ FinalizeRun(r) \/ WriteFindsNoRow(r)
    BY <2>1, MovesWalk
  <2>2. CASE LoadTopology(r)
    BY <2>2, LoadTopologyWalk
  <2>3. CASE DerivePlan(r)
    BY <2>3, DerivePlanWalk
  <2>4. CASE SkipQm(r) \/ DryRun(r) \/ CloseQm(r) \/ LogException(r)
    BY <2>4, AdvanceWalk
  <2>5. CASE ApplyCommand(r)
    BY <2>5, CommandWalk
  <2>6. CASE RecordCommand(r)
    BY <2>6, RecordWalk
  <2> QED BY <1>1, <2>1, <2>2, <2>3, <2>4, <2>5, <2>6 DEF Step
<1>2. ASSUME NEW r \in Run, CommandMiscarries(r) PROVE WalkInv'
  BY <1>2, CommandWalk
<1>3. ASSUME NEW r \in Run, WriteIsLocked(r) PROVE WalkInv'
  BY <1>3, MovesWalk
<1>4. ASSUME NEW r \in Run, RequestRun(r) PROVE WalkInv'
  BY <1>4, StartRunWalk DEF RequestRun, Direction
<1>5. CASE \/ \E lost \in (SUBSET Qm) \ {{}} : LosePods(lost)
           \/ GainPods \/ CheckDelete \/ DeleteTopology \/ Crash
  BY <1>5, EnvironmentWalk
<1>6. CASE UNCHANGED vars
  BY <1>6 DEF vars, WalkInv, Base
<1> QED BY <1>1, <1>2, <1>3, <1>4, <1>5, <1>6 DEF Next

\* A run stays within the queue managers it has left and, on the first of them,
\* within the commands of its plan it has left; every object that exists was
\* defined by a command of the topology's plans.
THEOREM WalkInvariant == Spec => []WalkInv
<1>1. Init => WalkInv
  BY InitWalkInv
<1>2. RunInv /\ WalkInv /\ [Next]_vars => WalkInv'
  BY NextWalk
<1> QED BY <1>1, <1>2, RunInvariant, PTL DEF Spec

-----------------------------------------------------------------------------
(* The last run *)

\* The run that nothing has disturbed runs alone, on the queue managers that
\* it found; as long as all is orderly, that is every run.
Alone ==
  /\ env.last \in Run =>
       LET co == coroutine[env.last] rw == row[env.last]
       IN  /\ \A s \in Run \ {env.last} : ~Active(s)
           /\ rw.state \notin {"none", "gone"}
           /\ rw.direction = "APPLY" => \A q \in Qm : pod[q] # NoPod
           /\ co.pc \in Walking => co.snapshot = pod
  /\ env.orderly =>
       /\ \A q \in Qm : pod[q] # NoPod
       /\ deletion = "none"
       /\ \A r \in Run : Active(r) => env.last = r

LEMMA InitAlone == Init => Alone
BY NoneAssumption DEF Init, Alone, Run, Active, NoCoroutine, NoPod

LEMMA TroubleEffect ==
  ASSUME RunInv, NEW orderly, NEW faulted, NEW last, Trouble(orderly, faulted, last)
  PROVE  /\ env'.last = last /\ env'.faulted = env.faulted \cup faulted
         /\ env'.made = env.made
         /\ env'.orderly => env.orderly /\ orderly
BY DEF Trouble, RunInv, Domains, EnvFields

\* A step of an active run, the environment's part in it included.
RunStep(r) == Step(r) \/ CommandMiscarries(r) \/ WriteIsLocked(r)

LEMMA RunStepEffect ==
  ASSUME RunInv, WalkInv, NEW r \in Run, RunStep(r)
  PROVE  /\ Active(r) /\ Others(r) /\ UNCHANGED << flows, plans, deletion, pod >>
         /\ env'.last = env.last /\ (env'.orderly => env.orderly)
         /\ env.faulted \subseteq env'.faulted
         /\ row'[r].direction = row[r].direction
         /\ row[r].state \notin {"none", "gone"} => row'[r].state \notin {"none", "gone"}
         /\ coroutine'[r].dry = coroutine[r].dry
         /\ coroutine'[r].pc \in Walking =>
              \/ coroutine[r].pc \in Walking
                   /\ coroutine'[r].snapshot = coroutine[r].snapshot
              \/ coroutine[r].pc = "load" /\ coroutine'[r].snapshot = pod
                   /\ coroutine'[r].pc = "derive" /\ coroutine'[r].left = QmOrder
<1>1. DOMAIN row = Run /\ DOMAIN row[r] = RowFields
      /\ DOMAIN coroutine = Run /\ DOMAIN coroutine[r] = CoroutineFields
      /\ DOMAIN env = EnvFields
  BY DEF RunInv, Domains, Story, ShapeOK
<1>2. CASE MoveToRunning(r) \/ FinalizeRun(r)
  <2>1. \E pc : Goto(r, pc) /\ (pc \in Walking => coroutine[r].pc \in Walking)
    BY <1>2 DEF MoveToRunning, FinalizeRun, Walking, InLoop, Sending
  <2>2. /\ UNCHANGED << flows, plans, deletion, pod, env >>
        /\ coroutine[r].pc \in {"pending", "final"}
        /\ \A s \in Run \ {r} : row'[s] = row[s]
        /\ row'[r].direction = row[r].direction
        /\ row'[r].state \in {"RUNNING"} \cup Finished
    BY <1>1, <1>2 DEF MoveToRunning, FinalizeRun, RowFields, Verdict, Finished
  <2> QED BY <2>1, <2>2, GotoWalk DEF Others, Active, Finished
<1>3. CASE TopologyDisappeared(r) \/ WriteFindsNoRow(r) \/ WriteIsLocked(r)
           \/ WriteCommandAudit(r)
  <2>1. \E pc : Goto(r, pc) /\ (pc \in Walking => coroutine[r].pc \in Walking)
    <3>1. CASE WriteCommandAudit(r)
      BY <3>1 DEF WriteCommandAudit, Walking, InLoop, Sending
    <3>2. CASE TopologyDisappeared(r)
      BY <3>2 DEF TopologyDisappeared, Walking, InLoop, Sending
    <3>3. CASE WriteFindsNoRow(r) \/ WriteIsLocked(r)
      <4>1. Goto(r, AfterRaise(coroutine[r].pc))
        BY <3>3 DEF WriteFindsNoRow, WriteIsLocked
      <4>2. AfterRaise(coroutine[r].pc) \in Walking => coroutine[r].pc \in Walking
        BY DEF AfterRaise, Guarded, Walking, InLoop, Sending
      <4> QED BY <4>1, <4>2
    <3> QED BY <1>3, <3>1, <3>2, <3>3
  <2>2. /\ UNCHANGED << flows, plans, deletion, pod, row >>
        /\ coroutine[r].pc \notin {"none", "done", "dead", "killed"}
        /\ UNCHANGED env \/ Trouble(TRUE, {r}, env.last)
    BY <1>3 DEF TopologyDisappeared, WriteFindsNoRow, WriteIsLocked, WriteCommandAudit, Guarded
  <2>3. env'.last = env.last /\ (env'.orderly => env.orderly) /\ env.faulted \subseteq env'.faulted
    <3>1. CASE UNCHANGED env
      BY <3>1
    <3>2. CASE Trouble(TRUE, {r}, env.last)
      BY <3>2, TroubleEffect
    <3> QED BY <2>2, <3>1, <3>2
  <2> QED BY <2>1, <2>2, <2>3, GotoWalk DEF Others, Active
<1>4. CASE LoadTopology(r)
  BY <1>1, <1>4 DEF LoadTopology, CoroutineFields, Others, Active
<1>5. CASE DerivePlan(r)
  <2>1. /\ \A s \in Run \ {r} : coroutine'[s] = coroutine[s]
        /\ coroutine[r].pc = "derive" /\ coroutine'[r].snapshot = coroutine[r].snapshot
        /\ coroutine'[r].dry = coroutine[r].dry
        /\ UNCHANGED << flows, plans, deletion, pod, row, env >>
    BY <1>1, <1>5 DEF DerivePlan, CoroutineFields
  <2> QED BY <2>1 DEF Others, Active, Walking, InLoop, Sending
<1>6. CASE SkipQm(r) \/ DryRun(r) \/ CloseQm(r) \/ LogException(r)
  BY <1>6, AdvanceEffect DEF Others, Active, Walking, InLoop, Sending
<1>7. CASE RecordCommand(r)
  BY <1>7, RecordEffect DEF Others, Active, Walking, InLoop, Sending
<1>8. CASE ApplyCommand(r) \/ CommandMiscarries(r)
  <2>1. env'.last = env.last /\ (env'.orderly => env.orderly) /\ env.faulted \subseteq env'.faulted
    <3>1. CASE ApplyCommand(r)
      BY <1>1, <3>1 DEF ApplyCommand, EnvFields
    <3>2. CASE CommandMiscarries(r)
      BY <3>2, TroubleEffect DEF CommandMiscarries
    <3> QED BY <1>8, <3>1, <3>2
  <2>2. /\ Others(r) /\ UNCHANGED << flows, plans, deletion, pod, row >>
        /\ coroutine[r].pc = "command" /\ coroutine'[r].snapshot = coroutine[r].snapshot
        /\ coroutine'[r].dry = coroutine[r].dry
    BY <1>8, CommandEffect DEF Others
  <2> QED BY <2>1, <2>2 DEF Active, Walking, InLoop, Sending
<1> QED BY <1>2, <1>3, <1>4, <1>5, <1>6, <1>7, <1>8 DEF RunStep, Step

LEMMA RunStepAlone ==
  ASSUME RunInv, WalkInv, Alone, NEW r \in Run, RunStep(r)
  PROVE  Alone'
<1>1. /\ Active(r) /\ Others(r) /\ UNCHANGED << deletion, pod >>
      /\ env'.last = env.last /\ (env'.orderly => env.orderly)
      /\ row'[r].direction = row[r].direction
      /\ row[r].state \notin {"none", "gone"} => row'[r].state \notin {"none", "gone"}
      /\ coroutine'[r].pc \in Walking =>
           \/ coroutine[r].pc \in Walking /\ coroutine'[r].snapshot = coroutine[r].snapshot
           \/ coroutine'[r].snapshot = pod
  BY RunStepEffect
<1>2. \A s \in Run \ {r} : Active(s)' <=> Active(s)
  BY <1>1 DEF Active, Others
<1>3. env.last \in Run => env.last = r
  BY <1>1 DEF Alone
<1>4. env'.last \in Run =>
        LET co == coroutine'[env'.last] rw == row'[env'.last]
        IN  /\ \A s \in Run \ {env'.last} : ~(Active(s)')
            /\ rw.state \notin {"none", "gone"}
            /\ rw.direction = "APPLY" => \A q \in Qm : pod'[q] # NoPod
            /\ co.pc \in Walking => co.snapshot = pod'
  BY <1>1, <1>2, <1>3 DEF Alone
<1>5. env'.orderly =>
        /\ \A q \in Qm : pod'[q] # NoPod
        /\ deletion' = "none"
        /\ \A s \in Run : Active(s)' => env'.last = s
  BY <1>1, <1>2 DEF Alone
<1> QED BY <1>4, <1>5 DEF Alone

LEMMA StartRunAlone ==
  ASSUME RunInv, WalkInv, Alone, NEW r \in Run, NEW direction \in Direction, NEW dry,
         StartRun(r, direction, dry)
  PROVE  Alone'
<1>1. /\ \A s \in Run \ {r} : coroutine'[s] = coroutine[s]
      /\ row'[r].direction = direction /\ row'[r].state = "PENDING"
      /\ coroutine'[r].pc = "pending" /\ UNCHANGED << deletion, pod >>
      /\ direction = "APPLY" => \A q \in Qm : pod[q] # NoPod
  BY DEF StartRun, RunInv, Domains, Story, ShapeOK, CoroutineFields, RowFields
<1>2. CASE \E s \in Run : Active(s)
  <2>1. env'.last = Nobody /\ ~env'.orderly
    BY <1>2, TroubleEffect DEF StartRun
  <2> QED BY <2>1, NoneAssumption DEF Alone, Run
<1>3. CASE ~ \E s \in Run : Active(s)
  <2>1. env'.last = r /\ env'.orderly = env.orderly
    BY <1>3 DEF StartRun, RunInv, Domains, EnvFields
  <2>2. \A s \in Run \ {r} : ~(Active(s)')
    BY <1>1, <1>3 DEF Active
  <2>3. coroutine'[r].pc \notin Walking
    BY <1>1 DEF Walking, InLoop, Sending
  <2> QED BY <1>1, <2>1, <2>2, <2>3 DEF Alone
<1> QED BY <1>2, <1>3

LEMMA EnvironmentAlone ==
  ASSUME RunInv, WalkInv, Alone,
         (\E lost \in SUBSET Qm : LosePods(lost)) \/ GainPods \/ CheckDelete \/ DeleteTopology \/ Crash
  PROVE  Alone'
<1>1. Nobody \notin Run /\ Qm # {}
  BY NoneAssumption, TopologyAssumption DEF Run, Qm, Range
<1>2. CASE \E lost \in SUBSET Qm : LosePods(lost)
  <2>1. env'.last = Nobody /\ ~env'.orderly
    BY <1>2, TroubleEffect DEF LosePods
  <2> QED BY <1>1, <2>1 DEF Alone
<1>3. CASE GainPods \/ DeleteTopology
  <2>1. /\ env'.last = Nobody /\ env'.orderly = env.orderly
        /\ (\E q \in Qm : pod[q] = NoPod) \/ deletion # "none"
    BY <1>1, <1>3 DEF GainPods, DeleteTopology, RunInv, Domains, EnvFields
  <2> QED BY <1>1, <2>1 DEF Alone
<1>5. CASE CheckDelete
  <2>1. ~env.orderly
    BY <1>1, <1>5 DEF CheckDelete, Alone
  <2> QED BY <1>5, <2>1 DEF CheckDelete, Alone, Active
<1>4. CASE Crash
  <2>1. /\ env'.last = env.last /\ (env'.orderly => env.orderly) /\ UNCHANGED << pod, row >>
        /\ deletion = "none" => deletion' = "none"
    BY <1>4, TroubleEffect DEF Crash
  <2>2. ASSUME NEW s \in Run
        PROVE  ~(Active(s)') /\ (coroutine'[s].pc \in Walking => coroutine'[s] = coroutine[s])
    <3>1. CASE Active(s)
      <4>1. coroutine'[s].pc = "killed"
        BY <1>4, <3>1 DEF Crash, RunInv, Story, ShapeOK, CoroutineFields
      <4> QED BY <4>1 DEF Active, Walking, InLoop, Sending
    <3>2. CASE ~Active(s)
      BY <1>4, <3>2 DEF Crash, Active
    <3> QED BY <3>1, <3>2
  <2> QED BY <2>1, <2>2 DEF Alone
<1> QED BY <1>2, <1>3, <1>4, <1>5

\* The steps of Next.
LEMMA NextCases ==
  ASSUME [Next]_vars
  PROVE  \/ \E r \in Run : RunStep(r)
         \/ \E r \in Run, direction \in Direction, dry \in BOOLEAN : StartRun(r, direction, dry)
         \/ (\E lost \in SUBSET Qm : LosePods(lost)) \/ GainPods \/ CheckDelete \/ DeleteTopology \/ Crash
         \/ UNCHANGED vars
BY DEF Next, RunStep, RequestRun, Direction

LEMMA NextAlone == RunInv /\ WalkInv /\ Alone /\ [Next]_vars => Alone'
<1> SUFFICES ASSUME RunInv, WalkInv, Alone, [Next]_vars PROVE Alone'
  OBVIOUS
<1>1. CASE UNCHANGED vars
  BY <1>1 DEF vars, Alone, Active
<1> QED BY <1>1, NextCases, RunStepAlone, StartRunAlone, EnvironmentAlone

\* The last run that nothing has disturbed is the only one active, its rows are
\* there, and its snapshot of the pods is still true: what it read before its
\* first command holds at its last.
THEOREM LastRunIsAlone == Spec => []Alone
<1>1. Init => Alone
  BY InitAlone
<1>2. RunInv /\ WalkInv /\ Alone /\ [Next]_vars => Alone'
  BY NextAlone
<1> QED BY <1>1, <1>2, RunInvariant, WalkInvariant, PTL DEF Spec

-----------------------------------------------------------------------------
(* What the last run has done: every command it sent without a failure is  *)
(* fulfilled, and stays so.                                                *)

\* No command of this queue manager has failed.
Clean(co) == co.qm.FAILED = 0 /\ (co.pc \in {"audit", "event"} => co.class # "FAILED")
SentCount(co, full) ==
  Len(full) - Len(co.plan) + (IF co.pc \in {"audit", "event"} THEN 1 ELSE 0)
Due(q, direction) == direction = "APPLY" => Clear(flows, q)

Here(co, direction, objs) ==
  LET q == Head(co.left) full == plans[direction][q]
  IN  co.pc \in Sending /\ Clean(co) /\ Due(q, direction) =>
        \A k \in 1 .. SentCount(co, full) : Fulfilled(objs[q], full[k], direction)

Before(co, direction, objs) ==
  co.pc \in Walking /\ co.failed = 0 =>
    \A q \in Qm \ Range(co.left) :
      Due(q, direction) /\ (direction = "TEARDOWN" => co.snapshot[q] # NoPod) =>
        \A k \in 1 .. Len(plans[direction][q]) :
          Fulfilled(objs[q], plans[direction][q][k], direction)

Progress(co, direction, objs) == Here(co, direction, objs) /\ Before(co, direction, objs)

ProgressInv ==
  env.last \in Run /\ ~coroutine[env.last].dry =>
    Progress(coroutine[env.last], row[env.last].direction, objects)

LEMMA GotoProgress ==
  ASSUME RunInv, WalkInv, NEW r \in Run, NEW pc, Goto(r, pc), NEW direction,
         Progress(coroutine[r], direction, objects),
         \/ pc \in {"load", "dead"}
         \/ pc = "event" /\ coroutine[r].pc = "audit"
         \/ pc = "done" /\ coroutine[r].pc = "final"
         \/ pc = "handler" /\ coroutine[r].pc \in InLoop
  PROVE  Progress(coroutine'[r], direction, objects)
<1> DEFINE old == coroutine[r]
           new == coroutine'[r]
<1>1. /\ new.pc = pc /\ new.snapshot = old.snapshot
      /\ new.left = old.left /\ new.plan = old.plan /\ new.qm = old.qm
      /\ new.class = old.class /\ new.failed = old.failed
  BY GotoWalk
<1> HIDE DEF old, new
<1>2. Here(old, direction, objects) /\ Before(old, direction, objects)
  BY DEF Progress, old
<1>3. Here(new, direction, objects)
  BY <1>1, <1>2 DEF Here, Clean, SentCount, Sending, old
<1>4. Before(new, direction, objects)
  BY <1>1, <1>2 DEF Before, Walking, InLoop, Sending, old
<1> QED BY <1>3, <1>4 DEF Progress, new

LEMMA LoadProgress ==
  ASSUME RunInv, WalkInv, NEW r \in Run, NEW direction, LoadTopology(r)
  PROVE  Progress(coroutine'[r], direction, objects)
<1>1. coroutine'[r].pc = "derive" /\ coroutine'[r].left = QmOrder
  BY DEF LoadTopology, RunInv, Domains, Story, ShapeOK, CoroutineFields
<1>2. Qm \ Range(QmOrder) = {}
  BY DEF Qm
<1> QED BY <1>1, <1>2 DEF Progress, Here, Before, Sending

LEMMA DeriveProgress ==
  ASSUME RunInv, WalkInv, NEW r \in Run, DerivePlan(r),
         Progress(coroutine[r], row[r].direction, objects)
  PROVE  Progress(coroutine'[r], row[r].direction, objects)
<1> DEFINE qm == Head(coroutine[r].left)
           dir == row[r].direction
           full == plans[dir][qm]
<1>0. DOMAIN coroutine = Run /\ DOMAIN coroutine[r] = CoroutineFields
  BY DEF RunInv, Domains, Story, ShapeOK
<1>1. /\ coroutine[r].pc = "derive" /\ coroutine'[r].left = coroutine[r].left
      /\ coroutine'[r].snapshot = coroutine[r].snapshot
      /\ coroutine'[r].plan = full
      /\ coroutine'[r].pc \in {"skip", "dry", "command", "close"}
      /\ coroutine'[r].failed = coroutine[r].failed
  BY <1>0 DEF DerivePlan, CommandOrClose, PlanOf, Head_, CoroutineFields
<1>2. qm \in Qm /\ dir \in Direction
  <2>1. Walk(coroutine[r], row[r], plans)
    BY HereWalk
  <2>2. /\ coroutine[r].left \in Seq(Qm) /\ coroutine[r].left # << >>
        /\ dir \in Direction
    BY <1>1, <2>1 DEF Walk, InLoop
  <2> QED BY <2>2
<1>3. Len(full) \in Nat
  BY <1>2, HereWalk, Plans DEF PlanOK
<1>4. SentCount(coroutine'[r], full) = 0
  BY <1>1, <1>3 DEF SentCount
<1>5. Here(coroutine'[r], dir, objects)
  BY <1>1, <1>4 DEF Here
<1>6. Before(coroutine'[r], dir, objects)
  BY <1>1 DEF Progress, Before, Walking, InLoop, Sending
<1> QED BY <1>5, <1>6 DEF Progress

\* A queue manager that failed, or raised, shows in the run's counters.
LEMMA AdvanceCounts ==
  ASSUME RunInv, WalkInv, NEW r \in Run,
         SkipQm(r) \/ DryRun(r) \/ CloseQm(r) \/ LogException(r),
         coroutine'[r].failed = 0
  PROVE  /\ coroutine[r].failed = 0
         /\ \/ coroutine[r].pc = "close" /\ coroutine[r].qm.FAILED = 0
            \/ coroutine[r].pc = "skip" /\ row[r].direction # "APPLY"
            \/ coroutine[r].pc = "dry"
<1>1. /\ DOMAIN coroutine = Run /\ DOMAIN coroutine[r] = CoroutineFields
      /\ coroutine[r].failed \in Nat
  BY DEF RunInv, Domains, Story, ShapeOK
<1>2. ASSUME NEW outcome, NextQm(r, outcome)
      PROVE  coroutine'[r].failed =
               coroutine[r].failed + (IF outcome.FAILED = 0 THEN 0 ELSE 1)
  BY <1>1, <1>2 DEF NextQm, CoroutineFields
<1>3. \A a, b, c : Tally(a, b, c).FAILED = c
  BY DEF Tally
<1>4. CASE SkipQm(r)
  BY <1>1, <1>2, <1>3, <1>4 DEF SkipQm
<1>5. CASE DryRun(r)
  BY <1>1, <1>2, <1>3, <1>5 DEF DryRun
<1>6. CASE CloseQm(r)
  BY <1>1, <1>2, <1>6 DEF CloseQm
<1>7. CASE LogException(r)
  BY <1>1, <1>7 DEF LogException, CoroutineFields
<1> QED BY <1>4, <1>5, <1>6, <1>7

LEMMA AdvanceProgress ==
  ASSUME RunInv, WalkInv, NEW r \in Run, ~coroutine[r].dry,
         SkipQm(r) \/ DryRun(r) \/ CloseQm(r) \/ LogException(r),
         Progress(coroutine[r], row[r].direction, objects)
  PROVE  Progress(coroutine'[r], row[r].direction, objects)
<1> DEFINE left == coroutine[r].left
           dir == row[r].direction
<1>1. /\ coroutine[r].pc \in {"skip", "dry", "close", "handler"}
      /\ coroutine'[r].pc \in {"final", "derive"} /\ coroutine'[r].left = Tail(left)
      /\ coroutine'[r].snapshot = coroutine[r].snapshot
  BY AdvanceEffect
<1>2. Walk(coroutine[r], row[r], plans)
  BY HereWalk
<1>3. left \in Seq(Qm) /\ left # << >> /\ dir \in Direction
  BY <1>1, <1>2 DEF Walk, InLoop, Sending
<1>4. Head(left) \in Qm /\ Range(left) = {Head(left)} \cup Range(Tail(left))
  <2> HIDE DEF left
  <2> QED BY <1>3, Tails
<1>5. Here(coroutine'[r], dir, objects)
  BY <1>1 DEF Here, Sending
<1>6. ASSUME coroutine'[r].failed = 0, NEW q \in Qm \ Range(Tail(left)), Due(q, dir),
             dir = "TEARDOWN" => coroutine[r].snapshot[q] # NoPod,
             NEW k \in 1 .. Len(plans[dir][q])
      PROVE  Fulfilled(objects[q], plans[dir][q][k], dir)
  <2>1. /\ coroutine[r].failed = 0
        /\ \/ coroutine[r].pc = "close" /\ coroutine[r].qm.FAILED = 0
           \/ coroutine[r].pc = "skip" /\ dir # "APPLY"
           \/ coroutine[r].pc = "dry"
    BY <1>6, AdvanceCounts
  <2>2. CASE q # Head(left)
    <3>1. q \in Qm \ Range(left)
      BY <1>4, <1>6, <2>2
    <3>2. coroutine[r].pc \in Walking
      BY <1>1 DEF Walking, InLoop, Sending
    <3> QED BY <1>6, <2>1, <3>1, <3>2 DEF Progress, Before
  <2>3. CASE q = Head(left)
    <3>1. coroutine[r].pc = "close" /\ coroutine[r].qm.FAILED = 0
      <4>1. coroutine[r].pc # "dry"
        BY <1>2 DEF Walk
      <4>2. coroutine[r].pc # "skip"
        BY <1>2, <1>3, <1>6, <2>1, <2>3 DEF Walk, Direction
      <4> QED BY <2>1, <4>1, <4>2
    <3>2. coroutine[r].plan = << >>
      BY <1>2, <3>1 DEF Walk
    <3>3. Len(plans[dir][q]) \in Nat
      BY <1>3, HereWalk, Plans DEF PlanOK
    <3>4. SentCount(coroutine[r], plans[dir][q]) = Len(plans[dir][q])
      <4>1. Len(<< >>) = 0
        OBVIOUS
      <4> QED BY <3>1, <3>2, <3>3, <4>1 DEF SentCount
    <3>5. Here(coroutine[r], dir, objects) /\ Clean(coroutine[r]) /\ coroutine[r].pc \in Sending
      BY <3>1 DEF Progress, Clean, Sending
    <3> QED BY <1>6, <2>3, <3>4, <3>5 DEF Here
  <2> QED BY <2>2, <2>3
<1>7. Before(coroutine'[r], dir, objects)
  BY <1>1, <1>6 DEF Before
<1> QED BY <1>5, <1>7 DEF Progress

\* Counting a command that failed marks its queue manager.
LEMMA RecordClean ==
  ASSUME RunInv, WalkInv, NEW r \in Run, RecordCommand(r), coroutine'[r].qm.FAILED = 0
  PROVE  Clean(coroutine[r])
<1>1. coroutine'[r].qm = Plus(coroutine[r].qm, One(coroutine[r].class))
  BY RecordEffect
<1>2. TallyOK(coroutine[r].qm) /\ coroutine[r].class \in Classes
  BY DEF RunInv, Story, ShapeOK
<1>3. /\ TallyOK(One(coroutine[r].class))
      /\ One(coroutine[r].class).FAILED = IF coroutine[r].class = "FAILED" THEN 1 ELSE 0
  BY <1>2, TallyOne
<1>4. coroutine'[r].qm.FAILED = coroutine[r].qm.FAILED + One(coroutine[r].class).FAILED
  BY <1>1, <1>2, <1>3, TallyPlus
<1>5. coroutine[r].qm.FAILED \in Nat
  BY <1>2 DEF TallyOK
<1> QED BY <1>3, <1>4, <1>5 DEF Clean

LEMMA RecordProgress ==
  ASSUME RunInv, WalkInv, NEW r \in Run, RecordCommand(r),
         Progress(coroutine[r], row[r].direction, objects)
  PROVE  Progress(coroutine'[r], row[r].direction, objects)
<1> DEFINE dir == row[r].direction
           q == Head(coroutine[r].left)
           full == plans[dir][q]
           plan == coroutine[r].plan
<1>1. /\ coroutine[r].pc = "event" /\ coroutine'[r].pc \in {"command", "close"}
      /\ coroutine'[r].left = coroutine[r].left /\ coroutine'[r].plan = Tail(plan)
      /\ coroutine'[r].snapshot = coroutine[r].snapshot
      /\ coroutine'[r].failed = coroutine[r].failed
  BY RecordEffect DEF CommandOrClose
<1>2. /\ q \in Qm /\ dir \in Direction /\ Rest(plan, full) /\ plan # << >>
  BY <1>1, HereWalk DEF Walk, InLoop, Sending
<1>3. Len(full) \in Nat
  BY <1>2, HereWalk, Plans DEF PlanOK
<1>4. Len(Tail(plan)) = Len(plan) - 1 /\ Len(plan) \in 1 .. Len(full)
  <2> HIDE DEF plan, full
  <2> QED BY <1>2, <1>3, RestTail
<1>5. SentCount(coroutine'[r], full) = SentCount(coroutine[r], full)
  <2> DEFINE t == Tail(plan)
             n == Len(full)
             m == Len(plan)
  <2>1. /\ coroutine[r].pc = "event" /\ coroutine'[r].pc \in {"command", "close"}
        /\ coroutine'[r].plan = t /\ Len(t) = m - 1 /\ m \in 1 .. n /\ n \in Nat
    BY <1>1, <1>3, <1>4
  <2>2. SentCount(coroutine[r], full) = n - m + 1
    BY <2>1 DEF SentCount
  <2> HIDE DEF t, n, m
  <2>3. SentCount(coroutine'[r], full) = n - (m - 1) + 0
    BY <2>1 DEF SentCount, n
  <2> QED BY <2>1, <2>2, <2>3
<1>6. Clean(coroutine'[r]) => Clean(coroutine[r])
  BY RecordClean DEF Clean
<1> HIDE DEF dir, full
<1>7. Here(coroutine'[r], dir, objects)
  BY <1>1, <1>5, <1>6 DEF Progress, Here, Sending, full, dir
<1>8. Before(coroutine'[r], dir, objects)
  BY <1>1 DEF Progress, Before, Walking, InLoop, Sending, dir
<1> QED BY <1>7, <1>8 DEF Progress, dir

LEMMA CommandProgress ==
  ASSUME RunInv, WalkInv, NEW r \in Run, ApplyCommand(r) \/ CommandMiscarries(r),
         Progress(coroutine[r], row[r].direction, objects)
  PROVE  Progress(coroutine'[r], row[r].direction, objects')
<1> DEFINE old == coroutine[r]
           new == coroutine'[r]
           dir == row[r].direction
           q0 == Head(old.left)
           full == plans[dir][q0]
           c == SentCommand(r)
<1>1. /\ old.pc = "command" /\ new.pc = "audit" /\ q0 \in Qm
      /\ new.left = old.left /\ new.plan = old.plan
      /\ new.snapshot = old.snapshot
      /\ new.failed = old.failed /\ new.qm = old.qm
      /\ \A p \in Qm \ {q0} : objects'[p] = objects[p]
      /\ Ordered(c, flows, q0, dir)
      /\ Outcome(objects[q0], c, dir, objects'[q0], new.class)
  BY CommandEffect
<1>2. Walk(old, row[r], plans) /\ FlowsOK(flows) /\ \A q \in Qm : Held(flows, q, objects[q])
  BY HereWalk
<1>3. dir \in Direction /\ Rest(old.plan, full) /\ old.plan # << >>
  BY <1>1, <1>2 DEF Walk, InLoop, Sending
<1>4. /\ \A q \in Qm : PlanOK(plans[dir][q], flows, q, dir)
  BY <1>3, HereWalk, Plans
<1>5. Len(full) \in Nat
  BY <1>1, <1>4 DEF PlanOK
<1>6. Len(old.plan) \in 1 .. Len(full)
  <2> HIDE DEF full
  <2> QED BY <1>3, <1>5, RestTail
<1>7. /\ SentCount(old, full) = Len(full) - Len(old.plan)
      /\ SentCount(new, full) = Len(full) - Len(old.plan) + 1
      /\ c = full[Len(full) - Len(old.plan) + 1]
  <2>1. c = full[Len(full) - Len(old.plan) + 1]
    BY DEF SentCommand
  <2> HIDE DEF full, c, old, new
  <2> QED BY <1>1, <1>5, <1>6, <2>1 DEF SentCount
<1> HIDE DEF old, new, c, full
\* What was fulfilled stays so.
<1>8. ASSUME NEW q \in Qm, Due(q, dir), NEW k \in 1 .. Len(plans[dir][q]),
             Fulfilled(objects[q], plans[dir][q][k], dir)
      PROVE  Fulfilled(objects'[q], plans[dir][q][k], dir)
  <2>1. CASE q # q0
    BY <1>1, <1>8, <2>1
  <2>2. CASE q = q0
    <3>1. Ordered(plans[dir][q][k], flows, q, dir)
      BY <1>4, <1>8 DEF PlanOK
    <3> HIDE DEF dir, q0
    <3> DEFINE d == plans[dir][q][k]
    <3> HIDE DEF d
    <3>2. /\ Ordered(d, flows, q, dir) /\ Ordered(c, flows, q, dir)
          /\ Held(flows, q, objects[q]) /\ Fulfilled(objects[q], d, dir)
          /\ Outcome(objects[q], c, dir, objects'[q], new.class)
          /\ (dir = "APPLY" => Clear(flows, q))
      BY <1>1, <1>2, <1>8, <2>2, <3>1 DEF d, Due
    <3>3. Fulfilled(objects'[q], d, dir)
      BY <1>2, <3>2, OutcomeKeeps
    <3> QED BY <3>3 DEF d
  <2> QED BY <2>1, <2>2
<1>9. Before(new, dir, objects')
  <2> SUFFICES ASSUME new.failed = 0, NEW q \in Qm \ Range(new.left), Due(q, dir),
                      dir = "TEARDOWN" => new.snapshot[q] # NoPod, NEW k \in 1 .. Len(plans[dir][q])
               PROVE  Fulfilled(objects'[q], plans[dir][q][k], dir)
    BY DEF Before
  <2>1. Before(old, dir, objects) /\ old.pc \in Walking
    BY <1>1 DEF Progress, Walking, InLoop, Sending, old
  <2>2. Fulfilled(objects[q], plans[dir][q][k], dir)
    BY <1>1, <2>1 DEF Before
  <2> QED BY <1>8, <2>2
<1>10. Here(new, dir, objects')
  <2> SUFFICES ASSUME Clean(new), Due(q0, dir), NEW k \in 1 .. SentCount(new, full)
               PROVE  Fulfilled(objects'[q0], full[k], dir)
    BY <1>1 DEF Here, full
  <2>1. new.class # "FAILED" /\ old.qm.FAILED = 0
    BY <1>1 DEF Clean
  <2>2. Clean(old)
    BY <1>1, <2>1 DEF Clean
  <2>3. CASE k = Len(full) - Len(old.plan) + 1
    <3> HIDE DEF dir, q0
    <3>1. Fulfilled(objects'[q0], c, dir)
      BY <1>1, <1>2, <2>1, OutcomeFulfils DEF Due
    <3> QED BY <1>7, <2>3, <3>1
  <2>4. CASE k # Len(full) - Len(old.plan) + 1
    <3>1. k \in 1 .. SentCount(old, full) /\ k \in 1 .. Len(full)
      <4> DEFINE n == Len(full)
                 m == Len(old.plan)
      <4>1. k \in 1 .. n - m + 1 /\ k # n - m + 1 /\ n \in Nat /\ m \in 1 .. n
        BY <1>5, <1>6, <1>7, <2>4
      <4>2. SentCount(old, full) = n - m
        BY <1>7
      <4> HIDE DEF n, m
      <4>3. k \in 1 .. n - m /\ k \in 1 .. n
        BY <4>1
      <4> QED BY <4>2, <4>3 DEF n
    <3>2. Here(old, dir, objects) /\ old.pc \in Sending
      BY <1>1 DEF Progress, Sending, old
    <3>3. Fulfilled(objects[q0], full[k], dir)
      BY <2>2, <3>1, <3>2 DEF Here, full
    <3> QED BY <1>1, <1>8, <3>1, <3>3 DEF full
  <2> QED BY <2>3, <2>4
<1> QED BY <1>9, <1>10 DEF Progress, new

\* Of run r's steps, each keeps what it has done.
LEMMA RunStepProgress ==
  ASSUME RunInv, WalkInv, NEW r \in Run, RunStep(r), ~coroutine[r].dry,
         Progress(coroutine[r], row[r].direction, objects)
  PROVE  Progress(coroutine'[r], row[r].direction, objects')
<1>1. CASE MoveToRunning(r) \/ FinalizeRun(r) \/ WriteCommandAudit(r) \/ TopologyDisappeared(r)
           \/ WriteFindsNoRow(r) \/ WriteIsLocked(r)
  <2>1. PICK pc : /\ Goto(r, pc)
                  /\ \/ pc \in {"load", "dead"}
                     \/ pc = "event" /\ coroutine[r].pc = "audit"
                     \/ pc = "done" /\ coroutine[r].pc = "final"
                     \/ pc = "handler" /\ coroutine[r].pc \in InLoop
    <3>1. CASE MoveToRunning(r)
      BY <3>1 DEF MoveToRunning
    <3>2. CASE FinalizeRun(r)
      BY <3>2 DEF FinalizeRun
    <3>3. CASE WriteCommandAudit(r)
      BY <3>3 DEF WriteCommandAudit
    <3>4. CASE TopologyDisappeared(r)
      BY <3>4 DEF TopologyDisappeared
    <3>5. CASE WriteFindsNoRow(r) \/ WriteIsLocked(r)
      <4>1. Goto(r, AfterRaise(coroutine[r].pc))
        BY <3>5 DEF WriteFindsNoRow, WriteIsLocked
      <4>2. \/ AfterRaise(coroutine[r].pc) = "dead"
            \/ AfterRaise(coroutine[r].pc) = "handler" /\ coroutine[r].pc \in InLoop
        BY DEF AfterRaise, Guarded, InLoop, Sending
      <4> QED BY <4>1, <4>2
    <3> QED BY <1>1, <3>1, <3>2, <3>3, <3>4, <3>5
  <2>2. UNCHANGED objects
    BY <1>1 DEF MoveToRunning, FinalizeRun, WriteCommandAudit, TopologyDisappeared,
                WriteFindsNoRow, WriteIsLocked
  <2>3. Progress(coroutine'[r], row[r].direction, objects)
    BY <2>1, GotoProgress
  <2> QED BY <2>2, <2>3
<1>2. CASE LoadTopology(r)
  <2>1. Progress(coroutine'[r], row[r].direction, objects)
    BY <1>2, LoadProgress
  <2>2. UNCHANGED objects
    BY <1>2 DEF LoadTopology
  <2> QED BY <2>1, <2>2
<1>3. CASE DerivePlan(r)
  <2>1. Progress(coroutine'[r], row[r].direction, objects)
    BY <1>3, DeriveProgress
  <2>2. UNCHANGED objects
    BY <1>3 DEF DerivePlan
  <2> QED BY <2>1, <2>2
<1>4. CASE SkipQm(r) \/ DryRun(r) \/ CloseQm(r) \/ LogException(r)
  <2>1. Progress(coroutine'[r], row[r].direction, objects)
    BY <1>4, AdvanceProgress
  <2>2. UNCHANGED objects
    BY <1>4, AdvanceEffect
  <2> QED BY <2>1, <2>2
<1>5. CASE RecordCommand(r)
  <2>1. Progress(coroutine'[r], row[r].direction, objects)
    BY <1>5, RecordProgress
  <2>2. UNCHANGED objects
    BY <1>5, RecordEffect
  <2> QED BY <2>1, <2>2
<1>6. CASE ApplyCommand(r) \/ CommandMiscarries(r)
  BY <1>6, CommandProgress
<1> QED BY <1>1, <1>2, <1>3, <1>4, <1>5, <1>6 DEF RunStep, Step

LEMMA NextProgress ==
  RunInv /\ WalkInv /\ Alone /\ ProgressInv /\ [Next]_vars => ProgressInv'
<1> SUFFICES ASSUME RunInv, WalkInv, Alone, ProgressInv, [Next]_vars PROVE ProgressInv'
  OBVIOUS
<1>1. ASSUME NEW r \in Run, RunStep(r) PROVE ProgressInv'
  <2>1. /\ Active(r) /\ UNCHANGED << flows, plans >> /\ env'.last = env.last
        /\ row'[r].direction = row[r].direction /\ coroutine'[r].dry = coroutine[r].dry
    BY <1>1, RunStepEffect
  <2>2. env.last \in Run => env.last = r
    BY <2>1 DEF Alone
  <2>3. ASSUME env.last = r, ~coroutine[r].dry
        PROVE  Progress(coroutine'[r], row[r].direction, objects')
    BY <1>1, <2>3, RunStepProgress DEF ProgressInv
  <2>4. CASE env.last = r /\ ~coroutine[r].dry
    <3>1. env'.last = r /\ Progress(coroutine'[r], row'[r].direction, objects')
      BY <2>1, <2>3, <2>4
    <3>2. UNCHANGED << flows, plans >>
      BY <2>1
    <3>3. ProgressInv' <=>
            (env'.last \in Run /\ ~coroutine'[env'.last].dry =>
               Progress(coroutine'[env'.last], row'[env'.last].direction, objects'))
      BY <3>2 DEF ProgressInv, Progress, Here, Before, Due
    <3> QED BY <3>1, <3>3
  <2> QED BY <2>1, <2>2, <2>4 DEF ProgressInv
<1>2. ASSUME NEW r \in Run, NEW direction \in Direction, NEW dry,
             StartRun(r, direction, dry)
      PROVE  ProgressInv'
  <2>1. env'.last \in {Nobody, r}
    BY <1>2, TroubleEffect DEF StartRun, RunInv, Domains, EnvFields
  <2>2. coroutine'[r].pc = "pending"
    BY <1>2 DEF StartRun, RunInv, Domains, Story, ShapeOK, CoroutineFields
  <2> QED BY <2>1, <2>2, NoneAssumption
      DEF ProgressInv, Progress, Here, Before, Walking, InLoop, Sending, Run
<1>3. CASE (\E lost \in SUBSET Qm : LosePods(lost)) \/ GainPods \/ DeleteTopology
  <2>1. env'.last = Nobody
    BY <1>3, TroubleEffect
    DEF LosePods, GainPods, DeleteTopology, RunInv, Domains, EnvFields
  <2> QED BY <2>1, NoneAssumption DEF ProgressInv, Run
<1>4. CASE Crash
  <2>1. env'.last = env.last
    BY <1>4 DEF Crash, Trouble, RunInv, Domains, EnvFields
  <2>2. ASSUME NEW s \in Run
        PROVE  coroutine'[s].pc = "killed" \/ coroutine'[s] = coroutine[s]
    BY <1>4 DEF Crash, RunInv, Story, ShapeOK, CoroutineFields
  <2>3. UNCHANGED << flows, plans, objects, row >>
    BY <1>4 DEF Crash
  <2> SUFFICES ASSUME env.last \in Run, ~coroutine'[env.last].dry
               PROVE  Progress(coroutine'[env.last], row[env.last].direction, objects)
    BY <2>1, <2>3 DEF ProgressInv, Progress, Here, Before, Due
  <2>4. CASE coroutine'[env.last].pc = "killed"
    BY <2>1, <2>4 DEF Progress, Here, Before, Walking, InLoop, Sending
  <2>5. CASE coroutine'[env.last] = coroutine[env.last]
    BY <2>1, <2>3, <2>5 DEF ProgressInv, Progress, Here, Before, Due
  <2> QED BY <2>2, <2>4, <2>5
<1>5. CASE CheckDelete \/ UNCHANGED vars
  BY <1>5 DEF CheckDelete, vars, ProgressInv, Progress, Here, Before, Due
<1> QED BY <1>1, <1>2, <1>3, <1>4, <1>5, NextCases

\* What the last run has sent without a failure is fulfilled, and no later
\* command of its own undoes it, on this queue manager or on one it is done
\* with.
THEOREM LastRunProgresses == Spec => []ProgressInv
<1>1. Init => ProgressInv
  BY NoneAssumption DEF Init, ProgressInv, Run
<1>2. RunInv /\ WalkInv /\ Alone /\ ProgressInv /\ [Next]_vars => ProgressInv'
  BY NextProgress
<1> QED BY <1>1, <1>2, RunInvariant, WalkInvariant, LastRunIsAlone, PTL DEF Spec

-----------------------------------------------------------------------------
(* What COMPLETED means *)

\* The last run, completed: each command of its plans is fulfilled.
LEMMA CompletedFulfils ==
  ASSUME RunInv, WalkInv, ProgressInv, NEW r \in Run, NEW direction \in Direction,
         Undisturbed(r, direction), row[r].state = "COMPLETED",
         NEW q \in Qm, Due(q, direction),
         direction = "TEARDOWN" => coroutine[r].snapshot[q] # NoPod,
         NEW k \in 1 .. Len(plans[direction][q])
  PROVE  Fulfilled(objects[q], plans[direction][q][k], direction)
<1>1. /\ env.last = r /\ row[r].direction = direction /\ ~coroutine[r].dry
  BY DEF Undisturbed
<1>2. coroutine[r].pc = "done"
  BY DEF RunInv, Story, Closed, Finished
<1>3. coroutine[r].failed = 0 /\ coroutine[r].left = << >>
  BY <1>2, HereWalk DEF Walk, Finished, Verdict
<1>4. q \notin Range(coroutine[r].left)
  BY <1>3 DEF Range
<1>5. Before(coroutine[r], direction, objects)
  BY <1>1 DEF ProgressInv, Progress
<1> QED BY <1>2, <1>3, <1>4, <1>5 DEF Before, Walking

\* A live TEARDOWN that says COMPLETED has left none of the topology's objects
\* on the queue managers it found ready, whatever runs, faults and crashes
\* came before it.
THEOREM CompletedTeardownRemoves == Spec => []CompletedRemoves
<1>1. ASSUME RunInv, WalkInv, ProgressInv PROVE CompletedRemoves
  <2> SUFFICES ASSUME NEW r \in Run, Undisturbed(r, "TEARDOWN"),
                      row[r].state = "COMPLETED", NEW q \in Qm, coroutine[r].snapshot[q] # NoPod,
                      NEW o \in objects[q], o.name # DefaultDlq
               PROVE  FALSE
    BY DEF CompletedRemoves
  <2> DEFINE plan == plans["TEARDOWN"][q]
  <2>1. PICK d \in Defines(flows, q), b \in BOOLEAN : o = Object(d, b)
    BY <1>1, HereWalk DEF Held
  <2>2. o.name = d.name /\ o.kind = d.kind
    BY <2>1, ObjectFields
  <2>3. TeardownOrder(plan, flows, q)
    BY <1>1, HereWalk, Plans DEF PlanOK, Direction
  <2>4. PICK k \in 1 .. Len(plan) : DeletesAt(plan, k, d.kind, d.name)
    BY <2>2, <2>3 DEF TeardownOrder
  <2>5. Fulfilled(objects[q], plan[k], "TEARDOWN")
    BY <1>1, CompletedFulfils DEF Due, Direction
  <2>6. NamedIn(objects[q], plan[k]) = {}
    BY <2>4, <2>5 DEF Fulfilled, DeletesAt
  <2>7. o \in NamedIn(objects[q], plan[k])
    BY <2>2, <2>4 DEF NamedIn, DeletesAt
  <2> QED BY <2>6, <2>7
<1> QED BY <1>1, RunInvariant, WalkInvariant, LastRunProgresses, PTL

\* Every object of a completed APPLY is there, on a queue manager without
\* clashes.
LEMMA CompletedDefines ==
  ASSUME RunInv, WalkInv, ProgressInv, NEW r \in Run,
         Undisturbed(r, "APPLY"), row[r].state = "COMPLETED",
         NEW q \in Qm, Clashing(q) = {}, NEW d \in Defines(flows, q)
  PROVE  \E b \in BOOLEAN : Object(d, b) \in objects[q]
<1> DEFINE plan == plans["APPLY"][q]
<1>1. ApplyOrder(plan, flows, q)
  BY HereWalk, Plans DEF PlanOK, Direction
<1>2. PICK k \in 1 .. Len(plan) : plan[k] = d
  BY <1>1 DEF ApplyOrder, Has
<1>3. d.verb = "DEFINE"
  BY HereWalk, CommandForms DEF Defines
<1>4. Clear(flows, q)
  BY ClearIs
<1>5. Fulfilled(objects[q], plan[k], "APPLY")
  BY <1>4, CompletedFulfils DEF Due, Direction
<1> QED BY <1>2, <1>3, <1>5 DEF Fulfilled

\* The transmission queue of a consistent flow triggers the flow's channel.
LEMMA TriggerIsChannel ==
  ASSUME FlowsOK(flows), NEW i \in DOMAIN flows, flows[i].type = "Remote", Consistent(i)
  PROVE  TriggerChannel(flows, flows[i].producer_qm, flows[i].transmit_queue) = flows[i].channel
<1> DEFINE p == flows[i].producer_qm
           x == flows[i].transmit_queue
           bound == {j \in Producing(flows, p) :
                       SdrBinding(flows, p, flows[j].channel).transmit_queue = x}
<1>1. i \in Producing(flows, p) /\ i \notin Warned(flows, p) /\ ~SharesXmitq(i)
  BY DEF Consistent, Producing
<1>2. SdrBinding(flows, p, flows[i].channel).transmit_queue = x
  BY <1>1 DEF Warned
<1>3. i \in bound /\ bound \in SUBSET DOMAIN flows
  BY <1>1, <1>2 DEF Producing
<1>4. \A j \in bound : flows[j].channel = flows[i].channel
  <2> SUFFICES ASSUME NEW j \in bound PROVE flows[j].channel = flows[i].channel
    OBVIOUS
  <2>1. flows[j].channel \in SenderChannels(flows, p)
    BY DEF SenderChannels
  <2>2. PICK m \in Producing(flows, p) :
          flows[m].channel = flows[j].channel
          /\ SdrBinding(flows, p, flows[j].channel) = flows[m]
    BY <2>1, Bindings
  <2>3. flows[m].transmit_queue = x
    BY <2>2
  <2>4. flows[m].channel = flows[i].channel
    BY <1>1, <2>3 DEF SharesXmitq
  <2> QED BY <2>2, <2>4
<1>5. TriggerChannel(flows, p, x) = First(flows, bound).channel
  BY <1>3 DEF TriggerChannel
<1>6. flows \in Seq(FlowSpec(Qm))
  BY DEF FlowsOK
<1> HIDE DEF bound
<1>7. \E j \in bound : First(flows, bound) = flows[j]
  BY <1>3, <1>6, FirstFacts
<1> QED BY <1>4, <1>5, <1>7

\* A live APPLY that says COMPLETED has wired every consistent flow from end to
\* end, whatever earlier runs left half done, were killed in, or had refused.
THEOREM CompletedApplyDelivers == Spec => []CompletedDelivers
<1>1. ASSUME RunInv, WalkInv, ProgressInv PROVE CompletedDelivers
  <2> SUFFICES ASSUME NEW r \in Run, Undisturbed(r, "APPLY"), row[r].state = "COMPLETED",
                      NEW i \in DOMAIN flows, Consistent(i)
               PROVE  Delivers(flows[i])
    BY DEF CompletedDelivers
  <2> DEFINE f == flows[i]
             p == f.producer_qm
             c == f.consumer_qm
  <2>1. FlowsOK(flows)
    BY <1>1, HereWalk
  <2>2. f \in FlowSpec(Qm)
    BY <2>1 DEF FlowsOK
  <2>3. /\ p \in Qm /\ c \in Qm /\ (f.type = "Local" \/ f.type = "Remote")
        /\ (f.type = "Local" <=> p = c)
    BY <2>2 DEF FlowSpec
  <2>4. Clashing(p) = {} /\ Clashing(c) = {} /\ i \notin Warned(flows, p)
    BY DEF Consistent, QueueManagers
  <2>5. \A q \in {p, c} : \A d \in Defines(flows, q) :
          \E b \in BOOLEAN : Object(d, b) \in objects[q]
    BY <1>1, <2>3, <2>4, CompletedDefines
  <2>6. ASSUME NEW q \in {p, c}, NEW n, DefineQlocal(n) \in Defines(flows, q)
        PROVE  Exists(q, "QLOCAL", n)
    <3>1. PICK b \in BOOLEAN : Object(DefineQlocal(n), b) \in objects[q]
      BY <2>5, <2>6
    <3>2. /\ Object(DefineQlocal(n), b).kind = "QLOCAL"
          /\ Object(DefineQlocal(n), b).name = n
      BY ObjectFields DEF DefineQlocal, Command
    <3> QED BY <3>1, <3>2 DEF Exists
  <2>7. CASE f.type = "Local"
    <3>1. f.consumer_queue \in LocalQueues(flows, p)
      BY <2>7 DEF LocalQueues, Local
    <3>2. DefineQlocal(f.consumer_queue) \in Defines(flows, p)
      BY <3>1 DEF Defines, Locals, LocalNames
    <3> QED BY <2>6, <2>7, <3>2 DEF Delivers
  <2>8. CASE f.type = "Remote"
    <3> DEFINE dq == QremoteOf(flows, p, f.producer_queue)
               dx == DefineQxmit(f.transmit_queue, TriggerChannel(flows, p, f.transmit_queue))
               ds == SdrOf(flows, p, f.channel)
               dr == DefineRcvr(f.channel)
    <3>1. i \in Producing(flows, p) /\ i \in Consuming(flows, c)
      BY <2>8 DEF Producing, Consuming
    <3>2. /\ f.producer_queue \in RemoteQueues(flows, p)
          /\ f.transmit_queue \in TransmitQueues(flows, p)
          /\ f.channel \in SenderChannels(flows, p)
          /\ f.channel \in ReceiverChannels(flows, c)
          /\ f.consumer_queue \in ConsumerLocals(flows, c)
      BY <3>1 DEF RemoteQueues, TransmitQueues, SenderChannels, ReceiverChannels, ConsumerLocals
    <3>3. /\ dq \in Defines(flows, p) /\ dx \in Defines(flows, p) /\ ds \in Defines(flows, p)
          /\ dr \in Defines(flows, c)
          /\ DefineQlocal(f.consumer_queue) \in Defines(flows, c)
      BY <3>2 DEF Defines, Remotes, Xmits, Senders, Receivers, Locals, LocalNames
    <3>4. /\ QremoteBinding(flows, p, f.producer_queue).consumer_queue = f.consumer_queue
          /\ QremoteBinding(flows, p, f.producer_queue).consumer_qm = c
          /\ QremoteBinding(flows, p, f.producer_queue).transmit_queue = f.transmit_queue
          /\ SdrBinding(flows, p, f.channel).transmit_queue = f.transmit_queue
          /\ SdrBinding(flows, p, f.channel).consumer_qm = c
      BY <2>4, <3>1 DEF Warned
    <3>5. TriggerChannel(flows, p, f.transmit_queue) = f.channel
      BY <2>1, <2>8, TriggerIsChannel
    <3>6. PICK bq \in BOOLEAN : Object(dq, bq) \in objects[p]
      BY <2>5, <3>3
    <3>7. PICK bx \in BOOLEAN : Object(dx, bx) \in objects[p]
      BY <2>5, <3>3
    <3>8. PICK bs \in BOOLEAN : Object(ds, bs) \in objects[p]
      BY <2>5, <3>3
    <3>9. PICK br \in BOOLEAN : Object(dr, br) \in objects[c]
      BY <2>5, <3>3
    <3> DEFINE q == Object(dq, bq)
               x == Object(dx, bx)
               s == Object(ds, bs)
    <3>10. /\ q.kind = "QREMOTE" /\ q.name = f.producer_queue
           /\ q.refers.xmitq = f.transmit_queue /\ q.refers.rqmname = c
           /\ q.refers.rname = f.consumer_queue
      BY <3>4, ObjectFields DEF QremoteOf, DefineQremote, Command
    <3>11. /\ x.kind = "QXMIT" /\ x.name = f.transmit_queue /\ x.refers.trigdata = f.channel
      BY <3>5, ObjectFields DEF DefineQxmit, Command
    <3>12. /\ s.kind = "CHANNEL_SDR" /\ s.name = f.channel
           /\ s.refers.xmitq = f.transmit_queue /\ s.refers.conname = Service[c]
      BY <3>4, ObjectFields DEF SdrOf, DefineSdr, Command, compute_conname
    <3>13. Exists(c, "CHANNEL_RCVR", f.channel)
      <4>1. Object(dr, br).kind = "CHANNEL_RCVR" /\ Object(dr, br).name = f.channel
        BY ObjectFields DEF DefineRcvr, Command
      <4> QED BY <3>9, <4>1 DEF Exists
    <3>14. Exists(c, "QLOCAL", f.consumer_queue)
      BY <2>6, <3>3
    <3>15. q \in objects[p] /\ x \in objects[p] /\ s \in objects[p]
      BY <3>6, <3>7, <3>8
    <3> HIDE DEF q, x, s
    <3> QED BY <2>8, <3>10, <3>11, <3>12, <3>13, <3>14, <3>15 DEF Delivers
  <2> QED BY <2>3, <2>7, <2>8
<1> QED BY <1>1, RunInvariant, WalkInvariant, LastRunProgresses, PTL

-----------------------------------------------------------------------------
(* What can fail *)

AllClear == \A q \in Qm : Clear(flows, q)

\* Nothing a run has sent has failed; nothing has raised either, unless the
\* environment saw to it.
Flawless(co, r, faulted) ==
  /\ co.pc \in Sending => Clean(co)
  /\ r \notin faulted => co.failed = 0 /\ co.commands.FAILED = 0 /\ co.pc # "handler"

\* If no name is taken twice, nothing the last run sends fails without a fault
\* of the environment's.
Faultless ==
  env.last \in Run /\ AllClear /\ (env.orderly \/ env.last \notin env.faulted) =>
    Flawless(coroutine[env.last], env.last, env.faulted)

\* What was done before a command leaves it no obstacle.
LEMMA NoObstacle ==
  ASSUME NEW fl, FlowsOK(fl), NEW qm, Clear(fl, qm), NEW direction \in Direction,
         NEW full, PlanOK(full, fl, qm, direction), NEW k \in 1 .. Len(full),
         NEW set, Held(fl, qm, set), \A j \in 1 .. k - 1 : Fulfilled(set, full[j], direction)
  PROVE  ~Obstacle(set, full[k], direction)
<1> DEFINE c == full[k]
<1>1. Ordered(c, fl, qm, direction) /\ Len(full) \in Nat
  BY DEF PlanOK
<1>2. c.verb \in {"DEFINE", "START", "STOP", "DELETE"} =>
        OtherIn(set, c) = {} /\ \A o \in NamedIn(set, c) : o.kind = c.kind
  BY <1>1, HeldKind
<1>3. ASSUME direction = "APPLY", c.verb = "START", NamedIn(set, c) = {} PROVE FALSE
  <2>1. k - 1 \in 1 .. Len(full) /\ DefinesAt(full, k - 1, "CHANNEL_SDR", c.name)
    BY <1>3 DEF PlanOK, ApplyOrder
  <2>2. k - 1 \in 1 .. k - 1
    BY <1>1, <2>1
  <2>3. PICK b \in BOOLEAN : Object(full[k - 1], b) \in set
    BY <1>3, <2>1, <2>2 DEF Fulfilled, DefinesAt
  <2>4. /\ Object(full[k - 1], b).name = c.name
        /\ Object(full[k - 1], b).kind = "CHANNEL_SDR"
    BY <2>1, ObjectFields DEF DefinesAt
  <2>5. c.kind = "CHANNEL_SDR"
    BY <1>1, <1>3, OrderedForms
  <2> QED BY <1>3, <2>3, <2>4, <2>5 DEF NamedIn
<1>4. ASSUME direction = "TEARDOWN", c.verb = "DELETE", RunningIn(set, c) PROVE FALSE
  <2>1. PICK o \in NamedIn(set, c) : o.running
    BY <1>4 DEF RunningIn
  <2>2. PICK d \in Defines(fl, qm), b \in BOOLEAN :
          o = Object(d, b) /\ (b => d.kind = "CHANNEL_SDR")
    BY DEF Held, NamedIn
  <2>3. c.kind = "CHANNEL_SDR" /\ o.kind = "CHANNEL_SDR"
    BY <1>2, <1>4, <2>1, <2>2, ObjectFields
  <2>4. PICK j \in 1 .. k - 1 : /\ full[j].verb = "STOP" /\ full[j].kind = "CHANNEL_SDR"
                                /\ full[j].name = c.name
    BY <1>4, <2>3 DEF PlanOK, TeardownOrder
  <2>5. ~RunningIn(set, full[j])
    BY <1>4, <2>4 DEF Fulfilled
  <2>6. o \in NamedIn(set, full[j])
    BY <2>3, <2>4 DEF NamedIn
  <2> QED BY <2>1, <2>5, <2>6 DEF RunningIn
<1> QED BY <1>2, <1>3, <1>4 DEF Obstacle

\* The command that the last run sends reaches its queue manager, and what
\* came before it in the plan done.
LEMMA CommandFinds ==
  ASSUME RunInv, WalkInv, Alone, ProgressInv, AllClear, NEW r \in Run, env.last = r,
         coroutine[r].pc = "command", coroutine[r].qm.FAILED = 0
  PROVE  LET q == Head(coroutine[r].left)
             full == plans[row[r].direction][q]
             k == Len(full) - Len(coroutine[r].plan) + 1
         IN  /\ q \in Qm /\ Reaches(r, q) /\ Clear(flows, q) /\ Held(flows, q, objects[q])
             /\ row[r].direction \in Direction
             /\ PlanOK(full, flows, q, row[r].direction)
             /\ k \in 1 .. Len(full) /\ SentCommand(r) = full[k]
             /\ \A j \in 1 .. k - 1 : Fulfilled(objects[q], full[j], row[r].direction)
             /\ ~Obstacle(objects[q], SentCommand(r), row[r].direction)
<1> DEFINE dir == row[r].direction
           q == Head(coroutine[r].left)
           full == plans[dir][q]
           plan == coroutine[r].plan
           k == Len(full) - Len(plan) + 1
<1>1. /\ coroutine[r].left \in Seq(Qm) /\ coroutine[r].left # << >>
      /\ dir \in Direction /\ Rest(plan, full) /\ plan # << >>
      /\ coroutine[r].snapshot[q] # NoPod /\ ~coroutine[r].dry
  BY HereWalk DEF Walk, InLoop, Sending
<1>2. q \in Qm
  BY <1>1
<1>3. Reaches(r, q) /\ Clear(flows, q) /\ Held(flows, q, objects[q])
  BY <1>1, <1>2, HereWalk DEF Alone, Reaches, Walking, InLoop, Sending, AllClear
<1>4. PlanOK(full, flows, q, dir)
  BY <1>1, <1>2, HereWalk, Plans
<1>5. Len(full) \in Nat
  BY <1>4 DEF PlanOK
<1>6. Len(plan) \in 1 .. Len(full)
  <2> HIDE DEF full, plan
  <2> QED BY <1>1, <1>5, RestTail
<1>7. k \in 1 .. Len(full) /\ k - 1 = Len(full) - Len(plan)
  <2> DEFINE n == Len(full)
             m == Len(plan)
  <2>1. n \in Nat /\ m \in 1 .. n /\ k = n - m + 1
    BY <1>5, <1>6
  <2> HIDE DEF n, m, k
  <2>2. k \in 1 .. n /\ k - 1 = n - m
    BY <2>1
  <2> QED BY <2>2 DEF n, m
<1>8. Progress(coroutine[r], dir, objects)
  BY <1>1 DEF ProgressInv
<1>9. /\ SentCount(coroutine[r], full) = Len(full) - Len(plan) + 0
      /\ Clean(coroutine[r]) /\ coroutine[r].pc \in Sending /\ Due(q, dir)
  BY <1>3 DEF SentCount, Clean, Sending, Due
<1>10. SentCount(coroutine[r], full) = k - 1
  <2> HIDE DEF full, k
  <2> QED BY <1>5, <1>6, <1>7, <1>9
<1>11. \A j \in 1 .. k - 1 : Fulfilled(objects[q], full[j], dir)
  <2>1. \A j \in 1 .. SentCount(coroutine[r], full) : Fulfilled(objects[q], full[j], dir)
    BY <1>8, <1>9 DEF Progress, Here
  <2> HIDE DEF k, full
  <2> QED BY <1>10, <2>1
<1>12. SentCommand(r) = full[k]
  BY DEF SentCommand
<1>13. ~Obstacle(objects[q], full[k], dir)
  <2> HIDE DEF k, full, q, dir
  <2> QED BY <1>1, <1>3, <1>4, <1>7, <1>11, HereWalk, NoObstacle
<1> QED BY <1>1, <1>2, <1>3, <1>4, <1>7, <1>11, <1>12, <1>13

\* A queue manager passed or closed without a failure adds none.
LEMMA AdvanceFaultless ==
  ASSUME RunInv, WalkInv, NEW r \in Run,
         SkipQm(r) \/ DryRun(r) \/ CloseQm(r) \/ LogException(r),
         coroutine[r].failed = 0, coroutine[r].commands.FAILED = 0,
         coroutine[r].pc # "handler",
         coroutine[r].pc = "skip" => row[r].direction # "APPLY",
         coroutine[r].pc = "close" => coroutine[r].qm.FAILED = 0
  PROVE  coroutine'[r].failed = 0 /\ coroutine'[r].commands.FAILED = 0
<1>1. /\ DOMAIN coroutine = Run /\ DOMAIN coroutine[r] = CoroutineFields
      /\ TallyOK(coroutine[r].qm) /\ TallyOK(coroutine[r].commands)
  BY DEF RunInv, Domains, Story, ShapeOK
<1>2. ASSUME NEW outcome, TallyOK(outcome), outcome.FAILED = 0, NextQm(r, outcome)
      PROVE  coroutine'[r].failed = 0 /\ coroutine'[r].commands.FAILED = 0
  <2>1. /\ coroutine'[r].failed = coroutine[r].failed + 0
        /\ coroutine'[r].commands = Plus(coroutine[r].commands, outcome)
    BY <1>1, <1>2 DEF NextQm, CoroutineFields
  <2>2. coroutine'[r].commands.FAILED = coroutine[r].commands.FAILED + outcome.FAILED
    BY <1>1, <1>2, <2>1, TallyPlus
  <2> QED BY <1>2, <2>1, <2>2
<1>3. \A n : TallyOK(Tally(0, n, 0)) /\ Tally(0, n, 0).FAILED = 0
  BY DEF Tally, TallyOK, Classes
<1>4. CASE SkipQm(r)
  <2>1. NextQm(r, Tally(0, Len(coroutine[r].plan), 0))
    BY <1>4 DEF SkipQm
  <2> QED BY <1>2, <1>3, <2>1
<1>5. CASE DryRun(r)
  <2>1. NextQm(r, Tally(0, Len(coroutine[r].plan), 0))
    BY <1>5 DEF DryRun
  <2> QED BY <1>2, <1>3, <2>1
<1>6. CASE CloseQm(r)
  <2>1. NextQm(r, coroutine[r].qm) /\ coroutine[r].pc = "close"
    BY <1>6 DEF CloseQm
  <2> QED BY <1>1, <1>2, <2>1
<1>7. CASE LogException(r)
  BY <1>7 DEF LogException
<1> QED BY <1>4, <1>5, <1>6, <1>7

LEMMA GotoFlawless ==
  ASSUME RunInv, NEW r \in Run, NEW pc, Goto(r, pc), NEW bad,
         Flawless(coroutine[r], r, bad),
         pc \in {"load", "done", "dead"} \/ (pc = "event" /\ coroutine[r].pc = "audit")
  PROVE  Flawless(coroutine'[r], r, bad)
<1>1. /\ coroutine'[r].pc = pc /\ coroutine'[r].qm = coroutine[r].qm
      /\ coroutine'[r].class = coroutine[r].class
      /\ coroutine'[r].failed = coroutine[r].failed
      /\ coroutine'[r].commands = coroutine[r].commands
  BY GotoWalk
<1> QED BY <1>1 DEF Flawless, Clean, Sending

LEMMA RecordFlawless ==
  ASSUME RunInv, WalkInv, NEW r \in Run, RecordCommand(r), NEW bad,
         Flawless(coroutine[r], r, bad)
  PROVE  Flawless(coroutine'[r], r, bad)
<1>1. /\ coroutine[r].pc = "event"
      /\ coroutine'[r].pc \in {"command", "close"}
      /\ coroutine'[r].failed = coroutine[r].failed
      /\ coroutine'[r].commands = coroutine[r].commands
      /\ coroutine'[r].qm = Plus(coroutine[r].qm, One(coroutine[r].class))
  BY RecordEffect DEF CommandOrClose
<1>2. TallyOK(coroutine[r].qm) /\ coroutine[r].class \in Classes
  BY DEF RunInv, Story, ShapeOK
<1>3. /\ TallyOK(One(coroutine[r].class))
      /\ One(coroutine[r].class).FAILED = IF coroutine[r].class = "FAILED" THEN 1 ELSE 0
  BY <1>2, TallyOne
<1>4. coroutine'[r].qm.FAILED = coroutine[r].qm.FAILED + One(coroutine[r].class).FAILED
  BY <1>1, <1>2, <1>3, TallyPlus
<1>5. coroutine[r].qm.FAILED = 0 /\ coroutine[r].class # "FAILED"
  BY <1>1 DEF Flawless, Clean, Sending
<1>6. coroutine'[r].qm.FAILED = 0
  BY <1>3, <1>4, <1>5
<1> QED BY <1>1, <1>6 DEF Flawless, Clean

LEMMA RunStepFlawless ==
  ASSUME RunInv, WalkInv, Alone, ProgressInv, AllClear, NEW r \in Run, env.last = r,
         RunStep(r), ~CommandMiscarries(r), r \notin env'.faulted => r \notin env.faulted,
         Flawless(coroutine[r], r, env.faulted)
  PROVE  Flawless(coroutine'[r], r, env'.faulted)
<1>1. /\ row[r].state # "gone"
      /\ row[r].direction = "APPLY" => \A q \in Qm : pod[q] # NoPod
      /\ coroutine[r].pc \in Walking => coroutine[r].snapshot = pod
  BY DEF Alone
<1>2. Walk(coroutine[r], row[r], plans)
  BY HereWalk
<1>3. CASE MoveToRunning(r) \/ FinalizeRun(r) \/ WriteCommandAudit(r) \/ TopologyDisappeared(r)
  <2>1. \E pc : /\ Goto(r, pc)
                /\ \/ pc \in {"load", "done", "dead"}
                   \/ pc = "event" /\ coroutine[r].pc = "audit"
    BY <1>3 DEF MoveToRunning, FinalizeRun, WriteCommandAudit, TopologyDisappeared
  <2>2. UNCHANGED env
    BY <1>3 DEF MoveToRunning, FinalizeRun, WriteCommandAudit, TopologyDisappeared
  <2>3. Flawless(coroutine'[r], r, env.faulted)
    BY <2>1, GotoFlawless
  <2> QED BY <2>2, <2>3
<1>4. CASE WriteFindsNoRow(r)
  BY <1>1, <1>4 DEF WriteFindsNoRow
<1>5. CASE WriteIsLocked(r)
  <2>1. r \in env'.faulted
    BY <1>5 DEF WriteIsLocked, Trouble, RunInv, Domains, EnvFields
  <2>2. coroutine'[r].pc \in {"handler", "dead"}
    BY <1>5, GotoWalk DEF WriteIsLocked, AfterRaise
  <2> QED BY <2>1, <2>2 DEF Flawless, Sending
<1>6. CASE LoadTopology(r)
  <2>1. /\ coroutine'[r].pc = "derive" /\ UNCHANGED env
        /\ coroutine'[r].failed = coroutine[r].failed
        /\ coroutine'[r].commands = coroutine[r].commands
    BY <1>6 DEF LoadTopology, RunInv, Domains, Story, ShapeOK, CoroutineFields
  <2> QED BY <2>1 DEF Flawless, Sending
<1>7. CASE DerivePlan(r)
  <2>1. /\ coroutine[r].pc = "derive" /\ UNCHANGED env
        /\ coroutine'[r].pc \in {"skip", "dry", "command", "close"}
        /\ coroutine'[r].failed = coroutine[r].failed
        /\ coroutine'[r].commands = coroutine[r].commands
        /\ coroutine'[r].qm = coroutine[r].qm
    BY <1>7 DEF DerivePlan, CommandOrClose, RunInv, Domains, Story, ShapeOK, CoroutineFields
  <2>2. coroutine[r].qm.FAILED = 0
    BY <2>1 DEF RunInv, Story, Begun, Zero
  <2> QED BY <2>1, <2>2 DEF Flawless, Clean
<1>8. CASE SkipQm(r) \/ DryRun(r) \/ CloseQm(r) \/ LogException(r)
  <2>1. UNCHANGED env /\ coroutine'[r].pc \in {"final", "derive"}
        /\ coroutine[r].pc \in {"skip", "dry", "close", "handler"}
    BY <1>8, AdvanceEffect
  <2>2. coroutine[r].pc = "close" => coroutine[r].qm.FAILED = 0
    BY DEF Flawless, Clean, Sending
  <2>3. coroutine[r].pc = "skip" => row[r].direction # "APPLY"
    <3> SUFFICES ASSUME coroutine[r].pc = "skip", row[r].direction = "APPLY" PROVE FALSE
      OBVIOUS
    <3>1. coroutine[r].left \in Seq(Qm) /\ coroutine[r].left # << >>
          /\ coroutine[r].snapshot[Head(coroutine[r].left)] = NoPod
      BY <1>2 DEF Walk, InLoop
    <3>2. Head(coroutine[r].left) \in Qm
      BY <3>1
    <3> QED BY <1>1, <3>1, <3>2 DEF Walking, InLoop
  <2>4. r \notin env.faulted =>
          coroutine'[r].failed = 0 /\ coroutine'[r].commands.FAILED = 0
    BY <1>8, <2>2, <2>3, AdvanceFaultless DEF Flawless
  <2> QED BY <2>1, <2>4 DEF Flawless, Sending
<1>9. CASE RecordCommand(r)
  <2>1. UNCHANGED env
    BY <1>9 DEF RecordCommand
  <2>2. Flawless(coroutine'[r], r, env.faulted)
    BY <1>9, RecordFlawless
  <2> QED BY <2>1, <2>2
<1>10. CASE ApplyCommand(r)
  <2>1. /\ coroutine[r].pc = "command" /\ coroutine'[r].pc = "audit"
        /\ coroutine'[r].qm = coroutine[r].qm
        /\ coroutine'[r].failed = coroutine[r].failed
        /\ coroutine'[r].commands = coroutine[r].commands
    BY <1>10, CommandEffect
  <2>2. coroutine[r].qm.FAILED = 0
    BY <2>1 DEF Flawless, Clean, Sending
  <2>3. LET q == Head(coroutine[r].left)
        IN  Reaches(r, q) /\ ~Obstacle(objects[q], SentCommand(r), row[r].direction)
    BY <2>1, <2>2, CommandFinds
  <2>4. coroutine'[r].class # "FAILED"
    BY <1>10, <2>3, CommandEffect
  <2> QED BY <2>1, <2>2, <2>4 DEF Flawless, Clean
<1> QED BY <1>3, <1>4, <1>5, <1>6, <1>7, <1>8, <1>9, <1>10 DEF RunStep, Step

\* A refused or lost command spoils both what is orderly and its run.
LEMMA MiscarryEnv ==
  ASSUME RunInv, NEW r \in Run, CommandMiscarries(r)
  PROVE  ~env'.orderly /\ r \in env'.faulted
BY DEF CommandMiscarries, Trouble, RunInv, Domains, EnvFields

LEMMA NextFaultless ==
  RunInv /\ WalkInv /\ Alone /\ ProgressInv /\ Faultless /\ [Next]_vars => Faultless'
<1> SUFFICES ASSUME RunInv, WalkInv, Alone, ProgressInv, Faultless, [Next]_vars,
                    env'.last \in Run, AllClear',
                    env'.orderly \/ env'.last \notin env'.faulted
             PROVE  Flawless(coroutine'[env'.last], env'.last, env'.faulted)
  BY DEF Faultless
<1>1. AllClear
  <2>1. UNCHANGED flows
    <3>1. ASSUME NEW r \in Run, RunStep(r) PROVE UNCHANGED flows
      BY <3>1, RunStepEffect
    <3>2. ASSUME NEW r \in Run, NEW direction, NEW dry, StartRun(r, direction, dry)
          PROVE  UNCHANGED flows
      BY <3>2 DEF StartRun
    <3>3. CASE (\E lost \in SUBSET Qm : LosePods(lost)) \/ GainPods
               \/ CheckDelete \/ DeleteTopology \/ Crash
      BY <3>3 DEF LosePods, GainPods, CheckDelete, DeleteTopology, Crash
    <3> QED BY <3>1, <3>2, <3>3, NextCases DEF vars
  <2> QED BY <2>1 DEF AllClear
<1>2. ASSUME NEW r \in Run, RunStep(r)
      PROVE  Flawless(coroutine'[env'.last], env'.last, env'.faulted)
  <2>1. /\ Active(r) /\ env'.last = env.last /\ (env'.orderly => env.orderly)
        /\ env.faulted \subseteq env'.faulted
    BY <1>2, RunStepEffect
  <2>2. env.last = r
    BY <2>1 DEF Alone
  <2>3. ~CommandMiscarries(r)
    BY <2>1, <2>2, MiscarryEnv
  <2>4. Flawless(coroutine[r], r, env.faulted)
    BY <1>1, <2>1, <2>2 DEF Faultless
  <2> QED BY <1>1, <1>2, <2>1, <2>2, <2>3, <2>4, RunStepFlawless
<1>3. ASSUME NEW r \in Run, NEW direction \in Direction, NEW dry,
             StartRun(r, direction, dry)
      PROVE  Flawless(coroutine'[env'.last], env'.last, env'.faulted)
  <2>1. env'.last \in {Nobody, r}
    BY <1>3, TroubleEffect DEF StartRun, RunInv, Domains, EnvFields
  <2>2. env'.last = r
    BY <2>1, NoneAssumption DEF Run
  <2>3. /\ coroutine'[r].pc = "pending" /\ coroutine'[r].failed = coroutine[r].failed
        /\ coroutine'[r].commands = coroutine[r].commands
        /\ coroutine[r].failed = 0 /\ Zero(coroutine[r].commands)
    BY <1>3 DEF StartRun, RunInv, Domains, Story, ShapeOK, CoroutineFields, Begun
  <2> QED BY <2>2, <2>3 DEF Flawless, Zero, Sending
<1>4. CASE (\E lost \in SUBSET Qm : LosePods(lost)) \/ GainPods \/ DeleteTopology
  <2>1. env'.last = Nobody
    BY <1>4, TroubleEffect
    DEF LosePods, GainPods, DeleteTopology, RunInv, Domains, EnvFields
  <2> QED BY <2>1, NoneAssumption DEF Run
<1>5. CASE Crash
  <2>1. /\ env'.last = env.last /\ (env'.orderly => env.orderly)
        /\ env'.faulted = env.faulted \cup {}
    BY <1>5, TroubleEffect DEF Crash
  <2>2. Flawless(coroutine[env.last], env.last, env.faulted)
    BY <1>1, <2>1 DEF Faultless
  <2>3. \/ coroutine'[env.last] = coroutine[env.last]
        \/ /\ coroutine'[env.last].pc = "killed"
           /\ coroutine'[env.last].failed = coroutine[env.last].failed
           /\ coroutine'[env.last].commands = coroutine[env.last].commands
    BY <1>5, <2>1 DEF Crash, RunInv, Story, ShapeOK, CoroutineFields
  <2> QED BY <2>1, <2>2, <2>3 DEF Flawless, Sending
<1>6. CASE CheckDelete \/ UNCHANGED vars
  BY <1>1, <1>6 DEF CheckDelete, vars, Faultless
<1> QED BY <1>2, <1>3, <1>4, <1>5, <1>6, NextCases

\* Without a clash of names and without a fault of the environment's, no
\* command that the last run sends fails: the order of its plan has put there,
\* or taken away, whatever the command needs.
THEOREM LastRunIsFaultless == Spec => []Faultless
<1>1. Init => Faultless
  BY NoneAssumption DEF Init, Faultless, Run
<1>2. RunInv /\ WalkInv /\ Alone /\ ProgressInv /\ Faultless /\ [Next]_vars => Faultless'
  BY NextFaultless
<1> QED BY <1>1, <1>2, RunInvariant, WalkInvariant, LastRunIsAlone, LastRunProgresses, PTL
    DEF Spec

\* Re-applying is safe: a run that overlaps no other and meets no fault of its
\* own is COMPLETED, whatever objects earlier ones left.
THEOREM Reapplication == Spec => []ReapplicationSafe
<1>1. ASSUME RunInv, WalkInv, Faultless PROVE ReapplicationSafe
  <2> SUFFICES ASSUME NEW r \in Run, NEW direction \in Direction, Undisturbed(r, direction),
                      r \notin env.faulted, \A q \in Qm : Clashing(q) = {},
                      row[r].state \in Finished
               PROVE  row[r].state = "COMPLETED"
    BY DEF ReapplicationSafe
  <2>1. AllClear
    BY ClearIs DEF AllClear
  <2>2. coroutine[r].failed = 0 /\ coroutine[r].commands.FAILED = 0
    BY <1>1, <2>1 DEF Faultless, Flawless, Undisturbed
  <2>3. row[r].state =
          Verdict(coroutine[r].completed, coroutine[r].failed, coroutine[r].commands)
    BY <1>1, HereWalk DEF Walk
  <2> QED BY <2>2, <2>3 DEF Verdict
<1> QED BY <1>1, RunInvariant, WalkInvariant, LastRunIsFaultless, PTL

-----------------------------------------------------------------------------
(* References *)

\* No command but a refused or lost one leaves a reference dangling.
RefsInv == env.orderly /\ AllClear => \A q \in Qm : RefsIn(objects[q])

\* What refers to a transmission queue has not the dead-letter queue's name.
LEMMA ReferrersName ==
  ASSUME NEW fl, FlowsOK(fl), NEW qm, Clear(fl, qm), NEW d \in Defines(fl, qm), Refers(d)
  PROVE  d.name # DefaultDlq
<1>1. d \in Remotes(fl, qm) \cup Senders(fl, qm)
  BY CommandForms DEF Defines, Refers
<1>2. CASE d \in Remotes(fl, qm)
  <2>1. d.name \in RemoteQueues(fl, qm)
    BY <1>2, CommandForms
  <2> QED BY <2>1 DEF Clear, LocalNames
<1>3. CASE d \in Senders(fl, qm)
  <2>1. d.name \in SenderChannels(fl, qm)
    BY <1>3, CommandForms
  <2> QED BY <2>1, NameSets
<1> QED BY <1>1, <1>2, <1>3

\* A plan defines a transmission queue before what refers to it, and deletes it
\* after.
LEMMA OrderResolves ==
  ASSUME NEW fl, FlowsOK(fl), NEW qm, Clear(fl, qm), NEW direction \in Direction,
         NEW full, PlanOK(full, fl, qm, direction), NEW k \in 1 .. Len(full),
         NEW set, Held(fl, qm, set), \A j \in 1 .. k - 1 : Fulfilled(set, full[j], direction)
  PROVE  /\ full[k].verb = "DEFINE" /\ Refers(full[k]) =>
              \E x \in set : x.kind = "QXMIT" /\ x.name = full[k].refers.xmitq
         /\ full[k].verb = "DELETE" /\ full[k].kind = "QXMIT" =>
              \A o \in set : Refers(o) => o.refers.xmitq # full[k].name
<1> DEFINE c == full[k]
<1>1. Ordered(c, fl, qm, direction) /\ Len(full) \in Nat
  BY DEF PlanOK
<1>2. Sendable(c, direction)
  BY <1>1, OrderedForms
<1>3. ASSUME c.verb = "DEFINE", Refers(c)
      PROVE  \E x \in set : x.kind = "QXMIT" /\ x.name = c.refers.xmitq
  <2>1. direction = "APPLY"
    BY <1>2, <1>3 DEF Sendable
  <2>2. PICK j \in 1 .. k - 1 : DefinesAt(full, j, "QXMIT", c.refers.xmitq)
    BY <1>3, <2>1 DEF PlanOK, ApplyOrder
  <2>3. PICK b \in BOOLEAN : Object(full[j], b) \in set
    BY <2>1, <2>2 DEF Fulfilled, DefinesAt
  <2> QED BY <2>2, <2>3, ObjectFields DEF DefinesAt
<1>4. ASSUME c.verb = "DELETE", c.kind = "QXMIT", NEW o \in set, Refers(o),
             o.refers.xmitq = c.name
      PROVE  FALSE
  <2>1. direction = "TEARDOWN"
    BY <1>2, <1>4 DEF Sendable
  <2>2. PICK d \in Defines(fl, qm), b \in BOOLEAN : o = Object(d, b)
    BY DEF Held
  <2>3. o.kind = d.kind /\ o.name = d.name /\ o.refers = d.refers
    BY <2>2, ObjectFields
  <2>4. Refers(d) /\ d.refers.xmitq = c.name
    BY <1>4, <2>3 DEF Refers
  <2>5. d.name # DefaultDlq
    BY <2>4, ReferrersName
  <2>6. DeletesAt(full, k, "QXMIT", d.refers.xmitq)
    BY <1>4, <2>4 DEF DeletesAt
  <2>7. PICK j \in 1 .. k - 1 : DeletesAt(full, j, d.kind, d.name)
    BY <2>1, <2>4, <2>5, <2>6 DEF PlanOK, TeardownOrder
  <2>8. NamedIn(set, full[j]) = {}
    BY <2>1, <2>7 DEF Fulfilled, DeletesAt
  <2>9. o \in NamedIn(set, full[j])
    BY <2>3, <2>7 DEF NamedIn, DeletesAt
  <2> QED BY <2>8, <2>9
<1> QED BY <1>3, <1>4

LEMMA CommandRefs ==
  ASSUME RunInv, WalkInv, Alone, ProgressInv, AllClear, NEW r \in Run, env.last = r,
         coroutine[r].qm.FAILED = 0, ApplyCommand(r), \A q \in Qm : RefsIn(objects[q])
  PROVE  \A q \in Qm : RefsIn(objects'[q])
<1> DEFINE q == Head(coroutine[r].left)
           dir == row[r].direction
           c == SentCommand(r)
           full == plans[dir][q]
           k == Len(full) - Len(coroutine[r].plan) + 1
<1>1. /\ coroutine[r].pc = "command" /\ q \in Qm
      /\ \A p \in Qm \ {q} : objects'[p] = objects[p]
      /\ Ordered(c, flows, q, dir)
      /\ Outcome(objects[q], c, dir, objects'[q], coroutine'[r].class)
  BY CommandEffect
<1>2. /\ Clear(flows, q) /\ Held(flows, q, objects[q]) /\ dir \in Direction
      /\ PlanOK(full, flows, q, dir) /\ k \in 1 .. Len(full) /\ c = full[k]
      /\ \A j \in 1 .. k - 1 : Fulfilled(objects[q], full[j], dir)
  BY <1>1, CommandFinds
<1>3. FlowsOK(flows)
  BY HereWalk
<1> HIDE DEF q, dir, c, full, k
<1>4. /\ c.verb = "DEFINE" /\ Refers(c) =>
           \E x \in objects[q] : x.kind = "QXMIT" /\ x.name = c.refers.xmitq
      /\ c.verb = "DELETE" /\ c.kind = "QXMIT" =>
           \A o \in objects[q] : Refers(o) => o.refers.xmitq # c.name
  BY <1>2, <1>3, OrderResolves
<1>5. RefsIn(objects'[q])
  BY <1>1, <1>2, <1>3, <1>4, OutcomeRefs
<1> QED BY <1>1, <1>5

\* Only commands change objects.
LEMMA OnlyCommands ==
  ASSUME RunInv, WalkInv, NEW r \in Run, RunStep(r), ~ApplyCommand(r), ~CommandMiscarries(r)
  PROVE  UNCHANGED objects
<1>1. CASE SkipQm(r) \/ DryRun(r) \/ CloseQm(r) \/ LogException(r)
  BY <1>1, AdvanceEffect
<1>2. CASE \/ MoveToRunning(r) \/ LoadTopology(r) \/ TopologyDisappeared(r) \/ DerivePlan(r)
           \/ WriteCommandAudit(r) \/ RecordCommand(r) \/ FinalizeRun(r)
           \/ WriteFindsNoRow(r) \/ WriteIsLocked(r)
  BY <1>2 DEF MoveToRunning, LoadTopology, TopologyDisappeared, DerivePlan, WriteCommandAudit,
              RecordCommand, FinalizeRun, WriteFindsNoRow, WriteIsLocked
<1> QED BY <1>1, <1>2 DEF RunStep, Step

LEMMA NextRefs ==
  RunInv /\ WalkInv /\ Alone /\ ProgressInv /\ Faultless /\ RefsInv /\ [Next]_vars => RefsInv'
<1> SUFFICES ASSUME RunInv, WalkInv, Alone, ProgressInv, Faultless, RefsInv, [Next]_vars,
                    env'.orderly, AllClear'
             PROVE  \A q \in Qm : RefsIn(objects'[q])
  BY DEF RefsInv
<1>1. ASSUME NEW r \in Run, RunStep(r) PROVE \A q \in Qm : RefsIn(objects'[q])
  <2>1. Active(r) /\ env.orderly /\ UNCHANGED flows
    BY <1>1, RunStepEffect
  <2>2. AllClear
    BY <2>1 DEF AllClear
  <2>3. env.last = r /\ \A q \in Qm : RefsIn(objects[q])
    BY <2>1, <2>2 DEF Alone, RefsInv
  <2>4. ~CommandMiscarries(r)
    BY MiscarryEnv
  <2>5. CASE ApplyCommand(r)
    <3>1. Clean(coroutine[r])
      BY <2>1, <2>2, <2>3, <2>5 DEF Faultless, Flawless, ApplyCommand, Sending
    <3> QED BY <2>2, <2>3, <2>5, <3>1, CommandRefs DEF Clean
  <2>6. CASE ~ApplyCommand(r)
    BY <1>1, <2>3, <2>4, <2>6, OnlyCommands
  <2> QED BY <2>5, <2>6
<1>2. ASSUME NEW r \in Run, NEW direction \in Direction, NEW dry,
             StartRun(r, direction, dry)
      PROVE  \A q \in Qm : RefsIn(objects'[q])
  <2>1. env.orderly /\ UNCHANGED << flows, objects >>
    BY <1>2 DEF StartRun, Trouble, RunInv, Domains, EnvFields
  <2> QED BY <2>1 DEF RefsInv, AllClear
<1>3. CASE \E lost \in SUBSET Qm : LosePods(lost)
  BY <1>3, TroubleEffect DEF LosePods
<1>4. CASE GainPods \/ CheckDelete \/ DeleteTopology \/ Crash
  <2>1. env.orderly /\ UNCHANGED << flows, objects >>
    BY <1>4, TroubleEffect DEF GainPods, CheckDelete, DeleteTopology, Crash, RunInv, Domains, EnvFields
  <2> QED BY <2>1 DEF RefsInv, AllClear
<1>5. CASE UNCHANGED vars
  BY <1>5 DEF vars, RefsInv, AllClear
<1> QED BY <1>1, <1>2, <1>3, <1>4, <1>5, NextCases

\* As long as no two runs overlap and nothing is refused or lost, no QREMOTE and
\* no sender channel refers to a transmission queue that is not there, between
\* any two commands, and so at every crash.
THEOREM ReferencesResolve == Spec => []RefsResolve
<1>1. Init => RefsInv
  BY DEF Init, RefsInv, RefsIn
<1>2. RunInv /\ WalkInv /\ Alone /\ ProgressInv /\ Faultless /\ RefsInv /\ [Next]_vars
        => RefsInv'
  BY NextRefs
<1>3. RefsInv => RefsResolve
  <2> SUFFICES ASSUME RefsInv, env.orderly, \A q \in Qm : Clashing(q) = {},
                      NEW q \in Qm, NEW o \in objects[q],
                      o.kind \in {"QREMOTE", "CHANNEL_SDR"}
               PROVE  Exists(q, "QXMIT", o.refers.xmitq)
    BY DEF RefsResolve
  <2>1. AllClear
    BY ClearIs DEF AllClear
  <2> QED BY <2>1 DEF RefsInv, RefsIn, Refers, Exists
<1> QED BY <1>1, <1>2, <1>3, RunInvariant, WalkInvariant, LastRunIsAlone, LastRunProgresses,
          LastRunIsFaultless, PTL DEF Spec

-----------------------------------------------------------------------------
(* The dead-letter queue *)

IsDlq(o) == o.kind = "QLOCAL" /\ o.name = DefaultDlq

\* A command of either direction leaves the queue manager's dead-letter queue.
LEMMA OutcomeKeepsDlq ==
  ASSUME NEW fl, FlowsOK(fl), NEW qm, Clear(fl, qm), NEW direction,
         NEW c, Ordered(c, fl, qm, direction), NEW before, NEW after, NEW class,
         Outcome(before, c, direction, after, class), NEW o \in before, IsDlq(o)
  PROVE  \E x \in after : IsDlq(x)
<1>1. Sendable(c, direction)
  BY OrderedForms
<1>2. CASE after = before
  BY <1>2
<1>3. CASE c.verb = "DEFINE" /\ after = Redefined(before, c)
  <2>1. CASE o \notin NamedIn(before, c)
    BY <1>3, <2>1 DEF Redefined
  <2>2. CASE o \in NamedIn(before, c)
    <3>1. c.name = DefaultDlq /\ NameSpace(c.kind) = "queue"
      BY <2>2 DEF NamedIn, IsDlq, NameSpace
    <3>2. c \in Defines(fl, qm)
      BY <1>3, OrderedForms
    <3>3. c.kind \in {"QLOCAL", "QXMIT", "QREMOTE", "CHANNEL_SDR", "CHANNEL_RCVR"}
      BY <3>2, CommandForms DEF Defines
    <3>4. c.kind \notin {"CHANNEL_SDR", "CHANNEL_RCVR"}
      BY <3>1 DEF NameSpace
    <3>5. c.kind \notin {"QXMIT", "QREMOTE"}
      <4>1. c \in Commands(fl, qm)
        BY <3>2 DEF Commands, Defines, Head1, Tail1
      <4> QED BY <1>3, <3>1, <4>1, ClearNames
    <3>6. IsDlq(Object(c, RunningIn(before, c)))
      BY <3>1, <3>3, <3>4, <3>5 DEF IsDlq, Object
    <3> QED BY <1>3, <3>6 DEF Redefined
  <2> QED BY <2>1, <2>2
<1>4. ASSUME NEW on \in BOOLEAN, c.verb \in {"START", "STOP"}, after = Switched(before, c, on)
      PROVE  o \in after
  <2>1. c.kind = "CHANNEL_SDR"
    BY <1>4, OrderedForms
  <2>2. o \notin NamedIn(before, c)
    BY <2>1 DEF NamedIn, IsDlq, NameSpace
  <2> QED BY <1>4, <2>2 DEF Switched
<1>5. CASE c.verb = "DELETE" /\ after = before \ NamedIn(before, c)
  <2>1. direction = "TEARDOWN"
    BY <1>1, <1>5 DEF Sendable
  <2>2. c.name # DefaultDlq
    BY <2>1 DEF Ordered
  <2> QED BY <1>5, <2>2 DEF NamedIn, IsDlq
<1> QED BY <1>2, <1>3, <1>4, <1>5 DEF Outcome

\* A step that takes the dead-letter queue from a queue manager takes its pod.
LEMMA NextKeepsDlq ==
  ASSUME RunInv, WalkInv, [Next]_vars, NEW q \in Qm, pod'[q] = pod[q], Clashing(q) = {},
         Exists(q, "QLOCAL", DefaultDlq)
  PROVE  Exists(q, "QLOCAL", DefaultDlq)'
<1>1. PICK o \in objects[q] : IsDlq(o)
  BY DEF Exists, IsDlq
<1>2. Clear(flows, q) /\ FlowsOK(flows)
  BY ClearIs DEF WalkInv, Base
<1> SUFFICES \E x \in objects'[q] : IsDlq(x)
  BY DEF Exists, IsDlq
<1>3. ASSUME NEW r \in Run, ApplyCommand(r) \/ CommandMiscarries(r)
      PROVE  \E x \in objects'[q] : IsDlq(x)
  <2>1. CASE q = Head(coroutine[r].left)
    <3>1. /\ Ordered(SentCommand(r), flows, q, row[r].direction)
          /\ Outcome(objects[q], SentCommand(r), row[r].direction, objects'[q],
                     coroutine'[r].class)
      BY <1>3, <2>1, CommandEffect
    <3> QED BY <1>1, <1>2, <3>1, OutcomeKeepsDlq
  <2>2. CASE q # Head(coroutine[r].left)
    <3>1. objects'[q] = objects[q]
      BY <1>3, <2>2, CommandEffect
    <3> QED BY <1>1, <3>1
  <2> QED BY <2>1, <2>2
<1>4. ASSUME NEW r \in Run, RunStep(r), ~ApplyCommand(r), ~CommandMiscarries(r)
      PROVE  \E x \in objects'[q] : IsDlq(x)
  BY <1>1, <1>4, OnlyCommands
<1>5. ASSUME NEW r \in Run, NEW direction, NEW dry, StartRun(r, direction, dry)
      PROVE  \E x \in objects'[q] : IsDlq(x)
  BY <1>1, <1>5 DEF StartRun
<1>6. ASSUME NEW lost \in SUBSET Qm, LosePods(lost)
      PROVE  \E x \in objects'[q] : IsDlq(x)
  <2>1. q \notin lost
    BY <1>6 DEF LosePods, NoPod
  <2> QED BY <1>1, <1>6, <2>1 DEF LosePods
<1>7. CASE GainPods \/ CheckDelete \/ DeleteTopology \/ Crash \/ UNCHANGED vars
  BY <1>1, <1>7 DEF GainPods, CheckDelete, DeleteTopology, Crash, vars
<1> QED BY <1>3, <1>4, <1>5, <1>6, <1>7, NextCases

\* No command of any run takes the dead-letter queue from a queue manager that
\* keeps its pod, unless a name of the topology is taken twice there.
THEOREM DeadLetterQueueStays == Spec => DlqStays
<1>1. RunInv /\ WalkInv /\ [Next]_vars =>
        \A q \in Qm :
          pod'[q] = pod[q] /\ Exists(q, "QLOCAL", DefaultDlq)
            => Exists(q, "QLOCAL", DefaultDlq)' \/ Clashing(q) # {}
  BY NextKeepsDlq
<1> QED BY <1>1, RunInvariant, WalkInvariant, PTL DEF Spec, DlqStays

-----------------------------------------------------------------------------
(* Types, and the counters of a run *)

\* A run's counters, in the coroutine and in the row, never exceed the number
\* of queue managers it has been through.
Counts(co, rw) ==
  /\ co.completed \in Nat /\ co.failed \in Nat
  /\ rw.completed \in Nat /\ rw.failed \in Nat
  /\ rw.completed + rw.failed <= co.completed + co.failed
  /\ co.completed + co.failed + Len(co.left) <= Len(QmOrder)
  /\ co.pc \in {"none", "pending", "load"} => co.completed = 0 /\ co.failed = 0

Typed(co, rw, lg) ==
  /\ rw.state \in {"none", "PENDING", "RUNNING", "gone"} \cup Finished
  /\ lg \in Tallies /\ co.qm \in Tallies /\ co.commands \in Tallies /\ rw.commands \in Tallies
  /\ Counts(co, rw)
  /\ co.pc = "done" => rw.state \in Finished \cup {"gone"}

TypeInv ==
  /\ deletion \in {"none", "checked", "done"}
  /\ \A r \in Run : Typed(coroutine[r], row[r], logged[r])

LEMMA TallyTypes ==
  /\ NoTally \in Tallies
  /\ \A class \in Classes : One(class) \in Tallies
  /\ \A n \in Nat : Tally(0, n, 0) \in Tallies /\ Tally(0, 0, 1) \in Tallies
  /\ \A a, b \in Tallies : Plus(a, b) \in Tallies
<1>1. /\ NoTally \in Tallies
      /\ \A n \in Nat : Tally(0, n, 0) \in Tallies /\ Tally(0, 0, 1) \in Tallies
  BY DEF NoTally, Tally, Tallies
<1>2. \A class \in Classes : One(class) \in Tallies
  BY DEF NoTally, Tally, Tallies, One, Classes
<1>3. \A a, b \in Tallies : Plus(a, b) \in Tallies
  BY DEF Tallies, Plus
<1> QED BY <1>1, <1>2, <1>3

LEMMA InitTypeInv == Init => TypeInv
<1> SUFFICES ASSUME Init PROVE TypeInv
  OBVIOUS
<1>1. Len(QmOrder) \in Nat /\ Len(<< >>) = 0
  BY TopologyAssumption
<1>2. ASSUME NEW r \in Run PROVE Typed(coroutine[r], row[r], logged[r])
  <2>1. coroutine[r] = NoCoroutine /\ row[r] = NoRow /\ logged[r] = NoTally
    BY DEF Init
  <2>2. /\ NoCoroutine.pc = "none" /\ NoCoroutine.left = << >> /\ NoCoroutine.qm = NoTally
        /\ NoCoroutine.commands = NoTally /\ NoCoroutine.completed = 0
        /\ NoCoroutine.failed = 0
        /\ NoRow.state = "none" /\ NoRow.completed = 0 /\ NoRow.failed = 0
        /\ NoRow.commands = NoTally
    BY DEF NoCoroutine, NoRow
  <2> QED BY <1>1, <2>1, <2>2, TallyTypes DEF Typed, Counts
<1> QED BY <1>2 DEF Init, TypeInv

LEMMA FrameType ==
  ASSUME TypeInv, NEW r \in Run, Others(r), \A s \in Run \ {r} : logged'[s] = logged[s],
         UNCHANGED deletion, Typed(coroutine'[r], row'[r], logged'[r])
  PROVE  TypeInv'
<1>1. ASSUME NEW s \in Run PROVE Typed(coroutine'[s], row'[s], logged'[s])
  <2>1. CASE s = r
    BY <2>1
  <2>2. CASE s # r
    BY <2>2 DEF Others, TypeInv
  <2> QED BY <2>1, <2>2
<1> QED BY <1>1 DEF TypeInv

LEMMA HereType ==
  ASSUME RunInv, TypeInv, NEW r \in Run
  PROVE  /\ Typed(coroutine[r], row[r], logged[r])
         /\ DOMAIN coroutine = Run /\ DOMAIN coroutine[r] = CoroutineFields
         /\ DOMAIN row = Run /\ DOMAIN row[r] = RowFields /\ DOMAIN logged = Run
         /\ coroutine[r].class \in Classes
BY DEF RunInv, TypeInv, Domains, Story, ShapeOK

\* Steps that count nothing.
LEMMA GotoType ==
  ASSUME RunInv, TypeInv, NEW r \in Run, NEW pc, Goto(r, pc), UNCHANGED << deletion, row >>,
         \A s \in Run \ {r} : logged'[s] = logged[s], logged'[r] \in Tallies,
         pc \in {"event", "handler", "dead"}
  PROVE  TypeInv'
<1>1. Typed(coroutine'[r], row'[r], logged'[r])
  BY HereType, GotoWalk DEF Typed, Counts
<1>2. Others(r)
  BY GotoWalk DEF Others
<1> QED BY <1>1, <1>2, FrameType

LEMMA StartRunType ==
  ASSUME RunInv, TypeInv, NEW r \in Run, NEW direction, NEW dry, StartRun(r, direction, dry)
  PROVE  TypeInv'
<1>1. /\ Others(r) /\ UNCHANGED << deletion, logged >> /\ row[r].state = "none"
      /\ row'[r].state = "PENDING" /\ row'[r].completed = row[r].completed
      /\ row'[r].failed = row[r].failed /\ row'[r].commands = row[r].commands
      /\ coroutine'[r].pc = "pending" /\ coroutine'[r].left = coroutine[r].left
      /\ coroutine'[r].qm = coroutine[r].qm /\ coroutine'[r].commands = coroutine[r].commands
      /\ coroutine'[r].completed = coroutine[r].completed
      /\ coroutine'[r].failed = coroutine[r].failed
  BY HereType DEF StartRun, CoroutineFields, RowFields, Others
<1>2. coroutine[r].pc = "none"
  BY <1>1 DEF RunInv, Story, Begun
<1>3. Typed(coroutine'[r], row'[r], logged'[r])
  BY <1>1, <1>2, HereType DEF Typed, Counts
<1> QED BY <1>1, <1>3, FrameType

LEMMA MovesType ==
  ASSUME RunInv, WalkInv, TypeInv, NEW r \in Run,
         \/ MoveToRunning(r) \/ LoadTopology(r) \/ DerivePlan(r) \/ RecordCommand(r)
         \/ ApplyCommand(r) \/ CommandMiscarries(r)
  PROVE  TypeInv'
<1>1. /\ Typed(coroutine[r], row[r], logged[r]) /\ coroutine[r].class \in Classes
      /\ DOMAIN row = Run /\ DOMAIN row[r] = RowFields
      /\ DOMAIN coroutine = Run /\ DOMAIN coroutine[r] = CoroutineFields
  BY HereType
<1>2. CASE MoveToRunning(r)
  <2>1. /\ coroutine[r].pc = "pending" /\ Goto(r, "load") /\ UNCHANGED << deletion, logged >>
        /\ \A s \in Run \ {r} : row'[s] = row[s]
        /\ row'[r].state = "RUNNING" /\ row'[r].completed = row[r].completed
        /\ row'[r].failed = row[r].failed /\ row'[r].commands = row[r].commands
    BY <1>1, <1>2 DEF MoveToRunning, RowFields
  <2>2. /\ Others(r) /\ coroutine'[r].pc = "load" /\ coroutine'[r].left = coroutine[r].left
        /\ coroutine'[r].qm = coroutine[r].qm /\ coroutine'[r].commands = coroutine[r].commands
        /\ coroutine'[r].completed = coroutine[r].completed
        /\ coroutine'[r].failed = coroutine[r].failed
    BY <2>1, GotoWalk DEF Others
  <2>3. Typed(coroutine'[r], row'[r], logged'[r])
    BY <1>1, <2>1, <2>2 DEF Typed, Counts
  <2> QED BY <2>1, <2>2, <2>3, FrameType
<1>3. CASE LoadTopology(r)
  <2>1. /\ coroutine[r].pc = "load" /\ Others(r) /\ UNCHANGED << deletion, logged, row >>
        /\ coroutine'[r].pc = "derive" /\ coroutine'[r].left = QmOrder
        /\ coroutine'[r].qm = coroutine[r].qm /\ coroutine'[r].commands = coroutine[r].commands
        /\ coroutine'[r].completed = coroutine[r].completed
        /\ coroutine'[r].failed = coroutine[r].failed
    BY <1>1, <1>3 DEF LoadTopology, CoroutineFields, Others
  <2>2. Len(QmOrder) \in Nat
    BY TopologyAssumption
  <2>3. Typed(coroutine'[r], row'[r], logged'[r])
    BY <1>1, <2>1, <2>2 DEF Typed, Counts
  <2> QED BY <2>1, <2>3, FrameType
<1>4. CASE DerivePlan(r)
  <2>1. /\ Others(r) /\ UNCHANGED << deletion, logged, row >>
        /\ coroutine'[r].pc \in {"skip", "dry", "command", "close"}
        /\ coroutine'[r].left = coroutine[r].left
        /\ coroutine'[r].qm = coroutine[r].qm /\ coroutine'[r].commands = coroutine[r].commands
        /\ coroutine'[r].completed = coroutine[r].completed
        /\ coroutine'[r].failed = coroutine[r].failed
    BY <1>1, <1>4 DEF DerivePlan, CommandOrClose, CoroutineFields, Others
  <2>2. Typed(coroutine'[r], row'[r], logged'[r])
    BY <1>1, <2>1 DEF Typed, Counts
  <2> QED BY <2>1, <2>2, FrameType
<1>5. CASE RecordCommand(r)
  <2>1. /\ Others(r) /\ UNCHANGED << deletion, logged, row >>
        /\ coroutine'[r].pc \in {"command", "close"}
        /\ coroutine'[r].left = coroutine[r].left
        /\ coroutine'[r].qm = Plus(coroutine[r].qm, One(coroutine[r].class))
        /\ coroutine'[r].commands = coroutine[r].commands
        /\ coroutine'[r].completed = coroutine[r].completed
        /\ coroutine'[r].failed = coroutine[r].failed
    BY <1>5, RecordEffect DEF CommandOrClose, Others
  <2>2. coroutine'[r].qm \in Tallies
    BY <1>1, <2>1, TallyTypes DEF Typed
  <2>3. Typed(coroutine'[r], row'[r], logged'[r])
    BY <1>1, <2>1, <2>2 DEF Typed, Counts
  <2> QED BY <2>1, <2>3, FrameType
<1>6. CASE ApplyCommand(r) \/ CommandMiscarries(r)
  <2>1. /\ Others(r) /\ UNCHANGED << deletion, logged, row >>
        /\ coroutine'[r].pc = "audit"
        /\ coroutine'[r].left = coroutine[r].left
        /\ coroutine'[r].qm = coroutine[r].qm /\ coroutine'[r].commands = coroutine[r].commands
        /\ coroutine'[r].completed = coroutine[r].completed
        /\ coroutine'[r].failed = coroutine[r].failed
    BY <1>6, CommandEffect DEF Others
  <2>2. Typed(coroutine'[r], row'[r], logged'[r])
    BY <1>1, <2>1 DEF Typed, Counts
  <2> QED BY <2>1, <2>2, FrameType
<1> QED BY <1>2, <1>3, <1>4, <1>5, <1>6

LEMMA AdvanceType ==
  ASSUME RunInv, WalkInv, TypeInv, NEW r \in Run,
         SkipQm(r) \/ DryRun(r) \/ CloseQm(r) \/ LogException(r)
  PROVE  TypeInv'
<1> DEFINE old == coroutine[r]
           new == coroutine'[r]
<1>1. /\ Typed(old, row[r], logged[r])
      /\ DOMAIN row = Run /\ DOMAIN row[r] = RowFields
      /\ DOMAIN coroutine = Run /\ DOMAIN old = CoroutineFields
  BY HereType
<1>2. /\ Others(r) /\ UNCHANGED << deletion, logged >>
      /\ old.pc \in {"skip", "dry", "close", "handler"} /\ new.pc \in {"final", "derive"}
      /\ new.left = Tail(old.left) /\ new.qm = NoTally /\ row'[r].state = row[r].state
  BY AdvanceEffect DEF Others
<1>3. Walk(old, row[r], plans)
  BY HereWalk
<1>4. Len(Tail(old.left)) = Len(old.left) - 1 /\ Len(old.left) \in Nat
  <2>1. old.left \in Seq(Qm) /\ old.left # << >>
    BY <1>2, <1>3 DEF Walk, InLoop, Sending
  <2> QED BY <2>1
<1>5. Len(QmOrder) \in Nat
  BY TopologyAssumption
<1>6. ASSUME NEW outcome \in Tallies, NextQm(r, outcome)
      PROVE  /\ new.commands \in Tallies
             /\ new.completed = old.completed + (IF outcome.FAILED = 0 THEN 1 ELSE 0)
             /\ new.failed = old.failed + (IF outcome.FAILED = 0 THEN 0 ELSE 1)
  <2>1. new.commands = Plus(old.commands, outcome)
    BY <1>1, <1>6 DEF NextQm, CoroutineFields
  <2> QED BY <1>1, <1>6, <2>1, TallyTypes DEF NextQm, CoroutineFields, Typed
<1>7. \/ old.pc \in {"skip", "dry"} => Len(old.plan) \in Nat
  <2> SUFFICES ASSUME old.pc \in {"skip", "dry"} PROVE Len(old.plan) \in Nat
    OBVIOUS
  <2> DEFINE full == plans[row[r].direction][Head(old.left)]
             S == {full[i] : i \in 1 .. Len(full)}
  <2>1. old.plan \in Seq(S)
    BY <1>3 DEF Walk, Rest
  <2> HIDE DEF S
  <2> QED BY <2>1
\* One more queue manager is counted.
<1>8. ASSUME new.commands \in Tallies, row'[r].commands \in Tallies,
             \/ new.completed = old.completed + 1 /\ new.failed = old.failed
             \/ new.completed = old.completed /\ new.failed = old.failed + 1,
             \/ /\ row'[r].completed = row[r].completed
                /\ row'[r].failed = row[r].failed
             \/ /\ row'[r].completed = row[r].completed + 1
                /\ row'[r].failed = row[r].failed
             \/ /\ row'[r].completed = row[r].completed
                /\ row'[r].failed = row[r].failed + 1
      PROVE  TypeInv'
  <2>1. Counts(old, row[r])
    BY <1>1 DEF Typed
  <2>2. Counts(new, row'[r])
    <3> DEFINE n == Len(QmOrder)
               m == Len(old.left)
    <3> DEFINE c0 == old.completed
               f0 == old.failed
               c1 == new.completed
               f1 == new.failed
               d0 == row[r].completed
               e0 == row[r].failed
               d1 == row'[r].completed
               e1 == row'[r].failed
    <3>1. /\ n \in Nat /\ m \in Nat /\ Len(new.left) = m - 1
          /\ c0 \in Nat /\ f0 \in Nat /\ d0 \in Nat /\ e0 \in Nat
          /\ d0 + e0 <= c0 + f0 /\ c0 + f0 + m <= n
      BY <1>2, <1>4, <1>5, <2>1 DEF Counts
    <3>2. /\ (c1 = c0 + 1 /\ f1 = f0) \/ (c1 = c0 /\ f1 = f0 + 1)
          /\ \/ d1 = d0 /\ e1 = e0
             \/ d1 = d0 + 1 /\ e1 = e0
             \/ d1 = d0 /\ e1 = e0 + 1
      BY <1>8
    <3>3. new.pc \notin {"none", "pending", "load"}
      BY <1>2
    <3> HIDE DEF n, m, c0, f0, c1, f1, d0, e0, d1, e1
    <3>4. c1 \in Nat /\ f1 \in Nat /\ c1 + f1 = c0 + f0 + 1
      BY <3>1, <3>2
    <3>5. d1 \in Nat /\ e1 \in Nat /\ d1 + e1 <= d0 + e0 + 1
      BY <3>1, <3>2
    <3>6. c1 + f1 + (m - 1) <= n /\ d1 + e1 <= c1 + f1
      BY <3>1, <3>4, <3>5
    <3> QED BY <3>1, <3>3, <3>4, <3>5, <3>6 DEF Counts, n, c1, f1, d1, e1
  <2>3. Typed(new, row'[r], logged'[r])
    BY <1>1, <1>2, <1>8, <2>2, TallyTypes DEF Typed
  <2> QED BY <1>2, <2>3, FrameType
<1>9. CASE SkipQm(r) \/ DryRun(r)
  <2>1. PICK outcome \in Tallies : NextQm(r, outcome)
    BY <1>7, <1>9, TallyTypes DEF SkipQm, DryRun
  <2>2. UNCHANGED row
    BY <1>9 DEF SkipQm, DryRun
  <2>3. old.completed \in Nat /\ old.failed \in Nat /\ row[r].commands \in Tallies
    BY <1>1 DEF Typed, Counts
  <2> QED BY <1>6, <1>8, <2>1, <2>2, <2>3
<1>10. CASE CloseQm(r)
  <2>1. NextQm(r, old.qm) /\ old.qm \in Tallies
    BY <1>1, <1>10 DEF CloseQm, Typed
  <2>2. /\ row'[r].commands = Plus(row[r].commands, old.qm)
        /\ row'[r].completed = row[r].completed + (IF old.qm.FAILED = 0 THEN 1 ELSE 0)
        /\ row'[r].failed = row[r].failed + (IF old.qm.FAILED = 0 THEN 0 ELSE 1)
    BY <1>1, <1>10 DEF CloseQm, RowFields
  <2>3. row'[r].commands \in Tallies
    BY <1>1, <2>1, <2>2, TallyTypes DEF Typed
  <2>4. /\ old.completed \in Nat /\ old.failed \in Nat
        /\ row[r].completed \in Nat /\ row[r].failed \in Nat
    BY <1>1 DEF Typed, Counts
  <2> QED BY <1>6, <1>8, <2>1, <2>2, <2>3, <2>4
<1>11. CASE LogException(r)
  <2>1. /\ new.commands = old.commands /\ new.completed = old.completed
        /\ new.failed = old.failed + 1 /\ UNCHANGED row
    BY <1>1, <1>11 DEF LogException, CoroutineFields
  <2> QED BY <1>1, <1>8, <2>1 DEF Typed
<1> QED BY <1>9, <1>10, <1>11

LEMMA FinalizeRunType ==
  ASSUME RunInv, WalkInv, TypeInv, NEW r \in Run, FinalizeRun(r)
  PROVE  TypeInv'
<1> DEFINE co == coroutine[r]
<1>1. /\ Typed(co, row[r], logged[r])
      /\ DOMAIN row = Run /\ DOMAIN row[r] = RowFields
  BY HereType
<1>2. /\ Goto(r, "done") /\ UNCHANGED << deletion, logged >>
      /\ \A s \in Run \ {r} : row'[s] = row[s]
      /\ row'[r].completed = co.completed /\ row'[r].failed = co.failed
      /\ row'[r].commands = co.commands
      /\ row'[r].state = Verdict(co.completed, co.failed, co.commands)
  BY <1>1 DEF FinalizeRun, RowFields
<1>3. row'[r].state \in Finished
  BY <1>2 DEF Verdict, Finished
<1>4. /\ Others(r) /\ coroutine'[r].pc = "done" /\ coroutine'[r].left = co.left
      /\ coroutine'[r].qm = co.qm /\ coroutine'[r].commands = co.commands
      /\ coroutine'[r].completed = co.completed /\ coroutine'[r].failed = co.failed
  BY <1>2, GotoWalk DEF Others
<1>5. Typed(coroutine'[r], row'[r], logged'[r])
  BY <1>1, <1>2, <1>3, <1>4 DEF Typed, Counts
<1> QED BY <1>2, <1>4, <1>5, FrameType

LEMMA RunStepType ==
  ASSUME RunInv, WalkInv, TypeInv, NEW r \in Run, RunStep(r)
  PROVE  TypeInv'
<1>1. CASE TopologyDisappeared(r) \/ WriteFindsNoRow(r) \/ WriteIsLocked(r)
  <2>1. \E pc \in {"handler", "dead"} : Goto(r, pc)
    BY <1>1 DEF TopologyDisappeared, WriteFindsNoRow, WriteIsLocked, AfterRaise
  <2>2. UNCHANGED << deletion, row, logged >>
    BY <1>1 DEF TopologyDisappeared, WriteFindsNoRow, WriteIsLocked
  <2>3. logged[r] \in Tallies
    BY HereType DEF Typed
  <2> QED BY <2>1, <2>2, <2>3, GotoType
<1>2. CASE WriteCommandAudit(r)
  <2>1. Typed(coroutine[r], row[r], logged[r]) /\ DOMAIN logged = Run
        /\ coroutine[r].class \in Classes
    BY HereType
  <2>2. /\ Goto(r, "event") /\ UNCHANGED << deletion, row >>
        /\ \A s \in Run \ {r} : logged'[s] = logged[s]
        /\ logged'[r] = Plus(logged[r], One(coroutine[r].class))
    BY <1>2, <2>1 DEF WriteCommandAudit
  <2>3. logged'[r] \in Tallies
    BY <2>1, <2>2, TallyTypes DEF Typed
  <2> QED BY <2>2, <2>3, GotoType
<1> QED BY <1>1, <1>2, MovesType, AdvanceType, FinalizeRunType DEF RunStep, Step

LEMMA NextTypeInv == RunInv /\ WalkInv /\ TypeInv /\ [Next]_vars => TypeInv'
<1> SUFFICES ASSUME RunInv, WalkInv, TypeInv, [Next]_vars PROVE TypeInv'
  OBVIOUS
<1>1. CASE (\E lost \in SUBSET Qm : LosePods(lost)) \/ GainPods
  BY <1>1 DEF LosePods, GainPods, TypeInv
<1>2. CASE DeleteTopology
  <2>1. deletion' = "done" /\ UNCHANGED << coroutine, logged >>
    BY <1>2 DEF DeleteTopology
  <2>2. ASSUME NEW r \in Run PROVE Typed(coroutine'[r], row'[r], logged'[r])
    <3>1. \/ row'[r] = row[r]
          \/ /\ row'[r].state = "gone" /\ row'[r].completed = row[r].completed
             /\ row'[r].failed = row[r].failed /\ row'[r].commands = row[r].commands
      BY <1>2, HereType DEF DeleteTopology, RowFields
    <3> QED BY <2>1, <3>1, HereType DEF Typed, Counts
  <2> QED BY <2>1, <2>2 DEF TypeInv
<1>3. CASE Crash
  <2>1. UNCHANGED << row, logged >> /\ deletion' \in {deletion, "none"}
    BY <1>3 DEF Crash
  <2>2. ASSUME NEW r \in Run PROVE Typed(coroutine'[r], row'[r], logged'[r])
    <3>1. \/ coroutine'[r] = coroutine[r]
          \/ coroutine'[r] = [coroutine[r] EXCEPT !.pc = "killed"]
      BY <1>3 DEF Crash
    <3>2. CASE coroutine'[r] = coroutine[r]
      BY <2>1, <3>2, HereType
    <3>3. CASE coroutine'[r] = [coroutine[r] EXCEPT !.pc = "killed"]
      <4>1. /\ coroutine'[r].pc = "killed" /\ coroutine'[r].left = coroutine[r].left
            /\ coroutine'[r].qm = coroutine[r].qm
            /\ coroutine'[r].commands = coroutine[r].commands
            /\ coroutine'[r].completed = coroutine[r].completed
            /\ coroutine'[r].failed = coroutine[r].failed
        BY <3>3, HereType DEF CoroutineFields
      <4> QED BY <2>1, <4>1, HereType DEF Typed, Counts
    <3> QED BY <3>1, <3>2, <3>3
  <2> QED BY <2>1, <2>2 DEF TypeInv
<1>4. CASE CheckDelete \/ UNCHANGED vars
  BY <1>4 DEF CheckDelete, vars, TypeInv
<1> QED BY <1>1, <1>2, <1>3, <1>4, NextCases, RunStepType, StartRunType

\* The names of pods.
PodNames == pod \in [Qm -> Nat] /\ env.made \in Nat

LEMMA NextPodNames == RunInv /\ WalkInv /\ PodNames /\ [Next]_vars => PodNames'
<1> SUFFICES ASSUME RunInv, WalkInv, PodNames, [Next]_vars PROVE PodNames'
  OBVIOUS
<1>1. DOMAIN env = EnvFields
  BY DEF RunInv, Domains
<1>2. ASSUME NEW r \in Run, RunStep(r) PROVE PodNames'
  <2>1. UNCHANGED pod
    BY <1>2, RunStepEffect
  <2>2. CASE CommandMiscarries(r) \/ WriteIsLocked(r)
    BY <2>1, <2>2, TroubleEffect DEF CommandMiscarries, WriteIsLocked, PodNames
  <2>3. CASE ApplyCommand(r)
    BY <1>1, <2>1, <2>3 DEF ApplyCommand, PodNames, EnvFields
  <2>4. CASE ~(CommandMiscarries(r) \/ WriteIsLocked(r) \/ ApplyCommand(r))
    <3>1. UNCHANGED env
      BY <1>2, <2>4 DEF RunStep, Step, MoveToRunning, LoadTopology, TopologyDisappeared, DerivePlan,
                        SkipQm, DryRun, WriteCommandAudit, RecordCommand, CloseQm, LogException,
                        FinalizeRun, WriteFindsNoRow
    <3> QED BY <2>1, <3>1 DEF PodNames
  <2> QED BY <2>2, <2>3, <2>4
<1>3. ASSUME NEW r \in Run, NEW direction, NEW dry, StartRun(r, direction, dry) PROVE PodNames'
  BY <1>1, <1>3, TroubleEffect DEF StartRun, PodNames, EnvFields
<1>4. CASE \E lost \in SUBSET Qm : LosePods(lost)
  <2>1. env'.made = env.made
    BY <1>4, TroubleEffect DEF LosePods
  <2>2. pod' \in [Qm -> Nat]
    BY <1>4 DEF LosePods, PodNames, NoPod
  <2> QED BY <2>1, <2>2 DEF PodNames
<1>5. CASE GainPods
  BY <1>1, <1>5 DEF GainPods, PodNames, EnvFields
<1>6. CASE DeleteTopology
  BY <1>1, <1>6 DEF DeleteTopology, PodNames, EnvFields
<1>7. CASE Crash
  BY <1>7, TroubleEffect DEF Crash, PodNames
<1>8. CASE CheckDelete \/ UNCHANGED vars
  BY <1>8 DEF CheckDelete, vars, PodNames
<1> QED BY <1>2, <1>3, <1>4, <1>5, <1>6, <1>7, <1>8, NextCases

\* The variables stay in their ranges: a row's counters never exceed the number
\* of queue managers, and a coroutine that ended normally has stored a verdict.
THEOREM TypesHold == Spec => []TypeOK
<1>1. Init => TypeInv
  BY InitTypeInv
<1>2. RunInv /\ WalkInv /\ TypeInv /\ [Next]_vars => TypeInv'
  BY NextTypeInv
<1>3. WalkInv /\ TypeInv /\ PodNames => TypeOK
  <2> SUFFICES ASSUME WalkInv, TypeInv, PodNames PROVE TypeOK
    OBVIOUS
  <2>1. deletion \in {"none", "checked", "done"} /\ pod \in [Qm -> Nat]
    BY DEF TypeInv, PodNames
  <2>2. ASSUME NEW r \in Run
        PROVE  /\ row[r].completed + row[r].failed \in 0 .. Len(QmOrder)
               /\ row[r].state \in {"none", "PENDING", "RUNNING", "gone"} \cup Finished
               /\ {row[r].commands, coroutine[r].commands, coroutine[r].qm, logged[r]}
                    \subseteq Tallies
               /\ coroutine[r].pc = "done" => row[r].state \in Finished \cup {"gone"}
    <3>1. Typed(coroutine[r], row[r], logged[r])
      BY DEF TypeInv
    <3>2. Len(coroutine[r].left) \in Nat /\ Len(QmOrder) \in Nat
      <4>1. coroutine[r].left \in Seq(Qm)
        BY HereWalk DEF Walk
      <4> QED BY <4>1, TopologyAssumption
    <3>3. row[r].completed + row[r].failed \in 0 .. Len(QmOrder)
      <4> DEFINE n == Len(QmOrder)
                 m == Len(coroutine[r].left)
                 c == coroutine[r].completed + coroutine[r].failed
                 d == row[r].completed + row[r].failed
      <4>1. n \in Nat /\ m \in Nat /\ c \in Nat /\ d \in Nat /\ d <= c /\ c + m <= n
        BY <3>1, <3>2 DEF Typed, Counts
      <4> HIDE DEF n, m, c, d
      <4>2. d \in 0 .. n
        BY <4>1
      <4> QED BY <4>2 DEF n, d
    <3> QED BY <3>1, <3>3 DEF Typed
  <2> QED BY <2>1, <2>2 DEF TypeOK
<1>4. Init => PodNames
  BY DEF Init, PodNames
<1>5. RunInv /\ WalkInv /\ PodNames /\ [Next]_vars => PodNames'
  BY NextPodNames
<1> QED BY <1>1, <1>2, <1>3, <1>4, <1>5, RunInvariant, WalkInvariant, PTL DEF Spec
=============================================================================
