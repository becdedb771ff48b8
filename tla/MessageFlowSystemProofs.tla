------------------------- MODULE MessageFlowSystemProofs -------------------------
(***************************************************************************)
(* Proofs about MessageFlowSystem: it writes the audit log as AuditLog     *)
(* says, and so has what AuditLogProofs proves; and a drain ends as its    *)
(* history says.  For any tests, other writers, payloads and windows.      *)
(***************************************************************************)
EXTENDS MessageFlowSystem, AuditLogProofs

-----------------------------------------------------------------------------
(* The system implements AuditLog.  A request records whether its step was *)
(* a success, and that is all the log asks of it.                          *)

RequestFields == {"pc", "flow", "stage", "ok", "steps", "seen", "lingers"}

RequestInv ==
  /\ DOMAIN request = Tests
  /\ \A t \in Tests : DOMAIN request[t] = RequestFields /\ request[t].ok \in BOOLEAN

LEMMA InitRequestInv == Init => RequestInv
<1> SUFFICES ASSUME Init PROVE RequestInv
  OBVIOUS
<1>1. DOMAIN NoRequest = RequestFields /\ NoRequest.ok \in BOOLEAN
  BY DEF NoRequest, RequestFields
<1>2. DOMAIN request = Tests /\ \A t \in Tests : request[t] = NoRequest
  BY DEF Init
<1> QED BY <1>1, <1>2 DEF RequestInv

LEMMA StepRequestInv ==
  ASSUME RequestInv, NEW t \in Tests, Step(t)
  PROVE  RequestInv'
<1>1. CASE AmqsPut(t)
  <2>1. CanPut(t) \in BOOLEAN
    BY DEF CanPut
  <2> QED BY <1>1, <2>1 DEF AmqsPut, Finish, Result, RequestInv, RequestFields
<1>2. CASE StampStep(t) \/ RecordStepFails(t) \/ CommitSteps(t) \/ Answer(t)
  BY <1>2 DEF StampStep, RecordStepFails, CommitSteps, Answer, Goto, RequestInv, RequestFields
<1>3. CASE RecordStep(t)
  BY <1>3 DEF RecordStep, After, RequestInv, RequestFields
<1>4. CASE PollSees(t) \/ PollGivesUp(t) \/ AmqsGetEnds(t)
  BY <1>4 DEF PollSees, PollGivesUp, AmqsGetEnds, Finish, Result, RequestInv, RequestFields
<1>5. CASE AmqsGet(t)
  BY <1>5 DEF AmqsGet, RequestInv, RequestFields
<1> QED BY <1>1, <1>2, <1>3, <1>4, <1>5 DEF Step

LEMMA NextRequestInv == RequestInv /\ [Next]_vars => RequestInv'
<1> SUFFICES ASSUME RequestInv, [Next]_vars PROVE RequestInv'
  OBVIOUS
<1>1. ASSUME NEW t \in Tests, NEW apps \in Apps, Lookup(t, apps) PROVE RequestInv'
  BY <1>1 DEF Lookup, RequestInv, RequestFields
<1>2. ASSUME NEW t \in Tests, AmqsPutMiscarries(t) \/ AmqsGetCut(t) \/ AmqsGetHangs(t)
      PROVE  RequestInv'
  BY <1>2 DEF AmqsPutMiscarries, AmqsGetCut, AmqsGetHangs, Finish, Result, RequestInv, RequestFields
<1>3. ASSUME NEW t \in Tests, Retry(t) PROVE RequestInv'
  BY <1>3 DEF Retry, NoRequest, RequestInv, RequestFields
<1>4. CASE Crash
  BY <1>4 DEF Crash, RequestInv, RequestFields
<1>5. ASSUME UNCHANGED request PROVE RequestInv'
  BY <1>5 DEF RequestInv
<1>6. ASSUME NEW t \in Tests, Swallow(t) PROVE UNCHANGED request
  BY <1>6 DEF Swallow
<1>7. ASSUME NEW w \in Writers, OtherTicks(w) \/ OtherWrites(w) PROVE UNCHANGED request
  BY <1>7 DEF OtherTicks, OtherWrites
<1>8. ASSUME Transmit \/ ChannelStops \/ ChannelStarts \/ FetchPage \/ UNCHANGED vars
      PROVE  UNCHANGED request
  BY <1>8 DEF Transmit, ChannelStops, ChannelStarts, FetchPage, vars
<1> QED BY StepRequestInv, <1>1, <1>2, <1>3, <1>4, <1>5, <1>6, <1>7, <1>8 DEF Next

\* Each step of a request is one of AuditLog's, or leaves the log alone.
LEMMA StepIsAudit ==
  ASSUME RequestInv, NEW t \in Tests, Step(t)
  PROVE  AuditNext \/ UNCHANGED auditVars
<1>1. t \in Sessions
  BY TestAssumption
<1>2. CASE \/ AmqsPut(t) \/ PollSees(t) \/ PollGivesUp(t) \/ AmqsGet(t) \/ AmqsGetEnds(t)
           \/ Answer(t)
  BY <1>2 DEF AmqsPut, PollSees, PollGivesUp, AmqsGet, AmqsGetEnds, Answer
<1>3. CASE StampStep(t)
  BY <1>1, <1>3 DEF StampStep, AuditNext
<1>4. CASE RecordStep(t)
  <2>1. Flush(t, request[t].ok) /\ request[t].ok \in BOOLEAN
    BY <1>4 DEF RecordStep, RequestInv
  <2> QED BY <1>1, <2>1 DEF AuditNext
<1>5. CASE RecordStepFails(t) \/ CommitSteps(t)
  BY <1>1, <1>5 DEF RecordStepFails, CommitSteps, AuditNext
<1> QED BY <1>2, <1>3, <1>4, <1>5 DEF Step

LEMMA NextIsAudit ==
  ASSUME RequestInv, [Next]_vars
  PROVE  [AuditNext]_auditVars
<1>1. ASSUME NEW t \in Tests, NEW apps \in Apps, Lookup(t, apps) PROVE UNCHANGED auditVars
  BY <1>1 DEF Lookup
<1>2. ASSUME NEW t \in Tests,
             \/ AmqsPutMiscarries(t) \/ AmqsGetCut(t) \/ AmqsGetHangs(t)
             \/ Swallow(t) \/ Retry(t)
      PROVE  UNCHANGED auditVars
  BY <1>2 DEF AmqsPutMiscarries, AmqsGetCut, AmqsGetHangs, Swallow, Retry
<1>3. ASSUME NEW w \in Writers, OtherTicks(w) \/ OtherWrites(w) PROVE AuditNext
  <2>1. w \in Sessions /\ TRUE \in BOOLEAN
    BY DEF Writers
  <2>2. Tick(w) \/ Flush(w, TRUE) \/ FlushFails(w) \/ Commit(w) \/ Rollback(w)
    BY <1>3 DEF OtherTicks, OtherWrites
  <2> QED BY <2>1, <2>2 DEF AuditNext
<1>4. CASE Transmit \/ ChannelStops \/ ChannelStarts
  BY <1>4 DEF Transmit, ChannelStops, ChannelStarts
<1>5. CASE Crash \/ FetchPage
  BY <1>5 DEF Crash, FetchPage, AuditNext
<1>6. CASE UNCHANGED vars
  BY <1>6 DEF vars
<1> QED BY StepIsAudit, <1>1, <1>2, <1>3, <1>4, <1>5, <1>6 DEF Next

LEMMA SystemStep ==
  [SystemNext]_systemVars => [Next]_vars
BY DEF SystemNext, systemVars

\* The refinement: tests, other writers and crashes change the log as
\* AuditLog's steps do.
THEOREM SystemWritesAuditLog == SystemSpec => AuditSpec
<1>1. SystemInit => AuditInit /\ RequestInv
  BY InitRequestInv DEF SystemInit, Init
<1>2. RequestInv /\ [SystemNext]_systemVars => RequestInv' /\ [AuditNext]_auditVars
  BY SystemStep, NextRequestInv, NextIsAudit
<1> QED BY <1>1, <1>2, PTL DEF SystemSpec, AuditSpec

\* ix_audit_lamport is not violated, whatever requests race, fail or die.
THEOREM SystemStampsUnique == SystemSpec => []LamportUnique
BY SystemWritesAuditLog, StampsUnique, PTL

\* The stamps are "causal truth" for the requests too.
THEOREM SystemStampsAreCausal == SystemSpec => CausalOrder
BY SystemWritesAuditLog, StampsAreCausal, PTL

\* A client that pages through the log while tests write to it gets it whole
\* (api/audit.py, list_audit).
THEOREM SystemWalksAreComplete == SystemSpec => []WalkComplete
BY SystemWritesAuditLog, WalksAreComplete, PTL

-----------------------------------------------------------------------------
(* The wait: consecutive_zero counts the zeros at the end of its history,  *)
(* and while it polls there was no full window.                            *)

CountsZeros ==
  LET n == Len(drain.history)
  IN  /\ drain.zeros \in 0 .. n
      /\ \A j \in n - drain.zeros + 1 .. n : drain.history[j] = "zero"
      /\ drain.zeros < n => drain.history[n - drain.zeros] # "zero"

DrainInv ==
  /\ drain \in [state : {"polling", "drained", "failed", "timeout"},
                zeros : Nat, history : Seq(Probe)]
  /\ CountsZeros
  /\ drain.state = "polling" => drain.zeros < ZeroWindow
  /\ DrainFollowsHistory

LEMMA InitDrainInv == DrainInit => DrainInv
BY WindowAssumption
   DEF DrainInit, DrainInv, CountsZeros, DrainFollowsHistory, ZeroWindowAt, Probe

LEMMA PollDrainInv ==
  ASSUME DrainInv, NEW probe \in Probe, Poll(probe)
  PROVE  DrainInv'
<1>1. PICK n \in Nat : n = Len(drain.history)
  BY DEF DrainInv
<1>2. /\ drain.history \in Seq(Probe) /\ drain.zeros \in 0 .. n
      /\ drain.state = "polling" /\ drain.zeros < ZeroWindow
  BY <1>1 DEF Poll, DrainInv, CountsZeros
<1>3. /\ drain'.history = Append(drain.history, probe)
      /\ drain'.history \in Seq(Probe) /\ Len(drain'.history) = n + 1
      /\ \A i \in 1 .. n : drain'.history[i] = drain.history[i]
      /\ drain'.history[n + 1] = probe
      /\ drain'.zeros = ConsecutiveZeros(probe)
      /\ drain'.state = Outcome(probe)
  BY <1>1, <1>2 DEF Poll
<1>4. drain' \in [state : {"polling", "drained", "failed", "timeout"},
                  zeros : Nat, history : Seq(Probe)]
  BY <1>2, <1>3 DEF Poll, Outcome, ConsecutiveZeros, Probe
<1> DEFINE Counts(k) ==
      /\ k \in 0 .. n + 1
      /\ \A j \in (n + 1) - k + 1 .. n + 1 : drain'.history[j] = "zero"
      /\ k < n + 1 => drain'.history[(n + 1) - k] # "zero"
<1> HIDE DEF Counts
<1>5. Len(drain'.history) = n + 1
  BY <1>3
<1>6. CountsZeros' <=> Counts(drain'.zeros)
  BY <1>5 DEF CountsZeros, Counts
<1>7. Counts(drain'.zeros)
  <2>1. CASE probe = "zero"
    <3>1. drain'.zeros = drain.zeros + 1
      BY <1>3, <2>1 DEF ConsecutiveZeros
    <3>2. ASSUME NEW j \in n - drain.zeros + 1 .. n + 1 PROVE drain'.history[j] = "zero"
      <4>1. CASE j = n + 1
        BY <1>3, <2>1, <4>1
      <4>2. CASE j # n + 1
        <5>1. j \in n - drain.zeros + 1 .. n /\ j \in 1 .. n
          BY <1>2, <4>2
        <5>2. drain.history[j] = "zero"
          BY <1>1, <5>1 DEF DrainInv, CountsZeros
        <5> QED BY <1>3, <5>1, <5>2
      <4> QED BY <4>1, <4>2
    <3>3. drain.zeros < n => drain'.history[n - drain.zeros] # "zero"
      BY <1>1, <1>2, <1>3 DEF DrainInv, CountsZeros
    <3>4. (n + 1) - (drain.zeros + 1) = n - drain.zeros
      BY <1>2
    <3>5. Counts(drain.zeros + 1)
      BY <1>2, <3>2, <3>3, <3>4 DEF Counts
    <3> QED BY <3>1, <3>5
  <2>2. CASE probe # "zero"
    <3>1. drain'.zeros = 0
      BY <1>3, <2>2 DEF ConsecutiveZeros
    <3>2. Counts(0)
      BY <1>3, <2>2 DEF Counts
    <3> QED BY <3>1, <3>2
  <2> QED BY <2>1, <2>2
<1>8. drain'.state = "polling" => drain'.zeros < ZeroWindow
  BY <1>2, <1>3, WindowAssumption DEF Outcome, ConsecutiveZeros
\* Whether there is a full window at the end is whether there are that many zeros.
<1>9. ZeroWindowAt(n + 1)' <=> drain'.zeros >= ZeroWindow
  <2>1. CASE drain'.zeros >= ZeroWindow
    <3>1. /\ drain'.zeros \in 0 .. n + 1
          /\ \A j \in n + 1 - drain'.zeros + 1 .. n + 1 : drain'.history[j] = "zero"
      BY <1>7 DEF Counts
    <3>2. ZeroWindow \in Nat /\ n + 1 \in Nat
      BY WindowAssumption
    <3>3. \A j \in n + 1 - ZeroWindow + 1 .. n + 1 : drain'.history[j] = "zero"
      BY <2>1, <3>1, <3>2
    <3> QED BY <2>1, <3>1, <3>2, <3>3 DEF ZeroWindowAt
  <2>2. CASE ~(drain'.zeros >= ZeroWindow)
    <3>1. /\ drain'.zeros \in 0 .. n + 1
          /\ drain'.zeros < n + 1 => drain'.history[n + 1 - drain'.zeros] # "zero"
      BY <1>7 DEF Counts
    <3>2. n + 1 >= ZeroWindow =>
            n + 1 - drain'.zeros \in n + 1 - ZeroWindow + 1 .. n + 1
      BY <1>2, <2>2, <3>1, WindowAssumption
    <3> QED BY <1>2, <2>2, <3>1, <3>2, WindowAssumption DEF ZeroWindowAt
  <2> QED BY <2>1, <2>2
<1>10. \A i \in 1 .. n : ~ZeroWindowAt(i)'
  <2> SUFFICES ASSUME NEW i \in 1 .. n, ZeroWindowAt(i)' PROVE FALSE
    OBVIOUS
  <2>1. \A j \in i - ZeroWindow + 1 .. i : drain.history[j] = "zero"
    BY <1>2, <1>3, WindowAssumption DEF ZeroWindowAt
  <2>2. ZeroWindowAt(i)
    BY <2>1 DEF ZeroWindowAt
  <2> QED BY <1>1, <1>2, <2>2 DEF DrainInv, DrainFollowsHistory
<1>11. DrainFollowsHistory'
  <2>1. drain'.state = "drained" => ZeroWindowAt(n + 1)' \/ probe = "queue_not_found"
    BY <1>3, <1>9 DEF Outcome, Probe
  <2>2. ZeroWindowAt(n + 1)' => drain'.state = "drained"
    <3>1. ZeroWindowAt(n + 1)' => probe = "zero"
      BY <1>3, <1>9, WindowAssumption DEF ConsecutiveZeros
    <3> QED BY <1>3, <1>9, <3>1 DEF Outcome
  <2>3. \A i \in 1 .. n + 1 : ZeroWindowAt(i)' => i = n + 1 /\ drain'.state = "drained"
    BY <1>10, <2>2
  <2> QED BY <1>3, <2>1, <2>3 DEF DrainFollowsHistory
<1> QED BY <1>4, <1>7, <1>8, <1>11, <1>6 DEF DrainInv

LEMMA TimeOutDrainInv == DrainInv /\ DrainTimesOut => DrainInv'
BY DEF DrainInv, CountsZeros, DrainFollowsHistory, ZeroWindowAt, DrainTimesOut

LEMMA NextDrainInv == DrainInv /\ [SystemNext]_systemVars => DrainInv'
<1> SUFFICES ASSUME DrainInv, [SystemNext]_systemVars PROVE DrainInv'
  OBVIOUS
<1>1. ASSUME NEW probe \in Readings, Poll(probe) PROVE DrainInv'
  <2>1. probe \in Probe
    BY DEF Readings, Probe
  <2> QED BY <1>1, <2>1, PollDrainInv
<1>2. CASE UNCHANGED drain
  BY <1>2 DEF DrainInv, CountsZeros, DrainFollowsHistory, ZeroWindowAt
<1> QED BY <1>1, <1>2, TimeOutDrainInv DEF SystemNext, systemVars

\* A wait says "drained" after a full window of zero readings or because the
\* queue is gone, and not otherwise, however the readings came
\* (migration/drain.py, wait_for_drain).
THEOREM DrainFollowsItsHistory == SystemSpec => []DrainFollowsHistory
<1>1. DrainInv => DrainFollowsHistory
  BY DEF DrainInv
<1>2. SystemInit => DrainInv
  BY InitDrainInv DEF SystemInit
<1> QED BY <1>1, <1>2, NextDrainInv, PTL DEF SystemSpec

-----------------------------------------------------------------------------
(* The life of one request: its steps are the three in their order, and a  *)
(* request at work has made all before the one it is at, successfully.     *)

Stages == {"put", "poll", "get"}
Number(stage) == IF stage = "put" THEN 1 ELSE IF stage = "poll" THEN 2 ELSE 3
StepRec == [stage : Stages, success : BOOLEAN, lamport : Nat]
AtWork == {"put", "tick", "flush", "poll", "get", "hung"}

InOrder(steps) ==
  \A i \in DOMAIN steps :
    /\ i \in 1 .. 3 /\ steps[i].stage = << "put", "poll", "get" >>[i]
    /\ i < Len(steps) => steps[i].success

Shape(r) ==
  /\ DOMAIN r = RequestFields
  /\ r.pc \in AtWork \cup {"idle", "refused", "commit", "reply", "answered", "failed", "lost"}
  /\ r.stage \in Stages /\ r.ok \in BOOLEAN /\ r.steps \in Seq(StepRec)
  /\ InOrder(r.steps)
  /\ r.pc = "idle" => r.stage = "put" /\ r.steps = << >>
  /\ r.pc \in Stages => r.stage = r.pc
  /\ r.pc \in AtWork =>
       /\ Len(r.steps) = Number(r.stage) - 1
       /\ \A i \in DOMAIN r.steps : r.steps[i].success
  /\ r.pc \in {"commit", "reply", "answered"} => Whole(r.steps)

Shaped == DOMAIN request = Tests /\ \A t \in Tests : Shape(request[t])

\* Where a request goes on its own: from a step into its entry, or astray.
Moves(from, to) ==
  \/ to = from
  \/ from = "idle" /\ to \in {"put", "refused"}
  \/ from \in Stages /\ to = "tick"
  \/ from = "get" /\ to = "hung"

LEMMA MoveShape ==
  ASSUME NEW r, NEW s, Shape(r), DOMAIN s = RequestFields, s.stage = r.stage,
         s.steps = r.steps, s.ok \in BOOLEAN,
         \/ Moves(r.pc, s.pc)
         \/ r.pc = "tick" /\ s.pc = "flush"
         \/ r.pc = "commit" /\ s.pc = "reply"
         \/ r.pc = "reply" /\ s.pc = "answered"
         \/ s.pc \in {"refused", "failed", "lost"}
  PROVE  Shape(s)
BY DEF Shape, Moves, Stages, AtWork, Number

LEMMA NoRequestShape ==
  ASSUME NEW b PROVE Shape(NoRequest) /\ Shape([NoRequest EXCEPT !.lingers = b])
BY DEF Shape, NoRequest, RequestFields, InOrder, Stages, AtWork, Number, StepRec

\* A step that goes on without a word to the log.
QuietStep(t) ==
  \/ \E apps \in Apps : Lookup(t, apps)
  \/ AmqsPut(t) \/ AmqsPutMiscarries(t) \/ PollSees(t) \/ PollGivesUp(t)
  \/ AmqsGet(t) \/ AmqsGetEnds(t) \/ AmqsGetCut(t) \/ AmqsGetHangs(t) \/ Swallow(t)

LEMMA QuietMove ==
  ASSUME Shaped, NEW t \in Tests, QuietStep(t)
  PROVE  /\ UNCHANGED auditVars
         /\ DOMAIN request' = Tests /\ \A u \in Tests \ {t} : request'[u] = request[u]
         /\ DOMAIN request'[t] = RequestFields
         /\ request'[t].stage = request[t].stage /\ request'[t].steps = request[t].steps
         /\ request'[t].ok \in BOOLEAN
         /\ Moves(request[t].pc, request'[t].pc)
<1> DEFINE r == request[t]
           s == request'[t]
           Rest == \A u \in Tests \ {t} : request'[u] = request[u]
<1>1. Shape(r) /\ DOMAIN request = Tests
  BY DEF Shaped
<1>2. CASE \E apps \in Apps : Lookup(t, apps)
  <2>1. PICK flow : \E pc \in {"refused", "put"} :
          request' = [request EXCEPT ![t].flow = flow, ![t].pc = pc]
    BY <1>2 DEF Lookup
  <2>2. PICK pc \in {"refused", "put"} :
          request' = [request EXCEPT ![t] = [r EXCEPT !.flow = flow, !.pc = pc]]
    BY <1>1, <2>1
  <2>3. r.pc = "idle" /\ UNCHANGED auditVars
    BY <1>2 DEF Lookup
  <2>4. Rest /\ DOMAIN request' = Tests /\ s = [r EXCEPT !.flow = flow, !.pc = pc]
    BY <1>1, <2>2
  <2>5. /\ DOMAIN s = RequestFields /\ s.stage = r.stage /\ s.steps = r.steps
        /\ s.ok \in BOOLEAN /\ s.pc = pc
    BY <1>1, <2>4 DEF Shape, RequestFields
  <2> QED BY <2>3, <2>4, <2>5 DEF Moves
<1>3. ASSUME NEW ok \in BOOLEAN, Finish(t, ok), r.pc \in Stages
      PROVE  /\ DOMAIN request' = Tests /\ Rest /\ DOMAIN s = RequestFields
             /\ s.stage = r.stage /\ s.steps = r.steps /\ s.ok \in BOOLEAN
             /\ Moves(r.pc, s.pc)
  BY <1>1, <1>3 DEF Finish, Result, Shape, Moves, RequestFields
<1>4. CASE AmqsPut(t) \/ AmqsPutMiscarries(t)
  <2>1. CanPut(t) \in BOOLEAN
    BY DEF CanPut
  <2> QED BY <1>3, <1>4, <2>1 DEF AmqsPut, AmqsPutMiscarries, Stages
<1>5. CASE PollSees(t) \/ PollGivesUp(t) \/ AmqsGetEnds(t)
  BY <1>3, <1>5 DEF PollSees, PollGivesUp, AmqsGetEnds, Stages
<1>6. CASE AmqsGet(t)
  BY <1>1, <1>6 DEF AmqsGet, Shape, Moves, RequestFields, Stages
<1>7. CASE AmqsGetCut(t) \/ AmqsGetHangs(t)
  <2>1. CASE AmqsGetCut(t)
    BY <1>1, <2>1 DEF AmqsGetCut, Result, Shape, Moves, RequestFields, Stages
  <2>2. CASE AmqsGetHangs(t)
    BY <1>1, <2>2 DEF AmqsGetHangs, Shape, Moves, RequestFields, Stages
  <2> QED BY <1>7, <2>1, <2>2
<1>8. CASE Swallow(t)
  BY <1>1, <1>8 DEF Swallow, Shape, Moves
<1> QED BY <1>2, <1>4, <1>5, <1>6, <1>7, <1>8 DEF QuietStep

\* A step whose entry is flushed: the next step, or the commit.
LEMMA AfterShape ==
  ASSUME NEW t \in Tests, Shape(request[t]), request[t].pc = "flush", ticket[t] \in Nat
  PROVE  /\ Shape(After(t))
         /\ After(t).pc \in AtWork \cup {"commit"} /\ After(t).pc # "flush"
         /\ After(t).steps = Append(request[t].steps,
              [stage |-> request[t].stage, success |-> request[t].ok, lamport |-> ticket[t]])
         /\ After(t).seen = request[t].seen
         /\ After(t).pc \in Stages \cup {"commit"}
<1> DEFINE r == request[t]
           step == [stage |-> r.stage, success |-> r.ok, lamport |-> ticket[t]]
           steps == Append(r.steps, step)
<1>1. step \in StepRec /\ r.steps \in Seq(StepRec)
  BY DEF Shape, StepRec
<1>2. PICK n \in Nat : n = Len(r.steps)
  BY <1>1
<1>3. /\ steps \in Seq(StepRec) /\ Len(steps) = n + 1 /\ DOMAIN steps = 1 .. n + 1
      /\ \A i \in 1 .. n : steps[i] = r.steps[i]
      /\ steps[n + 1] = step /\ DOMAIN r.steps = 1 .. n
  BY <1>1, <1>2
<1>4. /\ n + 1 = Number(r.stage) /\ r.stage \in Stages
      /\ \A i \in 1 .. n : r.steps[i].success
  BY <1>2, <1>3 DEF Shape, AtWork, Number, Stages
<1>5. InOrder(steps)
  <2> SUFFICES ASSUME NEW i \in 1 .. n + 1
               PROVE  /\ i \in 1 .. 3 /\ steps[i].stage = << "put", "poll", "get" >>[i]
                      /\ i < n + 1 => steps[i].success
    BY <1>3 DEF InOrder
  <2>1. n + 1 \in 1 .. 3 /\ step.stage = << "put", "poll", "get" >>[n + 1]
    BY <1>4 DEF Number, Stages
  <2>2. CASE i = n + 1
    BY <1>3, <2>1, <2>2
  <2>3. CASE i # n + 1
    <3>1. i \in 1 .. n
      BY <1>2, <2>3
    <3>2. r.steps[i].stage = << "put", "poll", "get" >>[i]
      BY <1>3, <3>1 DEF Shape, InOrder
    <3> QED BY <1>2, <1>3, <1>4, <2>1, <3>1, <3>2
  <2> QED BY <2>2, <2>3
<1> HIDE DEF steps, step
<1>6. CASE r.ok /\ r.stage # "get"
  <2>1. /\ After(t) = [r EXCEPT !.steps = steps, !.pc = NextStage[r.stage],
                                !.stage = NextStage[r.stage]]
        /\ NextStage[r.stage] \in Stages /\ Number(NextStage[r.stage]) = n + 2
    BY <1>4, <1>6 DEF After, steps, step, NextStage, Stages, Number
  <2>2. \A i \in 1 .. n + 1 : steps[i].success
    BY <1>3, <1>4, <1>6 DEF step
  <2>3. LET a == After(t) IN
          /\ DOMAIN a = RequestFields /\ a.pc = NextStage[r.stage] /\ a.stage = NextStage[r.stage]
          /\ a.ok = r.ok /\ a.steps = steps /\ a.seen = r.seen
    BY <2>1 DEF Shape, RequestFields
  <2>4. r.ok \in BOOLEAN
    BY DEF Shape
  <2>5. Shape(After(t))
    BY <1>2, <1>3, <1>5, <2>1, <2>2, <2>3, <2>4 DEF Shape, AtWork, Stages
  <2> QED BY <2>1, <2>3, <2>5 DEF steps, step, AtWork, Stages
<1>7. CASE ~(r.ok /\ r.stage # "get")
  <2>1. After(t) = [r EXCEPT !.steps = steps, !.pc = "commit"]
    BY <1>7 DEF After, steps, step
  <2>2. LET a == After(t) IN
          /\ DOMAIN a = RequestFields /\ a.pc = "commit" /\ a.stage = r.stage
          /\ a.ok = r.ok /\ a.steps = steps /\ a.seen = r.seen
    BY <2>1 DEF Shape, RequestFields
  <2>3. Whole(steps)
    BY <1>2, <1>3, <1>4, <1>7 DEF Whole, step, Number
  <2>4. Shape(After(t))
    BY <1>3, <1>5, <2>2, <2>3 DEF Shape, AtWork, Stages
  <2> QED BY <2>2, <2>4 DEF steps, step
<1> QED BY <1>6, <1>7

-----------------------------------------------------------------------------
(* What a request has written: the rows of its open transaction mirror its *)
(* steps, and from its commit on they stand in the log as one block.       *)

OwnRows(s) == \A i \in DOMAIN pending[s] : pending[s][i].by = s

Mirrors(t) ==
  /\ Len(pending[t]) = Len(request[t].steps)
  /\ \A i \in DOMAIN request[t].steps :
       /\ pending[t][i].lamport = request[t].steps[i].lamport
       /\ pending[t][i].success = request[t].steps[i].success

LoggedAt(t, k) ==
  /\ Own(t) = k + 1 .. k + Len(request[t].steps)
  /\ \A i \in DOMAIN request[t].steps :
       /\ log[k + i].lamport = request[t].steps[i].lamport
       /\ log[k + i].success = request[t].steps[i].success

Logged(t) == \E k \in 0 .. Len(log) : LoggedAt(t, k)

Unlogged(t) == \A i \in DOMAIN log : log[i].by # t

\* Before its commit a request has left nothing, after it everything.
Recorded(t) ==
  \/ Unlogged(t) /\ request[t].pc \notin {"reply", "answered"}
  \/ /\ Logged(t) /\ Whole(request[t].steps)
     /\ request[t].pc \in {"reply", "answered", "lost"}

Written(t) ==
  /\ ticket[t] # 0 <=> request[t].pc = "flush"
  /\ IF request[t].pc \in AtWork \cup {"commit"} THEN Mirrors(t) ELSE pending[t] = << >>
  /\ Recorded(t)

FlowInv ==
  /\ AuditInv /\ Shaped
  /\ \A s \in Sessions : OwnRows(s)
  /\ \A t \in Tests : Written(t)

\* Written looks at the log, the stamps, the open rows and the requests only.
LEMMA StandStill ==
  ASSUME NEW t, log' = log, ticket' = ticket, pending' = pending, request' = request,
         Written(t)
  PROVE  Written(t)'
<1>1. /\ Mirrors(t)' <=> Mirrors(t)
      /\ Unlogged(t)' <=> Unlogged(t)
      /\ Logged(t)' <=> Logged(t)
  BY DEF Mirrors, Unlogged, LoggedAt, Logged, Own
<1> QED BY <1>1 DEF Written, Recorded

LEMMA AppendFacts ==
  ASSUME NEW S, NEW s \in Seq(S), NEW e \in S, NEW n \in Nat, n = Len(s)
  PROVE  /\ DOMAIN s = 1 .. n /\ DOMAIN Append(s, e) = 1 .. n + 1 /\ Len(Append(s, e)) = n + 1
         /\ Append(s, e)[n + 1] = e /\ \A i \in 1 .. n : Append(s, e)[i] = s[i]
OBVIOUS

LEMMA ConcatFacts ==
  ASSUME NEW S, NEW s \in Seq(S), NEW u \in Seq(S), NEW k \in Nat, NEW n \in Nat,
         k = Len(s), n = Len(u)
  PROVE  /\ DOMAIN s = 1 .. k /\ DOMAIN u = 1 .. n
         /\ DOMAIN (s \o u) = 1 .. k + n /\ Len(s \o u) = k + n
         /\ \A i \in 1 .. k : (s \o u)[i] = s[i]
         /\ \A i \in 1 .. n : (s \o u)[k + i] = u[i]
OBVIOUS

\* What one session does to another's stamp and rows: nothing.
LEMMA OthersRows ==
  ASSUME AuditInv, NEW s \in Sessions,
         \/ Tick(s) \/ \E success \in BOOLEAN : Flush(s, success)
         \/ FlushFails(s) \/ Commit(s) \/ Rollback(s)
  PROVE  /\ \A u \in Sessions \ {s} : ticket'[u] = ticket[u] /\ pending'[u] = pending[u]
         /\ IF Commit(s) THEN log' = log \o pending[s] ELSE log' = log
<1>1. AuditTypeOK
  BY DEF AuditInv
<1>2. Commit(s) => log' = log \o pending[s]
  BY DEF Commit
<1>3. \/ Commit(s) \/ log' = log
  BY DEF Tick, Flush, FlushFails, Rollback
<1> QED BY <1>1, <1>2, <1>3 DEF Tick, Flush, FlushFails, Commit, Rollback, AuditTypeOK

LEMMA RowsStayOwn ==
  ASSUME AuditInv, \A s \in Sessions : OwnRows(s), [AuditNext]_auditVars
  PROVE  \A s \in Sessions : OwnRows(s)'
<1>1. ASSUME NEW s \in Sessions, NEW success \in BOOLEAN, Flush(s, success)
      PROVE  OwnRows(s)'
  <2>1. pending[s] \in Seq(Entry) /\ \A i \in DOMAIN pending[s] : pending[s][i].by = s
    BY RowTypes DEF AuditInv, OwnRows
  <2>2. pending'[s] = Append(pending[s],
          [lamport |-> ticket[s], by |-> s, success |-> success])
    BY <1>1 DEF Flush, AuditInv, AuditTypeOK
  <2> QED BY <2>1, <2>2 DEF OwnRows
<1>2. ASSUME NEW s \in Sessions, Tick(s) \/ FlushFails(s)
      PROVE  pending' = pending
  BY <1>2 DEF Tick, FlushFails
<1>3. ASSUME NEW s \in Sessions, Commit(s) \/ Rollback(s)
      PROVE  pending'[s] = << >>
  BY <1>3 DEF Commit, Rollback, AuditInv, AuditTypeOK
<1>4. ASSUME NEW s \in Sessions,
             \/ Tick(s) \/ \E success \in BOOLEAN : Flush(s, success)
             \/ FlushFails(s) \/ Commit(s) \/ Rollback(s)
      PROVE  \A u \in Sessions : OwnRows(u)'
  <2>1. \A u \in Sessions \ {s} : OwnRows(u)'
    BY <1>4, OthersRows DEF OwnRows
  <2>2. OwnRows(s)'
    BY <1>1, <1>2, <1>3, <1>4 DEF OwnRows
  <2> QED BY <2>1, <2>2
<1>5. CASE Restart
  BY <1>5 DEF Restart, OwnRows
<1>6. CASE ReadPage \/ UNCHANGED auditVars
  BY <1>6 DEF ReadPage, auditVars, OwnRows
<1> QED BY <1>4, <1>5, <1>6 DEF AuditNext

\* Rows of others that are committed leave a request's entries where they are.
LEMMA LogKept ==
  ASSUME NEW t, NEW rows \in Seq(Entry), log \in Seq(Entry), log' = log \o rows,
         \A i \in DOMAIN rows : rows[i].by # t, request'[t] = request[t],
         request[t].steps \in Seq(StepRec)
  PROVE  /\ Unlogged(t) => Unlogged(t)'
         /\ Logged(t) => Logged(t)'
<1>1. /\ DOMAIN log \subseteq DOMAIN log' /\ Len(log) \in Nat /\ Len(log') >= Len(log)
      /\ \A i \in DOMAIN log : log'[i] = log[i]
      /\ \A i \in DOMAIN log' \ DOMAIN log : log'[i].by # t
      /\ Len(log') \in Nat
  <2>1. \A i \in DOMAIN log' \ DOMAIN log :
          i - Len(log) \in DOMAIN rows /\ log'[i] = rows[i - Len(log)]
    OBVIOUS
  <2> QED BY <2>1
<1>2. {i \in DOMAIN log' : log'[i].by = t} = {i \in DOMAIN log : log[i].by = t}
  BY <1>1
<1>3. ASSUME NEW k \in 0 .. Len(log), LoggedAt(t, k)
      PROVE  LoggedAt(t, k)' /\ k \in 0 .. Len(log')
  <2>1. \A i \in DOMAIN request[t].steps : k + i \in k + 1 .. k + Len(request[t].steps)
    OBVIOUS
  <2>2. \A i \in DOMAIN request[t].steps : log'[k + i] = log[k + i]
    BY <1>1, <1>3, <2>1 DEF LoggedAt, Own
  <2>3. k \in 0 .. Len(log')
    BY <1>1
  <2>4. {i \in DOMAIN log' : log'[i].by = t} = k + 1 .. k + Len(request'[t].steps)
    BY <1>2, <1>3 DEF LoggedAt, Own
  <2>5. \A i \in DOMAIN request'[t].steps :
          /\ log'[k + i].lamport = request'[t].steps[i].lamport
          /\ log'[k + i].success = request'[t].steps[i].success
    BY <1>3, <2>2 DEF LoggedAt
  <2> QED BY <2>3, <2>4, <2>5 DEF LoggedAt, Own
<1> QED BY <1>1, <1>2, <1>3 DEF Unlogged, Logged

\* Another session's step does not touch what a request has written.
LEMMA Bystander ==
  ASSUME FlowInv, NEW s \in Sessions,
         \/ Tick(s) \/ \E success \in BOOLEAN : Flush(s, success)
         \/ FlushFails(s) \/ Commit(s) \/ Rollback(s),
         NEW u \in Tests, u # s, request'[u] = request[u]
  PROVE  Written(u)'
<1>1. u \in Sessions /\ ticket'[u] = ticket[u] /\ pending'[u] = pending[u]
  BY TestAssumption, OthersRows DEF FlowInv
<1>2. pending[s] \in Seq(Entry) /\ log \in Seq(Entry) /\ request[u].steps \in Seq(StepRec)
  BY RowTypes DEF FlowInv, AuditInv, AuditTypeOK, Shaped, Shape
<1>3. CASE Commit(s)
  <2>1. log' = log \o pending[s] /\ \A i \in DOMAIN pending[s] : pending[s][i].by # u
    BY <1>3, OthersRows DEF FlowInv, OwnRows
  <2>2. Recorded(u)'
    BY <1>2, <2>1, LogKept DEF FlowInv, Written, Recorded
  <2> QED BY <1>1, <2>2 DEF FlowInv, Written, Mirrors
<1>4. CASE ~Commit(s)
  <2>1. log' = log
    BY <1>4, OthersRows DEF FlowInv
  <2>2. Logged(u)' <=> Logged(u)
    BY <2>1 DEF Logged, LoggedAt, Own
  <2>3. Recorded(u)'
    BY <2>1, <2>2 DEF FlowInv, Written, Recorded, Unlogged
  <2> QED BY <1>1, <2>3 DEF FlowInv, Written, Mirrors
<1> QED BY <1>3, <1>4

\* A step that goes on without a word to the log leaves it mirrored.
LEMMA QuietWritten ==
  ASSUME FlowInv, NEW t \in Tests, UNCHANGED auditVars,
         request'[t].steps = request[t].steps, Moves(request[t].pc, request'[t].pc)
  PROVE  Written(t)'
<1>1. Shape(request[t]) /\ Written(t)
  BY DEF FlowInv, Shaped
<1>2. log' = log /\ ticket' = ticket /\ pending' = pending
  BY DEF auditVars
<1>3. /\ Mirrors(t)' <=> Mirrors(t)
      /\ Unlogged(t)' <=> Unlogged(t)
      /\ Logged(t)' <=> Logged(t)
  BY <1>2 DEF Mirrors, Unlogged, LoggedAt, Logged, Own
<1>4. CASE request'[t].pc = request[t].pc
  BY <1>1, <1>2, <1>3, <1>4 DEF Written, Recorded
<1>5. CASE request[t].pc = "idle" /\ request'[t].pc \in {"put", "refused"}
  <2>1. pending[t] = << >> /\ request[t].steps = << >> /\ Unlogged(t) /\ ticket[t] = 0
    BY <1>1, <1>5 DEF Written, Recorded, Shape, AtWork
  <2>2. Mirrors(t)
    BY <2>1 DEF Mirrors
  <2>3. Recorded(t)'
    BY <1>3, <1>5, <2>1 DEF Recorded
  <2> QED BY <1>2, <1>3, <1>5, <2>1, <2>2, <2>3 DEF Written, AtWork
<1>6. CASE \/ request[t].pc \in Stages /\ request'[t].pc = "tick"
           \/ request[t].pc = "get" /\ request'[t].pc = "hung"
  <2>1. Unlogged(t)
    BY <1>1, <1>6 DEF Written, Recorded, Stages
  <2>2. Recorded(t)'
    BY <1>3, <1>6, <2>1 DEF Recorded
  <2> QED BY <1>1, <1>2, <1>3, <1>6, <2>2 DEF Written, AtWork, Stages
<1> QED BY <1>4, <1>5, <1>6 DEF Moves

\* A request draws a stamp, flushes its entry, fails to, or commits.
LEMMA StampWritten ==
  ASSUME FlowInv, NEW t \in Tests, StampStep(t)
  PROVE  /\ DOMAIN request' = Tests /\ \A u \in Tests \ {t} : request'[u] = request[u]
         /\ Shape(request'[t]) /\ Written(t)'
<1>1. Shape(request[t]) /\ Written(t) /\ DOMAIN request = Tests /\ t \in Sessions
  BY TestAssumption DEF FlowInv, Shaped
<1>2. request[t].pc = "tick" /\ request' = [request EXCEPT ![t].pc = "flush"] /\ Tick(t)
  BY DEF StampStep, Goto
<1>3. /\ DOMAIN request' = Tests /\ \A u \in Tests \ {t} : request'[u] = request[u]
      /\ request'[t] = [request[t] EXCEPT !.pc = "flush"]
  BY <1>1, <1>2
<1>4. /\ DOMAIN request'[t] = RequestFields /\ request'[t].pc = "flush"
      /\ request'[t].stage = request[t].stage /\ request'[t].steps = request[t].steps
      /\ request'[t].ok \in BOOLEAN
  BY <1>1, <1>3 DEF Shape, RequestFields
<1>5. Shape(request'[t])
  BY <1>1, <1>2, <1>4, MoveShape
<1>6. ticket'[t] # 0 /\ pending' = pending /\ log' = log
  BY <1>1, <1>2 DEF Tick, FlowInv, AuditInv, AuditTypeOK
<1>7. Unlogged(t)
  BY <1>1, <1>2 DEF Written, Recorded
<1>8. Unlogged(t)'
  BY <1>6, <1>7 DEF Unlogged
<1>9. Recorded(t)'
  BY <1>4, <1>8 DEF Recorded
<1>10. Written(t)'
  BY <1>1, <1>2, <1>4, <1>6, <1>9 DEF Written, Mirrors, AtWork
<1> QED BY <1>3, <1>5, <1>10

LEMMA RecordWritten ==
  ASSUME FlowInv, NEW t \in Tests, RecordStep(t)
  PROVE  /\ DOMAIN request' = Tests /\ \A u \in Tests \ {t} : request'[u] = request[u]
         /\ Shape(request'[t]) /\ Written(t)'
<1> DEFINE r == request[t]
           step == [stage |-> r.stage, success |-> r.ok, lamport |-> ticket[t]]
           entry == [lamport |-> ticket[t], by |-> t, success |-> r.ok]
<1>1. /\ Shape(r) /\ Written(t) /\ DOMAIN request = Tests /\ t \in Sessions
      /\ AuditTypeOK /\ ticket[t] \in Nat /\ r.pc = "flush"
  BY TestAssumption DEF FlowInv, Shaped, AuditInv, AuditTypeOK, RecordStep
<1>2. /\ DOMAIN request' = Tests /\ \A u \in Tests \ {t} : request'[u] = request[u]
      /\ request'[t] = After(t)
  BY <1>1 DEF RecordStep
<1>3. /\ Shape(After(t)) /\ After(t).pc \in Stages \cup {"commit"}
      /\ After(t).steps = Append(r.steps, step)
  BY <1>1, AfterShape
<1>4. ticket'[t] = 0 /\ pending'[t] = Append(pending[t], entry) /\ log' = log
  BY <1>1 DEF RecordStep, Flush, AuditTypeOK
<1>5. Mirrors(t) /\ Unlogged(t)
  BY <1>1 DEF Written, Recorded, AtWork
<1>6. pending[t] \in Seq(Entry) /\ r.steps \in Seq(StepRec)
  BY <1>1, RowTypes DEF Shape
<1>7. step.success = entry.success /\ step.lamport = entry.lamport
  OBVIOUS
<1>11. step \in StepRec /\ entry \in Entry
  BY <1>1 DEF Shape, StepRec, Written, Entry
<1> HIDE DEF step, entry
<1>8. /\ Len(pending'[t]) = Len(After(t).steps)
      /\ \A i \in DOMAIN After(t).steps :
           /\ pending'[t][i].lamport = After(t).steps[i].lamport
           /\ pending'[t][i].success = After(t).steps[i].success
  <2>1. PICK n \in Nat : n = Len(r.steps) /\ n = Len(pending[t])
    BY <1>5, <1>6 DEF Mirrors
  <2>2. /\ Len(pending'[t]) = n + 1 /\ Len(After(t).steps) = n + 1
        /\ DOMAIN After(t).steps = 1 .. n + 1 /\ DOMAIN r.steps = 1 .. n
        /\ pending'[t][n + 1] = entry /\ After(t).steps[n + 1] = step
        /\ \A i \in 1 .. n : pending'[t][i] = pending[t][i] /\ After(t).steps[i] = r.steps[i]
    <3>1. /\ DOMAIN r.steps = 1 .. n /\ DOMAIN Append(r.steps, step) = 1 .. n + 1
          /\ Len(Append(r.steps, step)) = n + 1 /\ Append(r.steps, step)[n + 1] = step
          /\ \A i \in 1 .. n : Append(r.steps, step)[i] = r.steps[i]
      <4>1. r.steps \in Seq(StepRec) /\ step \in StepRec /\ n = Len(r.steps)
        BY <1>6, <1>11, <2>1
      <4> HIDE DEF r
      <4> QED BY <4>1, AppendFacts
    <3>2. /\ Len(Append(pending[t], entry)) = n + 1 /\ Append(pending[t], entry)[n + 1] = entry
          /\ \A i \in 1 .. n : Append(pending[t], entry)[i] = pending[t][i]
      BY <1>6, <1>11, <2>1, AppendFacts
    <3> QED BY <1>3, <1>4, <3>1, <3>2
  <2>3. \A i \in 1 .. n + 1 : i \in 1 .. n \/ i = n + 1
    BY <2>1
  <2> QED BY <1>5, <1>7, <2>2, <2>3 DEF Mirrors
<1>9. Mirrors(t)' /\ Unlogged(t)'
  BY <1>2, <1>4, <1>5, <1>8 DEF Mirrors, Unlogged
<1>10. Written(t)'
  <2>1. Recorded(t)'
    BY <1>2, <1>3, <1>9 DEF Recorded, Stages
  <2> QED BY <1>2, <1>3, <1>4, <1>9, <2>1 DEF Written, Stages, AtWork
<1> QED BY <1>2, <1>3, <1>10

LEMMA FailWritten ==
  ASSUME FlowInv, NEW t \in Tests, RecordStepFails(t)
  PROVE  /\ DOMAIN request' = Tests /\ \A u \in Tests \ {t} : request'[u] = request[u]
         /\ Shape(request'[t]) /\ Written(t)'
<1>1. /\ Shape(request[t]) /\ Written(t) /\ DOMAIN request = Tests /\ t \in Sessions
      /\ AuditTypeOK
  BY TestAssumption DEF FlowInv, Shaped, AuditInv
<1>2. /\ request[t].pc = "flush" /\ request' = [request EXCEPT ![t].pc = "failed"]
      /\ FlushFails(t)
  BY DEF RecordStepFails, Goto
<1>3. /\ DOMAIN request' = Tests /\ \A u \in Tests \ {t} : request'[u] = request[u]
      /\ request'[t] = [request[t] EXCEPT !.pc = "failed"]
  BY <1>1, <1>2
<1>4. /\ DOMAIN request'[t] = RequestFields /\ request'[t].pc = "failed"
      /\ request'[t].stage = request[t].stage /\ request'[t].steps = request[t].steps
      /\ request'[t].ok \in BOOLEAN
  BY <1>1, <1>3 DEF Shape, RequestFields
<1>5. Shape(request'[t])
  BY <1>1, <1>4, MoveShape
\* Somebody else has the write lock, so this request has nothing flushed.
<1>6. pending[t] = << >>
  BY <1>1, <1>2 DEF FlushFails, Locked, FlowInv, AuditInv, OneWriter, Holds
<1>7. ticket'[t] = 0 /\ pending' = pending /\ log' = log
  BY <1>1, <1>2 DEF FlushFails, AuditTypeOK
<1>8. Written(t)'
  <2>1. Unlogged(t)
    BY <1>1, <1>2 DEF Written, Recorded
  <2>2. Unlogged(t)'
    BY <1>7, <2>1 DEF Unlogged
  <2>3. Recorded(t)'
    BY <1>4, <2>2 DEF Recorded
  <2> QED BY <1>1, <1>2, <1>4, <1>6, <1>7, <2>3 DEF Written, AtWork
<1> QED BY <1>3, <1>5, <1>8

\* The commit puts the mirrored rows at the end of the log.
LEMMA CommitWritten ==
  ASSUME FlowInv, NEW t \in Tests, CommitSteps(t)
  PROVE  /\ DOMAIN request' = Tests /\ \A u \in Tests \ {t} : request'[u] = request[u]
         /\ Shape(request'[t]) /\ Written(t)'
<1>1. /\ Shape(request[t]) /\ Written(t) /\ DOMAIN request = Tests /\ t \in Sessions
      /\ AuditTypeOK /\ OwnRows(t)
  BY TestAssumption DEF FlowInv, Shaped, AuditInv
<1>2. /\ request[t].pc = "commit" /\ request' = [request EXCEPT ![t].pc = "reply"]
      /\ Commit(t)
  BY DEF CommitSteps, Goto
<1>3. /\ DOMAIN request' = Tests /\ \A u \in Tests \ {t} : request'[u] = request[u]
      /\ request'[t] = [request[t] EXCEPT !.pc = "reply"]
  BY <1>1, <1>2
<1>4. /\ DOMAIN request'[t] = RequestFields /\ request'[t].pc = "reply"
      /\ request'[t].stage = request[t].stage /\ request'[t].steps = request[t].steps
      /\ request'[t].ok \in BOOLEAN
  BY <1>1, <1>3 DEF Shape, RequestFields
<1>5. Shape(request'[t])
  BY <1>1, <1>2, <1>4, MoveShape
<1>6. /\ ticket'[t] = 0 /\ pending'[t] = << >> /\ log' = log \o pending[t]
      /\ log \in Seq(Entry) /\ pending[t] \in Seq(Entry) /\ request[t].steps \in Seq(StepRec)
  BY <1>1, <1>2, RowTypes DEF Commit, AuditTypeOK, Shape
<1>7. Mirrors(t) /\ Unlogged(t)
  BY <1>1, <1>2 DEF Written, Recorded, AtWork
<1>8. PICK k \in Nat, n \in Nat : k = Len(log) /\ n = Len(pending[t])
  BY <1>6
<1>9. /\ DOMAIN log' = 1 .. k + n /\ Len(log') = k + n
      /\ \A i \in 1 .. k : log'[i] = log[i]
      /\ \A i \in 1 .. n : log'[k + i] = pending[t][i]
      /\ DOMAIN request[t].steps = 1 .. n /\ Len(request[t].steps) = n
      /\ DOMAIN log = 1 .. k /\ DOMAIN pending[t] = 1 .. n
  <2>1. Len(request[t].steps) = n /\ DOMAIN request[t].steps = 1 .. n
    BY <1>6, <1>7, <1>8 DEF Mirrors
  <2> QED BY <1>6, <1>8, <2>1, ConcatFacts
<1>10. {i \in DOMAIN log' : log'[i].by = t} = k + 1 .. k + n
  <2>1. \A i \in 1 .. k : log'[i].by # t
    BY <1>7, <1>9 DEF Unlogged
  <2>2. \A i \in k + 1 .. k + n : log'[i].by = t
    <3>1. \A i \in 1 .. n : log'[k + i].by = t
      <4>1. \A i \in 1 .. n : pending[t][i].by = t
        BY <1>1, <1>9, Zenon DEF OwnRows
      <4>2. \A i \in 1 .. n : log'[k + i] = pending[t][i]
        BY <1>9, Zenon
      <4> QED BY <4>1, <4>2, Zenon
    <3>2. ASSUME NEW i \in k + 1 .. k + n PROVE log'[i].by = t
      <4>1. i - k \in 1 .. n /\ k + (i - k) = i
        BY <1>8
      <4> QED BY <3>1, <4>1
    <3> QED BY <3>2
  <2>3. \A i \in 1 .. k + n : i \in 1 .. k \/ i \in k + 1 .. k + n
    BY <1>8
  <2>4. k + 1 .. k + n \subseteq 1 .. k + n
    BY <1>8
  <2> QED BY <1>9, <2>1, <2>2, <2>3, <2>4
<1>11. LoggedAt(t, k)' /\ k \in 0 .. Len(log')
  <2>1. \A i \in 1 .. n : /\ log'[k + i].lamport = request[t].steps[i].lamport
                          /\ log'[k + i].success = request[t].steps[i].success
    BY <1>7, <1>9 DEF Mirrors
  <2>2. k \in 0 .. k + n
    BY <1>8
  <2> QED BY <1>4, <1>9, <1>10, <2>1, <2>2 DEF LoggedAt, Own
<1>12. Written(t)'
  <2>1. Logged(t)' /\ Whole(request[t].steps)
    BY <1>1, <1>2, <1>11 DEF Logged, Shape
  <2>2. Recorded(t)'
    BY <1>4, <2>1 DEF Recorded
  <2> QED BY <1>4, <1>6, <2>2 DEF Written, AtWork
<1> QED BY <1>3, <1>5, <1>12

\* The answer says what the commit has put there.
LEMMA AnswerWritten ==
  ASSUME FlowInv, NEW t \in Tests, Answer(t)
  PROVE  /\ DOMAIN request' = Tests /\ \A u \in Tests \ {t} : request'[u] = request[u]
         /\ Shape(request'[t]) /\ Written(t)'
<1>1. Shape(request[t]) /\ Written(t) /\ DOMAIN request = Tests
  BY DEF FlowInv, Shaped
<1>2. /\ DOMAIN request' = Tests /\ \A u \in Tests \ {t} : request'[u] = request[u]
      /\ request'[t] = [request[t] EXCEPT !.pc = "answered"] /\ request[t].pc = "reply"
  BY <1>1 DEF Answer, Goto
<1>3. /\ DOMAIN request'[t] = RequestFields /\ request'[t].pc = "answered"
      /\ request'[t].stage = request[t].stage /\ request'[t].steps = request[t].steps
      /\ request'[t].ok \in BOOLEAN
  BY <1>1, <1>2 DEF Shape, RequestFields
<1>4. Shape(request'[t])
  BY <1>1, <1>2, <1>3, MoveShape
<1>5. log' = log /\ ticket' = ticket /\ pending' = pending
  BY DEF Answer, auditVars
<1>6. Recorded(t)'
  <2>1. Logged(t) /\ Whole(request[t].steps)
    BY <1>1, <1>2 DEF Written, Recorded
  <2>2. Logged(t)'
    BY <1>3, <1>5, <2>1 DEF Logged, LoggedAt, Own
  <2> QED BY <1>3, <2>1, <2>2 DEF Recorded
<1>7. Written(t)'
  BY <1>1, <1>2, <1>3, <1>5, <1>6 DEF Written, AtWork
<1> QED BY <1>2, <1>4, <1>7

LEMMA CrashWritten ==
  ASSUME FlowInv, Crash
  PROVE  Shaped' /\ \A t \in Tests : Written(t)'
<1>1. DOMAIN request = Tests /\ DOMAIN request' = Tests /\ Tests \subseteq Sessions
  BY TestAssumption DEF FlowInv, Shaped, Crash
<1>2. \A t \in Sessions : ticket'[t] = 0 /\ pending'[t] = << >>
  BY DEF Crash, Restart
<1>3. log' = log
  BY DEF Crash, Restart
<1> SUFFICES ASSUME NEW t \in Tests PROVE Shape(request'[t]) /\ Written(t)'
  BY <1>1 DEF Shaped
<1>4. Shape(request[t]) /\ Written(t)
  BY DEF FlowInv, Shaped
<1>5. CASE Running(t)
  <2>1. PICK lingers : request'[t] = [request[t] EXCEPT !.pc = "lost", !.lingers = lingers]
    BY <1>5 DEF Crash
  <2>2. /\ DOMAIN request'[t] = RequestFields /\ request'[t].pc = "lost"
        /\ request'[t].stage = request[t].stage /\ request'[t].steps = request[t].steps
        /\ request'[t].ok \in BOOLEAN
    BY <1>4, <2>1 DEF Shape, RequestFields
  <2>3. Shape(request'[t])
    BY <1>4, <2>2, MoveShape
  <2>4. Unlogged(t) \/ (Whole(request[t].steps) /\ Logged(t))
    BY <1>4 DEF Written, Recorded
  <2>5. (Unlogged(t)' <=> Unlogged(t)) /\ (Logged(t)' <=> Logged(t))
    BY <1>3, <2>2 DEF Unlogged, Logged, LoggedAt, Own
  <2>6. Recorded(t)'
    BY <2>2, <2>4, <2>5 DEF Recorded
  <2> QED BY <1>1, <1>2, <2>2, <2>3, <2>6 DEF Written, AtWork
<1>6. CASE ~Running(t)
  <2>1. request'[t] = request[t]
    BY <1>6 DEF Crash
  <2>2. request[t].pc \notin AtWork \cup {"commit"}
    BY <1>6 DEF Running, AtWork
  <2>3. (Unlogged(t)' <=> Unlogged(t)) /\ (Logged(t)' <=> Logged(t))
    BY <1>3, <2>1 DEF Unlogged, Logged, LoggedAt, Own
  <2>4. ticket[t] = 0
    BY <1>4, <1>6 DEF Written, Running
  <2>5. Recorded(t)'
    BY <1>4, <2>1, <2>3 DEF Written, Recorded
  <2> QED BY <1>1, <1>2, <1>4, <2>1, <2>2, <2>4, <2>5 DEF Written, AtWork
<1> QED BY <1>5, <1>6

LEMMA RetryWritten ==
  ASSUME FlowInv, NEW t \in Tests, Retry(t)
  PROVE  /\ DOMAIN request' = Tests /\ \A u \in Tests \ {t} : request'[u] = request[u]
         /\ Shape(request'[t]) /\ Written(t)'
<1>1. Shape(request[t]) /\ Written(t) /\ DOMAIN request = Tests
  BY DEF FlowInv, Shaped
<1>2. /\ DOMAIN request' = Tests /\ \A u \in Tests \ {t} : request'[u] = request[u]
      /\ request'[t] = [NoRequest EXCEPT !.lingers = request[t].lingers]
      /\ request[t].pc = "lost"
  BY <1>1 DEF Retry
<1>3. Shape(request'[t]) /\ request'[t].pc = "idle"
  BY <1>2, NoRequestShape DEF NoRequest
<1>4. log' = log /\ ticket' = ticket /\ pending' = pending
  BY DEF Retry, auditVars
<1>5. Unlogged(t)'
  BY <1>4 DEF Retry, Unlogged
<1>6. Recorded(t)'
  BY <1>3, <1>5 DEF Recorded
<1> QED BY <1>1, <1>2, <1>3, <1>4, <1>6 DEF Written, AtWork

LEMMA FlowInit == Init => FlowInv
<1> SUFFICES ASSUME Init PROVE FlowInv
  OBVIOUS
<1>1. AuditInv /\ DOMAIN request = Tests /\ \A t \in Tests : request[t] = NoRequest
  BY InitAuditInv DEF Init
<1>2. Shaped
  BY <1>1, NoRequestShape DEF Shaped
<1>3. /\ log = << >> /\ \A s \in Sessions : ticket[s] = 0 /\ pending[s] = << >>
  BY DEF Init, AuditInit
<1>4. \A t \in Tests : Written(t)
  BY <1>1, <1>3, TestAssumption DEF Written, Recorded, NoRequest, Unlogged, AtWork
<1> QED BY <1>1, <1>2, <1>3, <1>4 DEF FlowInv, OwnRows

LEMMA FlowNext == RequestInv /\ FlowInv /\ [Next]_vars => FlowInv'
<1> SUFFICES ASSUME RequestInv, FlowInv, [Next]_vars
             PROVE  Shaped' /\ \A t \in Tests : Written(t)'
  BY NextIsAudit, NextAuditInv, RowsStayOwn DEF FlowInv
<1>1. DOMAIN request = Tests /\ \A t \in Tests : Shape(request[t]) /\ Written(t)
  BY DEF FlowInv, Shaped
<1>2. ASSUME UNCHANGED << auditVars, request >> PROVE Shaped' /\ \A t \in Tests : Written(t)'
  <2>1. request' = request /\ ticket' = ticket /\ pending' = pending /\ log' = log
    BY <1>2 DEF auditVars
  <2>2. \A t \in Tests : Written(t)'
    BY <1>1, <2>1, StandStill
  <2> QED BY <1>1, <2>1, <2>2 DEF Shaped
\* One test moves; the others only see the log grow.
<1>3. ASSUME NEW t \in Tests, DOMAIN request' = Tests,
             \A u \in Tests \ {t} : request'[u] = request[u],
             Shape(request'[t]), Written(t)',
             \/ UNCHANGED auditVars
             \/ Tick(t) \/ (\E success \in BOOLEAN : Flush(t, success))
             \/ FlushFails(t) \/ Commit(t)
      PROVE  Shaped' /\ \A u \in Tests : Written(u)'
  <2>1. Shaped'
    BY <1>1, <1>3 DEF Shaped
  <2>2. ASSUME NEW u \in Tests \ {t} PROVE Written(u)'
    <3>1. CASE UNCHANGED auditVars
      <4>1. request'[u].steps = request[u].steps /\ Moves(request[u].pc, request'[u].pc)
        BY <1>3 DEF Moves
      <4> QED BY <3>1, <4>1, QuietWritten
    <3>2. CASE ~UNCHANGED auditVars
      <4>1. t \in Sessions /\ request'[u] = request[u]
        BY <1>3, TestAssumption
      <4> QED BY <1>3, <3>2, <4>1, Bystander
    <3> QED BY <3>1, <3>2
  <2> QED BY <1>3, <2>1, <2>2
<1>4. ASSUME NEW t \in Tests, QuietStep(t) PROVE Shaped' /\ \A u \in Tests : Written(u)'
  <2>1. /\ UNCHANGED auditVars
        /\ DOMAIN request' = Tests /\ \A u \in Tests \ {t} : request'[u] = request[u]
        /\ DOMAIN request'[t] = RequestFields
        /\ request'[t].stage = request[t].stage /\ request'[t].steps = request[t].steps
        /\ request'[t].ok \in BOOLEAN
        /\ Moves(request[t].pc, request'[t].pc)
    BY <1>4, QuietMove DEF FlowInv
  <2>2. Shape(request'[t]) /\ Written(t)'
    BY <1>1, <2>1, MoveShape, QuietWritten
  <2> QED BY <1>3, <2>1, <2>2
<1>5. ASSUME NEW t \in Tests,
             StampStep(t) \/ RecordStep(t) \/ RecordStepFails(t) \/ CommitSteps(t)
      PROVE  Shaped' /\ \A u \in Tests : Written(u)'
  <2>1. \/ Tick(t) \/ (\E success \in BOOLEAN : Flush(t, success))
        \/ FlushFails(t) \/ Commit(t)
    BY <1>1, <1>5 DEF StampStep, RecordStep, RecordStepFails, CommitSteps, Shape
  <2> QED BY <1>3, <1>5, <2>1, StampWritten, RecordWritten, FailWritten, CommitWritten
<1>6. ASSUME NEW t \in Tests, Answer(t) \/ Retry(t)
      PROVE  Shaped' /\ \A u \in Tests : Written(u)'
  <2>1. UNCHANGED auditVars
    BY <1>6 DEF Answer, Retry
  <2> QED BY <1>3, <1>6, <2>1, AnswerWritten, RetryWritten
<1>7. ASSUME NEW w \in Writers, OtherTicks(w) \/ OtherWrites(w)
      PROVE  Shaped' /\ \A u \in Tests : Written(u)'
  <2>1. /\ w \in Sessions /\ w \notin Tests /\ request' = request
        /\ \/ Tick(w) \/ (\E success \in BOOLEAN : Flush(w, success))
           \/ FlushFails(w) \/ Commit(w) \/ Rollback(w)
    BY <1>7 DEF OtherTicks, OtherWrites, Writers
  <2>2. \A u \in Tests : Written(u)'
    BY <2>1, Bystander
  <2> QED BY <1>1, <2>1, <2>2 DEF Shaped
<1>8. CASE FetchPage
  <2>1. request' = request /\ ticket' = ticket /\ pending' = pending /\ log' = log
    BY <1>8 DEF FetchPage, ReadPage
  <2>2. \A t \in Tests : Written(t)'
    BY <1>1, <2>1, StandStill
  <2> QED BY <1>1, <2>1, <2>2 DEF Shaped
<1>9. ASSUME Transmit \/ ChannelStops \/ ChannelStarts \/ UNCHANGED vars
      PROVE  UNCHANGED << auditVars, request >>
  BY <1>9 DEF Transmit, ChannelStops, ChannelStarts, vars
<1> QED BY <1>2, <1>4, <1>5, <1>6, <1>7, <1>8, <1>9, CrashWritten
        DEF Next, Step, QuietStep

\* The log tells all of a test or nothing, whichever requests and writers race,
\* fail or die, between the commit and the answer too: everything when it has
\* answered, nothing when it was refused or raised (api/message_flow.py:783, 944,
\* 1093, audit/writer.py).
THEOREM AnswersAreLogged == SystemSpec => []AnswerIsLogged
<1>1. SystemInit => RequestInv /\ FlowInv
  BY InitRequestInv, FlowInit DEF SystemInit
<1>2. RequestInv /\ FlowInv /\ [SystemNext]_systemVars => (RequestInv /\ FlowInv)'
  BY SystemStep, NextRequestInv, FlowNext
<1>3. FlowInv => AnswerIsLogged
  <2> DEFINE Told(t, told, k) ==
        /\ Own(t) = k + 1 .. k + Len(told)
        /\ \A i \in DOMAIN told : /\ log[k + i].lamport = told[i].lamport
                                  /\ log[k + i].success = told[i].success
        /\ told # << >> => Whole(told)
        /\ request[t].pc = "answered" => told # << >> /\ told = request[t].steps
        /\ request[t].pc \in {"refused", "failed"} => told = << >>
  <2> SUFFICES ASSUME FlowInv, NEW t \in Tests
               PROVE  \E told \in {<< >>, request[t].steps}, k \in 0 .. Len(log) :
                        Told(t, told, k)
    BY DEF AnswerIsLogged
  <2>1. Written(t) /\ Shape(request[t]) /\ Len(log) \in Nat
    BY DEF FlowInv, Shaped, AuditInv, AuditTypeOK
  <2>2. CASE Unlogged(t) /\ request[t].pc # "answered"
    <3>1. Own(t) = 0 + 1 .. 0 + Len(<< >>)
      BY <2>2 DEF Own, Unlogged
    <3>2. Told(t, << >>, 0)
      BY <2>2, <3>1
    <3> QED BY <2>1, <3>2
  <2>3. CASE ~(Unlogged(t) /\ request[t].pc # "answered")
    <3>1. /\ Whole(request[t].steps) /\ Logged(t)
          /\ request[t].pc \notin {"refused", "failed"}
      BY <2>1, <2>3 DEF Written, Recorded, Shape
    <3>2. PICK k \in 0 .. Len(log) : LoggedAt(t, k)
      BY <3>1 DEF Logged
    <3>3. Told(t, request[t].steps, k)
      BY <3>1, <3>2 DEF LoggedAt, Whole
    <3> QED BY <3>3
  <2> QED BY <2>2, <2>3
<1> QED BY <1>1, <1>2, <1>3, PTL DEF SystemSpec

\* The types of the log, the requests and the wait, for any number of them; the
\* steps of a request are put, poll and get, each but the last a success.
THEOREM SystemTypes == SystemSpec => []TypeOK
<1>1. SystemInit => RequestInv /\ FlowInv /\ DrainInv
  BY InitRequestInv, FlowInit, InitDrainInv DEF SystemInit
<1>2. RequestInv /\ FlowInv /\ DrainInv /\ [SystemNext]_systemVars
        => (RequestInv /\ FlowInv /\ DrainInv)'
  BY SystemStep, NextRequestInv, FlowNext, NextDrainInv
<1>3. FlowInv /\ DrainInv => TypeOK
  BY DEF FlowInv, AuditInv, Shaped, Shape, InOrder, AtWork, DrainInv, TypeOK
<1> QED BY <1>1, <1>2, <1>3, PTL DEF SystemSpec

-----------------------------------------------------------------------------
(* What a passed test has read: a message with its payload, from the       *)
(* moment its get succeeds.  The stage, which Shape ties to the number of  *)
(* steps, tells the get's success from the put's and the poll's.           *)

Messages == Tests \cup {Stale}

MqTypes == mq \in [pods : BOOLEAN, exists : BOOLEAN, channel : BOOLEAN,
                   xmitq : Seq(Tests), queue : Seq(Messages)]

HasRead(t, r) == \E m \in Messages : m \in r.seen /\ Payload[m] = Payload[t]

Delivered(t, r) ==
  /\ r.pc \in {"tick", "flush"} /\ r.stage = "get" /\ r.ok => HasRead(t, r)
  /\ Len(r.steps) = 3 /\ r.steps[3].success => HasRead(t, r)

DeliveryInv == MqTypes /\ \A t \in Tests : Delivered(t, request[t])

LEMMA NextMqTypes == MqTypes /\ [Next]_vars => MqTypes'
<1> SUFFICES ASSUME MqTypes, [Next]_vars PROVE MqTypes'
  OBVIOUS
<1> DEFINE MqFields(x) == /\ x.pods \in BOOLEAN /\ x.exists \in BOOLEAN /\ x.channel \in BOOLEAN
                          /\ x.xmitq \in Seq(Tests) /\ x.queue \in Seq(Messages)
<1>1. MqFields(mq) /\ DOMAIN mq = {"pods", "exists", "channel", "xmitq", "queue"}
  BY DEF MqTypes
<1>2. ASSUME NEW t \in Tests, AmqsPut(t) \/ AmqsPutMiscarries(t) PROVE MqTypes'
  <2>1. Arrives(t) \in [pods : BOOLEAN, exists : BOOLEAN, channel : BOOLEAN,
                        xmitq : Seq(Tests), queue : Seq(Messages)]
    <3>1. Append(mq.xmitq, t) \in Seq(Tests) /\ Append(mq.queue, t) \in Seq(Messages)
      BY <1>1 DEF Messages
    <3> QED BY <3>1 DEF Arrives, MqTypes
  <2>2. mq' \in {mq, Arrives(t)}
    BY <1>2 DEF AmqsPut, AmqsPutMiscarries
  <2> QED BY <2>1, <2>2 DEF MqTypes
<1>3. ASSUME NEW t \in Tests, AmqsGet(t) \/ Swallow(t) PROVE MqTypes'
  <2>1. mq.queue # << >> /\ mq' = [mq EXCEPT !.queue = Tail(@)]
    BY <1>3 DEF AmqsGet, Swallow
  <2>2. Tail(mq.queue) \in Seq(Messages)
    BY <1>1, <2>1
  <2> QED BY <2>1, <2>2 DEF MqTypes
<1>4. CASE Transmit
  <2>1. mq.xmitq # << >>
        /\ mq' = [mq EXCEPT !.xmitq = Tail(@),
                    !.queue = IF mq.exists THEN Append(@, Head(mq.xmitq)) ELSE @]
    BY <1>4 DEF Transmit
  <2>2. Tail(mq.xmitq) \in Seq(Tests) /\ Head(mq.xmitq) \in Messages
    BY <1>1, <2>1 DEF Messages
  <2>3. (IF mq.exists THEN Append(mq.queue, Head(mq.xmitq)) ELSE mq.queue) \in Seq(Messages)
    BY <1>1, <2>2
  <2> QED BY <2>1, <2>2, <2>3 DEF MqTypes
<1>5. CASE ChannelStops \/ ChannelStarts
  BY <1>5 DEF ChannelStops, ChannelStarts, MqTypes
<1>6. ASSUME UNCHANGED mq PROVE MqTypes'
  BY <1>6 DEF MqTypes
<1>7. ASSUME NEW t \in Tests,
             \/ \E apps \in Apps : Lookup(t, apps)
             \/ StampStep(t) \/ RecordStep(t) \/ RecordStepFails(t) \/ PollSees(t)
             \/ PollGivesUp(t) \/ AmqsGetEnds(t) \/ CommitSteps(t) \/ Answer(t)
             \/ AmqsGetCut(t) \/ AmqsGetHangs(t) \/ Retry(t)
      PROVE  UNCHANGED mq
  BY <1>7 DEF Lookup, StampStep, RecordStep, RecordStepFails, PollSees, PollGivesUp,
              AmqsGetEnds, CommitSteps, Answer, AmqsGetCut, AmqsGetHangs, Retry
<1>8. ASSUME NEW w \in Writers, OtherTicks(w) \/ OtherWrites(w) PROVE UNCHANGED mq
  BY <1>8 DEF OtherTicks, OtherWrites
<1>9. ASSUME Crash \/ FetchPage \/ UNCHANGED vars PROVE UNCHANGED mq
  BY <1>9 DEF Crash, FetchPage, vars
<1> QED BY <1>2, <1>3, <1>4, <1>5, <1>6, <1>7, <1>8, <1>9 DEF Next, Step

\* What does not end a get changes nothing of what was read.
LEMMA StaysDelivered ==
  ASSUME NEW t, NEW r, NEW s, Delivered(t, r), s.seen = r.seen, s.steps = r.steps,
         \/ s.pc \notin {"tick", "flush"} \/ s.stage # "get" \/ ~s.ok
         \/ r.pc \in {"tick", "flush"} /\ s.stage = r.stage /\ s.ok = r.ok
  PROVE  Delivered(t, s)
BY DEF Delivered, HasRead

\* The get, message by message.
LEMMA GetDelivers ==
  ASSUME MqTypes, NEW t \in Tests, Shape(request[t]), DOMAIN request = Tests,
         Delivered(t, request[t]), AmqsGet(t)
  PROVE  Delivered(t, request'[t])
<1> DEFINE r == request[t]
           m == Head(mq.queue)
<1>1. m \in Messages
  BY DEF AmqsGet, MqTypes
<1>2. /\ r.pc = "get" /\ r.stage = "get"
      /\ request'[t] = IF Matches(t, m)
           THEN [r EXCEPT !.seen = @ \cup {m}, !.pc = "tick", !.ok = TRUE, !.lingers = TRUE]
           ELSE [r EXCEPT !.seen = @ \cup {m}]
  BY DEF AmqsGet, Shape, Stages, RequestFields
<1>3. DOMAIN r = RequestFields /\ r.steps \in Seq(StepRec) /\ Len(r.steps) = 2
  BY <1>2 DEF Shape, AtWork, Number
<1>4. CASE Matches(t, m)
  <2>1. m \in request'[t].seen /\ request'[t].steps = r.steps
    BY <1>2, <1>3, <1>4 DEF RequestFields
  <2>2. Payload[m] = Payload[t]
    BY <1>4 DEF Matches
  <2> QED BY <1>1, <2>1, <2>2 DEF Delivered, HasRead
<1>5. CASE ~Matches(t, m)
  <2>1. request'[t].pc = "get" /\ request'[t].steps = r.steps
    BY <1>2, <1>3, <1>5 DEF RequestFields
  <2> QED BY <1>3, <2>1 DEF Delivered
<1> QED BY <1>4, <1>5

\* A step's entry: the third step is the get.
LEMMA RecordDelivers ==
  ASSUME NEW t \in Tests, Shape(request[t]), DOMAIN request = Tests, ticket[t] \in Nat,
         Delivered(t, request[t]), RecordStep(t)
  PROVE  Delivered(t, request'[t])
<1> DEFINE r == request[t]
           step == [stage |-> r.stage, success |-> r.ok, lamport |-> ticket[t]]
<1>1. r.pc = "flush" /\ request'[t] = After(t)
  BY DEF RecordStep
<1>2. /\ After(t).pc \in Stages \cup {"commit"} /\ After(t).seen = r.seen
      /\ After(t).steps = Append(r.steps, step)
  BY <1>1, AfterShape
<1>3. /\ r.steps \in Seq(StepRec) /\ step \in StepRec /\ step.success = r.ok
      /\ Len(r.steps) = Number(r.stage) - 1 /\ r.stage \in Stages
  BY <1>1 DEF Shape, StepRec, AtWork
<1> HIDE DEF step
<1>4. After(t).pc \notin {"tick", "flush"}
  BY <1>2 DEF Stages
<1>5. ASSUME Len(After(t).steps) = 3, After(t).steps[3].success
      PROVE  HasRead(t, After(t))
  <2>1. PICK n \in Nat : n = Len(r.steps)
    BY <1>3
  <2>2. Len(After(t).steps) = n + 1 /\ After(t).steps[n + 1] = step
    <3> HIDE DEF r
    <3> QED BY <1>2, <1>3, <2>1, AppendFacts
  <2>3. n = 2 /\ r.stage = "get" /\ r.ok
    BY <1>3, <1>5, <2>1, <2>2 DEF Number, Stages
  <2> QED BY <1>1, <1>2, <2>3 DEF Delivered, HasRead
<1> QED BY <1>1, <1>4, <1>5 DEF Delivered

LEMMA DeliveryInit == Init => DeliveryInv
<1> SUFFICES ASSUME Init PROVE DeliveryInv
  OBVIOUS
<1>1. MqTypes
  <2>1. << >> \in Seq(Tests) /\ << >> \in Seq(Messages) /\ << Stale >> \in Seq(Messages)
    BY DEF Messages
  <2> QED BY <2>1 DEF Init, MqTypes
<1>2. \A t \in Tests : request[t] = NoRequest
  BY DEF Init
<1> QED BY <1>1, <1>2 DEF DeliveryInv, Delivered, NoRequest

LEMMA DeliveryNext == RequestInv /\ FlowInv /\ DeliveryInv /\ [Next]_vars => DeliveryInv'
<1> SUFFICES ASSUME FlowInv, DeliveryInv, [Next]_vars, NEW t \in Tests
             PROVE  Delivered(t, request'[t])
  BY NextMqTypes DEF DeliveryInv
<1> DEFINE r == request[t]
           s == request'[t]
<1>1. /\ DOMAIN request = Tests /\ Shape(r) /\ MqTypes /\ Delivered(t, r)
      /\ ticket[t] \in Nat
  BY TestAssumption, RowTypes DEF FlowInv, Shaped, DeliveryInv, AuditInv
<1>2. ASSUME s = r PROVE Delivered(t, s)
  BY <1>1, <1>2
<1>3. CASE \E apps \in Apps : Lookup(t, apps)
  <2>1. PICK flow : \E pc \in {"refused", "put"} :
          request' = [request EXCEPT ![t].flow = flow, ![t].pc = pc]
    BY <1>3 DEF Lookup
  <2>2. PICK pc \in {"refused", "put"} : s = [r EXCEPT !.flow = flow, !.pc = pc]
    BY <1>1, <2>1
  <2>3. s.seen = r.seen /\ s.steps = r.steps /\ s.pc \notin {"tick", "flush"}
    BY <1>1, <2>2 DEF Shape, RequestFields
  <2> QED BY <1>1, <2>3, StaysDelivered
\* A put, a poll and a get that fails: none of them is a get that succeeds.
<1>4. ASSUME NEW ok, Finish(t, ok), r.stage # "get" \/ ~ok PROVE Delivered(t, s)
  <2>1. s.seen = r.seen /\ s.steps = r.steps /\ s.stage = r.stage /\ s.ok = ok
    BY <1>1, <1>4 DEF Finish, Result, Shape, RequestFields
  <2> QED BY <1>1, <1>4, <2>1, StaysDelivered
<1>5. CASE AmqsPut(t) \/ AmqsPutMiscarries(t) \/ PollSees(t) \/ PollGivesUp(t)
  <2>1. r.stage # "get"
    BY <1>1, <1>5 DEF AmqsPut, AmqsPutMiscarries, PollSees, PollGivesUp, Shape, Stages
  <2> QED BY <1>4, <1>5, <2>1 DEF AmqsPut, AmqsPutMiscarries, PollSees, PollGivesUp
<1>6. CASE AmqsGetEnds(t)
  BY <1>4, <1>6 DEF AmqsGetEnds
<1>7. CASE AmqsGetCut(t)
  <2>1. s.seen = r.seen /\ s.steps = r.steps /\ s.ok = FALSE
    BY <1>1, <1>7 DEF AmqsGetCut, Result, Shape, RequestFields
  <2> QED BY <1>1, <2>1, StaysDelivered
<1>8. CASE AmqsGetHangs(t)
  <2>1. s.seen = r.seen /\ s.steps = r.steps /\ s.pc = "hung"
    BY <1>1, <1>8 DEF AmqsGetHangs, Shape, RequestFields
  <2> QED BY <1>1, <2>1, StaysDelivered
<1>9. ASSUME NEW pc, Goto(t, pc), pc \notin {"tick", "flush"} \/ r.pc = "tick"
      PROVE  Delivered(t, s)
  <2>1. /\ s.seen = r.seen /\ s.steps = r.steps /\ s.pc = pc
        /\ s.stage = r.stage /\ s.ok = r.ok
    BY <1>1, <1>9 DEF Goto, Shape, RequestFields
  <2> QED BY <1>1, <1>9, <2>1, StaysDelivered
<1>10. CASE StampStep(t)
  BY <1>9, <1>10 DEF StampStep
<1>11. CASE RecordStepFails(t) \/ CommitSteps(t) \/ Answer(t)
  BY <1>9, <1>11 DEF RecordStepFails, CommitSteps, Answer
<1>12. CASE AmqsGet(t)
  BY <1>1, <1>12, GetDelivers
<1>13. CASE RecordStep(t)
  BY <1>1, <1>13, RecordDelivers
<1>14. CASE Retry(t)
  <2>1. s.pc = "idle" /\ s.steps = << >>
    BY <1>1, <1>14 DEF Retry, NoRequest
  <2> QED BY <2>1 DEF Delivered
<1>15. CASE Crash
  <2>1. CASE Running(t)
    <3>1. PICK lingers : s = [r EXCEPT !.pc = "lost", !.lingers = lingers]
      BY <1>15, <2>1 DEF Crash
    <3>2. s.seen = r.seen /\ s.steps = r.steps /\ s.pc = "lost"
      BY <1>1, <3>1 DEF Shape, RequestFields
    <3> QED BY <1>1, <3>2, StaysDelivered
  <2>2. CASE ~Running(t)
    BY <1>2, <1>15, <2>2 DEF Crash
  <2> QED BY <2>1, <2>2
<1>16. ASSUME NEW u \in Tests \ {t}, Step(u) \/ Retry(u) \/ QuietStep(u) PROVE s = r
  <2>1. CASE Step(u)
    BY <1>1, <1>16, <2>1 DEF Step, AmqsPut, StampStep, RecordStep, RecordStepFails, PollSees,
       PollGivesUp, AmqsGet, AmqsGetEnds, CommitSteps, Answer, Finish, Goto
  <2>2. CASE Retry(u)
    BY <1>1, <1>16, <2>2 DEF Retry
  <2>3. CASE QuietStep(u)
    BY <1>16, <2>3, QuietMove DEF FlowInv
  <2> QED BY <1>16, <2>1, <2>2, <2>3
<1>17. ASSUME NEW w \in Writers, OtherTicks(w) \/ OtherWrites(w) PROVE s = r
  BY <1>17 DEF OtherTicks, OtherWrites
<1>18. ASSUME Transmit \/ ChannelStops \/ ChannelStarts \/ FetchPage \/ UNCHANGED vars
       PROVE  s = r
  BY <1>18 DEF Transmit, ChannelStops, ChannelStarts, FetchPage, vars
<1>19. CASE Swallow(t)
  BY <1>2, <1>19 DEF Swallow
<1>20. ASSUME NEW u \in Tests,
              \/ \E apps \in Apps : Lookup(u, apps)
              \/ Step(u)
              \/ AmqsPutMiscarries(u) \/ AmqsGetCut(u) \/ AmqsGetHangs(u)
              \/ Swallow(u) \/ Retry(u)
       PROVE  Delivered(t, s)
  <2>1. CASE u = t
    BY <1>3, <1>5, <1>6, <1>7, <1>8, <1>10, <1>11, <1>12, <1>13, <1>14, <1>19, <1>20, <2>1
       DEF Step
  <2>2. CASE u # t
    BY <1>2, <1>16, <1>20, <2>2 DEF QuietStep
  <2> QED BY <2>1, <2>2
<1> QED BY <1>2, <1>15, <1>17, <1>18, <1>20 DEF Next

\* A test that answers success has read a message with its payload from the
\* consumer's queue, however many tests share the queues (api/message_flow.py:20).
THEOREM PassedIsDelivered == SystemSpec => []SuccessMeansDelivered
<1>1. SystemInit => RequestInv /\ FlowInv /\ DeliveryInv
  BY InitRequestInv, FlowInit, DeliveryInit DEF SystemInit
<1>2. RequestInv /\ FlowInv /\ DeliveryInv /\ [SystemNext]_systemVars
        => (RequestInv /\ FlowInv /\ DeliveryInv)'
  BY SystemStep, NextRequestInv, FlowNext, DeliveryNext
<1>3. FlowInv /\ DeliveryInv => SuccessMeansDelivered
  <2> SUFFICES ASSUME FlowInv, DeliveryInv, NEW t \in Tests, Successful(t)
               PROVE  request[t].seen \cap {m \in Tests \cup {Stale} : Payload[m] = Payload[t]}
                        # {}
    BY DEF SuccessMeansDelivered
  <2>1. Len(request[t].steps) = 3 /\ request[t].steps \in Seq(StepRec)
    BY DEF Successful, FlowInv, Shaped, Shape
  <2>2. request[t].steps[3].success
    BY <2>1 DEF Successful
  <2> QED BY <2>1, <2>2 DEF DeliveryInv, Delivered, HasRead, Messages
<1> QED BY <1>1, <1>2, <1>3, PTL DEF SystemSpec
=============================================================================
