-------------------------- MODULE ProvisioningProofs --------------------------
(***************************************************************************)
(* Proofs about Provisioning, for any number of queue managers, manifests, *)
(* runs and teardowns, and every set of faults.                            *)
(***************************************************************************)
EXTENDS ProvisioningProperties, TLAPS

\* There is a first queue manager and a first manifest.
LEMMA Sizes == N \in Nat \ {0} /\ K \in Nat \ {0}
BY SizeAssumption, ManifestAssumption DEF K

\* What is manifest number k is a kind, and so is what a teardown deletes.
LEMMA Kinds ==
  /\ \A k \in 1 .. K : Manifests[k] \in Kind
  /\ \A x \in Kind : \E k \in 1 .. K : x = Manifests[k]
BY DEF Kind

LEMMA IdleType == Idle \in TaskRec /\ NotReady \in RowRec /\ NoTeardown \in TearRec
BY Sizes DEF Coroutine, Idle, NotReady, NoTeardown, TaskRec, RowRec, TearRec, RunPc, QM

\* What is left of a coroutine or of a request.
LEMMA OverType ==
  /\ \A pc \in { "done", "dead", "killed" } :
       /\ Over(pc) \in TaskRec
       /\ Over(pc).pc = pc
  /\ \A pc \in { "done", "failed" } :
       /\ Answered(pc) \in TearRec
       /\ Answered(pc).pc = pc
       /\ ~ Answered(pc).open
BY IdleType, Sizes DEF Over, Answered, Coroutine, Idle, NoTeardown, TaskRec, TearRec, RunPc

Typed == TypeOK /\ \A r \in Run : Tallied(r)

\* Counting one more queue manager.
LEMMA CountType ==
  ASSUME Typed, NEW r \in Run, Alive(r), task[r].pc # "finalize",
         NEW rec \in { CountReady(r), CountFailed(r) }
  PROVE  /\ rec \in TaskRec
         /\ task[r].i \in QM
         /\ rec.ready + rec.failed = rec.i - 1
         /\ rec.i = task[r].i + 1
         /\ rec.pc \in { "load", "finalize" }
         /\ rec.pc = "finalize" <=> rec.i = N + 1
         /\ rec.dry = task[r].dry
         /\ rec.ready >= task[r].ready
         /\ rec.failed >= task[r].failed
         /\ rec.failed = 0 => rec = CountReady(r) /\ task[r].failed = 0
<1>1. task[r] \in TaskRec /\ Tallied(r)
  BY DEF Typed, TypeOK
<1>2. task[r].i \in 1 .. N
  BY <1>1, Sizes DEF Tallied, TaskRec
<1>3. task[r].ready + task[r].failed = task[r].i - 1
  BY <1>1 DEF Tallied
<1>4. CASE rec = CountReady(r)
  <2>1. task[r].ready + 1 \in 0 .. N
    BY <1>1, <1>2, <1>3, Sizes DEF TaskRec
  <2>2. rec = [ pc |-> IF task[r].i = N THEN "finalize" ELSE "load",
                dry |-> task[r].dry, i |-> task[r].i + 1, k |-> 1, ok |-> TRUE,
                ready |-> task[r].ready + 1, failed |-> task[r].failed ]
    BY <1>1, <1>4 DEF CountReady, NextQm, TaskRec
  <2>3. rec.pc \in RunPc /\ rec.i \in 1 .. (N + 1) /\ rec.k \in 1 .. K
    BY <1>2, <2>2, Sizes DEF RunPc, Writing
  <2>4. rec \in TaskRec
    BY <1>1, <2>1, <2>2, <2>3 DEF TaskRec
  <2> QED
    BY <1>1, <1>2, <1>3, <1>4, <2>2, <2>4, Sizes DEF TaskRec, QM
<1>5. CASE rec = CountFailed(r)
  <2>1. task[r].failed + 1 \in 0 .. N
    BY <1>1, <1>2, <1>3, Sizes DEF TaskRec
  <2>2. rec = [ pc |-> IF task[r].i = N THEN "finalize" ELSE "load",
                dry |-> task[r].dry, i |-> task[r].i + 1, k |-> 1, ok |-> TRUE,
                ready |-> task[r].ready, failed |-> task[r].failed + 1 ]
    BY <1>1, <1>5 DEF CountFailed, NextQm, TaskRec
  <2>3. rec.pc \in RunPc /\ rec.i \in 1 .. (N + 1) /\ rec.k \in 1 .. K
    BY <1>2, <2>2, Sizes DEF RunPc, Writing
  <2>4. rec \in TaskRec
    BY <1>1, <2>1, <2>2, <2>3 DEF TaskRec
  <2> QED
    BY <1>1, <1>2, <1>3, <2>2, <2>4, Sizes DEF TaskRec, QM
<1> QED
  BY <1>4, <1>5

LEMMA CountReadyCounts ==
  ASSUME Typed, NEW r \in Run
  PROVE  CountReady(r).ready = task[r].ready + 1
<1>1. task[r] \in TaskRec
  BY DEF Typed, TypeOK
<1> QED
  BY <1>1 DEF CountReady, NextQm, TaskRec

\* A step that moves one coroutine on, and touches only its own row.
LEMMA MoveType ==
  ASSUME Typed, NEW r \in Run, NEW rec \in TaskRec,
         task' = [ task EXCEPT ![r] = rec ],
         run' \in [ Run -> ProvisionRun ],
         \A s \in Run \ {r} : run'[s] = run[s],
         rec.pc # "free",
         rec.pc \notin { "done", "dead", "killed" } =>
           /\ rec.ready + rec.failed = rec.i - 1
           /\ rec.pc = "finalize" <=> rec.i = N + 1
           /\ run'[r].state # "NO_ROW" => run'[r].qms_ready <= rec.ready
  PROVE  /\ task' \in [ Run -> TaskRec ]
         /\ \A s \in Run : Tallied(s)'
<1>1. task \in [ Run -> TaskRec ] /\ \A s \in Run : Tallied(s)
  BY DEF Typed, TypeOK
<1>2. task' \in [ Run -> TaskRec ]
  BY <1>1
<1>3. task'[r] = rec /\ \A s \in Run \ {r} : task'[s] = task[s]
  BY <1>1
<1>4. Tallied(r)'
  BY <1>3 DEF Tallied, Alive
<1>5. ASSUME NEW s \in Run \ {r} PROVE Tallied(s)'
  BY <1>1, <1>3, <1>5 DEF Tallied, Alive
<1> QED
  BY <1>2, <1>4, <1>5

\* The same when the coroutine only goes from one place to another.
LEMMA GotoType ==
  ASSUME Typed, NEW r \in Run, Alive(r), task[r].pc # "finalize",
         NEW rec \in TaskRec,
         rec.pc \notin { "free", "finalize", "done", "dead", "killed" },
         rec.i = task[r].i, rec.ready = task[r].ready,
         rec.failed = task[r].failed,
         task' = [ task EXCEPT ![r] = rec ],
         run' \in [ Run -> ProvisionRun ],
         \A s \in Run \ {r} : run'[s] = run[s],
         run'[r].state # "NO_ROW" =>
           run[r].state # "NO_ROW" /\ run'[r].qms_ready = run[r].qms_ready
  PROVE  /\ task' \in [ Run -> TaskRec ]
         /\ \A s \in Run : Tallied(s)'
<1>1. task[r] \in TaskRec /\ Tallied(r)
  BY DEF Typed, TypeOK
<1>2. /\ rec.ready + rec.failed = rec.i - 1
      /\ rec.pc = "finalize" <=> rec.i = N + 1
      /\ run'[r].state # "NO_ROW" => run'[r].qms_ready <= rec.ready
  BY <1>1 DEF Tallied
<1> QED
  BY <1>2, MoveType

\* The same when it has dealt with one more queue manager.
LEMMA CountKeeps ==
  ASSUME Typed, NEW r \in Run, Alive(r), task[r].pc # "finalize",
         NEW rec \in { CountReady(r), CountFailed(r) },
         task' = [ task EXCEPT ![r] = rec ], UNCHANGED run
  PROVE  /\ task' \in [ Run -> TaskRec ]
         /\ \A s \in Run : Tallied(s)'
<1>1. /\ rec \in TaskRec
      /\ rec.ready + rec.failed = rec.i - 1
      /\ rec.pc \in { "load", "finalize" }
      /\ rec.pc = "finalize" <=> rec.i = N + 1
      /\ rec.ready >= task[r].ready
  BY CountType
<1>2. /\ run \in [ Run -> ProvisionRun ] /\ task[r] \in TaskRec
      /\ Tallied(r)
  BY DEF Typed, TypeOK
<1>3. run[r].state # "NO_ROW" => run[r].qms_ready <= rec.ready
  BY <1>1, <1>2 DEF Tallied, TaskRec, ProvisionRun
<1> QED
  BY <1>1, <1>2, <1>3, MoveType

LEMMA RunStepType ==
  ASSUME Typed, NEW r \in Run, RunStep(r)
  PROVE  Typed'
<1>1. /\ task \in [ Run -> TaskRec ] /\ run \in [ Run -> ProvisionRun ]
      /\ rows \in [ QM -> RowRec ] /\ cluster \in [ QM -> SUBSET Kind ]
      /\ \A s \in Run : Tallied(s)
  BY DEF Typed, TypeOK
<1>2. task[r] \in TaskRec /\ run[r] \in ProvisionRun /\ Tallied(r)
  BY <1>1
<1>3. SUFFICES /\ task' \in [ Run -> TaskRec ]
               /\ \A s \in Run : Tallied(s)'
               /\ run' \in [ Run -> ProvisionRun ]
               /\ rows' \in [ QM -> RowRec ]
               /\ cluster' \in [ QM -> SUBSET Kind ]
               /\ UNCHANGED << topology, tear, delete, overlapped >>
  BY DEF Typed, TypeOK
<1>4. CASE BeginRun(r)
  <2> DEFINE rec == [ task[r] EXCEPT !.pc = "load" ]
  <2>1. /\ rec \in TaskRec /\ rec.pc = "load" /\ rec.i = task[r].i
        /\ rec.ready = task[r].ready /\ rec.failed = task[r].failed
    BY <1>2 DEF TaskRec, RunPc, Writing
  <2>2. task' = [ task EXCEPT ![r] = rec ]
    BY <1>1, <1>4 DEF BeginRun, Goto
  <2>3. /\ run' \in [ Run -> ProvisionRun ]
        /\ run'[r].qms_ready = run[r].qms_ready
        /\ run[r].state # "NO_ROW"
        /\ \A s \in Run \ {r} : run'[s] = run[s]
    BY <1>1, <1>2, <1>4 DEF BeginRun, CanWrite, ProvisionRun
  <2>4. Alive(r) /\ task[r].pc # "finalize"
    BY <1>4 DEF BeginRun, Alive
  <2> HIDE DEF rec
  <2>5. task' \in [ Run -> TaskRec ] /\ \A s \in Run : Tallied(s)'
    BY <2>1, <2>2, <2>3, <2>4, GotoType
  <2> QED
    BY <1>1, <1>4, <2>3, <2>5 DEF BeginRun
<1>5. CASE LoadQm(r)
  <2>1. CASE task' = [ task EXCEPT ![r] = CountFailed(r) ]
    <3>1. Alive(r) /\ task[r].pc # "finalize" /\ UNCHANGED run
      BY <1>5 DEF LoadQm, Alive
    <3> QED
      BY <1>1, <1>5, <2>1, <3>1, CountKeeps DEF LoadQm
  <2>2. CASE task' = [ task EXCEPT ![r] = CountReady(r) ]
    <3>1. Alive(r) /\ task[r].pc # "finalize" /\ UNCHANGED run
      BY <1>5 DEF LoadQm, Alive
    <3> QED
      BY <1>1, <1>5, <2>2, <3>1, CountKeeps DEF LoadQm
  <2>3. CASE task' = [ task EXCEPT ![r] = [ task[r] EXCEPT !.pc = "apply" ] ]
    <3> DEFINE rec == [ task[r] EXCEPT !.pc = "apply" ]
    <3>1. /\ rec \in TaskRec /\ rec.pc = "apply" /\ rec.i = task[r].i
          /\ rec.ready = task[r].ready /\ rec.failed = task[r].failed
      BY <1>2, Sizes DEF TaskRec, RunPc, Writing
    <3>2. task' = [ task EXCEPT ![r] = rec ]
      BY <1>1, <1>5, <2>3 DEF LoadQm, Goto
    <3>3. Alive(r) /\ task[r].pc # "finalize" /\ UNCHANGED run
      BY <1>5, <2>3 DEF LoadQm, Alive
    <3> HIDE DEF rec
    <3>4. task' \in [ Run -> TaskRec ] /\ \A s \in Run : Tallied(s)'
      BY <1>1, <3>1, <3>2, <3>3, GotoType
    <3> QED
      BY <1>1, <1>5, <2>3, <3>3, <3>4 DEF LoadQm
  <2> QED
    BY <1>1, <1>5, <2>1, <2>2, <2>3 DEF LoadQm
<1>6. CASE ApplyYaml(r)
  <2>0. PICK ok \in BOOLEAN, effect \in BOOLEAN :
          /\ task' = [ task EXCEPT ![r].pc = "record", ![r].ok = ok ]
          /\ cluster' = IF effect
                        THEN [ cluster EXCEPT ![task[r].i] =
                                 @ \cup { Manifests[task[r].k] } ]
                        ELSE cluster
    BY <1>6 DEF ApplyYaml
  <2> DEFINE rec == [ task[r] EXCEPT !.pc = "record", !.ok = ok ]
  <2>1. /\ rec \in TaskRec /\ rec.pc = "record" /\ rec.i = task[r].i
        /\ rec.ready = task[r].ready /\ rec.failed = task[r].failed
    BY <1>2, Sizes DEF TaskRec, RunPc, Writing
  <2>2. task' = [ task EXCEPT ![r] = rec ]
    BY <1>1, <1>6, <2>0 DEF ApplyYaml, Goto
  <2>3. Alive(r) /\ task[r].pc # "finalize" /\ UNCHANGED run
    BY <1>6, <2>0 DEF ApplyYaml, Alive
  <2> HIDE DEF rec
  <2>4. task' \in [ Run -> TaskRec ] /\ \A s \in Run : Tallied(s)'
    BY <1>1, <2>1, <2>2, <2>3, GotoType
  <2>5. cluster' \in [ QM -> SUBSET Kind ]
    BY <1>1, <1>2, <2>0, Kinds DEF TaskRec
  <2> QED
    BY <2>5, <1>1, <1>6, <2>0, <2>3, <2>4 DEF ApplyYaml
<1>7. CASE RecordApply(r)
  <2>1. CASE ~ task[r].ok
    <3>1. task' = [ task EXCEPT ![r] = CountFailed(r) ] /\ UNCHANGED run
      BY <1>7, <2>1 DEF RecordApply
    <3>2. Alive(r) /\ task[r].pc # "finalize"
      BY <1>7, <2>1 DEF RecordApply, Alive
    <3>3. task' \in [ Run -> TaskRec ] /\ \A s \in Run : Tallied(s)'
      BY <1>1, <3>1, <3>2, CountKeeps
    <3> QED
      BY <1>1, <1>7, <2>1, <3>1, <3>3 DEF RecordApply
  <2>2. CASE task[r].ok /\ task[r].k = K
    <3> DEFINE rec == [ task[r] EXCEPT !.pc = "poll", !.k = 1 ]
    <3>1. /\ rec \in TaskRec /\ rec.pc = "poll" /\ rec.i = task[r].i
          /\ rec.ready = task[r].ready /\ rec.failed = task[r].failed
      <4>1. 1 \in 1 .. K /\ "poll" \in RunPc
        BY Sizes DEF RunPc
      <4> QED
        BY <1>2, <4>1 DEF TaskRec
    <3>2. task' = [ task EXCEPT ![r] = rec ]
      BY <1>1, <1>2, <1>7, <2>2 DEF RecordApply, TaskRec
    <3>3. Alive(r) /\ task[r].pc # "finalize" /\ UNCHANGED run
      BY <1>7, <2>2 DEF RecordApply, Alive
    <3> HIDE DEF rec
    <3>4. task' \in [ Run -> TaskRec ] /\ \A s \in Run : Tallied(s)'
      BY <1>1, <3>1, <3>2, <3>3, GotoType
    <3> QED
      BY <1>1, <1>7, <2>2, <3>3, <3>4 DEF RecordApply
  <2>3. CASE task[r].ok /\ task[r].k # K
    <3> DEFINE rec == [ task[r] EXCEPT !.pc = "apply", !.k = task[r].k + 1 ]
    <3>1. /\ rec \in TaskRec /\ rec.pc = "apply" /\ rec.i = task[r].i
          /\ rec.ready = task[r].ready /\ rec.failed = task[r].failed
      <4>1. task[r].k + 1 \in 1 .. K /\ "apply" \in RunPc
        BY <1>2, <2>3, Sizes DEF TaskRec, RunPc
      <4> QED
        BY <1>2, <4>1 DEF TaskRec
    <3>2. task' = [ task EXCEPT ![r] = rec ]
      BY <1>1, <1>2, <1>7, <2>3 DEF RecordApply, TaskRec
    <3>3. Alive(r) /\ task[r].pc # "finalize" /\ UNCHANGED run
      BY <1>7, <2>3 DEF RecordApply, Alive
    <3> HIDE DEF rec
    <3>4. task' \in [ Run -> TaskRec ] /\ \A s \in Run : Tallied(s)'
      BY <1>1, <3>1, <3>2, <3>3, GotoType
    <3> QED
      BY <1>1, <1>7, <2>3, <3>3, <3>4 DEF RecordApply
  <2> QED
    BY <1>2, <2>1, <2>2, <2>3 DEF TaskRec
<1>8. CASE WaitForDeployment(r)
  <2>1. CASE Goto(r, "pod")
    <3> DEFINE rec == [ task[r] EXCEPT !.pc = "pod" ]
    <3>1. /\ rec \in TaskRec /\ rec.pc = "pod" /\ rec.i = task[r].i
          /\ rec.ready = task[r].ready /\ rec.failed = task[r].failed
      BY <1>2, Sizes DEF TaskRec, RunPc, Writing
    <3>2. task' = [ task EXCEPT ![r] = rec ]
      BY <1>1, <1>8, <2>1 DEF WaitForDeployment, Goto
    <3>3. Alive(r) /\ task[r].pc # "finalize" /\ UNCHANGED run
      BY <1>8, <2>1 DEF WaitForDeployment, Alive
    <3> HIDE DEF rec
    <3>4. task' \in [ Run -> TaskRec ] /\ \A s \in Run : Tallied(s)'
      BY <1>1, <3>1, <3>2, <3>3, GotoType
    <3> QED
      BY <1>1, <1>8, <2>1, <3>3, <3>4 DEF WaitForDeployment
  <2>2. CASE Goto(r, "timed_out")
    <3> DEFINE rec == [ task[r] EXCEPT !.pc = "timed_out" ]
    <3>1. /\ rec \in TaskRec /\ rec.pc = "timed_out" /\ rec.i = task[r].i
          /\ rec.ready = task[r].ready /\ rec.failed = task[r].failed
      BY <1>2, Sizes DEF TaskRec, RunPc, Writing
    <3>2. task' = [ task EXCEPT ![r] = rec ]
      BY <1>1, <1>8, <2>2 DEF WaitForDeployment, Goto
    <3>3. Alive(r) /\ task[r].pc # "finalize" /\ UNCHANGED run
      BY <1>8, <2>2 DEF WaitForDeployment, Alive
    <3> HIDE DEF rec
    <3>4. task' \in [ Run -> TaskRec ] /\ \A s \in Run : Tallied(s)'
      BY <1>1, <3>1, <3>2, <3>3, GotoType
    <3> QED
      BY <1>1, <1>8, <2>2, <3>3, <3>4 DEF WaitForDeployment
  <2> QED
    BY <1>8, <2>1, <2>2 DEF WaitForDeployment
<1>9. CASE RecordTimeout(r)
  <2>1. task' = [ task EXCEPT ![r] = CountFailed(r) ] /\ UNCHANGED run
    BY <1>9 DEF RecordTimeout
  <2>2. Alive(r) /\ task[r].pc # "finalize"
    BY <1>9 DEF RecordTimeout, Alive
  <2>3. task' \in [ Run -> TaskRec ] /\ \A s \in Run : Tallied(s)'
    BY <1>1, <2>1, <2>2, CountKeeps
  <2> QED
    BY <1>1, <1>9, <2>1, <2>3 DEF RecordTimeout
<1>10. CASE GetPodName(r)
  <2>0. PICK named \in BOOLEAN :
          task' = [ task EXCEPT ![r].pc = "mark", ![r].ok = named ]
    BY <1>10 DEF GetPodName
  <2> DEFINE rec == [ task[r] EXCEPT !.pc = "mark", !.ok = named ]
  <2>1. /\ rec \in TaskRec /\ rec.pc = "mark" /\ rec.i = task[r].i
        /\ rec.ready = task[r].ready /\ rec.failed = task[r].failed
    BY <1>2, Sizes DEF TaskRec, RunPc, Writing
  <2>2. task' = [ task EXCEPT ![r] = rec ]
    BY <1>1, <1>10, <2>0 DEF GetPodName, Goto
  <2>3. Alive(r) /\ task[r].pc # "finalize" /\ UNCHANGED run
    BY <1>10, <2>0 DEF GetPodName, Alive
  <2> HIDE DEF rec
  <2>4. task' \in [ Run -> TaskRec ] /\ \A s \in Run : Tallied(s)'
    BY <1>1, <2>1, <2>2, <2>3, GotoType
  <2> QED
    BY <1>1, <1>10, <2>0, <2>3, <2>4 DEF GetPodName
<1>11. CASE MarkReady(r)
  <2>1. Alive(r) /\ task[r].pc # "finalize" /\ CanWrite(r)
    BY <1>11 DEF MarkReady, Alive
  <2>2. /\ CountReady(r) \in TaskRec /\ task[r].i \in QM
        /\ CountReady(r).ready = task[r].ready + 1
        /\ CountReady(r).ready + CountReady(r).failed = CountReady(r).i - 1
        /\ CountReady(r).pc \in { "load", "finalize" }
        /\ CountReady(r).pc = "finalize" <=> CountReady(r).i = N + 1
    <3>1. CountReady(r) \in { CountReady(r), CountFailed(r) }
      OBVIOUS
    <3> QED
      BY <2>1, <3>1, CountType, CountReadyCounts
  <2>3. run[r].qms_ready <= task[r].ready /\ run[r].qms_ready + 1 \in 0 .. N
    <3>1. run[r].qms_ready <= task[r].ready
      BY <1>2, <2>1 DEF Tallied, CanWrite
    <3>2. task[r].ready + 1 \in 0 .. N
      BY <2>2 DEF TaskRec
    <3> QED
      BY <1>2, <3>1, <3>2, Sizes DEF TaskRec, ProvisionRun
  <2>4. /\ run' \in [ Run -> ProvisionRun ]
        /\ run'[r].qms_ready = run[r].qms_ready + 1
        /\ \A s \in Run \ {r} : run'[s] = run[s]
    BY <1>1, <1>2, <1>11, <2>3 DEF MarkReady, ProvisionRun
  <2>5. run'[r].qms_ready <= CountReady(r).ready
    BY <1>2, <2>2, <2>3, <2>4 DEF TaskRec, ProvisionRun
  <2>6. task' = [ task EXCEPT ![r] = CountReady(r) ]
    BY <1>11 DEF MarkReady
  <2>7. task' \in [ Run -> TaskRec ] /\ \A s \in Run : Tallied(s)'
    BY <2>2, <2>4, <2>5, <2>6, MoveType
  <2>8. rows' \in [ QM -> RowRec ]
    BY <1>1, <1>2, <1>11, <2>2 DEF MarkReady, RowRec, TaskRec
  <2> QED
    BY <1>1, <1>11, <2>4, <2>7, <2>8 DEF MarkReady
<1>12. CASE WriteFails(r)
  <2>1. CASE Goto(r, "raised") /\ task[r].pc \in Writing
    <3> DEFINE rec == [ task[r] EXCEPT !.pc = "raised" ]
    <3>1. /\ rec \in TaskRec /\ rec.pc = "raised" /\ rec.i = task[r].i
          /\ rec.ready = task[r].ready /\ rec.failed = task[r].failed
      BY <1>2, Sizes DEF TaskRec, RunPc, Writing
    <3>2. task' = [ task EXCEPT ![r] = rec ]
      BY <1>1, <1>12, <2>1 DEF WriteFails, Goto
    <3>3. Alive(r) /\ task[r].pc # "finalize" /\ UNCHANGED run
      BY <1>12, <2>1 DEF WriteFails, Alive, Writing
    <3> HIDE DEF rec
    <3>4. task' \in [ Run -> TaskRec ] /\ \A s \in Run : Tallied(s)'
      BY <1>1, <3>1, <3>2, <3>3, GotoType
    <3> QED
      BY <1>1, <1>12, <2>1, <3>3, <3>4 DEF WriteFails
  <2>2. CASE task' = [ task EXCEPT ![r] = Over("dead") ]
    <3>1. Over("dead") \in TaskRec /\ Over("dead").pc = "dead" /\ UNCHANGED run
      BY <1>12, OverType DEF WriteFails
    <3>2. task' \in [ Run -> TaskRec ] /\ \A s \in Run : Tallied(s)'
      BY <1>1, <2>2, <3>1, MoveType
    <3> QED
      BY <1>1, <1>12, <3>2 DEF WriteFails
  <2> QED
    BY <1>12, <2>1, <2>2 DEF WriteFails
<1>13. CASE LogException(r)
  <2>1. task' = [ task EXCEPT ![r] = CountFailed(r) ] /\ UNCHANGED run
    BY <1>13 DEF LogException
  <2>2. Alive(r) /\ task[r].pc # "finalize"
    BY <1>13 DEF LogException, Alive
  <2>3. task' \in [ Run -> TaskRec ] /\ \A s \in Run : Tallied(s)'
    BY <1>1, <2>1, <2>2, CountKeeps
  <2> QED
    BY <1>1, <1>13, <2>1, <2>3 DEF LogException
<1>14. CASE FinalizeRun(r)
  <2>1. Over("done") \in TaskRec /\ Over("done").pc = "done"
    BY OverType
  <2>2. /\ run' \in [ Run -> ProvisionRun ]
        /\ \A s \in Run \ {r} : run'[s] = run[s]
    BY <1>1, <1>2, <1>14
    DEF FinalizeRun, ProvisionRun, VerdictOn, Verdict, TaskRec
  <2>3. task' \in [ Run -> TaskRec ] /\ \A s \in Run : Tallied(s)'
    BY <1>14, <2>1, <2>2, MoveType DEF FinalizeRun
  <2> QED
    BY <1>1, <1>14, <2>2, <2>3 DEF FinalizeRun
<1> QED
  BY <1>4, <1>5, <1>6, <1>7, <1>8, <1>9, <1>10, <1>11, <1>12, <1>13, <1>14
  DEF RunStep

LEMMA TeardownStepType ==
  ASSUME Typed, NEW t \in Teardown, BeginTeardown(t) \/ TeardownStep(t)
  PROVE  Typed'
<1>1. /\ tear \in [ Teardown -> TearRec ] /\ rows \in [ QM -> RowRec ]
      /\ cluster \in [ QM -> SUBSET Kind ] /\ overlapped \subseteq Run
  BY DEF Typed, TypeOK
<1>2. tear[t] \in TearRec
  BY <1>1
<1>3. SUFFICES /\ tear' \in [ Teardown -> TearRec ]
               /\ rows' \in [ QM -> RowRec ]
               /\ cluster' \in [ QM -> SUBSET Kind ]
               /\ overlapped' \subseteq Run
               /\ UNCHANGED << topology, run, task, delete >>
  BY DEF Typed, TypeOK, Tallied, Alive
<1>4. CASE BeginTeardown(t)
  BY <1>1, <1>2, <1>4 DEF BeginTeardown, TearRec
<1>5. CASE DeleteResource(t)
  BY <1>1, <1>2, <1>5 DEF DeleteResource, TearRec
<1>6. CASE AuditDeletion(t)
  <2>1. CASE tear[t].k < K
    <3>1. tear[t].k + 1 \in 1 .. K
      BY <1>2, <2>1, Sizes DEF TearRec
    <3>2. [ tear[t] EXCEPT !.pc = "delete", !.open = TRUE,
                           !.k = tear[t].k + 1 ] \in TearRec
      BY <1>2, <3>1 DEF TearRec
    <3> QED
      BY <1>1, <1>6, <2>1, <3>2 DEF AuditDeletion
  <2>2. CASE ~ (tear[t].k < K) /\ tear[t].i < N
    <3>1. tear[t].i + 1 \in QM /\ 1 \in 1 .. K
      BY <1>2, <2>2, Sizes DEF TearRec, QM
    <3>2. [ tear[t] EXCEPT !.pc = "delete", !.open = TRUE, !.k = 1,
                           !.i = tear[t].i + 1 ] \in TearRec
      BY <1>2, <3>1 DEF TearRec
    <3> QED
      BY <1>1, <1>6, <2>2, <3>2 DEF AuditDeletion
  <2>3. CASE ~ (tear[t].k < K) /\ ~ (tear[t].i < N)
    <3>1. [ tear[t] EXCEPT !.pc = "commit", !.open = TRUE ] \in TearRec
      BY <1>2 DEF TearRec
    <3> QED
      BY <1>1, <1>6, <2>3, <3>1 DEF AuditDeletion
  <2> QED
    BY <2>1, <2>2, <2>3
<1>7. CASE CommitTeardown(t)
  <2>1. tear' \in [ Teardown -> TearRec ]
    BY <1>1, <1>7, OverType DEF CommitTeardown
  <2>2. rows' \in [ QM -> RowRec ]
    BY <1>7 DEF CommitTeardown, RowRec
  <2> QED
    BY <1>1, <1>7, <2>1, <2>2 DEF CommitTeardown
<1>8. CASE TeardownRaises(t)
  BY <1>1, <1>8, OverType DEF TeardownRaises
<1> QED
  BY <1>4, <1>5, <1>6, <1>7, <1>8 DEF TeardownStep

LEMMA TypedStep ==
  ASSUME Typed, [Next]_vars
  PROVE  Typed'
<1>1. /\ task \in [ Run -> TaskRec ] /\ run \in [ Run -> ProvisionRun ]
      /\ tear \in [ Teardown -> TearRec ] /\ overlapped \subseteq Run
      /\ \A r \in Run : Tallied(r)
  BY DEF Typed, TypeOK
<1>2. CASE UNCHANGED vars
  BY <1>2 DEF vars, Typed, TypeOK, Tallied, Alive
<1>3. CASE CreateTopology
  BY <1>3 DEF CreateTopology, Typed, TypeOK, Tallied, Alive
<1>4. ASSUME NEW r \in Run, StartProvisionRun(r) PROVE Typed'
  <2>1. task[r] = Idle /\ run[r] = NoRow
    BY <1>1, <1>4 DEF StartProvisionRun, Tallied
  <2>2. PICK dry \in BOOLEAN :
          task' = [ task EXCEPT ![r] = Coroutine("start", dry) ]
    BY <1>4 DEF StartProvisionRun
  <2> DEFINE rec == Coroutine("start", dry)
  <2>3. /\ rec \in TaskRec /\ rec.pc = "start"
        /\ rec.ready = 0 /\ rec.failed = 0 /\ rec.i = 1
    BY Sizes DEF TaskRec, RunPc, Coroutine
  <2>4. task' = [ task EXCEPT ![r] = rec ]
    BY <2>2
  <2>5. /\ run' \in [ Run -> ProvisionRun ] /\ run'[r].qms_ready = 0
        /\ \A s \in Run \ {r} : run'[s] = run[s]
    BY <1>1, <1>4, <2>1 DEF StartProvisionRun, NoRow, ProvisionRun
  <2> HIDE DEF rec
  <2>6. /\ rec.ready + rec.failed = rec.i - 1
        /\ rec.pc = "finalize" <=> rec.i = N + 1
        /\ run'[r].qms_ready <= rec.ready
    BY <2>3, <2>5, Sizes
  <2>7. task' \in [ Run -> TaskRec ] /\ \A s \in Run : Tallied(s)'
    BY <2>3, <2>4, <2>5, <2>6, MoveType
  <2> QED
    BY <1>1, <1>4, <2>5, <2>7 DEF StartProvisionRun, Typed, TypeOK
<1>5. CASE CheckDelete \/ DeleteRaises
  BY <1>5 DEF CheckDelete, DeleteRaises, Typed, TypeOK, Tallied, Alive
<1>6. CASE DeleteTopology
  <2>1. NoRow \in ProvisionRun /\ rows' \in [ QM -> RowRec ]
    BY <1>6, Sizes DEF DeleteTopology, NoRow, ProvisionRun, NotReady, RowRec
  <2>2. run' \in [ Run -> ProvisionRun ] /\ \A r \in Run : run'[r] = NoRow
    BY <1>6, <2>1 DEF DeleteTopology
  <2>3. \A r \in Run : Tallied(r)'
    BY <1>1, <1>6, <2>2 DEF DeleteTopology, Tallied, Alive, NoRow
  <2> QED
    BY <1>6, <2>1, <2>2, <2>3 DEF DeleteTopology, Typed, TypeOK
<1>7. CASE Crash
  <2>1. /\ task' \in [ Run -> TaskRec ] /\ tear' \in [ Teardown -> TearRec ]
    BY <1>1, <1>7, OverType DEF Crash
  <2>2. \A r \in Run : Tallied(r)'
    BY <1>1, <1>7, OverType DEF Crash, Tallied, Alive
  <2> QED
    BY <1>7, <2>1, <2>2 DEF Crash, Typed, TypeOK
<1> QED
  BY <1>2, <1>3, <1>4, <1>5, <1>6, <1>7, RunStepType, TeardownStepType DEF Next

LEMMA TypedInit == Init => Typed
<1>1. NoRow \in ProvisionRun
  BY Sizes DEF NoRow, ProvisionRun
<1> QED
  BY <1>1, IdleType DEF Init, Typed, TypeOK, Tallied, Alive, Idle, Coroutine

\* Type correctness of a topology's life.
THEOREM ProvisioningTypeCorrect == Spec => []TypeOK
<1>1. Spec => []Typed
  BY TypedInit, TypedStep, PTL DEF Spec
<1> QED
  BY <1>1, PTL DEF Typed

-----------------------------------------------------------------------------
(* Readiness. *)

\* What another coroutine relies on survives a step that only adds resources
\* and readiness.
LEMMA SolidGrows ==
  ASSUME Typed, Typed', NEW s \in Run, Solid(s),
         task'[s] = task[s], UNCHANGED tear,
         overlapped \subseteq overlapped',
         \A q \in QM : cluster[q] \subseteq cluster'[q],
         \A q \in QM : rows[q].is_ready => rows'[q].is_ready,
         run'[s].state # "NO_ROW" => run[s].state # "NO_ROW"
  PROVE  Solid(s)'
<1>1. SUFFICES ASSUME Alive(s)', s \notin overlapped' PROVE Solid(s)'
  BY DEF Solid
<1>2. Alive(s) /\ s \notin overlapped
  BY <1>1 DEF Alive
<1>3. task[s] \in TaskRec /\ cluster' \in [ QM -> SUBSET Kind ]
  BY DEF Typed, TypeOK
<1>4. \A q \in QM : Stands(q) => Stands(q)'
  BY <1>3 DEF Stands
<1>5. task[s].pc \in OnCluster => task[s].i \in QM
  BY <1>2, <1>3, Sizes DEF Typed, Tallied, OnCluster, TaskRec, QM
<1>6. \A t \in Teardown : ~ TearingDown(t)'
  BY <1>2 DEF Solid, TearingDown
<1>7. /\ task[s].pc \in { "start", "load" } => task[s].k = 1
      /\ task[s].pc \in OnCluster => ~ task[s].dry
  BY <1>2 DEF Solid
<1>8. /\ task[s].pc \in { "apply", "record" } =>
           \A j \in 1 .. K : j < task[s].k => Manifests[j] \in cluster'[task[s].i]
      /\ task[s].pc = "record" /\ task[s].ok =>
           Manifests[task[s].k] \in cluster'[task[s].i]
  BY <1>2, <1>5 DEF Solid, OnCluster
<1>9. task[s].pc \in { "poll", "timed_out", "pod", "mark" } =>
        cluster'[task[s].i] = Kind
  BY <1>2, <1>3, <1>5 DEF Solid, OnCluster
<1>10. ~ task[s].dry /\ task[s].failed = 0 /\ run'[s].state # "NO_ROW" =>
         \A q \in QM : q < task[s].i => Stands(q)'
  BY <1>2, <1>4 DEF Solid
<1> QED
  BY <1>6, <1>7, <1>8, <1>9, <1>10 DEF Solid, K, Kind

\* A coroutine that gave a queue manager up promises nothing about the rest.
LEMMA SolidGivesUp ==
  ASSUME Typed, NEW r \in Run, Alive(r), task[r].pc # "finalize", Solid(r),
         task' = [ task EXCEPT ![r] = CountFailed(r) ],
         UNCHANGED << tear, overlapped >>
  PROVE  Solid(r)'
<1>1. task \in [ Run -> TaskRec ] /\ task[r] \in TaskRec
  BY DEF Typed, TypeOK
<1>2. /\ task'[r].failed # 0
      /\ task'[r].k = 1
      /\ task'[r].pc \in { "load", "finalize" }
  BY <1>1 DEF CountFailed, NextQm, TaskRec
<1>3. r \notin overlapped => \A t \in Teardown : ~ TearingDown(t)'
  BY DEF Solid, TearingDown
<1> QED
  BY <1>2, <1>3 DEF Solid, OnCluster

Ready == SeenAll /\ ReadyIsBacked

LEMMA RunStepSolid ==
  ASSUME Typed, Typed', \A s \in Run : Solid(s), Ready,
         NEW r \in Run, RunStep(r)
  PROVE  (\A s \in Run : Solid(s))' /\ Ready'
<1>1. /\ task \in [ Run -> TaskRec ] /\ task[r] \in TaskRec
      /\ run \in [ Run -> ProvisionRun ] /\ rows \in [ QM -> RowRec ]
      /\ cluster \in [ QM -> SUBSET Kind ] /\ cluster' \in [ QM -> SUBSET Kind ]
      /\ rows' \in [ QM -> RowRec ]
      /\ Tallied(r) /\ Solid(r)
  BY DEF Typed, TypeOK
<1>2. Alive(r) /\ UNCHANGED << topology, tear, overlapped >>
  BY DEF RunStep, BeginRun, LoadQm, ApplyYaml, RecordApply, WaitForDeployment,
         RecordTimeout, GetPodName, MarkReady, WriteFails, LogException,
         FinalizeRun, Alive, Writing
<1>3. \A s \in Run \ {r} :
        task'[s] = task[s] /\ run'[s] = run[s]
  BY <1>1 DEF RunStep, BeginRun, LoadQm, ApplyYaml, RecordApply, Goto,
              WaitForDeployment, RecordTimeout, GetPodName, MarkReady, WriteFails,
              LogException, FinalizeRun
<1>4. /\ \A q \in QM : cluster[q] \subseteq cluster'[q]
      /\ \A q \in QM : rows[q].is_ready => rows'[q].is_ready
      /\ MarkReady(r) \/ UNCHANGED rows
  <2>1. CASE ApplyYaml(r)
    BY <1>1, <2>1 DEF ApplyYaml
  <2>2. CASE MarkReady(r)
    BY <1>1, <2>2 DEF MarkReady
  <2>3. CASE ~ ApplyYaml(r) /\ ~ MarkReady(r)
    BY <2>3 DEF RunStep, BeginRun, LoadQm, RecordApply, WaitForDeployment,
         RecordTimeout, GetPodName, WriteFails, LogException, FinalizeRun
  <2> QED
    BY <2>1, <2>2, <2>3
<1>5. \A s \in Run \ {r} : Solid(s)'
  BY <1>2, <1>3, <1>4, SolidGrows
<1>6. SeenAll'
  BY <1>2 DEF Ready, SeenAll, TearingDown
<1>7. MarkReady(r) /\ r \notin overlapped => cluster[task[r].i] = Kind
  BY <1>1, <1>2 DEF MarkReady, Solid
<1>8. ReadyIsBacked'
  <2>1. SUFFICES ASSUME overlapped = {},
                        \A t \in Teardown : tear[t].pc \in { "free", "done" },
                        NEW q \in QM, rows'[q].is_ready
                 PROVE  Stands(q)'
    BY <1>2 DEF ReadyIsBacked
  <2>2. rows[q].is_ready => cluster[q] = Kind
    BY <2>1 DEF Ready, ReadyIsBacked, Stands
  <2>3. cluster[q] = Kind
    <3>1. CASE MarkReady(r)
      BY <1>1, <1>7, <2>1, <2>2, <3>1 DEF MarkReady
    <3>2. CASE UNCHANGED rows
      BY <2>1, <2>2, <3>2
    <3> QED
      BY <1>4, <3>1, <3>2
  <2> QED
    BY <1>1, <1>4, <2>1, <2>3 DEF Stands
<1>9. r \notin overlapped => \A t \in Teardown : ~ TearingDown(t)'
  BY <1>1, <1>2 DEF Solid, TearingDown
<1>10. Solid(r)'
  <2>1. CASE BeginRun(r)
    <3>1. /\ task'[r].pc = "load" /\ task'[r].k = task[r].k
          /\ task'[r].dry = task[r].dry /\ task'[r].failed = task[r].failed
          /\ task'[r].i = task[r].i
          /\ task[r].pc = "start" /\ run[r].state # "NO_ROW"
          /\ UNCHANGED << rows, cluster >>
      BY <1>1, <2>1 DEF BeginRun, Goto, TaskRec, CanWrite
    <3> QED
      BY <1>1, <1>2, <1>9, <3>1 DEF Solid, OnCluster, Stands
  <2>2. CASE LoadQm(r)
    <3>1. CASE task' = [ task EXCEPT ![r] = CountFailed(r) ]
      BY <1>1, <1>2, <2>2, <3>1, SolidGivesUp DEF LoadQm
    <3>2. CASE /\ task[r].dry
               /\ task' = [ task EXCEPT ![r] = CountReady(r) ]
      <4>1. /\ task'[r].pc \in { "load", "finalize" } /\ task'[r].k = 1
            /\ task'[r].dry = TRUE
        BY <1>1, <3>2 DEF CountReady, NextQm, TaskRec
      <4>2. task'[r].dry
        BY <4>1
      <4>3. task'[r].pc \notin OnCluster
        BY <4>1 DEF OnCluster
      <4> QED
        <5>1. /\ task'[r].pc \in { "start", "load" } => task'[r].k = 1
              /\ task'[r].pc \notin { "apply", "record" }
              /\ task'[r].pc # "record"
              /\ task'[r].pc \notin { "poll", "timed_out", "pod", "mark" }
          BY <4>1
        <5> QED
          BY <1>2, <1>9, <4>2, <4>3, <5>1 DEF Solid
    <3>3. CASE /\ ~ task[r].dry
               /\ task' = [ task EXCEPT ![r] = [ task[r] EXCEPT !.pc = "apply" ] ]
      <4>1. /\ task'[r].pc = "apply" /\ task'[r].k = task[r].k
            /\ task'[r].dry = task[r].dry /\ task'[r].failed = task[r].failed
            /\ task'[r].i = task[r].i
            /\ task[r].pc = "load"
            /\ UNCHANGED << run, rows, cluster >>
        BY <1>1, <2>2, <3>3 DEF LoadQm, TaskRec
      <4>2. r \notin overlapped => task'[r].k = 1
        BY <1>1, <1>2, <4>1 DEF Solid
      <4>3. \A j \in 1 .. K : ~ (j < 1)
        BY Sizes
      <4> QED
        BY <1>1, <1>2, <1>9, <3>3, <4>1, <4>2, <4>3 DEF Solid, OnCluster, Stands
    <3> QED
      BY <2>2, <3>1, <3>2, <3>3 DEF LoadQm
  <2>3. CASE ApplyYaml(r)
    <3>1. PICK ok \in BOOLEAN, effect \in BOOLEAN :
            /\ ok => effect
            /\ task' = [ task EXCEPT ![r].pc = "record", ![r].ok = ok ]
            /\ cluster' = IF effect
                          THEN [ cluster EXCEPT ![task[r].i] =
                                   @ \cup { Manifests[task[r].k] } ]
                          ELSE cluster
      BY <2>3 DEF ApplyYaml
    <3>2. /\ task'[r].pc = "record" /\ task'[r].k = task[r].k
          /\ task'[r].dry = task[r].dry /\ task'[r].failed = task[r].failed
          /\ task'[r].i = task[r].i /\ task'[r].ok = ok
      BY <1>1, <3>1 DEF TaskRec
    <3>3. task[r].pc = "apply" /\ UNCHANGED << run, rows >>
      BY <2>3 DEF ApplyYaml
    <3>4. task[r].i \in QM
      BY <1>1, <1>2, <3>3, Sizes DEF Tallied, TaskRec, QM
    <3>5. /\ \A j \in 1 .. K : Manifests[j] \in cluster[task[r].i]
                                 => Manifests[j] \in cluster'[task[r].i]
          /\ ok => Manifests[task[r].k] \in cluster'[task[r].i]
      BY <1>1, <3>1, <3>4
    <3>6. \A q \in QM : Stands(q) => Stands(q)'
      BY <1>1, <1>4, <3>3 DEF Stands
    <3> QED
      BY <1>1, <1>2, <1>9, <3>2, <3>3, <3>5, <3>6 DEF Solid, OnCluster
  <2>4. CASE RecordApply(r)
    <3>1. CASE ~ task[r].ok
      <4>1. task' = [ task EXCEPT ![r] = CountFailed(r) ]
        BY <2>4, <3>1 DEF RecordApply
      <4>2. task[r].pc # "finalize"
        BY <2>4 DEF RecordApply
      <4> QED
        BY <1>1, <1>2, <4>1, <4>2, SolidGivesUp
    <3>2. CASE task[r].ok /\ task[r].k = K
      <4>1. /\ task'[r].pc = "poll"
            /\ task'[r].dry = task[r].dry /\ task'[r].failed = task[r].failed
            /\ task'[r].i = task[r].i
            /\ task[r].pc = "record"
            /\ UNCHANGED << run, rows, cluster >>
        BY <1>1, <2>4, <3>2 DEF RecordApply, TaskRec
      <4>2. task[r].i \in QM
        BY <1>1, <1>2, <4>1, Sizes DEF Tallied, TaskRec, QM
      <4>3. r \notin overlapped => cluster[task[r].i] = Kind
        <5>1. SUFFICES ASSUME r \notin overlapped
                       PROVE  \A x \in Kind : x \in cluster[task[r].i]
          BY <1>1, <4>2
        <5>2. \A j \in 1 .. K : j < K \/ j = K
          BY Sizes
        <5>3. \A j \in 1 .. K : Manifests[j] \in cluster[task[r].i]
          BY <1>1, <1>2, <3>2, <4>1, <5>1, <5>2 DEF Solid
        <5> QED
          BY <5>3, Kinds
      <4> QED
        BY <1>1, <1>2, <1>9, <4>1, <4>3 DEF Solid, OnCluster, Stands
    <3>3. CASE task[r].ok /\ task[r].k # K
      <4>1. /\ task'[r].pc = "apply" /\ task'[r].k = task[r].k + 1
            /\ task'[r].dry = task[r].dry /\ task'[r].failed = task[r].failed
            /\ task'[r].i = task[r].i
            /\ task[r].pc = "record"
            /\ UNCHANGED << run, rows, cluster >>
        BY <1>1, <2>4, <3>3 DEF RecordApply, TaskRec
      <4>2. \A j \in 1 .. K : j < task'[r].k => j < task[r].k \/ j = task[r].k
        <5>1. task[r].k \in Nat
          BY <1>1, Sizes DEF TaskRec
        <5> QED
          BY <4>1, <5>1
      <4>3. r \notin overlapped =>
              \A j \in 1 .. K : j < task'[r].k => Manifests[j] \in cluster[task[r].i]
        BY <1>1, <1>2, <3>3, <4>1, <4>2 DEF Solid
      <4> QED
        BY <1>1, <1>2, <1>9, <4>1, <4>3 DEF Solid, OnCluster, Stands
    <3> QED
      BY <1>1, <3>1, <3>2, <3>3 DEF TaskRec
  <2>5. CASE WaitForDeployment(r)
    <3>1. /\ task'[r].pc \in { "pod", "timed_out" }
          /\ task'[r].dry = task[r].dry /\ task'[r].failed = task[r].failed
          /\ task'[r].i = task[r].i
          /\ task[r].pc = "poll"
          /\ UNCHANGED << run, rows, cluster >>
      BY <1>1, <2>5 DEF WaitForDeployment, Goto, TaskRec
    <3> QED
      BY <1>1, <1>2, <1>9, <3>1 DEF Solid, OnCluster, Stands
  <2>6. CASE RecordTimeout(r) \/ LogException(r)
    BY <1>1, <1>2, <2>6, SolidGivesUp DEF RecordTimeout, LogException
  <2>7. CASE GetPodName(r)
    <3>1. /\ task'[r].pc = "mark"
          /\ task'[r].dry = task[r].dry /\ task'[r].failed = task[r].failed
          /\ task'[r].i = task[r].i
          /\ task[r].pc = "pod"
          /\ UNCHANGED << run, rows, cluster >>
      BY <1>1, <2>7 DEF GetPodName, TaskRec
    <3> QED
      BY <1>1, <1>2, <1>9, <3>1 DEF Solid, OnCluster, Stands
  <2>8. CASE MarkReady(r)
    <3>1. /\ task'[r].pc \in { "load", "finalize" } /\ task'[r].k = 1
          /\ task'[r].dry = task[r].dry /\ task'[r].failed = task[r].failed
          /\ task'[r].i = task[r].i + 1
          /\ task[r].pc = "mark" /\ run[r].state # "NO_ROW"
          /\ UNCHANGED cluster
      BY <1>1, <2>8 DEF MarkReady, CountReady, NextQm, TaskRec, CanWrite
    <3>2. task[r].i \in QM
      <4>1. task[r].pc = "mark"
        BY <3>1
      <4> QED
        BY <1>1, <1>2, <4>1, Sizes DEF Tallied, TaskRec, QM
    <3>3. rows'[task[r].i].is_ready = TRUE
      BY <1>1, <2>8, <3>2 DEF MarkReady
    <3>4. \A q \in QM : Stands(q) => Stands(q)'
      BY <1>4, <3>1 DEF Stands
    <3>5. r \notin overlapped => \A q \in QM : q = task[r].i => Stands(q)'
      BY <1>7, <2>8, <3>1, <3>3 DEF Stands
    <3>6. \A q \in QM : q < task'[r].i => q < task[r].i \/ q = task[r].i
      BY <3>1, <3>2 DEF QM
    <3>7. r \notin overlapped /\ ~ task'[r].dry /\ task'[r].failed = 0 =>
            \A q \in QM : q < task'[r].i => Stands(q)'
      BY <1>1, <1>2, <3>1, <3>4, <3>5, <3>6 DEF Solid
    <3> QED
      BY <1>2, <1>9, <3>1, <3>7 DEF Solid, OnCluster
  <2>9. CASE WriteFails(r)
    <3>1. CASE Goto(r, "raised")
      <4>1. /\ task'[r].pc = "raised"
            /\ task'[r].dry = task[r].dry /\ task'[r].failed = task[r].failed
            /\ task'[r].i = task[r].i
            /\ UNCHANGED << run, rows, cluster >>
        BY <1>1, <2>9, <3>1 DEF WriteFails, Goto, TaskRec
      <4> QED
        BY <1>1, <1>2, <1>9, <4>1 DEF Solid, OnCluster, Stands
    <3>2. CASE task' = [ task EXCEPT ![r] = Over("dead") ]
      BY <1>1, <3>2, OverType DEF Solid, Alive
    <3> QED
      BY <2>9, <3>1, <3>2 DEF WriteFails
  <2>10. CASE FinalizeRun(r)
    BY <1>1, <2>10, OverType DEF FinalizeRun, Solid, Alive
  <2> QED
    BY <2>1, <2>2, <2>3, <2>4, <2>5, <2>6, <2>7, <2>8, <2>9, <2>10 DEF RunStep
<1> QED
  BY <1>5, <1>6, <1>8, <1>10 DEF Ready

\* A step of a teardown shrinks the cluster, but no run relies on it then.
LEMMA TeardownStepSolid ==
  ASSUME Typed, Typed', \A s \in Run : Solid(s), Ready,
         NEW t \in Teardown, BeginTeardown(t) \/ TeardownStep(t)
  PROVE  (\A s \in Run : Solid(s))' /\ Ready'
<1>1. /\ tear \in [ Teardown -> TearRec ] /\ tear[t] \in TearRec
      /\ rows \in [ QM -> RowRec ]
  BY DEF Typed, TypeOK
<1>2. UNCHANGED << run, task >> /\ \A s \in Run : Alive(s)' <=> Alive(s)
  BY DEF BeginTeardown, TeardownStep, DeleteResource, AuditDeletion,
         CommitTeardown, TeardownRaises, Alive
<1>3. CASE BeginTeardown(t)
  <2>1. /\ overlapped' = overlapped \cup { s \in Run : Alive(s) }
        /\ UNCHANGED << rows, cluster >>
        /\ tear'[t].pc = "delete" /\ tear'[t].seen = rows
        /\ \A u \in Teardown \ {t} : tear'[u] = tear[u]
    BY <1>1, <1>3 DEF BeginTeardown, TearRec
  <2>2. \A s \in Run : Solid(s)'
    BY <1>2, <2>1 DEF Solid
  <2>3. SeenAll'
    BY <1>2, <2>1 DEF Ready, SeenAll, TearingDown
  <2>4. ReadyIsBacked'
    BY <2>1 DEF ReadyIsBacked
  <2> QED
    BY <2>2, <2>3, <2>4 DEF Ready
<1>4. CASE TeardownStep(t)
  <2>1. /\ TearingDown(t) /\ UNCHANGED overlapped
        /\ \A u \in Teardown \ {t} : tear'[u] = tear[u]
    BY <1>1, <1>4 DEF TeardownStep, DeleteResource, AuditDeletion,
                      CommitTeardown, TeardownRaises, TearingDown
  <2>2. \A s \in Run : ~ Alive(s) \/ s \in overlapped
    BY <2>1 DEF Solid
  <2>3. \A s \in Run : Solid(s)'
    BY <1>2, <2>1, <2>2 DEF Solid
  <2>4. overlapped = {} => \A s \in Run : ~ Alive(s)'
    BY <1>2, <2>2
  <2>5. CASE CommitTeardown(t)
    <3>1. /\ tear'[t].pc = "done"
          /\ rows' = [ q \in QM |->
               [ is_ready |-> rows[q].is_ready /\ ~ tear[t].seen[q].is_ready,
                 pod_name |-> rows[q].pod_name /\ ~ tear[t].seen[q].pod_name ] ]
      BY <1>1, <2>5, OverType DEF CommitTeardown
    <3>2. \A q \in QM :
            rows'[q].is_ready => rows[q].is_ready /\ ~ tear[t].seen[q].is_ready
      BY <3>1
    <3>3. SeenAll'
      BY <2>1, <2>4, <3>1, <3>2 DEF Ready, SeenAll, TearingDown
    <3>4. overlapped = {} => \A q \in QM : ~ rows'[q].is_ready
      BY <2>1, <3>2 DEF Ready, SeenAll
    <3>5. ReadyIsBacked'
      BY <2>1, <3>4 DEF ReadyIsBacked
    <3> QED
      BY <2>3, <3>3, <3>5 DEF Ready
  <2>6. CASE TeardownRaises(t)
    <3>1. tear'[t].pc = "failed" /\ UNCHANGED rows
      BY <1>1, <2>6, OverType DEF TeardownRaises
    <3>2. SeenAll'
      BY <2>1, <2>4, <3>1 DEF Ready, SeenAll, TearingDown
    <3>3. ReadyIsBacked'
      BY <3>1 DEF ReadyIsBacked
    <3> QED
      BY <2>3, <3>2, <3>3 DEF Ready
  <2>7. CASE DeleteResource(t) \/ AuditDeletion(t)
    <3>1. /\ tear'[t].pc \notin { "free", "done" }
          /\ tear'[t].seen = tear[t].seen
          /\ UNCHANGED rows
      <4>1. CASE DeleteResource(t)
        BY <1>1, <4>1 DEF DeleteResource, TearRec
      <4>2. CASE AuditDeletion(t)
        <5>1. CASE tear[t].k < K
          BY <1>1, <4>2, <5>1 DEF AuditDeletion, TearRec
        <5>2. CASE ~ (tear[t].k < K) /\ tear[t].i < N
          BY <1>1, <4>2, <5>2 DEF AuditDeletion, TearRec
        <5>3. CASE ~ (tear[t].k < K) /\ ~ (tear[t].i < N)
          BY <1>1, <4>2, <5>3 DEF AuditDeletion, TearRec
        <5> QED
          BY <5>1, <5>2, <5>3
      <4> QED
        BY <2>7, <4>1, <4>2
    <3>2. SeenAll'
      BY <2>1, <2>4, <3>1 DEF Ready, SeenAll, TearingDown
    <3>3. ReadyIsBacked'
      BY <3>1 DEF ReadyIsBacked
    <3> QED
      BY <2>3, <3>2, <3>3 DEF Ready
  <2> QED
    BY <1>4, <2>5, <2>6, <2>7 DEF TeardownStep
<1> QED
  BY <1>3, <1>4

LEMMA IInvStep ==
  ASSUME IInv, [Next]_vars
  PROVE  IInv'
<1>1. Typed /\ Typed' /\ (\A s \in Run : Solid(s)) /\ Ready
  BY TypedStep DEF IInv, Typed, Ready
<1>2. SUFFICES (\A s \in Run : Solid(s))' /\ Ready'
  BY <1>1 DEF IInv, Typed, Ready
<1>3. task \in [ Run -> TaskRec ] /\ tear \in [ Teardown -> TearRec ]
  BY <1>1 DEF Typed, TypeOK
<1>4. ASSUME UNCHANGED << rows, cluster, run, task, tear, overlapped >>
      PROVE  (\A s \in Run : Solid(s))' /\ Ready'
  BY <1>1, <1>4 DEF Solid, Ready, SeenAll, ReadyIsBacked, Alive, TearingDown, Stands
<1>5. CASE UNCHANGED vars
  BY <1>4, <1>5 DEF vars
<1>6. CASE CreateTopology \/ CheckDelete \/ DeleteRaises
  BY <1>4, <1>6 DEF CreateTopology, CheckDelete, DeleteRaises
<1>7. ASSUME NEW r \in Run, StartProvisionRun(r)
      PROVE  (\A s \in Run : Solid(s))' /\ Ready'
  <2>1. PICK dry \in BOOLEAN :
          task' = [ task EXCEPT ![r] = Coroutine("start", dry) ]
    BY <1>7 DEF StartProvisionRun
  <2>2. /\ task'[r].pc = "start" /\ task'[r].k = 1 /\ task'[r].i = 1
        /\ \A s \in Run \ {r} : task'[s] = task[s]
    BY <1>3, <2>1 DEF Coroutine
  <2>3. /\ UNCHANGED << rows, cluster, tear >>
        /\ overlapped \subseteq overlapped'
        /\ (\E t \in Teardown : TearingDown(t)) => r \in overlapped'
        /\ \A s \in Run \ {r} : run'[s] = run[s]
    BY <1>7 DEF StartProvisionRun, Typed, TypeOK
  <2>4. \A s \in Run \ {r} : Solid(s)'
    BY <1>1, <2>2, <2>3, SolidGrows
  <2>5. Solid(r)'
    <3>1. \A q \in QM : ~ (q < 1)
      BY DEF QM
    <3>2. r \notin overlapped' => \A t \in Teardown : ~ TearingDown(t)'
      BY <2>3 DEF TearingDown
    <3> QED
      BY <2>2, <3>1, <3>2 DEF Solid, OnCluster
  <2>6. SeenAll'
    BY <2>3 DEF SeenAll, TearingDown
  <2>7. ReadyIsBacked'
    BY <1>1, <2>3 DEF Ready, ReadyIsBacked, Stands
  <2> QED
    BY <2>4, <2>5, <2>6, <2>7 DEF Ready
<1>8. CASE DeleteTopology
  <2>1. /\ \A q \in QM : ~ rows'[q].is_ready
        /\ \A s \in Run : run'[s].state = "NO_ROW"
        /\ UNCHANGED << cluster, task, tear, overlapped >>
    BY <1>8 DEF DeleteTopology, NotReady, NoRow
  <2>2. \A s \in Run : Solid(s)'
    BY <1>1, <2>1 DEF Solid, Alive, TearingDown
  <2> QED
    BY <1>1, <2>1, <2>2 DEF Ready, SeenAll, ReadyIsBacked, Alive, TearingDown
<1>9. CASE Crash
  <2>1. \A s \in Run : ~ Alive(s)'
    BY <1>3, <1>9, OverType DEF Crash, Alive
  <2>2. /\ \A t \in Teardown :
             IF TearingDown(t) THEN tear'[t].pc = "failed" ELSE tear'[t] = tear[t]
        /\ UNCHANGED << rows, cluster, overlapped >>
    BY <1>3, <1>9, OverType DEF Crash
  <2>3. SeenAll'
    BY <2>2 DEF SeenAll, TearingDown
  <2>4. ReadyIsBacked'
    BY <1>1, <2>2 DEF Ready, ReadyIsBacked, Stands
  <2> QED
    BY <2>1, <2>3, <2>4 DEF Ready, Solid
<1> QED
  BY <1>1, <1>5, <1>6, <1>7, <1>8, <1>9, RunStepSolid, TeardownStepSolid DEF Next

LEMMA IInvInit == Init => IInv
BY TypedInit DEF Init, IInv, Typed, Solid, SeenAll, ReadyIsBacked, Alive, Idle,
                 Coroutine, NotReady, TearingDown, NoTeardown

LEMMA IInvHolds == Spec => []IInv
BY IInvInit, IInvStep, PTL DEF Spec

\* At rest, a queue manager whose row says ready has all its resources.
THEOREM ReadyIsBackedHolds == Spec => []ReadyIsBacked
BY IInvHolds, PTL DEF IInv

\* COMPLETED tells the truth, however many runs work on the topology.
LEMMA CompletedStep ==
  ASSUME IInv, [Next]_vars, NEW r \in Run,
         run[r].state # "COMPLETED", run'[r].state = "COMPLETED",
         ~ task[r].dry, r \notin overlapped, NEW q \in QM
  PROVE  Stands(q)
<1>1. /\ run \in [ Run -> ProvisionRun ] /\ task[r] \in TaskRec
      /\ Tallied(r) /\ Solid(r)
  BY DEF IInv, TypeOK
<1>2. FinalizeRun(r)
  <2>1. ~ UNCHANGED run
    OBVIOUS
  <2>2. ASSUME NEW s \in Run, RunStep(s) PROVE FinalizeRun(r)
    <3>1. CASE BeginRun(s) \/ MarkReady(s)
      BY <1>1, <3>1 DEF BeginRun, MarkReady, ProvisionRun
    <3>2. CASE FinalizeRun(s)
      BY <1>1, <3>2 DEF FinalizeRun
    <3> QED
      BY <2>1, <2>2, <3>1, <3>2
      DEF RunStep, LoadQm, ApplyYaml, RecordApply, WaitForDeployment,
          RecordTimeout, GetPodName, WriteFails, LogException
  <2>3. ASSUME NEW s \in Run, StartProvisionRun(s) PROVE FALSE
    BY <1>1, <2>3 DEF StartProvisionRun, ProvisionRun
  <2>4. ASSUME NEW t \in Teardown, BeginTeardown(t) \/ TeardownStep(t) PROVE FALSE
    BY <2>1, <2>4 DEF BeginTeardown, TeardownStep, DeleteResource,
                      AuditDeletion, CommitTeardown, TeardownRaises
  <2>5. ~ DeleteTopology
    BY DEF DeleteTopology, NoRow
  <2> QED
    BY <2>1, <2>2, <2>3, <2>4, <2>5
    DEF Next, vars, CreateTopology, CheckDelete, DeleteRaises, Crash
<1>3. /\ task[r].pc = "finalize" /\ run[r].state # "NO_ROW"
      /\ VerdictOn(task[r].ready, task[r].failed) = "COMPLETED"
  BY <1>1, <1>2 DEF FinalizeRun, CanWrite
<1>4. task[r].failed = 0
  BY <1>3 DEF VerdictOn
<1>5. Alive(r)
  BY <1>3 DEF Alive
<1>6. task[r].i = N + 1
  BY <1>1, <1>3, <1>5 DEF Tallied
<1>7. q < task[r].i
  BY <1>6, Sizes DEF QM
<1> QED
  BY <1>1, <1>3, <1>4, <1>5, <1>7 DEF Solid

THEOREM CompletedStandsHolds == Spec => CompletedStands
<1>1. IInv /\ [Next]_vars =>
        [ \A r \in Run :
            /\ run[r].state # "COMPLETED" /\ run'[r].state = "COMPLETED"
            /\ ~ task[r].dry /\ r \notin overlapped
            => \A q \in QM : Stands(q) ]_vars
  BY CompletedStep
<1> QED
  BY <1>1, IInvHolds, PTL DEF Spec, CompletedStands
===============================================================================
