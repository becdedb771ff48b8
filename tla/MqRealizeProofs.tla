----------------------------- MODULE MqRealizeProofs -----------------------------
(***************************************************************************)
(* Proofs about MqRealize: a verdict agrees with the audit log, and a run  *)
(* whose rows are deleted stops.  For any number of runs and queue         *)
(* managers, any topology, any plans and any number of troubles.           *)
(***************************************************************************)
EXTENDS MqRealizeProperties, TLAPS

-----------------------------------------------------------------------------
(* The inductive invariant, for one run at a time: what the coroutine has  *)
(* counted is in the log, and is all of the log unless it raised; and what *)
(* it may still do when its row is gone.                                   *)

Classes == {"APPLIED", "SKIPPED_IDEMPOTENT", "FAILED"}
CoroutineFields == {"pc", "dry", "snapshot", "left", "plan", "class", "qm", "completed",
                    "failed", "commands"}
RowFields == {"state", "direction", "completed", "failed", "commands"}
EnvFields == {"troubles", "orderly", "faulted", "last", "made", "late"}

TallyOK(t) == DOMAIN t = Classes /\ t.APPLIED \in Nat /\ t.FAILED \in Nat
Zero(t) == t.APPLIED = 0 /\ t.FAILED = 0

ShapeOK(co, rw, lg) ==
  /\ DOMAIN co = CoroutineFields /\ DOMAIN rw = RowFields
  /\ TallyOK(co.qm) /\ TallyOK(co.commands) /\ TallyOK(lg)
  /\ co.failed \in Nat /\ co.class \in Classes

\* An entry that is written and not counted yet.
Uncounted(co, class) == IF co.pc = "event" /\ co.class = class THEN 1 ELSE 0

Begun(co, rw, lg) ==
  /\ rw.state = "none" => co.pc = "none"
  /\ co.pc = "none" => Zero(co.commands) /\ Zero(co.qm) /\ Zero(lg) /\ co.failed = 0
  /\ co.pc \in {"pending", "load", "derive", "skip", "dry", "final"} => Zero(co.qm)

Counted(co, lg) ==
  /\ co.commands.APPLIED + co.qm.APPLIED + Uncounted(co, "APPLIED") <= lg.APPLIED
  /\ co.failed = 0 /\ co.pc \notin {"handler", "dead", "killed"} =>
       /\ lg.APPLIED = co.commands.APPLIED + co.qm.APPLIED + Uncounted(co, "APPLIED")
       /\ lg.FAILED = co.commands.FAILED + co.qm.FAILED + Uncounted(co, "FAILED")

Agrees(rw, lg) ==
  rw.state \in Finished =>
    /\ rw.commands.APPLIED <= lg.APPLIED
    /\ rw.state = "COMPLETED" => rw.commands.APPLIED = lg.APPLIED /\ lg.FAILED = 0

Closed(co, rw, lg) == Agrees(rw, lg) /\ (rw.state \in Finished => co.pc = "done")

Late(co, rw, late) ==
  /\ late \in {0, 1}
  /\ rw.state # "gone" => late = 0
  /\ late = 1 => co.pc \in {"audit", "event", "handler", "dead", "killed"}

Story(co, rw, lg, late) ==
  /\ ShapeOK(co, rw, lg)
  /\ Begun(co, rw, lg)
  /\ Counted(co, lg)
  /\ Closed(co, rw, lg)
  /\ Late(co, rw, late)

Domains ==
  /\ DOMAIN coroutine = Run /\ DOMAIN row = Run /\ DOMAIN logged = Run
  /\ DOMAIN env = EnvFields /\ DOMAIN env.late = Run

RunInv == Domains /\ \A r \in Run : Story(coroutine[r], row[r], logged[r], env.late[r])

-----------------------------------------------------------------------------
LEMMA TallyPlus ==
  ASSUME NEW a, NEW b, TallyOK(a), TallyOK(b)
  PROVE  /\ TallyOK(Plus(a, b))
         /\ Plus(a, b).APPLIED = a.APPLIED + b.APPLIED
         /\ Plus(a, b).FAILED = a.FAILED + b.FAILED
BY DEF TallyOK, Plus, Classes

LEMMA TallyZero == TallyOK(NoTally) /\ Zero(NoTally)
BY DEF TallyOK, Zero, NoTally, Tally, Classes

LEMMA TallyOne ==
  ASSUME NEW class \in Classes
  PROVE  /\ TallyOK(One(class))
         /\ One(class).APPLIED = IF class = "APPLIED" THEN 1 ELSE 0
         /\ One(class).FAILED = IF class = "FAILED" THEN 1 ELSE 0
BY DEF TallyOK, One, NoTally, Tally, Classes

LEMMA ClassOf ==
  ASSUME NEW reply, NEW direction
  PROVE  Classify(reply, direction) \in Classes
BY DEF Classify, Classes

LEMMA InitRunInv == Init => RunInv
<1> SUFFICES ASSUME Init PROVE RunInv
  OBVIOUS
<1>1. Domains
  BY DEF Init, Domains, EnvFields
<1>2. ASSUME NEW r \in Run PROVE Story(coroutine[r], row[r], logged[r], env.late[r])
  <2>1. /\ coroutine[r] = NoCoroutine /\ row[r] = NoRow /\ logged[r] = NoTally
        /\ env.late[r] = 0
    BY DEF Init
  <2>2. /\ DOMAIN NoCoroutine = CoroutineFields /\ DOMAIN NoRow = RowFields
        /\ NoCoroutine.pc = "none" /\ NoCoroutine.failed = 0
        /\ NoCoroutine.class = "APPLIED" /\ NoCoroutine.qm = NoTally
        /\ NoCoroutine.commands = NoTally /\ NoRow.state = "none"
    BY DEF NoCoroutine, NoRow, CoroutineFields, RowFields
  <2> QED BY <2>1, <2>2, TallyZero
      DEF Story, ShapeOK, Begun, Counted, Closed, Agrees, Late, Uncounted, Finished, TallyOK,
          Zero, Classes
<1> QED BY <1>1, <1>2 DEF RunInv

-----------------------------------------------------------------------------
(* Steps of one run.  Whatever a step of run r does to another run's       *)
(* records, it leaves them as they are.                                    *)

\* Only run r's coroutine, row, entries and late commands change.
OnlyOf(r) ==
  \A s \in Run \ {r} :
    /\ coroutine'[s] = coroutine[s] /\ row'[s] = row[s]
    /\ logged'[s] = logged[s] /\ env'.late[s] = env.late[s]

LEMMA Frame ==
  ASSUME RunInv, NEW r \in Run, OnlyOf(r), Domains',
         Story(coroutine'[r], row'[r], logged'[r], env'.late[r])
  PROVE  RunInv'
<1> SUFFICES ASSUME NEW s \in Run
             PROVE  Story(coroutine'[s], row'[s], logged'[s], env'.late[s])
  BY DEF RunInv
<1>1. CASE s = r
  BY <1>1
<1>2. CASE s # r
  BY <1>2 DEF OnlyOf, RunInv
<1> QED BY <1>1, <1>2

\* Only the environment's record changes, and not its count of late commands.
LEMMA TroubleLate ==
  ASSUME Domains, NEW orderly, NEW faulted, NEW last, Trouble(orderly, faulted, last)
  PROVE  DOMAIN env' = EnvFields /\ env'.late = env.late
BY DEF Trouble, Domains, EnvFields

\* What Goto leaves as it was.
LEMMA GotoEffect ==
  ASSUME RunInv, NEW r \in Run, NEW pc, Goto(r, pc)
  PROVE  /\ DOMAIN coroutine' = Run
         /\ \A s \in Run \ {r} : coroutine'[s] = coroutine[s]
         /\ DOMAIN coroutine'[r] = CoroutineFields /\ coroutine'[r].pc = pc
         /\ coroutine'[r].qm = coroutine[r].qm
         /\ coroutine'[r].commands = coroutine[r].commands
         /\ coroutine'[r].failed = coroutine[r].failed
         /\ coroutine'[r].class = coroutine[r].class
BY DEF RunInv, Domains, Story, ShapeOK, Goto, CoroutineFields

LEMMA StartRunInv ==
  ASSUME RunInv, NEW r \in Run, NEW direction, NEW dry, StartRun(r, direction, dry)
  PROVE  RunInv'
<1>1. /\ DOMAIN env' = EnvFields /\ env'.late = env.late
  BY TroubleLate DEF StartRun, RunInv, Domains, EnvFields
<1>2. /\ Story(coroutine[r], row[r], logged[r], env.late[r])
      /\ row[r].state = "none" /\ logged' = logged
      /\ DOMAIN row' = Run /\ DOMAIN coroutine' = Run
      /\ \A s \in Run \ {r} : coroutine'[s] = coroutine[s] /\ row'[s] = row[s]
  BY DEF StartRun, RunInv, Domains
<1>3. /\ DOMAIN row'[r] = RowFields /\ row'[r].state = "PENDING"
      /\ DOMAIN coroutine'[r] = CoroutineFields /\ coroutine'[r].pc = "pending"
      /\ coroutine'[r].qm = coroutine[r].qm
      /\ coroutine'[r].commands = coroutine[r].commands
      /\ coroutine'[r].failed = coroutine[r].failed
      /\ coroutine'[r].class = coroutine[r].class
  BY DEF StartRun, RunInv, Domains, Story, ShapeOK, CoroutineFields, RowFields
<1>4. Story(coroutine'[r], row'[r], logged'[r], env'.late[r])
  BY <1>1, <1>2, <1>3
  DEF Story, ShapeOK, Begun, Counted, Closed, Agrees, Late, Uncounted, Finished, TallyOK, Zero
<1>5. OnlyOf(r) /\ Domains'
  BY <1>1, <1>2 DEF OnlyOf, Domains, RunInv
<1> QED BY <1>4, <1>5, Frame

\* Steps that only move the coroutine on.
LEMMA MoveInv ==
  ASSUME RunInv, NEW r \in Run, NEW pc, Goto(r, pc),
         UNCHANGED logged, env'.late = env.late, DOMAIN env' = EnvFields,
         DOMAIN row' = Run, \A s \in Run \ {r} : row'[s] = row[s],
         DOMAIN row'[r] = RowFields,
         row'[r].state \in {row[r].state, "RUNNING"},
         row'[r].state = "RUNNING" \/ UNCHANGED row,
         coroutine[r].pc \notin {"none", "done"},
         row'[r].state # "gone" <=> row[r].state # "gone",
         \/ coroutine[r].pc = "pending" /\ pc = "load"
         \/ pc \in {"handler", "dead"}
  PROVE  RunInv'
<1>1. Story(coroutine[r], row[r], logged[r], env.late[r])
  BY DEF RunInv
<1>2. Story(coroutine'[r], row'[r], logged'[r], env'.late[r])
  BY <1>1, GotoEffect
  DEF Story, ShapeOK, Begun, Counted, Closed, Agrees, Late, Uncounted, Finished, TallyOK, Zero
<1>3. OnlyOf(r) /\ Domains'
  BY GotoEffect DEF OnlyOf, Domains, RunInv
<1> QED BY <1>2, <1>3, Frame

LEMMA MoveToRunningInv ==
  ASSUME RunInv, NEW r \in Run, MoveToRunning(r)
  PROVE  RunInv'
<1>1. /\ Goto(r, "load") /\ UNCHANGED << logged, env >> /\ DOMAIN row' = Run
      /\ \A s \in Run \ {r} : row'[s] = row[s]
      /\ DOMAIN row'[r] = RowFields /\ row'[r].state = "RUNNING"
      /\ coroutine[r].pc = "pending" /\ row[r].state # "gone"
  BY DEF MoveToRunning, RunInv, Domains, Story, ShapeOK, RowFields
<1>2. DOMAIN env' = EnvFields /\ env'.late = env.late
  BY <1>1 DEF RunInv, Domains
<1> QED BY <1>1, <1>2, MoveInv

LEMMA RaiseInv ==
  ASSUME RunInv, NEW r \in Run,
         TopologyDisappeared(r) \/ WriteFindsNoRow(r) \/ WriteIsLocked(r)
  PROVE  RunInv'
<1>1. PICK pc \in {"handler", "dead"} : Goto(r, pc)
  BY DEF TopologyDisappeared, WriteFindsNoRow, WriteIsLocked, AfterRaise, Guarded
<1>2. UNCHANGED << logged, row >> /\ coroutine[r].pc \notin {"none", "done"}
  BY DEF TopologyDisappeared, WriteFindsNoRow, WriteIsLocked, Guarded
<1>3. DOMAIN env' = EnvFields /\ env'.late = env.late
  BY TroubleLate DEF TopologyDisappeared, WriteFindsNoRow, WriteIsLocked, RunInv, Domains
<1>4. DOMAIN row' = Run /\ DOMAIN row'[r] = RowFields
  BY <1>2 DEF RunInv, Domains, Story, ShapeOK
<1> QED BY <1>1, <1>2, <1>3, <1>4, MoveInv

\* Steps that read: the plan, and which way to go.
LEMMA ReadInv ==
  ASSUME RunInv, NEW r \in Run, LoadTopology(r) \/ DerivePlan(r)
  PROVE  RunInv'
<1>1. /\ Story(coroutine[r], row[r], logged[r], env.late[r])
      /\ coroutine[r].pc \in {"load", "derive"}
      /\ UNCHANGED << row, logged, env >> /\ DOMAIN coroutine' = Run
      /\ \A s \in Run \ {r} : coroutine'[s] = coroutine[s]
  BY DEF LoadTopology, DerivePlan, RunInv, Domains
<1>2. /\ DOMAIN coroutine'[r] = CoroutineFields
      /\ coroutine'[r].pc \in {"derive", "skip", "dry", "close", "command"}
      /\ coroutine'[r].qm = coroutine[r].qm
      /\ coroutine'[r].commands = coroutine[r].commands
      /\ coroutine'[r].failed = coroutine[r].failed
      /\ coroutine'[r].class = coroutine[r].class
  <2>1. CASE LoadTopology(r)
    BY <2>1 DEF LoadTopology, RunInv, Domains, Story, ShapeOK, CoroutineFields
  <2>2. CASE DerivePlan(r)
    BY <2>2 DEF DerivePlan, CommandOrClose, RunInv, Domains, Story, ShapeOK, CoroutineFields
  <2> QED BY <2>1, <2>2
<1>3. Story(coroutine'[r], row'[r], logged'[r], env'.late[r])
  BY <1>1, <1>2
  DEF Story, ShapeOK, Begun, Counted, Closed, Agrees, Late, Uncounted, Finished, TallyOK, Zero
<1>4. OnlyOf(r) /\ Domains'
  BY <1>1 DEF OnlyOf, Domains, RunInv
<1> QED BY <1>3, <1>4, Frame

\* What NextQm leaves, and what it counts.
LEMMA NextQmEffect ==
  ASSUME RunInv, NEW r \in Run, NEW outcome, TallyOK(outcome), NextQm(r, outcome)
  PROVE  /\ DOMAIN coroutine' = Run
         /\ \A s \in Run \ {r} : coroutine'[s] = coroutine[s]
         /\ DOMAIN coroutine'[r] = CoroutineFields
         /\ coroutine'[r].pc \in {"final", "derive"}
         /\ coroutine'[r].qm = NoTally
         /\ TallyOK(coroutine'[r].commands)
         /\ coroutine'[r].commands.APPLIED = coroutine[r].commands.APPLIED + outcome.APPLIED
         /\ coroutine'[r].commands.FAILED = coroutine[r].commands.FAILED + outcome.FAILED
         /\ coroutine'[r].failed =
              coroutine[r].failed + (IF outcome.FAILED = 0 THEN 0 ELSE 1)
         /\ coroutine'[r].class = coroutine[r].class
<1>1. DOMAIN coroutine = Run /\ DOMAIN coroutine[r] = CoroutineFields
  BY DEF RunInv, Domains, Story, ShapeOK
<1>2. coroutine'[r].commands = Plus(coroutine[r].commands, outcome)
  BY <1>1 DEF NextQm, CoroutineFields
<1>3. TallyOK(coroutine[r].commands)
  BY DEF RunInv, Story, ShapeOK
<1> QED BY <1>1, <1>2, <1>3, TallyPlus DEF NextQm, CoroutineFields

\* Queue managers whose commands are not sent.
LEMMA PassInv ==
  ASSUME RunInv, NEW r \in Run, SkipQm(r) \/ DryRun(r)
  PROVE  RunInv'
<1>1. PICK outcome : /\ NextQm(r, outcome) /\ DOMAIN outcome = Classes
                     /\ outcome.APPLIED = 0 /\ outcome.FAILED \in {0, 1}
  BY DEF SkipQm, DryRun, Tally, Classes
<1>2. TallyOK(outcome)
  BY <1>1 DEF TallyOK
<1>3. /\ Story(coroutine[r], row[r], logged[r], env.late[r])
      /\ coroutine[r].pc \in {"skip", "dry"} /\ UNCHANGED << row, logged, env >>
  BY DEF SkipQm, DryRun, RunInv
<1>4. /\ DOMAIN coroutine'[r] = CoroutineFields
      /\ coroutine'[r].pc \in {"final", "derive"} /\ coroutine'[r].qm = NoTally
      /\ TallyOK(coroutine'[r].commands)
      /\ coroutine'[r].commands.APPLIED = coroutine[r].commands.APPLIED
      /\ coroutine'[r].commands.FAILED = coroutine[r].commands.FAILED + outcome.FAILED
      /\ coroutine'[r].failed = coroutine[r].failed + outcome.FAILED
      /\ coroutine'[r].class = coroutine[r].class
  BY <1>1, <1>2, <1>3, NextQmEffect DEF Story, ShapeOK, TallyOK
<1>5. Story(coroutine'[r], row[r], logged[r], env.late[r])
  <2>1. ShapeOK(coroutine'[r], row[r], logged[r])
    BY <1>1, <1>3, <1>4, TallyZero DEF Story, ShapeOK
  <2>2. Zero(coroutine[r].qm) /\ Zero(coroutine'[r].qm)
    BY <1>3, <1>4, TallyZero DEF Story, Begun
  <2>3. Begun(coroutine'[r], row[r], logged[r])
    BY <1>3, <1>4, <2>2 DEF Story, Begun
  <2>4. Counted(coroutine'[r], logged[r])
    BY <1>1, <1>3, <1>4, <2>2 DEF Story, ShapeOK, Counted, Uncounted, Zero, TallyOK
  <2>5. /\ Closed(coroutine'[r], row[r], logged[r])
        /\ Late(coroutine'[r], row[r], env.late[r])
    BY <1>3, <1>4 DEF Story, Closed, Late, Finished
  <2> QED BY <2>1, <2>3, <2>4, <2>5 DEF Story
<1>6. Story(coroutine'[r], row'[r], logged'[r], env'.late[r])
  BY <1>3, <1>5
<1>7. OnlyOf(r) /\ Domains'
  BY <1>1, <1>2, <1>3, NextQmEffect DEF OnlyOf, Domains, RunInv
<1> QED BY <1>6, <1>7, Frame

\* A command is sent, and answered or not.
LEMMA CommandInv ==
  ASSUME RunInv, NEW r \in Run, ApplyCommand(r) \/ CommandMiscarries(r)
  PROVE  RunInv'
<1>1. /\ Story(coroutine[r], row[r], logged[r], env.late[r])
      /\ coroutine[r].pc = "command" /\ UNCHANGED << row, logged >>
      /\ DOMAIN coroutine = Run /\ DOMAIN coroutine[r] = CoroutineFields
      /\ DOMAIN env = EnvFields /\ DOMAIN env.late = Run
  BY DEF ApplyCommand, CommandMiscarries, RunInv, Domains, Story, ShapeOK
<1>2. PICK class \in Classes :
        coroutine' = [coroutine EXCEPT ![r].pc = "audit", ![r].class = class]
  BY ClassOf DEF ApplyCommand, CommandMiscarries
<1>3. /\ DOMAIN coroutine' = Run /\ DOMAIN coroutine'[r] = CoroutineFields
      /\ \A s \in Run \ {r} : coroutine'[s] = coroutine[s]
      /\ coroutine'[r].pc = "audit" /\ coroutine'[r].class = class
      /\ coroutine'[r].qm = coroutine[r].qm
      /\ coroutine'[r].commands = coroutine[r].commands
      /\ coroutine'[r].failed = coroutine[r].failed
  BY <1>1, <1>2 DEF CoroutineFields
<1>4. /\ DOMAIN env' = EnvFields /\ DOMAIN env'.late = Run
      /\ \A s \in Run \ {r} : env'.late[s] = env.late[s]
      /\ env'.late[r] \in {env.late[r], env.late[r] + 1}
      /\ row[r].state # "gone" => env'.late[r] = env.late[r]
  <2>1. CASE ApplyCommand(r)
    BY <1>1, <2>1 DEF ApplyCommand, EnvFields
  <2>2. CASE CommandMiscarries(r)
    BY <1>1, <2>2, TroubleLate DEF CommandMiscarries, RunInv
  <2> QED BY <2>1, <2>2
\* The command that finds the row gone is the first such: until then it polled.
<1>5. env.late[r] = 0
  BY <1>1 DEF Story, Late
<1>6. Story(coroutine'[r], row'[r], logged'[r], env'.late[r])
  BY <1>1, <1>3, <1>4, <1>5
  DEF Story, ShapeOK, Begun, Counted, Closed, Agrees, Late, Uncounted, Finished, TallyOK, Zero
<1>7. OnlyOf(r) /\ Domains'
  BY <1>1, <1>3, <1>4 DEF OnlyOf, Domains, RunInv
<1> QED BY <1>6, <1>7, Frame

\* Its audit entry commits.
LEMMA WriteCommandAuditInv ==
  ASSUME RunInv, NEW r \in Run, WriteCommandAudit(r)
  PROVE  RunInv'
<1>1. /\ Story(coroutine[r], row[r], logged[r], env.late[r])
      /\ coroutine[r].pc = "audit" /\ Goto(r, "event") /\ UNCHANGED << row, env >>
      /\ coroutine[r].class \in Classes /\ TallyOK(logged[r])
  BY DEF WriteCommandAudit, RunInv, Story, ShapeOK
<1>2. /\ DOMAIN logged' = Run /\ \A s \in Run \ {r} : logged'[s] = logged[s]
      /\ logged'[r] = Plus(logged[r], One(coroutine[r].class))
  BY DEF WriteCommandAudit, RunInv, Domains
<1>3. /\ TallyOK(logged'[r])
      /\ logged'[r].APPLIED =
           logged[r].APPLIED + (IF coroutine[r].class = "APPLIED" THEN 1 ELSE 0)
      /\ logged'[r].FAILED =
           logged[r].FAILED + (IF coroutine[r].class = "FAILED" THEN 1 ELSE 0)
  BY <1>1, <1>2, TallyPlus, TallyOne
<1>4. Story(coroutine'[r], row'[r], logged'[r], env'.late[r])
  BY <1>1, <1>3, GotoEffect
  DEF Story, ShapeOK, Begun, Counted, Closed, Agrees, Late, Uncounted, Finished, TallyOK, Zero
<1>5. OnlyOf(r) /\ Domains'
  BY <1>1, <1>2, GotoEffect DEF OnlyOf, Domains, RunInv
<1> QED BY <1>4, <1>5, Frame

\* Its progress event commits: the command is counted.
LEMMA RecordCommandInv ==
  ASSUME RunInv, NEW r \in Run, RecordCommand(r)
  PROVE  RunInv'
<1>1. /\ Story(coroutine[r], row[r], logged[r], env.late[r])
      /\ coroutine[r].pc = "event" /\ row[r].state # "gone"
      /\ UNCHANGED << row, logged, env >>
      /\ coroutine[r].class \in Classes /\ TallyOK(coroutine[r].qm)
  BY DEF RecordCommand, RunInv, Story, ShapeOK
<1>2. /\ DOMAIN coroutine' = Run /\ \A s \in Run \ {r} : coroutine'[s] = coroutine[s]
      /\ DOMAIN coroutine'[r] = CoroutineFields
      /\ coroutine'[r].pc \in {"close", "command"}
      /\ coroutine'[r].qm = Plus(coroutine[r].qm, One(coroutine[r].class))
      /\ coroutine'[r].commands = coroutine[r].commands
      /\ coroutine'[r].failed = coroutine[r].failed
      /\ coroutine'[r].class = coroutine[r].class
  BY DEF RecordCommand, CommandOrClose, RunInv, Domains, Story, ShapeOK, CoroutineFields
<1>3. /\ TallyOK(coroutine'[r].qm)
      /\ coroutine'[r].qm.APPLIED =
           coroutine[r].qm.APPLIED + (IF coroutine[r].class = "APPLIED" THEN 1 ELSE 0)
      /\ coroutine'[r].qm.FAILED =
           coroutine[r].qm.FAILED + (IF coroutine[r].class = "FAILED" THEN 1 ELSE 0)
  BY <1>1, <1>2, TallyPlus, TallyOne
<1>4. Story(coroutine'[r], row[r], logged[r], env.late[r])
  BY <1>1, <1>2, <1>3
  DEF Story, ShapeOK, Begun, Counted, Closed, Late, Uncounted, Finished, TallyOK
<1>5. Story(coroutine'[r], row'[r], logged'[r], env'.late[r])
  BY <1>1, <1>4
<1>6. OnlyOf(r) /\ Domains'
  BY <1>1, <1>2 DEF OnlyOf, Domains, RunInv
<1> QED BY <1>5, <1>6, Frame

\* The queue manager is done: its counters join the run's.
LEMMA CloseQmInv ==
  ASSUME RunInv, NEW r \in Run, CloseQm(r)
  PROVE  RunInv'
<1> DEFINE tally == coroutine[r].qm
<1>1. /\ Story(coroutine[r], row[r], logged[r], env.late[r])
      /\ coroutine[r].pc = "close" /\ row[r].state # "gone"
      /\ UNCHANGED << logged, env >> /\ NextQm(r, tally) /\ TallyOK(tally)
  BY DEF CloseQm, RunInv, Story, ShapeOK
<1>2. /\ DOMAIN row' = Run /\ \A s \in Run \ {r} : row'[s] = row[s]
      /\ DOMAIN row'[r] = RowFields /\ row'[r].state = row[r].state
  BY DEF CloseQm, RunInv, Domains, Story, ShapeOK, RowFields
<1>3. row[r].state \notin Finished
  BY <1>1 DEF Story, Closed
<1>4. /\ DOMAIN coroutine' = Run /\ \A s \in Run \ {r} : coroutine'[s] = coroutine[s]
      /\ DOMAIN coroutine'[r] = CoroutineFields
      /\ coroutine'[r].pc \in {"final", "derive"} /\ coroutine'[r].qm = NoTally
      /\ TallyOK(coroutine'[r].commands)
      /\ coroutine'[r].commands.APPLIED = coroutine[r].commands.APPLIED + tally.APPLIED
      /\ coroutine'[r].commands.FAILED = coroutine[r].commands.FAILED + tally.FAILED
      /\ coroutine'[r].failed = coroutine[r].failed + (IF tally.FAILED = 0 THEN 0 ELSE 1)
      /\ coroutine'[r].class = coroutine[r].class
  BY <1>1, NextQmEffect
<1>5. ShapeOK(coroutine'[r], row'[r], logged[r])
  BY <1>1, <1>2, <1>4, TallyZero DEF Story, ShapeOK
<1>6. Begun(coroutine'[r], row'[r], logged[r])
  BY <1>1, <1>2, <1>4, TallyZero DEF Story, Begun
<1>7. Counted(coroutine'[r], logged[r])
  BY <1>1, <1>4, TallyZero DEF Story, ShapeOK, Counted, Uncounted, Zero, TallyOK
<1>8. /\ Closed(coroutine'[r], row'[r], logged[r])
      /\ Late(coroutine'[r], row'[r], env.late[r])
  BY <1>1, <1>2, <1>3, <1>4 DEF Story, Closed, Agrees, Late, Finished
<1>9. Story(coroutine'[r], row'[r], logged'[r], env'.late[r])
  BY <1>1, <1>5, <1>6, <1>7, <1>8 DEF Story
<1>10. OnlyOf(r) /\ Domains'
  BY <1>1, <1>2, <1>4 DEF OnlyOf, Domains, RunInv
<1> QED BY <1>9, <1>10, Frame

\* A queue manager that raised counts as failed, and what it did does not.
LEMMA LogExceptionInv ==
  ASSUME RunInv, NEW r \in Run, LogException(r)
  PROVE  RunInv'
<1>1. /\ Story(coroutine[r], row[r], logged[r], env.late[r])
      /\ coroutine[r].pc = "handler" /\ row[r].state # "gone"
      /\ UNCHANGED << row, logged, env >>
  BY DEF LogException, RunInv
<1>2. /\ DOMAIN coroutine' = Run /\ \A s \in Run \ {r} : coroutine'[s] = coroutine[s]
      /\ DOMAIN coroutine'[r] = CoroutineFields
      /\ coroutine'[r].pc \in {"final", "derive"} /\ coroutine'[r].qm = NoTally
      /\ coroutine'[r].commands = coroutine[r].commands
      /\ coroutine'[r].failed = coroutine[r].failed + 1
      /\ coroutine'[r].class = coroutine[r].class
  BY DEF LogException, RunInv, Domains, Story, ShapeOK, CoroutineFields
<1>3. ShapeOK(coroutine'[r], row[r], logged[r])
  BY <1>1, <1>2, TallyZero DEF Story, ShapeOK
<1>4. Begun(coroutine'[r], row[r], logged[r])
  BY <1>1, <1>2, TallyZero DEF Story, Begun
<1>5. Counted(coroutine'[r], logged[r])
  BY <1>1, <1>2, TallyZero DEF Story, ShapeOK, Counted, Uncounted, Zero, TallyOK
<1>6. /\ Closed(coroutine'[r], row[r], logged[r])
      /\ Late(coroutine'[r], row[r], env.late[r])
  BY <1>1, <1>2 DEF Story, Closed, Late, Finished
<1>7. Story(coroutine'[r], row'[r], logged'[r], env'.late[r])
  BY <1>1, <1>3, <1>4, <1>5, <1>6 DEF Story
<1>8. OnlyOf(r) /\ Domains'
  BY <1>1, <1>2 DEF OnlyOf, Domains, RunInv
<1> QED BY <1>7, <1>8, Frame

\* The verdict.
LEMMA FinalizeRunInv ==
  ASSUME RunInv, NEW r \in Run, FinalizeRun(r)
  PROVE  RunInv'
<1>1. /\ Story(coroutine[r], row[r], logged[r], env.late[r])
      /\ coroutine[r].pc = "final" /\ row[r].state # "gone"
      /\ Goto(r, "done") /\ UNCHANGED << logged, env >>
      /\ Zero(coroutine[r].qm)
  BY DEF FinalizeRun, RunInv, Story, Begun
<1>2. /\ DOMAIN row' = Run /\ \A s \in Run \ {r} : row'[s] = row[s]
      /\ DOMAIN row'[r] = RowFields
      /\ row'[r].commands = coroutine[r].commands
      /\ row'[r].state =
           Verdict(coroutine[r].completed, coroutine[r].failed, coroutine[r].commands)
  BY DEF FinalizeRun, RunInv, Domains, Story, ShapeOK, RowFields
<1>3. /\ row'[r].state \in Finished
      /\ row'[r].state = "COMPLETED" =>
           coroutine[r].failed = 0 /\ coroutine[r].commands.FAILED = 0
  BY <1>2 DEF Verdict, Finished
<1>4. /\ DOMAIN coroutine'[r] = CoroutineFields /\ coroutine'[r].pc = "done"
      /\ coroutine'[r].qm = coroutine[r].qm
      /\ coroutine'[r].commands = coroutine[r].commands
      /\ coroutine'[r].failed = coroutine[r].failed
      /\ coroutine'[r].class = coroutine[r].class
  BY <1>1, GotoEffect
<1>5. Agrees(row'[r], logged[r])
  BY <1>1, <1>2, <1>3 DEF Agrees, Story, ShapeOK, Counted, Uncounted, Zero, TallyOK
<1>6. /\ ShapeOK(coroutine'[r], row'[r], logged[r])
      /\ Begun(coroutine'[r], row'[r], logged[r])
      /\ Counted(coroutine'[r], logged[r])
  BY <1>1, <1>2, <1>3, <1>4
  DEF Story, ShapeOK, Begun, Counted, Uncounted, Finished
<1>7. /\ Closed(coroutine'[r], row'[r], logged[r])
      /\ Late(coroutine'[r], row'[r], env.late[r])
  BY <1>1, <1>3, <1>4, <1>5 DEF Story, Closed, Late, Finished
<1>8. Story(coroutine'[r], row'[r], logged'[r], env'.late[r])
  BY <1>1, <1>6, <1>7 DEF Story
<1>9. OnlyOf(r) /\ Domains'
  BY <1>1, <1>2, GotoEffect DEF OnlyOf, Domains, RunInv
<1> QED BY <1>8, <1>9, Frame

-----------------------------------------------------------------------------
(* Steps of the environment touch every run at once. *)

LEMMA PodsInv ==
  ASSUME RunInv, (\E lost \in SUBSET Qm : LosePods(lost)) \/ GainPods
  PROVE  RunInv'
<1>1. UNCHANGED << row, coroutine, logged >>
  BY DEF LosePods, GainPods
<1>2. DOMAIN env' = EnvFields /\ env'.late = env.late
  <2>1. CASE \E lost \in SUBSET Qm : LosePods(lost)
    BY <2>1, TroubleLate DEF LosePods, RunInv
  <2>2. CASE GainPods
    BY <2>2 DEF GainPods, RunInv, Domains, EnvFields
  <2> QED BY <2>1, <2>2
<1> QED BY <1>1, <1>2 DEF RunInv, Domains

\* The rows go; what the coroutines know does not.
LEMMA DeleteTopologyInv ==
  ASSUME RunInv, DeleteTopology
  PROVE  RunInv'
<1>1. /\ UNCHANGED << coroutine, logged >> /\ DOMAIN row' = Run
      /\ DOMAIN env' = EnvFields /\ env'.late = env.late
  BY DEF DeleteTopology, RunInv, Domains, EnvFields
<1>2. ASSUME NEW r \in Run
      PROVE  Story(coroutine'[r], row'[r], logged'[r], env'.late[r])
  <2>1. Story(coroutine[r], row[r], logged[r], env.late[r])
    BY DEF RunInv
  <2>2. CASE row[r].state = "none"
    BY <1>1, <2>1, <2>2 DEF DeleteTopology
  <2>3. CASE row[r].state # "none"
    <3>1. DOMAIN row'[r] = RowFields /\ row'[r].state = "gone"
      BY <2>1, <2>3 DEF DeleteTopology, Story, ShapeOK, RowFields
    <3> QED BY <1>1, <2>1, <3>1
        DEF Story, ShapeOK, Begun, Counted, Closed, Agrees, Late, Uncounted, Finished
  <2> QED BY <2>2, <2>3
<1> QED BY <1>1, <1>2 DEF RunInv, Domains

\* The process dies, and every coroutine with it.
LEMMA CrashInv ==
  ASSUME RunInv, Crash
  PROVE  RunInv'
<1>1. /\ UNCHANGED << row, logged >> /\ DOMAIN coroutine' = Run
      /\ DOMAIN env' = EnvFields /\ env'.late = env.late
  BY TroubleLate DEF Crash, RunInv, Domains
<1>2. ASSUME NEW r \in Run
      PROVE  Story(coroutine'[r], row'[r], logged'[r], env'.late[r])
  <2>1. Story(coroutine[r], row[r], logged[r], env.late[r])
    BY DEF RunInv
  <2>2. CASE ~Active(r)
    BY <1>1, <2>1, <2>2 DEF Crash
  <2>3. CASE Active(r)
    <3>1. /\ DOMAIN coroutine'[r] = CoroutineFields /\ coroutine'[r].pc = "killed"
          /\ coroutine'[r].qm = coroutine[r].qm
          /\ coroutine'[r].commands = coroutine[r].commands
          /\ coroutine'[r].failed = coroutine[r].failed
          /\ coroutine'[r].class = coroutine[r].class
          /\ coroutine[r].pc \notin {"none", "done"}
      BY <2>1, <2>3 DEF Crash, Active, Story, ShapeOK, CoroutineFields
    <3> QED BY <1>1, <2>1, <3>1
        DEF Story, ShapeOK, Begun, Counted, Closed, Agrees, Late, Uncounted, Finished, TallyOK
  <2> QED BY <2>2, <2>3
<1> QED BY <1>1, <1>2 DEF RunInv, Domains

-----------------------------------------------------------------------------
LEMMA NextRunInv == RunInv /\ [Next]_vars => RunInv'
<1> SUFFICES ASSUME RunInv, [Next]_vars PROVE RunInv'
  OBVIOUS
<1>1. ASSUME NEW r \in Run, Step(r) PROVE RunInv'
  <2>1. CASE MoveToRunning(r)
    BY <2>1, MoveToRunningInv
  <2>2. CASE LoadTopology(r) \/ DerivePlan(r)
    BY <2>2, ReadInv
  <2>3. CASE TopologyDisappeared(r) \/ WriteFindsNoRow(r)
    BY <2>3, RaiseInv
  <2>4. CASE SkipQm(r) \/ DryRun(r)
    BY <2>4, PassInv
  <2>5. CASE ApplyCommand(r)
    BY <2>5, CommandInv
  <2>6. CASE WriteCommandAudit(r)
    BY <2>6, WriteCommandAuditInv
  <2>7. CASE RecordCommand(r)
    BY <2>7, RecordCommandInv
  <2>8. CASE CloseQm(r)
    BY <2>8, CloseQmInv
  <2>9. CASE LogException(r)
    BY <2>9, LogExceptionInv
  <2>10. CASE FinalizeRun(r)
    BY <2>10, FinalizeRunInv
  <2> QED BY <1>1, <2>1, <2>2, <2>3, <2>4, <2>5, <2>6, <2>7, <2>8, <2>9, <2>10 DEF Step
<1>2. ASSUME NEW r \in Run, CommandMiscarries(r) PROVE RunInv'
  BY <1>2, CommandInv
<1>3. ASSUME NEW r \in Run, WriteIsLocked(r) PROVE RunInv'
  BY <1>3, RaiseInv
<1>4. ASSUME NEW r \in Run, RequestRun(r) PROVE RunInv'
  BY <1>4, StartRunInv DEF RequestRun
<1>5. CASE (\E lost \in (SUBSET Qm) \ {{}} : LosePods(lost)) \/ GainPods
  BY <1>5, PodsInv
<1>6. CASE DeleteTopology
  BY <1>6, DeleteTopologyInv
<1>7. CASE Crash
  BY <1>7, CrashInv
<1>8. CASE CheckDelete \/ UNCHANGED vars
  BY <1>8 DEF CheckDelete, vars, RunInv, Domains
<1> QED BY <1>1, <1>2, <1>3, <1>4, <1>5, <1>6, <1>7, <1>8 DEF Next

THEOREM RunInvariant == Spec => []RunInv
<1>1. Init => RunInv
  BY InitRunInv
<1>2. RunInv /\ [Next]_vars => RunInv'
  BY NextRunInv
<1> QED BY <1>1, <1>2, PTL DEF Spec

\* A verdict and the audit log agree: a finished run's row claims no command
\* the log lacks, and COMPLETED is said only of a log without a failed
\* command, in every order of runs, faults, deletions and crashes.
THEOREM VerdictsAgree == Spec => []VerdictAgreesWithLog
<1>1. RunInv => VerdictAgreesWithLog
  BY DEF RunInv, Story, Closed, Agrees, VerdictAgreesWithLog
<1> QED BY <1>1, RunInvariant, PTL

\* A run whose topology has been deleted sends at most the command it had
\* already begun.
THEOREM DeletedRunsStop == Spec => []DeletedRunStops
<1>1. RunInv => DeletedRunStops
  BY DEF RunInv, Story, Late, DeletedRunStops
<1> QED BY <1>1, RunInvariant, PTL
=============================================================================
