-------------------------- MODULE MigrationLifecycle --------------------------
(***************************************************************************)
(* What the migration API promises an operator, without coroutines, step   *)
(* rows or sessions: a migration is planned, decided on at a gate,         *)
(* executed command by command in plan order, and either completed or      *)
(* undone.  Only what is in force on the queue managers is visible of its  *)
(* commands.  MigrationEngine implements this specification for operators  *)
(* who act on a migration at rest.                                         *)
(***************************************************************************)
EXTENDS Naturals

CONSTANT N   \* number of commands in the rewire plan, a natural number

VARIABLES
  phase,      \* where the migration stands
  decision,   \* what the operator decided at the gate
  inForce,    \* commands whose effect, or half of it, is on a queue manager
  inherited   \* the part of inForce an earlier attempt left behind

vars == << phase, decision, inForce, inherited >>

Phase == { "none", "planning", "gate", "executing", "undoing",
           "completed", "undone", "stuck" }

TypeOK ==
  /\ phase \in Phase
  /\ decision \in { "NONE", "APPROVED", "ABORTED" }
  /\ inForce \subseteq 1 .. N
  /\ inherited \subseteq 1 .. N

Init ==
  /\ phase = "none"
  /\ decision = "NONE"
  /\ inForce = {}
  /\ inherited = {}

\* A first attempt, or a new one of a settled migration.
Begin ==
  /\ phase \in { "none", "completed", "undone", "stuck" }
  /\ phase' = "planning"
  /\ decision' = "NONE"
  /\ inherited' = inForce
  /\ UNCHANGED inForce

Park ==
  /\ phase = "planning"
  /\ phase' = "gate"
  /\ UNCHANGED << decision, inForce, inherited >>

\* The operator decides; a revision takes back an approval that did not
\* start anything.
Decide(d) ==
  /\ phase = "gate"
  /\ decision' = d
  /\ UNCHANGED << phase, inForce, inherited >>

\* Only an approved migration leaves the gate forward.
Execute ==
  /\ phase = "gate"
  /\ decision = "APPROVED"
  /\ phase' = "executing"
  /\ UNCHANGED << decision, inForce, inherited >>

\* Command i takes effect, all earlier ones having done so.
Apply(i) ==
  /\ phase = "executing"
  /\ 1 .. (i - 1) \subseteq inForce
  /\ inForce' = inForce \cup {i}
  /\ UNCHANGED << phase, decision, inherited >>

Complete ==
  /\ phase = "executing"
  /\ inForce = 1 .. N
  /\ phase' = "completed"
  /\ UNCHANGED << decision, inForce, inherited >>

\* An abort at the gate, a failure while executing, or the operator's own
\* decision to roll back whatever has been done so far.
BeginUndo ==
  /\ phase \in { "planning", "gate", "executing", "completed" }
  /\ phase' = "undoing"
  /\ UNCHANGED << decision, inForce, inherited >>

Undo(i) ==
  /\ phase = "undoing"
  /\ inForce' = inForce \ {i}
  /\ UNCHANGED << phase, decision, inherited >>

\* Undone for good: nothing of this attempt is left.
FinishUndo ==
  /\ phase = "undoing"
  /\ inForce \subseteq inherited
  /\ phase' = "undone"
  /\ UNCHANGED << decision, inForce, inherited >>

\* A human is needed.
GetStuck ==
  /\ \/ phase \in { "planning", "undoing" }
     \/ phase = "gate" /\ decision = "APPROVED"
  /\ phase' = "stuck"
  /\ UNCHANGED << decision, inForce, inherited >>

Next ==
  \/ Begin
  \/ Park
  \/ \E d \in { "NONE", "APPROVED", "ABORTED" } : Decide(d)
  \/ Execute
  \/ \E i \in 1 .. N : Apply(i) \/ Undo(i)
  \/ Complete
  \/ BeginUndo
  \/ FinishUndo
  \/ GetStuck

Spec == Init /\ [][Next]_vars

=============================================================================
