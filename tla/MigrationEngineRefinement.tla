---------------------- MODULE MigrationEngineRefinement ----------------------
(***************************************************************************)
(* MigrationEngine, driven by operators who act on a migration at rest,    *)
(* implements MigrationLifecycle.                                          *)
(***************************************************************************)
EXTENDS MigrationEngineProperties

PhaseOf ==
  CASE row.state = "NO_ROW"            -> "none"
    [] row.state = "PLANNED"           -> "planning"
    [] row.state = "AWAITING_APPROVAL" -> "gate"
    [] row.state \in Executing         -> "executing"
    [] row.state = "ROLLING_BACK"      -> "undoing"
    [] row.state = "COMPLETED"         -> "completed"
    [] row.state = "ROLLED_BACK"       -> "undone"
    [] OTHER                           -> "stuck"

Lifecycle == INSTANCE MigrationLifecycle WITH
  N         <- Len(Plan),
  phase     <- PhaseOf,
  decision  <- row.plan.approval,
  inForce   <- { i \in Command : mq[i] # "before" },
  inherited <- { i \in Command : found[i] # "before" }

\* The engine behaves like the lifecycle the API documents: nothing executes
\* without an approval, commands take effect in plan order, COMPLETED means
\* all of them are in force, ROLLED_BACK that none this attempt added is.
ImplementsLifecycle == Lifecycle!Spec

=============================================================================
