--------------------------- MODULE MigrationStates ---------------------------
(***************************************************************************)
(* The migration state machine's transition rules                          *)
(* (bcl/migration/states.py).  The module is pure: it holds the set of     *)
(* states a Migration row can be in and the edges the engine's chokepoint  *)
(* assert_transition accepts.                                              *)
(***************************************************************************)

\* The states before the row is settled, in forward order (next_forward).
Executing == { "PROVISIONING_TARGET_QM", "VALIDATING_PRE", "REWIRING",
               "DRAIN_WAIT", "VALIDATING_DURING", "DRAINING_SOURCE",
               "VALIDATING_POST" }

TERMINAL_STATES == { "COMPLETED", "ROLLED_BACK", "ROLLBACK_FAILED" }

MigrationState ==
  { "PLANNED", "AWAITING_APPROVAL", "ROLLING_BACK" }
    \cup Executing \cup TERMINAL_STATES

\* The successor of a state on the happy path.
next_forward ==
  [ PLANNED                |-> "AWAITING_APPROVAL",
    AWAITING_APPROVAL      |-> "PROVISIONING_TARGET_QM",
    PROVISIONING_TARGET_QM |-> "VALIDATING_PRE",
    VALIDATING_PRE         |-> "REWIRING",
    REWIRING               |-> "DRAIN_WAIT",
    DRAIN_WAIT             |-> "VALIDATING_DURING",
    VALIDATING_DURING      |-> "DRAINING_SOURCE",
    DRAINING_SOURCE        |-> "VALIDATING_POST",
    VALIDATING_POST        |-> "COMPLETED" ]

\* The edge predicate behind assert_transition: one step forward, or into
\* ROLLING_BACK from any state of the forward path; nothing leaves a
\* terminal state.
is_valid_transition(from, to) ==
  \/ /\ from \in DOMAIN next_forward
     /\ to \in { next_forward[from], "ROLLING_BACK" }
  \/ /\ from = "ROLLING_BACK"
     /\ to \in { "ROLLED_BACK", "ROLLBACK_FAILED" }

is_terminal(state) == state \in TERMINAL_STATES

=============================================================================
