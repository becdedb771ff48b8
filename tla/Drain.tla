---------------------------------- MODULE Drain ----------------------------------
(***************************************************************************)
(* Waiting for a queue to drain (migration/drain.py, wait_for_drain): poll *)
(* until ZeroWindow readings in a row show no message, no reader and no    *)
(* writer, or the deadline passes.                                         *)
(***************************************************************************)
EXTENDS Integers, Sequences

CONSTANTS
  ZeroWindow,  \* zero_window_polls
  MaxPolls     \* bound: polls of one wait

ASSUME WindowAssumption == ZeroWindow \in Nat \ {0}

VARIABLE drain  \* the wait: its outcome, consecutive_zero and its history

\* QueueProbe: is_zero, some attribute not zero, or error_kind.
Probe == {"zero", "busy", "queue_not_found", "mqsc_error"}

DrainInit == drain = [state |-> "polling", zeros |-> 0, history |-> << >>]

\* Mutation: a reading that is not zero does not break the window.
ZerosNotReset(probe) == IF probe = "zero" THEN drain.zeros + 1 ELSE drain.zeros

ConsecutiveZeros(probe) == IF probe = "zero" THEN drain.zeros + 1 ELSE 0

\* A queue that is gone counts as drained.
Outcome(probe) ==
  CASE probe = "queue_not_found" -> "drained"
    [] probe = "mqsc_error" -> "failed"
    [] OTHER -> IF ConsecutiveZeros(probe) >= ZeroWindow THEN "drained" ELSE "polling"

Poll(probe) ==
  /\ drain.state = "polling" /\ Len(drain.history) < MaxPolls
  /\ drain' = [state   |-> Outcome(probe),
               zeros   |-> ConsecutiveZeros(probe),
               history |-> Append(drain.history, probe)]

DrainTimesOut ==
  /\ drain.state = "polling" /\ drain.history # << >>
  /\ drain' = [drain EXCEPT !.state = "timeout"]
=============================================================================
