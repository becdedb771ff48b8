CONSTANTS
  Task = {t1, t2, t3}
  Nobody = Nobody
  Plan <- ShortPlan
  Requests = {"start", "approve"}
  Operators = "quiescent"
  Faults = {"timeout"}
SPECIFICATION Spec
INVARIANT RolledBackLeavesNothing
