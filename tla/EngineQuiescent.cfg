CONSTANTS
  Task = {t1, t2, t3, t4}
  Nobody = Nobody
  Plan <- FullPlan
  Requests = {"start", "approve", "abort", "revise", "rollback"}
  Operators = "quiescent"
  Faults = {"refused", "batch_cut", "probe", "context"}
SPECIFICATION Spec
INVARIANTS
  RolledBackLeavesNothing
  DecisionLogged
PROPERTIES
  UndoneInReverse
  ImplementsLifecycle
