CONSTANTS
  Task = {t1, t2, t3, t4}
  Nobody = Nobody
  Plan <- ShortPlan
  Requests = {"start", "approve", "rollback"}
  Operators = "quiescent"
  Faults = {"crash"}
SPECIFICATION Spec
INVARIANT RollbackCanBeRetriggered
