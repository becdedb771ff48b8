CONSTANTS
  Task = {t1, t2, t3}
  Nobody = Nobody
  Plan <- ShortPlan
  Requests = {"start", "approve", "rollback"}
  Operators = "quiescent"
  Faults = {}
SPECIFICATION Spec
INVARIANT ManualRollbackWorks
