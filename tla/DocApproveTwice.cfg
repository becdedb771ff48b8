CONSTANTS
  Task = {t1, t2, t3}
  Nobody = Nobody
  Plan <- ShortPlan
  Requests = {"start", "approve"}
  Operators = "single"
  Faults = {}
SPECIFICATION Spec
INVARIANT OneForwardPath
