CONSTANTS
  Task = {t1, t2, t3, t4, t5}
  Nobody = Nobody
  Plan <- ShortPlan
  Requests = {"start", "approve", "abort", "revise", "rollback"}
  Operators = "quiescent"
  Faults = {"timeout", "batch_cut", "crash"}
SPECIFICATION Spec
SYMMETRY TaskSymmetry
INVARIANTS
  EffectHasRow
  PastGateApproved
  CompletedIsRewired
