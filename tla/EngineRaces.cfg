CONSTANTS
  Task = {t1, t2, t3}
  Nobody = Nobody
  Plan <- ShortPlan
  Requests = {"start", "approve", "abort", "revise", "rollback"}
  Operators = "multi"
  Faults = {"probe"}
SPECIFICATION FairSpec
INVARIANTS
  TypeOK
  HumanGate
  NeverLeftInFlight
PROPERTY EventuallySettles
