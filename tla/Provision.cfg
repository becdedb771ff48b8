CONSTANTS
  N = 2
  Manifests <- ShortManifests
  Run = {r1, r2}
  Teardown = {t1}
  Faults = {"k8s", "crash"}
SPECIFICATION Spec
SYMMETRY RunSymmetry
CHECK_DEADLOCK FALSE
INVARIANTS
  TypeOK
  ReadyIsBacked
PROPERTIES
  CompletedStands
