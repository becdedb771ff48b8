CONSTANTS
  N = 2
  Manifests <- ShortManifests
  Run = {r1}
  Teardown = {t1}
  Faults = {}
SPECIFICATION Spec
CHECK_DEADLOCK FALSE
INVARIANT
  NeverCrashesMidRun
