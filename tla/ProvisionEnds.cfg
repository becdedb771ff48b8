CONSTANTS
  N = 2
  Manifests <- FullManifests
  Run = {r1}
  Teardown = {t1}
  Faults = {"k8s", "crash"}
SPECIFICATION FairSpec
CHECK_DEADLOCK FALSE
PROPERTIES
  RunEnds
