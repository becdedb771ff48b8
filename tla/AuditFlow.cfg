CONSTANTS
  t1 = t1
  t2 = t2
  other = other
  Stale = Stale
  Sessions <- AllSessions
  Tests <- AllTests
  Payload <- SomePayloads
  TopologyFlows <- SomeFlows
  Apps <- SomeApps
  PageSize = 2
  ZeroWindow = 2
  MaxPolls = 3
  MaxTroubles = 1
  MaxActive = 2
SPECIFICATION FairSystemSpec
CHECK_DEADLOCK FALSE
INVARIANTS
  TypeOK
  LamportUnique
  WalkComplete
  AnswerIsLogged
  SuccessMeansDelivered
  DrainFollowsHistory
PROPERTIES
  CausalOrder
  RequestsEnd
