CONSTANTS
  A = A
  B = B
  Q1 = Q1
  Q2 = Q2
  X1 = X1
  X2 = X2
  C1 = C1
  C2 = C2
  Dlq = Dlq
  NameOrder <- Names
  Service <- Addresses
  DefaultDlq = Dlq
  NoName = NoName
  Nobody = Nobody
  QmOrder <- Rows
  Topologies <- AllTopologies
  Runs = 2
  MaxTroubles = 1
SPECIFICATION FairSpec
CHECK_DEADLOCK FALSE
INVARIANTS
  TypeOK
  CompletedDelivers
  CompletedRemoves
  ReapplicationSafe
  RefsResolve
  VerdictAgreesWithLog
  DeletedRunStops
PROPERTIES
  DlqStays
  RunSettles
