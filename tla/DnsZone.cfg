\* Two clusters of one name, stale caches, one failure anywhere, one edit.
SPECIFICATION FairSpec
CONSTANTS
  OtherFinalizers = {capa}
  NeedsIRSA = TRUE
  Modes = {"public", "private"}
  Targets = {"ingress"}
  NoTarget = NoTarget
  Names = {"ingress"}
  EditKinds = {"paused", "finalizer", "records"}
  FailingCalls <- AllCalls
  MaxFailures = 1
  MaxEdits = 1
  MaxClusters = 2
INVARIANTS TypeOK NoDanglingDelegation
PROPERTIES GuardsZone EventuallyServed ZoneReleased
CHECK_DEADLOCK FALSE
