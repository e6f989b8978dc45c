\* The records of one zone: the target of the wildcard, irsa and the target's record change.
SPECIFICATION Spec
CONSTANTS
  OtherFinalizers = {}
  NeedsIRSA = TRUE
  Modes = {"public"}
  Targets = {"ingress", "gateway"}
  NoTarget = NoTarget
  Names = {"irsa", "ingress"}
  EditKinds = {"target", "endpoint", "records"}
  FailingCalls = {"dropWildcard", "upsert"}
  MaxFailures = 1
  MaxEdits = 4
  MaxClusters = 1
INVARIANTS RememberedUpsertsPresent
CHECK_DEADLOCK FALSE
