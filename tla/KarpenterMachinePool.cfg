\* Every call may fail, the operator may stop, a pool is created again under its name.
SPECIFICATION FairSpec
CONSTANTS
  Data = {d1}
  NoData = NoData
  Instances = {i1}
  EKSKinds = {FALSE, TRUE}
  MaxVersion = 1
  EditKinds = {"deletePool", "deleteCluster"}
  FailingCalls <- AllCalls
  MaxEdits = 0
  MaxFailures = 1
  MaxPools = 2
INVARIANTS TypeOK ReadyMeansBootable LeftoversDrained
PROPERTIES GuardsUserData PoolReleased
CHECK_DEADLOCK FALSE
