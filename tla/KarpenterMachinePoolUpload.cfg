\* The content of the Secret, versions and holds change; any call but the deferred patch may fail.
SPECIFICATION FairSpec
CONSTANTS
  Data = {d1, d2}
  NoData = NoData
  Instances = {}
  EKSKinds = {FALSE, TRUE}
  MaxVersion = 2
  EditKinds = {"deletePool", "secret", "controlPlane", "machinePool", "pool", "hold"}
  FailingCalls <- CallsButPatch
  MaxEdits = 2
  MaxFailures = 1
  MaxPools = 1
PROPERTIES EventuallyUploaded PoolReleased
CHECK_DEADLOCK FALSE
