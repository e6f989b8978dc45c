\* One workload cluster in an account of its own, the three controllers at
\* work on it that other accounts need.
SPECIFICATION FairSpec
CONSTANTS
  OtherFinalizers = {}
  MC = mc
  Clusters = {wc}
  Controllers = {"attachment", "entry", "share"}
  SameAccount = {}
  UserArns = {}
  Modes = {"GiantSwarmManaged"}
  Networks = {"ready"}
  Cidrs <- OneCidr
  CidrOf <- SameCidr
  Tables = {}
  MaxEntries = 2
  Other = other
  EditKinds = {}
  MaxEdits = 0
  MaxFailures = 1
INVARIANTS TypeOK
PROPERTIES GuardsNetwork SharesOutliveUse EventuallyConnected NetworkReleased
CHECK_DEADLOCK FALSE
