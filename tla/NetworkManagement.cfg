\* The management cluster makes the transit gateway and the prefix list and is
\* connected to them itself.
SPECIFICATION FairSpec
CONSTANTS
  OtherFinalizers = {}
  MC = mc
  Clusters = {mc}
  Controllers = {"mc", "attachment", "route"}
  SameAccount = {mc}
  UserArns = {}
  Modes = {"GiantSwarmManaged"}
  Networks = {"ready"}
  Cidrs <- OneCidr
  CidrOf <- SameCidr
  Tables = {t1}
  MaxEntries = 2
  Other = other
  EditKinds = {}
  MaxEdits = 0
  MaxFailures = 0
INVARIANTS ConditionsTruthful
PROPERTIES GuardsNetwork EventuallyConnected NetworkReleased
CHECK_DEADLOCK FALSE
