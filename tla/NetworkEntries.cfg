\* One cluster and another writer of a prefix list that holds two entries.
SPECIFICATION FairSpec
CONSTANTS
  OtherFinalizers = {"capa"}
  MC = mc
  Clusters = {wc}
  Controllers = {"entry"}
  SameAccount = {}
  UserArns = {}
  Modes = {"GiantSwarmManaged"}
  Networks = {"none", "ready"}
  Cidrs <- ThreeCidrs
  CidrOf <- SameCidr
  Tables = {}
  MaxEntries = 2
  Other = other
  EditKinds = {"entries", "network", "paused"}
  MaxEdits = 4
  MaxFailures = 1
INVARIANTS ConditionsTruthful
PROPERTIES GuardsNetwork EventuallyConnected NetworkReleased
CHECK_DEADLOCK FALSE
