\* One cluster, two controllers, failures anywhere, conflicting edits.
SPECIFICATION FairUnpauseSpec
CONSTANTS
  OtherFinalizers = {}
  Clusters = {c1}
  PrivateVPC = {c1}
  ForeignRules = {r1}
  SharedAccount = FALSE
  CrossAccount = TRUE
  DNSServerVPC = dns
  NoRule = none
  InitialClusters <- Starting
  EditedFields = {"conditions"}
  FailingCalls <- VisibleFailures
  MaxFailures = 1
  MaxEdits = 2
INVARIANTS UnpausedMeansConnected
PROPERTIES EventuallyUnpaused
CHECK_DEADLOCK FALSE
