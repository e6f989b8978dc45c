\* Two clusters served by one worker, in accounts of their own.
SPECIFICATION FairSpec
CONSTANTS
  OtherFinalizers = {}
  Clusters = {c1, c2}
  ForeignRules = {}
  SharedAccount = FALSE
  CrossAccount = TRUE
  DNSServerVPC = dns
  NoRule = none
  InitialClusters <- OnlyReady
  EditedFields = {}
  FailingCalls <- CallsOutsideWindow
  MaxFailures = 1
  MaxEdits = 0
PROPERTIES EventuallyResolvable FinalizerReleased LiveClustersKeepResources
CHECK_DEADLOCK FALSE
