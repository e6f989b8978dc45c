\* One failure is enough to leak the resource share.
SPECIFICATION Spec
CONSTANTS
  OtherFinalizers = {}
  Clusters = {c1}
  ForeignRules = {r1}
  SharedAccount = TRUE
  CrossAccount = TRUE
  DNSServerVPC = dns
  NoRule = none
  InitialClusters <- OnlyReady
  EditedFields = {}
  FailingCalls <- AllCalls
  MaxFailures = 1
  MaxEdits = 0
INVARIANTS ShareGuarded
CHECK_DEADLOCK FALSE
