\* One cluster, every call may fail twice, stale cache, conflicting edits.
SPECIFICATION Spec
CONSTANTS
  OtherFinalizers = {capa}
  Clusters = {c1}
  ForeignRules = {r1}
  SharedAccount = TRUE
  CrossAccount = TRUE
  DNSServerVPC = dns
  NoRule = none
  InitialClusters <- AnyCluster
  EditedFields = {"dnsMode", "owner", "conditions"}
  FailingCalls <- AllCalls
  MaxFailures = 2
  MaxEdits = 2
INVARIANTS TypeOK ResourcesGuarded RuleServed DNSPathComplete
PROPERTIES GuardsResources
CHECK_DEADLOCK FALSE
