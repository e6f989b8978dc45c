\* One Cluster, everything the controller depends on late or absent, other
\* writers, failures and restarts.
SPECIFICATION FairSpec
CONSTANTS
  OtherFinalizers = {"capi"}
  Kinds = {"aws", "eks"}
  Edits = {"pause", "infra", "identity", "crd", "config"}
  MaxEdits = 3
  MaxFailures = 1
INVARIANTS TypeOK ConfigGuarded
PROPERTIES EventuallyConfigured ClusterReleased
CHECK_DEADLOCK FALSE
