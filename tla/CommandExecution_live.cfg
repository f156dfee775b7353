SPECIFICATION FairSpec
CONSTANTS
  Command = {c1}
  Lease = {l1}
  None = None
  CredentialLimit = 1
  OwnerActions = {"stop", "pause", "cancel"}
  OwnerCloses = TRUE
  Checkpoints = TRUE
  MaxCrashes = 1
  HostFaults = TRUE
  SignalledShell = FALSE
PROPERTIES
  ExecutionsSettle
CHECK_DEADLOCK FALSE
