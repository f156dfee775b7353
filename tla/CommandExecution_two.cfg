SPECIFICATION FairSpec
CONSTANTS
  Command = {c1, c2}
  Lease = {l1}
  None = None
  CredentialLimit = 1
  OwnerActions = {"pause", "cancel"}
  OwnerCloses = FALSE
  Checkpoints = FALSE
  MaxCrashes = 0
  HostFaults = FALSE
  SignalledShell = FALSE
INVARIANT CredentialSlotsReturned
PROPERTIES
  ImplementsAuthority
  QueuedIsClaimed
  DaemonKeepsPolling
CHECK_DEADLOCK FALSE
