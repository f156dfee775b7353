SPECIFICATION Spec
CONSTANTS
  Command = {c1}
  Lease = {l1, l2}
  None = None
  CredentialLimit = 1
  OwnerActions = {"stop", "pause", "cancel"}
  OwnerCloses = TRUE
  Checkpoints = TRUE
  MaxCrashes = 2
  HostFaults = TRUE
  SignalledShell = TRUE
SYMMETRY LeaseSymmetry
INVARIANTS
  TypeOK
  CommandMirrorsExecution
  SupervisedAuthority
  LiveCapabilityIsCurrent
  SettledIsClosed
  StoppedNeverSucceeds
PROPERTIES
  SettlementIsFinal
CHECK_DEADLOCK FALSE
