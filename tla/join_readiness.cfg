SPECIFICATION Spec
CONSTANTS
  None = None
  CertDuration = 7
  AdminDuration = 1
  CacheDuration = 1
  MaxDelay = 1
  AdminCertEnabled = TRUE
CHECK_DEADLOCK FALSE
INVARIANTS TypeOK ReadyIsAccepted ReadyIsStaked
PROPERTIES EventuallyReady OldNodeStops
