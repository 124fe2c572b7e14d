CONSTANTS
  Elementi <- NoOverlay
  Spurious = TRUE
SPECIFICATION FairSpec
INVARIANTS
  LastUseBeforeRelease
  DeviceClosed
PROPERTIES
  ImplementsBringUp
  BringUpEnds
  ShutdownEnds
  ExitHeard
CHECK_DEADLOCK FALSE
