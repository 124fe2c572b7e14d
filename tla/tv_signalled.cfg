CONSTANTS
  Elementi <- RadioAndInfo
  Spurious = FALSE
SPECIFICATION FairSpec
INVARIANTS
  TypeOK
  PlaysOnLockedTuner
PROPERTIES
  ScreenFollowsFlags
CHECK_DEADLOCK FALSE
