CONSTANTS
  Elementi <- RadioOnly
  Spurious = FALSE
SPECIFICATION FairSpec
PROPERTIES
  RenderJoined
CHECK_DEADLOCK FALSE
