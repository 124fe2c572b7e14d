CONSTANTS
  Channels <- OneChannel
  Digits = {2}
  MaxVolume = 1
  InitialVolume = 1
  Seconds = 1
SPECIFICATION Spec
INVARIANTS
  NumberIsCurrent
