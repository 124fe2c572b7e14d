CONSTANTS
  Channels <- OneChannel
  Digits = {2}
  MaxVolume = 1
  InitialVolume = 1
  Seconds = 1
SPECIFICATION FairSpec
INVARIANTS
  TypeOK
  ShownWhileTimed
  InfoIsCurrent
  VolumeIsHeard
PROPERTIES
  OverlaysEnd
