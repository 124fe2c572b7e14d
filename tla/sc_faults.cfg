CONSTANTS
  NumPrograms = 2
  Pmt <- CrowdedChannels
  EitEvents = 1
  MaxPat = 3
  MaxPmt = 1
  Digits = {1}
  InfoKey = FALSE
  Faults = {"bringUp", "earlyKey", "filterError", "streamError", "spurious", "lateCallback", "slowScan"}
SPECIFICATION Spec
INVARIANTS
  TypeOK
  StreamsAccounted
  TearDownComplete
PROPERTIES
  NoFilterLost
