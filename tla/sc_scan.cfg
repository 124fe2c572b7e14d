CONSTANTS
  NumPrograms = 2
  Pmt <- TwoChannels
  EitEvents = 1
  MaxPat = 4
  MaxPmt = 4
  Digits = {0, 1}
  InfoKey = FALSE
  Faults = {"slowScan"}
SPECIFICATION Spec
INVARIANTS
  PidsOfTunedChannel
