CONSTANTS
  NumPrograms = 2
  Pmt <- SilentChannel
  EitEvents = 1
  MaxPat = 4
  MaxPmt = 4
  Digits = {0, 1}
  InfoKey = FALSE
  Faults = {}
SPECIFICATION Spec
INVARIANTS
  PlaysTunedChannel
