CONSTANTS
  NumPrograms = 2
  Pmt <- TwoChannels
  EitEvents = 1
  MaxPat = 4
  MaxPmt = 4
  Digits = {2}
  InfoKey = FALSE
  Faults = {}
SPECIFICATION Spec
INVARIANTS
  PmtFilterOfService
