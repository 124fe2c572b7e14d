CONSTANTS
  NumPrograms = 3
  Pmt <- ThreeChannels
  EitEvents = 1
  MaxPat = 4
  MaxPmt = 4
  Digits = {0, 2}
  InfoKey = TRUE
  Faults = {}
SPECIFICATION FairSpec
INVARIANTS
  TypeOK
  LastRequestWins
  PidsOfTunedChannel
  PlaysTunedChannel
  PmtFilterOfService
  NeverWaitsInVain
  StreamsAccounted
  NoParseIntoFreedTables
  TearDownComplete
PROPERTIES
  NoFilterLost
  SettlesOnRequest
  ExitCompletes
  SelectorRefinement
