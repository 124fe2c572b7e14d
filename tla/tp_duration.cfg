CONSTANTS
  Received <- Eits
  MaxPat = 3
  MaxPmt = 2
SPECIFICATION Spec
INVARIANTS
  DurationInSeconds
