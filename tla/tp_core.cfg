CONSTANTS
  Received <- AllSections
  MaxPat = 3
  MaxPmt = 2
SPECIFICATION Spec
INVARIANTS
  TypeOK
  PatDecoded
  PmtDecoded
  RefusedOnlyWhenFull
  StopsAtCrc
