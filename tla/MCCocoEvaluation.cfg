SPECIFICATION Spec
CONSTANTS
  MaxBlockSize = 2
  DimLargeScale = 10
  Requests <- MCRequests
  MaxCalls = 2
INVARIANTS
  DeclaredBestIsBest
  NadirIsReached
  HandedOutFresh
  CountersAgree
  PairsAreDistinct
