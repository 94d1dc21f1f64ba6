SPECIFICATION Spec
CONSTANTS
  MaxCalls = 3
  MaxTiles = 2
  Rows = 1
  MayFail <- MCMayFail
  CapSets <- MCCapSets
  CallSet <- MCCalls
INVARIANTS TypeOK SuccessMeansDone NothingLeftBehind RangeWhole PairedLn JobAsAsked FailedUnused
PROPERTIES SlotKept CallReturns
