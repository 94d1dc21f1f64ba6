SPECIFICATION Spec
CONSTANTS
  Chunks = 2
  HalfBits = 4
  PhiQ = 2
  PhiStep = 1
  StatRows = 2
  CapSets <- MCCaps
  OpSet <- MCOps
INVARIANTS TypeOK ResultRight ArenaKept ArithmeticRight
