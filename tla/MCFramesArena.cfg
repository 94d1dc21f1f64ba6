SPECIFICATION Spec
CONSTANTS
  Heads = 3
  Blocks = 2
  Taps = {1, 2}
  TapRows = 2
  Frames = 2
  Sessions = 1
  Ring = 2
  AttCaps <- MCAttCaps
  ArenaSizes <- MCArenas
INVARIANTS ServesEveryFrame
