SPECIFICATION Spec
CONSTANTS
  Heads = 1
  Blocks = 1
  Taps = {1}
  TapRows = 1
  Frames = 2
  Sessions = 2
  Ring = 2
  AttCaps <- MCAttCaps
  ArenaSizes <- MCArenas
INVARIANTS FrameAnswered
PROPERTY SessionEnds
