SPECIFICATION Spec
CONSTANTS
  SymBits = 2
  CodeBits = 10
  Storage = 34
  Seed <- MCSeed
  CmfTop = 63
  MaxPerSf = 2
  PosPer = 2
  RunStep = 2
  OffsetSteps = 4
  NrgSyms = 2
  FcbgVN = 2
  Order = 1
  Grids = 3
  BlockSize = 2
  Blocks = 4
  SignBatch = 3
  BucketStep = 1
  Frames <- MCFrames
  Others = {0, 8, 136, 40, 200, 232}
  Leftovers <- MCLeftovers
INVARIANTS InSync FrameReturns
CHECK_DEADLOCK FALSE
