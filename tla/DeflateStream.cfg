CONSTANTS
  InSizes = {0, 1, 5, 8}
  MaxBlocks = 3
  MasterSize = 5
  MaxStored = 2
  BodyBits = {7, 12}
  Modes <- MCModes
SPECIFICATION FairSpec
INVARIANTS BitsAgree PointsCarriedOver
PROPERTIES ChunksFit StreamSpec StreamEnds
