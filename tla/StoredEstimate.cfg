CONSTANTS
  InSizes = {2, 3}
  MaxBlocks = 0
  MasterSize = 4
  MaxStored = 2
  BodyBits = {7, 12}
  Modes <- MCModes
SPECIFICATION Spec
PROPERTIES StoredFitsEstimate
