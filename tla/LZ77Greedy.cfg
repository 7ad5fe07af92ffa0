CONSTANTS
  MinMatch = 3
  MaxMatch = 6
  Blocks <- MCBlocks
SPECIFICATION FairSpec
INVARIANTS TypeOK NothingLost
PROPERTIES ParseSpec EventuallyParsed
