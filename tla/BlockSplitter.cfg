CONSTANTS
  Sizes = {2, 7, 12}
  Header = 2
  MaxBlocks = 4
  TooSmall = 3
  FewPoints = 5
  Num = 2
  LargeCost = 1000
  Stores <- MCStores
  Estimate <- MCEstimate
SPECIFICATION FairSpec
INVARIANTS PointsCutBlocks CostIsOfPoint
PROPERTIES DoneStaysWhole SplittingEnds
