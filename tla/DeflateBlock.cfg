CONSTANTS
  MaxWeight = 5000
  SmallBlock = 12
  SmallStore = 16
  MaxStored = 100
  Before = 32768
  Blocks <- MCBlocks
  Tasks <- MCTasks
SPECIFICATION MCSpec
INVARIANTS LengthsAreBest NodesInPool ReadsBack EstimateExact
CHECK_DEADLOCK FALSE
