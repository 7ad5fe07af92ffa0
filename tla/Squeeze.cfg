CONSTANTS
  MinMatch = 3
  MaxMatch = 4
  WindowSize = 8
  Byte = {0, 1}
  Iterations = 2
  Sentinel = 1000
  PoolCap <- MCPoolCap
  FirstAlloc = 1
  NoSublen = NoSublen
  Unwritten = Unwritten
  NoCache = NoCache
  Cases <- MCCases
  GreedySearches <- MCGreedySearches
  DistSymbol <- MCDistSymbol
  CostModels <- MCCostModels
  NumSymbols = 5
  EndSymbol = 2
  LLSymbols = {0, 1, 2, 4}
  DSymbols = {0, 1}
  LengthSymbol <- MCLengthSymbol
  LengthExtraBits <- MCLengthExtraBits
  DistExtraBits <- MCDistExtraBits
  ShortCode <- MCShortCode
  LogWidth = 15
  MaxShift = 4
  PositionBits = 7
  TotalBits = 9
  Parses <- MCParses
  BlockBytes = 12
  EncodedSize <- MCEncodedSize
  NumIterations = {0, 1, 4}
  RandomAfter = 1
  LargestCost = 1000
  NoParse = NoParse
SPECIFICATION MCSpec
INVARIANTS TypeOK HashWhenNeeded CostsAreLeast ParseKeepsPromise KeepsBest CostsFit
