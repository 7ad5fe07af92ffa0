CONSTANTS
  WindowSize = 16
  MaxLen = 18
  Byte = {0, 1, 2}
  SameCap = 6
  MinMatch = 3
  MaxMatch = 6
  ChainHits = {3}
  FirstAlloc = 1
  NoSublen = NoSublen
  Unwritten = Unwritten
  NoCache = NoCache
  Inputs <- LongRunInputs
  Blocks <- LongRunBlocks
  HashVals <- MCHashVals
  Empty <- MCEmpty
  HashStep <- MCHashStep
  HashSame <- MCHashSame
  Passes <- MCPasses
  PoolCap <- MCPoolCap
  Calls <- MCCalls
SPECIFICATION SearchSpec
INVARIANT SecondChainOnlyFaster
