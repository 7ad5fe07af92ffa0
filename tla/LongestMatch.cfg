CONSTANTS
  WindowSize = 8
  MaxLen = 12
  Byte = {0, 2}
  SameCap = 6
  MinMatch = 3
  MaxMatch = 5
  ChainHits = {2, 8}
  FirstAlloc = 1
  NoSublen = NoSublen
  Unwritten = Unwritten
  NoCache = NoCache
  Inputs <- MCInputs
  Blocks <- MCBlocks
  HashVals <- MCHashVals
  Empty <- MCEmpty
  HashStep <- MCHashStep
  HashSame <- MCHashSame
  Passes <- MCPasses
  PoolCap <- MCPoolCap
  Calls <- MCCalls
SPECIFICATION FairSearchSpec
INVARIANTS SearchTypeOK SameExact ChainsExact WalkInWindow MatchIsNearest AnswersAgree PoolInBounds
PROPERTY SearchEnds
