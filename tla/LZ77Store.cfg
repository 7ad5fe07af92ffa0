CONSTANTS
  Stores = {current, output}
  Work = {current}
  Symbols <- MCSymbols
  LLSymbol <- MCLLSymbol
  DSymbol <- MCDSymbol
  Span <- MCSpan
  NumLL = 3
  NumD = 2
  PosChunk = 2
  FirstCap = 2
  DirectSpan = 3
  Garbage = 77
  MaxSymbols = 4
  DataSize = 4
SPECIFICATION StoreSpec
INVARIANTS InBounds HistogramsExact
PROPERTY IsALog
