------------------------------ MODULE LZ77Store -----------------------------
(***************************************************************************)
(* The LZ77 stores of src/zopfli/lz77.c.  A store keeps its symbols in     *)
(* arrays that grow, the byte position of every PosChunk-th symbol only,   *)
(* and cumulative histograms, one chunk of them per NumLL (NumD) symbols,  *)
(* that are brought up to date when a long range is asked for: a reset     *)
(* keeps the allocations with what they held, and a copy takes over only   *)
(* what has been counted so far.                                           *)
(***************************************************************************)
EXTENDS Integers, Sequences, FiniteSets

CONSTANTS
  Stores, Symbols, Span(_),     \* see SymbolLog
  LLSymbol(_),      \* the lit/len symbol of an LZ77 symbol
  DSymbol(_),       \* its distance symbol, or -1 for a literal
  Work,             \* the stores that a parser fills and resets
  NumLL,            \* ZOPFLI_NUM_LL: number of lit/len symbols (288)
  NumD,             \* ZOPFLI_NUM_D: number of distance symbols (32)
  PosChunk,         \* ZOPFLI_POS_CHUNK (256)
  FirstCap,         \* the first capacity (16)
  DirectSpan,       \* shorter ranges are counted directly (3 * NumLL)
  Garbage,          \* what uninitialized memory holds
  DataSize,         \* length of the data
  MaxSymbols        \* how many symbols a store may get (a bound for TLC)

LLSymbols == 0 .. NumLL - 1
DSymbols == 0 .. NumD - 1

ASSUME StoreAssumption ==
  /\ Work \subseteq Stores
  /\ {NumLL, NumD, PosChunk, FirstCap, DirectSpan} \subseteq Nat \ {0}
  /\ \A s \in Symbols : /\ LLSymbol(s) \in LLSymbols
                       /\ DSymbol(s) \in DSymbols \cup {-1}
                       /\ Span(s) \in Nat \ {0}

VARIABLE store      \* the stores, records of what a ZopfliLZ77Store holds

CeilDiv(a, b) == (a + b - 1) \div b

Array(n) == [i \in 0 .. n - 1 |-> Garbage]
Realloc(array, n) ==
  [i \in 0 .. n - 1 |-> IF i \in DOMAIN array THEN array[i] ELSE Garbage]

EmptyStore ==
  [ size |-> 0, cap |-> 0, symbols |-> Array(0), chunks |-> Array(0),
    ll |-> Array(0), d |-> Array(0), counted |-> 0 ]

(* ZopfliReserveLZ77Store for one symbol more than the store has: growing    *)
(* once is then enough.                                                      *)
GrowCap(n) == n + (n \div 2) + (n \div 8) + 1
ChunksForExact(cap) == cap \div PosChunk                          \* mutant
ChunksFor(cap) == cap \div PosChunk + 1
Reserved(st) ==
  LET cap == IF st.cap = 0 THEN FirstCap ELSE GrowCap(st.cap)
  IN  IF st.size < st.cap THEN st
      ELSE [st EXCEPT
              !.cap = cap,
              !.symbols = Realloc(@, cap),
              !.chunks = Realloc(@, ChunksFor(cap)),
              !.ll = IF @ = Array(0) THEN @
                     ELSE Realloc(@, NumLL * CeilDiv(cap, NumLL)),
              !.d = IF @ = Array(0) THEN @
                    ELSE Realloc(@, NumD * CeilDiv(cap, NumD))]

(* ZopfliStoreLitLenDist *)
Added(st, symbol, pos) ==
  LET r == Reserved(st)
  IN  [r EXCEPT !.symbols[st.size] = symbol,
                !.chunks = IF st.size % PosChunk = 0
                             THEN [@ EXCEPT ![st.size \div PosChunk] = pos] ELSE @,
                !.size = @ + 1]

(* ZopfliResetLZ77Store *)
EmptiedKeepingCounts(st) == [st EXCEPT !.size = 0]                \* mutant
Emptied(st) == [st EXCEPT !.size = 0, !.counted = 0]

(* ZopfliCopyLZ77Store *)
CopyOf(st) ==
  LET Taken(array, n, alloc) ==
        [i \in 0 .. alloc - 1 |-> IF i < n THEN array[i] ELSE Garbage]
      counts(array, num) ==
        IF st.counted = 0 THEN Array(0)
        ELSE Taken(array, num * CeilDiv(st.counted, num), num * CeilDiv(st.size, num))
  IN  [ size |-> st.size, cap |-> st.size,
        symbols |-> Taken(st.symbols, st.size, st.size),
        chunks |-> Taken(st.chunks, CeilDiv(st.size, PosChunk),
                         st.size \div PosChunk + 1),
        ll |-> counts(st.ll, NumLL), d |-> counts(st.d, NumD),
        counted |-> st.counted ]

(* A chunk of cumulative counts begins with the totals of the chunk before.  *)
Opened(array, i, num) ==
  IF i % num # 0 THEN array
  ELSE [k \in DOMAIN array |->
          IF k \notin i .. i + num - 1 THEN array[k]
          ELSE IF i = 0 THEN 0 ELSE array[k - num]]

CountedOne(st, i) ==
  LET s == st.symbols[i]
      ll == Opened(st.ll, i, NumLL)
      d == Opened(st.d, i, NumD)
  IN  [st EXCEPT
         !.ll = [ll EXCEPT ![NumLL * (i \div NumLL) + LLSymbol(s)] = @ + 1],
         !.d = IF DSymbol(s) = -1 THEN d
               ELSE [d EXCEPT ![NumD * (i \div NumD) + DSymbol(s)] = @ + 1]]

(* EnsureCounts *)
Counted(st) ==
  LET alloc(num) == Array(num * CeilDiv(st.cap, num))
      ready == IF st.ll # Array(0) THEN st
               ELSE [st EXCEPT !.ll = alloc(NumLL), !.d = alloc(NumD)]
      upTo[n \in 0 .. st.size] ==
        IF n <= st.counted THEN ready ELSE CountedOne(upTo[n - 1], n - 1)
  IN  [upTo[st.size] EXCEPT !.counted = st.size]

(* ZopfliLZ77GetHistogramAt: the totals at the end of the chunk of symbol    *)
(* lpos less what comes after it in the chunk.                               *)
HistogramAt(st, lpos) ==
  LET after(num, SymbolOf(_), v) ==
        {i \in lpos + 1 .. st.size - 1 :
           i < num * (lpos \div num) + num /\ SymbolOf(st.symbols[i]) = v}
  IN  [ ll |-> [v \in LLSymbols |-> st.ll[NumLL * (lpos \div NumLL) + v]
                                     - Cardinality(after(NumLL, LLSymbol, v))],
        d  |-> [v \in DSymbols |-> st.d[NumD * (lpos \div NumD) + v]
                                     - Cardinality(after(NumD, DSymbol, v))] ]

(* ZopfliLZ77GetHistogram *)
CountsCumulatively(l, r) == l + DirectSpan <= r

Directly(st, l, r) ==
  LET n(SymbolOf(_), v) ==
        Cardinality({i \in l .. r - 1 : SymbolOf(st.symbols[i]) = v})
  IN  [ ll |-> [v \in LLSymbols |-> n(LLSymbol, v)],
        d  |-> [v \in DSymbols |-> n(DSymbol, v)] ]

Cumulatively(st, l, r) ==
  LET upto == HistogramAt(st, r - 1)
      before == HistogramAt(st, l - 1)
  IN  IF l = 0 THEN upto
      ELSE [ ll |-> [v \in LLSymbols |-> upto.ll[v] - before.ll[v]],
             d  |-> [v \in DSymbols |-> upto.d[v] - before.d[v]] ]

(* ZopfliLZ77Pos: on from the position kept for the chunk of symbol lpos.    *)
PosOf(st, lpos) ==
  LET first == lpos - (lpos % PosChunk)
      pos[n \in 0 .. lpos % PosChunk] ==
        IF n = 0 THEN st.chunks[lpos \div PosChunk]
        ELSE pos[n - 1] + Span(st.symbols[first + n - 1])
  IN  pos[lpos % PosChunk]

(* ZopfliAppendLZ77Store: one by one, the positions counted on from the      *)
(* first one of the source.                                                  *)
FirstPosOfData(st) == 0                                           \* mutant
FirstPos(st) == IF st.size = 0 THEN 0 ELSE st.chunks[0]
Appended(st, target) ==
  LET step(acc, symbol) == [ to  |-> Added(acc.to, symbol, acc.pos),
                             pos |-> acc.pos + Span(symbol) ]
      upTo[n \in 0 .. st.size] ==
        IF n = 0 THEN [to |-> target, pos |-> FirstPos(st)]
        ELSE step(upTo[n - 1], st.symbols[n - 1])
  IN  upTo[st.size].to

-----------------------------------------------------------------------------
StoreInit == store = [s \in Stores |-> EmptyStore]

EndOf(st) == PosOf(st, st.size - 1) + Span(st.symbols[st.size - 1])

(* Callers go on where the store ends, and begin an empty one at the start   *)
(* of the data or where another store ends (FollowPath, ZopfliLZ77Greedy).   *)
Continuations(s) ==
  IF store[s].size > 0 THEN {EndOf(store[s])}
  ELSE {0} \cup {EndOf(store[t]) : t \in {u \in Stores : store[u].size > 0}}

StoreLitLenDist(s, symbol, pos) ==
  /\ store[s].size < MaxSymbols /\ pos + Span(symbol) <= DataSize
  /\ store' = [store EXCEPT ![s] = Added(@, symbol, pos)]

ResetLZ77Store(s) == store' = [store EXCEPT ![s] = Emptied(@)]

CopyLZ77Store(s, t) == store' = [store EXCEPT ![t] = CopyOf(store[s])]

AppendLZ77Store(s, t) ==
  /\ store[s].size + store[t].size <= MaxSymbols
  /\ store[s].size > 0 /\ store[t].size > 0 =>
       PosOf(store[s], 0) = EndOf(store[t])
  /\ store' = [store EXCEPT ![t] = Appended(store[s], @)]

(* A question about a long range materializes the counts.                    *)
GetHistogram(s, l, r) ==
  /\ CountsCumulatively(l, r)
  /\ store' = [store EXCEPT ![s] = Counted(@)]

StoreNext ==
  \/ \E s \in Work :
       \/ \E symbol \in Symbols, pos \in Continuations(s) :
            StoreLitLenDist(s, symbol, pos)
       \/ ResetLZ77Store(s)
       \/ \E t \in Stores \ {s} : CopyLZ77Store(s, t) \/ AppendLZ77Store(s, t)
  \/ \E s \in Stores : \E r \in 0 .. store[s].size : \E l \in 0 .. r :
       GetHistogram(s, l, r)

StoreSpec == StoreInit /\ [][StoreNext]_store

-----------------------------------------------------------------------------
(* Whatever is written next, and whatever a histogram reads, lies inside the *)
(* allocations, whose sizes all follow from the one capacity.                *)
InBounds ==
  \A s \in Stores :
    LET st == store[s] IN
    /\ st.counted <= st.size /\ st.size <= st.cap
    /\ DOMAIN st.symbols = 0 .. st.cap - 1
    /\ \A i \in 0 .. st.cap - 1 : i \div PosChunk \in DOMAIN st.chunks
    /\ st.counted > 0 => st.ll # Array(0)
    /\ st.ll # Array(0) =>
         \A i \in 0 .. st.cap - 1 :
           /\ NumLL * (i \div NumLL) + NumLL - 1 \in DOMAIN st.ll
           /\ NumD * (i \div NumD) + NumD - 1 \in DOMAIN st.d

(* A histogram is that of the range asked for, also when it is taken from    *)
(* the cumulative counts, whatever was reset, copied, appended or counted    *)
(* before: no count of an earlier use of the memory gets in.                 *)
HistogramsExact ==
  \A s \in Stores : \A r \in 0 .. store[s].size : \A l \in 0 .. r :
    CountsCumulatively(l, r) =>
      Cumulatively(Counted(store[s]), l, r) = Directly(store[s], l, r)

(* A store is the list of what was put into it, with positions that go on    *)
(* from symbol to symbol although one in PosChunk is kept: resetting,        *)
(* copying, appending and counting do to the list what they should.          *)
Entries(st) ==
  [n \in 1 .. st.size |-> [symbol |-> st.symbols[n - 1], at |-> PosOf(st, n - 1)]]

Log == INSTANCE SymbolLog WITH log <- [s \in Stores |-> Entries(store[s])]

IsALog == Log!LogSpec
=============================================================================
