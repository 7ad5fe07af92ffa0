------------------------------- MODULE Squeeze ------------------------------
(***************************************************************************)
(* The optimal parse of src/zopfli/squeeze.c (ZopfliLZ77Optimal and        *)
(* ZopfliLZ77OptimalFixed): a greedy run that fills some of the match      *)
(* cache, then iterations of a cheapest-path pass over the block, each     *)
(* under a cost model of its own, of which the path is traced backwards    *)
(* and put into a store.  A pass takes the matches of a position from the  *)
(* cache if it has them all and searches otherwise; in a long repetition   *)
(* of one byte it leaves positions out; once the cache is complete the     *)
(* hash is no longer built, and no search is possible any more.            *)
(*                                                                         *)
(* What a search returns is what LongestMatch shows of it: the longest     *)
(* match, with the nearest distance of every length.  Any sequence of cost *)
(* models is allowed; where they come from is SqueezeIterations.           *)
(***************************************************************************)
EXTENDS MatchCache

CONSTANTS
  MaxMatch,         \* ZOPFLI_MAX_MATCH (258)
  WindowSize,       \* ZOPFLI_WINDOW_SIZE (32768)
  Byte,
  Cases,            \* the data, from 0 on, and blocks in it: <<in, instart, inend>>
  GreedySearches,   \* the sets of positions a greedy run may search, counted
                    \* from the start of the block
  DistSymbol(_),    \* ZopfliGetDistSymbol
  CostModels,       \* [lit, len, dist]: costs of bytes, lengths, distance symbols
  Sentinel,         \* ZOPFLI_COST_SENTINEL
  Iterations,       \* numiterations
  NoCache           \* lmc = NULL

(* A position costs so little that a block of them stays below the sentinel: *)
(* a match costs no more than its bytes may (the comments at squeeze.c:34-38 *)
(* and 135-142; what the shift allows a position is CostsFit).               *)
Covers(most, model, n) ==
  /\ most * n < Sentinel
  /\ \A b \in Byte : model.lit[b] <= most
  /\ \A k \in MinMatch .. MaxMatch, s \in DOMAIN model.dist :
       model.len[k] + model.dist[s] <= most * k

ASSUME SqueezeAssumption ==
  /\ MinMatch = 3 /\ MaxMatch \in Nat /\ MinMatch <= MaxMatch
  /\ WindowSize \in Nat /\ WindowSize > 1
  /\ Sentinel \in Nat \ {0} /\ Iterations \in Nat \ {0}
  /\ \A c \in Cases : /\ c[2] \in Nat /\ c[3] \in Nat /\ c[2] < c[3]
                      /\ \A q \in 0 .. c[3] - 1 : c[1][q] \in Byte
                      /\ PoolCap(c[3] - c[2]) \in Nat
                      /\ \A model \in CostModels :
                           \E most \in 0 .. Sentinel : Covers(most, model, c[3] - c[2])
  /\ \A model \in CostModels :
       /\ \A b \in Byte : model.lit[b] \in Nat
       /\ \A k \in MinMatch .. MaxMatch : model.len[k] \in Nat
       /\ \A s \in DOMAIN model.dist : model.dist[s] \in Nat
       /\ \A d \in 1 .. WindowSize - 1 : DistSymbol(d) \in DOMAIN model.dist

VARIABLES
  array,            \* the data
  instart, end,     \* the block
  searches,         \* the positions the greedy run searches, while it runs
  lmc,              \* the longest match cache, or NoCache
  build_hash,       \* whether the pass builds the hash
  iteration,        \* number of the iteration, 0 before the first
  cost,             \* the cost model of the pass
  phase,            \* "greedy", then for each iteration
                    \* "forward", "trace", "follow", "stored"
  i,                \* position of the greedy run, the forward pass, FollowPath
  costs,            \* least cost so far to get to each index of the block
  lendist,          \* <<length, distance>> of the last symbol on the way there
  index,            \* where TraceBackwards is
  path,             \* the lengths of the symbols on the way to the end
  parsed            \* the symbols in the store

input == <<array, instart, end, searches>>
squeezeVars == <<input, lmc, build_hash, iteration, cost, phase, i, costs,
                 lendist, index, path, parsed>>

Block == instart .. end - 1
BlockSize == end - instart
Index(q) == q - instart

-----------------------------------------------------------------------------
(* The matches of a position.                                                *)

Agree(q, d, k) == \A m \in 0 .. k - 1 : array[q + m] = array[q - d + m]
Reaching(q, k) ==
  {d \in 1 .. WindowSize - 1 : d <= q /\ q + k <= end /\ Agree(q, d, k)}
Least(S) == CHOOSE x \in S : \A y \in S : x <= y
Longest(q) ==
  CHOOSE n \in {0} \cup (MinMatch .. MaxMatch) :
    /\ n # 0 => Reaching(q, n) # {}
    /\ \A m \in MinMatch .. MaxMatch : m > n => Reaching(q, m) = {}
Sublen(q) ==
  [k \in 1 .. MaxMatch |-> IF k <= Longest(q) THEN Least(Reaching(q, k)) ELSE 0]

(* A search at q leaves the cache like this.                                 *)
Searched(c, q) ==
  IF c = NoCache \/ Available(c, q) THEN c
  ELSE LET n == Longest(q) IN
       SublenToCache([c EXCEPT !.length[q] = n,
                               !.dist[q] = IF n = 0 THEN 0 ELSE Sublen(q)[n]],
                     q, n, Sublen(q))

CachedFully(q) ==
  /\ lmc # NoCache /\ Available(lmc, q)
  /\ lmc.length[q] <= MaxCachedSublen(lmc, q)

MatchLength(q) == IF CachedFully(q) THEN lmc.length[q] ELSE Longest(q)
MatchDist(q, k) == IF CachedFully(q) THEN CachedDist(lmc, q, k) ELSE Sublen(q)[k]

MatchCost(k, d) == cost.len[k] + cost.dist[DistSymbol(d)]

(* SetMinMatchCost *)
MinMatchCostOfLast ==                                                 \* mutant
  cost.len[MaxMatch] + cost.dist[DistSymbol(WindowSize - 1)]
MinMatchCost ==
  Least({cost.len[k] : k \in MinMatch .. MaxMatch})
    + Least({cost.dist[s] : s \in DOMAIN cost.dist})

-----------------------------------------------------------------------------
(* GetBestLengths: one round of its loop, on a record of what it assigns.    *)

(* h->same: how often the byte at q is repeated after it.                    *)
Run(q) ==
  CHOOSE n \in 0 .. end - 1 - q :
    /\ \A m \in 1 .. n : array[q + m] = array[q]
    /\ q + n + 1 < end => array[q + n + 1] # array[q]

InRepetition(q) ==
  /\ build_hash
  /\ Run(q) > 2 * MaxMatch
  /\ q > instart + MaxMatch + 1 /\ q + (2 * MaxMatch) + 1 < end
  /\ Run(q - MaxMatch) > MaxMatch

(* In a long repetition the positions reach one another by longest matches   *)
(* at distance 1, and are left out.                                          *)
OverRepetition(dp) ==
  LET j == Index(dp.i)
      reached == j + MaxMatch .. j + (2 * MaxMatch) - 1
  IN  [ i |-> dp.i + MaxMatch,
        costs |-> [t \in DOMAIN dp.costs |->
                     IF t \in reached
                       THEN dp.costs[t - MaxMatch] + MatchCost(MaxMatch, 1)
                       ELSE dp.costs[t]],
        lendist |-> [t \in DOMAIN dp.lendist |->
                       IF t \in reached THEN <<MaxMatch, 1>> ELSE dp.lendist[t]] ]

Incomplete(c) == IF c = NoCache THEN c ELSE [c EXCEPT !.complete = FALSE]

Improve(dp, t, length, dist, newCost) ==
  IF newCost < dp.costs[t]
    THEN [dp EXCEPT !.costs[t] = newCost, !.lendist[t] = <<length, dist>>]
    ELSE dp

WithLiteral(dp) ==
  LET j == Index(dp.i)
  IN  Improve(dp, j + 1, 1, 0, dp.costs[j] + cost.lit[array[dp.i]])

(* UpdateCostForRange, for every length of the match; each improves an index *)
(* of its own.                                                               *)
WithMatches(dp) ==
  LET j == Index(dp.i)
      dist(t) == MatchDist(dp.i, t - j)
      newCost(t) == dp.costs[j] + MatchCost(t - j, dist(t))
      better(t) == /\ t - j \in 3 .. MatchLength(dp.i)
                   /\ dp.costs[t] > MinMatchCost + dp.costs[j]
                   /\ newCost(t) < dp.costs[t]
  IN  [ i |-> dp.i,
        costs |-> [t \in DOMAIN dp.costs |->
                     IF better(t) THEN newCost(t) ELSE dp.costs[t]],
        lendist |-> [t \in DOMAIN dp.lendist |->
                       IF better(t) THEN <<t - j, dist(t)>> ELSE dp.lendist[t]] ]

Forward ==
  LET here == [i |-> i, costs |-> costs, lendist |-> lendist]
      from == IF InRepetition(i) THEN OverRepetition(here) ELSE here
      c == IF InRepetition(i) THEN Incomplete(lmc) ELSE lmc
      dp == WithMatches(WithLiteral(from))
  IN  /\ phase = "forward" /\ i < end
      /\ CachedFully(from.i) \/ build_hash
      /\ costs' = dp.costs /\ lendist' = dp.lendist
      /\ i' = from.i + 1
      /\ lmc' = IF CachedFully(from.i) THEN c ELSE Searched(c, from.i)
      /\ UNCHANGED <<input, build_hash, iteration, cost, phase, index, path, parsed>>

StartTrace ==
  /\ phase = "forward" /\ i = end
  /\ phase' = "trace"
  /\ index' = BlockSize
  /\ path' = << >>
  /\ UNCHANGED <<input, lmc, build_hash, iteration, cost, i, costs, lendist, parsed>>

(* TraceBackwards; the lengths are put in front instead of being mirrored.   *)
LastSymbolBefore(t) == lendist[t - 1]                                 \* mutant
LastSymbol(t) == lendist[t]
Trace ==
  LET length == LastSymbol(index)[1]
  IN  /\ phase = "trace" /\ index > 0 /\ length # 0
      /\ path' = <<length>> \o path
      /\ index' = index - length
      /\ UNCHANGED <<input, lmc, build_hash, iteration, cost, phase, i, costs,
                     lendist, parsed>>

StartFollow ==
  /\ phase = "trace" /\ index = 0
  /\ phase' = "follow"
  /\ i' = instart
  /\ UNCHANGED <<input, lmc, build_hash, iteration, cost, costs, lendist, index,
                 path, parsed>>

(* FollowPath *)
StoredDistHere(q, length) == lendist[Index(q)][2]                     \* mutant
StoredDist(q, length) == lendist[Index(q) + length][2]
Follow ==
  LET length == path[Len(parsed) + 1]
      dist == IF length >= MinMatch THEN StoredDist(i, length) ELSE 0
      bytes == IF length >= MinMatch THEN length ELSE 1
  IN  /\ phase = "follow" /\ Len(parsed) < Len(path)
      /\ parsed' = Append(parsed, [at |-> i, length |-> bytes, dist |-> dist])
      /\ i' = i + bytes
      /\ UNCHANGED <<input, lmc, build_hash, iteration, cost, phase, costs,
                     lendist, index, path>>

(* The end of LZ77OptimalRun.                                                *)
Stored ==
  /\ phase = "follow" /\ Len(parsed) = Len(path)
  /\ phase' = "stored"
  /\ UNCHANGED <<input, lmc, build_hash, iteration, cost, i, costs, lendist,
                 index, path, parsed>>

-----------------------------------------------------------------------------
(* ZopfliLZ77Optimal *)

Unreached(n) == [t \in 0 .. n |-> IF t = 0 THEN 0 ELSE Sentinel]
NoSymbols(n) == [t \in 0 .. n |-> <<0, 0>>]

Init ==
  /\ \E c \in Cases : array = c[1] /\ instart = c[2] /\ end = c[3]
  /\ searches \in GreedySearches
  /\ lmc \in {InitCache(Block), NoCache}
  /\ build_hash = TRUE
  /\ iteration = 0
  /\ cost = CHOOSE model \in CostModels : TRUE
  /\ phase = "greedy"
  /\ i = instart
  /\ costs = Unreached(BlockSize)
  /\ lendist = NoSymbols(BlockSize)
  /\ index = 0
  /\ path = << >>
  /\ parsed = << >>

StartPass ==
  /\ phase' = "forward"
  /\ i' = instart
  /\ costs' = Unreached(BlockSize)
  /\ lendist' = NoSymbols(BlockSize)
  /\ path' = << >>
  /\ parsed' = << >>

(* The greedy run comes to one position after the other; which ones it       *)
(* searches is a matter of LZ77Greedy.                                       *)
Greedy ==
  /\ phase = "greedy" /\ i < end
  /\ lmc' = IF Index(i) \in searches THEN Searched(lmc, i) ELSE lmc
  /\ i' = i + 1
  /\ UNCHANGED <<input, build_hash, iteration, cost, phase, costs, lendist, index,
                 path, parsed>>

(* The first pass, under the statistics of the greedy run.                   *)
FirstIteration(model) ==
  /\ phase = "greedy" /\ i = end
  /\ cost' = model
  /\ searches' = {}
  /\ StartPass
  /\ UNCHANGED <<array, instart, end, lmc, build_hash, iteration, index>>

(* The hash is given up after the first iteration if the cache is complete.  *)
CacheServesAnyway == lmc # NoCache                                    \* mutant
CacheServesAll == lmc # NoCache /\ lmc.complete
NextIteration(model) ==
  /\ phase = "stored" /\ iteration < Iterations - 1
  /\ iteration' = iteration + 1
  /\ build_hash' = IF iteration = 0 THEN ~ CacheServesAll ELSE build_hash
  /\ cost' = model
  /\ StartPass
  /\ UNCHANGED <<input, lmc, index>>

Finished == phase = "stored" /\ iteration = Iterations - 1 /\ UNCHANGED squeezeVars

Next ==
  \/ Greedy
  \/ \E model \in CostModels : FirstIteration(model)
  \/ Forward \/ StartTrace \/ Trace \/ StartFollow \/ Follow \/ Stored
  \/ \E model \in CostModels : NextIteration(model)
  \/ Finished

Spec == Init /\ [][Next]_squeezeVars

-----------------------------------------------------------------------------
(* The types, with what TraceBackwards asserts of the lengths it reads       *)
(* (squeeze.c:418-420) and FollowPath of the positions (squeeze.c:449-458);  *)
(* and every index up to the position of the pass is reached, also behind a  *)
(* repetition that was left out: the pass never goes on from the sentinel.   *)
TypeOK ==
  /\ lmc # NoCache => DOMAIN lmc.length = Block
  /\ build_hash \in BOOLEAN
  /\ iteration \in 0 .. Iterations - 1
  /\ phase \in {"greedy", "forward", "trace", "follow", "stored"}
  /\ i \in instart .. end
  /\ costs \in [0 .. BlockSize -> 0 .. Sentinel]
  /\ lendist \in [0 .. BlockSize -> (0 .. MaxMatch) \X (0 .. WindowSize - 1)]
  /\ index \in 0 .. BlockSize
  /\ phase = "trace" /\ index > 0 => LastSymbol(index)[1] \in 1 .. index
  /\ phase # "greedy" =>
       \A t \in 0 .. BlockSize :
         t <= Index(i) \/ phase # "forward" => costs[t] < Sentinel

(* A pass that does not build the hash comes to no position whose matches    *)
(* the cache does not have in full (the assertion at squeeze.c:375).         *)
HashWhenNeeded ==
  phase = "forward" /\ i < end /\ ~ build_hash => CachedFully(i)

(* The least cost to get to each index, by every literal and match there is, *)
(* once that of every index before is known.                                 *)
Arrivals(best, t) ==
  {best[t] + cost.lit[array[instart + t - 1]]}
    \cup {best[t - k + 1] + MatchCost(k, Sublen(instart + t - k)[k]) :
            k \in {k \in MinMatch .. MaxMatch :
                     k <= t /\ k <= Longest(instart + t - k)}}
CheapestTo ==
  LET upTo[t \in 0 .. BlockSize] ==
        IF t = 0 THEN <<0>>
        ELSE LET before == upTo[t - 1] IN Append(before, Least(Arrivals(before, t)))
  IN  upTo[BlockSize]

(* If no position is left out, a pass finds the least cost of every index,   *)
(* whether matches are cached or searched for, although it does not look at  *)
(* indices that no match of the model can improve.                           *)
CostsAreLeast ==
  phase = "trace" /\ index = BlockSize /\ (\A q \in Block : ~ InRepetition(q)) =>
    \A t \in 0 .. BlockSize : costs[t] = CheapestTo[t + 1]

(* util.h:155-158 says of the long repetitions that are left out: "This      *)
(* should not affect the compression result."                                *)
RepetitionsLoseNothing ==
  phase = "trace" /\ index = BlockSize => costs[BlockSize] = CheapestTo[BlockSize + 1]

(* What the symbols in the store cost.                                       *)
SymbolCost(s) ==
  IF s.dist = 0 THEN cost.lit[array[s.at]] ELSE MatchCost(s.length, s.dist)
Spent ==
  LET upTo[n \in 0 .. Len(parsed)] ==
        IF n = 0 THEN 0 ELSE upTo[n - 1] + SymbolCost(parsed[n])
  IN  upTo[Len(parsed)]

(* The symbols in the store cover the block one after the other, copy true   *)
(* matches, and cost together what the pass promised for the block.          *)
ParseKeepsPromise ==
  phase = "stored" =>
    /\ \A n \in 1 .. Len(parsed) :
         /\ parsed[n].at = IF n = 1 THEN instart
                           ELSE parsed[n - 1].at + parsed[n - 1].length
         /\ parsed[n].dist # 0 =>
              parsed[n].dist \in Reaching(parsed[n].at, parsed[n].length)
         /\ parsed[n].dist = 0 => parsed[n].length = 1
    /\ i = end
    /\ Spent = costs[BlockSize]
=============================================================================
