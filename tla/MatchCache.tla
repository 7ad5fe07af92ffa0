----------------------------- MODULE MatchCache -----------------------------
(***************************************************************************)
(* The longest-match cache of src/zopfli/cache.c as operators on a record. *)
(* For each position of a block (the code counts them from the block's     *)
(* start) it has a length and a distance; the best                         *)
(* distance for every shorter length (the "sublen") is kept as runs in a   *)
(* pool shared by the block, which is grown on demand up to a budget.      *)
(* Positions that would exceed the budget keep length and distance only.   *)
(***************************************************************************)
EXTENDS Integers, Sequences, SequencesExt, FiniteSets

CONSTANTS
  MinMatch,       \* ZOPFLI_MIN_MATCH (3)
  PoolCap(_),     \* pool_cap: budget in runs for so many positions (8 for each)
  FirstAlloc,     \* pool slots allocated at first (1024)
  NoSublen,       \* LMC_NO_SUBLEN
  Unwritten       \* run_off of a position never stored: uninitialized memory

ASSUME CacheAssumption ==
  /\ MinMatch \in Nat \ {0}
  /\ FirstAlloc \in Nat
  /\ NoSublen \notin Nat /\ Unwritten \notin Nat /\ NoSublen # Unwritten

Lesser(a, b) == IF a < b THEN a ELSE b

(* Length 1 with distance 0 marks a position that is not filled in; runOff   *)
(* is uninitialized until the position is stored.                            *)
InitCache(block) ==
  [ length   |-> [i \in block |-> 1],
    dist     |-> [i \in block |-> 0],
    runOff   |-> [i \in block |-> Unwritten],
    pool     |-> << >>,
    used     |-> 0,
    cap      |-> PoolCap(Cardinality(block)),
    alloc    |-> Lesser(PoolCap(Cardinality(block)), FirstAlloc),
    complete |-> TRUE ]

Available(c, i) == c.length[i] = 0 \/ c.dist[i] # 0

MaxCachedSublen(c, i) ==
  IF c.length[i] = 0 \/ c.runOff[i] = NoSublen THEN 0 ELSE c.length[i]

(* The runs of a sublen: the last length of each, with its distance, in the  *)
(* order of the lengths.                                                     *)
RunEnds(sublen, length) ==
  {k \in 3 .. length : k = length \/ sublen[k] # sublen[k + 1]}
InOrder(S) ==
  CHOOSE f \in Bijection(1 .. Cardinality(S), S) :
    \A p, r \in 1 .. Cardinality(S) : p < r => f[p] < f[r]
RunsOf(sublen, length) ==
  LET ends == InOrder(RunEnds(sublen, length))
  IN  [r \in DOMAIN ends |-> <<ends[r], sublen[ends[r]]>>]

(* ZOPFLI_GROW_CAP, clamped to the budget. *)
GrowCap(n, cap) == Lesser(n + (n \div 2) + (n \div 8) + 1, cap)

AllocForOnce(c, n) ==                                          \* mutant
  IF c.used + n > c.alloc THEN GrowCap(c.alloc, c.cap) ELSE c.alloc

(* The allocation after writing n more runs into the pool: it is             *)
(* grown whenever the next run would be written just past it.                *)
AllocFor(c, n) ==
  LET after[j \in 0 .. n] ==
        IF j = 0 THEN c.alloc
        ELSE IF c.used + j - 1 = after[j - 1] THEN GrowCap(after[j - 1], c.cap)
        ELSE after[j - 1]
  IN  after[n]

(* ZopfliSublenToCache: commit all the runs or none of them. *)
SublenToCache(c, i, length, sublen) ==
  LET nruns == Cardinality(RunEnds(sublen, length))
      avail == c.cap - c.used
  IN  IF length < 3 THEN c
      ELSE IF nruns > avail
        THEN [c EXCEPT !.complete = FALSE,
                       !.runOff[i] = NoSublen,
                       !.alloc = AllocFor(c, avail)]
        ELSE [c EXCEPT !.runOff[i] = c.used,
                       !.pool = @ \o RunsOf(sublen, length),
                       !.used = @ + nruns,
                       !.alloc = AllocFor(c, nruns)]

(* ZopfliCacheToSublen: the distance stored for length k at position i is    *)
(* that of the first of the position's runs that reaches k.                  *)
CachedDist(c, i, k) ==
  LET r == CHOOSE r \in c.runOff[i] + 1 .. c.used :
             /\ c.pool[r][1] >= k
             /\ \A q \in c.runOff[i] + 1 .. r - 1 : c.pool[q][1] < k
  IN  c.pool[r][2]

CacheToSublen(c, i, length, sublen) ==
  IF length < 3 THEN sublen
  ELSE [k \in DOMAIN sublen |->
          IF k <= length THEN CachedDist(c, i, k) ELSE sublen[k]]
=============================================================================
