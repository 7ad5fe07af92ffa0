---------------------------- MODULE LongestMatch ----------------------------
(***************************************************************************)
(* ZopfliFindLongestMatch of src/zopfli/lz77.c, with the hash it reads and *)
(* the cache it fills.  A caller passes over a block several times: it     *)
(* resets the hash, updates it position by position and asks at positions  *)
(* of the block for the longest match.  The greedy parser asks at some     *)
(* positions only (it skips the ones inside a match it has taken), the     *)
(* squeeze asks at every one (outside long repetitions, see Squeeze); the  *)
(* cache outlives the passes, the hash does not.  A search walks the chain *)
(* of the current position one candidate at a time and changes over to the *)
(* second chain on the way.                                                *)
(***************************************************************************)
EXTENDS ZopfliHash, MatchCache

CONSTANTS
  MaxMatch,        \* ZOPFLI_MAX_MATCH (258)
  ChainHits,       \* the values of ZOPFLI_MAX_CHAIN_HITS (8192) to build with
  Calls,           \* the <<limit, sublen wanted>> that callers pass
  Passes,          \* the kinds of the passes, in order
  NoCache          \* lmc = NULL

ASSUME MatchAssumption ==
  /\ MaxMatch \in Nat /\ 3 <= MinMatch /\ MinMatch <= MaxMatch
  /\ \A b \in Blocks : PoolCap(b[2] - b[1]) \in Nat
  /\ ChainHits \subseteq Nat \ {0}
  /\ Calls \subseteq (MinMatch .. MaxMatch) \X BOOLEAN
  /\ Passes \in Seq({"greedy", "squeeze"}) /\ Passes # << >>

VARIABLES
  pass,      \* index of the current pass
  phase,     \* "between": no search yet at the last position; "walk"; "found"
  maxHits,   \* ZOPFLI_MAX_CHAIN_HITS of this build
  lmc,       \* the longest match cache, or NoCache
  call,      \* the arguments of the last search: <<limit, sublen wanted>>
  walk,      \* the local variables of the chain walk
  found      \* what the last search returned

matchVars == <<pass, phase, maxHits, lmc, call, walk, found>>
allVars == <<vars, matchVars>>

at == pos - 1                            \* the position searched from
Block == instart .. end - 1
NoSublens == [k \in 1 .. MaxMatch |-> 0]
NoWalk == [ limit |-> 0, second |-> FALSE, p |-> 0, dist |-> WindowSize,
            best |-> 1, bestdist |-> 0, sublen |-> NoSublens,
            hits |-> maxHits ]
NotFound == [length |-> 0, dist |-> 0, sublen |-> NoSublens]

InitSearch ==
  /\ Init
  /\ pass = 1
  /\ phase = "between"
  /\ maxHits \in ChainHits
  /\ lmc \in {InitCache(Block), NoCache}
  /\ call \in {<<MaxMatch, TRUE>>}
  /\ walk = NoWalk
  /\ found = NotFound

MustSearch == Passes[pass] = "squeeze" /\ at \in Block /\ phase = "between"

(* The caller moves on to the next position of its pass. *)
Advance ==
  /\ phase # "walk" /\ ~ MustSearch
  /\ UpdateHash
  /\ phase' = "between"
  /\ found' = NotFound
  /\ UNCHANGED <<pass, maxHits, lmc, call, walk>>

NextPass ==
  /\ pos = end /\ phase # "walk" /\ ~ MustSearch
  /\ pass < Len(Passes)
  /\ StartRun(instart, end)
  /\ pass' = pass + 1
  /\ phase' = "between"
  /\ found' = NotFound
  /\ UNCHANGED <<maxHits, lmc, call, walk>>

-----------------------------------------------------------------------------
(* TryGetFromLongestMatchCache *)

CacheKnows == lmc # NoCache /\ Available(lmc, at)

LimitOkForCache(limit, wantsub) ==
  /\ CacheKnows
  /\ \/ limit = MaxMatch
     \/ lmc.length[at] <= limit
     \/ wantsub /\ MaxCachedSublen(lmc, at) >= limit

CacheAnswersShorter(limit, wantsub) ==                                \* mutant
  LimitOkForCache(limit, wantsub) /\ lmc.length[at] < MaxCachedSublen(lmc, at)
CacheAnswers(limit, wantsub) ==
  /\ LimitOkForCache(limit, wantsub)
  /\ wantsub => lmc.length[at] <= MaxCachedSublen(lmc, at)

(* The distance of a length 0 answer is an element of the caller's sublen    *)
(* array that nobody has written.                                            *)
CachedAnswers(limit, wantsub) ==
  LET length == Lesser(lmc.length[at], limit)
      sublen == IF wantsub THEN CacheToSublen(lmc, at, length, NoSublens)
                ELSE NoSublens
      dists  == IF ~ wantsub THEN {lmc.dist[at]}
                ELSE IF length = 0 THEN {0, WindowSize}
                ELSE {sublen[length]}
  IN  {[length |-> length, dist |-> d, sublen |-> sublen] : d \in dists}

(* A cached length without its sublen still tells when to stop. *)
UsableLimitExcluded(limit, wantsub) ==                                \* mutant
  IF LimitOkForCache(limit, wantsub) THEN lmc.length[at] - 1 ELSE limit
UsableLimit(limit, wantsub) ==
  IF LimitOkForCache(limit, wantsub) THEN lmc.length[at] ELSE limit

(* StoreInLongestMatchCache *)
StoredCache(limit, wantsub, sublen, dist, length) ==
  IF \/ lmc = NoCache \/ ~ wantsub \/ Available(lmc, at)
     \/ limit # MaxMatch /\ at + limit < end
    THEN lmc
    ELSE SublenToCache(
           [lmc EXCEPT !.dist[at] = IF length < MinMatch THEN 0 ELSE dist,
                       !.length[at] = IF length < MinMatch THEN 0 ELSE length],
           at, length, sublen)

-----------------------------------------------------------------------------
(* ZopfliFindLongestMatch *)

CanSearch(limit, wantsub) ==
  /\ phase = "between" /\ at \in Block
  /\ call' = <<limit, wantsub>>

Serve(limit, wantsub) ==
  /\ CanSearch(limit, wantsub)
  /\ CacheAnswers(limit, wantsub)
  /\ found' \in CachedAnswers(limit, wantsub)
  /\ phase' = "found"
  /\ UNCHANGED <<vars, pass, maxHits, lmc, walk>>

GiveUpNearEnd(limit, wantsub) ==
  /\ CanSearch(limit, wantsub)
  /\ ~ CacheAnswers(limit, wantsub)
  /\ end - at < MinMatch
  /\ found' = NotFound
  /\ lmc' = StoredCache(UsableLimit(limit, wantsub), wantsub, NoSublens, 0, 0)
  /\ phase' = "found"
  /\ UNCHANGED <<vars, pass, maxHits, walk>>

(* From slot p back to slot q, the long way round if q is p itself. *)
GapUnwrapped(q, p) == IF q <= p THEN p - q ELSE WindowSize - q + p    \* mutant
Gap(q, p) == IF q < p THEN p - q ELSE WindowSize - q + p

StartWalk(limit, wantsub) ==
  LET pp == chain.head[val]
      p  == chain.prev[pp]
  IN  /\ CanSearch(limit, wantsub)
      /\ ~ CacheAnswers(limit, wantsub)
      /\ end - at >= MinMatch
      /\ walk' = [NoWalk EXCEPT
                    !.limit = Lesser(UsableLimit(limit, wantsub), end - at),
                    !.p = p, !.dist = Gap(p, pp)]
      /\ phase' = "walk"
      /\ UNCHANGED <<vars, pass, maxHits, lmc, found>>

(* GetMatch: how far positions q and q - d agree, from n on and up to lim. *)
GetMatch(q, d, n, lim) ==
  CHOOSE m \in n .. lim :
    /\ m = lim \/ array[q + m] # array[q - d + m]
    /\ \A k \in n .. m - 1 : array[q + k] = array[q - d + k]

(* Where the comparison of a candidate may start: inside a long run, the     *)
(* runs of both positions are known to agree.                                *)
KnownEqual(d, limit) ==
  IF same[Slot(at)] > 2 /\ array[at] = array[at - d]
    THEN Lesser(Lesser(same[Slot(at)], limit), same[Slot(at - d)])
    ELSE 0

(* Only a candidate that agrees where the best one so far ended is compared. *)
CandidateLength(w) ==
  IF array[at + w.best] = array[at - w.dist + w.best]
    THEN GetMatch(at, w.dist, KnownEqual(w.dist, w.limit), w.limit)
    ELSE 0

Improved(w) ==
  LET n == CandidateLength(w)
  IN  IF n <= w.best THEN w
      ELSE [w EXCEPT !.best = n, !.bestdist = w.dist,
                     !.sublen = [k \in DOMAIN @ |->
                                   IF w.best < k /\ k <= n THEN w.dist ELSE @[k]]]

(* Change over to the second chain once no shorter run can do better.        *)
ChangeOverEarly(w) ==                                                 \* mutant
  [w EXCEPT !.second = @ \/ val2 = chain2.hashval[w.p]]
ChangeOver(w) ==
  [w EXCEPT !.second = @ \/ /\ w.best >= same[Slot(at)]
                            /\ val2 = chain2.hashval[w.p]]

ChainOf(w) == IF w.second THEN chain2 ELSE chain

(* The walk ends with a match of the wanted length, an uninitialized link,   *)
(* too many candidates, or more than a window away.                          *)
NextLink(w) == ChainOf(w).prev[w.p]
StopsAt(w) == w.best >= w.limit \/ NextLink(w) = w.p
FollowUncounted(w) ==                                                 \* mutant
  [w EXCEPT !.p = NextLink(w), !.dist = Gap(NextLink(w), w.p)]
Follow(w) ==
  [w EXCEPT !.p = NextLink(w), !.dist = @ + Gap(NextLink(w), w.p),
            !.hits = @ - 1]

EndedWalk(w) == [w EXCEPT !.dist = WindowSize]

Visit ==
  LET w == ChangeOver(Improved(walk))
      over == StopsAt(w) \/ Follow(w).hits <= 0
  IN  /\ phase = "walk" /\ walk.dist < WindowSize
      /\ walk' = IF over THEN EndedWalk(w) ELSE Follow(w)
      /\ UNCHANGED <<vars, pass, phase, maxHits, lmc, call, found>>

(* The sublen is the caller's array: nothing is written if there is none.    *)
Finish ==
  LET wantsub == call[2]
      sublen  == IF wantsub THEN walk.sublen ELSE NoSublens
  IN  /\ phase = "walk" /\ walk.dist >= WindowSize
      /\ found' = [length |-> walk.best, dist |-> walk.bestdist, sublen |-> sublen]
      /\ lmc' = StoredCache(walk.limit, wantsub, sublen, walk.bestdist, walk.best)
      /\ walk' = NoWalk
      /\ phase' = "found"
      /\ UNCHANGED <<vars, pass, maxHits, call>>

Search ==
  \E c \in Calls : \/ Serve(c[1], c[2])
                  \/ GiveUpNearEnd(c[1], c[2])
                  \/ StartWalk(c[1], c[2])

(* All passes are made. *)
Done ==
  /\ pos = end /\ phase # "walk" /\ ~ MustSearch /\ pass = Len(Passes)
  /\ UNCHANGED allVars

NextSearch == Advance \/ NextPass \/ Search \/ Visit \/ Finish \/ Done

SearchSpec == InitSearch /\ [][NextSearch]_allVars

(* Nothing runs beside the caller, so it goes on as long as it can.          *)
FairSearchSpec == SearchSpec /\ WF_allVars(Visit \/ Finish)

-----------------------------------------------------------------------------
(* The reference: what a search over all positions of the window finds.      *)

Agree(q, d, k) == \A j \in 0 .. k - 1 : array[q + j] = array[q - d + j]
Dists(q) == {d \in 1 .. WindowSize - 1 : d <= q}
Reaching(q, k) == {d \in Dists(q) : q + k <= end /\ Agree(q, d, k)}
Nearest(q, k) == CHOOSE d \in Reaching(q, k) : \A e \in Reaching(q, k) : d <= e
Longest(q) ==
  CHOOSE n \in 0 .. MaxMatch :
    /\ n > 0 => Reaching(q, n) # {}
    /\ n < MaxMatch => Reaching(q, n + 1) = {}

(* The types, with the range the code asserts of the limit, lz77.c:589-590.  *)
SearchTypeOK ==
  /\ TypeOK
  /\ maxHits \in ChainHits
  /\ pass \in 1 .. Len(Passes)
  /\ phase \in {"between", "walk", "found"}
  /\ call \in (MinMatch .. MaxMatch) \X BOOLEAN
  /\ phase = "walk" => walk.limit \in MinMatch .. MaxMatch
  /\ walk.p \in Slots
  /\ walk.best \in 1 .. MaxMatch
  /\ walk.sublen \in [1 .. MaxMatch -> 0 .. WindowSize - 1]
  /\ walk.hits \in 1 .. maxHits
  /\ found.length \in 0 .. MaxMatch

(* Wherever a search may begin, the chains of both tables lead from every    *)
(* live position to the nearest earlier ones of the same key in the window   *)
(* and nowhere else, whatever pass and whichever slots were reused: what the *)
(* change from one chain to the other relies on (hash.c:113-152).            *)
ChainsExact ==
  phase = "between" =>
    LET hashes == [first |-> Hashes, second |-> SecondHashes]
    IN  /\ ChainExact(chain, hashes.first, Start, pos)
        /\ ChainExact(chain2, hashes.second, Start, pos)

(* While the walk goes on, its slot is that of a live position dist before   *)
(* the current one that has the current hash in the chain being walked, and  *)
(* the walk is inside the input: lz77.c:630-636 asserts it.                  *)
WalkInWindow ==
  phase = "walk" /\ walk.dist < WindowSize =>
    /\ walk.dist \in 1 .. at
    /\ at - walk.dist \in Live /\ walk.p = Slot(at - walk.dist)
    /\ walk.best < walk.limit
    /\ ChainOf(walk).hashval[walk.p] = IF walk.second THEN val2 ELSE val

(* An answer's distances are, for every length, the smallest in the whole    *)
(* window (lz77.h:157-158), whether it was walked for or cached, although    *)
(* the walk leaves out most positions of the window after the change to the  *)
(* second chain; and unless the limit on candidates can stop a walk, its     *)
(* length is that of the longest match.  Less than the minimum is no match.  *)
MatchIsNearest ==
  phase = "found" =>
    /\ found.length >= MinMatch =>
         /\ found.length <= call[1]
         /\ found.dist = Nearest(at, found.length)
         /\ call[2] => \A k \in MinMatch .. found.length :
                         found.sublen[k] = Nearest(at, k)
    /\ maxHits >= WindowSize /\ Lesser(Longest(at), call[1]) >= MinMatch =>
         found.length = Lesser(Longest(at), call[1])

(* A position answers the same in every pass: what the cache gives, and what *)
(* a walk cut short by the cached length finds, is what was stored.          *)
AnswersAgree ==
  phase = "found" /\ CacheKnows /\ call[1] = MaxMatch =>
    IF lmc.length[at] = 0 THEN found.length < MinMatch
    ELSE /\ found.length = lmc.length[at]
         /\ found.dist = lmc.dist[at]
         /\ call[2] /\ lmc.runOff[at] # NoSublen =>
              \A k \in MinMatch .. found.length :
                found.sublen[k] = CachedDist(lmc, at, k)

(* What the search would return if it stayed in the first chain.             *)
FirstChainBest ==
  LET candidates == {d \in Dists(at) : Hashes[at - d] = Hashes[at]}
      tried == {d \in candidates :
                  Cardinality({e \in candidates : e < d}) < maxHits}
  IN  CHOOSE n \in 0 .. MaxMatch :
        /\ n > 0 => Reaching(at, n) \cap tried # {}
        /\ n < MaxMatch => Reaching(at, n + 1) \cap tried = {}

(* util.h:147-152 says of the second chain that it "has no effect on the     *)
(* compression result, only on speed": the length found is the one the first *)
(* chain alone gives.                                                        *)
SecondChainOnlyFaster ==
  phase = "found" /\ FirstChainBest >= MinMatch => found.length = FirstChainBest

(* The runs of the cache never exceed the memory allocated for them, nor the *)
(* allocation the budget; and the run offset of a cached match is written.   *)
PoolInBounds ==
  lmc # NoCache =>
    /\ lmc.used <= lmc.alloc /\ lmc.alloc <= lmc.cap
    /\ \A q \in Block : Available(lmc, q) /\ lmc.length[q] # 0 =>
          \/ lmc.runOff[q] = NoSublen /\ ~ lmc.complete
          \/ lmc.runOff[q] \in 0 .. lmc.used - 1

(* A search comes to an end.                                                 *)
SearchEnds == phase = "walk" ~> phase = "found"

=============================================================================
