---------------------------- MODULE SqueezeProofs ---------------------------
(***************************************************************************)
(* Proofs about the squeeze, for all blocks, cost models, greedy runs and  *)
(* sizes of the cache: once the hash is given up, no position needs it     *)
(* (IInv); a pass finds the least costs (PassInv); what is stored costs    *)
(* what the pass found (ParseInv); of all iterations the smallest parse is *)
(* kept (IterationsInv); and no cost they compute leaves its range         *)
(* (StatsInv).                                                             *)
(***************************************************************************)
EXTENDS Squeeze, SqueezeIterations, MatchCacheProofs, NumberLemmas, SequenceTheorems

Fields == {"length", "dist", "runOff", "pool", "used", "cap", "alloc", "complete"}

Shape(c) ==
  /\ DOMAIN c = Fields
  /\ c.length \in [Block -> Nat] /\ c.dist \in [Block -> Nat]
  /\ DOMAIN c.runOff = Block
  /\ c.used \in Nat

FullyIn(c, q) == Available(c, q) /\ c.length[q] <= MaxCachedSublen(c, q)

(* What is in a complete cache is there in full.                             *)
Sound(c) ==
  c # NoCache =>
    /\ Shape(c)
    /\ c.complete => \A q \in Block : Available(c, q) => FullyIn(c, q)

(* How far the positions of a complete cache have been gone through.         *)
SoFar(q) == iteration = 0 /\ phase = "forward" => q < i

IInv ==
  /\ instart \in Nat /\ end \in Nat /\ instart < end
  /\ iteration \in Nat
  /\ phase \in {"greedy", "forward", "trace", "follow", "stored"}
  /\ phase \in {"greedy", "forward"} => i \in instart .. end
  /\ Sound(lmc)
  /\ iteration = 0 => build_hash
  /\ phase = "greedy" => iteration = 0
  /\ lmc # NoCache /\ lmc.complete /\ phase # "greedy" /\ iteration = 0 =>
       \A q \in Block : SoFar(q) => FullyIn(lmc, q)
  /\ ~ build_hash => /\ lmc # NoCache /\ lmc.complete
                     /\ \A q \in Block : FullyIn(lmc, q)

-----------------------------------------------------------------------------
(* A set of numbers up to n has a greatest one.                              *)
LEMMA Greatest ==
  ASSUME NEW n \in Nat, NEW T \in SUBSET (0 .. n), T # {}
  PROVE  \E m \in T : \A k \in T : k <= m
<1> DEFINE R == {nn \in Nat \X Nat : nn[1] < nn[2]}
           U == {k \in Nat : n - k \in T}
<1>1. IsWellFoundedOn(R, Nat)
  BY NatLessThanWellFounded DEF OpToRel, IsWellFoundedOn
<1>2. U \in SUBSET Nat /\ U # {}
  <2>1. PICK t \in T : TRUE
    OBVIOUS
  <2>2. n - t \in Nat /\ n - (n - t) = t
    BY <2>1
  <2> QED  BY <2>1, <2>2
<1> HIDE DEF U
<1>3. PICK m \in U : \A k \in U : ~ (<<k, m>> \in R)
  BY <1>1, <1>2, WFMin
<1>4. ASSUME NEW k \in U PROVE ~ (k < m)
  <2>1. k \in Nat /\ m \in Nat
    BY <1>2
  <2>2. <<k, m>> \in Nat \X Nat /\ <<k, m>>[1] = k /\ <<k, m>>[2] = m
    BY <2>1
  <2> QED  BY <1>3, <2>2
<1>5. ASSUME NEW t \in T PROVE t <= n - m
  <2>1. n - t \in Nat /\ n - (n - t) = t /\ m \in Nat
    BY <1>2
  <2>2. n - t \in U
    BY <2>1 DEF U
  <2> QED  BY <1>4, <2>1, <2>2
<1>6. n - m \in T
  BY <1>3 DEF U
<1> QED  BY <1>5, <1>6

(* What a search finds: no match, or the longest at some distance.           *)
LEMMA LongestFinds ==
  ASSUME NEW q
  PROVE  /\ Longest(q) \in {0} \cup (MinMatch .. MaxMatch)
         /\ Longest(q) # 0 => Reaching(q, Longest(q)) # {}
         /\ \A m \in MinMatch .. MaxMatch : m > Longest(q) => Reaching(q, m) = {}
<1> DEFINE Fits(n) == /\ n # 0 => Reaching(q, n) # {}
                      /\ \A m \in MinMatch .. MaxMatch : m > n => Reaching(q, m) = {}
           T == {n \in MinMatch .. MaxMatch : Reaching(q, n) # {}}
<1>1. MinMatch \in Nat /\ MaxMatch \in Nat /\ T \in SUBSET (0 .. MaxMatch)
  BY CacheAssumption, SqueezeAssumption
<1>2. \E n \in {0} \cup (MinMatch .. MaxMatch) : Fits(n)
  <2>1. CASE T = {}
    BY <2>1
  <2>2. CASE T # {}
    <3>1. PICK n \in T : \A k \in T : k <= n
      <4> HIDE DEF T
      <4> QED  BY <1>1, <2>2, Greatest
    <3>2. ASSUME NEW m \in MinMatch .. MaxMatch, m > n PROVE Reaching(q, m) = {}
      <4>1. n \in Int /\ m \in Int /\ ~ (m <= n)
        BY <1>1, <3>2
      <4> QED  BY <3>1, <3>2, <4>1
    <3> QED  BY <3>1, <3>2
  <2> QED  BY <2>1, <2>2
<1> HIDE DEF T
<1>3. Longest(q) \in {0} \cup (MinMatch .. MaxMatch) /\ Fits(Longest(q))
  BY <1>2 DEF Longest
<1> QED  BY <1>3

(* The nearest distance of a length, which a search finds.                   *)
Nearest(q, k) == Least(Reaching(q, k))

(* Every length up to the longest is reached, at the nearest distance.       *)
LEMMA NearestReaches ==
  ASSUME end \in Nat, NEW q \in Nat, NEW k \in 3 .. Longest(q)
  PROVE  /\ k \in MinMatch .. MaxMatch /\ q + k <= end
         /\ Nearest(q, k) \in Reaching(q, k)
         /\ Nearest(q, k) \in 1 .. WindowSize - 1
         /\ Sublen(q)[k] = Nearest(q, k)
         /\ \A d \in Reaching(q, k) : Nearest(q, k) <= d
<1> DEFINE S == Reaching(q, k)
<1>1. PICK n \in Nat : n = Longest(q)
  BY LongestFinds, SqueezeAssumption
<1>2. /\ k \in Nat /\ 1 <= k /\ k <= n /\ n # 0 /\ n <= MaxMatch /\ MinMatch = 3
      /\ k \in MinMatch .. MaxMatch /\ k \in 1 .. MaxMatch
  BY <1>1, LongestFinds, SqueezeAssumption
<1>3. S # {} /\ q + k <= end
  <2>1. PICK d \in Reaching(q, n) : TRUE
    BY <1>1, <1>2, LongestFinds
  <2>2. d \in 1 .. WindowSize - 1 /\ d <= q /\ q + n <= end /\ Agree(q, d, n)
    BY <2>1 DEF Reaching
  <2>3. q + k <= end /\ \A m \in 0 .. k - 1 : m \in 0 .. n - 1
    BY <1>2, <2>2
  <2>4. Agree(q, d, k)
    BY <2>2, <2>3 DEF Agree
  <2> QED  BY <2>2, <2>3, <2>4 DEF Reaching
<1>4. S \in SUBSET Nat /\ \A d \in S : d \in 1 .. WindowSize - 1
  BY SqueezeAssumption DEF Reaching
<1> HIDE DEF S
<1>5. PICK d \in S : \A e \in S : d <= e
  BY <1>3, <1>4, SmallestNumber
<1>6. Least(S) \in S /\ \A e \in S : Least(S) <= e
  BY <1>5 DEF Least
<1>7. Sublen(q)[k] = Least(S)
  BY <1>1, <1>2 DEF Sublen, S
<1> QED  BY <1>2, <1>3, <1>4, <1>6, <1>7 DEF S, Nearest

LEMMA DistanceFound ==
  ASSUME end \in Nat, NEW q \in Nat, Longest(q) # 0
  PROVE  Sublen(q)[Longest(q)] \in Nat \ {0}
<1>1. Longest(q) \in 3 .. Longest(q)
  BY LongestFinds, SqueezeAssumption
<1>2. Sublen(q)[Longest(q)] \in 1 .. WindowSize - 1
  BY <1>1, NearestReaches
<1> QED  BY <1>2, SqueezeAssumption

-----------------------------------------------------------------------------
(* A search leaves a position in the cache in full, or the cache incomplete, *)
(* and what was there in full before stays so.                               *)
LEMMA SearchedSound ==
  ASSUME end \in Nat, instart \in Nat,
         NEW c, c # NoCache, Sound(c), NEW q \in Block, NEW e, e = Searched(c, q)
  PROVE  /\ Sound(e) /\ Shape(e)
         /\ e.complete => /\ c.complete /\ FullyIn(e, q)
                          /\ \A p \in Block : FullyIn(c, p) => FullyIn(e, p)
<1>1. Shape(c) /\ (c.complete => \A p \in Block : Available(c, p) => FullyIn(c, p))
  BY DEF Sound
<1>2. CASE Available(c, q)
  <2>1. e = c
    BY <1>2 DEF Searched
  <2> QED  BY <1>1, <1>2, <2>1
<1>3. CASE ~ Available(c, q)
  <2> DEFINE n == Longest(q)
             d == IF n = 0 THEN 0 ELSE Sublen(q)[n]
             b == [c EXCEPT !.length[q] = n, !.dist[q] = d]
             nruns == Cardinality(RunEnds(Sublen(q), n))
  <2>1. e = SublenToCache(b, q, n, Sublen(q))
    BY <1>3 DEF Searched
  <2>2. n \in Nat /\ (n # 0 => d \in Nat \ {0}) /\ (n = 0 => d = 0) /\ (n < 3 => n = 0)
    <3>1. q \in Nat
      BY DEF Block
    <3> QED  BY <3>1, LongestFinds, DistanceFound, CacheAssumption, SqueezeAssumption
  <2>3. nruns \in Nat
    <3>1. IsFiniteSet(3 .. n) /\ RunEnds(Sublen(q), n) \in SUBSET (3 .. n)
      BY <2>2, FS_Interval DEF RunEnds
    <3> HIDE DEF n
    <3> QED  BY <3>1, FS_Subset, FS_CardinalityType
  <2>4. SublenToCache(b, q, n, Sublen(q)) =
          IF n < 3 THEN b
          ELSE IF nruns > b.cap - b.used
            THEN [b EXCEPT !.complete = FALSE, !.runOff[q] = NoSublen,
                           !.alloc = AllocFor(b, b.cap - b.used)]
            ELSE [b EXCEPT !.runOff[q] = b.used,
                           !.pool = @ \o RunsOf(Sublen(q), n),
                           !.used = @ + nruns,
                           !.alloc = AllocFor(b, nruns)]
    BY DEF SublenToCache
  <2> HIDE DEF n, d, nruns
  <2>5. /\ DOMAIN b = Fields /\ b.runOff = c.runOff /\ b.used = c.used
        /\ b.complete = c.complete
        /\ b.length = [c.length EXCEPT ![q] = n] /\ b.dist = [c.dist EXCEPT ![q] = d]
    BY <1>1 DEF Shape, Fields
  <2> HIDE DEF b
  <2>6. /\ DOMAIN e = Fields
        /\ e.length = b.length /\ e.dist = b.dist
        /\ DOMAIN e.runOff = Block
        /\ e.used \in Nat
        /\ \A p \in Block : p # q => e.runOff[p] = c.runOff[p]
        /\ e.complete => c.complete /\ (n >= 3 => e.runOff[q] = c.used)
    <3>1. CASE n < 3
      BY <1>1, <2>1, <2>2, <2>4, <2>5, <3>1 DEF Shape
    <3>2. CASE ~ (n < 3) /\ nruns > b.cap - b.used
      <4>1. e = [b EXCEPT !.complete = FALSE, !.runOff[q] = NoSublen,
                          !.alloc = AllocFor(b, b.cap - b.used)]
        BY <2>1, <2>4, <3>2
      <4>2. /\ DOMAIN e = Fields /\ e.length = b.length /\ e.dist = b.dist
            /\ e.runOff = [b.runOff EXCEPT ![q] = NoSublen] /\ e.used = b.used
            /\ e.complete = FALSE
        BY <2>5, <4>1 DEF Fields
      <4> QED  BY <1>1, <2>5, <4>2 DEF Shape
    <3>3. CASE ~ (n < 3) /\ ~ (nruns > b.cap - b.used)
      <4>1. e = [b EXCEPT !.runOff[q] = b.used,
                          !.pool = @ \o RunsOf(Sublen(q), n),
                          !.used = @ + nruns,
                          !.alloc = AllocFor(b, nruns)]
        BY <2>1, <2>4, <3>3
      <4>2. /\ DOMAIN e = Fields /\ e.length = b.length /\ e.dist = b.dist
            /\ e.runOff = [b.runOff EXCEPT ![q] = b.used] /\ e.used = b.used + nruns
            /\ e.complete = b.complete
        BY <2>5, <4>1 DEF Fields
      <4> QED  BY <1>1, <2>3, <2>5, <4>2 DEF Shape
    <3> QED  BY <3>1, <3>2, <3>3
  <2>7. Shape(e)
    BY <1>1, <2>2, <2>5, <2>6 DEF Shape
  <2>8. e.length[q] = n /\ e.dist[q] = d
    BY <1>1, <2>5, <2>6 DEF Shape
  <2>9. e.complete => FullyIn(e, q)
    <3>1. CASE n = 0
      BY <2>8, <3>1 DEF FullyIn, Available, MaxCachedSublen
    <3>2. CASE n # 0
      <4>1. n >= 3 /\ d # 0
        BY <2>2, <3>2
      <4>2. c.used # NoSublen
        BY <1>1, CacheAssumption DEF Shape
      <4> QED  BY <2>2, <2>6, <2>8, <3>2, <4>1, <4>2
                  DEF FullyIn, Available, MaxCachedSublen
    <3> QED  BY <3>1, <3>2
  <2>10. ASSUME NEW p \in Block, p # q
         PROVE  /\ e.length[p] = c.length[p] /\ e.dist[p] = c.dist[p]
                /\ e.runOff[p] = c.runOff[p]
    BY <1>1, <2>5, <2>6, <2>10 DEF Shape
  <2>11. ASSUME NEW p \in Block, p # q
         PROVE  (FullyIn(c, p) <=> FullyIn(e, p)) /\ (Available(c, p) <=> Available(e, p))
    BY <2>10, <2>11 DEF FullyIn, Available, MaxCachedSublen
  <2>12. Sound(e)
    BY <1>1, <2>6, <2>7, <2>9, <2>11 DEF Sound
  <2> QED  BY <2>6, <2>7, <2>9, <2>11, <2>12
<1> QED  BY <1>2, <1>3

LEMMA IncompleteSound ==
  ASSUME NEW c, c # NoCache, Sound(c)
  PROVE  Sound(Incomplete(c)) /\ Incomplete(c).complete = FALSE
<1>1. Incomplete(c) = [c EXCEPT !.complete = FALSE] /\ Shape(c)
  BY DEF Incomplete, Sound
<1>2. /\ DOMAIN Incomplete(c) = Fields /\ Incomplete(c).complete = FALSE
      /\ Incomplete(c).length = c.length /\ Incomplete(c).dist = c.dist
      /\ Incomplete(c).runOff = c.runOff /\ Incomplete(c).used = c.used
  BY <1>1 DEF Shape, Fields
<1> QED  BY <1>1, <1>2 DEF Sound, Shape

-----------------------------------------------------------------------------
LEMMA Initially == Init => IInv
<1> SUFFICES ASSUME Init PROVE IInv
  OBVIOUS
<1>1. instart \in Nat /\ end \in Nat /\ instart < end
  BY SqueezeAssumption DEF Init
<1>2. i \in instart .. end
  BY <1>1 DEF Init
<1>3. Sound(lmc)
  <2>1. CASE lmc = NoCache
    BY <2>1 DEF Sound
  <2>2. CASE lmc # NoCache
    <3>1. lmc = InitCache(Block)
      BY <2>2 DEF Init
    <3>2. /\ DOMAIN lmc = Fields
          /\ lmc.length = [q \in Block |-> 1] /\ lmc.dist = [q \in Block |-> 0]
          /\ lmc.runOff = [q \in Block |-> Unwritten] /\ lmc.used = 0
      BY <3>1 DEF InitCache, Fields
    <3>3. \A q \in Block : ~ Available(lmc, q)
      BY <3>2 DEF Available
    <3> QED  BY <3>2, <3>3 DEF Sound, Shape
  <2> QED  BY <2>1, <2>2
<1> QED  BY <1>1, <1>2, <1>3 DEF Init, IInv

LEMMA GreedyStep ==
  ASSUME IInv, Greedy PROVE IInv'
<1>1. /\ phase = "greedy" /\ i < end /\ i' = i + 1 /\ phase' = "greedy"
      /\ instart' = instart /\ end' = end /\ build_hash' = build_hash
      /\ iteration' = iteration
      /\ lmc' = IF Index(i) \in searches THEN Searched(lmc, i) ELSE lmc
  BY DEF Greedy, input
<1>2. i \in Block /\ i' \in instart .. end /\ Block' = Block
  BY <1>1 DEF IInv, Block
<1>3. Sound(lmc')
  <2>1. CASE lmc = NoCache
    BY <1>1, <2>1 DEF Searched, Sound
  <2>2. CASE lmc # NoCache
    BY <1>1, <1>2, <2>2, SearchedSound DEF IInv
  <2> QED  BY <2>1, <2>2
<1>4. Sound(lmc)'
  BY <1>2, <1>3 DEF Sound, Shape
<1> QED  BY <1>1, <1>2, <1>4 DEF IInv

LEMMA FirstIterationStep ==
  ASSUME IInv, NEW model, FirstIteration(model) PROVE IInv'
<1>1. /\ phase = "greedy" /\ phase' = "forward" /\ i' = instart
      /\ UNCHANGED <<instart, end, lmc, build_hash, iteration>>
  BY DEF FirstIteration, StartPass
<1>2. Sound(lmc)'
  BY <1>1 DEF IInv, Sound, Shape, Block
<1>3. i' \in instart' .. end' /\ \A q \in Block' : ~ (q < i')
  BY <1>1 DEF IInv, Block
<1> QED  BY <1>1, <1>2, <1>3 DEF IInv, SoFar

(* Leaving positions out makes the cache incomplete.                         *)
LEMMA ForwardStep ==
  ASSUME IInv, Forward PROVE IInv'
<1> DEFINE here == [i |-> i, costs |-> costs, lendist |-> lendist]
           from == IF InRepetition(i) THEN OverRepetition(here) ELSE here
           c == IF InRepetition(i) THEN Incomplete(lmc) ELSE lmc
           j == from.i
<1>1. /\ phase = "forward" /\ i < end /\ i' = j + 1 /\ phase' = phase
      /\ CachedFully(j) \/ build_hash
      /\ lmc' = IF CachedFully(j) THEN c ELSE Searched(c, j)
      /\ UNCHANGED <<instart, end, build_hash, iteration>>
  BY DEF Forward, input
<1>2. j = IF InRepetition(i) THEN i + MaxMatch ELSE i
  BY DEF OverRepetition
<1> HIDE DEF from, here
<1>3. instart \in Nat /\ end \in Nat /\ i \in instart .. end /\ MaxMatch \in Nat
  BY <1>1, SqueezeAssumption DEF IInv
<1>4. j \in Block /\ i' \in instart' .. end' /\ Block' = Block
  <2>1. CASE InRepetition(i)
    BY <1>1, <1>2, <1>3, <2>1 DEF InRepetition, Block
  <2>2. CASE ~ InRepetition(i)
    BY <1>1, <1>2, <1>3, <2>2 DEF Block
  <2> QED  BY <2>1, <2>2
<1> HIDE DEF j
<1>5. \A q : CachedFully(q) <=> lmc # NoCache /\ FullyIn(lmc, q)
  BY DEF CachedFully, FullyIn
<1>6. CASE lmc = NoCache
  <2>1. lmc' = NoCache
    BY <1>1, <1>5, <1>6 DEF Searched, Incomplete
  <2>2. Sound(lmc)'
    BY <2>1 DEF Sound
  <2> QED  BY <1>1, <1>4, <1>6, <2>1, <2>2 DEF IInv
<1>7. CASE lmc # NoCache /\ InRepetition(i)
  <2>1. build_hash
    BY <1>7 DEF InRepetition
  <2>2. Sound(c) /\ c.complete = FALSE
    BY <1>7, IncompleteSound DEF IInv
  <2> HIDE DEF c
  <2>3. lmc' # NoCache => Sound(lmc') /\ ~ lmc'.complete
    <3>1. CASE CachedFully(j)
      BY <1>1, <2>2, <3>1
    <3>2. CASE ~ CachedFully(j) /\ c # NoCache
      BY <1>1, <1>3, <1>4, <2>2, <3>2, SearchedSound
    <3>3. CASE ~ CachedFully(j) /\ c = NoCache
      BY <1>1, <3>3 DEF Searched
    <3> QED  BY <3>1, <3>2, <3>3
  <2>4. Sound(lmc)'
    BY <1>4, <2>3 DEF Sound, Shape
  <2> QED  BY <1>1, <1>4, <2>1, <2>3, <2>4 DEF IInv
<1>8. CASE lmc # NoCache /\ ~ InRepetition(i)
  <2>1. c = lmc /\ j = i
    BY <1>2, <1>8
  <2> HIDE DEF c
  <2>2. /\ Sound(lmc')
        /\ lmc'.complete => /\ lmc.complete /\ FullyIn(lmc', i)
                            /\ \A p \in Block : FullyIn(lmc, p) => FullyIn(lmc', p)
    <3>1. CASE CachedFully(j)
      BY <1>1, <1>5, <2>1, <3>1 DEF IInv
    <3>2. CASE ~ CachedFully(j)
      BY <1>1, <1>4, <1>8, <2>1, <3>2, SearchedSound DEF IInv
    <3> QED  BY <3>1, <3>2
  <2>3. Sound(lmc)'
    BY <1>4, <2>2 DEF Sound, Shape
  <2>4. ~ build_hash => lmc' = lmc
    BY <1>1, <1>5, <2>1 DEF IInv
  <2>5. lmc'.complete /\ iteration = 0 => \A q \in Block : q < i' => FullyIn(lmc', q)
    <3> SUFFICES ASSUME lmc'.complete, iteration = 0, NEW q \in Block, q < i'
                 PROVE  FullyIn(lmc', q)
      OBVIOUS
    <3>1. q \in Int /\ (q = i \/ q < i)
      BY <1>1, <1>3, <2>1 DEF Block
    <3>2. CASE q = i
      BY <2>2, <3>2
    <3>3. CASE q < i
      BY <1>1, <1>8, <2>2, <3>3 DEF IInv, SoFar
    <3> QED  BY <3>1, <3>2, <3>3
  <2>6. iteration' = 0 /\ lmc' # NoCache /\ lmc'.complete =>
          \A q \in Block' : SoFar(q)' => FullyIn(lmc', q)
    BY <1>1, <1>4, <2>5 DEF SoFar
  <2>7. ~ build_hash' => /\ lmc' # NoCache /\ lmc'.complete
                         /\ \A q \in Block' : FullyIn(lmc', q)
    BY <1>1, <1>4, <2>4 DEF IInv
  <2>8. \A q : FullyIn(lmc, q)' <=> FullyIn(lmc', q)
    BY DEF FullyIn, Available, MaxCachedSublen
  <2> QED  BY <1>1, <1>4, <2>3, <2>6, <2>7, <2>8 DEF IInv
<1> QED  BY <1>6, <1>7, <1>8

(* What follows a pass leaves cache and hash alone.                          *)
LEMMA OtherSteps ==
  ASSUME IInv, StartTrace \/ Trace \/ StartFollow \/ Follow \/ Stored \/ UNCHANGED squeezeVars
  PROVE  IInv'
<1>1. CASE UNCHANGED squeezeVars
  BY <1>1 DEF squeezeVars, input, IInv, Sound, Shape, SoFar, Block, FullyIn, Available,
              MaxCachedSublen
<1>2. CASE ~ UNCHANGED squeezeVars
  <2>1. /\ UNCHANGED <<instart, end, lmc, build_hash, iteration>>
        /\ phase' \in {"trace", "follow", "stored"}
        /\ (phase = "forward" /\ i = end) \/ phase \in {"trace", "follow"}
    BY <1>2 DEF StartTrace, Trace, StartFollow, Follow, Stored, input
  <2>2. Sound(lmc)' /\ Block' = Block
    BY <2>1 DEF IInv, Sound, Shape, Block
  <2>3. \A q \in Block : SoFar(q)
    BY <2>1 DEF IInv, SoFar, Block
  <2> QED  BY <2>1, <2>2, <2>3 DEF IInv
<1> QED  BY <1>1, <1>2

LEMMA NextIterationStep ==
  ASSUME IInv, NEW model, NextIteration(model) PROVE IInv'
<1>1. /\ phase = "stored" /\ phase' = "forward" /\ i' = instart
      /\ iteration' = iteration + 1
      /\ build_hash' = IF iteration = 0 THEN ~ CacheServesAll ELSE build_hash
      /\ UNCHANGED <<instart, end, lmc>>
  BY DEF NextIteration, StartPass, input
<1>2. Sound(lmc)' /\ Block' = Block /\ i' \in instart' .. end'
  BY <1>1 DEF IInv, Sound, Shape, Block
<1>3. iteration' \in Nat /\ iteration' # 0
  BY <1>1 DEF IInv
<1>4. ~ build_hash' => /\ lmc # NoCache /\ lmc.complete
                       /\ \A q \in Block : FullyIn(lmc, q)
  <2>1. CASE iteration = 0
    <3>1. ~ build_hash' => lmc # NoCache /\ lmc.complete
      BY <1>1, <2>1 DEF CacheServesAll
    <3>2. \A q \in Block : SoFar(q)
      BY <1>1 DEF SoFar
    <3> QED  BY <1>1, <2>1, <3>1, <3>2 DEF IInv
  <2>2. CASE iteration # 0
    BY <1>1, <2>2 DEF IInv
  <2> QED  BY <2>1, <2>2
<1> QED  BY <1>1, <1>2, <1>3, <1>4 DEF IInv

-----------------------------------------------------------------------------
(* ZopfliLZ77Optimal (squeeze.c:595-600) and what fills its cache: a cache   *)
(* that is still complete after a pass has every position of it in full.     *)
THEOREM Invariant == Spec => []IInv
<1>1. IInv /\ [Next]_squeezeVars => IInv'
  <2> SUFFICES ASSUME IInv, [Next]_squeezeVars PROVE IInv'
    OBVIOUS
  <2>1. CASE Greedy
    BY <2>1, GreedyStep
  <2>2. CASE \E model \in CostModels : FirstIteration(model)
    BY <2>2, FirstIterationStep
  <2>3. CASE Forward
    BY <2>3, ForwardStep
  <2>4. CASE \E model \in CostModels : NextIteration(model)
    BY <2>4, NextIterationStep
  <2>5. CASE StartTrace \/ Trace \/ StartFollow \/ Follow \/ Stored \/ UNCHANGED squeezeVars
    BY <2>5, OtherSteps
  <2> QED  BY <2>1, <2>2, <2>3, <2>4, <2>5 DEF Next, Finished
<1> QED  BY Initially, <1>1, PTL DEF Spec

(* The assertion at squeeze.c:375: a pass that does not build the hash finds *)
(* the matches of every position it comes to in the cache.                   *)
THEOREM HashIsNotMissed == Spec => []HashWhenNeeded
<1>1. IInv => HashWhenNeeded
  BY DEF IInv, HashWhenNeeded, FullyIn, CachedFully, Block
<1> QED  BY Invariant, <1>1, PTL

-----------------------------------------------------------------------------
(* The matches of a position in the cache are those a search would find.     *)
HasNearest(c, q, k) ==
  \E r \in Nat : FirstRunFor(c, q, k, r) /\ c.pool[r][2] = Nearest(q, k)

CacheHolds(c) ==
  c # NoCache =>
    /\ PoolFits(c)
    /\ DOMAIN c.length = Block /\ DOMAIN c.dist = Block /\ DOMAIN c.runOff = Block
    /\ \A q \in Block :
         Available(c, q) =>
           /\ c.length[q] = Longest(q)
           /\ c.length[q] >= 3 /\ c.runOff[q] # NoSublen =>
                /\ c.runOff[q] \in Nat
                /\ \A k \in 3 .. Longest(q) : HasNearest(c, q, k)

(* What a search caches are the matches it found; a cache that has them      *)
(* keeps them.                                                               *)
LEMMA SearchedHolds ==
  ASSUME end \in Nat, instart \in Nat, NEW c, CacheHolds(c), NEW q \in Block
  PROVE  CacheHolds(Searched(c, q))
<1>1. CASE c = NoCache \/ Available(c, q)
  BY <1>1 DEF Searched
<1>2. CASE c # NoCache /\ ~ Available(c, q)
  <2> DEFINE n == Longest(q)
             d == IF n = 0 THEN 0 ELSE Sublen(q)[n]
             b == [c EXCEPT !.length[q] = n, !.dist[q] = d]
             e == SublenToCache(b, q, n, Sublen(q))
  <2>1. Searched(c, q) = e
    BY <1>2 DEF Searched
  <2>2. n \in Nat /\ q \in Nat /\ \A k \in 3 .. n : Sublen(q)[k] = Nearest(q, k)
                                                   /\ Nearest(q, k) \in Nat
    <3>1. n \in Nat /\ q \in Nat
      BY LongestFinds, SqueezeAssumption DEF Block
    <3>2. ASSUME NEW k \in 3 .. n PROVE Sublen(q)[k] = Nearest(q, k) /\ Nearest(q, k) \in Nat
      BY <3>1, <3>2, NearestReaches, SqueezeAssumption
    <3> QED  BY <3>1, <3>2
  <2> HIDE DEF n, d
  <2>3. /\ PoolFits(c)
        /\ DOMAIN c.length = Block /\ DOMAIN c.dist = Block /\ DOMAIN c.runOff = Block
    BY <1>2 DEF CacheHolds
  <2>4. /\ PoolFits(b) /\ DOMAIN b.length = Block /\ DOMAIN b.dist = Block
        /\ DOMAIN b.runOff = Block
        /\ b.pool = c.pool /\ b.used = c.used /\ b.runOff = c.runOff
        /\ b.length[q] = n /\ \A p \in Block : p # q => /\ b.length[p] = c.length[p]
                                                        /\ b.dist[p] = c.dist[p]
    BY <2>3 DEF PoolFits
  <2> HIDE DEF b
  <2>5. Committed(b, q, n, Sublen(q), e)
    BY <2>2, <2>4, SublenToCacheCommits
  <2> HIDE DEF e
  <2>6. /\ PoolFits(e) /\ DOMAIN e.length = Block /\ DOMAIN e.dist = Block
        /\ DOMAIN e.runOff = Block
        /\ e.length[q] = n
        /\ \A p \in Block : p # q => /\ e.length[p] = c.length[p]
                                     /\ e.dist[p] = c.dist[p]
                                     /\ e.runOff[p] = c.runOff[p]
        /\ c.used <= e.used /\ \A r \in 1 .. c.used : e.pool[r] = c.pool[r]
        /\ c.used \in Nat /\ e.used \in Nat
    BY <2>3, <2>4, <2>5 DEF Committed, PoolFits
  <2>7. ASSUME NEW p \in Block, p # q, Available(e, p)
        PROVE  /\ e.length[p] = Longest(p)
               /\ e.length[p] >= 3 /\ e.runOff[p] # NoSublen =>
                    /\ e.runOff[p] \in Nat
                    /\ \A k \in 3 .. Longest(p) : HasNearest(e, p, k)
    <3>1. Available(c, p)
      BY <2>6, <2>7 DEF Available
    <3>2. /\ e.length[p] = Longest(p)
          /\ e.length[p] >= 3 /\ e.runOff[p] # NoSublen =>
               /\ e.runOff[p] \in Nat
               /\ \A k \in 3 .. Longest(p) : HasNearest(c, p, k)
      BY <1>2, <2>6, <2>7, <3>1 DEF CacheHolds
    <3>3. ASSUME NEW k \in 3 .. Longest(p), HasNearest(c, p, k), e.runOff[p] \in Nat
          PROVE  HasNearest(e, p, k)
      <4>1. PICK r \in Nat : FirstRunFor(c, p, k, r) /\ c.pool[r][2] = Nearest(p, k)
        BY <3>3 DEF HasNearest
      <4>2. PICK o \in Nat : o = e.runOff[p]
        BY <3>3
      <4>3. o = c.runOff[p]
        BY <2>6, <2>7, <4>2
      <4>4. /\ r \in o + 1 .. c.used /\ c.pool[r][1] >= k
            /\ \A x \in o + 1 .. r - 1 : c.pool[x][1] < k
        BY <4>1, <4>3 DEF FirstRunFor
      <4>5. r \in o + 1 .. e.used /\ r \in 1 .. c.used
            /\ \A x \in o + 1 .. r - 1 : x \in 1 .. c.used
        BY <2>6, <4>4
      <4>6. FirstRunFor(e, p, k, r) /\ e.pool[r][2] = Nearest(p, k)
        BY <2>6, <4>1, <4>2, <4>4, <4>5 DEF FirstRunFor
      <4> QED  BY <4>6 DEF HasNearest
    <3> QED  BY <3>2, <3>3
  <2>8. /\ e.length[q] = Longest(q)
        /\ e.length[q] >= 3 /\ e.runOff[q] # NoSublen =>
             /\ e.runOff[q] \in Nat
             /\ \A k \in 3 .. Longest(q) : HasNearest(e, q, k)
    <3>1. n >= 3 /\ e.runOff[q] # NoSublen =>
            /\ e.runOff[q] = c.used
            /\ \A k \in 3 .. n : \E r \in Nat :
                 FirstRunFor(e, q, k, r) /\ e.pool[r][2] = Sublen(q)[k]
      BY <2>4, <2>5 DEF Committed
    <3>2. n >= 3 /\ e.runOff[q] # NoSublen =>
            e.runOff[q] \in Nat /\ \A k \in 3 .. n : HasNearest(e, q, k)
      BY <2>2, <2>6, <3>1 DEF HasNearest
    <3> QED  BY <2>6, <3>2 DEF n
  <2>9. \A p \in Block : Available(e, p) =>
           /\ e.length[p] = Longest(p)
           /\ e.length[p] >= 3 /\ e.runOff[p] # NoSublen =>
                /\ e.runOff[p] \in Nat
                /\ \A k \in 3 .. Longest(p) : HasNearest(e, p, k)
    <3> TAKE p \in Block
    <3>1. CASE p = q
      BY <2>8, <3>1
    <3>2. CASE p # q
      BY <2>7, <3>2
    <3> QED  BY <3>1, <3>2
  <2>10. CacheHolds(e)
    BY <2>6, <2>9 DEF CacheHolds
  <2> QED  BY <2>1, <2>10
<1> QED  BY <1>1, <1>2

(* Leaving positions out takes nothing from the cache.                       *)
LEMMA IncompleteHolds ==
  ASSUME NEW c, CacheHolds(c)
  PROVE  CacheHolds(Incomplete(c))
<1>1. CASE c = NoCache
  BY <1>1 DEF Incomplete
<1>2. CASE c # NoCache
  <2> DEFINE e == Incomplete(c)
  <2>1. e = [c EXCEPT !.complete = FALSE] /\ PoolFits(c)
    BY <1>2 DEF Incomplete, CacheHolds
  <2>2. /\ PoolFits(e) /\ e.length = c.length /\ e.dist = c.dist
        /\ e.runOff = c.runOff /\ e.pool = c.pool /\ e.used = c.used
    BY <2>1 DEF PoolFits
  <2> HIDE DEF e
  <2> QED  BY <1>2, <2>2 DEF CacheHolds, Available, HasNearest, FirstRunFor, e
<1> QED  BY <1>1, <1>2

(* Whether they are cached or searched for, a pass gets the same matches     *)
(* (squeeze.c:321-327).                                                      *)
LEMMA MatchesAreServed ==
  ASSUME end \in Nat, instart \in Nat, CacheHolds(lmc), NEW q \in Block
  PROVE  /\ MatchLength(q) = Longest(q)
         /\ \A k \in 3 .. Longest(q) : MatchDist(q, k) = Nearest(q, k)
<1>0. q \in Nat
  BY DEF Block
<1>1. CASE ~ CachedFully(q)
  BY <1>0, <1>1, NearestReaches DEF MatchLength, MatchDist
<1>2. CASE CachedFully(q)
  <2>1. /\ lmc # NoCache /\ Available(lmc, q) /\ lmc.length[q] <= MaxCachedSublen(lmc, q)
        /\ PoolFits(lmc)
        /\ lmc.length[q] = Longest(q)
        /\ lmc.length[q] >= 3 /\ lmc.runOff[q] # NoSublen =>
             /\ lmc.runOff[q] \in Nat
             /\ \A k \in 3 .. Longest(q) : HasNearest(lmc, q, k)
    BY <1>2 DEF CachedFully, CacheHolds
  <2>2. Longest(q) \in Nat
    BY LongestFinds, SqueezeAssumption
  <2>3. ASSUME NEW k \in 3 .. Longest(q) PROVE CachedDist(lmc, q, k) = Nearest(q, k)
    <3>1. lmc.length[q] >= 3 /\ lmc.runOff[q] # NoSublen
      BY <2>1, <2>2, <2>3 DEF MaxCachedSublen
    <3>2. lmc.runOff[q] \in Nat /\ HasNearest(lmc, q, k)
      BY <2>1, <3>1
    <3>3. PICK r \in Nat : FirstRunFor(lmc, q, k, r) /\ lmc.pool[r][2] = Nearest(q, k)
      BY <3>2 DEF HasNearest
    <3>4. k \in Nat
      BY <2>2
    <3> QED  BY <2>1, <3>2, <3>3, <3>4, CachedDistIs
  <2> QED  BY <1>2, <2>1, <2>3 DEF MatchLength, MatchDist
<1> QED  BY <1>1, <1>2
-----------------------------------------------------------------------------
(* What the symbols of a pass cost.                                          *)
InputFits == \E c \in Cases : array = c[1] /\ instart = c[2] /\ end = c[3]

Most == CHOOSE most \in 0 .. Sentinel : Covers(most, cost, BlockSize)
Allowed(t) == Most * t

(* The block and its indices.                                                *)
LEMMA InputIs ==
  ASSUME InputFits
  PROVE  /\ instart \in Nat /\ end \in Nat /\ instart < end
         /\ BlockSize \in Nat /\ BlockSize > 0 /\ instart + BlockSize = end
         /\ \A q \in Block : q \in Nat /\ array[q] \in Byte /\ Index(q) \in 0 .. BlockSize - 1
                                       /\ instart + Index(q) = q
         /\ \A s \in 0 .. BlockSize - 1 : instart + s \in Block /\ Index(instart + s) = s
<1>1. PICK c \in Cases : array = c[1] /\ instart = c[2] /\ end = c[3]
  BY DEF InputFits
<1>2. /\ instart \in Nat /\ end \in Nat /\ instart < end
      /\ \A q \in 0 .. end - 1 : array[q] \in Byte
  BY <1>1, SqueezeAssumption
<1> QED  BY <1>2 DEF Block, BlockSize, Index

(* What the positions of a block may cost stays below the sentinel.          *)
LEMMA PositionAllows ==
  ASSUME InputFits, cost \in CostModels
  PROVE  /\ \A t \in Nat : Allowed(t) \in Nat
         /\ \A s, t \in Nat : Allowed(s + t) = Allowed(s) + Allowed(t)
         /\ Allowed(0) = 0
         /\ \A t \in 0 .. BlockSize : Allowed(t) < Sentinel
         /\ \A b \in Byte : cost.lit[b] \in Nat /\ cost.lit[b] <= Allowed(1)
         /\ \A k \in MinMatch .. MaxMatch, s \in DOMAIN cost.dist :
              cost.len[k] + cost.dist[s] <= Allowed(k)
<1>1. Most \in 0 .. Sentinel /\ Covers(Most, cost, BlockSize)
  <2>1. PICK c \in Cases : array = c[1] /\ instart = c[2] /\ end = c[3]
    BY DEF InputFits
  <2>2. \E most \in 0 .. Sentinel : Covers(most, cost, BlockSize)
    BY <2>1, SqueezeAssumption DEF BlockSize
  <2> QED  BY <2>2 DEF Most
<1>2. PICK m \in Nat : m = Most
  BY <1>1, SqueezeAssumption
<1>3. PICK n \in Nat : n = BlockSize
  BY InputIs
<1>4. /\ m * n < Sentinel /\ Sentinel \in Nat
      /\ \A b \in Byte : cost.lit[b] <= m
      /\ \A k \in MinMatch .. MaxMatch, s \in DOMAIN cost.dist :
           cost.len[k] + cost.dist[s] <= m * k
  BY <1>1, <1>2, <1>3, SqueezeAssumption DEF Covers
<1>5. \A t \in Nat : m * t \in Nat
  OBVIOUS
<1>6. \A s, t \in Nat : m * (s + t) = m * s + m * t
  OBVIOUS
<1>7. \A t \in 0 .. n : m * t < Sentinel
  <2> TAKE t \in 0 .. n
  <2>1. t \in Nat /\ n - t \in Nat /\ t + (n - t) = n
    OBVIOUS
  <2>2. m * n = m * t + m * (n - t)
    BY <1>6, <2>1
  <2>3. m * t \in Nat /\ m * (n - t) \in Nat /\ m * n \in Nat
    BY <1>5, <2>1
  <2> QED  BY <1>4, <2>2, <2>3
<1>8. m * 0 = 0 /\ m * 1 = m
  OBVIOUS
<1>9. \A b \in Byte : cost.lit[b] \in Nat
  BY SqueezeAssumption
<1> QED  BY <1>2, <1>3, <1>4, <1>5, <1>6, <1>7, <1>8, <1>9 DEF Allowed

(* A match costs what its bytes allow, and no less than SetMinMatchCost says.*)
LEMMA MatchCosts ==
  ASSUME InputFits, cost \in CostModels,
         NEW k \in MinMatch .. MaxMatch, NEW d \in 1 .. WindowSize - 1
  PROVE  /\ MatchCost(k, d) \in Nat /\ MatchCost(k, d) <= Allowed(k)
         /\ MinMatchCost \in Nat /\ MinMatchCost <= MatchCost(k, d)
<1> DEFINE s == DistSymbol(d)
           L == {cost.len[n] : n \in MinMatch .. MaxMatch}
           D == {cost.dist[e] : e \in DOMAIN cost.dist}
<1>1. s \in DOMAIN cost.dist /\ cost.len[k] \in Nat /\ cost.dist[s] \in Nat
  BY SqueezeAssumption
<1>2. /\ L \in SUBSET Nat /\ cost.len[k] \in L
      /\ D \in SUBSET Nat /\ cost.dist[s] \in D
  BY <1>1, SqueezeAssumption
<1>3. MatchCost(k, d) = cost.len[k] + cost.dist[s] /\ MinMatchCost = Least(L) + Least(D)
  BY DEF MatchCost, MinMatchCost
<1>4. MatchCost(k, d) <= Allowed(k)
  BY <1>1, <1>3, PositionAllows
<1> HIDE DEF L, D, s
<1>5. PICK x \in L : \A y \in L : x <= y
  BY <1>2, SmallestNumber
<1>6. PICK z \in D : \A y \in D : z <= y
  BY <1>2, SmallestNumber
<1>7. Least(L) \in L /\ Least(L) <= cost.len[k]
  BY <1>2, <1>5 DEF Least
<1>8. Least(D) \in D /\ Least(D) <= cost.dist[s]
  BY <1>2, <1>6 DEF Least
<1>9. Least(L) \in Nat /\ Least(D) \in Nat
  BY <1>2, <1>7, <1>8
<1> QED  BY <1>1, <1>3, <1>4, <1>7, <1>8, <1>9

(* The symbols that a pass considers at a position: the literal, and every   *)
(* length of the match at its nearest distance.                              *)
Lengths(q) == {1} \cup (3 .. Longest(q))
DistOf(q, k) == IF k = 1 THEN 0 ELSE Nearest(q, k)
LengthCost(q, k) == IF k = 1 THEN cost.lit[array[q]] ELSE MatchCost(k, Nearest(q, k))

(* Every symbol considered at a position lies in the block.                  *)
LEMMA LengthFits ==
  ASSUME InputFits, cost \in CostModels, NEW q \in Block, NEW k \in Lengths(q)
  PROVE  /\ k \in 1 .. MaxMatch /\ k \in Nat /\ q + k <= end
         /\ DistOf(q, k) \in 0 .. WindowSize - 1
         /\ LengthCost(q, k) \in Nat /\ LengthCost(q, k) <= Allowed(k)
         /\ k # 1 => /\ k >= 3 /\ DistOf(q, k) # 0 /\ DistOf(q, k) \in Reaching(q, k)
                     /\ MinMatchCost \in Nat /\ MinMatchCost <= LengthCost(q, k)
<1>1. CASE k = 1
  <2>1. q \in Nat /\ q + 1 <= end /\ array[q] \in Byte
    BY InputIs DEF Block
  <2>2. cost.lit[array[q]] \in Nat /\ cost.lit[array[q]] <= Allowed(1)
    BY <2>1, PositionAllows
  <2> QED  BY <1>1, <2>1, <2>2, SqueezeAssumption DEF DistOf, LengthCost
<1>2. CASE k # 1
  <2>1. k \in 3 .. Longest(q) /\ q \in Nat /\ end \in Nat /\ Longest(q) \in Nat
    BY <1>2, InputIs, LongestFinds, SqueezeAssumption DEF Lengths
  <2>2. /\ k \in MinMatch .. MaxMatch /\ q + k <= end /\ Nearest(q, k) \in Reaching(q, k)
        /\ Nearest(q, k) \in 1 .. WindowSize - 1
    BY <2>1, NearestReaches
  <2>3. /\ MatchCost(k, Nearest(q, k)) \in Nat
        /\ MatchCost(k, Nearest(q, k)) <= Allowed(k)
        /\ MinMatchCost \in Nat /\ MinMatchCost <= MatchCost(k, Nearest(q, k))
    BY <2>2, MatchCosts
  <2> QED  BY <1>2, <2>1, <2>2, <2>3, SqueezeAssumption DEF DistOf, LengthCost
<1> QED  BY <1>1, <1>2
-----------------------------------------------------------------------------
(* The costs and symbols of a pass that has considered the positions of the  *)
(* first f indices: a reached index t was reached from s by a symbol there.  *)
Arrives(c, l, s, t) ==
  /\ t - s \in Lengths(instart + s) /\ s < t
  /\ c[s] # Sentinel
  /\ c[t] = c[s] + LengthCost(instart + s, t - s)
  /\ l[t] = <<t - s, DistOf(instart + s, t - s)>>

Paths(c, l, f) ==
  /\ c \in [0 .. BlockSize -> 0 .. Sentinel]
  /\ l \in [0 .. BlockSize -> (0 .. MaxMatch) \X (0 .. WindowSize - 1)]
  /\ c[0] = 0
  /\ \A t \in 0 .. BlockSize : c[t] # Sentinel => c[t] <= Allowed(t)
  /\ \A t \in 1 .. BlockSize : c[t] # Sentinel => \E s \in 0 .. f - 1 : Arrives(c, l, s, t)

Reached(c, f) == \A t \in 0 .. BlockSize : t <= f => c[t] # Sentinel

(* No symbol at index s improves on what is known.                           *)
Served(c, s) ==
  \A k \in Lengths(instart + s) : c[s + k] <= c[s] + LengthCost(instart + s, k)

(* A symbol from a reached index gets to where it leads within the allowed.  *)
LEMMA SymbolReaches ==
  ASSUME InputFits, cost \in CostModels,
         NEW s \in 0 .. BlockSize - 1, NEW k \in Lengths(instart + s),
         NEW a \in Nat, a <= Allowed(s)
  PROVE  /\ s + k \in 1 .. BlockSize
         /\ a + LengthCost(instart + s, k) \in Nat
         /\ a + LengthCost(instart + s, k) <= Allowed(s + k)
         /\ a + LengthCost(instart + s, k) < Sentinel
<1> DEFINE q == instart + s
<1>1. q \in Block /\ instart \in Nat /\ end \in Nat /\ BlockSize \in Nat
      /\ instart + BlockSize = end
  BY InputIs
<1>2. /\ k \in Nat /\ 1 <= k /\ q + k <= end
      /\ LengthCost(q, k) \in Nat /\ LengthCost(q, k) <= Allowed(k)
  BY <1>1, LengthFits, SqueezeAssumption
<1>3. s + k \in 1 .. BlockSize /\ s \in Nat
  BY <1>1, <1>2
<1>4. /\ Allowed(s + k) = Allowed(s) + Allowed(k) /\ Allowed(s + k) < Sentinel
      /\ Allowed(s) \in Nat /\ Allowed(k) \in Nat
  BY <1>2, <1>3, PositionAllows
<1> HIDE DEF q
<1>5. PICK x \in Nat : x = LengthCost(q, k)
  BY <1>2
<1>6. a + x \in Nat /\ a + x <= Allowed(s + k) /\ a + x < Sentinel
  BY <1>2, <1>4, <1>5, SqueezeAssumption
<1> QED  BY <1>3, <1>5, <1>6 DEF q

(* The elements of a product.                                                *)
LEMMA PairOf ==
  ASSUME NEW A, NEW B, NEW a \in A, NEW b \in B PROVE <<a, b>> \in A \X B
OBVIOUS

(* From g on, indices are newly reached, or more cheaply, from before g.     *)
ReachesMore(c, l, c2, l2, g) ==
  /\ c2 = [t \in 0 .. BlockSize |-> c2[t]]
  /\ l2 = [t \in 0 .. BlockSize |-> l2[t]]
  /\ \A t \in 0 .. BlockSize :
       \/ c2[t] = c[t] /\ l2[t] = l[t]
       \/ /\ t >= g /\ t > 0
          /\ \E s \in 0 .. g - 1 : Arrives(c2, l2, s, t)

(* Indices reached from before g leave a pass with paths from before g.      *)
LEMMA ArrivalsKeepPaths ==
  ASSUME InputFits, cost \in CostModels,
         NEW f \in 0 .. BlockSize, NEW g \in f .. BlockSize,
         NEW c, NEW l, Paths(c, l, f), NEW c2, NEW l2,
         ReachesMore(c, l, c2, l2, g)
  PROVE  Paths(c2, l2, g)
<1> USE DEF ReachesMore
<1>1. /\ instart \in Nat /\ end \in Nat /\ BlockSize \in Nat /\ instart + BlockSize = end
      /\ f \in Nat /\ g \in Nat /\ Sentinel \in Nat
  BY InputIs, SqueezeAssumption
<1>2. ASSUME NEW t \in 0 .. BlockSize
      PROVE  /\ c2[t] \in 0 .. Sentinel
             /\ l2[t] \in (0 .. MaxMatch) \X (0 .. WindowSize - 1)
             /\ c2[t] # Sentinel => c2[t] <= Allowed(t)
             /\ t = 0 => c2[t] = 0
             /\ t < g => c2[t] = c[t]
             /\ t # 0 /\ c2[t] # Sentinel => \E s \in 0 .. g - 1 : Arrives(c2, l2, s, t)
  <2>1. CASE c2[t] = c[t] /\ l2[t] = l[t]
    <3>1. ASSUME t # 0, c[t] # Sentinel
          PROVE  \E s \in 0 .. g - 1 : Arrives(c2, l2, s, t)
      <4>1. t \in 1 .. BlockSize
        BY <1>1, <3>1
      <4>2. PICK s \in 0 .. f - 1 : Arrives(c, l, s, t)
        BY <3>1, <4>1 DEF Paths
      <4>3. s \in 0 .. g - 1 /\ s \in 0 .. BlockSize /\ ~ (s >= g)
        BY <1>1
      <4>4. c2[s] = c[s]
        BY <4>3
      <4> QED  BY <2>1, <4>2, <4>3, <4>4 DEF Arrives
    <3> QED  BY <2>1, <3>1 DEF Paths
  <2>2. CASE t >= g /\ t > 0 /\ \E s \in 0 .. g - 1 : Arrives(c2, l2, s, t)
    <3>1. PICK s \in 0 .. g - 1 : Arrives(c2, l2, s, t)
      BY <2>2
    <3>2. s \in 0 .. BlockSize - 1 /\ s \in 0 .. BlockSize /\ s \in Nat /\ ~ (s >= g)
      BY <1>1
    <3>3. c2[s] = c[s]
      BY <3>2
    <3> DEFINE k == t - s
    <3>4. /\ k \in Lengths(instart + s) /\ s + k = t /\ c[s] # Sentinel
          /\ c2[t] = c[s] + LengthCost(instart + s, k)
          /\ l2[t] = <<k, DistOf(instart + s, k)>>
      BY <3>1, <3>2, <3>3 DEF Arrives
    <3> HIDE DEF k
    <3>5. c[s] \in Nat /\ c[s] <= Allowed(s)
      BY <1>1, <3>2, <3>4 DEF Paths
    <3>6. c2[t] \in Nat /\ c2[t] <= Allowed(t) /\ c2[t] < Sentinel
      BY <3>2, <3>4, <3>5, SymbolReaches
    <3>7. k \in 1 .. MaxMatch /\ DistOf(instart + s, k) \in 0 .. WindowSize - 1
      BY <3>2, <3>4, LengthFits, InputIs
    <3>8. l2[t] \in (0 .. MaxMatch) \X (0 .. WindowSize - 1)
      <4>1. k \in 0 .. MaxMatch
        BY <3>7, SqueezeAssumption
      <4>2. <<k, DistOf(instart + s, k)>> \in (0 .. MaxMatch) \X (0 .. WindowSize - 1)
        BY ONLY <3>7, <4>1, PairOf
      <4> QED  BY <3>4, <4>2
    <3>9. c2[t] \in 0 .. Sentinel /\ ~ (t < g) /\ t # 0
      BY <1>1, <2>2, <3>6
    <3> QED  BY <2>2, <3>6, <3>8, <3>9
  <2> QED  BY <2>1, <2>2
<1>3. c2[0] = 0
  BY <1>1, <1>2
<1>4. \A t \in 1 .. BlockSize : c2[t] # Sentinel => \E s \in 0 .. g - 1 : Arrives(c2, l2, s, t)
  <2> TAKE t \in 1 .. BlockSize
  <2>1. t \in 0 .. BlockSize /\ t # 0
    BY <1>1
  <2> QED  BY <1>2, <2>1
<1>5. /\ c2 \in [0 .. BlockSize -> 0 .. Sentinel]
      /\ l2 \in [0 .. BlockSize -> (0 .. MaxMatch) \X (0 .. WindowSize - 1)]
  BY <1>2
<1> QED  BY <1>2, <1>3, <1>4, <1>5 DEF Paths

(* Index t improves by the symbol that leads there from index j, or stays.   *)
Improves(c, l, c2, l2, j) ==
  \A t \in 0 .. BlockSize :
    \/ c2[t] = c[t] /\ l2[t] = l[t]
    \/ /\ t - j \in Lengths(instart + j) /\ c2[t] < c[t]
       /\ c2[t] = c[j] + LengthCost(instart + j, t - j)
       /\ l2[t] = <<t - j, DistOf(instart + j, t - j)>>

(* The literal and the matches of a position, in the order of the code: the  *)
(* skip of indices that no match can improve loses nothing.                  *)
LEMMA PositionImproves ==
  ASSUME InputFits, cost \in CostModels, CacheHolds(lmc), NEW q \in Block,
         NEW c, NEW l, Paths(c, l, Index(q)), c[Index(q)] # Sentinel,
         NEW e, e = WithMatches(WithLiteral([i |-> q, costs |-> c, lendist |-> l]))
  PROVE  /\ e.costs = [t \in 0 .. BlockSize |-> e.costs[t]]
         /\ e.lendist = [t \in 0 .. BlockSize |-> e.lendist[t]]
         /\ Improves(c, l, e.costs, e.lendist, Index(q))
         /\ Served(e.costs, Index(q))
<1> DEFINE j == Index(q)
           dp == [i |-> q, costs |-> c, lendist |-> l]
           d == WithLiteral(dp)
<1>1. /\ j \in 0 .. BlockSize - 1 /\ instart + j = q /\ BlockSize \in Nat /\ j \in Nat
      /\ instart \in Nat /\ end \in Nat /\ instart + BlockSize = end
  BY InputIs
<1>2. /\ c \in [0 .. BlockSize -> 0 .. Sentinel]
      /\ l \in [0 .. BlockSize -> (0 .. MaxMatch) \X (0 .. WindowSize - 1)]
      /\ c[j] \in Nat /\ c[j] <= Allowed(j)
  <2>1. /\ c \in [0 .. BlockSize -> 0 .. Sentinel]
        /\ l \in [0 .. BlockSize -> (0 .. MaxMatch) \X (0 .. WindowSize - 1)]
    BY DEF Paths
  <2>2. j \in 0 .. BlockSize
    BY <1>1
  <2>3. c[j] <= Allowed(j)
    BY <2>2 DEF Paths
  <2> QED  BY <2>1, <2>2, <2>3, SqueezeAssumption
<1>3. /\ dp.i = q /\ dp.costs = c /\ dp.lendist = l
      /\ e = WithMatches(d) /\ j = Index(q)
  OBVIOUS
<1> HIDE DEF j, d
<1> DEFINE lit == c[j] + cost.lit[array[q]]
<1>4. /\ lit = c[j] + LengthCost(q, 1) /\ DistOf(q, 1) = 0 /\ 1 \in Lengths(q)
      /\ lit \in Nat /\ j + 1 \in 0 .. BlockSize
  <2>1. lit = c[j] + LengthCost(q, 1) /\ DistOf(q, 1) = 0 /\ 1 \in Lengths(q)
    BY DEF LengthCost, DistOf, Lengths
  <2>2. 1 \in Lengths(instart + j)
    BY <1>1, <2>1
  <2>3. c[j] + LengthCost(instart + j, 1) \in Nat /\ j + 1 \in 1 .. BlockSize
    BY <1>1, <1>2, <2>2, SymbolReaches
  <2> QED  BY <1>1, <2>1, <2>3
<1>5. /\ d.i = q
      /\ DOMAIN d.costs = 0 .. BlockSize /\ DOMAIN d.lendist = 0 .. BlockSize
      /\ \A t \in 0 .. BlockSize : t # j + 1 => d.costs[t] = c[t] /\ d.lendist[t] = l[t]
      /\ \/ d.costs[j + 1] = c[j + 1] /\ d.lendist[j + 1] = l[j + 1] /\ ~ (lit < c[j + 1])
         \/ lit < c[j + 1] /\ d.costs[j + 1] = lit /\ d.lendist[j + 1] = <<1, 0>>
  <2>1. d = Improve(dp, j + 1, 1, 0, lit)
    BY <1>3 DEF WithLiteral, d
  <2> HIDE DEF lit
  <2>2. CASE lit < c[j + 1]
    <3>1. d = [dp EXCEPT !.costs[j + 1] = lit, !.lendist[j + 1] = <<1, 0>>]
      BY <1>3, <2>1, <2>2 DEF Improve
    <3>2. d.i = q /\ d.costs = [c EXCEPT ![j + 1] = lit]
          /\ d.lendist = [l EXCEPT ![j + 1] = <<1, 0>>]
      BY <3>1
    <3> QED  BY <1>2, <1>4, <2>2, <3>2
  <2>3. CASE ~ (lit < c[j + 1])
    <3>1. d = dp
      BY <1>3, <2>1, <2>3 DEF Improve
    <3> QED  BY <1>2, <1>3, <2>3, <3>1
  <2> QED  BY <2>2, <2>3
<1> HIDE DEF dp
<1> DEFINE better(t) == /\ t - j \in 3 .. MatchLength(q)
                        /\ d.costs[t] > MinMatchCost + d.costs[j]
                        /\ d.costs[j] + MatchCost(t - j, MatchDist(q, t - j)) < d.costs[t]
<1>6. /\ e.costs = [t \in 0 .. BlockSize |->
                      IF better(t) THEN d.costs[j] + MatchCost(t - j, MatchDist(q, t - j))
                      ELSE d.costs[t]]
      /\ e.lendist = [t \in 0 .. BlockSize |->
                        IF better(t) THEN <<t - j, MatchDist(q, t - j)>> ELSE d.lendist[t]]
  <2> DEFINE new(t) == d.costs[j] + MatchCost(t - j, MatchDist(q, t - j))
  <2>1. e = [ i |-> d.i,
              costs |-> [t \in DOMAIN d.costs |-> IF better(t) THEN new(t) ELSE d.costs[t]],
              lendist |-> [t \in DOMAIN d.lendist |->
                             IF better(t) THEN <<t - j, MatchDist(q, t - j)>>
                             ELSE d.lendist[t]] ]
    BY <1>3, <1>5 DEF WithMatches
  <2> HIDE DEF better, new
  <2>2. /\ e.costs = [t \in 0 .. BlockSize |-> IF better(t) THEN new(t) ELSE d.costs[t]]
        /\ e.lendist = [t \in 0 .. BlockSize |->
                          IF better(t) THEN <<t - j, MatchDist(q, t - j)>>
                          ELSE d.lendist[t]]
    <3>1. /\ e.costs = [t \in DOMAIN d.costs |-> IF better(t) THEN new(t) ELSE d.costs[t]]
          /\ e.lendist = [t \in DOMAIN d.lendist |->
                            IF better(t) THEN <<t - j, MatchDist(q, t - j)>>
                            ELSE d.lendist[t]]
      BY <2>1
    <3>2. DOMAIN d.costs = 0 .. BlockSize /\ DOMAIN d.lendist = 0 .. BlockSize
      BY <1>5
    <3> QED  BY <3>1, <3>2, Zenon
  <2> QED  BY <2>2 DEF new
<1>7. d.costs[j] = c[j] /\ MatchLength(q) = Longest(q) /\ Longest(q) \in Nat
      /\ \A k \in 3 .. Longest(q) : MatchDist(q, k) = Nearest(q, k)
  <2>1. d.costs[j] = c[j]
    BY <1>1, <1>5
  <2>2. Longest(q) \in Nat
    <3>1. Longest(q) \in {0} \cup (MinMatch .. MaxMatch)
      BY LongestFinds
    <3> QED  BY <3>1, SqueezeAssumption
  <2>3. /\ MatchLength(q) = Longest(q)
        /\ \A k \in 3 .. Longest(q) : MatchDist(q, k) = Nearest(q, k)
    BY <1>1, MatchesAreServed
  <2> QED  BY <2>1, <2>2, <2>3
<1>8. ASSUME NEW k \in 3 .. Longest(q)
      PROVE  /\ k \in Lengths(q) /\ k # 1 /\ k \in Nat /\ 3 <= k
             /\ MatchCost(k, MatchDist(q, k)) = LengthCost(q, k)
             /\ <<k, MatchDist(q, k)>> = <<k, DistOf(q, k)>>
             /\ LengthCost(q, k) \in Nat /\ MinMatchCost \in Nat
             /\ MinMatchCost <= LengthCost(q, k)
             /\ j + k \in 0 .. BlockSize
  <2>1. k \in Lengths(q) /\ k # 1 /\ k \in Nat /\ 3 <= k
    BY <1>7 DEF Lengths
  <2>2. /\ LengthCost(q, k) \in Nat /\ MinMatchCost \in Nat
        /\ MinMatchCost <= LengthCost(q, k) /\ q + k <= end
    BY <2>1, LengthFits
  <2>3. /\ MatchCost(k, MatchDist(q, k)) = LengthCost(q, k)
        /\ MatchDist(q, k) = DistOf(q, k)
    BY <1>7, <2>1 DEF LengthCost, DistOf
  <2>4. j + k \in 0 .. BlockSize
    BY <1>1, <2>1, <2>2
  <2> QED  BY <2>1, <2>2, <2>3, <2>4
<1>9. ASSUME NEW t \in 0 .. BlockSize
      PROVE  \/ e.costs[t] = c[t] /\ e.lendist[t] = l[t]
             \/ /\ t - j \in Lengths(q) /\ e.costs[t] < c[t]
                /\ e.costs[t] = c[j] + LengthCost(q, t - j)
                /\ e.lendist[t] = <<t - j, DistOf(q, t - j)>>
  <2>1. CASE better(t)
    <3>1. t - j \in 3 .. Longest(q)
      BY <1>7, <2>1
    <3>2. /\ e.costs[t] = c[j] + LengthCost(q, t - j)
          /\ e.lendist[t] = <<t - j, DistOf(q, t - j)>>
          /\ t - j \in Lengths(q) /\ t - j # 1
      BY <1>6, <1>7, <1>8, <2>1, <3>1
    <3>3. t # j + 1 /\ t - j \in Nat
      BY <1>1, <3>1
    <3>4. d.costs[t] = c[t]
      BY <1>5, <3>3
    <3>5. e.costs[t] < c[t]
      BY <1>6, <2>1, <3>4
    <3> QED  BY <3>2, <3>5
  <2>2. CASE ~ better(t)
    <3>1. e.costs[t] = d.costs[t] /\ e.lendist[t] = d.lendist[t]
      BY <1>6, <2>2
    <3>2. t = j + 1 => t - j = 1
      BY <1>1
    <3> QED  BY <1>4, <1>5, <3>1, <3>2
  <2> QED  BY <2>1, <2>2
<1>10. ASSUME NEW k \in Lengths(q) PROVE e.costs[j + k] <= c[j] + LengthCost(q, k)
  <2>1. CASE k = 1
    <3>1. ~ better(j + 1)
      BY <1>1
    <3>2. e.costs[j + 1] = d.costs[j + 1]
      BY <1>4, <1>6, <3>1
    <3>3. c[j + 1] \in Nat
      BY <1>2, <1>4, SqueezeAssumption
    <3> HIDE DEF lit
    <3>4. d.costs[j + 1] <= lit
      BY <1>4, <1>5, <3>3
    <3> QED  BY <1>4, <2>1, <3>2, <3>4
  <2>2. CASE k # 1
    <3>1. k \in 3 .. Longest(q)
      BY <2>2 DEF Lengths
    <3> DEFINE t == j + k
               new == c[j] + LengthCost(q, k)
    <3>2. /\ t \in 0 .. BlockSize /\ t - j = k /\ k \in Nat /\ 3 <= k /\ t # j + 1
          /\ MatchCost(k, MatchDist(q, k)) = LengthCost(q, k)
          /\ LengthCost(q, k) \in Nat /\ MinMatchCost \in Nat
          /\ MinMatchCost <= LengthCost(q, k)
      BY <1>1, <1>8, <3>1
    <3>3. d.costs[t] = c[t] /\ c[t] \in Nat
      BY <1>2, <1>5, <3>2, SqueezeAssumption
    <3> HIDE DEF t
    <3>4. better(t) <=> c[t] > MinMatchCost + c[j] /\ new < c[t]
      BY <1>7, <3>1, <3>2, <3>3
    <3>5. e.costs[t] = IF better(t) THEN new ELSE c[t]
      BY <1>6, <1>7, <3>2, <3>3
    <3> HIDE DEF better, new
    <3>6. new \in Nat /\ MinMatchCost + c[j] <= new
      BY <1>2, <3>2 DEF new
    <3>7. MinMatchCost + c[j] \in Nat
      BY <1>2, <3>2
    <3>8. e.costs[t] <= new
      BY <3>3, <3>4, <3>5, <3>6, <3>7
    <3> QED  BY <3>8 DEF t, new
  <2> QED  BY <2>1, <2>2
<1>11. e.costs[j] = c[j]
  <2>1. ~ better(j) /\ j \in 0 .. BlockSize
    BY <1>1
  <2> QED  BY <1>6, <1>7, <2>1
<1>12. /\ e.costs = [t \in 0 .. BlockSize |-> e.costs[t]]
       /\ e.lendist = [t \in 0 .. BlockSize |-> e.lendist[t]]
  <2> HIDE DEF better
  <2> QED  BY <1>6
<1> HIDE DEF better
<1>13. Improves(c, l, e.costs, e.lendist, j)
  BY <1>1, <1>9 DEF Improves
<1>14. Served(e.costs, j)
  BY <1>1, <1>10, <1>11 DEF Served
<1> QED  BY <1>12, <1>13, <1>14 DEF j

(* From a reached index that has been served, every symbol of it reaches.    *)
LEMMA ServedReaches ==
  ASSUME InputFits, cost \in CostModels, NEW c, NEW l, NEW f, Paths(c, l, f),
         NEW s \in 0 .. BlockSize - 1, c[s] # Sentinel, Served(c, s),
         NEW k \in Lengths(instart + s)
  PROVE  s + k \in 1 .. BlockSize /\ c[s + k] # Sentinel
<1>1. s \in 0 .. BlockSize /\ BlockSize \in Nat
  BY InputIs
<1>2. c \in [0 .. BlockSize -> 0 .. Sentinel] /\ c[s] <= Allowed(s)
  BY <1>1 DEF Paths
<1>3. c[s] \in Nat
  BY <1>1, <1>2, SqueezeAssumption
<1>4. /\ s + k \in 1 .. BlockSize
      /\ c[s] + LengthCost(instart + s, k) \in Nat
      /\ c[s] + LengthCost(instart + s, k) < Sentinel
  BY <1>2, <1>3, SymbolReaches
<1>5. c[s + k] \in Nat
  BY <1>1, <1>2, <1>4, SqueezeAssumption
<1>6. c[s + k] <= c[s] + LengthCost(instart + s, k)
  BY DEF Served
<1> QED  BY <1>4, <1>5, <1>6, SqueezeAssumption

(* One round of GetBestLengths: the position is served, those before stay so.*)
LEMMA PositionKeeps ==
  ASSUME InputFits, cost \in CostModels, CacheHolds(lmc), NEW q \in Block,
         NEW c, NEW l, Paths(c, l, Index(q)), Reached(c, Index(q)),
         NEW e, e = WithMatches(WithLiteral([i |-> q, costs |-> c, lendist |-> l]))
  PROVE  /\ Paths(e.costs, e.lendist, Index(q) + 1)
         /\ Reached(e.costs, Index(q) + 1)
         /\ Served(e.costs, Index(q))
         /\ \A t \in 0 .. BlockSize : e.costs[t] <= c[t]
         /\ \A t \in 0 .. Index(q) : e.costs[t] = c[t]
<1> DEFINE j == Index(q)
           c2 == e.costs
           l2 == e.lendist
<1>1. /\ j \in 0 .. BlockSize - 1 /\ instart + j = q /\ BlockSize \in Nat /\ j \in Nat
      /\ j \in 0 .. BlockSize /\ j + 1 \in j .. BlockSize
  BY InputIs
<1>2. c[j] # Sentinel
  BY <1>1 DEF Reached
<1>3. /\ c2 = [t \in 0 .. BlockSize |-> c2[t]] /\ l2 = [t \in 0 .. BlockSize |-> l2[t]]
      /\ Improves(c, l, c2, l2, j)
      /\ Served(c2, j)
  BY <1>2, PositionImproves
<1>4. Paths(c, l, j)
  OBVIOUS
<1> HIDE DEF j, c2, l2
<1>5. c \in [0 .. BlockSize -> 0 .. Sentinel]
  BY <1>4 DEF Paths
<1>6. \A k \in Lengths(q) : k \in Nat /\ 1 <= k
  BY LengthFits, SqueezeAssumption
<1>7. \A t \in 0 .. BlockSize : c2[t] <= c[t]
  <2> TAKE t \in 0 .. BlockSize
  <2>1. c[t] \in Nat
    BY <1>5, SqueezeAssumption
  <2>2. c2[t] = c[t] \/ (c2[t] < c[t] /\ c2[t] = c[j] + LengthCost(q, t - j)
                         /\ t - j \in Lengths(q))
    BY <1>1, <1>3 DEF Improves
  <2>3. CASE c2[t] = c[t]
    BY <2>1, <2>3
  <2>4. CASE c2[t] < c[t] /\ c2[t] = c[j] + LengthCost(q, t - j) /\ t - j \in Lengths(q)
    <3>1. c[j] \in Nat /\ LengthCost(q, t - j) \in Nat
      BY <1>1, <1>5, <2>4, LengthFits, SqueezeAssumption
    <3>2. c2[t] \in Nat
      BY <2>4, <3>1
    <3> QED  BY <2>1, <2>4, <3>2
  <2> QED  BY <2>2, <2>3, <2>4
<1>8. ASSUME NEW t \in 0 .. BlockSize, ~ (c2[t] = c[t] /\ l2[t] = l[t])
      PROVE  /\ t >= j + 1 /\ t > 0 /\ t - j \in Lengths(q)
             /\ c2[t] = c[j] + LengthCost(q, t - j)
             /\ l2[t] = <<t - j, DistOf(q, t - j)>>
  <2>1. /\ t - j \in Lengths(q) /\ c2[t] = c[j] + LengthCost(q, t - j)
        /\ l2[t] = <<t - j, DistOf(q, t - j)>>
    BY <1>1, <1>3, <1>8 DEF Improves
  <2> QED  BY <1>1, <1>6, <2>1
<1>9. c2[j] = c[j]
  <2>1. ~ (j >= j + 1)
    BY <1>1
  <2> QED  BY <1>1, <1>8, <2>1
<1>10. \A t \in 0 .. BlockSize :
           \/ c2[t] = c[t] /\ l2[t] = l[t]
           \/ /\ t >= j + 1 /\ t > 0
              /\ \E s \in 0 .. (j + 1) - 1 : Arrives(c2, l2, s, t)
  <2> SUFFICES ASSUME NEW t \in 0 .. BlockSize, ~ (c2[t] = c[t] /\ l2[t] = l[t])
               PROVE  /\ t >= j + 1 /\ t > 0
                      /\ \E s \in 0 .. (j + 1) - 1 : Arrives(c2, l2, s, t)
    OBVIOUS
  <2>1. /\ t >= j + 1 /\ t > 0 /\ t - j \in Lengths(q)
        /\ c2[t] = c[j] + LengthCost(q, t - j)
        /\ l2[t] = <<t - j, DistOf(q, t - j)>>
    BY <1>8
  <2>2. j < t /\ j \in 0 .. (j + 1) - 1
    BY <1>1, <2>1
  <2>3. Arrives(c2, l2, j, t)
    BY <1>1, <1>2, <1>9, <2>1, <2>2 DEF Arrives, j
  <2> QED  BY <2>1, <2>2, <2>3
<1>11. Paths(c2, l2, j + 1)
  <2> DEFINE g == j + 1
  <2>1. g \in j .. BlockSize /\ ReachesMore(c, l, c2, l2, g)
    BY <1>1, <1>3, <1>10 DEF ReachesMore
  <2> HIDE DEF g
  <2>2. Paths(c2, l2, g)
    BY <1>1, <1>4, <2>1, ArrivalsKeepPaths
  <2> QED  BY <2>2 DEF g
<1>12. \A t \in 0 .. j : c2[t] = c[t]
  <2> TAKE t \in 0 .. j
  <2>1. t \in 0 .. BlockSize /\ ~ (t >= j + 1)
    BY <1>1
  <2> QED  BY <1>8, <2>1
<1>13. Reached(c2, j + 1)
  <2> SUFFICES ASSUME NEW t \in 0 .. BlockSize, t <= j + 1 PROVE c2[t] # Sentinel
    BY DEF Reached
  <2>1. CASE t <= j
    <3>1. t \in 0 .. j
      BY <1>1, <2>1
    <3>2. c[t] # Sentinel
      BY <2>1 DEF Reached, j
    <3> QED  BY <1>12, <3>1, <3>2
  <2>2. CASE t = j + 1
    <3>1. 1 \in Lengths(instart + j)
      BY DEF Lengths
    <3> QED  BY <1>1, <1>2, <1>3, <1>9, <1>11, <2>2, <3>1, ServedReaches
  <2> QED  BY <1>1, <2>1, <2>2
<1> QED  BY <1>3, <1>7, <1>11, <1>12, <1>13 DEF j, c2, l2

-----------------------------------------------------------------------------
(* Long repetitions.                                                         *)
Repeats(q, n) == \A m \in 1 .. n : array[q + m] = array[q]

(* h->same: as many bytes as it says are the byte itself.                    *)
LEMMA RunRepeats ==
  ASSUME end \in Nat, NEW q \in Nat, q < end
  PROVE  Run(q) \in Nat /\ q + Run(q) < end /\ Repeats(q, Run(q))
<1> DEFINE T == {n \in 0 .. end - 1 - q : Repeats(q, n)}
           Ends(n) == /\ \A m \in 1 .. n : array[q + m] = array[q]
                      /\ q + n + 1 < end => array[q + n + 1] # array[q]
<1>1. T \in SUBSET (0 .. end) /\ 0 \in T
  BY DEF Repeats
<1>2. PICK n \in T : \A k \in T : k <= n
  <2> HIDE DEF T
  <2> QED  BY <1>1, Greatest
<1>3. n \in 0 .. end - 1 - q /\ Repeats(q, n)
  OBVIOUS
<1>4. ASSUME q + n + 1 < end, array[q + n + 1] = array[q] PROVE FALSE
  <2>1. n + 1 \in 0 .. end - 1 - q
    BY <1>3, <1>4
  <2>2. Repeats(q, n + 1)
    <3> SUFFICES ASSUME NEW m \in 1 .. n + 1 PROVE array[q + m] = array[q]
      BY DEF Repeats
    <3>1. CASE m = n + 1
      <4>1. q + m = q + n + 1
        BY <1>3, <3>1
      <4> QED  BY <1>4, <4>1
    <3>2. CASE m # n + 1
      <4>1. m \in 1 .. n
        BY <1>3, <3>2
      <4> QED  BY <1>3, <4>1 DEF Repeats
    <3> QED  BY <3>1, <3>2
  <2>3. n + 1 \in T
    BY <2>1, <2>2
  <2>4. n + 1 <= n
    BY <1>2, <2>3
  <2> QED  BY <1>3, <2>4
<1>5. Ends(n)
  BY <1>3, <1>4 DEF Repeats
<1>6. Run(q) \in 0 .. end - 1 - q /\ Ends(Run(q))
  <2> HIDE DEF Ends, T
  <2>1. Run(q) = CHOOSE r \in 0 .. end - 1 - q : Ends(r)
    BY DEF Run, Ends
  <2> QED  BY <1>3, <1>5, <2>1
<1>7. Repeats(q, Run(q))
  BY <1>6 DEF Repeats
<1> HIDE DEF Ends, T
<1> QED  BY <1>6, <1>7

(* In a long repetition every match is as long as possible, at distance 1.   *)
LEMMA RepetitionMatches ==
  ASSUME InputFits, NEW q \in Block, InRepetition(q),
         NEW p \in Nat, q - MaxMatch < p, p <= q + MaxMatch
  PROVE  p \in Block /\ Longest(p) = MaxMatch /\ Nearest(p, MaxMatch) = 1
<1>1. /\ q \in Nat /\ instart \in Nat /\ end \in Nat /\ MaxMatch \in Nat /\ 3 <= MaxMatch
      /\ MinMatch = 3 /\ WindowSize \in Nat /\ WindowSize > 1
  BY InputIs, SqueezeAssumption DEF Block
<1>2. /\ Run(q) > 2 * MaxMatch /\ q > instart + MaxMatch + 1
      /\ q + 2 * MaxMatch + 1 < end /\ Run(q - MaxMatch) > MaxMatch
  BY DEF InRepetition
<1>3. q - MaxMatch \in Nat /\ q - MaxMatch < end /\ q < end
  BY <1>1, <1>2
<1>4. PICK r \in Nat : r = Run(q) /\ Repeats(q, r)
  BY <1>1, <1>3, RunRepeats
<1>5. PICK v \in Nat : v = Run(q - MaxMatch) /\ Repeats(q - MaxMatch, v)
  BY <1>1, <1>3, RunRepeats
<1>6. array[q] = array[q - MaxMatch]
  <2>1. MaxMatch \in 1 .. v /\ (q - MaxMatch) + MaxMatch = q
    BY <1>1, <1>2, <1>5
  <2> QED  BY <1>5, <2>1 DEF Repeats
<1>7. ASSUME NEW x \in Nat, q - MaxMatch <= x, x <= q + 2 * MaxMatch
      PROVE  array[x] = array[q]
  <2>1. CASE x > q
    <3>1. x - q \in 1 .. r /\ q + (x - q) = x
      BY <1>1, <1>2, <1>4, <1>7, <2>1
    <3> QED  BY <1>4, <3>1 DEF Repeats
  <2>2. CASE x <= q /\ x > q - MaxMatch
    <3> DEFINE o == q - MaxMatch
    <3>1. x - o \in 1 .. v /\ o + (x - o) = x
      BY <1>1, <1>2, <1>5, <1>7, <2>2
    <3>2. Repeats(o, v)
      BY <1>5
    <3> HIDE DEF o
    <3>3. array[x] = array[o]
      BY <3>1, <3>2 DEF Repeats
    <3> QED  BY <1>6, <3>3 DEF o
  <2>3. CASE x = q - MaxMatch
    BY <1>6, <2>3
  <2> QED  BY <1>1, <1>7, <2>1, <2>2, <2>3
<1>8. Agree(p, 1, MaxMatch)
  <2> SUFFICES ASSUME NEW m \in 0 .. MaxMatch - 1 PROVE array[p + m] = array[p - 1 + m]
    BY DEF Agree
  <2>1. /\ p + m \in Nat /\ q - MaxMatch <= p + m /\ p + m <= q + 2 * MaxMatch
        /\ p - 1 + m \in Nat /\ q - MaxMatch <= p - 1 + m /\ p - 1 + m <= q + 2 * MaxMatch
    BY <1>1, <1>3
  <2>2. array[p + m] = array[q]
    BY <1>7, <2>1
  <2>3. array[p - 1 + m] = array[q]
    BY <1>7, <2>1
  <2> QED  BY <2>2, <2>3
<1>9. 1 \in Reaching(p, MaxMatch)
  <2>1. 1 \in 1 .. WindowSize - 1 /\ 1 <= p /\ p + MaxMatch <= end
    BY <1>1, <1>2
  <2> QED  BY <1>8, <2>1 DEF Reaching
<1>10. p \in Block
  BY <1>1, <1>2 DEF Block
<1>11. Longest(p) = MaxMatch
  <2>1. MaxMatch \in MinMatch .. MaxMatch
    BY <1>1
  <2>2. Longest(p) \in {0} \cup (MinMatch .. MaxMatch) /\ ~ (MaxMatch > Longest(p))
    BY <1>9, <2>1, LongestFinds
  <2> QED  BY <1>1, <2>2
<1>12. Nearest(p, MaxMatch) = 1
  <2>1. MaxMatch \in 3 .. Longest(p)
    BY <1>1, <1>11
  <2>2. Nearest(p, MaxMatch) \in 1 .. WindowSize - 1 /\ Nearest(p, MaxMatch) <= 1
    BY <1>1, <1>9, <2>1, NearestReaches
  <2> QED  BY <1>1, <2>2
<1> QED  BY <1>10, <1>11, <1>12

(* The indices that are passed over were all reached: from the position      *)
(* before the repetition, and the one before that.                           *)
LEMMA RepetitionKeeps ==
  ASSUME InputFits, cost \in CostModels, NEW q \in Block, InRepetition(q),
         NEW c, NEW l, Paths(c, l, Index(q)), Reached(c, Index(q)),
         Served(c, Index(q) - 1),
         Longest(q - 2) >= 3 => c[Index(q) + 1] # Sentinel,
         NEW e, e = OverRepetition([i |-> q, costs |-> c, lendist |-> l])
  PROVE  /\ e.i = q + MaxMatch /\ e.i \in Block
         /\ e = [i |-> e.i, costs |-> e.costs, lendist |-> e.lendist]
         /\ Paths(e.costs, e.lendist, Index(q) + MaxMatch)
         /\ Reached(e.costs, Index(q) + MaxMatch)
         /\ \A t \in Index(q) + MaxMatch .. Index(q) + 2 * MaxMatch - 1 :
              t \in 0 .. BlockSize /\ e.costs[t] # Sentinel
<1> DEFINE j == Index(q)
           c2 == e.costs
           l2 == e.lendist
           M == MaxMatch
<1>1. /\ j \in 0 .. BlockSize - 1 /\ instart + j = q /\ BlockSize \in Nat /\ j \in Nat
      /\ instart \in Nat /\ end \in Nat /\ instart + BlockSize = end
      /\ M \in Nat /\ 3 <= M /\ q \in Nat
  BY InputIs, SqueezeAssumption DEF Block
<1>2. /\ q > instart + M + 1 /\ q + 2 * M + 1 < end
  BY DEF InRepetition
<1>3. /\ j > M + 1 /\ j + 2 * M + 1 < BlockSize
  BY <1>1, <1>2
<1>4. /\ c \in [0 .. BlockSize -> 0 .. Sentinel]
      /\ l \in [0 .. BlockSize -> (0 .. MaxMatch) \X (0 .. WindowSize - 1)]
  BY DEF Paths
<1>5. /\ e.i = q + M
      /\ e = [i |-> e.i, costs |-> c2, lendist |-> l2]
      /\ c2 = [t \in 0 .. BlockSize |->
                 IF t \in j + M .. j + 2 * M - 1 THEN c[t - M] + MatchCost(M, 1) ELSE c[t]]
      /\ l2 = [t \in 0 .. BlockSize |->
                 IF t \in j + M .. j + 2 * M - 1 THEN <<M, 1>> ELSE l[t]]
  <2> DEFINE dp == [i |-> q, costs |-> c, lendist |-> l]
  <2>1. dp.i = q /\ DOMAIN dp.costs = 0 .. BlockSize /\ DOMAIN dp.lendist = 0 .. BlockSize
        /\ dp.costs = c /\ dp.lendist = l
    BY <1>4
  <2> HIDE DEF dp
  <2>2. e = OverRepetition(dp)
    BY DEF dp
  <2> QED  BY <2>1, <2>2 DEF OverRepetition
<1> HIDE DEF c2, l2
<1>6. ASSUME NEW p \in Nat, q - M < p, p <= q + M
      PROVE  p \in Block /\ Longest(p) = M /\ Nearest(p, M) = 1
  BY <1>6, RepetitionMatches
<1>7. ASSUME NEW t \in 0 .. BlockSize, t <= j + M - 1 PROVE c[t] # Sentinel /\ c2[t] = c[t]
  <2>0. ~ (t \in j + M .. j + 2 * M - 1)
    BY <1>1, <1>7
  <2>1. c2[t] = c[t]
    BY <1>5, <2>0
  <2>2. CASE t <= j
    BY <2>1, <2>2 DEF Reached
  <2>3. CASE t = j + 1
    <3>1. q - 2 \in Nat /\ q - M < q - 2 /\ q - 2 <= q + M
      BY <1>1, <1>2
    <3>2. Longest(q - 2) >= 3
      BY <1>1, <1>6, <3>1
    <3> QED  BY <2>1, <2>3, <3>2
  <2>4. CASE t > j + 1
    <3> DEFINE s == j - 1
               k == t - s
    <3>1. /\ q - 1 \in Nat /\ q - M < q - 1 /\ q - 1 <= q + M
          /\ s \in 0 .. BlockSize - 1 /\ s \in 0 .. BlockSize /\ s <= j /\ instart + s = q - 1
          /\ k \in 3 .. M /\ s + k = t
      BY <1>1, <1>2, <1>3, <1>7, <2>4
    <3>2. Longest(q - 1) = M
      BY <1>6, <3>1
    <3> HIDE DEF k
    <3>3. k \in Lengths(instart + s)
      BY <3>1, <3>2 DEF Lengths
    <3>4. c[s] # Sentinel
      BY <3>1 DEF Reached
    <3>5. Served(c, s) /\ Paths(c, l, j)
      OBVIOUS
    <3> HIDE DEF s, j
    <3>6. c[s + k] # Sentinel
      BY <3>1, <3>3, <3>4, <3>5, ServedReaches
    <3> QED  BY <2>1, <3>1, <3>6
  <2> QED  BY <1>1, <2>2, <2>3, <2>4
<1>8. ASSUME NEW t \in j + M .. j + 2 * M - 1
      PROVE  /\ t \in 0 .. BlockSize /\ c2[t] # Sentinel
             /\ Arrives(c2, l2, t - M, t)
  <2> DEFINE s == t - M
  <2>1. /\ t \in 0 .. BlockSize /\ s \in 0 .. BlockSize /\ s <= j + M - 1 /\ t - s = M /\ s < t
        /\ s \in 0 .. BlockSize - 1 /\ s + M = t
        /\ instart + s \in Nat /\ q - M < instart + s /\ instart + s <= q + M
        /\ M # 1 /\ M \in 3 .. M
    BY <1>1, <1>3
  <2>2. Longest(instart + s) = M /\ Nearest(instart + s, M) = 1
    BY <1>6, <2>1
  <2>3. c[s] # Sentinel /\ c2[s] = c[s]
    BY <1>7, <2>1
  <2>4. c2[t] = c[s] + MatchCost(M, 1) /\ l2[t] = <<M, 1>>
    BY <1>5, <2>1
  <2>5. /\ M \in Lengths(instart + s) /\ DistOf(instart + s, M) = 1
        /\ LengthCost(instart + s, M) = MatchCost(M, 1)
    BY <2>1, <2>2 DEF Lengths, DistOf, LengthCost
  <2>6. Arrives(c2, l2, s, t)
    BY <2>1, <2>3, <2>4, <2>5 DEF Arrives
  <2>7. c[s] \in Nat /\ c[s] <= Allowed(s)
    BY <1>4, <2>1, <2>3, SqueezeAssumption DEF Paths
  <2>8. c[s] + LengthCost(instart + s, M) < Sentinel
        /\ c[s] + LengthCost(instart + s, M) \in Nat
    BY <2>1, <2>5, <2>7, SymbolReaches
  <2> QED  BY <2>1, <2>4, <2>5, <2>6, <2>8, SqueezeAssumption
<1> DEFINE g == j + M
<1>9. g \in j .. BlockSize /\ j \in 0 .. BlockSize /\ Paths(c, l, j)
  BY <1>1, <1>3
<1>10. ReachesMore(c, l, c2, l2, g)
  <2>1. ASSUME NEW t \in 0 .. BlockSize
        PROVE  \/ c2[t] = c[t] /\ l2[t] = l[t]
               \/ t >= g /\ t > 0 /\ \E s \in 0 .. g - 1 : Arrives(c2, l2, s, t)
    <3>1. CASE t \in j + M .. j + 2 * M - 1
      <4>1. t - M \in 0 .. g - 1 /\ t >= g /\ t > 0
        BY <1>1, <3>1
      <4> QED  BY <1>8, <3>1, <4>1
    <3>2. CASE t \notin j + M .. j + 2 * M - 1
      BY <1>5, <3>2
    <3> QED  BY <3>1, <3>2
  <2>2. /\ c2 = [t \in 0 .. BlockSize |-> c2[t]] /\ l2 = [t \in 0 .. BlockSize |-> l2[t]]
    BY <1>5
  <2> HIDE DEF g
  <2> QED  BY <2>1, <2>2 DEF ReachesMore
<1>11. Paths(c2, l2, g)
  <2> HIDE DEF g, j
  <2> QED  BY <1>9, <1>10, ArrivalsKeepPaths
<1>12. Reached(c2, g)
  <2> SUFFICES ASSUME NEW t \in 0 .. BlockSize, t <= g PROVE c2[t] # Sentinel
    BY DEF Reached
  <2>1. CASE t <= j + M - 1
    BY <1>7, <2>1
  <2>2. CASE t = j + M
    <3>1. t \in j + M .. j + 2 * M - 1
      BY <1>1, <2>2
    <3> QED  BY <1>8, <3>1
  <2> QED  BY <1>1, <2>1, <2>2
<1>13. e.i \in Block
  <2>1. q + M \in instart .. end - 1
    BY <1>1, <1>2
  <2> QED  BY <1>5, <2>1 DEF Block
<1> QED  BY <1>5, <1>8, <1>11, <1>12, <1>13 DEF c2, l2
-----------------------------------------------------------------------------
(* A pass moves through indices and symbols; what it reads stays the same.   *)
Frontier == IF phase = "forward" THEN Index(i) ELSE BlockSize
NoneLeftOut == \A q \in Block : ~ InRepetition(q)

SameInput == UNCHANGED <<array, instart, end, cost>>

(* While the block and the model stay, the symbols of every position do.     *)
LEMMA SameMatches ==
  ASSUME SameInput
  PROVE  /\ BlockSize' = BlockSize /\ Block' = Block
         /\ \A q : Index(q)' = Index(q) /\ Longest(q)' = Longest(q) /\ Lengths(q)' = Lengths(q)
         /\ \A q, k : /\ Nearest(q, k)' = Nearest(q, k) /\ DistOf(q, k)' = DistOf(q, k)
                      /\ LengthCost(q, k)' = LengthCost(q, k)
                      /\ Reaching(q, k)' = Reaching(q, k)
         /\ \A t : Allowed(t)' = Allowed(t)
         /\ InputFits' <=> InputFits
<1>1. array' = array /\ instart' = instart /\ end' = end /\ cost' = cost
  BY DEF SameInput
<1>2. BlockSize' = BlockSize /\ Block' = Block /\ \A q : Index(q)' = Index(q)
  BY <1>1 DEF BlockSize, Block, Index
<1>3. \A q, k : Reaching(q, k)' = Reaching(q, k)
  BY <1>1 DEF Reaching, Agree
<1>4. \A q, k : Nearest(q, k)' = Nearest(q, k)
  BY <1>1 DEF Nearest, Least, Reaching, Agree
<1>5. \A q : Longest(q)' = Longest(q)
  BY <1>1 DEF Longest, Reaching, Agree
<1>6. \A q : Lengths(q)' = Lengths(q)
  BY <1>5 DEF Lengths
<1>7. \A q, k : DistOf(q, k)' = DistOf(q, k)
  BY <1>4 DEF DistOf
<1>8. \A q, k : LengthCost(q, k)' = LengthCost(q, k)
  BY <1>1, <1>4 DEF LengthCost, MatchCost
<1>9. \A t : Allowed(t)' = Allowed(t)
  BY <1>1, <1>2 DEF Allowed, Most, Covers
<1>10. InputFits' <=> InputFits
  BY <1>1 DEF InputFits
<1> QED  BY <1>2, <1>3, <1>4, <1>5, <1>6, <1>7, <1>8, <1>9, <1>10

(* So do paths, and what is reached and served.                              *)
LEMMA SamePaths ==
  ASSUME SameInput
  PROVE  /\ Paths(costs, lendist, Frontier)' <=> Paths(costs', lendist', Frontier')
         /\ Reached(costs, Frontier)' <=> Reached(costs', Frontier')
         /\ \A s : Served(costs, s)' <=> Served(costs', s)
<1>1. instart' = instart
  BY DEF SameInput
<1>2. Reached(costs, Frontier)' <=> Reached(costs', Frontier')
  BY SameMatches DEF Reached
<1>3. \A s : Served(costs, s)' <=> Served(costs', s)
  BY <1>1, SameMatches DEF Served
<1>4. \A s, t : Arrives(costs, lendist, s, t)' <=> Arrives(costs', lendist', s, t)
  BY <1>1, SameMatches DEF Arrives
<1>5. Paths(costs, lendist, Frontier)' <=> Paths(costs', lendist', Frontier')
  BY <1>4, SameMatches DEF Paths
<1> QED  BY <1>2, <1>3, <1>5

(* So does what a cache has of them.                                         *)
LEMMA SameCache ==
  ASSUME array' = array, instart' = instart, end' = end
  PROVE  CacheHolds(lmc)' <=> CacheHolds(lmc')
<1>1. Block' = Block
  BY DEF Block
<1>2. \A q, k : Nearest(q, k)' = Nearest(q, k)
  BY DEF Nearest, Least, Reaching, Agree
<1>3. \A q : Longest(q)' = Longest(q)
  BY DEF Longest, Reaching, Agree
<1>4. \A q, k : HasNearest(lmc, q, k)' <=> HasNearest(lmc', q, k)
  BY <1>2 DEF HasNearest, FirstRunFor
<1> QED  BY <1>1, <1>3, <1>4 DEF CacheHolds, PoolFits, Available

(* What a pass knows of the position before, if it did not leave it out, and *)
(* of the two before.                                                        *)
LastServed ==
  /\ i > instart => Served(costs, Index(i) - 1)
  /\ i - 2 >= instart /\ Longest(i - 2) >= 3 => costs[Index(i) + 1] # Sentinel

AllServed == \A s \in 0 .. BlockSize - 1 : s < Frontier => Served(costs, s)

PassInv ==
  /\ InputFits
  /\ CacheHolds(lmc)
  /\ iteration \in 0 .. Iterations - 1
  /\ build_hash \in BOOLEAN
  /\ phase = "greedy" => costs = Unreached(BlockSize) /\ lendist = NoSymbols(BlockSize)
  /\ phase # "greedy" =>
       /\ cost \in CostModels
       /\ Paths(costs, lendist, Frontier) /\ Reached(costs, Frontier)
       /\ NoneLeftOut => AllServed
  /\ phase = "forward" => LastServed

LEMMA PassInitially == Init => PassInv
<1> SUFFICES ASSUME Init PROVE PassInv
  OBVIOUS
<1>1. InputFits
  BY DEF Init, InputFits
<1>2. CacheHolds(lmc)
  <2>1. CASE lmc = NoCache
    BY <2>1 DEF CacheHolds
  <2>2. CASE lmc # NoCache
    <3>1. lmc = InitCache(Block)
      BY <2>2 DEF Init
    <3>2. Cardinality(Block) = end - instart
      BY <1>1, InputIs, FS_Interval DEF Block
    <3> DEFINE cap == PoolCap(Cardinality(Block))
    <3>3. cap \in Nat
      <4>1. PICK c \in Cases : array = c[1] /\ instart = c[2] /\ end = c[3]
        BY <1>1 DEF InputFits
      <4> QED  BY <3>2, <4>1, SqueezeAssumption
    <3> HIDE DEF cap
    <3>4. Lesser(cap, FirstAlloc) \in Nat /\ Lesser(cap, FirstAlloc) <= cap
      BY <3>3, CacheAssumption DEF Lesser
    <3>5. /\ DOMAIN lmc = {"length", "dist", "runOff", "pool", "used", "cap", "alloc",
                           "complete"}
          /\ lmc.length = [q \in Block |-> 1] /\ lmc.dist = [q \in Block |-> 0]
          /\ lmc.runOff = [q \in Block |-> Unwritten] /\ lmc.used = 0 /\ lmc.pool = << >>
          /\ lmc.cap = cap /\ lmc.alloc = Lesser(cap, FirstAlloc)
      BY <3>1 DEF InitCache, cap
    <3>6. PoolFits(lmc)
      BY <3>3, <3>4, <3>5 DEF PoolFits
    <3>7. \A q \in Block : ~ Available(lmc, q)
      BY <3>5 DEF Available
    <3> QED  BY <3>5, <3>6, <3>7 DEF CacheHolds
  <2> QED  BY <2>1, <2>2
<1>3. iteration \in 0 .. Iterations - 1
  BY SqueezeAssumption DEF Init
<1> QED  BY <1>1, <1>2, <1>3 DEF Init, PassInv

(* A pass starts with index 0 reached, and no other.                         *)
LEMMA PassStarts ==
  ASSUME InputFits, cost \in CostModels, phase = "forward", i = instart,
         costs = Unreached(BlockSize), lendist = NoSymbols(BlockSize)
  PROVE  /\ Paths(costs, lendist, Frontier) /\ Reached(costs, Frontier)
         /\ AllServed /\ LastServed
<1>1. /\ instart \in Nat /\ BlockSize \in Nat /\ Frontier = 0 /\ i = instart
      /\ Sentinel \in Nat /\ Sentinel # 0
  BY InputIs, SqueezeAssumption DEF Frontier, Index
<1>2. /\ costs = [t \in 0 .. BlockSize |-> IF t = 0 THEN 0 ELSE Sentinel]
      /\ lendist = [t \in 0 .. BlockSize |-> <<0, 0>>]
  BY DEF Unreached, NoSymbols
<1>3. 0 \in 0 .. BlockSize /\ costs[0] = 0 /\ \A t \in 0 .. BlockSize : t # 0 => costs[t] = Sentinel
  BY <1>1, <1>2
<1>4. costs \in [0 .. BlockSize -> 0 .. Sentinel]
  BY <1>1, <1>2
<1>5. lendist \in [0 .. BlockSize -> (0 .. MaxMatch) \X (0 .. WindowSize - 1)]
  BY <1>2, SqueezeAssumption
<1>6. \A t \in 0 .. BlockSize : costs[t] # Sentinel => costs[t] <= Allowed(t)
  <2>1. Allowed(0) = 0
    BY PositionAllows
  <2> QED  BY <1>1, <1>3, <2>1
<1>7. \A t \in 1 .. BlockSize : costs[t] = Sentinel
  BY <1>1, <1>3
<1>8. Paths(costs, lendist, Frontier)
  BY <1>3, <1>4, <1>5, <1>6, <1>7 DEF Paths
<1>9. Reached(costs, Frontier)
  <2>1. \A t \in 0 .. BlockSize : t <= 0 => t = 0
    BY <1>1
  <2> QED  BY <1>1, <1>3, <2>1 DEF Reached
<1>10. AllServed
  BY <1>1 DEF AllServed
<1>11. LastServed
  BY <1>1 DEF LastServed
<1> QED  BY <1>8, <1>9, <1>10, <1>11

LEMMA PassStartsNext ==
  ASSUME InputFits, array' = array, instart' = instart, end' = end, cost' \in CostModels,
         StartPass
  PROVE  /\ InputFits' /\ Block' = Block
         /\ Paths(costs, lendist, Frontier)' /\ Reached(costs, Frontier)'
         /\ AllServed' /\ LastServed'
<1>1. InputFits' /\ BlockSize' = BlockSize /\ Block' = Block
  BY DEF InputFits, BlockSize, Block
<1>2. phase' = "forward" /\ i' = instart' /\ costs' = Unreached(BlockSize')
      /\ lendist' = NoSymbols(BlockSize')
  BY <1>1 DEF StartPass
<1>3. ASSUME (InputFits /\ cost \in CostModels /\ phase = "forward" /\ i = instart
              /\ costs = Unreached(BlockSize) /\ lendist = NoSymbols(BlockSize))'
      PROVE  (Paths(costs, lendist, Frontier) /\ Reached(costs, Frontier)
              /\ AllServed /\ LastServed)'
  BY <1>3, PassStarts, PTL
<1>4. (InputFits /\ cost \in CostModels /\ phase = "forward" /\ i = instart
       /\ costs = Unreached(BlockSize) /\ lendist = NoSymbols(BlockSize))'
  BY <1>1, <1>2 DEF Unreached, NoSymbols
<1> QED  BY <1>1, <1>3, <1>4

(* The step of a pass, with or without a repetition before the position.     *)
LEMMA PassForward ==
  ASSUME IInv, PassInv, Forward PROVE PassInv'
<1> DEFINE here == [i |-> i, costs |-> costs, lendist |-> lendist]
           from == IF InRepetition(i) THEN OverRepetition(here) ELSE here
           c == IF InRepetition(i) THEN Incomplete(lmc) ELSE lmc
           dp == WithMatches(WithLiteral(from))
           p == from.i
<1>1. /\ phase = "forward" /\ i < end
      /\ costs' = dp.costs /\ lendist' = dp.lendist
      /\ i' = p + 1
      /\ lmc' = IF CachedFully(p) THEN c ELSE Searched(c, p)
      /\ array' = array /\ instart' = instart /\ end' = end
      /\ build_hash' = build_hash /\ iteration' = iteration /\ cost' = cost /\ phase' = phase
  BY DEF Forward, input
<1>2. /\ InputFits /\ CacheHolds(lmc) /\ cost \in CostModels
      /\ Paths(costs, lendist, Index(i)) /\ Reached(costs, Index(i))
      /\ LastServed /\ (NoneLeftOut => AllServed)
      /\ Frontier = Index(i) /\ iteration \in 0 .. Iterations - 1 /\ build_hash \in BOOLEAN
  BY <1>1 DEF PassInv, Frontier
<1>3. /\ i \in Block /\ i \in Nat /\ instart <= i
      /\ instart \in Nat /\ end \in Nat /\ BlockSize \in Nat
      /\ MaxMatch \in Nat /\ 3 <= MaxMatch /\ Sentinel \in Nat
  BY <1>1, <1>2, InputIs, SqueezeAssumption DEF IInv, Block
<1>4. /\ p \in Block /\ from = [i |-> p, costs |-> from.costs, lendist |-> from.lendist]
      /\ Paths(from.costs, from.lendist, Index(p))
      /\ Reached(from.costs, Index(p))
      /\ ~ InRepetition(i) => p = i /\ from.costs = costs
      /\ InRepetition(i) => /\ p = i + MaxMatch
                            /\ Index(p) + 2 \in 0 .. BlockSize
                            /\ from.costs[Index(p) + 2] # Sentinel
  <2>1. CASE ~ InRepetition(i)
    <3>1. from = here
      BY <2>1
    <3> HIDE DEF from
    <3> QED  BY <1>2, <1>3, <2>1, <3>1
  <2>2. CASE InRepetition(i)
    <3>1. from = OverRepetition(here)
      BY <2>2
    <3> HIDE DEF from
    <3>2. i > instart /\ i - 2 >= instart
      BY <1>3, <2>2 DEF InRepetition
    <3>3. Served(costs, Index(i) - 1) /\ (Longest(i - 2) >= 3 => costs[Index(i) + 1] # Sentinel)
      BY <1>2, <3>2 DEF LastServed
    <3>4. /\ p = i + MaxMatch /\ p \in Block
          /\ from = [i |-> p, costs |-> from.costs, lendist |-> from.lendist]
          /\ Paths(from.costs, from.lendist, Index(i) + MaxMatch)
          /\ Reached(from.costs, Index(i) + MaxMatch)
          /\ \A t \in Index(i) + MaxMatch .. Index(i) + 2 * MaxMatch - 1 :
               t \in 0 .. BlockSize /\ from.costs[t] # Sentinel
      BY <1>2, <1>3, <2>2, <3>1, <3>3, RepetitionKeeps
    <3>5. Index(p) = Index(i) + MaxMatch
      BY <1>3, <3>4 DEF Index
    <3>6. Index(p) + 2 \in Index(i) + MaxMatch .. Index(i) + 2 * MaxMatch - 1
      BY <1>3, <3>5 DEF Index
    <3>7. Index(p) + 2 \in 0 .. BlockSize /\ from.costs[Index(p) + 2] # Sentinel
      BY <3>4, <3>6
    <3> QED  BY <2>2, <3>4, <3>5, <3>7
  <2> QED  BY <2>1, <2>2
<1> HIDE DEF from, p
<1>5. dp = WithMatches(WithLiteral([i |-> p, costs |-> from.costs, lendist |-> from.lendist]))
  BY <1>4
<1> HIDE DEF dp
<1>6. /\ Paths(costs', lendist', Index(p) + 1)
      /\ Reached(costs', Index(p) + 1)
      /\ Served(costs', Index(p))
      /\ \A t \in 0 .. BlockSize : costs'[t] <= from.costs[t]
      /\ \A t \in 0 .. Index(p) : costs'[t] = from.costs[t]
  BY <1>1, <1>2, <1>4, <1>5, PositionKeeps
<1>7. SameInput
  BY <1>1 DEF SameInput
<1>8. Frontier' = Index(p) + 1 /\ Index(i)' = Index(p) + 1 /\ Index(p) \in Nat /\ Index(p) \in Int
      /\ Index(p) \in 0 .. BlockSize - 1 /\ p \in Nat /\ instart + Index(p) = p
  BY <1>1, <1>2, <1>4, InputIs DEF Frontier, Index, Block
<1>9. Paths(costs, lendist, Frontier)' /\ Reached(costs, Frontier)'
  BY <1>6, <1>7, <1>8, SamePaths
<1>10. /\ costs' \in [0 .. BlockSize -> 0 .. Sentinel]
       /\ from.costs \in [0 .. BlockSize -> 0 .. Sentinel]
  BY <1>4, <1>6 DEF Paths
<1>11. LastServed'
  <2>1. Served(costs', Index(i)' - 1)
    <3>1. Index(i)' - 1 = Index(p)
      BY <1>8
    <3> QED  BY <1>6, <3>1
  <2>2. Served(costs, Index(i) - 1)'
    BY <1>7, <2>1, SamePaths
  <2>3. ASSUME i' - 2 >= instart, Longest(i' - 2) >= 3
        PROVE  costs'[Index(p) + 2] # Sentinel
    <3>1. Index(p) + 2 \in 0 .. BlockSize /\ from.costs[Index(p) + 2] # Sentinel
      <4>1. CASE InRepetition(i)
        BY <1>4, <4>1
      <4>2. CASE ~ InRepetition(i)
        <5> DEFINE s == Index(i) - 1
        <5>1. p = i /\ i' - 2 = i - 1 /\ i - 1 >= instart /\ i > instart /\ from.costs = costs
          BY <1>1, <1>3, <1>4, <2>3, <4>2
        <5>2. /\ s \in 0 .. BlockSize - 1 /\ s \in 0 .. BlockSize /\ s <= Index(i)
              /\ instart + s = i - 1 /\ s + 3 = Index(p) + 2
          BY <1>3, <1>8, <5>1 DEF Index
        <5>3. 3 \in Lengths(instart + s)
          <6>1. Longest(instart + s) \in Nat
            BY LongestFinds, SqueezeAssumption
          <6> QED  BY <2>3, <5>1, <5>2, <6>1 DEF Lengths
        <5>4. Served(costs, s) /\ costs[s] # Sentinel
          BY <1>2, <5>1, <5>2 DEF LastServed, Reached
        <5> HIDE DEF s
        <5>5. s + 3 \in 1 .. BlockSize /\ costs[s + 3] # Sentinel
          BY <1>2, <5>2, <5>3, <5>4, ServedReaches
        <5>6. s + 3 \in 0 .. BlockSize
          BY <1>3, <5>5
        <5> QED  BY <5>1, <5>2, <5>5, <5>6
      <4> QED  BY <4>1, <4>2
    <3>2. costs'[Index(p) + 2] <= from.costs[Index(p) + 2]
      BY <1>6, <3>1
    <3> QED  BY <1>3, <1>10, <3>1, <3>2
  <2>4. Index(i)' + 1 = Index(p) + 2
    BY <1>8
  <2>5. \A q : Longest(q)' = Longest(q)
    BY <1>7, SameMatches
  <2>6. i' - 2 >= instart' /\ Longest(i - 2)' >= 3 => costs'[Index(i)' + 1] # Sentinel
    BY <1>1, <2>3, <2>4 DEF Longest, Reaching, Agree
  <2> QED  BY <2>2, <2>6 DEF LastServed
<1>12. NoneLeftOut' => AllServed'
  <2> SUFFICES ASSUME NoneLeftOut' PROVE AllServed'
    OBVIOUS
  <2>1. NoneLeftOut
    BY <1>1, <1>7, SameMatches DEF NoneLeftOut, InRepetition, Run
  <2>2. AllServed /\ p = i /\ from.costs = costs
    BY <1>2, <1>3, <1>4, <2>1 DEF NoneLeftOut
  <2>3. ASSUME NEW s \in 0 .. BlockSize - 1, s < Index(p) + 1 PROVE Served(costs', s)
    <3>1. CASE s = Index(p)
      BY <1>6, <3>1
    <3>2. CASE s # Index(p)
      <4>1. s < Index(i) /\ s <= Index(i) /\ s \in 0 .. Index(p) /\ s \in 0 .. BlockSize
        BY <1>3, <1>8, <2>2, <2>3, <3>2
      <4>2. Served(costs, s)
        BY <1>2, <2>2, <4>1 DEF AllServed
      <4> SUFFICES ASSUME NEW k \in Lengths(instart + s)
                   PROVE  costs'[s + k] <= costs'[s] + LengthCost(instart + s, k)
        BY DEF Served
      <4>3. costs[s + k] <= costs[s] + LengthCost(instart + s, k) /\ costs'[s] = costs[s]
        BY <1>6, <2>2, <4>1, <4>2 DEF Served
      <4>4. instart + s \in Block /\ BlockSize \in Nat
        BY <1>2, InputIs
      <4>5. LengthCost(instart + s, k) \in Nat /\ k \in Nat
        BY <1>2, <4>4, LengthFits
      <4>6. costs[s] \in Nat /\ costs[s] <= Allowed(s)
        <5>1. costs[s] # Sentinel
          BY <1>2, <4>1 DEF Reached
        <5> QED  BY <1>2, <1>3, <4>1, <5>1 DEF Paths
      <4>7. s + k \in 0 .. BlockSize
        <5>1. s + k \in 1 .. BlockSize
          BY <1>2, <4>6, SymbolReaches
        <5> QED  BY <4>4, <5>1
      <4>8. costs'[s + k] <= costs[s + k] /\ costs'[s + k] \in Nat /\ costs[s + k] \in Nat
        BY <1>3, <1>6, <1>10, <2>2, <4>7
      <4> QED  BY <4>3, <4>5, <4>6, <4>8
    <3> QED  BY <3>1, <3>2
  <2>4. \A s \in 0 .. BlockSize - 1 : s < Frontier' => Served(costs, s)'
    BY <1>7, <1>8, <2>3, SamePaths
  <2> QED  BY <1>7, <2>4, SameMatches DEF AllServed
<1>13. CacheHolds(lmc)'
  <2>1. CacheHolds(c)
    BY <1>2, IncompleteHolds
  <2> HIDE DEF c
  <2>2. CacheHolds(lmc')
    BY <1>1, <1>3, <1>4, <2>1, SearchedHolds
  <2> QED  BY <1>1, <2>2, SameCache
<1>14. InputFits'
  BY <1>2, <1>7, SameMatches
<1> QED  BY <1>1, <1>2, <1>9, <1>11, <1>12, <1>13, <1>14 DEF PassInv

(* After the pass, its costs stay.                                           *)
LEMMA PassRests ==
  ASSUME IInv, PassInv,
         UNCHANGED <<array, instart, end, build_hash, lmc, iteration, cost, costs, lendist>>,
         phase' \notin {"greedy", "forward"},
         phase = "forward" => i = end, phase # "greedy"
  PROVE  PassInv'
<1>1. SameInput /\ InputFits /\ CacheHolds(lmc)
  BY DEF SameInput, PassInv
<1>2. Frontier = BlockSize /\ Frontier' = Frontier
  BY <1>1 DEF Frontier, Index, BlockSize
<1>3. /\ Paths(costs', lendist', Frontier') /\ Reached(costs', Frontier')
      /\ NoneLeftOut => AllServed
  BY <1>2 DEF PassInv
<1>4. Paths(costs, lendist, Frontier)' /\ Reached(costs, Frontier)'
  BY <1>1, <1>3, SamePaths
<1>5. NoneLeftOut' => AllServed'
  <2>1. NoneLeftOut' <=> NoneLeftOut
    BY <1>1, SameMatches DEF NoneLeftOut, InRepetition, Run
  <2>2. \A s : Served(costs, s)' <=> Served(costs, s)
    BY <1>1, SamePaths
  <2> QED  BY <1>1, <1>2, <1>3, <2>1, <2>2, SameMatches DEF AllServed
<1>6. CacheHolds(lmc)' /\ InputFits'
  BY <1>1, SameCache, SameMatches
<1> QED  BY <1>4, <1>5, <1>6 DEF PassInv

LEMMA PassStep ==
  ASSUME IInv, PassInv, [Next]_squeezeVars PROVE PassInv'
<1>1. CASE Greedy
  <2>1. /\ phase = "greedy" /\ i < end /\ phase' = "greedy"
        /\ lmc' = IF Index(i) \in searches THEN Searched(lmc, i) ELSE lmc
        /\ UNCHANGED <<array, instart, end, build_hash, iteration, costs, lendist>>
    BY <1>1 DEF Greedy, input
  <2>2. i \in Block /\ instart \in Nat /\ end \in Nat
    BY <2>1 DEF IInv, Block
  <2>3. CacheHolds(lmc')
    BY <2>1, <2>2, SearchedHolds DEF PassInv
  <2>4. CacheHolds(lmc)' /\ InputFits'
    BY <2>1, <2>3, SameCache DEF PassInv, InputFits
  <2> QED  BY <2>1, <2>4 DEF PassInv, Unreached, NoSymbols, BlockSize
<1>2. CASE \E model \in CostModels : FirstIteration(model)
  <2>1. PICK model \in CostModels : FirstIteration(model)
    BY <1>2
  <2>2. /\ array' = array /\ instart' = instart /\ end' = end /\ cost' = model
        /\ lmc' = lmc /\ build_hash' = build_hash /\ iteration' = iteration /\ StartPass
        /\ phase' = "forward" /\ InputFits
    BY <2>1 DEF FirstIteration, StartPass, PassInv
  <2>3. /\ InputFits' /\ Paths(costs, lendist, Frontier)' /\ Reached(costs, Frontier)'
        /\ AllServed' /\ LastServed'
    BY <2>2, PassStartsNext
  <2>4. CacheHolds(lmc)'
    BY <2>2, SameCache DEF PassInv
  <2> QED  BY <2>2, <2>3, <2>4 DEF PassInv
<1>3. CASE Forward
  BY <1>3, PassForward
<1>4. CASE StartTrace \/ Trace \/ StartFollow \/ Follow \/ Stored
  <2>1. /\ UNCHANGED <<array, instart, end, build_hash, lmc, iteration, cost, costs, lendist>>
        /\ phase' \notin {"greedy", "forward"}
        /\ phase = "forward" => i = end
        /\ phase # "greedy"
    BY <1>4 DEF StartTrace, Trace, StartFollow, Follow, Stored, input
  <2> QED  BY <2>1, PassRests
<1>5. CASE \E model \in CostModels : NextIteration(model)
  <2>1. PICK model \in CostModels : NextIteration(model)
    BY <1>5
  <2>2. /\ array' = array /\ instart' = instart /\ end' = end /\ cost' = model
        /\ lmc' = lmc /\ StartPass /\ phase' = "forward" /\ InputFits
        /\ iteration < Iterations - 1 /\ iteration' = iteration + 1
        /\ build_hash' = IF iteration = 0 THEN ~ CacheServesAll ELSE build_hash
    BY <2>1 DEF NextIteration, StartPass, input, PassInv
  <2>3. /\ InputFits' /\ Paths(costs, lendist, Frontier)' /\ Reached(costs, Frontier)'
        /\ AllServed' /\ LastServed'
    BY <2>2, PassStartsNext
  <2>4. CacheHolds(lmc)'
    BY <2>2, SameCache DEF PassInv
  <2>5. iteration' \in 0 .. Iterations - 1
    BY <2>2, SqueezeAssumption DEF PassInv
  <2>6. build_hash' \in BOOLEAN
    BY <2>2 DEF PassInv
  <2> QED  BY <2>2, <2>3, <2>4, <2>5, <2>6 DEF PassInv
<1>6. CASE UNCHANGED squeezeVars
  <2>1. /\ SameInput /\ i' = i /\ phase' = phase /\ costs' = costs /\ lendist' = lendist
        /\ UNCHANGED <<array, instart, end, build_hash, lmc, iteration, cost>>
    BY <1>6 DEF squeezeVars, input, SameInput
  <2>2. CacheHolds(lmc)' /\ InputFits'
    BY <2>1, SameCache, SameMatches DEF PassInv
  <2>3. Frontier' = Frontier /\ BlockSize' = BlockSize
    BY <2>1, SameMatches DEF Frontier
  <2>4. /\ Paths(costs, lendist, Frontier)' <=> Paths(costs, lendist, Frontier)
        /\ Reached(costs, Frontier)' <=> Reached(costs, Frontier)
        /\ \A s : Served(costs, s)' <=> Served(costs, s)
    BY <2>1, <2>3, SamePaths
  <2>5. NoneLeftOut' <=> NoneLeftOut
    BY <2>1, SameMatches DEF NoneLeftOut, InRepetition, Run
  <2>6. AllServed' <=> AllServed
    BY <2>3, <2>4 DEF AllServed
  <2>7. LastServed' <=> LastServed
    BY <2>1, <2>4, SameMatches DEF LastServed, Longest, Reaching, Agree, Index
  <2> QED  BY <2>1, <2>2, <2>3, <2>4, <2>5, <2>6, <2>7 DEF PassInv, Unreached, NoSymbols
<1> QED  BY <1>1, <1>2, <1>3, <1>4, <1>5, <1>6 DEF Next, Finished

(* GetBestLengths: all indices up to the position of a pass are reached, by  *)
(* paths of symbols that are there at the costs they have, and if no         *)
(* position is left out none of the symbols could improve on them.           *)
THEOREM PassInvariant == Spec => []PassInv
<1>1. Init => PassInv
  BY PassInitially
<1>2. IInv /\ PassInv /\ [Next]_squeezeVars => PassInv'
  BY PassStep
<1> QED  BY <1>1, <1>2, Invariant, PTL DEF Spec
-----------------------------------------------------------------------------
(* The least costs.                                                          *)

(* Once all indices before are known at their least cost, the least cost of  *)
(* all arrivals at an index is what the pass has for it.                     *)
KnownBefore(best, t) == \A s \in 0 .. t - 1 : best[s + 1] = costs[s]

LEMMA ArrivalsLeast ==
  ASSUME PassInv, phase \notin {"greedy", "forward"}, NoneLeftOut,
         NEW t \in 1 .. BlockSize, NEW best, KnownBefore(best, t)
  PROVE  Least(Arrivals(best, t)) = costs[t]
<1> DEFINE A == Arrivals(best, t)
           Ks == {k \in MinMatch .. MaxMatch : k <= t /\ k <= Longest(instart + t - k)}
<1>1. /\ InputFits /\ cost \in CostModels /\ Paths(costs, lendist, BlockSize)
      /\ Reached(costs, BlockSize)
      /\ \A s \in 0 .. BlockSize - 1 : s < BlockSize => Served(costs, s)
  BY DEF PassInv, Frontier, AllServed
<1>2. /\ BlockSize \in Nat /\ instart \in Nat /\ t \in Nat /\ t \in 0 .. BlockSize
      /\ MinMatch = 3 /\ MaxMatch \in Nat /\ Sentinel \in Nat
      /\ costs \in [0 .. BlockSize -> 0 .. Sentinel]
      /\ t - 1 \in 0 .. t - 1
  BY <1>1, InputIs, SqueezeAssumption DEF Paths
<1>3. A = {best[t] + cost.lit[array[instart + t - 1]]}
            \cup {best[t - k + 1] + MatchCost(k, Sublen(instart + t - k)[k]) : k \in Ks}
  BY DEF Arrivals
<1> HIDE DEF A, Ks
<1>4. best[t] + cost.lit[array[instart + t - 1]]
        = costs[t - 1] + LengthCost(instart + (t - 1), 1)
  <2>1. (t - 1) + 1 = t /\ instart + (t - 1) = instart + t - 1
    BY <1>2
  <2>2. best[t] = costs[t - 1]
    BY <1>2, <2>1 DEF KnownBefore
  <2> QED  BY <2>1, <2>2 DEF LengthCost
<1>5. ASSUME NEW k \in Ks
      PROVE  /\ t - k \in 0 .. t - 1 /\ k \in Lengths(instart + (t - k)) /\ (t - k) + k = t
             /\ best[t - k + 1] + MatchCost(k, Sublen(instart + t - k)[k])
                  = costs[t - k] + LengthCost(instart + (t - k), k)
  <2> DEFINE s == t - k
  <2>1. k \in MinMatch .. MaxMatch /\ k <= t /\ k <= Longest(instart + t - k)
    BY DEF Ks
  <2>2. /\ s \in 0 .. t - 1 /\ s + k = t /\ instart + t - k = instart + s /\ k \in Nat /\ k # 1
        /\ 3 <= k /\ s + 1 = t - k + 1 /\ instart + s \in Nat
    BY <1>2, <2>1
  <2>3. Longest(instart + s) \in Nat
    BY LongestFinds, SqueezeAssumption
  <2>4. k \in 3 .. Longest(instart + s)
    BY <2>1, <2>2, <2>3
  <2>5. Sublen(instart + s)[k] = Nearest(instart + s, k)
    BY <1>1, <2>2, <2>4, NearestReaches, InputIs
  <2>6. best[s + 1] = costs[s]
    BY <2>2 DEF KnownBefore
  <2>7. LengthCost(instart + s, k) = MatchCost(k, Sublen(instart + t - k)[k])
    BY <2>2, <2>5 DEF LengthCost
  <2>8. k \in Lengths(instart + s)
    BY <2>4 DEF Lengths
  <2> QED  BY <2>2, <2>6, <2>7, <2>8
<1>6. ASSUME NEW s \in 0 .. t - 1, NEW k \in Lengths(instart + s), s + k = t
      PROVE  /\ costs[t] <= costs[s] + LengthCost(instart + s, k)
             /\ costs[s] + LengthCost(instart + s, k) \in Nat
  <2>1. s \in 0 .. BlockSize - 1 /\ s < BlockSize /\ s \in 0 .. BlockSize /\ s <= BlockSize
    BY <1>2
  <2>2. Served(costs, s) /\ costs[s] # Sentinel
    BY <1>1, <2>1 DEF Reached
  <2>3. costs[s] \in Nat /\ costs[s] <= Allowed(s)
    BY <1>1, <1>2, <2>1, <2>2 DEF Paths
  <2>4. costs[s] + LengthCost(instart + s, k) \in Nat
    BY <1>1, <2>1, <2>3, SymbolReaches
  <2> QED  BY <1>6, <2>2, <2>4 DEF Served
<1>7. \A a \in A : costs[t] <= a /\ a \in Nat
  <2> TAKE a \in A
  <2>1. CASE a = best[t] + cost.lit[array[instart + t - 1]]
    <3>1. 1 \in Lengths(instart + (t - 1)) /\ (t - 1) + 1 = t
      BY <1>2 DEF Lengths
    <3> QED  BY <1>2, <1>4, <1>6, <2>1, <3>1
  <2>2. CASE \E k \in Ks : a = best[t - k + 1] + MatchCost(k, Sublen(instart + t - k)[k])
    <3>1. PICK k \in Ks : a = best[t - k + 1] + MatchCost(k, Sublen(instart + t - k)[k])
      BY <2>2
    <3> QED  BY <1>5, <1>6, <3>1
  <2> QED  BY <1>3, <2>1, <2>2
<1>8. costs[t] \in A
  <2>1. costs[t] # Sentinel
    BY <1>1, <1>2 DEF Reached
  <2>2. PICK s \in 0 .. BlockSize - 1 : Arrives(costs, lendist, s, t)
    BY <1>1, <2>1 DEF Paths
  <2> DEFINE k == t - s
  <2>3. /\ k \in Lengths(instart + s) /\ s < t /\ s \in Nat
        /\ costs[t] = costs[s] + LengthCost(instart + s, k)
    BY <1>2, <2>2 DEF Arrives
  <2>4. CASE k = 1
    <3>1. s = t - 1
      BY <1>2, <2>3, <2>4
    <3> QED  BY <1>3, <1>4, <2>3, <2>4, <3>1
  <2>5. CASE k # 1
    <3>1. instart + s \in Block /\ instart + t - k = instart + s /\ t - k = s
      BY <1>1, <1>2, <2>3, InputIs
    <3>2. k \in 3 .. Longest(instart + s) /\ Longest(instart + s) \in Nat
      BY <2>3, <2>5, LongestFinds, SqueezeAssumption DEF Lengths
    <3>3. k \in MinMatch .. MaxMatch
      BY <1>1, <3>1, <3>2, NearestReaches, InputIs
    <3>4. k <= t /\ k <= Longest(instart + s)
      BY <1>2, <2>3, <3>2
    <3> HIDE DEF k
    <3>5. k \in Ks
      BY <3>1, <3>3, <3>4 DEF Ks
    <3>6. best[t - k + 1] + MatchCost(k, Sublen(instart + t - k)[k]) = costs[t]
      BY <1>5, <2>3, <3>1, <3>5
    <3> QED  BY <1>3, <3>5, <3>6
  <2> QED  BY <2>4, <2>5
<1>9. Least(A) \in A /\ \A a \in A : Least(A) <= a
  BY <1>7, <1>8 DEF Least
<1>10. Least(A) \in Nat /\ costs[t] \in Nat /\ Least(A) <= costs[t] /\ costs[t] <= Least(A)
  BY <1>7, <1>8, <1>9
<1> QED  BY <1>10 DEF A

(* So by induction over the indices; CheapestTo is given its value.          *)
LEMMA CheapestIs ==
  ASSUME PassInv, phase \notin {"greedy", "forward"}, NoneLeftOut
  PROVE  \A t \in 0 .. BlockSize : CheapestTo[t + 1] = costs[t]
<1> DEFINE w == [t \in 0 .. BlockSize |-> [n \in 1 .. t + 1 |-> costs[n - 1]]]
           Next1(b, t) == Append(b, Least(Arrivals(b, t)))
           Is(f) == f = [t \in 0 .. BlockSize |->
                           IF t = 0 THEN <<0>> ELSE Next1(f[t - 1], t)]
           upTo == CHOOSE f : Is(f)
<1>1. /\ BlockSize \in Nat /\ costs \in [0 .. BlockSize -> Nat] /\ costs[0] = 0
  <2>1. InputFits /\ Paths(costs, lendist, Frontier)
    BY DEF PassInv
  <2> QED  BY <2>1, InputIs, SqueezeAssumption DEF Paths
<1>2. ASSUME NEW t \in 0 .. BlockSize
      PROVE  /\ w[t] \in Seq(Nat) /\ Len(w[t]) = t + 1
             /\ \A n \in 1 .. t + 1 : w[t][n] = costs[n - 1]
  <2>1. \A n \in 1 .. t + 1 : n - 1 \in 0 .. BlockSize
    BY <1>1
  <2>2. w[t] = [n \in 1 .. t + 1 |-> costs[n - 1]] /\ t + 1 \in Nat
    BY <1>1
  <2>3. w[t] \in [1 .. t + 1 -> Nat]
    BY <1>1, <2>1, <2>2
  <2> HIDE DEF w
  <2> QED  BY <2>2, <2>3
<1> HIDE DEF w
<1>3. w[0] = <<0>>
  <2>1. 0 \in 0 .. BlockSize /\ w[0][1] = 0
    BY <1>1, <1>2
  <2>2. w[0] \in Seq(Nat) /\ Len(w[0]) = 1
    <3>1. w[0] \in Seq(Nat) /\ Len(w[0]) = 0 + 1
      BY <1>2, <2>1
    <3> QED  BY <3>1
  <2>3. <<0>> \in Seq(Nat) /\ Len(<<0>>) = 1 /\ <<0>>[1] = 0
    OBVIOUS
  <2>4. \A n \in 1 .. Len(w[0]) : w[0][n] = <<0>>[n]
    BY <2>1, <2>2, <2>3
  <2> QED  BY <2>2, <2>3, <2>4, SeqEqual
<1>4. ASSUME NEW t \in 1 .. BlockSize PROVE Next1(w[t - 1], t) = w[t]
  <2>1. t \in 0 .. BlockSize /\ t - 1 \in 0 .. BlockSize /\ t \in Nat /\ (t - 1) + 1 = t
    BY <1>1
  <2>2. w[t - 1] \in Seq(Nat) /\ Len(w[t - 1]) = t /\ \A n \in 1 .. t : w[t - 1][n] = costs[n - 1]
    BY <1>2, <2>1
  <2>3. w[t] \in Seq(Nat) /\ Len(w[t]) = t + 1 /\ \A n \in 1 .. t + 1 : w[t][n] = costs[n - 1]
    BY <1>2, <2>1
  <2> DEFINE b == w[t - 1]
  <2>4. \A s \in 0 .. t - 1 : b[s + 1] = costs[s]
    <3> TAKE s \in 0 .. t - 1
    <3>1. s + 1 \in 1 .. t /\ (s + 1) - 1 = s
      BY <2>1
    <3> QED  BY <2>2, <3>1
  <2> HIDE DEF b
  <2>5. Least(Arrivals(b, t)) = costs[t]
    BY <2>4, ArrivalsLeast DEF KnownBefore
  <2>6. b \in Seq(Nat) /\ Len(b) = t /\ \A n \in 1 .. t : b[n] = costs[n - 1]
    BY <2>2 DEF b
  <2>7. costs[t] \in Nat
    BY <1>1, <2>1
  <2>8. /\ Append(b, costs[t]) \in Seq(Nat) /\ Len(Append(b, costs[t])) = t + 1
        /\ \A n \in 1 .. t : Append(b, costs[t])[n] = b[n]
        /\ Append(b, costs[t])[t + 1] = costs[t]
    BY <2>6, <2>7, AppendProperties
  <2>9. \A n \in 1 .. t + 1 : Append(b, costs[t])[n] = w[t][n]
    <3> TAKE n \in 1 .. t + 1
    <3>1. CASE n \in 1 .. t
      BY <2>3, <2>6, <2>8, <3>1
    <3>2. CASE n = t + 1
      <4>1. n - 1 = t
        BY <2>1, <3>2
      <4> QED  BY <2>3, <2>8, <3>2, <4>1
    <3>3. n \in 1 .. t \/ n = t + 1
      BY <2>1
    <3> QED  BY <3>1, <3>2, <3>3
  <2>10. Append(b, costs[t]) = w[t]
    BY <2>3, <2>8, <2>9, SeqEqual
  <2> QED  BY <2>5, <2>10 DEF b
<1> HIDE DEF Next1
<1>5. Is(w)
  <2>1. w = [t \in 0 .. BlockSize |-> w[t]]
    BY DEF w
  <2>2. \A t \in 0 .. BlockSize : w[t] = IF t = 0 THEN <<0>> ELSE Next1(w[t - 1], t)
    <3> TAKE t \in 0 .. BlockSize
    <3>1. CASE t = 0
      BY <1>3, <3>1
    <3>2. CASE t # 0
      <4>1. t \in 1 .. BlockSize
        BY <1>1, <3>2
      <4> QED  BY <1>4, <3>2, <4>1
    <3> QED  BY <3>1, <3>2
  <2> QED  BY <2>1, <2>2
<1>6. CheapestTo = upTo[BlockSize]
  BY DEF CheapestTo, Next1
<1>7. Is(upTo)
  <2> HIDE DEF Is
  <2> QED  BY <1>5
<1> HIDE DEF upTo
<1> DEFINE T == {t \in Nat : t <= BlockSize => upTo[t] = w[t]}
<1>8. 0 \in T
  <2>1. 0 \in 0 .. BlockSize
    BY <1>1
  <2> QED  BY <1>3, <1>7, <2>1
<1>9. ASSUME NEW t \in T PROVE t + 1 \in T
  <2> SUFFICES ASSUME t + 1 <= BlockSize PROVE upTo[t + 1] = w[t + 1]
    OBVIOUS
  <2>1. t + 1 \in 1 .. BlockSize /\ t + 1 \in 0 .. BlockSize /\ t + 1 # 0 /\ (t + 1) - 1 = t
        /\ t <= BlockSize
    BY <1>1
  <2>2. upTo[t] = w[t]
    BY <2>1
  <2>3. upTo[t + 1] = Next1(upTo[t], t + 1)
    BY <1>7, <2>1
  <2>4. Next1(w[t], t + 1) = w[t + 1]
    BY <1>4, <2>1
  <2> QED  BY <2>2, <2>3, <2>4
<1>10. T \in SUBSET Nat
  OBVIOUS
<1>11. upTo[BlockSize] = w[BlockSize]
  <2> HIDE DEF T
  <2>1. T = Nat
    BY <1>8, <1>9, <1>10, NaturalsByStep
  <2>2. BlockSize \in T
    BY <1>1, <2>1
  <2> QED  BY <1>1, <2>2 DEF T
<1> SUFFICES ASSUME NEW t \in 0 .. BlockSize PROVE CheapestTo[t + 1] = costs[t]
  OBVIOUS
<1>12. t + 1 \in 1 .. BlockSize + 1 /\ (t + 1) - 1 = t /\ BlockSize \in 0 .. BlockSize
  BY <1>1
<1> QED  BY <1>2, <1>6, <1>11, <1>12

(* If no position is left out, a pass finds the least cost of every index    *)
(* (squeeze.c:244-378), for all blocks, cost models and caches.              *)
THEOREM PassFindsLeast == Spec => []CostsAreLeast
<1>1. PassInv => CostsAreLeast
  BY CheapestIs DEF CostsAreLeast, NoneLeftOut
<1> QED  BY PassInvariant, <1>1, PTL
-----------------------------------------------------------------------------
(* The path back from the end, and the symbols along it.                     *)

(* What TraceBackwards and FollowPath read at a reached index is a symbol    *)
(* that leads there.                                                         *)
LEMMA SymbolAt ==
  ASSUME PassInv, phase \notin {"greedy", "forward"}, NEW t \in 1 .. BlockSize
  PROVE  \E k \in 1 .. t, d \in 0 .. WindowSize - 1 :
           /\ lendist[t] = <<k, d>> /\ k <= MaxMatch
           /\ IF d = 0 THEN k = 1 ELSE k >= 3 /\ d \in Reaching(instart + t - k, k)
           /\ costs[t] = costs[t - k] + (IF d = 0 THEN cost.lit[array[instart + t - k]]
                                         ELSE MatchCost(k, d))
<1>1. /\ InputFits /\ cost \in CostModels /\ Paths(costs, lendist, BlockSize)
      /\ Reached(costs, BlockSize)
  BY DEF PassInv, Frontier
<1>2. BlockSize \in Nat /\ instart \in Nat /\ MaxMatch \in Nat
  BY <1>1, InputIs, SqueezeAssumption
<1>3. costs[t] # Sentinel
  BY <1>1, <1>2 DEF Reached
<1>4. PICK s \in 0 .. BlockSize - 1 : Arrives(costs, lendist, s, t)
  BY <1>1, <1>3 DEF Paths
<1> DEFINE k == t - s
           d == DistOf(instart + s, k)
<1>5. /\ k \in Lengths(instart + s) /\ s < t /\ lendist[t] = <<k, d>>
      /\ costs[t] = costs[s] + LengthCost(instart + s, k)
  BY <1>4 DEF Arrives
<1>6. /\ k \in 1 .. t /\ t - k = s /\ instart + t - k = instart + s /\ instart + s \in Block
  BY <1>1, <1>2, <1>5, InputIs
<1> HIDE DEF k, d
<1>7. /\ k \in 1 .. MaxMatch /\ d \in 0 .. WindowSize - 1
      /\ k # 1 => k >= 3 /\ d # 0 /\ d \in Reaching(instart + s, k)
  BY <1>1, <1>5, <1>6, LengthFits DEF d
<1>8. k = 1 => d = 0
  BY DEF d, DistOf
<1>9. LengthCost(instart + s, k) = IF d = 0 THEN cost.lit[array[instart + s]]
                                   ELSE MatchCost(k, d)
  BY <1>7, <1>8 DEF LengthCost, DistOf, d
<1>10. k <= MaxMatch
  BY <1>2, <1>7
<1>11. /\ IF d = 0 THEN k = 1 ELSE k >= 3 /\ d \in Reaching(instart + t - k, k)
       /\ costs[t] = costs[t - k] + (IF d = 0 THEN cost.lit[array[instart + t - k]]
                                     ELSE MatchCost(k, d))
  BY <1>5, <1>6, <1>7, <1>8, <1>9
<1> QED  BY <1>5, <1>6, <1>7, <1>10, <1>11

Symbol == [at : Nat, length : Nat, dist : Nat]

(* e[n] is the index at which symbol n of the path ends.                     *)
OnTheWay(e) ==
  /\ e \in [0 .. Len(path) -> 0 .. BlockSize]
  /\ e[0] = index /\ e[Len(path)] = BlockSize
  /\ \A n \in 1 .. Len(path) :
       e[n] > 0 /\ path[n] = lendist[e[n]][1] /\ e[n - 1] = e[n] - path[n]

Followed(e) ==
  /\ index = 0 /\ Len(parsed) <= Len(path)
  /\ i = instart + e[Len(parsed)]
  /\ \A n \in 1 .. Len(parsed) :
       parsed[n] = [at |-> instart + e[n - 1], length |-> path[n], dist |-> lendist[e[n]][2]]

ParseInv ==
  /\ index \in 0 .. BlockSize
  /\ path \in Seq(Nat) /\ parsed \in Seq(Symbol)
  /\ phase \in {"greedy", "forward", "trace"} => parsed = << >>
  /\ phase = "trace" => i = end
  /\ phase \in {"trace", "follow", "stored"} =>
       \E e : OnTheWay(e) /\ (phase # "trace" => Followed(e))
  /\ phase = "stored" => Len(parsed) = Len(path)

LEMMA StartTraceStep ==
  ASSUME IInv, PassInv, ParseInv, StartTrace PROVE ParseInv'
<1>1. /\ phase = "forward" /\ phase' = "trace" /\ i = end /\ i' = end /\ end' = end
      /\ index' = BlockSize /\ path' = << >> /\ parsed' = parsed
      /\ instart' = instart /\ lendist' = lendist /\ BlockSize' = BlockSize
  BY DEF StartTrace, input, BlockSize
<1>2. BlockSize \in Nat
  BY InputIs DEF PassInv
<1>3. PICK e : e = [n \in 0 .. 0 |-> BlockSize]
  OBVIOUS
<1>4. e \in [0 .. 0 -> 0 .. BlockSize] /\ e[0] = BlockSize
  BY <1>2, <1>3
<1>5. OnTheWay(e)'
  <2>1. Len(<< >>) = 0 /\ 1 .. 0 = {}
    OBVIOUS
  <2> QED  BY <1>1, <1>4, <2>1 DEF OnTheWay
<1>6. \E f : OnTheWay(f)'
  BY <1>5
<1>7. path' \in Seq(Nat)
  BY <1>1
<1> QED  BY <1>1, <1>2, <1>6, <1>7 DEF ParseInv

(* A step of TraceBackwards puts its symbol in front of the path.            *)
LEMMA TraceStep ==
  ASSUME IInv, PassInv, ParseInv, Trace PROVE ParseInv'
<1>1. /\ phase = "trace" /\ phase' = "trace" /\ index > 0
      /\ path' = <<lendist[index][1]>> \o path /\ index' = index - lendist[index][1]
      /\ parsed' = parsed /\ lendist' = lendist /\ i' = i /\ end' = end /\ BlockSize' = BlockSize
  BY DEF Trace, LastSymbol, input, BlockSize
<1>2. BlockSize \in Nat /\ index \in 1 .. BlockSize /\ path \in Seq(Nat)
  BY <1>1, InputIs DEF PassInv, ParseInv
<1>3. PICK e : OnTheWay(e)
  BY <1>1 DEF ParseInv
<1>4. PICK k \in 1 .. index, d \in 0 .. WindowSize - 1 : lendist[index] = <<k, d>>
  BY <1>1, <1>2, SymbolAt
<1>5. lendist[index][1] = k /\ k \in Nat
  BY <1>4
<1>6. PICK n \in Nat : n = Len(path)
  BY <1>2
<1> DEFINE after == <<k>> \o path
<1>7. /\ after \in Seq(Nat) /\ Len(after) = n + 1 /\ after[1] = k
      /\ \A m \in 2 .. n + 1 : after[m] = path[m - 1]
  <2>1. <<k>> \in Seq(Nat) /\ Len(<<k>>) = 1 /\ <<k>>[1] = k
    BY <1>5
  <2> QED  BY <1>2, <1>6, <2>1, ConcatProperties
<1>8. path' = after /\ index' = index - k /\ index - k \in 0 .. BlockSize
  BY <1>1, <1>2, <1>5
<1>9. /\ e \in [0 .. n -> 0 .. BlockSize] /\ e[0] = index /\ e[n] = BlockSize
      /\ \A m \in 1 .. n : e[m] > 0 /\ path[m] = lendist[e[m]][1] /\ e[m - 1] = e[m] - path[m]
  BY <1>3, <1>6 DEF OnTheWay
<1>10. PICK f : f = [m \in 0 .. n + 1 |-> IF m = 0 THEN index - k ELSE e[m - 1]]
  OBVIOUS
<1>11. /\ f \in [0 .. n + 1 -> 0 .. BlockSize] /\ f[0] = index - k
       /\ \A m \in 1 .. n + 1 : f[m] = e[m - 1]
  <2>1. \A m \in 0 .. n + 1 : m = 0 \/ m - 1 \in 0 .. n
    OBVIOUS
  <2> QED  BY <1>8, <1>9, <1>10, <2>1
<1> HIDE DEF after
<1>12. f[n + 1] = BlockSize
  <2>1. n + 1 \in 1 .. n + 1 /\ n + 1 - 1 = n
    OBVIOUS
  <2> QED  BY <1>9, <1>11, <2>1
<1>13. \A m \in 1 .. n + 1 :
         f[m] > 0 /\ after[m] = lendist[f[m]][1] /\ f[m - 1] = f[m] - after[m]
  <2> TAKE m \in 1 .. n + 1
  <2>1. CASE m = 1
    BY <1>2, <1>5, <1>7, <1>9, <1>11, <2>1
  <2>2. CASE m # 1
    <3>1. m \in 2 .. n + 1 /\ m - 1 \in 1 .. n /\ m - 1 \in 1 .. n + 1
      BY <2>2
    <3>2. f[m] = e[m - 1] /\ f[m - 1] = e[m - 1 - 1] /\ after[m] = path[m - 1]
      BY <1>7, <1>11, <3>1
    <3> QED  BY <1>9, <3>1, <3>2
  <2> QED  BY <2>1, <2>2
<1>14. OnTheWay(f)'
  <2>1. Len(path') = n + 1
    BY <1>7, <1>8
  <2>2. /\ f \in [0 .. Len(path') -> 0 .. BlockSize']
        /\ f[0] = index' /\ f[Len(path')] = BlockSize'
    BY <1>1, <1>8, <1>11, <1>12, <2>1
  <2>3. \A m \in 1 .. Len(path') :
          f[m] > 0 /\ path'[m] = lendist'[f[m]][1] /\ f[m - 1] = f[m] - path'[m]
    BY <1>1, <1>8, <1>13, <2>1
  <2> QED  BY <2>2, <2>3 DEF OnTheWay
<1>15. \E g : OnTheWay(g)'
  BY <1>14
<1>16. path' \in Seq(Nat) /\ index' \in 0 .. BlockSize'
  BY <1>1, <1>7, <1>8
<1> QED  BY <1>1, <1>15, <1>16 DEF ParseInv

(* FollowPath starts where TraceBackwards ended.                             *)
LEMMA StartFollowStep ==
  ASSUME IInv, PassInv, ParseInv, StartFollow PROVE ParseInv'
<1>1. /\ phase = "trace" /\ phase' = "follow" /\ index = 0 /\ i' = instart
      /\ index' = index /\ path' = path /\ parsed' = parsed /\ lendist' = lendist
      /\ instart' = instart /\ end' = end /\ BlockSize' = BlockSize /\ parsed = << >>
  BY DEF StartFollow, input, BlockSize, ParseInv
<1>2. instart \in Nat /\ path \in Seq(Nat) /\ Len(path) \in Nat
  BY InputIs DEF PassInv, ParseInv
<1>3. PICK e : OnTheWay(e)
  BY <1>1 DEF ParseInv
<1>4. OnTheWay(e)'
  BY <1>1, <1>3 DEF OnTheWay
<1>5. Followed(e)'
  <2>1. Len(<< >>) = 0 /\ 1 .. 0 = {} /\ e[0] = 0
    BY <1>1, <1>3 DEF OnTheWay
  <2>2. instart = instart + 0
    BY <1>2
  <2> QED  BY <1>1, <1>2, <2>1, <2>2 DEF Followed
<1>6. \E g : OnTheWay(g)' /\ Followed(g)'
  BY <1>4, <1>5
<1> QED  BY <1>1, <1>6 DEF ParseInv

(* A step of FollowPath comes to the index where the symbol of the path ends.*)
LEMMA FollowStep ==
  ASSUME IInv, PassInv, ParseInv, Follow PROVE ParseInv'
<1> DEFINE n == Len(parsed) + 1
<1>1. /\ phase = "follow" /\ phase' = "follow" /\ Len(parsed) < Len(path)
      /\ index' = index /\ path' = path /\ lendist' = lendist /\ instart' = instart
      /\ end' = end /\ BlockSize' = BlockSize
  BY DEF Follow, input, BlockSize
<1>2. /\ instart \in Nat /\ BlockSize \in Nat /\ path \in Seq(Nat) /\ parsed \in Seq(Symbol)
      /\ Len(path) \in Nat /\ Len(parsed) \in Nat
  BY InputIs DEF PassInv, ParseInv
<1>3. PICK e : OnTheWay(e) /\ Followed(e)
  BY <1>1 DEF ParseInv
<1>4. n \in 1 .. Len(path) /\ n \in Nat /\ n - 1 = Len(parsed) /\ n \in 0 .. Len(path)
      /\ n - 1 \in 0 .. Len(path)
  BY <1>1, <1>2
<1>5. /\ e[n] \in 1 .. BlockSize /\ path[n] = lendist[e[n]][1]
      /\ e[n - 1] = e[n] - path[n] /\ e[n - 1] \in 0 .. BlockSize
  <2>1. e[n] \in 0 .. BlockSize /\ e[n] > 0
    BY <1>3, <1>4 DEF OnTheWay
  <2>2. e[n] \in 1 .. BlockSize
    BY <1>2, <2>1
  <2> QED  BY <1>3, <1>4, <2>2 DEF OnTheWay
<1>6. PICK k \in 1 .. e[n], d \in 0 .. WindowSize - 1 :
        lendist[e[n]] = <<k, d>> /\ (d = 0 => k = 1) /\ (d # 0 => k >= 3)
  <2>1. PICK t \in 1 .. BlockSize : t = e[n]
    BY <1>5
  <2>2. phase \notin {"greedy", "forward"}
    BY <1>1
  <2>3. PICK k \in 1 .. t, d \in 0 .. WindowSize - 1 :
          lendist[t] = <<k, d>> /\ IF d = 0 THEN k = 1 ELSE k >= 3
    BY <2>2, SymbolAt
  <2> QED  BY <2>1, <2>3
<1>7. /\ path[n] = k /\ k \in Nat /\ d \in Nat /\ lendist[e[n]][2] = d
      /\ k >= 3 <=> d # 0
  BY <1>5, <1>6, SqueezeAssumption
<1>8. i = instart + e[n - 1] /\ Index(i) + k = e[n] /\ i + k = instart + e[n] /\ i \in Nat
  <2>1. i = instart + e[n - 1]
    BY <1>3, <1>4 DEF Followed
  <2>2. PICK u \in 0 .. BlockSize, w \in 1 .. BlockSize : u = e[n - 1] /\ w = e[n]
    BY <1>5
  <2>3. u = w - k
    BY <1>5, <1>7, <2>2
  <2>4. i = instart + u
    BY <2>1, <2>2
  <2>5. Index(i) + k = w /\ i + k = instart + w /\ i \in Nat
    BY <1>2, <1>7, <2>3, <2>4 DEF Index
  <2> QED  BY <2>1, <2>2, <2>5
<1> DEFINE s == [at |-> i, length |-> k, dist |-> d]
<1>9. parsed' = Append(parsed, s) /\ i' = i + k
  <2>1. CASE k >= 3
    BY <1>7, <1>8, <2>1, SqueezeAssumption DEF Follow, StoredDist
  <2>2. CASE ~ (k >= 3)
    <3>1. k = 1 /\ d = 0
      BY <1>6, <1>7, <2>2
    <3> QED  BY <1>7, <2>2, <3>1, SqueezeAssumption DEF Follow
  <2> QED  BY <2>1, <2>2
<1>10. s \in Symbol
  BY <1>7, <1>8 DEF Symbol
<1> HIDE DEF n
<1>11. s = [at |-> instart + e[n - 1], length |-> path[n], dist |-> lendist[e[n]][2]]
  BY <1>7, <1>8
<1> HIDE DEF s
<1>12. /\ parsed' \in Seq(Symbol) /\ Len(parsed') = n /\ parsed'[n] = s
       /\ \A m \in 1 .. n - 1 : parsed'[m] = parsed[m]
  <2>1. n = Len(parsed) + 1
    BY DEF n
  <2> QED  BY <1>2, <1>9, <1>10, <2>1
<1>13. Followed(e)'
  <2>1. \A m \in 1 .. n :
          parsed'[m] = [at |-> instart + e[m - 1], length |-> path[m], dist |-> lendist[e[m]][2]]
    <3> TAKE m \in 1 .. n
    <3>1. CASE m = n
      BY <1>11, <1>12, <3>1
    <3>2. CASE m # n
      <4>1. m \in 1 .. n - 1
        BY <1>4, <3>2
      <4> QED  BY <1>3, <1>4, <1>12, <4>1 DEF Followed
    <3> QED  BY <3>1, <3>2
  <2>2. i' = instart + e[n]
    BY <1>8, <1>9
  <2>3. n <= Len(path) /\ index = 0
    BY <1>3, <1>4 DEF Followed
  <2> QED  BY <1>1, <1>12, <2>1, <2>2, <2>3 DEF Followed
<1>14. OnTheWay(e)'
  BY <1>1, <1>3 DEF OnTheWay
<1>15. \E g : OnTheWay(g)' /\ Followed(g)'
  BY <1>13, <1>14
<1> QED  BY <1>1, <1>12, <1>15 DEF ParseInv

LEMMA ParseInitially == Init => ParseInv
<1> SUFFICES ASSUME Init PROVE ParseInv
  OBVIOUS
<1>1. BlockSize \in Nat
  BY PassInitially, InputIs DEF PassInv
<1> QED  BY <1>1 DEF Init, ParseInv

(* A new pass, and the steps of the greedy run and of a pass.                *)
LEMMA NotParsedYet ==
  ASSUME ParseInv, BlockSize' = BlockSize, index' = index,
         phase' \in {"greedy", "forward"}, parsed' = << >>,
         path' = path \/ path' = << >>
  PROVE  ParseInv'
<1>1. path \in Seq(Nat) /\ << >> \in Seq(Nat)
  BY DEF ParseInv
<1>2. path' \in Seq(Nat)
  BY <1>1
<1> QED  BY <1>2 DEF ParseInv

LEMMA ParseStays ==
  ASSUME ParseInv, UNCHANGED <<instart, end, i, lendist, index, path, parsed>>,
         \/ phase' = phase
         \/ phase = "follow" /\ phase' = "stored" /\ Len(parsed) = Len(path)
  PROVE  ParseInv'
<1>1. BlockSize' = BlockSize
  BY DEF BlockSize
<1>2. \A e : OnTheWay(e)' <=> OnTheWay(e)
  BY <1>1 DEF OnTheWay
<1>3. \A e : Followed(e)' <=> Followed(e)
  BY DEF Followed
<1> QED  BY <1>1, <1>2, <1>3 DEF ParseInv

LEMMA ParseStep ==
  ASSUME IInv, PassInv, ParseInv, [Next]_squeezeVars PROVE ParseInv'
<1>1. CASE Greedy \/ Forward
  <2>1. /\ phase' \in {"greedy", "forward"} /\ phase \in {"greedy", "forward"}
        /\ UNCHANGED <<instart, end, index, path, parsed>>
    BY <1>1 DEF Greedy, Forward, input
  <2>2. parsed' = << >> /\ BlockSize' = BlockSize
    BY <2>1 DEF ParseInv, BlockSize
  <2> QED  BY <2>1, <2>2, NotParsedYet
<1>2. CASE (\E model \in CostModels : FirstIteration(model))
           \/ (\E model \in CostModels : NextIteration(model))
  <2>1. /\ phase' = "forward" /\ path' = << >> /\ parsed' = << >>
        /\ UNCHANGED <<instart, end, index>>
    BY <1>2 DEF FirstIteration, NextIteration, StartPass, input
  <2>2. BlockSize' = BlockSize
    BY <2>1 DEF BlockSize
  <2> QED  BY <2>1, <2>2, NotParsedYet
<1>3. CASE StartTrace
  BY <1>3, StartTraceStep
<1>4. CASE Trace
  BY <1>4, TraceStep
<1>5. CASE StartFollow
  BY <1>5, StartFollowStep
<1>6. CASE Follow
  BY <1>6, FollowStep
<1>7. CASE Stored
  <2>1. /\ phase = "follow" /\ phase' = "stored" /\ Len(parsed) = Len(path)
        /\ UNCHANGED <<instart, end, i, lendist, index, path, parsed>>
    BY <1>7 DEF Stored, input
  <2> QED  BY <2>1, ParseStays
<1>8. CASE UNCHANGED squeezeVars
  <2>1. phase' = phase /\ UNCHANGED <<instart, end, i, lendist, index, path, parsed>>
    BY <1>8 DEF squeezeVars, input
  <2> QED  BY <2>1, ParseStays
<1> QED  BY <1>1, <1>2, <1>3, <1>4, <1>5, <1>6, <1>7, <1>8 DEF Next, Finished

(* TraceBackwards and FollowPath walk one and the same way, from the end of  *)
(* the block to its start and back, and store the symbols they meet on it.   *)
THEOREM ParseInvariant == Spec => []ParseInv
<1>1. IInv /\ PassInv /\ ParseInv /\ [Next]_squeezeVars => ParseInv'
  BY ParseStep
<1> QED  BY ParseInitially, <1>1, Invariant, PassInvariant, PTL DEF Spec

-----------------------------------------------------------------------------
(* What the invariants of the passes and of the way back say of the types.   *)
LEMMA TypesHold ==
  ASSUME IInv, PassInv, ParseInv PROVE TypeOK
<1>1. /\ InputFits /\ instart \in Nat /\ end \in Nat /\ BlockSize \in Nat /\ instart < end
      /\ instart + BlockSize = end /\ Sentinel \in Nat /\ Sentinel # 0
  BY InputIs, SqueezeAssumption DEF PassInv
<1>2. lmc # NoCache => DOMAIN lmc.length = Block
  BY DEF PassInv, CacheHolds
<1>3. i \in instart .. end
  <2>1. CASE phase \in {"greedy", "forward"}
    BY <2>1 DEF IInv
  <2>2. CASE phase = "trace"
    BY <1>1, <2>2 DEF ParseInv
  <2>3. CASE phase \in {"follow", "stored"}
    <3>1. PICK e : OnTheWay(e) /\ Followed(e)
      BY <2>3 DEF ParseInv
    <3>2. Len(parsed) \in 0 .. Len(path)
      BY <3>1 DEF Followed, ParseInv
    <3>3. PICK u \in 0 .. BlockSize : u = e[Len(parsed)]
      BY <3>1, <3>2 DEF OnTheWay
    <3>4. i = instart + u
      BY <3>1, <3>3 DEF Followed
    <3> QED  BY <1>1, <3>3, <3>4
  <2> QED  BY <2>1, <2>2, <2>3 DEF IInv
<1>4. /\ costs \in [0 .. BlockSize -> 0 .. Sentinel]
      /\ lendist \in [0 .. BlockSize -> (0 .. MaxMatch) \X (0 .. WindowSize - 1)]
  <2>1. CASE phase = "greedy"
    <3>1. /\ costs = [t \in 0 .. BlockSize |-> IF t = 0 THEN 0 ELSE Sentinel]
          /\ lendist = [t \in 0 .. BlockSize |-> <<0, 0>>]
      BY <2>1 DEF PassInv, Unreached, NoSymbols
    <3> QED  BY <1>1, <3>1, SqueezeAssumption
  <2>2. CASE phase # "greedy"
    BY <2>2 DEF PassInv, Paths
  <2> QED  BY <2>1, <2>2
<1>5. ASSUME phase = "trace", index > 0 PROVE LastSymbol(index)[1] \in 1 .. index
  <2>1. index \in 1 .. BlockSize /\ phase \notin {"greedy", "forward"}
    BY <1>1, <1>5 DEF ParseInv
  <2>2. PICK k \in 1 .. index, d \in 0 .. WindowSize - 1 : lendist[index] = <<k, d>>
    BY <2>1, SymbolAt
  <2> QED  BY <2>2 DEF LastSymbol
<1>6. ASSUME phase # "greedy", NEW t \in 0 .. BlockSize,
             t <= Index(i) \/ phase # "forward"
      PROVE  costs[t] < Sentinel
  <2>1. t <= Frontier
    BY <1>1, <1>6 DEF Frontier
  <2>2. costs[t] # Sentinel
    BY <1>6, <2>1 DEF PassInv, Reached
  <2> QED  BY <1>1, <1>4, <2>2
<1> QED  BY <1>2, <1>3, <1>4, <1>5, <1>6 DEF TypeOK, IInv, PassInv, ParseInv

(* The assertions of TraceBackwards and FollowPath (squeeze.c:418-420 and    *)
(* 449-458) hold, and a pass never goes on from an index that it has not     *)
(* reached, for all blocks, cost models and caches.                          *)
THEOREM SqueezeTypes == Spec => []TypeOK
<1>1. IInv /\ PassInv /\ ParseInv => TypeOK
  BY TypesHold
<1> QED  BY Invariant, PassInvariant, ParseInvariant, <1>1, PTL

(* Along the path, what has been spent is the cost of the index.             *)
LEMMA SpentIs ==
  ASSUME PassInv, ParseInv, phase = "stored"
  PROVE  Spent = costs[BlockSize]
<1>1. /\ instart \in Nat /\ BlockSize \in Nat /\ path \in Seq(Nat) /\ Len(path) \in Nat
      /\ Len(parsed) = Len(path) /\ costs[0] = 0
  BY InputIs DEF PassInv, ParseInv, Paths
<1>2. PICK e : OnTheWay(e) /\ Followed(e)
  BY DEF ParseInv
<1>3. PICK last \in Nat : last = Len(path)
  BY <1>1
<1> DEFINE More(u, n) == u + SymbolCost(parsed[n])
           w == [n \in 0 .. last |-> costs[e[n]]]
           Is(f) == f = [n \in 0 .. last |-> IF n = 0 THEN 0 ELSE More(f[n - 1], n)]
           upTo == CHOOSE f : Is(f)
<1>4. /\ e[0] = 0 /\ e[last] = BlockSize
      /\ \A n \in 1 .. last :
           /\ e[n] \in 1 .. BlockSize /\ path[n] = lendist[e[n]][1] /\ e[n - 1] = e[n] - path[n]
           /\ parsed[n] = [at |-> instart + e[n - 1], length |-> path[n],
                           dist |-> lendist[e[n]][2]]
  <2>1. \A n \in 1 .. last : e[n] \in 1 .. BlockSize
    <3> TAKE n \in 1 .. last
    <3>1. e[n] \in 0 .. BlockSize /\ e[n] > 0
      BY <1>2, <1>3 DEF OnTheWay
    <3> QED  BY <1>1, <3>1
  <2> QED  BY <1>1, <1>2, <1>3, <2>1 DEF OnTheWay, Followed
<1>5. ASSUME NEW n \in 1 .. last PROVE costs[e[n]] = More(costs[e[n - 1]], n)
  <2>1. PICK t \in 1 .. BlockSize : t = e[n]
    BY <1>4
  <2>2. PICK k \in 1 .. t, d \in 0 .. WindowSize - 1 :
          /\ lendist[t] = <<k, d>>
          /\ costs[t] = costs[t - k] + (IF d = 0 THEN cost.lit[array[instart + t - k]]
                                        ELSE MatchCost(k, d))
    BY <2>1, SymbolAt
  <2>3. path[n] = k /\ lendist[e[n]][2] = d /\ e[n - 1] = t - k
    <3>1. path[n] = lendist[t][1] /\ e[n - 1] = t - path[n]
      BY <1>4, <2>1
    <3>2. lendist[t][1] = k /\ lendist[t][2] = d
      BY <2>2
    <3> QED  BY <2>1, <3>1, <3>2
  <2>4. parsed[n] = [at |-> instart + (t - k), length |-> k, dist |-> d]
    BY <1>4, <2>3
  <2>5. instart + (t - k) = instart + t - k
    BY <1>1, <2>1
  <2>6. SymbolCost(parsed[n]) = IF d = 0 THEN cost.lit[array[instart + t - k]]
                                ELSE MatchCost(k, d)
    BY <2>4, <2>5 DEF SymbolCost
  <2> QED  BY <2>1, <2>2, <2>3, <2>6
<1> HIDE DEF More
<1>6. w[0] = 0 /\ w[last] = costs[BlockSize] /\ \A n \in 1 .. last : w[n] = More(w[n - 1], n)
  <2>1. 0 \in 0 .. last /\ last \in 0 .. last
        /\ \A n \in 1 .. last : n \in 0 .. last /\ n - 1 \in 0 .. last
    OBVIOUS
  <2> QED  BY <1>1, <1>4, <1>5, <2>1
<1>7. w = [n \in 0 .. last |-> w[n]]
  OBVIOUS
<1> HIDE DEF w
<1>8. Is(w)
  <2>1. \A n \in 0 .. last : w[n] = IF n = 0 THEN 0 ELSE More(w[n - 1], n)
    <3> TAKE n \in 0 .. last
    <3>1. CASE n = 0
      BY <1>6, <3>1
    <3>2. CASE n # 0
      <4>1. n \in 1 .. last
        BY <3>2
      <4> QED  BY <1>6, <3>2, <4>1
    <3> QED  BY <3>1, <3>2
  <2> QED  BY <1>7, <2>1
<1>9. Spent = upTo[last]
  BY <1>1, <1>3 DEF Spent, More
<1>10. Is(upTo)
  <2> HIDE DEF Is
  <2> QED  BY <1>8
<1> HIDE DEF upTo
<1> DEFINE T == {n \in Nat : n <= last => upTo[n] = w[n]}
<1>11. 0 \in T
  <2>1. 0 \in 0 .. last
    OBVIOUS
  <2> QED  BY <1>6, <1>10, <2>1
<1>12. ASSUME NEW n \in T PROVE n + 1 \in T
  <2> SUFFICES ASSUME n + 1 <= last PROVE upTo[n + 1] = w[n + 1]
    OBVIOUS
  <2>1. n + 1 \in 1 .. last /\ n + 1 \in 0 .. last /\ n + 1 # 0 /\ (n + 1) - 1 = n /\ n <= last
    OBVIOUS
  <2>2. upTo[n] = w[n]
    BY <2>1
  <2>3. upTo[n + 1] = More(upTo[n], n + 1)
    BY <1>10, <2>1
  <2>4. w[n + 1] = More(w[n], n + 1)
    BY <1>6, <2>1
  <2> QED  BY <2>2, <2>3, <2>4
<1>13. T \in SUBSET Nat
  OBVIOUS
<1>14. upTo[last] = w[last]
  <2> HIDE DEF T
  <2>1. T = Nat
    BY <1>11, <1>12, <1>13, NaturalsByStep
  <2>2. last \in T
    BY <2>1
  <2> QED  BY <2>2 DEF T
<1> QED  BY <1>6, <1>9, <1>14

(* The symbols of the store, one by one.                                     *)
LEMMA PromiseKept ==
  ASSUME PassInv, ParseInv PROVE ParseKeepsPromise
<1> SUFFICES ASSUME phase = "stored" PROVE ParseKeepsPromise
  BY DEF ParseKeepsPromise
<1>1. /\ instart \in Nat /\ end \in Nat /\ BlockSize \in Nat /\ instart + BlockSize = end
      /\ path \in Seq(Nat) /\ Len(path) \in Nat /\ Len(parsed) = Len(path)
  BY InputIs DEF PassInv, ParseInv
<1>2. PICK e : OnTheWay(e) /\ Followed(e)
  BY DEF ParseInv
<1>3. i = end
  BY <1>1, <1>2 DEF OnTheWay, Followed
<1>4. ASSUME NEW n \in 1 .. Len(parsed)
      PROVE  /\ parsed[n].at = IF n = 1 THEN instart
                               ELSE parsed[n - 1].at + parsed[n - 1].length
             /\ parsed[n].dist # 0 =>
                  parsed[n].dist \in Reaching(parsed[n].at, parsed[n].length)
             /\ parsed[n].dist = 0 => parsed[n].length = 1
  <2>1. n \in 1 .. Len(path) /\ n \in 0 .. Len(path) /\ n - 1 \in 0 .. Len(path)
    BY <1>1
  <2>2. PICK t \in 1 .. BlockSize : t = e[n]
    <3>1. e[n] \in 0 .. BlockSize /\ e[n] > 0
      BY <1>2, <2>1 DEF OnTheWay
    <3> QED  BY <1>1, <3>1
  <2>3. PICK k \in 1 .. t, d \in 0 .. WindowSize - 1 :
          /\ lendist[t] = <<k, d>>
          /\ IF d = 0 THEN k = 1 ELSE k >= 3 /\ d \in Reaching(instart + t - k, k)
    BY SymbolAt
  <2>4. path[n] = k /\ lendist[e[n]][2] = d /\ e[n - 1] = t - k
    BY <1>2, <2>1, <2>2, <2>3 DEF OnTheWay
  <2>5. parsed[n] = [at |-> instart + (t - k), length |-> k, dist |-> d]
    BY <1>2, <2>4 DEF Followed
  <2>6. instart + (t - k) = instart + t - k
    BY <1>1, <2>2
  <2>7. parsed[n].at = IF n = 1 THEN instart ELSE parsed[n - 1].at + parsed[n - 1].length
    <3>1. CASE n = 1
      <4>1. e[0] = 0
        BY <1>2 DEF OnTheWay, Followed
      <4>2. t - k = 0
        BY <2>4, <3>1, <4>1
      <4> QED  BY <1>1, <2>5, <3>1, <4>2
    <3>2. CASE n # 1
      <4> DEFINE m == n - 1
      <4>1. m \in 1 .. Len(parsed) /\ m \in 1 .. Len(path) /\ m - 1 \in 0 .. Len(path)
        BY <1>1, <2>1, <3>2
      <4> HIDE DEF m
      <4>2. parsed[m] = [at |-> instart + e[m - 1], length |-> path[m],
                         dist |-> lendist[e[m]][2]]
        BY <1>2, <4>1 DEF Followed
      <4>3. e[m - 1] = e[m] - path[m] /\ e[m - 1] \in 0 .. BlockSize /\ path[m] \in Nat
        <5>1. e[m - 1] = e[m] - path[m]
          BY <1>2, <4>1 DEF OnTheWay
        <5>2. e[m - 1] \in 0 .. BlockSize
          BY <1>2, <4>1 DEF OnTheWay
        <5>3. path[m] \in Nat
          BY <1>1, <4>1
        <5> QED  BY <5>1, <5>2, <5>3
      <4>4. e[m] = t - k
        BY <2>4 DEF m
      <4>5. PICK u \in 0 .. BlockSize, l \in Nat : u = e[m - 1] /\ l = path[m]
        BY <4>3
      <4>6. u = (t - k) - l
        BY <4>3, <4>4, <4>5
      <4>7. instart + (t - k) = (instart + u) + l
        <5>1. instart \in Nat /\ u \in Nat /\ t \in Nat /\ k \in Nat
          BY <1>1
        <5> QED  BY ONLY <4>6, <5>1, l \in Nat
      <4>8. parsed[m].at + parsed[m].length = instart + (t - k)
        BY <4>2, <4>5, <4>7
      <4> QED  BY <2>5, <3>2, <4>8 DEF m
    <3> QED  BY <3>1, <3>2
  <2>8. /\ parsed[n].at = instart + t - k /\ parsed[n].length = k /\ parsed[n].dist = d
    BY <2>5, <2>6
  <2> QED  BY <2>3, <2>7, <2>8
<1>5. Spent = costs[BlockSize]
  BY SpentIs
<1> QED  BY <1>3, <1>4, <1>5 DEF ParseKeepsPromise

(* What is stored for a block covers it with literals and true matches, and  *)
(* costs exactly what the pass found to be the cost of the block: for all    *)
(* blocks, cost models, caches and repetitions that were left out.           *)
THEOREM StoreKeepsPromise == Spec => []ParseKeepsPromise
<1>1. PassInv /\ ParseInv => ParseKeepsPromise
  BY PromiseKept
<1> QED  BY PassInvariant, ParseInvariant, <1>1, PTL

-----------------------------------------------------------------------------
(* The iterations (SqueezeIterations): whatever the passes find, however     *)
(* many there are and however their statistics are perturbed, the parse kept *)
(* is the smallest of all.                                                   *)

(* A size taken over is the size of the parse before, which is why a parse   *)
(* that repeats it need not be measured.                                     *)
SizeIsOfLast ==
  round > 0 => hist \in made /\ lastcost = EncodedSize(hist)

BestIsKept ==
  IF round = 0 THEN made = {} /\ bestcost = LargestCost
  ELSE kept \in made /\ bestcost = EncodedSize(kept)

IterationsInv ==
  /\ round \in Nat /\ numiterations \in Int /\ numiterations > 0
  /\ made \subseteq Parses
  /\ SizeIsOfLast
  /\ BestIsKept
  /\ \A p \in made : bestcost <= EncodedSize(p)

-----------------------------------------------------------------------------

LEMMA AtLeastOne == \A n \in Int : Max({n, 1}) \in Int /\ Max({n, 1}) > 0
<1> SUFFICES ASSUME NEW n \in Int PROVE Max({n, 1}) \in Int /\ Max({n, 1}) > 0
  OBVIOUS
<1>1. \E x \in {n, 1} : \A y \in {n, 1} : x >= y
  BY SMT
<1>2. Max({n, 1}) \in {n, 1} /\ \A y \in {n, 1} : Max({n, 1}) >= y
  BY <1>1 DEF Max
<1> QED BY <1>2

LEMMA InitiallyIterations == InitIterations => IterationsInv
<1> SUFFICES ASSUME InitIterations PROVE IterationsInv
  OBVIOUS
<1>1. numiterations \in Int /\ numiterations > 0
  BY AtLeastOne, IterationsAssumption DEF InitIterations
<1> QED BY <1>1 DEF InitIterations, IterationsInv, SizeIsOfLast, BestIsKept

(* The cost of a parse is its size, computed or taken over.                  *)
LEMMA CostIsSize ==
  ASSUME IterationsInv, NEW p \in Parses
  PROVE  /\ CostOf(p) = EncodedSize(p)
         /\ CostOf(p) \in Nat
         /\ CostOf(p) < LargestCost
BY IterationsAssumption DEF IterationsInv, SizeIsOfLast, CostOf, Repeated

LEMMA IterationStep ==
  ASSUME IterationsInv, NEW p \in Parses, Iteration(p) PROVE IterationsInv'
<1> DEFINE size == CostOf(p)
<1>1. size = EncodedSize(p) /\ size \in Nat /\ size < LargestCost
  BY CostIsSize
<1>2. /\ round' = round + 1 /\ made' = made \cup {p} /\ hist' = p /\ lastcost' = size
      /\ numiterations' = numiterations
      /\ IF size < bestcost THEN kept' = p /\ bestcost' = size
         ELSE kept' = kept /\ bestcost' = bestcost
  BY DEF Iteration
<1> HIDE DEF size
<1>3. round' \in Nat /\ round' > 0 /\ numiterations' \in Int /\ numiterations' > 0
  BY <1>2 DEF IterationsInv
<1>4. made' \subseteq Parses /\ SizeIsOfLast'
  BY <1>1, <1>2 DEF IterationsInv, SizeIsOfLast
<1>5. BestIsKept' /\ \A q \in made' : bestcost' <= EncodedSize(q)
  <2>1. CASE size < bestcost
    <3>1. kept' = p /\ bestcost' = size
      BY <1>2, <2>1
    <3>2. BestIsKept'
      BY <1>1, <1>2, <1>3, <3>1 DEF BestIsKept
    <3>3. ASSUME NEW q \in made PROVE size <= EncodedSize(q)
      <4>1. bestcost <= EncodedSize(q) /\ EncodedSize(q) \in Nat /\ round # 0
        BY <3>3, IterationsAssumption DEF IterationsInv, BestIsKept
      <4>2. bestcost \in Nat
        BY <4>1, IterationsAssumption DEF IterationsInv, BestIsKept
      <4> QED BY <1>1, <2>1, <4>1, <4>2
    <3> QED BY <1>1, <1>2, <3>1, <3>2, <3>3
  <2>2. CASE ~ (size < bestcost)
    <3>1. kept' = kept /\ bestcost' = bestcost
      BY <1>2, <2>2
    <3>2. round # 0
      BY <1>1, <2>2 DEF IterationsInv, BestIsKept
    <3>3. kept \in made /\ bestcost = EncodedSize(kept) /\ bestcost \in Nat
      BY <3>2, IterationsAssumption DEF IterationsInv, BestIsKept
    <3>4. BestIsKept'
      BY <1>2, <1>3, <3>1, <3>3 DEF BestIsKept
    <3>5. bestcost <= EncodedSize(p)
      BY <1>1, <2>2, <3>3
    <3> QED BY <1>2, <3>1, <3>4, <3>5 DEF IterationsInv
  <2> QED BY <2>1, <2>2
<1> QED BY <1>3, <1>4, <1>5 DEF IterationsInv

-----------------------------------------------------------------------------
(* ZopfliLZ77Optimal (squeeze.c:542-656): the size taken over is that of the *)
(* last parse, and the best size that of the parse kept.                     *)
THEOREM IterationsInvariant == IterationsSpec => []IterationsInv
<1>1. IterationsInv /\ [IterationsNext]_iterationVars => IterationsInv'
  <2> SUFFICES ASSUME IterationsInv, [IterationsNext]_iterationVars PROVE IterationsInv'
    OBVIOUS
  <2>1. CASE \E p \in Parses : Iteration(p)
    BY <2>1, IterationStep
  <2>2. CASE UNCHANGED iterationVars
    BY <2>2 DEF iterationVars, IterationsInv, SizeIsOfLast, BestIsKept
  <2> QED BY <2>1, <2>2 DEF IterationsNext, IterationsDone
<1> QED BY InitiallyIterations, <1>1, PTL DEF IterationsSpec

(* ZopfliLZ77Optimal (squeeze.c:606-631): of all parses made, a smallest one *)
(* is kept, and at least one is made, however few were asked for.            *)
THEOREM SmallestIsKept == IterationsSpec => []KeepsBest
<1>1. IterationsInv => KeepsBest
  <2> SUFFICES ASSUME IterationsInv PROVE KeepsBest
    OBVIOUS
  <2>1. CASE round = 0
    BY <2>1 DEF IterationsInv, BestIsKept, KeepsBest
  <2>2. CASE round # 0
    BY <2>2 DEF IterationsInv, BestIsKept, KeepsBest
  <2> QED BY <2>1, <2>2
<1> QED BY IterationsInvariant, <1>1, PTL

-----------------------------------------------------------------------------
(* The costs the iterations give a pass (Statistics): the logarithm they are *)
(* made of is monotonic and bounded, and blending and perturbing keep the    *)
(* frequencies within twice those of a block.                                *)

(* Powers of two.                                                            *)
LEMMA TwoToIs ==
  /\ TwoTo[0] = 1
  /\ \A n \in Nat : TwoTo[n] \in Nat \ {0} /\ TwoTo[n + 1] = 2 * TwoTo[n]
<1> DEFINE S == Nat \ {0}
           step == [z \in (Nat \ {0}) \X S |-> 2 * z[2]]
           Is(f) == f = [n \in Nat |-> IF n = 0 THEN 1 ELSE 2 * f[n - 1]]
           power == CHOOSE f : Is(f)
<1>1. \A n \in Nat \ {0}, x \in S : step[<<n, x>>] = 2 * x /\ 2 * x \in S
  OBVIOUS
<1>2. \E f : Is(f) /\ \A n \in Nat : f[n] \in S
  <2>1. 1 \in S /\ \A n \in Nat \ {0}, x \in S : step[<<n, x>>] \in S
    BY <1>1
  <2> HIDE DEF S, step
  <2>2. PICK f : /\ f = [n \in Nat |-> IF n = 0 THEN 1 ELSE step[<<n, f[n - 1]>>]]
                 /\ \A n \in Nat : f[n] \in S
    BY <2>1, StepsOnAll
  <2>3. ASSUME NEW n \in Nat
        PROVE  (IF n = 0 THEN 1 ELSE step[<<n, f[n - 1]>>]) = IF n = 0 THEN 1 ELSE 2 * f[n - 1]
    <3>1. CASE n # 0
      <4>1. n \in Nat \ {0} /\ n - 1 \in Nat
        BY <3>1
      <4>2. f[n - 1] \in S
        BY <2>2, <4>1
      <4> QED  BY <1>1, <3>1, <4>1, <4>2
    <3> QED  BY <3>1
  <2>4. Is(f)
    BY <2>2, <2>3
  <2> HIDE DEF Is
  <2> QED  BY <2>2, <2>4
<1>3. TwoTo = power
  BY DEF TwoTo
<1>4. Is(power)
  BY <1>2
<1> HIDE DEF power
<1>5. \A n \in Nat : power[n] = IF n = 0 THEN 1 ELSE 2 * power[n - 1]
  BY <1>4
<1>6. power[0] = 1 /\ \A n \in Nat : power[n + 1] = 2 * power[n]
  <2>1. power[0] = 1
    BY <1>5
  <2>2. ASSUME NEW n \in Nat PROVE power[n + 1] = 2 * power[n]
    <3>1. n + 1 \in Nat /\ n + 1 # 0 /\ (n + 1) - 1 = n
      OBVIOUS
    <3> QED  BY <1>5, <3>1
  <2> QED  BY <2>1, <2>2
<1>7. ASSUME NEW m \in Nat PROVE power[m] \in S
  <2> DEFINE T == {n \in 0 .. m : power[n] \in S}
  <2>1. 0 \in T
    BY <1>6
  <2>2. ASSUME NEW n \in 0 .. m - 1, n \in T PROVE n + 1 \in T
    <3>1. n + 1 \in 0 .. m /\ n \in Nat /\ power[n] \in S
      BY <2>2
    <3>2. power[n + 1] \in S
      BY <1>6, <3>1
    <3> QED  BY <3>1, <3>2
  <2> HIDE DEF T
  <2>3. \A n \in 0 .. m : n \in T
    BY <2>1, <2>2, UpTo
  <2> QED  BY <2>3 DEF T
<1> QED  BY <1>3, <1>6, <1>7

LEMMA TwoToAdds ==
  ASSUME NEW a \in Nat, NEW b \in Nat
  PROVE  TwoTo[a + b] = TwoTo[a] * TwoTo[b]
<1> DEFINE T == {n \in 0 .. b : TwoTo[a + n] = TwoTo[a] * TwoTo[n]}
<1>1. 0 \in T
  <2>1. a + 0 = a /\ TwoTo[a] * 1 = TwoTo[a]
    BY TwoToIs
  <2> QED  BY <2>1, TwoToIs
<1>2. ASSUME NEW n \in 0 .. b - 1, n \in T PROVE n + 1 \in T
  <2>1. n \in Nat /\ a + n \in Nat /\ a + (n + 1) = (a + n) + 1 /\ n + 1 \in 0 .. b
    OBVIOUS
  <2>2. TwoTo[a + (n + 1)] = 2 * TwoTo[a + n] /\ TwoTo[n + 1] = 2 * TwoTo[n]
    BY <2>1, TwoToIs
  <2>3. PICK p \in Nat, q \in Nat : p = TwoTo[a] /\ q = TwoTo[n]
    BY <2>1, TwoToIs
  <2>4. 2 * (p * q) = p * (2 * q)
    OBVIOUS
  <2>5. TwoTo[a + n] = p * q
    BY <1>2, <2>3
  <2> QED  BY <2>1, <2>2, <2>3, <2>4, <2>5
<1> HIDE DEF T
<1>3. \A n \in 0 .. b : n \in T
  BY <1>1, <1>2, UpTo
<1>4. b \in T
  BY <1>3
<1> QED  BY <1>4 DEF T

LEMMA TwoToGrows ==
  ASSUME NEW a \in Nat, NEW b \in Nat, a <= b
  PROVE  TwoTo[a] <= TwoTo[b]
<1>1. b - a \in Nat /\ a + (b - a) = b
  OBVIOUS
<1>2. PICK p \in Nat \ {0}, q \in Nat \ {0} : p = TwoTo[a] /\ q = TwoTo[b - a]
  BY <1>1, TwoToIs
<1>3. TwoTo[b] = p * q
  BY <1>1, <1>2, TwoToAdds
<1>4. p * q >= p
  <2>1. p * q = p + p * (q - 1) /\ p * (q - 1) \in Nat
    OBVIOUS
  <2> QED  BY <2>1
<1> QED  BY <1>2, <1>3, <1>4

LEMMA TopIs == Top \in Nat \ {0} /\ TwoTo[LogWidth] = 2 * Top
<1>1. LogWidth - 1 \in Nat /\ (LogWidth - 1) + 1 = LogWidth
  BY StatisticsAssumption
<1> QED  BY <1>1, TwoToIs DEF Top

-----------------------------------------------------------------------------
(* The logarithm.                                                            *)
Log2Range == 1 .. TwoTo[LogWidth] - 1

LEMMA ZerosAre ==
  ASSUME NEW x \in Log2Range
  PROVE  LeadingZeros(x) \in 0 .. LogWidth - 1 /\ IsMantissa(x * TwoTo[LeadingZeros(x)])
<1> DEFINE T == {z \in 0 .. LogWidth - 1 : x * TwoTo[z] < 2 * Top}
<1>1. LogWidth - 1 \in Nat /\ x \in Nat \ {0} /\ x < 2 * Top
  BY StatisticsAssumption, TopIs DEF Log2Range
<1>2. 0 \in T
  <2>1. x * 1 = x
    BY <1>1
  <2> QED  BY <1>1, <2>1, TwoToIs
<1>3. T \in SUBSET (0 .. LogWidth - 1) /\ T # {}
  BY <1>2
<1>4. PICK m \in T : \A k \in T : k <= m
  <2> HIDE DEF T
  <2> QED  BY <1>1, <1>3, Greatest
<1>5. m \in 0 .. LogWidth - 1 /\ m \in Nat /\ x * TwoTo[m] < 2 * Top
  BY <1>1
<1>6. PICK p \in Nat : p = x * TwoTo[m]
  <2>1. TwoTo[m] \in Nat
    BY <1>5, TwoToIs
  <2> QED  BY <1>1, <2>1, Product
<1>7. Top <= x * TwoTo[m]
  <2>1. CASE m = LogWidth - 1
    <3>1. x * Top >= Top
      <4>1. x * Top = Top + (x - 1) * Top /\ (x - 1) * Top \in Nat
        BY <1>1, TopIs
      <4> QED  BY <4>1, TopIs
    <3> QED  BY <2>1, <3>1 DEF Top
  <2>2. CASE m # LogWidth - 1
    <3>1. m + 1 \in 0 .. LogWidth - 1 /\ ~ (m + 1 <= m)
      BY <1>1, <1>5, <2>2
    <3>2. m + 1 \notin T
      BY <1>4, <3>1
    <3>3. TwoTo[m + 1] = 2 * TwoTo[m] /\ TwoTo[m] \in Nat
      BY <1>5, TwoToIs
    <3>4. x * TwoTo[m + 1] = 2 * p
      BY <1>1, <1>6, <3>3
    <3>5. ~ (2 * p < 2 * Top)
      BY <3>1, <3>2, <3>4
    <3> QED  BY <1>6, <3>5, TopIs
  <2> QED  BY <2>1, <2>2
<1>8. IsMantissa(x * TwoTo[m])
  BY <1>5, <1>7 DEF IsMantissa
<1> QED  BY <1>5, <1>8 DEF LeadingZeros

LEMMA TimesGrows ==
  ASSUME NEW a \in Nat, NEW b \in Nat, NEW c \in Nat, NEW d \in Nat, a <= b, c <= d
  PROVE  a * c <= b * d /\ a * c \in Nat /\ b * d \in Nat
<1>1. a * c \in Nat /\ b * d \in Nat /\ b * c \in Nat
  OBVIOUS
<1>2. b * c = a * c + (b - a) * c /\ (b - a) * c \in Nat
  OBVIOUS
<1>3. b * d = b * c + b * (d - c) /\ b * (d - c) \in Nat
  OBVIOUS
<1>4. PICK p \in Nat, q \in Nat, r \in Nat, s \in Nat, t \in Nat :
        p = a * c /\ q = b * d /\ r = b * c /\ s = (b - a) * c /\ t = b * (d - c)
  BY <1>1, <1>2, <1>3
<1>5. r = p + s /\ q = r + t
  BY <1>2, <1>3, <1>4
<1>6. p <= q
  BY <1>5
<1> QED  BY <1>1, <1>4, <1>6

LEMMA ZerosShrink ==
  ASSUME NEW x \in Log2Range, NEW y \in Log2Range, x <= y
  PROVE  LeadingZeros(y) <= LeadingZeros(x)
<1>1. PICK a \in 0 .. LogWidth - 1, b \in 0 .. LogWidth - 1 :
        a = LeadingZeros(x) /\ b = LeadingZeros(y)
  BY ZerosAre
<1>2. a \in Nat /\ b \in Nat /\ x \in Nat /\ y \in Nat
  BY StatisticsAssumption, TopIs DEF Log2Range
<1>3. Top <= x * TwoTo[a] /\ y * TwoTo[b] < 2 * Top
  BY <1>1, ZerosAre DEF IsMantissa
<1>4. ASSUME a < b PROVE FALSE
  <2>1. a + 1 \in Nat /\ a + 1 <= b
    BY <1>2, <1>4
  <2>2. TwoTo[a + 1] <= TwoTo[b] /\ TwoTo[a + 1] = 2 * TwoTo[a]
    BY <1>2, <2>1, TwoToGrows, TwoToIs
  <2>3. PICK p \in Nat, q \in Nat : p = TwoTo[a] /\ q = TwoTo[b]
    BY <1>2, TwoToIs
  <2>4. x * (2 * p) <= y * q /\ 2 * p \in Nat
    BY <1>2, <2>2, <2>3, TimesGrows
  <2>5. PICK r \in Nat, s \in Nat : r = x * p /\ s = y * q
    BY <1>2, Product
  <2>6. x * (2 * p) = 2 * (x * p)
    BY <1>2
  <2>7. 2 * r <= s /\ Top <= r /\ s < 2 * Top
    BY <1>3, <2>3, <2>4, <2>5, <2>6
  <2> QED  BY <2>7, TopIs
<1> QED  BY <1>1, <1>2, <1>4

(* What is below a power of two has no leading bit above.                    *)
LEMMA ZerosBelow ==
  ASSUME NEW n \in 1 .. LogWidth, NEW x \in Log2Range, x < TwoTo[n]
  PROVE  LogWidth - n <= LeadingZeros(x)
<1>1. PICK a \in 0 .. LogWidth - 1 : a = LeadingZeros(x)
  BY ZerosAre
<1>2. a \in Nat /\ x \in Nat /\ n \in Nat /\ LogWidth \in Nat
  BY StatisticsAssumption, TopIs DEF Log2Range
<1>3. Top <= x * TwoTo[a]
  BY <1>1, ZerosAre DEF IsMantissa
<1>4. ASSUME a < LogWidth - n PROVE FALSE
  <2>1. LogWidth - 1 - n \in Nat /\ a <= LogWidth - 1 - n /\ n + (LogWidth - 1 - n) = LogWidth - 1
    BY <1>2, <1>4
  <2>2. PICK k \in Nat : k = LogWidth - 1 - n
    BY <2>1
  <2>3. Top = TwoTo[n] * TwoTo[k] /\ TwoTo[a] <= TwoTo[k]
    BY <1>2, <2>1, <2>2, TwoToAdds, TwoToGrows DEF Top
  <2>4. PICK p \in Nat \ {0}, q \in Nat \ {0}, r \in Nat \ {0} :
          p = TwoTo[n] /\ q = TwoTo[k] /\ r = TwoTo[a]
    BY <1>2, <2>2, TwoToIs
  <2>5. x * r <= x * q
    BY <1>2, <2>3, <2>4, TimesGrows
  <2>6. x * q < p * q
    <3>1. (x + 1) * q <= p * q /\ (x + 1) * q = x * q + q
      <4>1. x + 1 \in Nat /\ x + 1 <= p
        BY <1>2, <2>4
      <4>2. (x + 1) * q <= p * q
        BY <2>4, <4>1, TimesGrows
      <4> QED  BY <1>2, <4>2
    <3>2. PICK s \in Nat, t \in Nat : s = x * q /\ t = p * q
      BY <1>2, Product
    <3> QED  BY <3>1, <3>2
  <2>7. PICK s \in Nat, t \in Nat, u \in Nat : s = x * q /\ t = p * q /\ u = x * r
    BY <1>2, Product
  <2>8. Top <= u /\ Top = t /\ u <= s /\ s < t
    BY <1>3, <2>3, <2>4, <2>5, <2>6, <2>7
  <2> QED  BY <2>7, <2>8
<1> QED  BY <1>1, <1>2, <1>4

Squares == [m : Nat, bits : Nat]

LEMMA DivGrows ==
  ASSUME NEW n \in Nat \ {0}, NEW a \in Nat, NEW b \in Nat, a <= b
  PROVE  a \div n <= b \div n /\ a \div n \in Nat /\ b \div n \in Nat
<1>1. PICK q \in Nat, r \in 0 .. n - 1 : a = n * q + r /\ q = a \div n
  BY DivIs
<1>2. PICK p \in Nat, s \in 0 .. n - 1 : b = n * p + s /\ p = b \div n
  BY DivIs
<1>3. ASSUME p < q PROVE FALSE
  <2>1. n * p + n <= n * q
    BY <1>3, Further
  <2>2. PICK t \in Nat, u \in Nat : t = n * p /\ u = n * q
    BY Product
  <2>3. a = u + r /\ b = t + s /\ t + n <= u
    BY <1>1, <1>2, <2>1, <2>2
  <2> QED  BY <2>3
<1> QED  BY <1>1, <1>2, <1>3

LEMMA SquaredType ==
  ASSUME NEW acc \in Squares
  PROVE  /\ Squared(acc) \in Squares
         /\ Squared(acc).bits \in {2 * acc.bits, (2 * acc.bits) + 1}
<1>1. acc.m * acc.m \in Nat /\ acc.bits \in Nat
  BY DEF Squares
<1>2. PICK m \in Nat : m = (acc.m * acc.m) \div Top
  BY <1>1, TopIs, DivIs
<1>3. m \div 2 \in Nat
  OBVIOUS
<1>4. Squared(acc) = IF m >= 2 * Top THEN [m |-> m \div 2, bits |-> (2 * acc.bits) + 1]
                     ELSE [m |-> m, bits |-> 2 * acc.bits]
  BY <1>2 DEF Squared
<1> QED  BY <1>1, <1>3, <1>4 DEF Squares

(* The first bits taken out of two mantissas, and what is left of them.      *)
Before(acc, bcc) ==
  \/ acc.bits < bcc.bits
  \/ acc.bits = bcc.bits /\ acc.m <= bcc.m

LEMMA SquaredKeepsOrder ==
  ASSUME NEW acc \in Squares, NEW bcc \in Squares, Before(acc, bcc)
  PROVE  Before(Squared(acc), Squared(bcc))
<1>1. acc.m \in Nat /\ bcc.m \in Nat /\ acc.bits \in Nat /\ bcc.bits \in Nat
  BY DEF Squares
<1>2. CASE acc.bits < bcc.bits
  <2>1. /\ Squared(acc).bits \in {2 * acc.bits, (2 * acc.bits) + 1}
        /\ Squared(bcc).bits \in {2 * bcc.bits, (2 * bcc.bits) + 1}
    BY SquaredType
  <2> QED  BY <1>1, <1>2, <2>1 DEF Before
<1>3. CASE acc.bits = bcc.bits /\ acc.m <= bcc.m
  <2>1. acc.m * acc.m <= bcc.m * bcc.m /\ acc.m * acc.m \in Nat /\ bcc.m * bcc.m \in Nat
    BY <1>1, <1>3, TimesGrows
  <2>2. PICK m \in Nat, p \in Nat :
          m = (acc.m * acc.m) \div Top /\ p = (bcc.m * bcc.m) \div Top /\ m <= p
    BY <2>1, TopIs, DivGrows
  <2>3. PICK u \in Nat : u = 2 * Top
    BY TopIs
  <2>4. /\ Squared(acc) = IF m >= u THEN [m |-> m \div 2, bits |-> (2 * acc.bits) + 1]
                          ELSE [m |-> m, bits |-> 2 * acc.bits]
        /\ Squared(bcc) = IF p >= u THEN [m |-> p \div 2, bits |-> (2 * bcc.bits) + 1]
                          ELSE [m |-> p, bits |-> 2 * bcc.bits]
    BY <2>2, <2>3 DEF Squared
  <2>5. m \div 2 <= p \div 2
    BY <2>2
  <2>6. CASE m >= u
    <3>1. p >= u
      BY <2>2, <2>3, <2>6
    <3> QED  BY <1>3, <2>4, <2>5, <2>6, <3>1 DEF Before
  <2>7. CASE ~ (m >= u)
    <3>1. CASE p >= u
      BY <1>1, <1>3, <2>4, <2>7, <3>1 DEF Before
    <3>2. CASE ~ (p >= u)
      BY <1>3, <2>2, <2>4, <2>7, <3>2 DEF Before
    <3> QED  BY <3>1, <3>2
  <2> QED  BY <2>6, <2>7
<1> QED  BY <1>2, <1>3 DEF Before

LEMMA SquaredOutIs ==
  ASSUME NEW mantissa \in Nat, NEW n \in Nat
  PROVE  /\ SquaredOut(mantissa, n)[0] = [m |-> mantissa, bits |-> 0]
         /\ \A b \in 1 .. n : SquaredOut(mantissa, n)[b] = Squared(SquaredOut(mantissa, n)[b - 1])
         /\ \A b \in 0 .. n : /\ SquaredOut(mantissa, n)[b] \in Squares
                              /\ SquaredOut(mantissa, n)[b].bits < TwoTo[b]
<1> DEFINE base == [m |-> mantissa, bits |-> 0]
           P == [b \in 0 .. n |-> Squares]
           step == [z \in (1 .. n) \X Squares |-> Squared(z[2])]
           Is(f) == f = [b \in 0 .. n |-> IF b = 0 THEN base ELSE Squared(f[b - 1])]
           squares == CHOOSE f : Is(f)
<1>1. base \in Squares
  BY DEF Squares
<1>2. \A b \in 1 .. n, x \in Squares : step[<<b, x>>] = Squared(x) /\ step[<<b, x>>] \in Squares
  <2> SUFFICES ASSUME NEW b \in 1 .. n, NEW x \in Squares
               PROVE  step[<<b, x>>] = Squared(x) /\ step[<<b, x>>] \in Squares
    OBVIOUS
  <2>1. step[<<b, x>>] = Squared(x)
    OBVIOUS
  <2> QED  BY <2>1, SquaredType
<1> HIDE DEF step
<1>3. \E f : Is(f)
  <2>1. base \in P[0] /\ \A b \in 0 .. n : P[b] = Squares
    BY <1>1
  <2>2. ASSUME NEW b \in 1 .. n, NEW x \in P[b - 1] PROVE step[<<b, x>>] \in P[b]
    <3>1. b \in 0 .. n /\ b - 1 \in 0 .. n
      OBVIOUS
    <3> QED  BY <1>2, <2>1, <3>1
  <2> HIDE DEF P
  <2>3. Leads(step, P, n)
    BY <2>2 DEF Leads
  <2>4. PICK f : /\ f = [b \in 0 .. n |-> IF b = 0 THEN base ELSE step[<<b, f[b - 1]>>]]
                 /\ \A b \in 0 .. n : f[b] \in P[b]
    BY <2>1, <2>3, StepsExist
  <2>5. ASSUME NEW b \in 0 .. n
        PROVE  (IF b = 0 THEN base ELSE step[<<b, f[b - 1]>>])
                 = IF b = 0 THEN base ELSE Squared(f[b - 1])
    <3>1. CASE b # 0
      <4>1. b \in 1 .. n /\ b - 1 \in 0 .. n
        BY <3>1
      <4>2. f[b - 1] \in Squares
        BY <2>1, <2>4, <4>1
      <4> QED  BY <1>2, <3>1, <4>1, <4>2
    <3> QED  BY <3>1
  <2>6. Is(f)
    BY <2>4, <2>5
  <2> HIDE DEF Is
  <2> QED  BY <2>6
<1>4. SquaredOut(mantissa, n) = squares
  BY DEF SquaredOut
<1>5. Is(squares)
  BY <1>3
<1> HIDE DEF squares
<1>6. squares[0] = base /\ \A b \in 1 .. n : squares[b] = Squared(squares[b - 1])
  BY <1>5
<1> DEFINE T == {b \in 0 .. n : squares[b] \in Squares /\ squares[b].bits < TwoTo[b]}
<1>7. 0 \in T
  BY <1>1, <1>6, TwoToIs
<1>8. ASSUME NEW b \in 0 .. n - 1, b \in T PROVE b + 1 \in T
  <2>1. b + 1 \in 1 .. n /\ (b + 1) - 1 = b /\ b + 1 \in 0 .. n /\ b \in Nat
    OBVIOUS
  <2>2. squares[b] \in Squares /\ squares[b].bits < TwoTo[b] /\ squares[b].bits \in Nat
    BY <1>8 DEF Squares
  <2>3. squares[b + 1] = Squared(squares[b])
    BY <1>6, <2>1
  <2>4. /\ squares[b + 1] \in Squares
        /\ squares[b + 1].bits \in {2 * squares[b].bits, (2 * squares[b].bits) + 1}
    BY <2>2, <2>3, SquaredType
  <2>5. TwoTo[b + 1] = 2 * TwoTo[b] /\ TwoTo[b] \in Nat
    BY <2>1, TwoToIs
  <2>6. squares[b + 1].bits < TwoTo[b + 1]
    BY <2>2, <2>4, <2>5
  <2> QED  BY <2>1, <2>4, <2>6
<1> HIDE DEF T
<1>9. \A b \in 0 .. n : b \in T
  BY <1>7, <1>8, UpTo
<1> QED  BY <1>4, <1>6, <1>9 DEF T

LEMMA SquaredOutKeepsOrder ==
  ASSUME NEW p \in Nat, NEW q \in Nat, p <= q, NEW n \in Nat
  PROVE  SquaredOut(p, n)[n].bits <= SquaredOut(q, n)[n].bits
<1> DEFINE S == SquaredOut(p, n)
           R == SquaredOut(q, n)
           T == {b \in 0 .. n : Before(S[b], R[b])}
<1>1. /\ S[0] = [m |-> p, bits |-> 0] /\ R[0] = [m |-> q, bits |-> 0]
      /\ \A b \in 1 .. n : S[b] = Squared(S[b - 1]) /\ R[b] = Squared(R[b - 1])
      /\ \A b \in 0 .. n : S[b] \in Squares /\ R[b] \in Squares
  BY SquaredOutIs
<1> HIDE DEF S, R
<1>2. 0 \in T
  BY <1>1 DEF Before
<1>3. ASSUME NEW b \in 0 .. n - 1, b \in T PROVE b + 1 \in T
  <2>1. b + 1 \in 1 .. n /\ (b + 1) - 1 = b /\ b + 1 \in 0 .. n /\ b \in 0 .. n
    OBVIOUS
  <2>2. S[b + 1] = Squared(S[b]) /\ R[b + 1] = Squared(R[b])
    BY <1>1, <2>1
  <2>3. Before(S[b], R[b]) /\ S[b] \in Squares /\ R[b] \in Squares
    BY <1>1, <1>3, <2>1
  <2>4. Before(S[b + 1], R[b + 1])
    BY <2>2, <2>3, SquaredKeepsOrder
  <2> QED  BY <2>1, <2>4
<1> HIDE DEF T
<1>4. \A b \in 0 .. n : b \in T
  BY <1>2, <1>3, UpTo
<1>5. n \in 0 .. n
  OBVIOUS
<1>6. Before(S[n], R[n]) /\ S[n] \in Squares /\ R[n] \in Squares
  BY <1>1, <1>4, <1>5 DEF T
<1>7. S[n].bits \in Nat /\ R[n].bits \in Nat
  BY <1>6 DEF Squares
<1> QED  BY <1>6, <1>7 DEF Before, S, R

LEMMA NextProduct == \A w, t \in Nat : (w + 1) * t = w * t + t
OBVIOUS

LEMMA LogIs ==
  ASSUME NEW x \in Log2Range, NEW frac \in Nat
  PROVE  \E w \in 0 .. LogWidth - 1, r \in 0 .. TwoTo[frac] :
           /\ w = LogWidth - 1 - LeadingZeros(x)
           /\ r = Rounded(SquaredOut(x * TwoTo[LeadingZeros(x)], frac + 1)[frac + 1].bits)
           /\ IntLog2Fixed(x, frac) = w * TwoTo[frac] + r
<1>1. PICK a \in 0 .. LogWidth - 1 : a = LeadingZeros(x)
  BY ZerosAre
<1>2. LogWidth \in Nat /\ a \in Nat /\ x \in Nat /\ LogWidth - 1 - a \in 0 .. LogWidth - 1
  BY StatisticsAssumption, TopIs DEF Log2Range
<1>3. x * TwoTo[a] \in Nat /\ frac + 1 \in Nat /\ frac + 1 \in 0 .. frac + 1
  BY <1>2, TwoToIs, Product
<1>4. PICK f \in Nat : /\ f = SquaredOut(x * TwoTo[a], frac + 1)[frac + 1].bits
                       /\ f < TwoTo[frac + 1]
  BY <1>3, SquaredOutIs DEF Squares
<1>5. f < 2 * TwoTo[frac] /\ TwoTo[frac] \in Nat
  BY <1>4, TwoToIs
<1>6. Rounded(f) \in 0 .. TwoTo[frac]
  BY <1>5 DEF Rounded
<1>7. IntLog2Fixed(x, frac) = (LogWidth - 1 - a) * TwoTo[frac] + Rounded(f)
  BY <1>1, <1>4 DEF IntLog2Fixed
<1> QED  BY <1>1, <1>2, <1>4, <1>6, <1>7

LEMMA LogType ==
  ASSUME NEW x \in Log2Range, NEW frac \in Nat
  PROVE  IntLog2Fixed(x, frac) \in Nat
<1>1. PICK w \in 0 .. LogWidth - 1, r \in 0 .. TwoTo[frac] :
        IntLog2Fixed(x, frac) = w * TwoTo[frac] + r
  BY LogIs
<1>2. w \in Nat /\ r \in Nat /\ w * TwoTo[frac] \in Nat
  <2>1. w \in Nat /\ TwoTo[frac] \in Nat
    BY StatisticsAssumption, TwoToIs
  <2> QED  BY <2>1, Product
<1> QED  BY <1>1, <1>2

(* IntLog2Fixed (tree.c:78-93) is monotonic, which the comment at            *)
(* tree.c:107-109 says of the logarithm it computes.                         *)
LEMMA LogGrows ==
  ASSUME NEW x \in Log2Range, NEW y \in Log2Range, x <= y, NEW frac \in Nat
  PROVE  IntLog2Fixed(x, frac) <= IntLog2Fixed(y, frac)
<1>1. PICK a \in 0 .. LogWidth - 1, b \in 0 .. LogWidth - 1 :
        a = LeadingZeros(x) /\ b = LeadingZeros(y)
  BY ZerosAre
<1>2. b <= a
  BY <1>1, ZerosShrink
<1>3. PICK w \in 0 .. LogWidth - 1, r \in 0 .. TwoTo[frac] :
        /\ w = LogWidth - 1 - a
        /\ r = Rounded(SquaredOut(x * TwoTo[a], frac + 1)[frac + 1].bits)
        /\ IntLog2Fixed(x, frac) = w * TwoTo[frac] + r
  BY <1>1, LogIs
<1>4. PICK v \in 0 .. LogWidth - 1, s \in 0 .. TwoTo[frac] :
        /\ v = LogWidth - 1 - b
        /\ s = Rounded(SquaredOut(y * TwoTo[b], frac + 1)[frac + 1].bits)
        /\ IntLog2Fixed(y, frac) = v * TwoTo[frac] + s
  BY <1>1, LogIs
<1>5. LogWidth \in Nat /\ a \in Nat /\ b \in Nat /\ w \in Nat /\ v \in Nat /\ w <= v
      /\ x \in Nat /\ y \in Nat
  BY <1>2, <1>3, <1>4, StatisticsAssumption, TopIs DEF Log2Range
<1>6. PICK t \in Nat : t = TwoTo[frac]
  BY TwoToIs
<1>7. r \in Nat /\ s \in Nat /\ r <= t
  BY <1>6
<1>8. PICK p \in Nat, q \in Nat : p = w * t /\ q = v * t
  BY <1>5, <1>6, Product
<1>9. CASE a = b
  <2>1. x * TwoTo[a] <= y * TwoTo[b] /\ x * TwoTo[a] \in Nat /\ y * TwoTo[b] \in Nat
    <3>1. TwoTo[a] \in Nat
      BY <1>5, TwoToIs
    <3> QED  BY <1>5, <1>9, <3>1, TimesGrows
  <2>2. PICK f \in Nat, g \in Nat :
          /\ f = SquaredOut(x * TwoTo[a], frac + 1)[frac + 1].bits
          /\ g = SquaredOut(y * TwoTo[b], frac + 1)[frac + 1].bits
          /\ f <= g
    <3>1. frac + 1 \in Nat /\ frac + 1 \in 0 .. frac + 1
      OBVIOUS
    <3>2. /\ SquaredOut(x * TwoTo[a], frac + 1)[frac + 1] \in Squares
          /\ SquaredOut(y * TwoTo[b], frac + 1)[frac + 1] \in Squares
      BY <2>1, <3>1, SquaredOutIs
    <3>3. SquaredOut(x * TwoTo[a], frac + 1)[frac + 1].bits
            <= SquaredOut(y * TwoTo[b], frac + 1)[frac + 1].bits
      BY <2>1, <3>1, SquaredOutKeepsOrder
    <3> QED  BY <3>2, <3>3 DEF Squares
  <2>3. r <= s
    BY <1>3, <1>4, <2>2 DEF Rounded
  <2>4. p = q
    BY <1>3, <1>4, <1>8, <1>9
  <2> QED  BY <1>3, <1>4, <1>6, <1>7, <1>8, <2>3, <2>4
<1>10. CASE a # b
  <2>1. w + 1 <= v
    BY <1>2, <1>3, <1>4, <1>5, <1>10
  <2>2. (w + 1) * t <= v * t /\ (w + 1) * t = p + t
    <3>1. w + 1 \in Nat /\ (w + 1) * t = w * t + t
      BY <1>5, NextProduct
    <3>2. (w + 1) * t <= v * t
      BY <1>5, <1>6, <2>1, <3>1, TimesGrows
    <3> QED  BY <1>8, <3>1, <3>2
  <2>3. p + t <= q
    BY <1>8, <2>2
  <2> QED  BY <1>3, <1>4, <1>6, <1>7, <1>8, <2>3
<1> QED  BY <1>9, <1>10

LEMMA LogBelow ==
  ASSUME NEW n \in 1 .. LogWidth, NEW x \in Log2Range, x < TwoTo[n], NEW frac \in Nat
  PROVE  IntLog2Fixed(x, frac) <= n * TwoTo[frac]
<1>1. PICK a \in 0 .. LogWidth - 1 : a = LeadingZeros(x)
  BY ZerosAre
<1>2. PICK w \in 0 .. LogWidth - 1, r \in 0 .. TwoTo[frac] :
        w = LogWidth - 1 - a /\ IntLog2Fixed(x, frac) = w * TwoTo[frac] + r
  BY <1>1, LogIs
<1>3. LogWidth - n <= a
  BY <1>1, ZerosBelow
<1>4. LogWidth \in Nat /\ a \in Nat /\ w \in Nat /\ n \in Nat /\ w + 1 <= n
  BY <1>2, <1>3, StatisticsAssumption
<1>5. PICK t \in Nat : t = TwoTo[frac]
  BY TwoToIs
<1>6. (w + 1) * t <= n * t /\ (w + 1) * t = w * t + t
  <2>1. w + 1 \in Nat /\ (w + 1) * t = w * t + t
    BY <1>4
  <2>2. (w + 1) * t <= n * t
    BY <1>4, <2>1, TimesGrows
  <2> QED  BY <2>1, <2>2
<1>7. PICK p \in Nat, q \in Nat : p = w * t /\ q = n * t
  BY <1>4, Product
<1>8. r \in Nat /\ r <= t /\ p + t <= q
  BY <1>5, <1>6, <1>7
<1> QED  BY <1>2, <1>5, <1>7, <1>8

-----------------------------------------------------------------------------
(* The sum of frequencies.                                                   *)
CountsBelow(D, most) == [D -> 0 .. most]
SomeSymbols(D) == D \subseteq 0 .. NumSymbols - 1 /\ D # {}

FreqOf(f, s) == IF s \in DOMAIN f THEN f[s] ELSE 0

LEMMA FreqIs ==
  ASSUME NEW most \in Nat, NEW D, NEW f \in CountsBelow(D, most)
  PROVE  \A s : FreqOf(f, s) \in 0 .. most
BY DEF FreqOf, CountsBelow

LEMMA SumsAre ==
  ASSUME NEW most \in Nat, NEW D, NEW f \in CountsBelow(D, most)
  PROVE  /\ SumsOf(f)[0] = 0
         /\ \A n \in 1 .. NumSymbols : SumsOf(f)[n] = SumsOf(f)[n - 1] + FreqOf(f, n - 1)
         /\ \A n \in 0 .. NumSymbols : SumsOf(f)[n] \in 0 .. n * most
<1> DEFINE P == [n \in 0 .. NumSymbols |-> Nat]
           step == [z \in (1 .. NumSymbols) \X Nat |-> z[2] + FreqOf(f, z[1] - 1)]
           Is(g) == g = [n \in 0 .. NumSymbols |->
                           IF n = 0 THEN 0 ELSE g[n - 1] + FreqOf(f, n - 1)]
           sums == CHOOSE g : Is(g)
<1>1. \A s : FreqOf(f, s) \in 0 .. most
  BY FreqIs
<1>2. NumSymbols \in Nat
  BY StatisticsAssumption
<1>3. \A n \in 1 .. NumSymbols, x \in Nat :
        step[<<n, x>>] = x + FreqOf(f, n - 1) /\ step[<<n, x>>] \in Nat
  <2> SUFFICES ASSUME NEW n \in 1 .. NumSymbols, NEW x \in Nat
               PROVE  step[<<n, x>>] = x + FreqOf(f, n - 1) /\ step[<<n, x>>] \in Nat
    OBVIOUS
  <2>1. step[<<n, x>>] = x + FreqOf(f, n - 1)
    OBVIOUS
  <2>2. x + FreqOf(f, n - 1) \in Nat
    BY <1>1
  <2> QED  BY <2>1, <2>2
<1> HIDE DEF step
<1>4. \E g : Is(g)
  <2>1. 0 \in P[0] /\ \A n \in 0 .. NumSymbols : P[n] = Nat
    BY <1>2
  <2>2. ASSUME NEW n \in 1 .. NumSymbols, NEW x \in P[n - 1] PROVE step[<<n, x>>] \in P[n]
    <3>1. n \in 0 .. NumSymbols /\ n - 1 \in 0 .. NumSymbols
      BY <1>2
    <3> QED  BY <1>3, <2>1, <3>1
  <2> HIDE DEF P
  <2>3. Leads(step, P, NumSymbols)
    BY <2>2 DEF Leads
  <2>4. PICK g : /\ g = [n \in 0 .. NumSymbols |-> IF n = 0 THEN 0 ELSE step[<<n, g[n - 1]>>]]
                 /\ \A n \in 0 .. NumSymbols : g[n] \in P[n]
    BY <1>2, <2>1, <2>3, StepsExist
  <2>5. ASSUME NEW n \in 0 .. NumSymbols
        PROVE  (IF n = 0 THEN 0 ELSE step[<<n, g[n - 1]>>])
                 = IF n = 0 THEN 0 ELSE g[n - 1] + FreqOf(f, n - 1)
    <3>1. CASE n # 0
      <4>1. n \in 1 .. NumSymbols /\ n - 1 \in 0 .. NumSymbols
        BY <1>2, <3>1
      <4>2. g[n - 1] \in Nat
        BY <2>1, <2>4, <4>1
      <4> QED  BY <1>3, <3>1, <4>1, <4>2
    <3> QED  BY <3>1
  <2>6. Is(g)
    BY <2>4, <2>5
  <2> HIDE DEF Is
  <2> QED  BY <2>6
<1>5. SumsOf(f) = sums
  BY DEF SumsOf, FreqOf
<1>6. Is(sums)
  BY <1>4
<1> HIDE DEF sums
<1>7. sums[0] = 0 /\ \A n \in 1 .. NumSymbols : sums[n] = sums[n - 1] + FreqOf(f, n - 1)
  BY <1>2, <1>6
<1> DEFINE T == {n \in 0 .. NumSymbols : sums[n] \in 0 .. n * most}
<1>8. 0 \in T
  <2>1. 0 * most = 0 /\ 0 \in 0 .. NumSymbols
    BY <1>2
  <2> QED  BY <1>7, <2>1
<1>9. ASSUME NEW n \in 0 .. NumSymbols - 1, n \in T PROVE n + 1 \in T
  <2>1. n + 1 \in 1 .. NumSymbols /\ (n + 1) - 1 = n /\ n + 1 \in 0 .. NumSymbols /\ n \in Nat
    BY <1>2
  <2>2. sums[n + 1] = sums[n] + FreqOf(f, n)
    BY <1>7, <2>1
  <2>3. sums[n] \in 0 .. n * most
    BY <1>9
  <2>4. PICK p \in Nat : p = n * most
    BY <2>1, Product
  <2>5. (n + 1) * most = p + most
    BY <2>1, <2>4
  <2>6. sums[n + 1] \in 0 .. p + most
    BY <1>1, <2>2, <2>3, <2>4
  <2> QED  BY <2>1, <2>5, <2>6
<1> HIDE DEF T
<1>10. \A n \in 0 .. NumSymbols : n \in T
  BY <1>2, <1>8, <1>9, UpTo
<1> QED  BY <1>5, <1>7, <1>10 DEF T

(* A frequency is not above the sum of all, and the sum not above as many    *)
(* times the largest as there may be symbols.                                *)
LEMMA SumCovers ==
  ASSUME NEW most \in Nat, NEW D, D \subseteq 0 .. NumSymbols - 1, NEW f \in CountsBelow(D, most)
  PROVE  /\ Occurrences(f) \in 0 .. NumSymbols * most
         /\ \A s \in D : f[s] <= Occurrences(f)
<1>1. NumSymbols \in Nat
  BY StatisticsAssumption
<1> DEFINE sums == SumsOf(f)
<1>2. /\ \A n \in 1 .. NumSymbols : sums[n] = sums[n - 1] + FreqOf(f, n - 1)
      /\ \A n \in 0 .. NumSymbols : sums[n] \in 0 .. n * most
  BY SumsAre
<1>3. Occurrences(f) = sums[NumSymbols]
  BY DEF Occurrences
<1> HIDE DEF sums
<1>4. \A s : FreqOf(f, s) \in 0 .. most
  BY FreqIs
<1>5. \A n \in 0 .. NumSymbols : sums[n] \in Nat
  BY <1>2
<1>6. ASSUME NEW s \in D PROVE f[s] <= sums[NumSymbols]
  <2> DEFINE T == {k \in 0 .. NumSymbols - 1 - s : f[s] <= sums[s + 1 + k]}
  <2>1. s \in 0 .. NumSymbols - 1 /\ s \in Nat /\ NumSymbols - 1 - s \in Nat
    BY <1>1
  <2>2. f[s] = FreqOf(f, s) /\ f[s] \in Nat
    BY DEF FreqOf, CountsBelow
  <2>3. 0 \in T
    <3>1. s + 1 \in 1 .. NumSymbols /\ (s + 1) - 1 = s /\ s \in 0 .. NumSymbols
          /\ s + 1 + 0 = s + 1
      BY <1>1, <2>1
    <3>2. sums[s + 1] = sums[s] + f[s] /\ sums[s] \in Nat
      BY <1>2, <1>5, <2>2, <3>1
    <3>3. f[s] <= sums[s + 1 + 0]
      BY <2>2, <3>1, <3>2
    <3> QED  BY <2>1, <3>3
  <2>4. ASSUME NEW k \in 0 .. (NumSymbols - 1 - s) - 1, k \in T PROVE k + 1 \in T
    <3>1. /\ k \in Nat /\ k + 1 \in 0 .. NumSymbols - 1 - s
          /\ s + 1 + (k + 1) \in 1 .. NumSymbols /\ (s + 1 + (k + 1)) - 1 = s + 1 + k
          /\ s + 1 + k \in 0 .. NumSymbols
      BY <1>1, <2>1
    <3>2. /\ sums[s + 1 + (k + 1)] = sums[s + 1 + k] + FreqOf(f, s + 1 + k)
          /\ sums[s + 1 + k] \in Nat /\ FreqOf(f, s + 1 + k) \in Nat
      BY <1>2, <1>4, <1>5, <3>1
    <3>3. f[s] <= sums[s + 1 + k]
      BY <2>4
    <3>4. f[s] <= sums[s + 1 + (k + 1)]
      BY <2>2, <3>2, <3>3
    <3> QED  BY <3>1, <3>4
  <2> HIDE DEF T
  <2>5. \A k \in 0 .. NumSymbols - 1 - s : k \in T
    BY <2>1, <2>3, <2>4, UpTo
  <2>6. NumSymbols - 1 - s \in T /\ s + 1 + (NumSymbols - 1 - s) = NumSymbols
    BY <1>1, <2>1, <2>5
  <2> QED  BY <2>6 DEF T
<1>7. NumSymbols \in 0 .. NumSymbols
  BY <1>1
<1> QED  BY <1>2, <1>3, <1>6, <1>7

-----------------------------------------------------------------------------
(* The costs of symbols.                                                     *)
MostOften == 2 * BlockBytes
FreqsOf(D) == CountsBelow(D, MostOften)
Shifted(n) == n * TwoTo[Shift]

LEMMA Sizes ==
  /\ MostOften \in Nat /\ NumSymbols \in Nat \ {0} /\ PositionBits \in 1 .. LogWidth
  /\ \A n \in 0 .. NumSymbols * MostOften : n < TwoTo[PositionBits]
  /\ \A n \in 1 .. NumSymbols * MostOften : n \in Log2Range
<1>1. /\ MostOften \in Nat /\ NumSymbols \in Nat \ {0} /\ PositionBits \in 1 .. LogWidth
      /\ LogWidth \in Nat
  BY StatisticsAssumption, BlockAssumption DEF MostOften
<1>2. PICK p \in Nat : p = NumSymbols * MostOften
  BY <1>1, Product
<1>3. p < TwoTo[PositionBits]
  BY <1>2, BlockAssumption DEF MostOften
<1>4. TwoTo[PositionBits] <= TwoTo[LogWidth] /\ TwoTo[PositionBits] \in Nat /\ TwoTo[LogWidth] \in Nat
  BY <1>1, TwoToGrows, TwoToIs
<1>5. \A n \in 0 .. p : n < TwoTo[PositionBits] /\ n < TwoTo[LogWidth]
  BY <1>3, <1>4
<1>6. \A n \in 1 .. p : n \in Log2Range
  BY <1>4, <1>5 DEF Log2Range
<1> QED  BY <1>1, <1>2, <1>5, <1>6

LEMMA EntropyFits ==
  ASSUME NEW D, SomeSymbols(D), NEW f \in FreqsOf(D), NEW frac \in Nat
  PROVE  /\ DOMAIN Entropy(f, frac) = D
         /\ \A s \in D : Entropy(f, frac)[s] \in 0 .. PositionBits * TwoTo[frac]
<1> DEFINE sum == Occurrences(f)
           of == IF sum = 0 THEN Cardinality(D) ELSE sum
<1>1. sum \in 0 .. NumSymbols * MostOften /\ \A s \in D : f[s] <= sum
  BY Sizes, SumCovers DEF SomeSymbols, FreqsOf
<1>2. DOMAIN f = D /\ \A s \in D : f[s] \in 0 .. MostOften
  BY DEF FreqsOf, CountsBelow
<1>3. Cardinality(D) \in 1 .. NumSymbols
  <2>1. IsFiniteSet(0 .. NumSymbols - 1) /\ Cardinality(0 .. NumSymbols - 1) = NumSymbols
    BY Sizes, FS_Interval
  <2>2. IsFiniteSet(D) /\ Cardinality(D) <= NumSymbols
    BY <2>1, FS_Subset DEF SomeSymbols
  <2>3. Cardinality(D) \in Nat /\ Cardinality(D) # 0
    BY <2>2, FS_CardinalityType, FS_EmptySet DEF SomeSymbols
  <2> QED  BY <2>2, <2>3, Sizes
<1>4. PICK p \in Nat : p = NumSymbols * MostOften /\ NumSymbols <= p
  <2>1. MostOften >= 1 /\ MostOften \in Nat
    BY BlockAssumption DEF MostOften
  <2>2. NumSymbols * 1 <= NumSymbols * MostOften /\ NumSymbols * MostOften \in Nat
    BY <2>1, Sizes, TimesGrows
  <2> QED  BY <2>2, Sizes
<1>5. PICK x \in 1 .. p : x = of
  <2>1. of \in 1 .. p
    BY <1>1, <1>3, <1>4, Sizes
  <2> QED  BY <2>1
<1>6. x \in Log2Range /\ x < TwoTo[PositionBits]
  BY <1>4, Sizes
<1>7. PICK log \in Nat : log = IntLog2Fixed(x, frac) /\ log <= PositionBits * TwoTo[frac]
  BY <1>6, Sizes, LogType, LogBelow
<1>8. Entropy(f, frac) = [s \in D |-> IF f[s] = 0 THEN log ELSE log - IntLog2Fixed(f[s], frac)]
  BY <1>2, <1>5, <1>7 DEF Entropy
<1>9. ASSUME NEW s \in D, f[s] # 0
      PROVE  IntLog2Fixed(f[s], frac) \in 0 .. log
  <2>1. f[s] \in Nat /\ f[s] <= sum /\ sum \in Nat
    BY <1>1, <1>2
  <2>2. sum # 0 /\ f[s] \in 1 .. p /\ f[s] <= x
    BY <1>1, <1>4, <1>5, <1>9, <2>1
  <2>3. f[s] \in Log2Range
    BY <1>4, <2>2, Sizes
  <2> QED  BY <1>6, <1>7, <2>2, <2>3, LogType, LogGrows
<1>10. PICK most \in Nat : most = PositionBits * TwoTo[frac]
  <2>1. PositionBits \in Nat /\ TwoTo[frac] \in Nat
    BY StatisticsAssumption, TwoToIs
  <2> QED  BY <2>1, Product
<1>11. ASSUME NEW s \in D PROVE Entropy(f, frac)[s] \in 0 .. most
  <2>1. CASE f[s] = 0
    BY <1>7, <1>8, <1>10, <2>1
  <2>2. CASE f[s] # 0
    <3>1. PICK own \in 0 .. log : own = IntLog2Fixed(f[s], frac)
      BY <1>9, <2>2
    <3>2. Entropy(f, frac)[s] = log - own
      BY <1>8, <2>2, <3>1
    <3> QED  BY <1>7, <1>10, <3>1, <3>2
  <2> QED  BY <2>1, <2>2
<1> QED  BY <1>8, <1>10, <1>11

(* The shift is the largest that keeps what a block may cost in its bits.    *)
LEMMA ShiftFits ==
  Shift \in Nat /\ Shift <= TotalBits /\ PositionBits * BlockBytes <= TwoTo[TotalBits - Shift]
<1> DEFINE fits == {s \in 0 .. MaxShift : PositionBits * BlockBytes <= TwoTo[TotalBits - s]}
           T == {0} \cup fits
<1>1. MaxShift \in Nat /\ TotalBits \in Nat /\ MaxShift < TotalBits
  BY StatisticsAssumption
<1>2. 0 \in fits
  <2>1. TotalBits - 0 = TotalBits /\ 0 \in 0 .. MaxShift
    BY <1>1
  <2> QED  BY <2>1, BlockAssumption
<1>3. T \in SUBSET (0 .. MaxShift) /\ T # {} /\ T = fits
  BY <1>2
<1>4. Shift = Max(T)
  BY DEF Shift, GetCostShift
<1> HIDE DEF T
<1>5. \E m \in T : \A k \in T : m >= k
  <2>1. PICK m \in T : \A k \in T : k <= m
    BY <1>1, <1>3, Greatest
  <2>2. \A k \in T : k \in Int
    BY <1>3
  <2> QED  BY <2>1, <2>2
<1>6. Max(T) \in T
  BY <1>5 DEF Max
<1>7. Shift \in 0 .. MaxShift /\ PositionBits * BlockBytes <= TwoTo[TotalBits - Shift]
  BY <1>3, <1>4, <1>6
<1> QED  BY <1>1, <1>7

LEMMA ShiftedBlockFits ==
  ASSUME NEW c \in 0 .. Shifted(PositionBits)
  PROVE  BlockBytes * c <= TwoTo[TotalBits]
<1>1. PICK s \in Nat : s = Shift /\ s <= TotalBits /\ PositionBits * BlockBytes <= TwoTo[TotalBits - s]
  BY ShiftFits
<1>2. TotalBits - s \in Nat /\ (TotalBits - s) + s = TotalBits /\ TotalBits \in Nat
  BY <1>1, StatisticsAssumption
<1>3. PICK t \in Nat, u \in Nat, b \in Nat, p \in Nat :
        t = TwoTo[s] /\ u = TwoTo[TotalBits - s] /\ b = BlockBytes /\ p = PositionBits
  BY <1>1, <1>2, TwoToIs, BlockAssumption, StatisticsAssumption
<1>4. TwoTo[TotalBits] = u * t
  BY <1>1, <1>2, <1>3, TwoToAdds
<1>5. p * b <= u /\ p * b \in Nat
  BY <1>1, <1>3, Product
<1>6. (p * b) * t <= u * t /\ (p * b) * t \in Nat /\ u * t \in Nat
  BY <1>3, <1>5, TimesGrows
<1>7. c \in Nat /\ c <= p * t /\ p * t \in Nat
  <2>1. p * t \in Nat
    BY <1>3, Product
  <2> QED  BY <1>1, <1>3, <2>1 DEF Shifted
<1>8. b * c <= b * (p * t) /\ b * c \in Nat /\ b * (p * t) \in Nat
  BY <1>3, <1>7, TimesGrows
<1>9. b * (p * t) = (p * b) * t
  BY <1>3
<1>10. PICK x \in Nat, y \in Nat, z \in Nat : x = b * c /\ y = (p * b) * t /\ z = u * t
  BY <1>6, <1>8
<1>11. x <= y /\ y <= z
  BY <1>6, <1>8, <1>9, <1>10
<1>12. x <= z
  BY <1>10, <1>11
<1> QED  BY <1>3, <1>4, <1>10, <1>12

-----------------------------------------------------------------------------
(* What blending and perturbing make of frequencies.                         *)
LEMMA RandomizedFreqs ==
  ASSUME NEW D, NEW f \in FreqsOf(D), NEW r \in RandomizeFreqs(f)
  PROVE  r \in FreqsOf(D)
<1> DEFINE U == FreqsOf(D)
           S == SUBSET U
           P == [n \in 0 .. NumSymbols |-> S]
           step == [z \in (1 .. NumSymbols) \X S |-> WithAnother(z[2], D, z[1] - 1)]
           Is(g) == g = [n \in 0 .. NumSymbols |->
                           IF n = 0 THEN {f} ELSE WithAnother(g[n - 1], D, n - 1)]
           all == CHOOSE g : Is(g)
<1>1. NumSymbols \in Nat /\ DOMAIN f = D
  BY StatisticsAssumption DEF FreqsOf, CountsBelow
<1>2. ASSUME NEW A \in S, NEW s PROVE WithAnother(A, D, s) \in S
  <2>1. ASSUME NEW g \in A, NEW t \in D PROVE [g EXCEPT ![s] = g[t]] \in U
    <3>1. g \in [D -> 0 .. MostOften]
      BY DEF FreqsOf, CountsBelow
    <3>2. [g EXCEPT ![s] = g[t]] \in [D -> 0 .. MostOften]
      BY <3>1
    <3> QED  BY <3>2 DEF FreqsOf, CountsBelow
  <2> HIDE DEF U
  <2> QED  BY <2>1 DEF WithAnother
<1>3. {f} \in S
  OBVIOUS
<1> HIDE DEF S
<1>4. ASSUME NEW n \in 1 .. NumSymbols, NEW x \in S
      PROVE  step[<<n, x>>] = WithAnother(x, D, n - 1) /\ step[<<n, x>>] \in S
  <2>1. step[<<n, x>>] = WithAnother(x, D, n - 1)
    OBVIOUS
  <2> QED  BY <1>2, <2>1
<1> HIDE DEF step
<1>5. \E g : Is(g)
  <2>1. {f} \in P[0] /\ \A n \in 0 .. NumSymbols : P[n] = S
    BY <1>1, <1>3
  <2>2. ASSUME NEW n \in 1 .. NumSymbols, NEW x \in P[n - 1] PROVE step[<<n, x>>] \in P[n]
    <3>1. n \in 0 .. NumSymbols /\ n - 1 \in 0 .. NumSymbols
      BY <1>1
    <3> QED  BY <1>4, <2>1, <3>1
  <2> HIDE DEF P
  <2>3. Leads(step, P, NumSymbols)
    BY <2>2 DEF Leads
  <2>4. PICK g : /\ g = [n \in 0 .. NumSymbols |-> IF n = 0 THEN {f} ELSE step[<<n, g[n - 1]>>]]
                 /\ \A n \in 0 .. NumSymbols : g[n] \in P[n]
    BY <1>1, <2>1, <2>3, StepsExist
  <2>5. ASSUME NEW n \in 0 .. NumSymbols
        PROVE  (IF n = 0 THEN {f} ELSE step[<<n, g[n - 1]>>])
                 = IF n = 0 THEN {f} ELSE WithAnother(g[n - 1], D, n - 1)
    <3>1. CASE n # 0
      <4>1. n \in 1 .. NumSymbols /\ n - 1 \in 0 .. NumSymbols
        BY <1>1, <3>1
      <4>2. g[n - 1] \in S
        BY <2>1, <2>4, <4>1
      <4> QED  BY <1>4, <3>1, <4>1, <4>2
    <3> QED  BY <3>1
  <2>6. Is(g)
    BY <2>4, <2>5
  <2> HIDE DEF Is
  <2> QED  BY <2>6
<1>6. RandomizeFreqs(f) = all[NumSymbols]
  BY <1>1 DEF RandomizeFreqs, RandomizedUpTo
<1>7. Is(all)
  BY <1>5
<1> HIDE DEF all
<1>8. all[0] = {f} /\ \A n \in 1 .. NumSymbols : all[n] = WithAnother(all[n - 1], D, n - 1)
  <2>1. \A n \in 0 .. NumSymbols :
          all[n] = IF n = 0 THEN {f} ELSE WithAnother(all[n - 1], D, n - 1)
    BY <1>7
  <2> HIDE DEF Is
  <2>2. 0 \in 0 .. NumSymbols /\ \A n \in 1 .. NumSymbols : n \in 0 .. NumSymbols /\ n # 0
    BY <1>1
  <2>3. all[0] = {f}
    BY <2>1, <2>2
  <2>4. ASSUME NEW n \in 1 .. NumSymbols PROVE all[n] = WithAnother(all[n - 1], D, n - 1)
    BY <2>1, <2>2
  <2> QED  BY <2>3, <2>4
<1> DEFINE T == {n \in 0 .. NumSymbols : all[n] \in S}
<1>9. 0 \in T
  BY <1>1, <1>3, <1>8
<1>10. ASSUME NEW n \in 0 .. NumSymbols - 1, n \in T PROVE n + 1 \in T
  <2>1. n + 1 \in 1 .. NumSymbols /\ (n + 1) - 1 = n /\ n + 1 \in 0 .. NumSymbols
    BY <1>1
  <2>2. all[n + 1] = WithAnother(all[n], D, n) /\ all[n] \in S
    BY <1>8, <1>10, <2>1
  <2> QED  BY <1>2, <2>1, <2>2
<1> HIDE DEF T
<1>11. \A n \in 0 .. NumSymbols : n \in T
  BY <1>1, <1>9, <1>10, UpTo
<1>12. NumSymbols \in T
  BY <1>1, <1>11
<1> QED  BY <1>6, <1>12 DEF T, S

Halved(a, b) == a + b \div 2

LEMMA HalvedFits == \A a \in 0 .. BlockBytes, b \in 0 .. MostOften : Halved(a, b) \in 0 .. MostOften
BY BlockAssumption DEF Halved, MostOften

(* Frequencies of a parse, blended with such as were blended before, are at  *)
(* most double: half of the double is added again.                           *)
LEMMA BlendedFreqs ==
  ASSUME NEW p \in Parses, NEW last,
         last.ll \in FreqsOf(LLSymbols), last.d \in FreqsOf(DSymbols)
  PROVE  /\ AddStatFreqsHalf(p, last).ll \in FreqsOf(LLSymbols)
         /\ AddStatFreqsHalf(p, last).d \in FreqsOf(DSymbols)
<1>1. p.ll \in [LLSymbols -> 0 .. BlockBytes] /\ p.d \in [DSymbols -> 0 .. BlockBytes]
  BY BlockAssumption
<1>2. last.ll \in [LLSymbols -> 0 .. MostOften] /\ last.d \in [DSymbols -> 0 .. MostOften]
  BY DEF FreqsOf, CountsBelow
<1>3. 1 \in 0 .. MostOften
  BY BlockAssumption DEF MostOften
<1>4. /\ \A s \in LLSymbols : Halved(p.ll[s], last.ll[s]) \in 0 .. MostOften
      /\ \A s \in DSymbols : Halved(p.d[s], last.d[s]) \in 0 .. MostOften
  BY <1>1, <1>2, HalvedFits
<1>5. /\ AddStatFreqsHalf(p, last).ll
           = [s \in LLSymbols |-> IF s = EndSymbol THEN 1 ELSE Halved(p.ll[s], last.ll[s])]
      /\ AddStatFreqsHalf(p, last).d = [s \in DSymbols |-> Halved(p.d[s], last.d[s])]
  <2>1. DOMAIN p.ll = LLSymbols /\ DOMAIN p.d = DSymbols
    BY <1>1
  <2> QED  BY <2>1 DEF AddStatFreqsHalf, Halved
<1> QED  BY <1>3, <1>4, <1>5 DEF FreqsOf, CountsBelow

LEMMA ParseFreqs ==
  ASSUME NEW p \in Parses
  PROVE  p.ll \in FreqsOf(LLSymbols) /\ p.d \in FreqsOf(DSymbols)
<1>1. p.ll \in [LLSymbols -> 0 .. BlockBytes] /\ p.d \in [DSymbols -> 0 .. BlockBytes]
  BY BlockAssumption
<1>2. 0 .. BlockBytes \subseteq 0 .. MostOften
  BY BlockAssumption DEF MostOften
<1> QED  BY <1>1, <1>2 DEF FreqsOf, CountsBelow

LEMMA RandomStats ==
  ASSUME NEW last, last.ll \in FreqsOf(LLSymbols), last.d \in FreqsOf(DSymbols),
         NEW next \in RandomizeStatFreqs(last)
  PROVE  next.ll \in FreqsOf(LLSymbols) /\ next.d \in FreqsOf(DSymbols)
<1>1. PICK ll \in RandomizeFreqs(last.ll), d \in RandomizeFreqs(last.d) :
        next = [ll |-> [ll EXCEPT ![EndSymbol] = 1], d |-> d]
  BY DEF RandomizeStatFreqs
<1>2. ll \in FreqsOf(LLSymbols) /\ d \in FreqsOf(DSymbols)
  BY RandomizedFreqs
<1>3. 1 \in 0 .. MostOften
  BY BlockAssumption DEF MostOften
<1>4. ll \in [LLSymbols -> 0 .. MostOften]
  BY <1>2 DEF FreqsOf, CountsBelow
<1>5. [ll EXCEPT ![EndSymbol] = 1] \in [LLSymbols -> 0 .. MostOften]
  BY <1>3, <1>4
<1> QED  BY <1>1, <1>2, <1>5 DEF FreqsOf, CountsBelow

-----------------------------------------------------------------------------
(* The statistics a pass is given, and those of the parse that is kept, are  *)
(* the costs of frequencies that are not above MostOften.                         *)
Modelled(s) ==
  /\ s.ll \in FreqsOf(LLSymbols) /\ s.d \in FreqsOf(DSymbols)
  /\ s.ll_symbols = Entropy(s.ll, Shift) /\ s.d_symbols = Entropy(s.d, Shift)

StatsInv == Modelled(stats) /\ (round > 0 => Modelled(beststats))

LEMMA CalculatedIsModelled ==
  ASSUME NEW p, p.ll \in FreqsOf(LLSymbols), p.d \in FreqsOf(DSymbols)
  PROVE  Modelled(CalculateStatistics(p, Shift))
BY DEF Modelled, CalculateStatistics

LEMMA StatsInitially == InitIterations => StatsInv
<1> SUFFICES ASSUME InitIterations PROVE StatsInv
  OBVIOUS
<1>1. PICK p \in Parses : stats = CalculateStatistics(p, Shift)
  BY DEF InitIterations
<1>2. Modelled(stats)
  BY <1>1, ParseFreqs, CalculatedIsModelled
<1>3. round = 0
  BY DEF InitIterations
<1> QED  BY <1>2, <1>3 DEF StatsInv

LEMMA StatsStep ==
  ASSUME IterationsInv, StatsInv, NEW p \in Parses, Iteration(p)
  PROVE  StatsInv'
<1> DEFINE size == CostOf(p)
           best == IF size < bestcost THEN stats ELSE beststats
<1>1. size \in Nat /\ size < LargestCost
  BY CostIsSize
<1>2. /\ round' = round + 1 /\ beststats' = best
      /\ \E next \in IF Stabilized(size) THEN RandomizeStatFreqs(best) ELSE {Blended(p)} :
           stats' = CalculateStatistics(next, Shift)
  BY DEF Iteration
<1>3. round = 0 => bestcost = LargestCost
  BY DEF IterationsInv, BestIsKept
<1>4. round \in Nat
  BY DEF IterationsInv
<1>5. Modelled(best)
  <2>1. CASE size < bestcost
    BY <2>1 DEF StatsInv
  <2>2. CASE ~ (size < bestcost)
    <3>1. round > 0
      BY <1>1, <1>3, <1>4, <2>2
    <3> QED  BY <2>2, <3>1 DEF StatsInv
  <2> QED  BY <2>1, <2>2
<1> HIDE DEF size, best
<1>6. PICK next : /\ next \in IF Stabilized(size) THEN RandomizeStatFreqs(best) ELSE {Blended(p)}
                  /\ stats' = CalculateStatistics(next, Shift)
  BY <1>2
<1>7. next.ll \in FreqsOf(LLSymbols) /\ next.d \in FreqsOf(DSymbols)
  <2>1. CASE Stabilized(size)
    BY <1>5, <1>6, <2>1, RandomStats DEF Modelled
  <2>2. CASE ~ Stabilized(size)
    <3>1. next = Blended(p)
      BY <1>6, <2>2
    <3>2. CASE lastrandomstep = -1
      BY <3>1, <3>2, ParseFreqs DEF Blended
    <3>3. CASE lastrandomstep # -1
      <4>1. next = AddStatFreqsHalf(p, stats)
        BY <3>1, <3>3 DEF Blended
      <4>2. stats.ll \in FreqsOf(LLSymbols) /\ stats.d \in FreqsOf(DSymbols)
        BY DEF StatsInv, Modelled
      <4> QED  BY <4>1, <4>2, BlendedFreqs
    <3> QED  BY <3>2, <3>3
  <2> QED  BY <2>1, <2>2
<1>8. Modelled(CalculateStatistics(next, Shift))
  BY <1>7, CalculatedIsModelled
<1>9. Modelled(stats)'
  <2>1. ASSUME NEW s, NEW t, Modelled(s), t = s PROVE Modelled(t)
    BY <2>1
  <2> QED  BY <1>6, <1>8 DEF Modelled
<1>10. Modelled(beststats)'
  BY <1>2, <1>5 DEF Modelled
<1> QED  BY <1>9, <1>10 DEF StatsInv

(* ZopfliLZ77Optimal (squeeze.c:631-650): what the passes are given are the  *)
(* costs of frequencies no more than twice those of a block.                 *)
THEOREM StatsInvariant == IterationsSpec => []StatsInv
<1>1. IterationsInv /\ StatsInv /\ [IterationsNext]_iterationVars => StatsInv'
  <2> SUFFICES ASSUME IterationsInv, StatsInv, [IterationsNext]_iterationVars PROVE StatsInv'
    OBVIOUS
  <2>1. CASE \E p \in Parses : Iteration(p)
    BY <2>1, StatsStep
  <2>2. CASE UNCHANGED iterationVars
    BY <2>2 DEF iterationVars, StatsInv, Modelled
  <2> QED  BY <2>1, <2>2 DEF IterationsNext, IterationsDone
<1> QED  BY StatsInitially, IterationsInvariant, <1>1, PTL DEF IterationsSpec

(* ZopfliGetCostShift and ZopfliCalculateEntropy (squeeze.c:134-152,         *)
(* tree.c:95-115): for every block, however its statistics are blended and   *)
(* perturbed, no symbol has a negative cost or one above what the shift      *)
(* allows, so that the literals of a block stay below the sentinel.          *)
THEOREM SymbolCostsFit == IterationsSpec => []CostsFit
<1>1. StatsInv => CostsFit
  <2> SUFFICES ASSUME StatsInv PROVE CostsFit
    OBVIOUS
  <2>1. Modelled(stats)
    BY DEF StatsInv
  <2>2. SomeSymbols(LLSymbols) /\ SomeSymbols(DSymbols) /\ Shift \in Nat
    BY BlockAssumption, ShiftFits DEF SomeSymbols
  <2>3. /\ DOMAIN stats.ll_symbols = LLSymbols /\ DOMAIN stats.d_symbols = DSymbols
        /\ \A s \in LLSymbols : stats.ll_symbols[s] \in 0 .. Shifted(PositionBits)
        /\ \A s \in DSymbols : stats.d_symbols[s] \in 0 .. Shifted(PositionBits)
    BY <2>1, <2>2, EntropyFits DEF Modelled, Shifted
  <2>4. \A s \in LLSymbols : BlockBytes * stats.ll_symbols[s] <= TwoTo[TotalBits]
    BY <2>3, ShiftedBlockFits
  <2> QED  BY <2>3, <2>4 DEF CostsFit, Shifted
<1> QED  BY StatsInvariant, <1>1, PTL
=============================================================================
