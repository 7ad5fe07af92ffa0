---------------------------- MODULE BlockSplitter ---------------------------
(***************************************************************************)
(* ZopfliBlockSplitLZ77 of src/zopfli/blocksplitter.c: the symbols of a    *)
(* store are cut into blocks, round after round, by a point that makes the *)
(* two halves cheapest together.  The point is found by trying all of them *)
(* or, in a large block, by probing and closing in.  What a block costs is *)
(* left open: any function of the symbols between two positions.           *)
(***************************************************************************)
EXTENDS Integers, Sequences, SequencesExt

CONSTANTS
  Stores,           \* the symbol lists that are split
  Estimate(_, _, _),  \* cost of a list's symbols from a position up to another
  MaxBlocks,        \* options->blocksplittingmax, 0 for no limit
  TooSmall,         \* stores and blocks of fewer symbols are not split (10)
  FewPoints,        \* fewer points than this are all tried (1024)
  Num,              \* number of points probed at a time (9)
  LargeCost         \* ZOPFLI_LARGE_COST

ASSUME SplitAssumption ==
  /\ MaxBlocks \in Nat /\ TooSmall \in Nat \ {0, 1}
  /\ Num \in Nat \ {0, 1} /\ FewPoints \in Nat /\ Num < FewPoints /\ LargeCost \in Nat
  /\ \A w \in Stores :
       Len(w) \in Nat /\ \A l, r \in 0 .. Len(w) : l <= r => Estimate(w, l, r) \in Nat

VARIABLES
  lz77,             \* the symbols of the store
  points,           \* splitpoints
  done,             \* starts of blocks that are no longer tried
  lstart, lend,     \* the block that is tried
  low, high, pos,   \* FindMinimum: the range left, and the best point so far
  smallest,         \* its cost
  phase             \* "round", "probe", "decide", "choose", "end"

splitVars == <<lz77, points, done, lstart, lend, low, high, pos, smallest, phase>>

Size == Len(lz77)

EstimateCost(l, r) == Estimate(lz77, l, r)
SplitCost(q) == EstimateCost(lstart, q) + EstimateCost(q, lend)

Init ==
  /\ lz77 \in Stores
  /\ points = << >>
  /\ done = {}
  /\ lstart = 0 /\ lend = Size
  /\ low = 0 /\ high = 0 /\ pos = 0 /\ smallest = LargeCost
  /\ phase = IF Size < TooSmall THEN "end" ELSE "round"

-----------------------------------------------------------------------------
(* FindMinimum *)

PointsInside == lstart + 1 .. lend - 1

(* The first of the points with the least cost below LargeCost.              *)
BestOfDescent(candidates) ==                                          \* mutant
  {q \in candidates : q + 1 \in candidates => SplitCost(q) <= SplitCost(q + 1)}
BestOf(candidates) ==
  LET cheap == {q \in candidates : SplitCost(q) < LargeCost}
  IN  {q \in cheap : \A r \in cheap : /\ SplitCost(q) <= SplitCost(r)
                                      /\ SplitCost(q) = SplitCost(r) => q <= r}

EnoughBlocks == MaxBlocks > 0 /\ Len(points) + 1 >= MaxBlocks

StopAtLimit ==
  /\ phase = "round" /\ EnoughBlocks
  /\ phase' = "end"
  /\ UNCHANGED <<lz77, points, done, lstart, lend, low, high, pos, smallest>>

TryAll ==
  LET best == BestOf(PointsInside)
  IN  /\ phase = "round" /\ ~ EnoughBlocks
      /\ lend - (lstart + 1) < FewPoints
      /\ pos' \in IF best = {} THEN {lstart + 1} ELSE best
      /\ smallest' = IF best = {} THEN LargeCost ELSE SplitCost(pos')
      /\ phase' = "decide"
      /\ UNCHANGED <<lz77, points, done, lstart, lend, low, high>>

StartProbing ==
  /\ phase = "round" /\ ~ EnoughBlocks
  /\ lend - (lstart + 1) >= FewPoints
  /\ low' = lstart + 1 /\ high' = lend
  /\ pos' = lstart + 1 /\ smallest' = LargeCost
  /\ phase' = "probe"
  /\ UNCHANGED <<lz77, points, done, lstart, lend>>

Probed(n) == low + (n * ((high - low) \div (Num + 1)))

(* The probe with the least cost, the first of them if there are several.    *)
BestProbe ==
  {n \in 1 .. Num :
     \A m \in 1 .. Num : /\ SplitCost(Probed(n)) <= SplitCost(Probed(m))
                         /\ SplitCost(Probed(n)) = SplitCost(Probed(m)) => n <= m}

GivesUp(cost) == cost > smallest

(* Close in on the neighbours of the best probe, unless it is worse than the *)
(* best one of the round before.                                             *)
Probe ==
  \E n \in BestProbe :
    /\ phase = "probe" /\ high - low > Num /\ ~ GivesUp(SplitCost(Probed(n)))
    /\ low' = IF n = 1 THEN low ELSE Probed(n - 1)
    /\ high' = IF n = Num THEN high ELSE Probed(n + 1)
    /\ pos' = Probed(n)
    /\ smallest' = SplitCost(Probed(n))
    /\ UNCHANGED <<lz77, points, done, lstart, lend, phase>>

StopProbing ==
  /\ phase = "probe"
  /\ high - low <= Num \/ \E n \in BestProbe : GivesUp(SplitCost(Probed(n)))
  /\ phase' = "decide"
  /\ UNCHANGED <<lz77, points, done, lstart, lend, low, high, pos, smallest>>

-----------------------------------------------------------------------------
(* AddSorted: before the first point that is larger.                         *)
PlacesLast(value) == {Len(points) + 1}                                \* mutant
Places(value) ==
  {k \in 1 .. Len(points) + 1 : /\ \A a \in 1 .. k - 1 : points[a] <= value
                                /\ k <= Len(points) => value < points[k]}
AddSorted(value) == {InsertAt(points, k, value) : k \in Places(value)}

AddPoint ==
  /\ phase = "decide"
  /\ smallest <= EstimateCost(lstart, lend) /\ pos # lstart + 1
  /\ points' \in AddSorted(pos)
  /\ phase' = "choose"
  /\ UNCHANGED <<lz77, done, lstart, lend, low, high, pos, smallest>>

MarkDone ==
  /\ phase = "decide"
  /\ smallest > EstimateCost(lstart, lend) \/ pos = lstart + 1
  /\ done' = done \cup {lstart}
  /\ phase' = "choose"
  /\ UNCHANGED <<lz77, points, lstart, lend, low, high, pos, smallest>>

(* FindLargestSplittableBlock: the first one of the longest.  The last block *)
(* is taken to end one symbol early.                                         *)
Starts == <<0>> \o points
Ends == points \o <<Size - 1>>
SplittableAgain ==                                                    \* mutant
  {n \in DOMAIN Starts : Ends[n] > Starts[n]}
Splittable == {n \in DOMAIN Starts : Starts[n] \notin done /\ Ends[n] > Starts[n]}
Largest ==
  {n \in Splittable :
     \A m \in Splittable : /\ Ends[m] - Starts[m] <= Ends[n] - Starts[n]
                           /\ Ends[m] - Starts[m] = Ends[n] - Starts[n] => n <= m}

ChooseBlock ==
  /\ phase = "choose"
  /\ \E n \in Largest :
       /\ lstart' = Starts[n] /\ lend' = Ends[n]
       /\ phase' = IF lend' - lstart' < TooSmall THEN "end" ELSE "round"
  /\ UNCHANGED <<lz77, points, done, low, high, pos, smallest>>

NoneLeft ==
  /\ phase = "choose" /\ Largest = {}
  /\ phase' = "end"
  /\ UNCHANGED <<lz77, points, done, lstart, lend, low, high, pos, smallest>>

Step == \/ StopAtLimit \/ TryAll \/ StartProbing \/ Probe \/ StopProbing
        \/ AddPoint \/ MarkDone \/ ChooseBlock \/ NoneLeft

Finished == phase = "end" /\ UNCHANGED splitVars

Next == Step \/ Finished

Spec == Init /\ [][Next]_splitVars

(* One sequential function: it goes on as long as it can.                    *)
FairSpec == Spec /\ WF_splitVars(Step)

-----------------------------------------------------------------------------
(* The types, with the block a round may be given (blocksplitter.c:239) and  *)
(* the range FindMinimum must answer from (blocksplitter.c:242-243).         *)
TypeOK ==
  /\ points \in Seq(1 .. Size - 1)
  /\ done \subseteq 0 .. Size - 1
  /\ phase \in {"round", "probe", "decide", "choose", "end"}
  /\ phase \in {"round", "probe", "decide"} =>
       lstart \in 0 .. lend - 1 /\ lend <= Size
  /\ phase = "probe" => lstart < low /\ low < high /\ high <= lend
  /\ phase \in {"probe", "decide"} => pos \in lstart + 1 .. lend - 1
  /\ smallest \in 0 .. LargeCost

(* The blocks are never empty, in the order of the symbols, and never more   *)
(* than were allowed, although points are found in any order.                *)
PointsCutBlocks ==
  /\ TypeOK
  /\ \A n \in 1 .. Len(points) - 1 : points[n] < points[n + 1]
  /\ MaxBlocks > 0 => Len(points) + 1 <= MaxBlocks

(* The cost that decides about a split is that of the point it is made at,   *)
(* also when the last probes were worse than the ones before; among few      *)
(* points it is the least.                                                   *)
CostIsOfPoint ==
  phase = "decide" /\ smallest < LargeCost =>
    /\ smallest = SplitCost(pos)
    /\ lend - (lstart + 1) < FewPoints =>
         \A q \in lstart + 1 .. lend - 1 : smallest <= SplitCost(q)

(* A block given up is not cut later.                                        *)
IsBlock(l, r, pts) ==
  /\ r = Size \/ \E n \in 1 .. Len(pts) : pts[n] = r
  /\ \A n \in 1 .. Len(pts) : pts[n] <= l \/ r <= pts[n]
DoneStaysWhole ==
  [][\A s \in done : \A e \in s + 1 .. Size :
       IsBlock(s, e, points) => IsBlock(s, e, points')]_splitVars

(* Every round adds a point or gives a block up, so that splitting ends.     *)
SplittingEnds == <>(phase = "end")
=============================================================================
