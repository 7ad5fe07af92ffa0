-------------------------- MODULE SqueezeIterations --------------------------
(***************************************************************************)
(* The iterations of ZopfliLZ77Optimal (squeeze.c:542-656), each a pass of *)
(* Squeeze under the costs of the statistics so far: which parse is kept,  *)
(* when the size of a parse is not computed again, and the statistics the  *)
(* next pass is given, blended and perturbed once the size stays the same. *)
(* What a pass finds is left open: any parse of the block.                 *)
(***************************************************************************)
EXTENDS Statistics

CONSTANTS
  LLSymbols, DSymbols, \* the symbols of literals and lengths, and of distances
  Parses,              \* histograms of the parses of a block
  BlockBytes,          \* the bytes of the block
  EncodedSize(_),      \* size of a dynamic block with a histogram
  NumIterations,       \* the numbers of iterations that are asked for
  RandomAfter,         \* the costs are not perturbed up to this iteration (5)
  LargestCost,         \* ZOPFLI_LARGE_COST
  NoParse

ASSUME IterationsAssumption ==
  /\ NumIterations \subseteq Int /\ RandomAfter \in Nat
  /\ \A p \in Parses : EncodedSize(p) \in Nat /\ EncodedSize(p) < LargestCost

(* A symbol stands for a byte or more.  A block is so short (its bytes are   *)
(* at most ZOPFLI_MASTER_BLOCK_SIZE, deflate.c:1084-1088) that its           *)
(* frequencies, which blending at most doubles, add up to a number of        *)
(* PositionBits bits, and that the largest cost of its bytes fits unscaled.  *)
ASSUME BlockAssumption ==
  /\ LLSymbols \subseteq 0 .. NumSymbols - 1 /\ DSymbols \subseteq 0 .. NumSymbols - 1
  /\ EndSymbol \in LLSymbols /\ DSymbols # {}
  /\ BlockBytes \in Nat \ {0}
  /\ \A p \in Parses : /\ p.ll \in [LLSymbols -> 0 .. BlockBytes]
                       /\ p.d \in [DSymbols -> 0 .. BlockBytes]
  /\ NumSymbols * (2 * BlockBytes) < TwoTo[PositionBits]
  /\ PositionBits * BlockBytes <= TwoTo[TotalBits]

VARIABLES
  numiterations, round,  \* how many, and how many have been made
  stats,                 \* the statistics the next pass is given
  hist,                  \* prev_ll and prev_d
  lastcost,
  kept, bestcost, beststats,
  lastrandomstep,
  made                   \* every parse so far

iterationVars == <<numiterations, round, stats, hist, lastcost, kept, bestcost, beststats,
                   lastrandomstep, made>>

Shift == GetCostShift(BlockBytes)

(* After the greedy run.                                                     *)
InitIterations ==
  /\ \E n \in NumIterations : numiterations = Max({n, 1})
  /\ round = 0
  /\ \E p \in Parses : stats = CalculateStatistics(p, Shift)
  /\ hist = NoParse
  /\ lastcost = 0
  /\ kept = NoParse /\ bestcost = LargestCost /\ beststats = NoParse
  /\ lastrandomstep = -1
  /\ made = {}

RepeatedLengths(p) == round > 0 /\ p.ll = hist.ll                     \* mutant
Repeated(p) == round > 0 /\ p = hist
CostOf(p) == IF Repeated(p) THEN lastcost ELSE EncodedSize(p)

Blended(p) ==
  IF lastrandomstep = -1 THEN p
  ELSE AddStatFreqsHalf(p, stats)

Stabilized(cost) == round > RandomAfter /\ cost = lastcost

Iteration(p) ==
  LET cost == CostOf(p)
      better == cost < bestcost
      best == IF better THEN stats ELSE beststats
  IN  /\ round < numiterations
      /\ IF better THEN kept' = p /\ bestcost' = cost ELSE UNCHANGED <<kept, bestcost>>
      /\ beststats' = best
      /\ \E next \in IF Stabilized(cost) THEN RandomizeStatFreqs(best) ELSE {Blended(p)} :
           stats' = CalculateStatistics(next, Shift)
      /\ lastrandomstep' = IF Stabilized(cost) THEN round ELSE lastrandomstep
      /\ lastcost' = cost
      /\ hist' = p
      /\ made' = made \cup {p}
      /\ round' = round + 1
      /\ UNCHANGED numiterations

IterationsDone == round = numiterations /\ UNCHANGED iterationVars

IterationsNext == (\E p \in Parses : Iteration(p)) \/ IterationsDone

IterationsSpec == InitIterations /\ [][IterationsNext]_iterationVars

-----------------------------------------------------------------------------
(* The parse that is kept is one of those made and none of them is smaller,  *)
(* although the size of some was taken over from the one before; and there   *)
(* is one, whatever number of iterations was asked for.                      *)
KeepsBest ==
  /\ round > 0 => kept \in made /\ bestcost = EncodedSize(kept)
  /\ \A p \in made : EncodedSize(kept) <= EncodedSize(p)
  /\ round = numiterations => made # {}

(* However often frequencies are blended and perturbed: the cost of a symbol *)
(* is not negative (the comment at tree.c:107-109, the assertion at          *)
(* squeeze.c:227) and not above what the shift allows a position             *)
(* (squeeze.c:135-142), so that a block of literals stays below the sentinel.*)
CostsFit ==
  LET allowed == 0 .. PositionBits * TwoTo[Shift]
  IN  /\ \A s \in DOMAIN stats.ll_symbols : stats.ll_symbols[s] \in allowed
      /\ \A s \in DOMAIN stats.d_symbols : stats.d_symbols[s] \in allowed
      /\ \A s \in DOMAIN stats.ll_symbols :
           BlockBytes * stats.ll_symbols[s] <= TwoTo[TotalBits]
==============================================================================
