----------------------------- MODULE LZ77Greedy -----------------------------
(***************************************************************************)
(* ZopfliLZ77Greedy of src/zopfli/lz77.c: one pass over a block with lazy  *)
(* matching.  A match is held back for one position, in case the next one  *)
(* is longer; the hash is updated for every position, also for those       *)
(* inside a match, which are not searched.  What a search returns is left  *)
(* open: any length that fits into the block, near or far.                 *)
(***************************************************************************)
EXTENDS BlockParse

CONSTANT Blocks     \* the blocks <<first, one past last>>

ASSUME BlockAssumption == \A b \in Blocks : b \in Nat \X Nat /\ b[1] < b[2]

VARIABLES
  i,                \* the loop's position, up to which the hash is updated
  match_available,  \* a match found at i - 1 is held back
  prev              \* that match: length, whether its distance is above 1024

greedyVars == <<instart, end, parsed, i, match_available, prev>>

Answers(p) == [length : {n \in 0 .. MaxMatch : p + n <= end}, far : BOOLEAN]
NoMatch == [length |-> 0, far |-> FALSE]

GetLengthScore(a) == IF a.far THEN a.length - 1 ELSE a.length

Init ==
  /\ \E b \in Blocks : instart = b[1] /\ end = b[2]
  /\ parsed = << >>
  /\ i = instart
  /\ match_available = FALSE
  /\ prev = NoMatch

PutAll(symbols) == parsed' = parsed \o symbols

GoodEnoughAny(a) == a.length > 0                                   \* mutant
GoodEnough(a) == GetLengthScore(a) >= MinMatch
MayHoldBack(a) == GoodEnough(a) /\ a.length < MaxMatch

HoldBack(a) ==
  /\ match_available' = TRUE
  /\ prev' = a
  /\ i' = i + 1

SymbolFor(a) ==
  IF GoodEnough(a) THEN Match(i, a.length, i) ELSE Literal(i)

BytesPutOfAnswer(a) == a.length                                    \* mutant
BytesPut(a) == SymbolFor(a).length

Improves(a) == GetLengthScore(a) > GetLengthScore(prev) + 1

(* The match before loses: it becomes a literal, and this one is held back   *)
(* or, if it is as long as can be, put at once.                              *)
Replace(a) ==
  /\ match_available /\ Improves(a)
  /\ IF MayHoldBack(a)
       THEN PutAll(<<Literal(i - 1)>>) /\ HoldBack(a)
       ELSE /\ PutAll(<<Literal(i - 1), SymbolFor(a)>>)
            /\ match_available' = FALSE
            /\ i' = i + BytesPut(a)
            /\ UNCHANGED prev

(* The match before wins.  It began one position back, so the loop goes on   *)
(* after length - 2 more updates.                                            *)
NextAfterPrevLate == i + prev.length                               \* mutant
NextAfterPrev == i - 1 + prev.length
KeepPrevious(a) ==
  /\ match_available /\ ~ Improves(a)
  /\ PutAll(<<Match(i - 1, prev.length, i - 1)>>)
  /\ match_available' = FALSE
  /\ i' = NextAfterPrev
  /\ UNCHANGED prev

Hold(a) ==
  /\ ~ match_available /\ MayHoldBack(a)
  /\ HoldBack(a)
  /\ UNCHANGED parsed

PutNow(a) ==
  /\ ~ match_available /\ ~ MayHoldBack(a)
  /\ PutAll(<<SymbolFor(a)>>)
  /\ i' = i + BytesPut(a)
  /\ UNCHANGED <<match_available, prev>>

(* One round of the loop: update the hash, search, and decide.               *)
Round ==
  /\ i < end
  /\ \E a \in Answers(i) : Replace(a) \/ KeepPrevious(a) \/ Hold(a) \/ PutNow(a)
  /\ UNCHANGED <<instart, end>>

Done == i >= end /\ UNCHANGED greedyVars

Next == Round \/ Done

Spec == Init /\ [][Next]_greedyVars

(* The loop goes on; its rounds are not interrupted by anything.             *)
FairSpec == Spec /\ WF_greedyVars(Round)

-----------------------------------------------------------------------------
TypeOK ==
  /\ instart \in Nat /\ end \in Nat /\ instart < end
  /\ i \in instart .. end
  /\ match_available \in BOOLEAN
  /\ prev \in [length : 0 .. MaxMatch, far : BOOLEAN]
  /\ parsed \in Seq([at : Nat, length : 1 .. MaxMatch, from : Nat])

(* A match that is held back lies in the block and is long enough to leave   *)
(* the loop another round; everything before it has been put.                *)
HeldBack ==
  /\ Covered = IF match_available THEN i - 1 ELSE i
  /\ match_available => /\ GoodEnough(prev)
                        /\ Covered + prev.length <= end

(* When the loop ends no match is left held back: the code has no statement  *)
(* after the loop that would put it.                                         *)
NothingLost == i = end => Parsed

(* The loop comes to the end of the block.                                   *)
EventuallyParsed == <>Parsed
=============================================================================
