----------------------------- MODULE LZ77Proofs -----------------------------
(***************************************************************************)
(* Proofs about the two halves of src/zopfli/lz77.c.  LZ77Greedy, for      *)
(* blocks and match lengths of any size, and for anything that the search  *)
(* may return: it implements BlockParse and loses nothing.  LZ77Store, for *)
(* chunks, capacities and alphabets of any size and any number of stores:  *)
(* every access lies in the allocations, histograms are exact, and every   *)
(* store is the list that SymbolLog says.                                  *)
(***************************************************************************)
EXTENDS LZ77Greedy, LZ77Store, SequenceTheorems, FiniteSetTheorems,
        NumberLemmas

(***************************************************************************)
(* The greedy parser.                                                      *)
(***************************************************************************)
GreedySymbols == [at : Nat, length : 1 .. MaxMatch, from : Nat]

LEMMA PutOne ==
  ASSUME TypeOK, NEW s \in GreedySymbols, parsed' = parsed \o <<s>>
  PROVE  parsed' \in Seq(GreedySymbols) /\ Covered' = s.at + s.length
<1>1. parsed \in Seq(GreedySymbols) /\ <<s>> \in Seq(GreedySymbols)  BY DEF TypeOK, GreedySymbols
<1>2. Len(<<s>>) = 1 /\ <<s>>[1] = s  OBVIOUS
<1>3. /\ parsed' \in Seq(GreedySymbols)
      /\ Len(parsed') = Len(parsed) + 1
      /\ parsed'[Len(parsed) + 1] = s
  BY <1>1, <1>2, ConcatProperties, LenProperties
<1>4. parsed' # << >>  BY <1>1, <1>3, LenProperties
<1> QED  BY <1>3, <1>4 DEF Covered

LEMMA PutTwo ==
  ASSUME TypeOK, NEW s \in GreedySymbols, NEW t \in GreedySymbols,
         parsed' = parsed \o <<s, t>>
  PROVE  parsed' \in Seq(GreedySymbols) /\ Covered' = t.at + t.length
<1>1. parsed \in Seq(GreedySymbols) /\ <<s, t>> \in Seq(GreedySymbols)
  BY DEF TypeOK, GreedySymbols
<1>2. Len(<<s, t>>) = 2 /\ <<s, t>>[2] = t  OBVIOUS
<1>3. /\ parsed' \in Seq(GreedySymbols)
      /\ Len(parsed') = Len(parsed) + 2
      /\ parsed'[Len(parsed) + 2] = t
  BY <1>1, <1>2, ConcatProperties, LenProperties
<1>4. parsed' # << >>  BY <1>1, <1>3, LenProperties
<1> QED  BY <1>3, <1>4 DEF Covered

LEMMA CoveredType == TypeOK => Covered \in Nat
<1> SUFFICES ASSUME TypeOK PROVE Covered \in Nat  OBVIOUS
<1>1. CASE parsed = << >>  BY <1>1 DEF Covered, TypeOK
<1>2. CASE parsed # << >>
  <2>1. parsed \in Seq(GreedySymbols)  BY DEF TypeOK, GreedySymbols
  <2>2. Len(parsed) \in 1 .. Len(parsed)  BY <1>2, <2>1, LenProperties
  <2>3. parsed[Len(parsed)] \in GreedySymbols  BY <2>1, <2>2, ElementOfSeq
  <2> QED  BY <1>2, <2>3, ParseAssumption DEF Covered, GreedySymbols
<1> QED  BY <1>1, <1>2

(* What Symbol allows at a position.                                         *)
LEMMA SymbolFits ==
  ASSUME NEW p \in Nat, end \in Nat, p < end, NEW s \in Symbol(p)
  PROVE  /\ s \in GreedySymbols /\ s.at = p
         /\ s.length \in 1 .. MaxMatch /\ p + s.length <= end
<1>1. CASE s = Literal(p)  BY <1>1, ParseAssumption DEF Literal, GreedySymbols
<1>2. ASSUME NEW n \in MinMatch .. MaxMatch, p + n <= end, s = Match(p, n, p)
      PROVE  /\ s \in GreedySymbols /\ s.at = p
             /\ s.length \in 1 .. MaxMatch /\ p + s.length <= end
  BY <1>2, ParseAssumption DEF Match, GreedySymbols
<1> QED  BY <1>1, <1>2 DEF Symbol

LEMMA LiteralIsSymbol ==
  ASSUME NEW p \in Nat
  PROVE  Literal(p) \in Symbol(p) /\ Literal(p).length = 1
BY DEF Literal, Symbol

LEMMA SymbolForFits ==
  ASSUME NEW a \in Answers(i), i \in Nat
  PROVE  SymbolFor(a) \in Symbol(i)
<1>1. CASE GoodEnough(a)
  <2>1. a.length \in MinMatch .. MaxMatch /\ i + a.length <= end
    BY <1>1, ParseAssumption DEF Answers, GoodEnough, GetLengthScore
  <2> QED  BY <1>1, <2>1 DEF SymbolFor, Symbol
<1>2. CASE ~ GoodEnough(a)  BY <1>2 DEF SymbolFor, Symbol
<1> QED  BY <1>1, <1>2

LEMMA EmitOne ==
  ASSUME NEW s \in Symbol(Covered), Covered < end, parsed' = parsed \o <<s>>,
         UNCHANGED <<instart, end>>
  PROVE  Emit
BY Zenon DEF Emit

LEMMA EmitTwo ==
  ASSUME NEW s \in Symbol(Covered), Covered < end, s.at + s.length < end,
         NEW t \in Symbol(s.at + s.length), parsed' = parsed \o <<s, t>>,
         UNCHANGED <<instart, end>>
  PROVE  Emit
BY Zenon DEF Emit

LEMMA TypeOKAfter ==
  ASSUME TypeOK, UNCHANGED <<instart, end>>, parsed' \in Seq(GreedySymbols),
         i' \in instart .. end, match_available' \in BOOLEAN,
         prev' \in [length : 0 .. MaxMatch, far : BOOLEAN]
  PROVE  TypeOK'
BY Zenon DEF TypeOK, GreedySymbols

Inv == TypeOK /\ HeldBack

LEMMA InitInv == Init => Inv
<1> SUFFICES ASSUME Init PROVE Inv  OBVIOUS
<1>1. TypeOK
  <2>1. /\ instart \in Nat /\ end \in Nat /\ instart < end
        /\ i \in instart .. end
    BY BlockAssumption DEF Init
  <2>2. NoMatch \in [length : 0 .. MaxMatch, far : BOOLEAN]
    BY ParseAssumption DEF NoMatch
  <2>3. parsed \in Seq([at : Nat, length : 1 .. MaxMatch, from : Nat])
    BY EmptySeq DEF Init
  <2>4. match_available \in BOOLEAN /\ prev = NoMatch  BY DEF Init
  <2> QED  BY <2>1, <2>2, <2>3, <2>4 DEF TypeOK
<1>2. HeldBack  BY DEF Init, HeldBack, Covered
<1> QED  BY <1>1, <1>2 DEF Inv

(* A round keeps the invariant and is a step of BlockParse.                  *)
LEMMA RoundStep ==
  ASSUME Inv, Round
  PROVE  Inv' /\ [Emit]_<<instart, end, parsed>>
<1>1. PICK a \in Answers(i) :
        Replace(a) \/ KeepPrevious(a) \/ Hold(a) \/ PutNow(a)
  BY DEF Round
<1>2. /\ TypeOK /\ Covered \in Nat /\ i \in Nat /\ end \in Nat /\ i < end
      /\ UNCHANGED <<instart, end>>
  BY CoveredType DEF Inv, Round, TypeOK
<1>3. /\ a \in [length : 0 .. MaxMatch, far : BOOLEAN]
      /\ i + a.length <= end
      /\ GoodEnough(a) => a.length \in MinMatch .. MaxMatch
  BY <1>2, ParseAssumption DEF Answers, GoodEnough, GetLengthScore
<1>4. /\ Covered = IF match_available THEN i - 1 ELSE i
      /\ match_available => /\ prev.length \in MinMatch .. MaxMatch
                            /\ Covered + prev.length <= end
  BY <1>2, ParseAssumption DEF Inv, HeldBack, TypeOK, GoodEnough, GetLengthScore
<1>5. CASE Hold(a)
  <2>1. Covered' = Covered  BY <1>2, <1>5 DEF Hold, Covered
  <2>2. TypeOK'  BY <1>2, <1>3, <1>5, ParseAssumption DEF Hold, HoldBack, MayHoldBack, TypeOK
  <2>3. HeldBack'
    BY <1>2, <1>3, <1>4, <1>5, <2>1 DEF Hold, HoldBack, MayHoldBack, HeldBack, GoodEnough, GetLengthScore
  <2> QED  BY <1>2, <1>5, <2>2, <2>3 DEF Inv, Hold
<1>6. CASE KeepPrevious(a)
  <2>1. match_available /\ Covered = i - 1 /\ i - 1 \in Nat
    BY <1>2, <1>4, <1>6 DEF KeepPrevious
  <2>2. PICK s : s = Match(i - 1, prev.length, i - 1)  OBVIOUS
  <2>3. s \in Symbol(i - 1) /\ s.length = prev.length
    BY <1>4, <2>1, <2>2 DEF Symbol, Match
  <2>4. parsed' = parsed \o <<s>>  BY <1>6, <2>2 DEF KeepPrevious, PutAll
  <2>5. /\ s \in GreedySymbols /\ s.at = i - 1 /\ s.length \in 1 .. MaxMatch
        /\ i - 1 + s.length <= end
    BY <1>2, <2>1, <2>3, SymbolFits
  <2>6. parsed' \in Seq(GreedySymbols) /\ Covered' = i - 1 + prev.length
    BY <1>2, <2>3, <2>4, <2>5, PutOne
  <2>7. i' = i - 1 + prev.length /\ match_available' = FALSE /\ prev' = prev
    BY <1>6 DEF KeepPrevious, NextAfterPrev
  <2>8. TypeOK'
    <3>1. i' \in instart .. end
      BY <1>2, <1>4, <2>1, <2>7, ParseAssumption DEF TypeOK
    <3> QED  BY <1>2, <2>6, <2>7, <3>1, TypeOKAfter DEF TypeOK
  <2>9. HeldBack'  BY <2>6, <2>7 DEF HeldBack
  <2>10. Emit
    <3>1. s \in Symbol(Covered) /\ Covered < end  BY <1>2, <2>1, <2>3
    <3> QED  BY <1>2, <2>4, <3>1, EmitOne
  <2> QED  BY <2>8, <2>9, <2>10 DEF Inv
<1>7. CASE PutNow(a)
  <2>1. ~ match_available /\ Covered = i  BY <1>4, <1>7 DEF PutNow
  <2>2. PICK s : s = SymbolFor(a)  OBVIOUS
  <2>3. s \in Symbol(i)  BY <1>2, <2>2, SymbolForFits
  <2>4. parsed' = parsed \o <<s>>  BY <1>7, <2>2 DEF PutNow, PutAll
  <2>5. /\ s \in GreedySymbols /\ s.at = i /\ s.length \in 1 .. MaxMatch
        /\ i + s.length <= end
    BY <1>2, <2>3, SymbolFits
  <2>6. parsed' \in Seq(GreedySymbols) /\ Covered' = i + s.length
    BY <1>2, <2>4, <2>5, PutOne
  <2>7. i' = i + s.length /\ match_available' = FALSE /\ prev' = prev
    BY <1>2, <1>7, <2>1, <2>2 DEF PutNow, BytesPut, TypeOK
  <2>8. TypeOK'
    <3>1. i' \in instart .. end  BY <1>2, <2>5, <2>7 DEF TypeOK
    <3> QED  BY <1>2, <2>6, <2>7, <3>1, TypeOKAfter DEF TypeOK
  <2>9. HeldBack'  BY <2>6, <2>7 DEF HeldBack
  <2>10. Emit
    <3>1. s \in Symbol(Covered) /\ Covered < end  BY <1>2, <2>1, <2>3
    <3> QED  BY <1>2, <2>4, <3>1, EmitOne
  <2> QED  BY <2>8, <2>9, <2>10 DEF Inv
<1>8. ASSUME Replace(a), MayHoldBack(a)
      PROVE  Inv' /\ [Emit]_<<instart, end, parsed>>
  <2>1. match_available /\ Covered = i - 1 /\ i - 1 \in Nat
    BY <1>2, <1>4, <1>8 DEF Replace
  <2>2. PICK s : s = Literal(i - 1)  OBVIOUS
  <2>3. s \in Symbol(i - 1) /\ s.length = 1  BY <2>1, <2>2, LiteralIsSymbol
  <2>4. parsed' = parsed \o <<s>>  BY <1>8, <2>2 DEF Replace, PutAll
  <2>5. s \in GreedySymbols /\ s.at = i - 1  BY <1>2, <2>1, <2>3, SymbolFits
  <2>6. parsed' \in Seq(GreedySymbols) /\ Covered' = i
    BY <1>2, <2>3, <2>4, <2>5, PutOne
  <2>7. i' = i + 1 /\ match_available' = TRUE /\ prev' = a /\ GoodEnough(a)
    BY <1>8 DEF Replace, HoldBack, MayHoldBack
  <2>8. TypeOK'
    <3>1. i' \in instart .. end
      BY <1>2, <1>3, <2>7, ParseAssumption DEF TypeOK
    <3> QED  BY <1>2, <1>3, <2>6, <2>7, <3>1, TypeOKAfter
  <2>9. HeldBack'
    BY <1>2, <1>3, <2>6, <2>7 DEF HeldBack, GoodEnough, GetLengthScore
  <2>10. Emit
    <3>1. s \in Symbol(Covered) /\ Covered < end  BY <1>2, <2>1, <2>3
    <3> QED  BY <1>2, <2>4, <3>1, EmitOne
  <2> QED  BY <2>8, <2>9, <2>10 DEF Inv
<1>9. ASSUME Replace(a), ~ MayHoldBack(a)
      PROVE  Inv' /\ [Emit]_<<instart, end, parsed>>
  <2>1. match_available /\ Covered = i - 1 /\ i - 1 \in Nat
    BY <1>2, <1>4, <1>9 DEF Replace
  <2>2. PICK s : s = Literal(i - 1)  OBVIOUS
  <2>3. PICK t : t = SymbolFor(a)  OBVIOUS
  <2>4. /\ s \in Symbol(i - 1) /\ s.length = 1
        /\ t \in Symbol(i)
    BY <1>2, <2>1, <2>2, <2>3, LiteralIsSymbol, SymbolForFits
  <2>5. parsed' = parsed \o <<s, t>>  BY <1>9, <2>2, <2>3 DEF Replace, PutAll
  <2>6. s \in GreedySymbols /\ s.at = i - 1  BY <1>2, <2>1, <2>4, SymbolFits
  <2>7. /\ t \in GreedySymbols /\ t.at = i /\ t.length \in 1 .. MaxMatch
        /\ i + t.length <= end
    BY <1>2, <2>4, SymbolFits
  <2>8. parsed' \in Seq(GreedySymbols) /\ Covered' = i + t.length
    BY <1>2, <2>5, <2>6, <2>7, PutTwo
  <2>9. i' = i + t.length /\ match_available' = FALSE /\ prev' = prev
    BY <1>9, <2>3 DEF Replace, BytesPut
  <2>10. TypeOK'
    <3>1. i' \in instart .. end  BY <1>2, <2>7, <2>9 DEF TypeOK
    <3> QED  BY <1>2, <2>8, <2>9, <3>1, TypeOKAfter DEF TypeOK
  <2>11. HeldBack'  BY <2>8, <2>9 DEF HeldBack
  <2>12. s.at + s.length = i  BY <1>2, <2>4, <2>6
  <2>13. Emit
    <3>1. s \in Symbol(Covered) /\ Covered < end /\ s.at + s.length < end
      BY <1>2, <2>1, <2>4, <2>12
    <3>2. t \in Symbol(s.at + s.length)  BY <2>4, <2>12
    <3> QED  BY <1>2, <2>5, <3>1, <3>2, EmitTwo
  <2> QED  BY <2>10, <2>11, <2>13 DEF Inv
<1> QED  BY <1>1, <1>5, <1>6, <1>7, <1>8, <1>9

LEMMA NextStep == Inv /\ [Next]_greedyVars => Inv' /\ [Emit]_<<instart, end, parsed>>
<1> SUFFICES ASSUME Inv, [Next]_greedyVars
             PROVE  Inv' /\ [Emit]_<<instart, end, parsed>>
  OBVIOUS
<1>1. CASE Round  BY <1>1, RoundStep
<1>2. CASE UNCHANGED greedyVars
  <2>1. Covered' = Covered  BY <1>2 DEF greedyVars, Covered
  <2>2. TypeOK'  BY <1>2 DEF Inv, TypeOK, greedyVars
  <2>3. HeldBack'
    BY <1>2, <2>1 DEF Inv, HeldBack, greedyVars, GoodEnough, GetLengthScore
  <2> QED  BY <1>2, <2>2, <2>3 DEF Inv, greedyVars
<1> QED  BY <1>1, <1>2 DEF Next, Done

(* The loop's position stays in the block and the store holds only symbols   *)
(* of legal lengths (lz77.c:732-789 and the asserts on i).                   *)
THEOREM TypeCorrect == Spec => []TypeOK
<1>1. Inv /\ [Next]_greedyVars => Inv'  BY NextStep
<1>2. Inv => TypeOK  BY DEF Inv
<1> QED  BY InitInv, <1>1, <1>2, PTL DEF Spec

(* A match held back always has another round to be put in (lz77.c:768-773). *)
THEOREM HeldBackFits == Spec => []HeldBack
<1>1. Inv /\ [Next]_greedyVars => Inv'  BY NextStep
<1>2. Inv => HeldBack  BY DEF Inv
<1> QED  BY InitInv, <1>1, <1>2, PTL DEF Spec

(* When the loop ends every byte of the block is in the store, although      *)
(* nothing is put after the loop.                                            *)
THEOREM NothingIsLost == Spec => []NothingLost
<1>1. Inv /\ [Next]_greedyVars => Inv'  BY NextStep
<1>2. Inv => NothingLost
  <2> SUFFICES ASSUME Inv, i = end PROVE Parsed  BY DEF NothingLost
  <2>1. ~ match_available
    <3> SUFFICES ASSUME match_available PROVE FALSE  OBVIOUS
    <3>1. Covered = end - 1 /\ Covered + prev.length <= end /\ GoodEnough(prev)
      BY DEF Inv, HeldBack
    <3>2. prev.length >= 2
      BY <3>1, ParseAssumption DEF Inv, TypeOK, GoodEnough, GetLengthScore
    <3> QED  BY <3>1, <3>2, CoveredType DEF Inv, TypeOK
  <2> QED  BY <2>1 DEF Inv, HeldBack, Parsed
<1> QED  BY InitInv, <1>1, <1>2, PTL DEF Spec

(* The greedy parser implements the abstract one: its symbols follow one     *)
(* another through the block, and every match is put where it was found.     *)
THEOREM GreedyParses == Spec => ParseSpec
<1>1. Init => ParseInit  BY BlockAssumption DEF Init, ParseInit
<1>2. Inv /\ [Next]_greedyVars => Inv'  BY NextStep
<1>3. Inv /\ [Next]_greedyVars => [Emit]_<<instart, end, parsed>>  BY NextStep
<1> QED  BY InitInv, <1>1, <1>2, <1>3, PTL DEF Spec, ParseSpec

(***************************************************************************)
(* The stores.                                                             *)
(***************************************************************************)
-----------------------------------------------------------------------------
(* Division, rounded up.                                                     *)
(* What is allocated in chunks of n has room for all of cap.                 *)
LEMMA CeilCovers ==
  ASSUME NEW n \in Nat \ {0}, NEW cap \in Nat
  PROVE  /\ CeilDiv(cap, n) \in Nat /\ n * CeilDiv(cap, n) \in Nat
         /\ \A c \in Nat : n * c < cap => n * c + n <= n * CeilDiv(cap, n)
<1>1. cap + n - 1 \in Nat
  OBVIOUS
<1>2. PICK q \in Nat, r \in 0 .. n - 1 : cap + n - 1 = n * q + r /\ q = CeilDiv(cap, n)
  BY <1>1, DivIs DEF CeilDiv
<1>3. n * q \in Nat /\ n * q >= cap
  BY <1>2, Product
<1>4. ASSUME NEW c \in Nat, n * c < cap PROVE n * c + n <= n * q
  <2>1. n * c \in Nat
    BY Product
  <2>2. ~ (q < c) /\ q # c
    <3>1. CASE q = c
      BY <1>3, <1>4, <2>1, <3>1
    <3>2. CASE q < c
      <4>1. n * q + n <= n * c
        BY <3>2, Further
      <4> QED  BY <1>3, <1>4, <2>1, <4>1
    <3> QED  BY <3>1, <3>2
  <2>3. c < q
    BY <2>2
  <2> QED  BY <2>3, Further
<1> QED  BY <1>2, <1>3, <1>4

LEMMA FloorCovers ==
  ASSUME NEW n \in Nat \ {0}, NEW cap \in Nat, NEW c \in Nat, n * c < cap
  PROVE  cap \div n \in Nat /\ c <= cap \div n
<1>1. PICK q \in Nat, r \in 0 .. n - 1 : cap = n * q + r /\ q = cap \div n
  BY DivIs
<1>2. n * q \in Nat /\ n * c \in Nat
  BY Product
<1>3. ASSUME q < c PROVE FALSE
  <2>1. n * q + n <= n * c
    BY <1>3, Further
  <2> QED  BY <1>1, <1>2, <2>1
<1> QED  BY <1>1, <1>3

-----------------------------------------------------------------------------
(* Counting.                                                                 *)
CountIn(f, v, a, b) == Cardinality({j \in a .. b - 1 : f[j] = v})
CountOf(f, v, m) == Cardinality({j \in 0 .. m - 1 : f[j] = v})

LEMMA CountSplits ==
  ASSUME NEW f, NEW v, NEW a \in Nat, NEW b \in Nat, a <= b
  PROVE  /\ CountOf(f, v, a) \in Nat /\ CountOf(f, v, b) \in Nat
         /\ CountIn(f, v, a, b) \in Nat
         /\ CountOf(f, v, b) = CountOf(f, v, a) + CountIn(f, v, a, b)
<1> DEFINE A == {j \in 0 .. a - 1 : f[j] = v}
           B == {j \in a .. b - 1 : f[j] = v}
           C == {j \in 0 .. b - 1 : f[j] = v}
<1>1. IsFiniteSet(A) /\ IsFiniteSet(B) /\ IsFiniteSet(C)
  <2>1. IsFiniteSet(0 .. a - 1) /\ IsFiniteSet(a .. b - 1) /\ IsFiniteSet(0 .. b - 1)
    BY FS_Interval
  <2>2. A \in SUBSET (0 .. a - 1) /\ B \in SUBSET (a .. b - 1) /\ C \in SUBSET (0 .. b - 1)
    OBVIOUS
  <2> QED  BY <2>1, <2>2, FS_Subset
<1>2. A \cup B = C /\ A \cap B = {}
  <2>1. \A j \in 0 .. b - 1 : j \in 0 .. a - 1 \/ j \in a .. b - 1
    OBVIOUS
  <2>2. \A j \in 0 .. a - 1 : j \in 0 .. b - 1 /\ j \notin a .. b - 1
    OBVIOUS
  <2>3. \A j \in a .. b - 1 : j \in 0 .. b - 1
    OBVIOUS
  <2> QED  BY <2>1, <2>2, <2>3
<1> HIDE DEF A, B, C
<1>3. Cardinality(C) = Cardinality(A) + Cardinality(B) - Cardinality(A \cap B)
  BY <1>1, <1>2, FS_Union
<1>4. Cardinality(A \cap B) = 0
  BY <1>2, FS_EmptySet
<1>5. Cardinality(A) \in Nat /\ Cardinality(B) \in Nat /\ Cardinality(C) \in Nat
  BY <1>1, FS_CardinalityType
<1>6. Cardinality(C) = Cardinality(A) + Cardinality(B)
  BY <1>3, <1>4, <1>5
<1> QED  BY <1>5, <1>6 DEF A, B, C, CountOf, CountIn

LEMMA CountNext ==
  ASSUME NEW f, NEW v, NEW m \in Nat
  PROVE  /\ CountOf(f, v, m) \in Nat /\ CountOf(f, v, 0) = 0
         /\ CountOf(f, v, m + 1) = CountOf(f, v, m) + (IF f[m] = v THEN 1 ELSE 0)
<1> DEFINE B == {j \in m .. (m + 1) - 1 : f[j] = v}
<1>1. CountOf(f, v, m) \in Nat /\ CountOf(f, v, m + 1) = CountOf(f, v, m) + Cardinality(B)
  <2>1. m + 1 \in Nat /\ m <= m + 1
    OBVIOUS
  <2> QED  BY <2>1, CountSplits DEF CountIn
<1>2. B = IF f[m] = v THEN {m} ELSE {}
  <2>1. m .. (m + 1) - 1 = {m}
    OBVIOUS
  <2> QED  BY <2>1
<1>3. Cardinality({m}) = 1 /\ Cardinality({}) = 0
  BY FS_Singleton, FS_EmptySet
<1>4. CountOf(f, v, 0) = 0
  <2>1. {j \in 0 .. 0 - 1 : f[j] = v} = {}
    OBVIOUS
  <2> QED  BY <1>3, <2>1 DEF CountOf
<1> QED  BY <1>1, <1>2, <1>3, <1>4

-----------------------------------------------------------------------------
(* The invariant of a store.                                                 *)
Lesser(a, b) == IF a < b THEN a ELSE b

ArraysOf(V) == UNION {[0 .. n - 1 -> V] : n \in Nat}
StoreType ==
  [ size : Nat, cap : Nat, symbols : ArraysOf(Symbols \cup {Garbage}),
    chunks : ArraysOf(Nat \cup {Garbage}), ll : ArraysOf(Int \cup {Garbage}),
    d : ArraysOf(Int \cup {Garbage}), counted : Nat ]

(* An array of counts in chunks of num has room for cap symbols.             *)
HasRoom(array, num, cap) ==
  \A c \in Nat, v \in 0 .. num - 1 : num * c < cap => num * c + v \in DOMAIN array

Room(st) ==
  /\ st \in StoreType
  /\ st.counted <= st.size /\ st.size <= st.cap
  /\ DOMAIN st.symbols = 0 .. st.cap - 1
  /\ \A j \in 0 .. st.size - 1 : st.symbols[j] \in Symbols
  /\ \A c \in Nat : PosChunk * c < st.cap => c \in DOMAIN st.chunks
  /\ st.ll = Array(0) => st.d = Array(0) /\ st.counted = 0
  /\ st.ll # Array(0) => /\ st.d # Array(0) /\ st.cap > 0
                         /\ HasRoom(st.ll, NumLL, st.cap) /\ HasRoom(st.d, NumD, st.cap)

(* What a chunk of cumulative counts holds when n symbols f are counted.     *)
Tallies(array, num, f, n) ==
  \A c \in Nat, v \in 0 .. num - 1 :
    num * c < n => array[num * c + v] = CountOf(f, v, Lesser(n, num * c + num))

LLOf(st) == [j \in 0 .. st.size - 1 |-> LLSymbol(st.symbols[j])]
DOf(st) == [j \in 0 .. st.size - 1 |-> DSymbol(st.symbols[j])]

CountsTrue(st, n) ==
  Tallies(st.ll, NumLL, LLOf(st), n) /\ Tallies(st.d, NumD, DOf(st), n)

(* One symbol more is counted; -1 is none.                                   *)
CountedIn(array, j, num, v) ==
  IF v = -1 THEN Opened(array, j, num)
  ELSE [Opened(array, j, num) EXCEPT ![num * (j \div num) + v] = @ + 1]

LEMMA TallyOne ==
  ASSUME NEW num \in Nat \ {0}, NEW cap \in Nat, NEW j \in Nat, j < cap,
         NEW f, f[j] \in (0 .. num - 1) \cup {-1},
         NEW a, HasRoom(a, num, cap), Tallies(a, num, f, j),
         a \in [DOMAIN a -> Int \cup {Garbage}]
  PROVE  /\ DOMAIN CountedIn(a, j, num, f[j]) = DOMAIN a
         /\ CountedIn(a, j, num, f[j]) \in [DOMAIN a -> Int \cup {Garbage}]
         /\ Tallies(CountedIn(a, j, num, f[j]), num, f, j + 1)
<1>1. PICK q \in Nat, r \in 0 .. num - 1 :
        q = j \div num /\ r = j % num /\ j = num * q + r
  BY DivIs
<1>1a. PICK m \in Nat : m = num * q
  BY Product
<1>1b. j = m + r
  BY <1>1, <1>1a
<1>2. num * q = m /\ num * q \in Nat /\ m <= j /\ m < cap
  <2>1. m <= j /\ m < cap
    BY <1>1b
  <2> QED  BY <1>1a, <2>1
<1> DEFINE o == Opened(a, j, num)
           b == CountedIn(a, j, num, f[j])
(* What is opened are the counts of chunk q.                                 *)
<1>3. /\ r # 0 => o = a
      /\ r = 0 => o = [k \in DOMAIN a |-> IF k \notin j .. j + num - 1 THEN a[k]
                                          ELSE IF j = 0 THEN 0 ELSE a[k - num]]
  BY <1>1 DEF Opened
<1> HIDE DEF o
<1>4. ASSUME r = 0, j # 0, NEW k \in j .. j + num - 1
      PROVE  k - num \in DOMAIN a
  <2>1. PICK v \in 0 .. num - 1 : k = num * q + v
    <3>1. j = m
      BY <1>1b, <1>4
    <3>2. k - m \in 0 .. num - 1 /\ k = m + (k - m)
      BY <3>1
    <3> QED  BY <1>2, <3>2
  <2>2. PICK p \in Nat : q = p + 1
    <3>1. q # 0
      BY <1>1, <1>4
    <3>2. q - 1 \in Nat /\ q = (q - 1) + 1
      BY <3>1
    <3> QED  BY <3>2
  <2>3. num * q = num * p + num /\ num * p \in Nat
    BY <2>2, Product
  <2>4. num * p < cap /\ k - num = num * p + v
    BY <1>2, <2>1, <2>3
  <2> QED  BY <2>4 DEF HasRoom
<1>5. DOMAIN o = DOMAIN a /\ o \in [DOMAIN a -> Int \cup {Garbage}]
  <2>1. CASE r # 0
    BY <1>3, <2>1
  <2>2. CASE r = 0
    BY <1>3, <1>4, <2>2
  <2> QED  BY <2>1, <2>2
(* So far as chunks are in use, they hold the counts before symbol j.        *)
<1>6. ASSUME NEW c \in Nat, NEW v \in 0 .. num - 1, num * c < j + 1
      PROVE  /\ num * c + v \in DOMAIN a
             /\ c # q => /\ o[num * c + v] = CountOf(f, v, Lesser(j + 1, num * c + num))
                         /\ num * c + v < num * q
             /\ c = q => /\ o[num * c + v] = CountOf(f, v, j)
                         /\ Lesser(j + 1, num * c + num) = j + 1
  <2>1. num * c \in Nat /\ num * c < cap
    BY <1>6, Product
  <2>2. num * c + v \in DOMAIN a
    BY <2>1 DEF HasRoom
  <2>3. CASE c # q
    <3>1. c < q
      <4>1. CASE q < c
        <5>1. num * q + num <= num * c
          BY <4>1, Further
        <5> QED  BY <1>1, <1>2, <1>6, <2>1, <5>1
      <4> QED  BY <2>3, <4>1
    <3>2. num * c + num <= num * q
      BY <3>1, Further
    <3>3. /\ num * c + v < num * q /\ num * c < j
          /\ Lesser(j + 1, num * c + num) = num * c + num
          /\ Lesser(j, num * c + num) = num * c + num
      BY <1>2, <2>1, <3>2 DEF Lesser
    <3>4. a[num * c + v] = CountOf(f, v, num * c + num)
      BY <3>3 DEF Tallies
    <3>5. o[num * c + v] = a[num * c + v]
      <4>1. CASE r # 0
        BY <1>3, <4>1
      <4>2. CASE r = 0
        <5>1. num * c + v \notin j .. j + num - 1
          BY <1>1, <1>2, <2>1, <3>3, <4>2
        <5> QED  BY <1>3, <2>2, <4>2, <5>1
      <4> QED  BY <4>1, <4>2
    <3> QED  BY <2>2, <2>3, <3>3, <3>4, <3>5
  <2>4. CASE c = q
    <3>1. Lesser(j + 1, num * c + num) = j + 1
      <4>1. num * c = m
        BY <1>2, <2>4
      <4>2. Lesser(j + 1, m + num) = j + 1
        BY <1>1b DEF Lesser
      <4> QED  BY <4>1, <4>2
    <3>2. CASE r # 0
      <4>1. num * c < j /\ Lesser(j, num * c + num) = j
        <5>1. num * c = m
          BY <1>2, <2>4
        <5>2. m < j /\ Lesser(j, m + num) = j
          BY <1>1b, <3>2 DEF Lesser
        <5> QED  BY <5>1, <5>2
      <4>2. a[num * c + v] = CountOf(f, v, j)
        BY <4>1 DEF Tallies
      <4> QED  BY <1>3, <2>2, <2>4, <3>1, <3>2, <4>2
    <3>3. CASE r = 0
      <4>1. j = num * q /\ num * c + v \in j .. j + num - 1
        <5>1. j = m /\ num * c = m
          BY <1>1b, <1>2, <2>4, <3>3
        <5>2. m + v \in j .. j + num - 1
          BY <5>1
        <5> QED  BY <1>2, <5>1, <5>2
      <4>2. CASE j = 0
        <5>1. o[num * c + v] = 0
          BY <1>3, <2>2, <3>3, <4>1, <4>2
        <5>2. CountOf(f, v, 0) = 0
          BY CountNext
        <5> QED  BY <2>2, <2>4, <3>1, <4>2, <5>1, <5>2
      <4>3. CASE j # 0
        <5>1. PICK p \in Nat : q = p + 1
          <6>1. q # 0
            BY <1>1, <3>3, <4>3
          <6>2. q - 1 \in Nat /\ q = (q - 1) + 1
            BY <6>1
          <6> QED  BY <6>2
        <5>2. num * q = num * p + num /\ num * p \in Nat
          BY <5>1, Product
        <5>3. /\ num * p < j /\ Lesser(j, num * p + num) = j
              /\ (num * c + v) - num = num * p + v
          BY <2>4, <4>1, <5>2 DEF Lesser
        <5>4. a[num * p + v] = CountOf(f, v, j)
          BY <5>3 DEF Tallies
        <5>5. o[num * c + v] = a[(num * c + v) - num]
          BY <1>3, <2>2, <3>3, <4>1, <4>3
        <5> QED  BY <2>2, <2>4, <3>1, <5>3, <5>4, <5>5
      <4> QED  BY <4>2, <4>3
    <3> QED  BY <3>2, <3>3
  <2> QED  BY <2>3, <2>4
<1>7. CASE f[j] = -1
  <2>1. b = o
    BY <1>7 DEF CountedIn, o
  <2>2. Tallies(b, num, f, j + 1)
    <3> SUFFICES ASSUME NEW c \in Nat, NEW v \in 0 .. num - 1, num * c < j + 1
                 PROVE  b[num * c + v] = CountOf(f, v, Lesser(j + 1, num * c + num))
      BY DEF Tallies
    <3>1. CASE c # q
      BY <1>6, <2>1, <3>1
    <3>2. CASE c = q
      <4>1. f[j] # v
        BY <1>7
      <4>2. CountOf(f, v, j + 1) = CountOf(f, v, j) /\ CountOf(f, v, j) \in Nat
        BY <4>1, CountNext
      <4> QED  BY <1>6, <2>1, <3>2, <4>2
    <3> QED  BY <3>1, <3>2
  <2> QED  BY <1>5, <2>1, <2>2
<1>8. CASE f[j] # -1
  <2>1. PICK w \in 0 .. num - 1 : w = f[j]
    BY <1>8
  <2>2. b = [o EXCEPT ![num * q + w] = @ + 1]
    BY <1>1, <1>8, <2>1 DEF CountedIn, o
  <2>3. /\ num * q < j + 1 /\ num * q + w \in DOMAIN a
        /\ o[num * q + w] = CountOf(f, w, j) /\ CountOf(f, w, j) \in Nat
    <3>1. num * q < j + 1
      BY <1>2
    <3> QED  BY <1>6, <3>1, CountNext
  <2>4. /\ b \in [DOMAIN a -> Int \cup {Garbage}]
        /\ b[num * q + w] = CountOf(f, w, j) + 1
        /\ \A k \in DOMAIN a : k # num * q + w => b[k] = o[k]
    BY <1>5, <2>2, <2>3
  <2>5. Tallies(b, num, f, j + 1)
    <3> SUFFICES ASSUME NEW c \in Nat, NEW v \in 0 .. num - 1, num * c < j + 1
                 PROVE  b[num * c + v] = CountOf(f, v, Lesser(j + 1, num * c + num))
      BY DEF Tallies
    <3>1. num * c + v \in DOMAIN a /\ num * c \in Nat
      BY <1>6, Product
    <3>2. CASE c # q
      <4>1. num * c + v < num * q
        BY <1>6, <3>2
      <4>2. num * c + v # num * q + w
        BY <1>2, <3>1, <4>1
      <4> QED  BY <1>6, <2>4, <3>1, <3>2, <4>2
    <3>3. CASE c = q /\ v # w
      <4>1. num * c + v # num * q + w
        BY <1>2, <3>3
      <4>2. CountOf(f, v, j + 1) = CountOf(f, v, j) /\ CountOf(f, v, j) \in Nat
        BY <2>1, <3>3, CountNext
      <4> QED  BY <1>6, <2>4, <3>1, <3>3, <4>1, <4>2
    <3>4. CASE c = q /\ v = w
      <4>1. CountOf(f, v, j + 1) = CountOf(f, v, j) + 1
        BY <2>1, <3>4, CountNext
      <4> QED  BY <1>6, <2>4, <3>4, <4>1
    <3> QED  BY <3>2, <3>3, <3>4
  <2> QED  BY <2>4, <2>5
<1> QED  BY <1>7, <1>8

LEMMA NoArray == Array(0) \in ArraysOf({}) /\ DOMAIN Array(0) = {}
<1>1. 0 .. 0 - 1 = {}
  OBVIOUS
<1>2. Array(0) \in [0 .. 0 - 1 -> {}]
  BY <1>1 DEF Array
<1> QED  BY <1>1, <1>2 DEF ArraysOf, Array

LEMMA ArrayIs ==
  ASSUME NEW V, NEW array \in ArraysOf(V)
  PROVE  /\ array \in [DOMAIN array -> V] /\ array = [k \in DOMAIN array |-> array[k]]
         /\ array = Array(0) <=> DOMAIN array = {}
         /\ \E n \in Nat : DOMAIN array = 0 .. n - 1
<1>1. PICK n \in Nat : array \in [0 .. n - 1 -> V]
  BY DEF ArraysOf
<1>2. DOMAIN array = {} => array = Array(0)
  <2>1. DOMAIN Array(0) = {} /\ Array(0) = [k \in {} |-> Array(0)[k]]
    BY NoArray DEF Array
  <2> QED  BY <1>1, <2>1
<1> QED  BY <1>1, <1>2, NoArray

LEMMA ArraysLike ==
  ASSUME NEW V, NEW a \in ArraysOf(V), NEW b \in [DOMAIN a -> V]
  PROVE  b \in ArraysOf(V)
<1>1. PICK n \in Nat : DOMAIN a = 0 .. n - 1
  BY ArrayIs
<1> QED  BY <1>1 DEF ArraysOf

LEMMA Positive ==
  /\ NumLL \in Nat \ {0} /\ NumD \in Nat \ {0} /\ PosChunk \in Nat \ {0}
  /\ FirstCap \in Nat \ {0} /\ DirectSpan \in Nat \ {0}
BY StoreAssumption

(* A store that differs from st in what its counts say only.                 *)
LikeIn(x, st) ==
  /\ x \in StoreType
  /\ x.size = st.size /\ x.cap = st.cap /\ x.symbols = st.symbols
  /\ x.chunks = st.chunks /\ x.counted = st.counted
  /\ DOMAIN x.ll = DOMAIN st.ll /\ DOMAIN x.d = DOMAIN st.d

LEMMA LikeHasRoom ==
  ASSUME NEW st, Room(st), NEW x, LikeIn(x, st)
  PROVE  /\ Room(x) /\ (x.ll = Array(0) <=> st.ll = Array(0))
         /\ LLOf(x) = LLOf(st) /\ DOf(x) = DOf(st)
<1>1. st \in StoreType /\ x \in StoreType
  BY DEF Room, LikeIn
<1>2. /\ st.ll \in ArraysOf(Int \cup {Garbage}) /\ st.d \in ArraysOf(Int \cup {Garbage})
      /\ x.ll \in ArraysOf(Int \cup {Garbage}) /\ x.d \in ArraysOf(Int \cup {Garbage})
  BY <1>1 DEF StoreType
<1>3. /\ x.ll = Array(0) <=> st.ll = Array(0)
      /\ x.d = Array(0) <=> st.d = Array(0)
  BY <1>2, ArrayIs DEF LikeIn
<1>4. /\ HasRoom(st.ll, NumLL, st.cap) => HasRoom(x.ll, NumLL, x.cap)
      /\ HasRoom(st.d, NumD, st.cap) => HasRoom(x.d, NumD, x.cap)
  BY DEF HasRoom, LikeIn
<1>5. Room(x)
  BY <1>1, <1>3, <1>4 DEF Room, LikeIn
<1>6. LLOf(x) = LLOf(st) /\ DOf(x) = DOf(st)
  BY DEF LLOf, DOf, LikeIn
<1> QED  BY <1>3, <1>5, <1>6

LEMMA CountedOneStep ==
  ASSUME NEW st, Room(st), st.ll # Array(0), NEW j \in Nat, j < st.size, CountsTrue(st, j)
  PROVE  LikeIn(CountedOne(st, j), st) /\ CountsTrue(CountedOne(st, j), j + 1)
<1> DEFINE s == st.symbols[j]
           x == CountedOne(st, j)
           V == Int \cup {Garbage}
<1>1. st \in StoreType /\ st.ll \in ArraysOf(V) /\ st.d \in ArraysOf(V)
      /\ st.size \in Nat /\ st.cap \in Nat /\ j < st.cap
  BY DEF Room, StoreType
<1>2. /\ s \in Symbols /\ LLSymbol(s) \in 0 .. NumLL - 1 /\ LLSymbol(s) # -1
      /\ DSymbol(s) \in (0 .. NumD - 1) \cup {-1}
  <2>1. j \in 0 .. st.size - 1
    BY <1>1
  <2>2. s \in Symbols
    BY <2>1 DEF Room
  <2>3. LLSymbol(s) \in 0 .. NumLL - 1 /\ DSymbol(s) \in (0 .. NumD - 1) \cup {-1}
    BY <2>2, StoreAssumption DEF LLSymbols, DSymbols
  <2> QED  BY <2>2, <2>3
<1>3. LLOf(st)[j] = LLSymbol(s) /\ DOf(st)[j] = DSymbol(s)
  <2>1. j \in 0 .. st.size - 1
    BY <1>1
  <2> QED  BY <2>1 DEF LLOf, DOf
<1>4. /\ st.ll \in [DOMAIN st.ll -> V] /\ st.d \in [DOMAIN st.d -> V]
      /\ HasRoom(st.ll, NumLL, st.cap) /\ HasRoom(st.d, NumD, st.cap)
      /\ Tallies(st.ll, NumLL, LLOf(st), j) /\ Tallies(st.d, NumD, DOf(st), j)
  BY <1>1, ArrayIs DEF Room, CountsTrue
<1> DEFINE ll == CountedIn(st.ll, j, NumLL, LLOf(st)[j])
           d == CountedIn(st.d, j, NumD, DOf(st)[j])
<1>5. x = [st EXCEPT !.ll = ll, !.d = d]
  BY <1>2, <1>3 DEF CountedOne, CountedIn
<1>6. ll \in [DOMAIN st.ll -> V] /\ Tallies(ll, NumLL, LLOf(st), j + 1)
  <2>1. LLOf(st)[j] \in (0 .. NumLL - 1) \cup {-1}
    BY <1>2, <1>3
  <2> QED  BY <1>1, <1>4, <2>1, Positive, TallyOne
<1>7. d \in [DOMAIN st.d -> V] /\ Tallies(d, NumD, DOf(st), j + 1)
  <2>1. DOf(st)[j] \in (0 .. NumD - 1) \cup {-1}
    BY <1>2, <1>3
  <2> QED  BY <1>1, <1>4, <2>1, Positive, TallyOne
<1> HIDE DEF ll, d, x, s, V
<1>8. ll \in ArraysOf(V) /\ d \in ArraysOf(V) /\ DOMAIN ll = DOMAIN st.ll /\ DOMAIN d = DOMAIN st.d
  BY <1>1, <1>6, <1>7, ArraysLike
<1>9. /\ x.ll = ll /\ x.d = d /\ x.size = st.size /\ x.cap = st.cap /\ x.symbols = st.symbols
      /\ x.chunks = st.chunks /\ x.counted = st.counted /\ x \in StoreType
  <2>1. st = [size |-> st.size, cap |-> st.cap, symbols |-> st.symbols, chunks |-> st.chunks,
              ll |-> st.ll, d |-> st.d, counted |-> st.counted]
    BY <1>1 DEF StoreType
  <2>2. x = [size |-> st.size, cap |-> st.cap, symbols |-> st.symbols, chunks |-> st.chunks,
             ll |-> ll, d |-> d, counted |-> st.counted]
    BY <1>5, <2>1
  <2> QED  BY <1>1, <1>8, <2>2 DEF StoreType, V
<1>10. LikeIn(x, st)
  BY <1>8, <1>9 DEF LikeIn
<1>11. LLOf(x) = LLOf(st) /\ DOf(x) = DOf(st)
  BY <1>10, LikeHasRoom
<1> QED  BY <1>6, <1>7, <1>9, <1>10, <1>11 DEF CountsTrue, x

LEMMA Allocated ==
  ASSUME NEW num \in Nat \ {0}, NEW cap \in Nat, cap > 0
  PROVE  /\ Array(num * CeilDiv(cap, num)) \in ArraysOf(Int \cup {Garbage})
         /\ Array(num * CeilDiv(cap, num)) # Array(0)
         /\ HasRoom(Array(num * CeilDiv(cap, num)), num, cap)
<1>1. PICK n \in Nat : n = num * CeilDiv(cap, num)
  BY CeilCovers
<1>2. \A c \in Nat : num * c < cap => num * c + num <= n
  BY <1>1, CeilCovers
<1>3. DOMAIN Array(n) = 0 .. n - 1 /\ Array(n) \in [0 .. n - 1 -> Int \cup {Garbage}]
  BY DEF Array
<1>4. HasRoom(Array(n), num, cap)
  <2> SUFFICES ASSUME NEW c \in Nat, NEW v \in 0 .. num - 1, num * c < cap
               PROVE  num * c + v \in 0 .. n - 1
    BY <1>3 DEF HasRoom
  <2>1. PICK m \in Nat : m = num * c
    BY Product
  <2>2. m + num <= n
    BY <1>2, <2>1
  <2>3. m + v \in 0 .. n - 1
    BY <2>2
  <2> QED  BY <2>1, <2>3
<1>5. Array(n) # Array(0)
  <2>1. num * 0 = 0 /\ 0 \in 0 .. num - 1
    OBVIOUS
  <2>2. num * 0 + 0 \in DOMAIN Array(n)
    BY <1>4, <2>1 DEF HasRoom
  <2> QED  BY <2>2, NoArray
<1> QED  BY <1>1, <1>3, <1>4, <1>5 DEF ArraysOf

LEMMA NothingCounted == \A array, num, f : num \in Nat => Tallies(array, num, f, 0)
<1> SUFFICES ASSUME NEW array, NEW num \in Nat, NEW f PROVE Tallies(array, num, f, 0)
  OBVIOUS
<1>1. \A c \in Nat : ~ (num * c < 0)
  BY Product
<1> QED  BY <1>1 DEF Tallies

(* EnsureCounts: all symbols are counted, and nothing else has changed.      *)
IsCounted(x, st) ==
  /\ Room(x) /\ CountsTrue(x, x.counted) /\ x.counted = st.size
  /\ x.size = st.size /\ x.symbols = st.symbols /\ x.chunks = st.chunks

LEMMA CountedCounts ==
  ASSUME NEW st, Room(st), CountsTrue(st, st.counted), st.size > 0
  PROVE  IsCounted(Counted(st), st)
<1>1. st \in StoreType /\ st.cap \in Nat /\ st.size \in Nat /\ st.counted \in Nat
      /\ st.counted <= st.size /\ st.cap > 0
  BY DEF Room, StoreType
<1> DEFINE alloc(num) == Array(num * CeilDiv(st.cap, num))
           ready == IF st.ll # Array(0) THEN st
                    ELSE [st EXCEPT !.ll = alloc(NumLL), !.d = alloc(NumD)]
<1>2. /\ Room(ready) /\ ready.ll # Array(0) /\ CountsTrue(ready, st.counted)
      /\ ready.size = st.size /\ ready.symbols = st.symbols /\ ready.chunks = st.chunks
      /\ ready.counted = st.counted
  <2>1. CASE st.ll # Array(0)
    BY <2>1
  <2>2. CASE st.ll = Array(0)
    <3> DEFINE ll == alloc(NumLL)
               d == alloc(NumD)
    <3>1. /\ ll \in ArraysOf(Int \cup {Garbage}) /\ ll # Array(0) /\ HasRoom(ll, NumLL, st.cap)
          /\ d \in ArraysOf(Int \cup {Garbage}) /\ d # Array(0) /\ HasRoom(d, NumD, st.cap)
      BY <1>1, Allocated, Positive
    <3>2. ready = [st EXCEPT !.ll = ll, !.d = d]
      BY <2>2
    <3> HIDE DEF ll, d, ready
    <3>3. st.counted = 0
      BY <2>2 DEF Room
    <3>4. /\ ready.ll = ll /\ ready.d = d /\ ready.size = st.size /\ ready.cap = st.cap
          /\ ready.symbols = st.symbols /\ ready.chunks = st.chunks /\ ready.counted = st.counted
          /\ ready \in StoreType
      BY <1>1, <3>1, <3>2 DEF StoreType
    <3>5. Room(ready)
      BY <1>1, <3>1, <3>3, <3>4 DEF Room
    <3>6. CountsTrue(ready, 0)
      BY NothingCounted, Positive DEF CountsTrue
    <3> QED  BY <3>1, <3>3, <3>4, <3>5, <3>6
  <2> QED  BY <2>1, <2>2
<1> HIDE DEF ready
<1> DEFINE m == st.size
           At(n) == IF n <= st.counted THEN st.counted ELSE n
           Good(x, n) == LikeIn(x, ready) /\ CountsTrue(x, At(n))
           P == [n \in 0 .. m |-> {x \in StoreType : Good(x, n)}]
           Next1(x, n) == IF n <= st.counted THEN ready ELSE CountedOne(x, n - 1)
           step == [z \in (1 .. m) \X StoreType |-> Next1(z[2], z[1])]
           Is(f) == f = [n \in 0 .. m |-> IF n <= st.counted THEN ready
                                          ELSE CountedOne(f[n - 1], n - 1)]
           upTo == CHOOSE f : Is(f)
<1>3. LikeIn(ready, ready) /\ ready \in StoreType
  BY <1>2 DEF LikeIn, Room
<1>4. ASSUME NEW n \in 1 .. m, NEW x \in StoreType, Good(x, n - 1)
      PROVE  Good(Next1(x, n), n) /\ Next1(x, n) \in StoreType
  <2>1. CASE n <= st.counted
    BY <1>2, <1>3, <2>1
  <2>2. CASE ~ (n <= st.counted)
    <3>1. At(n - 1) = n - 1 /\ At(n) = n /\ n - 1 \in Nat /\ n - 1 < m /\ (n - 1) + 1 = n
      BY <1>1, <2>2
    <3>2. LikeIn(x, ready) /\ CountsTrue(x, n - 1)
      BY <1>4, <3>1
    <3>3. Room(x) /\ x.ll # Array(0) /\ x.size = m
      BY <1>2, <3>2, LikeHasRoom DEF LikeIn
    <3>4. LikeIn(CountedOne(x, n - 1), x) /\ CountsTrue(CountedOne(x, n - 1), n)
      BY <3>1, <3>2, <3>3, CountedOneStep
    <3>5. LikeIn(CountedOne(x, n - 1), ready)
      BY <3>2, <3>4 DEF LikeIn
    <3> QED  BY <2>2, <3>1, <3>4, <3>5 DEF LikeIn
  <2> QED  BY <2>1, <2>2
<1>5. Good(ready, 0)
  BY <1>1, <1>2, <1>3
<1> HIDE DEF Good, At
<1>6. \E f : Is(f)
  <2>1. ready \in P[0] /\ m \in Nat
    <3>1. 0 \in 0 .. m /\ m \in Nat
      BY <1>1
    <3> QED  BY <1>3, <1>5, <3>1
  <2>2. ASSUME NEW n \in 1 .. m, NEW x \in P[n - 1]
        PROVE  step[<<n, x>>] \in P[n] /\ step[<<n, x>>] = Next1(x, n)
    <3>1. n \in 0 .. m /\ n - 1 \in 0 .. m
      BY <1>1
    <3>2. x \in StoreType /\ Good(x, n - 1)
      BY <3>1
    <3>3. step[<<n, x>>] = Next1(x, n)
      BY <3>2
    <3>4. Good(Next1(x, n), n) /\ Next1(x, n) \in StoreType
      BY <1>4, <3>2
    <3> HIDE DEF Next1, step
    <3> QED  BY <3>1, <3>3, <3>4
  <2> HIDE DEF P, step
  <2>2a. Leads(step, P, m)
    BY <2>2 DEF Leads
  <2> HIDE DEF Next1, Is
  <2>3. PICK f : /\ f = [n \in 0 .. m |-> IF n = 0 THEN ready ELSE step[<<n, f[n - 1]>>]]
                 /\ \A n \in 0 .. m : f[n] \in P[n]
    BY <2>1, <2>2a, StepsExist
  <2>4. ASSUME NEW n \in 0 .. m
        PROVE  (IF n = 0 THEN ready ELSE step[<<n, f[n - 1]>>])
                 = IF n <= st.counted THEN ready ELSE CountedOne(f[n - 1], n - 1)
    <3>1. CASE n = 0
      BY <1>1, <3>1
    <3>2. CASE n # 0
      <4>1. n \in 1 .. m /\ n - 1 \in 0 .. m
        BY <1>1, <3>2
      <4>2. f[n - 1] \in P[n - 1]
        BY <2>3, <4>1
      <4>3. step[<<n, f[n - 1]>>] = Next1(f[n - 1], n)
        BY <2>2, <4>1, <4>2
      <4> QED  BY <3>2, <4>3 DEF Next1
    <3> QED  BY <3>1, <3>2
  <2>5. Is(f)
    BY <2>3, <2>4 DEF Is
  <2> QED  BY <2>5
<1>7. Is(upTo)
  <2> HIDE DEF Is
  <2> QED  BY <1>6
<1> HIDE DEF upTo
<1> DEFINE T == {n \in 0 .. m : upTo[n] \in StoreType /\ Good(upTo[n], n)}
<1>8. 0 \in T
  <2>1. 0 \in 0 .. m /\ 0 <= st.counted
    BY <1>1
  <2>2. upTo[0] = ready
    BY <1>7, <2>1
  <2> QED  BY <1>3, <1>5, <2>1, <2>2
<1>9. ASSUME NEW n \in 0 .. m - 1, n \in T PROVE n + 1 \in T
  <2>1. n + 1 \in 1 .. m /\ n + 1 \in 0 .. m /\ (n + 1) - 1 = n
    BY <1>1
  <2>2. upTo[n] \in StoreType /\ Good(upTo[n], n)
    BY <1>9
  <2>3. upTo[n + 1] = Next1(upTo[n], n + 1)
    BY <1>7, <2>1
  <2>4. Good(Next1(upTo[n], n + 1), n + 1) /\ Next1(upTo[n], n + 1) \in StoreType
    BY <1>4, <2>1, <2>2
  <2> QED  BY <2>1, <2>3, <2>4
<1>10. m \in T
  <2> HIDE DEF T
  <2>1. m \in Nat /\ m \in 0 .. m
    BY <1>1
  <2> QED  BY <1>8, <1>9, <2>1, UpTo
<1>11. LikeIn(upTo[m], ready) /\ CountsTrue(upTo[m], m)
  BY <1>1, <1>10 DEF Good, At
<1>12. Counted(st) = [upTo[m] EXCEPT !.counted = m]
  BY DEF Counted, upTo, ready
<1> DEFINE x == upTo[m]
           y == Counted(st)
<1>13. Room(x) /\ x \in StoreType /\ x.size = m /\ x.ll # Array(0)
       /\ x.symbols = st.symbols /\ x.chunks = st.chunks
  BY <1>2, <1>11, LikeHasRoom DEF LikeIn
<1> HIDE DEF x
<1>14. /\ y.size = x.size /\ y.cap = x.cap /\ y.symbols = x.symbols /\ y.chunks = x.chunks
       /\ y.ll = x.ll /\ y.d = x.d /\ y.counted = m /\ y \in StoreType
  BY <1>1, <1>12, <1>13 DEF StoreType, x
<1>15. Room(y)
  BY <1>13, <1>14, <1>1 DEF Room
<1>16. CountsTrue(y, m)
  <2>1. LLOf(y) = LLOf(x) /\ DOf(y) = DOf(x)
    BY <1>14 DEF LLOf, DOf
  <2> QED  BY <1>11, <1>14, <2>1 DEF CountsTrue, x
<1> QED  BY <1>13, <1>14, <1>15, <1>16 DEF IsCounted

-----------------------------------------------------------------------------
(* Histograms.                                                               *)
(* What is left of a chunk of counts when those after symbol lpos are taken off. *)
After(num, f, n, lpos, v) ==
  {j \in lpos + 1 .. n - 1 : j < num * (lpos \div num) + num /\ f[j] = v}
Left(array, num, f, n, lpos, v) ==
  array[num * (lpos \div num) + v] - Cardinality(After(num, f, n, lpos, v))

LEMMA UpToSymbol ==
  ASSUME NEW num \in Nat \ {0}, NEW n \in Nat, NEW f, NEW array, Tallies(array, num, f, n),
         NEW lpos \in 0 .. n - 1, NEW v \in 0 .. num - 1
  PROVE  CountOf(f, v, lpos + 1) = Left(array, num, f, n, lpos, v)
<1>0. lpos \in Nat
  OBVIOUS
<1>1. PICK q \in Nat, r \in 0 .. num - 1 : lpos = num * q + r /\ q = lpos \div num
  BY <1>0, DivIs
<1>2. PICK m \in Nat : m = num * q
  BY Product
<1>3. m + r = lpos /\ m < n
  <2>1. lpos = m + r
    BY <1>1, <1>2
  <2> QED  BY <2>1
<1>3a. PICK e \in Nat : e = Lesser(n, m + num)
  BY DEF Lesser
<1>4. lpos + 1 \in Nat /\ lpos + 1 <= e
  BY <1>3, <1>3a DEF Lesser
<1>5. array[m + v] = CountOf(f, v, e)
  BY <1>2, <1>3, <1>3a DEF Tallies
<1> DEFINE B == {j \in lpos + 1 .. e - 1 : f[j] = v}
<1>6. After(num, f, n, lpos, v) = B
  <2>1. After(num, f, n, lpos, v) = {j \in lpos + 1 .. n - 1 : j < m + num /\ f[j] = v}
    BY <1>1, <1>2 DEF After
  <2>2. \A j \in Int : j \in lpos + 1 .. n - 1 /\ j < m + num <=> j \in lpos + 1 .. e - 1
    BY <1>3a DEF Lesser
  <2>3. \A j : j \in lpos + 1 .. n - 1 \/ j \in lpos + 1 .. e - 1 => j \in Int
    BY <1>4
  <2> QED  BY <2>1, <2>2, <2>3
<1>7. CountIn(f, v, lpos + 1, e) = Cardinality(B)
  BY DEF CountIn
<1> HIDE DEF B
<1>8. CountOf(f, v, lpos + 1) = CountOf(f, v, e) - Cardinality(B)
  <2>1. /\ CountOf(f, v, e) \in Nat /\ CountOf(f, v, lpos + 1) \in Nat
        /\ CountIn(f, v, lpos + 1, e) \in Nat
        /\ CountOf(f, v, e) = CountOf(f, v, lpos + 1) + CountIn(f, v, lpos + 1, e)
    BY <1>4, CountSplits
  <2> QED  BY <1>7, <2>1
<1>9. Left(array, num, f, n, lpos, v) = array[m + v] - Cardinality(B)
  BY <1>1, <1>2, <1>6 DEF Left
<1> QED  BY <1>5, <1>8, <1>9

(* The counts of the first n symbols of a store.                             *)
CountsUpTo(st, n) ==
  [ ll |-> [v \in LLSymbols |-> CountOf(LLOf(st), v, n)],
    d  |-> [v \in DSymbols |-> CountOf(DOf(st), v, n)] ]

LEMMA HistogramAtIs ==
  ASSUME NEW st, Room(st), CountsTrue(st, st.size), NEW lpos \in 0 .. st.size - 1
  PROVE  HistogramAt(st, lpos) = CountsUpTo(st, lpos + 1)
<1>1. PICK n \in Nat : n = st.size
  BY DEF Room, StoreType
<1>2. PICK f, g : f = LLOf(st) /\ g = DOf(st)
  OBVIOUS
<1>3. PICK ll, d : ll = st.ll /\ d = st.d
  OBVIOUS
<1>4. Tallies(ll, NumLL, f, n) /\ Tallies(d, NumD, g, n) /\ lpos \in 0 .. n - 1
  BY <1>1, <1>2, <1>3 DEF CountsTrue
<1>5. \A j \in lpos + 1 .. n - 1 : f[j] = LLSymbol(st.symbols[j]) /\ g[j] = DSymbol(st.symbols[j])
  <2>1. \A j \in lpos + 1 .. n - 1 : j \in 0 .. n - 1
    BY <1>4
  <2> QED  BY <1>1, <1>2, <2>1 DEF LLOf, DOf
<1>6. ASSUME NEW v \in LLSymbols
      PROVE  CountOf(f, v, lpos + 1) = Left(ll, NumLL, f, n, lpos, v)
  <2>1. v \in 0 .. NumLL - 1
    BY DEF LLSymbols
  <2> QED  BY <1>4, <2>1, Positive, UpToSymbol
<1>7. ASSUME NEW v \in DSymbols
      PROVE  CountOf(g, v, lpos + 1) = Left(d, NumD, g, n, lpos, v)
  <2>1. v \in 0 .. NumD - 1
    BY DEF DSymbols
  <2> QED  BY <1>4, <2>1, Positive, UpToSymbol
<1>8. \A v : /\ After(NumLL, f, n, lpos, v)
                    = {j \in lpos + 1 .. n - 1 :
                         j < NumLL * (lpos \div NumLL) + NumLL /\ LLSymbol(st.symbols[j]) = v}
             /\ After(NumD, g, n, lpos, v)
                    = {j \in lpos + 1 .. n - 1 :
                         j < NumD * (lpos \div NumD) + NumD /\ DSymbol(st.symbols[j]) = v}
  BY <1>5 DEF After
<1>9. HistogramAt(st, lpos) =
        [ ll |-> [v \in LLSymbols |-> Left(ll, NumLL, f, n, lpos, v)],
          d  |-> [v \in DSymbols |-> Left(d, NumD, g, n, lpos, v)] ]
  BY <1>1, <1>3, <1>8 DEF HistogramAt, Left
<1> QED  BY <1>2, <1>6, <1>7, <1>9 DEF CountsUpTo

(* From the cumulative counts, or directly: the same.                        *)
LEMMA HistogramIs ==
  ASSUME NEW st, Room(st), CountsTrue(st, st.size),
         NEW r \in 0 .. st.size, NEW l \in 0 .. r, r > 0
  PROVE  Cumulatively(st, l, r) = Directly(st, l, r)
<1>1. st.size \in Nat /\ r - 1 \in 0 .. st.size - 1 /\ (r - 1) + 1 = r /\ r \in Nat /\ l \in Nat
  BY DEF Room, StoreType
<1>2. HistogramAt(st, r - 1) = CountsUpTo(st, r)
  BY <1>1, HistogramAtIs
<1>3. Directly(st, l, r) =
        [ ll |-> [v \in LLSymbols |-> CountIn(LLOf(st), v, l, r)],
          d  |-> [v \in DSymbols |-> CountIn(DOf(st), v, l, r)] ]
  <2>1. \A j \in l .. r - 1 : j \in 0 .. st.size - 1
    BY <1>1
  <2>2. \A j \in l .. r - 1 : /\ LLOf(st)[j] = LLSymbol(st.symbols[j])
                              /\ DOf(st)[j] = DSymbol(st.symbols[j])
    BY <2>1 DEF LLOf, DOf
  <2>3. \A v : /\ {j \in l .. r - 1 : LLOf(st)[j] = v}
                    = {j \in l .. r - 1 : LLSymbol(st.symbols[j]) = v}
               /\ {j \in l .. r - 1 : DOf(st)[j] = v}
                    = {j \in l .. r - 1 : DSymbol(st.symbols[j]) = v}
    BY <2>2
  <2> QED  BY <2>3 DEF Directly, CountIn
<1>4. CASE l = 0
  <2>1. \A f, v : CountOf(f, v, r) = CountIn(f, v, l, r)
    BY <1>4 DEF CountOf, CountIn
  <2>2. CountsUpTo(st, r) = Directly(st, l, r)
    BY <1>3, <2>1 DEF CountsUpTo
  <2>3. Cumulatively(st, l, r) = HistogramAt(st, r - 1)
    BY <1>4 DEF Cumulatively
  <2> QED  BY <1>2, <2>2, <2>3
<1>5. CASE l # 0
  <2>1. l - 1 \in 0 .. st.size - 1 /\ (l - 1) + 1 = l
    BY <1>1, <1>5
  <2>2. HistogramAt(st, l - 1) = CountsUpTo(st, l)
    BY <2>1, HistogramAtIs
  <2>3. ASSUME NEW f, NEW v
        PROVE  CountOf(f, v, r) - CountOf(f, v, l) = CountIn(f, v, l, r)
    <3>1. /\ CountOf(f, v, l) \in Nat /\ CountIn(f, v, l, r) \in Nat
          /\ CountOf(f, v, r) = CountOf(f, v, l) + CountIn(f, v, l, r)
      BY <1>1, CountSplits
    <3> QED  BY <3>1
  <2>4. PICK u, b : u = CountsUpTo(st, r) /\ b = CountsUpTo(st, l)
    OBVIOUS
  <2>5. Cumulatively(st, l, r) = [ ll |-> [v \in LLSymbols |-> u.ll[v] - b.ll[v]],
                                   d  |-> [v \in DSymbols |-> u.d[v] - b.d[v]] ]
    BY <1>2, <1>5, <2>2, <2>4 DEF Cumulatively
  <2>6. \A v \in LLSymbols :
          u.ll[v] - b.ll[v] = CountIn(LLOf(st), v, l, r)
    BY <2>3, <2>4 DEF CountsUpTo
  <2>7. \A v \in DSymbols :
          u.d[v] - b.d[v] = CountIn(DOf(st), v, l, r)
    BY <2>3, <2>4 DEF CountsUpTo
  <2> QED  BY <1>3, <2>5, <2>6, <2>7
<1> QED  BY <1>4, <1>5

LEMMA HistogramExact ==
  ASSUME NEW st, Room(st), CountsTrue(st, st.counted),
         NEW r \in 0 .. st.size, NEW l \in 0 .. r, CountsCumulatively(l, r)
  PROVE  Cumulatively(Counted(st), l, r) = Directly(st, l, r)
<1>1. st.size \in Nat /\ r > 0 /\ st.size > 0
  BY Positive DEF Room, StoreType, CountsCumulatively
<1> DEFINE x == Counted(st)
<1>2. IsCounted(x, st)
  BY <1>1, CountedCounts
<1> HIDE DEF x
<1>3. Cumulatively(x, l, r) = Directly(x, l, r)
  BY <1>1, <1>2, HistogramIs DEF IsCounted
<1>4. Directly(x, l, r) = Directly(st, l, r)
  BY <1>2 DEF IsCounted, Directly
<1> QED  BY <1>3, <1>4 DEF x

-----------------------------------------------------------------------------
(* Positions: at holds where each symbol begins, and where the last one ends. *)
Positions(st, at) ==
  /\ at \in [0 .. st.size -> Nat]
  /\ \A n \in 0 .. st.size - 1 : at[n + 1] = at[n] + Span(st.symbols[n])
  /\ \A c \in Nat : PosChunk * c < st.size => st.chunks[c] = at[PosChunk * c]

LEMMA PosIs ==
  ASSUME NEW st, Room(st), NEW at, Positions(st, at), NEW lpos \in 0 .. st.size - 1
  PROVE  PosOf(st, lpos) = at[lpos]
<1>0. st.size \in Nat /\ lpos \in Nat
  BY DEF Room, StoreType
<1>1. PICK q \in Nat, r \in 0 .. PosChunk - 1 :
        lpos = PosChunk * q + r /\ q = lpos \div PosChunk /\ r = lpos % PosChunk
  BY <1>0, Positive, DivIs
<1>2. PICK m \in Nat : m = PosChunk * q
  BY <1>1, Positive, Product
<1>3. lpos = m + r /\ m < st.size /\ lpos - r = m
  <2>1. lpos = m + r
    BY <1>1, <1>2
  <2> QED  BY <1>0, <2>1
<1> DEFINE first == lpos - (lpos % PosChunk)
           Is(p) == p = [n \in 0 .. lpos % PosChunk |->
                           IF n = 0 THEN st.chunks[lpos \div PosChunk]
                           ELSE p[n - 1] + Span(st.symbols[first + n - 1])]
           pos == CHOOSE p : Is(p)
           g == [n \in 0 .. r |-> at[m + n]]
<1>4. st.chunks[q] = at[m]
  BY <1>2, <1>3 DEF Positions
<1>5. \A n \in 0 .. r : n # 0 =>
        /\ n - 1 \in 0 .. r /\ m + (n - 1) = (m + n) - 1
        /\ at[m + n] = at[m + (n - 1)] + Span(st.symbols[m + n - 1])
  <2> SUFFICES ASSUME NEW n \in 0 .. r, n # 0
               PROVE  /\ n - 1 \in 0 .. r /\ m + (n - 1) = (m + n) - 1
                      /\ at[m + n] = at[m + (n - 1)] + Span(st.symbols[m + n - 1])
    OBVIOUS
  <2>1. m + n - 1 \in 0 .. st.size - 1 /\ (m + n - 1) + 1 = m + n
    BY <1>0, <1>3
  <2>2. n - 1 \in 0 .. r /\ m + (n - 1) = m + n - 1
    OBVIOUS
  <2>3. at[(m + n - 1) + 1] = at[m + n - 1] + Span(st.symbols[m + n - 1])
    BY <2>1 DEF Positions
  <2> QED  BY <2>1, <2>2, <2>3
<1>6. Is(g)
  <2>1. \A n \in 0 .. r : g[n] = IF n = 0 THEN st.chunks[q]
                                 ELSE g[n - 1] + Span(st.symbols[m + n - 1])
    <3> SUFFICES ASSUME NEW n \in 0 .. r
                 PROVE  g[n] = IF n = 0 THEN st.chunks[q]
                               ELSE g[n - 1] + Span(st.symbols[m + n - 1])
      OBVIOUS
    <3>1. g[n] = at[m + n]
      OBVIOUS
    <3>2. CASE n = 0
      <4>1. m + n = m
        BY <3>2
      <4> QED  BY <1>4, <3>1, <3>2, <4>1
    <3>3. CASE n # 0
      <4>1. n - 1 \in 0 .. r
        BY <1>5, <3>3
      <4>2. g[n - 1] = at[m + (n - 1)]
        BY <4>1
      <4> QED  BY <1>5, <3>1, <3>3, <4>2
    <3> QED  BY <3>2, <3>3
  <2>2. g = [n \in 0 .. r |-> g[n]]
    OBVIOUS
  <2> HIDE DEF g
  <2>3. g = [n \in 0 .. r |-> IF n = 0 THEN st.chunks[q]
                              ELSE g[n - 1] + Span(st.symbols[m + n - 1])]
    BY <2>1, <2>2
  <2> QED  BY <1>1, <1>3, <2>3
<1>7. Is(pos)
  <2> HIDE DEF Is, g
  <2> QED  BY <1>6
<1> HIDE DEF pos, g
<1>8. /\ pos[0] = at[m]
      /\ \A n \in 1 .. r : pos[n] = pos[n - 1] + Span(st.symbols[m + n - 1])
  <2>1. pos = [n \in 0 .. r |-> IF n = 0 THEN st.chunks[q]
                                ELSE pos[n - 1] + Span(st.symbols[m + n - 1])]
    BY <1>1, <1>3, <1>7
  <2>2. 0 \in 0 .. r /\ (\A n \in 1 .. r : n \in 0 .. r /\ n # 0)
    OBVIOUS
  <2> QED  BY <1>4, <2>1, <2>2
<1> HIDE DEF Is
<1> DEFINE T == {n \in 0 .. r : pos[n] = at[m + n]}
<1>9. 0 \in T
  BY <1>8
<1>10. ASSUME NEW n \in 0 .. r - 1, n \in T PROVE n + 1 \in T
  <2>1. n + 1 \in 1 .. r /\ n + 1 \in 0 .. r /\ (n + 1) - 1 = n
    OBVIOUS
  <2>2. pos[n + 1] = pos[n] + Span(st.symbols[m + (n + 1) - 1])
    BY <1>8, <2>1
  <2>3. at[m + (n + 1)] = at[m + n] + Span(st.symbols[m + (n + 1) - 1])
    BY <1>5, <2>1
  <2> QED  BY <1>10, <2>1, <2>2, <2>3
<1>11. r \in T
  <2> HIDE DEF T
  <2>1. r \in Nat /\ r \in 0 .. r
    OBVIOUS
  <2> QED  BY <1>9, <1>10, <2>1, UpTo
<1>12. PosOf(st, lpos) = pos[r]
  BY <1>1 DEF PosOf, pos, Is
<1> QED  BY <1>3, <1>11, <1>12

LEMMA EndIs ==
  ASSUME NEW st, Room(st), NEW at, Positions(st, at), st.size > 0
  PROVE  EndOf(st) = at[st.size] /\ EndOf(st) \in Nat
<1>1. st.size \in Nat /\ st.size - 1 \in 0 .. st.size - 1 /\ (st.size - 1) + 1 = st.size
  BY DEF Room, StoreType
<1>2. PosOf(st, st.size - 1) = at[st.size - 1]
  BY <1>1, PosIs
<1>3. at[(st.size - 1) + 1] = at[st.size - 1] + Span(st.symbols[st.size - 1])
  BY <1>1 DEF Positions
<1>4. at[st.size] \in Nat
  BY <1>1 DEF Positions
<1> QED  BY <1>1, <1>2, <1>3, <1>4 DEF EndOf

LEMMA EntriesIs ==
  ASSUME NEW st, Room(st), NEW at, Positions(st, at)
  PROVE  Entries(st) = [j \in 1 .. st.size |-> [symbol |-> st.symbols[j - 1], at |-> at[j - 1]]]
<1>1. \A j \in 1 .. st.size : j - 1 \in 0 .. st.size - 1
  BY DEF Room, StoreType
<1>2. \A j \in 1 .. st.size : PosOf(st, j - 1) = at[j - 1]
  BY <1>1, PosIs
<1> QED  BY <1>2 DEF Entries

EntrySet == [symbol : Symbols, at : Nat]

LEMMA EntriesType ==
  ASSUME NEW st, Room(st), NEW at, Positions(st, at)
  PROVE  Entries(st) \in Seq(EntrySet) /\ Len(Entries(st)) = st.size
<1>1. PICK n \in Nat : n = st.size
  BY DEF Room, StoreType
<1>2. PICK e : e = Entries(st)
  OBVIOUS
<1>3. e = [j \in 1 .. n |-> [symbol |-> st.symbols[j - 1], at |-> at[j - 1]]]
  BY <1>1, <1>2, EntriesIs
<1>4. \A j \in 1 .. n : j - 1 \in 0 .. n - 1 /\ j - 1 \in 0 .. n
  OBVIOUS
<1>5. \A j \in 1 .. n : st.symbols[j - 1] \in Symbols /\ at[j - 1] \in Nat
  BY <1>1, <1>4 DEF Room, Positions
<1>6. e \in [1 .. n -> EntrySet]
  BY <1>3, <1>5 DEF EntrySet
<1> QED  BY <1>1, <1>2, <1>6

-----------------------------------------------------------------------------
(* Growing.                                                                  *)
Reallocated(b, a, n, V) ==
  /\ b \in ArraysOf(V) /\ DOMAIN b = 0 .. n - 1
  /\ \A j \in 0 .. n - 1 : j \in DOMAIN a => b[j] = a[j]

LEMMA ReallocIs ==
  ASSUME NEW V, Garbage \in V, NEW a \in ArraysOf(V), NEW n \in Nat
  PROVE  Reallocated(Realloc(a, n), a, n, V)
<1>1. a \in [DOMAIN a -> V]
  BY ArrayIs
<1>2. Realloc(a, n) \in [0 .. n - 1 -> V]
  BY <1>1 DEF Realloc
<1> QED  BY <1>2 DEF Realloc, Reallocated, ArraysOf

(* What is counted depends on the symbols counted only.                      *)
SameUpTo(f, g, n) == \A j \in 0 .. n - 1 : f[j] = g[j]

LEMMA CountAgrees ==
  ASSUME NEW f, NEW g, NEW v, NEW n \in Nat, SameUpTo(f, g, n)
  PROVE  CountOf(f, v, n) = CountOf(g, v, n)
<1>1. {j \in 0 .. n - 1 : f[j] = v} = {j \in 0 .. n - 1 : g[j] = v}
  BY DEF SameUpTo
<1> QED  BY <1>1 DEF CountOf

SameBelow(a, b, num, n) ==
  \A c \in Nat, v \in 0 .. num - 1 : num * c < n => a[num * c + v] = b[num * c + v]

LEMMA TalliesAgree ==
  ASSUME NEW num \in Nat \ {0}, NEW n \in Nat, NEW f, NEW g, SameUpTo(f, g, n),
         NEW a, NEW b, SameBelow(a, b, num, n), Tallies(a, num, f, n)
  PROVE  Tallies(b, num, g, n)
<1> SUFFICES ASSUME NEW c \in Nat, NEW v \in 0 .. num - 1, num * c < n
             PROVE  b[num * c + v] = CountOf(g, v, Lesser(n, num * c + num))
  BY DEF Tallies
<1>1. PICK m \in Nat : m = num * c
  BY Product
<1>2. PICK e \in Nat : e = Lesser(n, num * c + num) /\ e <= n
  <2>1. Lesser(n, m + num) \in Nat /\ Lesser(n, m + num) <= n
    BY DEF Lesser
  <2> QED  BY <1>1, <2>1
<1>3. SameUpTo(f, g, e)
  <2>1. \A j \in 0 .. e - 1 : j \in 0 .. n - 1
    BY <1>2
  <2> QED  BY <2>1 DEF SameUpTo
<1>4. CountOf(f, v, e) = CountOf(g, v, e)
  BY <1>3, CountAgrees
<1>5. a[num * c + v] = CountOf(f, v, Lesser(n, num * c + num))
  BY DEF Tallies
<1>6. a[num * c + v] = b[num * c + v]
  BY DEF SameBelow
<1> QED  BY <1>2, <1>4, <1>5, <1>6

(* An array of counts that grows to hold cap symbols.                        *)
Grown(a, b, num, old, cap) ==
  /\ b \in ArraysOf(Int \cup {Garbage}) /\ b # Array(0) /\ HasRoom(b, num, cap)
  /\ SameBelow(a, b, num, old)

LEMMA CountsGrow ==
  ASSUME NEW num \in Nat \ {0}, NEW cap \in Nat, NEW old \in Nat, old < cap,
         NEW a \in ArraysOf(Int \cup {Garbage}), a # Array(0), HasRoom(a, num, old)
  PROVE  Grown(a, Realloc(a, num * CeilDiv(cap, num)), num, old, cap)
<1>1. PICK n \in Nat : n = num * CeilDiv(cap, num)
  BY CeilCovers
<1>2. \A c \in Nat : num * c < cap => num * c + num <= n
  BY <1>1, CeilCovers
<1> DEFINE b == Realloc(a, n)
<1>3. /\ b \in ArraysOf(Int \cup {Garbage}) /\ DOMAIN b = 0 .. n - 1
      /\ \A j \in 0 .. n - 1 : j \in DOMAIN a => b[j] = a[j]
  <2>1. Garbage \in Int \cup {Garbage}
    OBVIOUS
  <2> QED  BY <2>1, ReallocIs DEF Reallocated
<1> HIDE DEF b
<1>4. ASSUME NEW c \in Nat, NEW v \in 0 .. num - 1, num * c < cap
      PROVE  num * c + v \in 0 .. n - 1
  <2>1. PICK m \in Nat : m = num * c
    BY Product
  <2>2. m + num <= n
    BY <1>2, <1>4, <2>1
  <2>3. m + v \in 0 .. n - 1
    BY <2>2
  <2> QED  BY <2>1, <2>3
<1>5. HasRoom(b, num, cap)
  BY <1>3, <1>4 DEF HasRoom
<1>6. b # Array(0)
  <2>1. num * 0 = 0 /\ 0 \in 0 .. num - 1 /\ 0 < cap
    OBVIOUS
  <2>2. num * 0 + 0 \in DOMAIN b
    BY <1>5, <2>1 DEF HasRoom
  <2> QED  BY <2>2, NoArray
<1>7. SameBelow(a, b, num, old)
  <2> SUFFICES ASSUME NEW c \in Nat, NEW v \in 0 .. num - 1, num * c < old
               PROVE  a[num * c + v] = b[num * c + v]
    BY DEF SameBelow
  <2>1. num * c < cap
    <3>1. num * c \in Nat
      BY Product
    <3> QED  BY <3>1
  <2>2. num * c + v \in 0 .. n - 1
    BY <1>4, <2>1
  <2>3. num * c + v \in DOMAIN a
    BY DEF HasRoom
  <2> QED  BY <1>3, <2>2, <2>3
<1> QED  BY <1>1, <1>3, <1>5, <1>6, <1>7 DEF b, Grown

(* Room for one symbol more; what the store says is what it said.            *)
Roomier(r, st) ==
  /\ Room(r) /\ CountsTrue(r, r.counted)
  /\ r.size = st.size /\ r.size < r.cap /\ r.counted = st.counted
  /\ \A j \in 0 .. st.size - 1 : r.symbols[j] = st.symbols[j]
  /\ \A c \in Nat : PosChunk * c < st.size => r.chunks[c] = st.chunks[c]

LEMMA ReservedIs ==
  ASSUME NEW st, Room(st), CountsTrue(st, st.counted)
  PROVE  Roomier(Reserved(st), st)
<1>1. /\ st \in StoreType /\ st.size \in Nat /\ st.cap \in Nat /\ st.size <= st.cap
      /\ st.counted \in Nat /\ st.counted <= st.size
      /\ st.symbols \in ArraysOf(Symbols \cup {Garbage})
      /\ st.chunks \in ArraysOf(Nat \cup {Garbage})
      /\ st.ll \in ArraysOf(Int \cup {Garbage}) /\ st.d \in ArraysOf(Int \cup {Garbage})
  BY DEF Room, StoreType
<1>2. CASE st.size < st.cap
  <2>1. Reserved(st) = st
    BY <1>2 DEF Reserved
  <2> QED  BY <1>2, <2>1 DEF Roomier
<1>3. CASE ~ (st.size < st.cap)
  <2>1. PICK cap \in Nat : cap = (IF st.cap = 0 THEN FirstCap ELSE GrowCap(st.cap)) /\ cap > st.cap
    <3>1. CASE st.cap = 0
      BY <3>1, Positive
    <3>2. CASE st.cap # 0
      <4>1. PICK k \in Nat : k = st.cap
        BY <1>1
      <4>2. k \div 2 \in Nat /\ k \div 8 \in Nat
        OBVIOUS
      <4>3. GrowCap(k) \in Nat /\ GrowCap(k) > k
        BY <4>2 DEF GrowCap
      <4> QED  BY <3>2, <4>1, <4>3
    <3> QED  BY <3>1, <3>2
  <2>2. PICK symbols : symbols = Realloc(st.symbols, cap)
    OBVIOUS
  <2>3. PICK chunks : chunks = Realloc(st.chunks, ChunksFor(cap))
    OBVIOUS
  <2>4. PICK ll : ll = IF st.ll = Array(0) THEN st.ll
                       ELSE Realloc(st.ll, NumLL * CeilDiv(cap, NumLL))
    OBVIOUS
  <2>5. PICK d : d = IF st.d = Array(0) THEN st.d
                     ELSE Realloc(st.d, NumD * CeilDiv(cap, NumD))
    OBVIOUS
  <2>6. PICK r : r = [st EXCEPT !.cap = cap, !.symbols = symbols, !.chunks = chunks,
                                !.ll = ll, !.d = d]
    OBVIOUS
  <2>7. Reserved(st) = r
    BY <1>3, <2>1, <2>2, <2>3, <2>4, <2>5, <2>6 DEF Reserved
  <2>8. /\ symbols \in ArraysOf(Symbols \cup {Garbage}) /\ DOMAIN symbols = 0 .. cap - 1
        /\ \A j \in 0 .. st.size - 1 : symbols[j] = st.symbols[j]
    <3>1. Garbage \in Symbols \cup {Garbage}
      OBVIOUS
    <3>2. Reallocated(symbols, st.symbols, cap, Symbols \cup {Garbage})
      BY <1>1, <2>2, <3>1, ReallocIs
    <3>3. \A j \in 0 .. st.size - 1 : j \in 0 .. cap - 1 /\ j \in DOMAIN st.symbols
      BY <1>1, <2>1 DEF Room
    <3> QED  BY <3>2, <3>3 DEF Reallocated
  <2>9. /\ chunks \in ArraysOf(Nat \cup {Garbage})
        /\ \A c \in Nat : PosChunk * c < cap => c \in DOMAIN chunks
        /\ \A c \in Nat : PosChunk * c < st.size => chunks[c] = st.chunks[c]
    <3>1. PICK n \in Nat : n = cap \div PosChunk
      BY <2>1, Positive, DivIs
    <3>2. \A c \in Nat : PosChunk * c < cap => c <= n
      BY <2>1, <3>1, Positive, FloorCovers
    <3>3. ChunksFor(cap) = n + 1 /\ n + 1 \in Nat /\ (n + 1) - 1 = n
      BY <3>1 DEF ChunksFor
    <3>4. Garbage \in Nat \cup {Garbage}
      OBVIOUS
    <3>4a. Reallocated(chunks, st.chunks, n + 1, Nat \cup {Garbage})
      BY <1>1, <2>3, <3>3, <3>4, ReallocIs
    <3>5. /\ chunks \in ArraysOf(Nat \cup {Garbage}) /\ DOMAIN chunks = 0 .. n
          /\ \A c \in 0 .. n : c \in DOMAIN st.chunks => chunks[c] = st.chunks[c]
      BY <3>3, <3>4a DEF Reallocated
    <3>6. \A c \in Nat : PosChunk * c < cap => c \in 0 .. n
      BY <3>2
    <3>7. ASSUME NEW c \in Nat, PosChunk * c < st.size
          PROVE  PosChunk * c < cap /\ PosChunk * c < st.cap
      <4>1. PICK m \in Nat : m = PosChunk * c
        BY Positive, Product
      <4> QED  BY <1>1, <2>1, <3>7, <4>1
    <3>8. \A c \in Nat : PosChunk * c < st.size => c \in 0 .. n /\ c \in DOMAIN st.chunks
      BY <3>6, <3>7 DEF Room
    <3> QED  BY <3>5, <3>6, <3>8
  <2>10. /\ r.size = st.size /\ r.cap = cap /\ r.symbols = symbols /\ r.chunks = chunks
         /\ r.ll = ll /\ r.d = d /\ r.counted = st.counted
    BY <1>1, <2>6 DEF StoreType
  <2>11. /\ ll \in ArraysOf(Int \cup {Garbage}) /\ (st.ll = Array(0) => ll = Array(0))
         /\ st.ll # Array(0) => Grown(st.ll, ll, NumLL, st.cap, cap)
    BY <1>1, <2>1, <2>4, Positive, CountsGrow DEF Room, Grown
  <2>12. /\ d \in ArraysOf(Int \cup {Garbage}) /\ (st.d = Array(0) => d = Array(0))
         /\ st.ll # Array(0) => Grown(st.d, d, NumD, st.cap, cap)
    BY <1>1, <2>1, <2>5, Positive, CountsGrow DEF Room, Grown
  <2>13. r \in StoreType
    <3>1. r = [size |-> st.size, cap |-> cap, symbols |-> symbols, chunks |-> chunks,
               ll |-> ll, d |-> d, counted |-> st.counted]
      BY <1>1, <2>6 DEF StoreType
    <3> QED  BY <1>1, <2>8, <2>9, <2>11, <2>12, <3>1 DEF StoreType
  <2>14. \A j \in 0 .. st.size - 1 : symbols[j] \in Symbols
    BY <2>8 DEF Room
  <2>15. Room(r)
    <3>1. ll = Array(0) => d = Array(0) /\ st.counted = 0
      BY <2>11, <2>12 DEF Room, Grown
    <3>2. ll # Array(0) => /\ d # Array(0) /\ cap > 0
                           /\ HasRoom(ll, NumLL, cap) /\ HasRoom(d, NumD, cap)
      BY <1>1, <2>1, <2>11, <2>12 DEF Grown
    <3>3. st.counted <= st.size /\ st.size <= cap
      BY <1>1, <2>1
    <3> QED  BY <2>8, <2>9, <2>10, <2>13, <2>14, <3>1, <3>2, <3>3 DEF Room
  <2>16. CountsTrue(r, st.counted)
    <3>1. CASE st.ll = Array(0)
      <4>1. st.counted = 0
        BY <3>1 DEF Room
      <4> QED  BY <4>1, Positive, NothingCounted DEF CountsTrue
    <3>2. CASE st.ll # Array(0)
      <4>1. \A j \in 0 .. st.counted - 1 : j \in 0 .. st.size - 1
        BY <1>1
      <4>2. SameUpTo(LLOf(st), LLOf(r), st.counted) /\ SameUpTo(DOf(st), DOf(r), st.counted)
        BY <2>8, <2>10, <4>1 DEF SameUpTo, LLOf, DOf
      <4>3. SameBelow(st.ll, ll, NumLL, st.counted) /\ SameBelow(st.d, d, NumD, st.counted)
        <5>1. ASSUME NEW num \in Nat \ {0}, NEW c \in Nat, num * c < st.counted
              PROVE  num * c < st.cap
          <6>1. PICK m \in Nat : m = num * c
            BY Product
          <6> QED  BY <1>1, <5>1, <6>1
        <5>2. SameBelow(st.ll, ll, NumLL, st.cap) /\ SameBelow(st.d, d, NumD, st.cap)
          BY <2>11, <2>12, <3>2 DEF Grown
        <5> QED  BY <5>1, <5>2, Positive DEF SameBelow
      <4>4. Tallies(st.ll, NumLL, LLOf(st), st.counted) /\ Tallies(st.d, NumD, DOf(st), st.counted)
        BY DEF CountsTrue
      <4>5. Tallies(ll, NumLL, LLOf(r), st.counted)
        BY <1>1, <4>2, <4>3, <4>4, Positive, TalliesAgree
      <4>6. Tallies(d, NumD, DOf(r), st.counted)
        BY <1>1, <4>2, <4>3, <4>4, Positive, TalliesAgree
      <4> QED  BY <2>10, <4>5, <4>6 DEF CountsTrue
    <3> QED  BY <3>1, <3>2
  <2>17. st.size < cap
    BY <1>1, <2>1
  <2> QED  BY <2>7, <2>8, <2>9, <2>10, <2>15, <2>16, <2>17 DEF Roomier
<1> QED  BY <1>2, <1>3

(* What holds of every store.                                                *)
StoreInv(st) ==
  /\ Room(st) /\ CountsTrue(st, st.counted)
  /\ \E at : Positions(st, at)

Entry(symbol, pos) == [symbol |-> symbol, at |-> pos]

(* The store x is st with one symbol more.                                   *)
OneMore(x, st, symbol, pos) ==
  /\ StoreInv(x) /\ x.size = st.size + 1
  /\ Entries(x) = Append(Entries(st), Entry(symbol, pos))
  /\ EndOf(x) = pos + Span(symbol)

LEMMA AddedIs ==
  ASSUME NEW st, StoreInv(st), NEW symbol \in Symbols, NEW pos \in Nat,
         st.size > 0 => pos = EndOf(st)
  PROVE  OneMore(Added(st, symbol, pos), st, symbol, pos)
<1> DEFINE x == Added(st, symbol, pos)
           m == st.size
<1>1. PICK at : Positions(st, at)
  BY DEF StoreInv
<1>2. m \in Nat /\ Room(st) /\ CountsTrue(st, st.counted) /\ st.counted \in Nat /\ st.counted <= m
  BY DEF StoreInv, Room, StoreType
<1>3. PICK r : r = Reserved(st)
  OBVIOUS
<1>4. /\ Room(r) /\ CountsTrue(r, r.counted) /\ r.size = m /\ m < r.cap /\ r.counted = st.counted
      /\ \A j \in 0 .. m - 1 : r.symbols[j] = st.symbols[j]
      /\ \A c \in Nat : PosChunk * c < m => r.chunks[c] = st.chunks[c]
  BY <1>2, <1>3, ReservedIs DEF Roomier
<1>5. /\ r \in StoreType /\ r.cap \in Nat
      /\ r.symbols \in ArraysOf(Symbols \cup {Garbage})
      /\ r.chunks \in ArraysOf(Nat \cup {Garbage}) /\ DOMAIN r.symbols = 0 .. r.cap - 1
  BY <1>4 DEF Room, StoreType
<1>6. PICK q \in Nat, k \in 0 .. PosChunk - 1 :
        m = PosChunk * q + k /\ q = m \div PosChunk /\ k = m % PosChunk
  BY <1>2, Positive, DivIs
<1>7. PICK p \in Nat : p = PosChunk * q
  BY Positive, Product
<1>7a. m = p + k
  BY <1>6, <1>7
<1>8. PICK symbols : symbols = [r.symbols EXCEPT ![m] = symbol]
  OBVIOUS
<1>9. PICK chunks : chunks = IF k = 0 THEN [r.chunks EXCEPT ![q] = pos] ELSE r.chunks
  OBVIOUS
<1>10. x = [r EXCEPT !.symbols = symbols, !.chunks = chunks, !.size = m + 1]
  BY <1>3, <1>4, <1>5, <1>6, <1>8, <1>9 DEF Added
<1> HIDE DEF x
<1>11. /\ symbols \in ArraysOf(Symbols \cup {Garbage}) /\ DOMAIN symbols = 0 .. r.cap - 1
       /\ symbols[m] = symbol /\ \A j \in 0 .. m - 1 : symbols[j] = st.symbols[j]
  <2>1. r.symbols \in [DOMAIN r.symbols -> Symbols \cup {Garbage}]
    BY <1>5, ArrayIs
  <2>2. m \in 0 .. r.cap - 1 /\ m \in DOMAIN r.symbols
    BY <1>2, <1>4, <1>5
  <2>3. \A j \in 0 .. m - 1 : j \in DOMAIN r.symbols /\ j # m
    BY <1>2, <1>4, <1>5
  <2>4. symbols \in [DOMAIN r.symbols -> Symbols \cup {Garbage}]
    BY <1>8, <2>1
  <2>5. symbols[m] = symbol
    BY <1>8, <2>1, <2>2
  <2>6. \A j \in 0 .. m - 1 : symbols[j] = st.symbols[j]
    BY <1>4, <1>8, <2>1, <2>3
  <2> QED  BY <1>5, <2>4, <2>5, <2>6, ArraysLike
<1>12. /\ chunks \in ArraysOf(Nat \cup {Garbage}) /\ DOMAIN chunks = DOMAIN r.chunks
       /\ k = 0 => chunks[q] = pos
       /\ \A c \in Nat : c # q /\ PosChunk * c < m + 1 => chunks[c] = st.chunks[c]
       /\ k # 0 => chunks[q] = st.chunks[q]
  <2>1. r.chunks \in [DOMAIN r.chunks -> Nat \cup {Garbage}]
    BY <1>5, ArrayIs
  <2>2. k = 0 => q \in DOMAIN r.chunks
    <3>1. k = 0 => p < r.cap
      BY <1>2, <1>4, <1>5, <1>7a
    <3> QED  BY <1>4, <1>7, <3>1 DEF Room
  <2>3. /\ chunks \in [DOMAIN r.chunks -> Nat \cup {Garbage}]
        /\ k = 0 => chunks[q] = pos
        /\ \A c : c # q => chunks[c] = r.chunks[c]
        /\ k # 0 => chunks[q] = r.chunks[q]
    BY <1>9, <2>1, <2>2
  <2>4. ASSUME NEW c \in Nat, c # q, PosChunk * c < m + 1
        PROVE  PosChunk * c < m
    <3>1. PICK o \in Nat : o = PosChunk * c
      BY Positive, Product
    <3>2. o # m
      <4>1. CASE q < c
        <5>1. PosChunk * q + PosChunk <= PosChunk * c
          BY <4>1, Positive, Further
        <5>2. PICK P \in Nat \ {0} : P = PosChunk
          BY Positive
        <5>3. p + P <= o /\ k < P
          BY <1>7, <3>1, <5>1, <5>2
        <5> QED  BY <1>7a, <5>3
      <4>2. CASE c < q
        <5>1. PosChunk * c + PosChunk <= PosChunk * q
          BY <4>2, Positive, Further
        <5>2. PICK P \in Nat \ {0} : P = PosChunk
          BY Positive
        <5>3. o + P <= p
          BY <1>7, <3>1, <5>1, <5>2
        <5> QED  BY <1>7a, <5>3
      <4> QED  BY <2>4, <4>1, <4>2
    <3> QED  BY <1>2, <2>4, <3>1, <3>2
  <2>5. k # 0 => PosChunk * q < m
    BY <1>2, <1>7, <1>7a
  <2>6. chunks \in ArraysOf(Nat \cup {Garbage})
    BY <1>5, <2>3, ArraysLike
  <2>7. DOMAIN chunks = DOMAIN r.chunks
    BY <2>3
  <2>8. \A c \in Nat : c # q /\ PosChunk * c < m + 1 => chunks[c] = st.chunks[c]
    BY <1>4, <2>3, <2>4
  <2>9. k # 0 => chunks[q] = st.chunks[q]
    BY <1>4, <2>3, <2>5
  <2> QED  BY <2>3, <2>6, <2>7, <2>8, <2>9
<1>13. /\ x.size = m + 1 /\ x.cap = r.cap /\ x.symbols = symbols /\ x.chunks = chunks
       /\ x.ll = r.ll /\ x.d = r.d /\ x.counted = st.counted
  BY <1>4, <1>5, <1>10 DEF StoreType
<1>14. x \in StoreType
  <2>1. x = [size |-> m + 1, cap |-> r.cap, symbols |-> symbols, chunks |-> chunks,
             ll |-> r.ll, d |-> r.d, counted |-> r.counted]
    BY <1>5, <1>10 DEF StoreType
  <2> QED  BY <1>2, <1>5, <1>11, <1>12, <2>1 DEF StoreType
<1>15. Room(x)
  <2>1. \A j \in 0 .. (m + 1) - 1 : symbols[j] \in Symbols
    <3>1. \A j \in 0 .. m - 1 : st.symbols[j] \in Symbols
      BY <1>2 DEF Room
    <3>2. \A j \in 0 .. (m + 1) - 1 : j = m \/ j \in 0 .. m - 1
      BY <1>2
    <3> QED  BY <1>11, <3>1, <3>2
  <2>2. st.counted <= m + 1 /\ m + 1 <= r.cap
    BY <1>2, <1>4, <1>5
  <2> QED  BY <1>4, <1>11, <1>12, <1>13, <1>14, <2>1, <2>2 DEF Room
<1>16. CountsTrue(x, x.counted)
  <2>1. \A j \in 0 .. st.counted - 1 : j \in 0 .. m - 1 /\ j \in 0 .. (m + 1) - 1
    BY <1>2
  <2>2. \A j \in 0 .. m - 1 : r.symbols[j] = x.symbols[j]
    BY <1>4, <1>11, <1>13
  <2>3. SameUpTo(LLOf(r), LLOf(x), st.counted) /\ SameUpTo(DOf(r), DOf(x), st.counted)
    BY <1>4, <1>13, <2>1, <2>2 DEF SameUpTo, LLOf, DOf
  <2>4. SameBelow(r.ll, x.ll, NumLL, st.counted) /\ SameBelow(r.d, x.d, NumD, st.counted)
    BY <1>13 DEF SameBelow
  <2>5. Tallies(r.ll, NumLL, LLOf(r), st.counted) /\ Tallies(r.d, NumD, DOf(r), st.counted)
    BY <1>4 DEF CountsTrue
  <2>6. Tallies(x.ll, NumLL, LLOf(x), st.counted)
    BY <1>2, <2>3, <2>4, <2>5, Positive, TalliesAgree
  <2>7. Tallies(x.d, NumD, DOf(x), st.counted)
    BY <1>2, <2>3, <2>4, <2>5, Positive, TalliesAgree
  <2> QED  BY <1>13, <2>6, <2>7 DEF CountsTrue
(* Where the symbols begin now.                                              *)
<1>17. PICK b : b = [n \in 0 .. m + 1 |->
                       IF n = m + 1 THEN pos + Span(symbol) ELSE IF n = m THEN pos ELSE at[n]]
  OBVIOUS
<1>18. Span(symbol) \in Nat /\ pos + Span(symbol) \in Nat
  BY StoreAssumption
<1>19. /\ b \in [0 .. m + 1 -> Nat] /\ b[m + 1] = pos + Span(symbol) /\ b[m] = pos
       /\ \A n \in 0 .. m - 1 : b[n] = at[n]
       /\ m > 0 => at[m] = pos
  <2>1. at \in [0 .. m -> Nat]
    BY <1>1 DEF Positions
  <2>2. \A n \in 0 .. m + 1 : n # m + 1 /\ n # m => n \in 0 .. m
    BY <1>2
  <2>3. m + 1 \in 0 .. m + 1 /\ m \in 0 .. m + 1 /\ m # m + 1
        /\ \A n \in 0 .. m - 1 : n \in 0 .. m + 1 /\ n # m /\ n # m + 1
    BY <1>2
  <2>4. m > 0 => at[m] = pos
    BY <1>1, <1>2, EndIs
  <2> QED  BY <1>17, <1>18, <2>1, <2>2, <2>3, <2>4
<1>20. Positions(x, b)
  <2>1. ASSUME NEW n \in 0 .. (m + 1) - 1
        PROVE  b[n + 1] = b[n] + Span(symbols[n])
    <3>1. CASE n = m
      BY <1>11, <1>19, <3>1
    <3>2. CASE n # m
      <4>1. n \in 0 .. m - 1
        BY <1>2, <3>2
      <4>2. at[n + 1] = at[n] + Span(st.symbols[n])
        BY <1>1, <4>1 DEF Positions
      <4>3. b[n + 1] = at[n + 1]
        <5>1. CASE n + 1 = m
          <6>1. m > 0
            BY <4>1, <5>1
          <6> QED  BY <1>19, <5>1, <6>1
        <5>2. CASE n + 1 # m
          <6>1. n + 1 \in 0 .. m - 1
            BY <1>2, <4>1, <5>2
          <6> QED  BY <1>19, <6>1
        <5> QED  BY <5>1, <5>2
      <4> QED  BY <1>11, <1>19, <4>1, <4>2, <4>3
    <3> QED  BY <3>1, <3>2
  <2>2. ASSUME NEW c \in Nat, PosChunk * c < m + 1
        PROVE  chunks[c] = b[PosChunk * c]
    <3>1. PICK o \in Nat : o = PosChunk * c
      BY Positive, Product
    <3>2. CASE o = m
      <4>1. CASE c = q
        <5>1. k = 0
          BY <1>2, <1>7, <1>7a, <3>1, <3>2, <4>1
        <5> QED  BY <1>12, <1>19, <3>1, <3>2, <4>1, <5>1
      <4>2. CASE c # q
        <5>1. PICK P \in Nat \ {0} : P = PosChunk
          BY Positive
        <5>2. k < P /\ k \in Nat
          BY <5>1
        <5>3. CASE q < c
          <6>1. PosChunk * q + PosChunk <= PosChunk * c
            BY <5>3, Positive, Further
          <6>2. p + P <= o
            BY <1>7, <3>1, <5>1, <6>1
          <6> QED  BY <1>7a, <3>2, <5>2, <6>2
        <5>4. CASE c < q
          <6>1. PosChunk * c + PosChunk <= PosChunk * q
            BY <5>4, Positive, Further
          <6>2. o + P <= p
            BY <1>7, <3>1, <5>1, <6>1
          <6> QED  BY <1>7a, <3>2, <5>2, <6>2
        <5> QED  BY <4>2, <5>3, <5>4
      <4> QED  BY <4>1, <4>2
    <3>3. CASE o # m
      <4>1. o \in 0 .. m - 1 /\ o < m
        BY <1>2, <2>2, <3>1, <3>3
      <4>2. st.chunks[c] = at[o]
        BY <1>1, <3>1, <4>1 DEF Positions
      <4>3. chunks[c] = st.chunks[c]
        <5>1. CASE c # q
          BY <1>12, <2>2, <5>1
        <5>2. CASE c = q
          <6>1. k # 0
            BY <1>7, <1>7a, <3>1, <3>3, <5>2
          <6> QED  BY <1>12, <5>2, <6>1
        <5> QED  BY <5>1, <5>2
      <4> QED  BY <1>19, <3>1, <4>1, <4>2, <4>3
    <3> QED  BY <3>2, <3>3
  <2> QED  BY <1>13, <1>19, <2>1, <2>2 DEF Positions
<1>21. Entries(x) = Append(Entries(st), Entry(symbol, pos))
  <2>1. Entries(x) = [j \in 1 .. m + 1 |-> [symbol |-> symbols[j - 1], at |-> b[j - 1]]]
    BY <1>13, <1>15, <1>20, EntriesIs
  <2>2. Entries(st) = [j \in 1 .. m |-> [symbol |-> st.symbols[j - 1], at |-> at[j - 1]]]
    BY <1>1, <1>2, EntriesIs
  <2>3. /\ Entries(st) \in Seq(EntrySet) /\ Len(Entries(st)) = m
        /\ Entries(x) \in Seq(EntrySet) /\ Len(Entries(x)) = m + 1
    BY <1>1, <1>2, <1>13, <1>15, <1>20, EntriesType
  <2>3a. Entry(symbol, pos) \in EntrySet
    BY DEF Entry, EntrySet
  <2>4. ASSUME NEW j \in 1 .. m + 1
        PROVE  Entries(x)[j] = IF j \in 1 .. m THEN Entries(st)[j] ELSE Entry(symbol, pos)
    <3>1. CASE j = m + 1
      <4>1. j - 1 = m /\ j \notin 1 .. m
        BY <1>2, <3>1
      <4> QED  BY <1>11, <1>19, <2>1, <4>1 DEF Entry
    <3>2. CASE j # m + 1
      <4>1. j \in 1 .. m /\ j - 1 \in 0 .. m - 1
        BY <1>2, <3>2
      <4>2. symbols[j - 1] = st.symbols[j - 1] /\ b[j - 1] = at[j - 1]
        BY <1>11, <1>19, <4>1
      <4> QED  BY <2>1, <2>2, <4>1, <4>2
    <3> QED  BY <3>1, <3>2
  <2> DEFINE A == Append(Entries(st), Entry(symbol, pos))
  <2>5. /\ A \in Seq(EntrySet) /\ Len(A) = m + 1 /\ A[m + 1] = Entry(symbol, pos)
        /\ \A j \in 1 .. m : A[j] = Entries(st)[j]
    BY <2>3, <2>3a, AppendProperties
  <2> HIDE DEF A
  <2>6. \A j \in 1 .. m + 1 : Entries(x)[j] = A[j]
    <3>1. \A j \in 1 .. m + 1 : j \in 1 .. m \/ (j = m + 1 /\ j \notin 1 .. m)
      BY <1>2
    <3> QED  BY <2>4, <2>5, <3>1
  <2>7. Entries(x) = A
    BY <2>3, <2>5, <2>6, SeqEqual
  <2> QED  BY <2>7 DEF A
<1>22. EndOf(x) = pos + Span(symbol)
  BY <1>2, <1>13, <1>15, <1>19, <1>20, EndIs
<1> QED  BY <1>13, <1>15, <1>16, <1>20, <1>21, <1>22 DEF StoreInv, OneMore, x

-----------------------------------------------------------------------------
(* Counting leaves the list alone.                                           *)
Same(x, st) == StoreInv(x) /\ x.size = st.size /\ Entries(x) = Entries(st)

LEMMA CountedIs ==
  ASSUME NEW st, StoreInv(st), st.size > 0
  PROVE  Same(Counted(st), st)
<1>1. PICK x : x = Counted(st)
  OBVIOUS
<1>2. IsCounted(x, st) /\ Room(st)
  BY <1>1, CountedCounts DEF StoreInv
<1>3. PICK at : Positions(st, at)
  BY DEF StoreInv
<1>4. Positions(x, at)
  BY <1>2, <1>3 DEF IsCounted, Positions
<1>5. StoreInv(x)
  BY <1>2, <1>4 DEF StoreInv, IsCounted
<1>6. Entries(x) = Entries(st)
  <2>1. PICK n, s : n = st.size /\ s = st.symbols
    OBVIOUS
  <2>2. Entries(x) = [j \in 1 .. n |-> [symbol |-> s[j - 1], at |-> at[j - 1]]]
    BY <1>2, <1>4, <2>1, EntriesIs DEF IsCounted
  <2>3. Entries(st) = [j \in 1 .. n |-> [symbol |-> s[j - 1], at |-> at[j - 1]]]
    BY <1>2, <1>3, <2>1, EntriesIs
  <2> QED  BY <2>2, <2>3
<1> QED  BY <1>1, <1>2, <1>5, <1>6 DEF Same, IsCounted

IsEmpty(x) == StoreInv(x) /\ x.size = 0 /\ Entries(x) = << >>

LEMMA NothingIn ==
  ASSUME NEW x, Room(x), x.size = 0, x.counted = 0
  PROVE  IsEmpty(x)
<1> DEFINE at == [n \in 0 .. 0 |-> 0]
<1>1. at \in [0 .. x.size -> Nat]
  BY Positive
<1>2. \A c \in Nat : ~ (PosChunk * c < 0)
  BY Product, Positive
<1>3. \A n \in 0 .. x.size - 1 : FALSE
  OBVIOUS
<1>4. Positions(x, at)
  BY <1>1, <1>2, <1>3 DEF Positions
<1>5. CountsTrue(x, 0)
  BY NothingCounted, Positive DEF CountsTrue
<1>6. Entries(x) = << >>
  <2>1. 1 .. x.size = {}
    OBVIOUS
  <2>2. Entries(x) \in Seq(EntrySet) /\ Len(Entries(x)) = 0
    BY <1>4, EntriesType
  <2> QED  BY <2>2, EmptySeq
<1> QED  BY <1>4, <1>5, <1>6 DEF IsEmpty, StoreInv

LEMMA EmptyIs == IsEmpty(EmptyStore)
<1>1. \A V : Array(0) \in ArraysOf(V)
  <2>1. 0 .. 0 - 1 = {} /\ \A V : Array(0) \in [0 .. 0 - 1 -> V]
    BY DEF Array
  <2> QED  BY <2>1 DEF ArraysOf
<1>2. EmptyStore \in StoreType
  BY <1>1 DEF EmptyStore, StoreType
<1>3. /\ EmptyStore.size = 0 /\ EmptyStore.cap = 0 /\ EmptyStore.counted = 0
      /\ EmptyStore.symbols = Array(0) /\ EmptyStore.ll = Array(0) /\ EmptyStore.d = Array(0)
  BY DEF EmptyStore
<1>4. DOMAIN Array(0) = 0 .. 0 - 1 /\ \A j \in 0 .. 0 - 1 : FALSE
  BY DEF Array
<1>5. \A c \in Nat : ~ (PosChunk * c < 0)
  BY Product, Positive
<1>6. Room(EmptyStore)
  BY <1>2, <1>3, <1>4, <1>5 DEF Room
<1> QED  BY <1>3, <1>6, NothingIn

LEMMA EmptiedIs ==
  ASSUME NEW st, StoreInv(st)
  PROVE  IsEmpty(Emptied(st))
<1> DEFINE x == Emptied(st)
<1>1. st \in StoreType /\ st.cap \in Nat /\ Room(st)
  BY DEF StoreInv, Room, StoreType
<1>2. /\ x.size = 0 /\ x.counted = 0 /\ x.cap = st.cap /\ x.symbols = st.symbols
      /\ x.chunks = st.chunks /\ x.ll = st.ll /\ x.d = st.d /\ x \in StoreType
  BY <1>1 DEF Emptied, StoreType
<1> HIDE DEF x
<1>3. \A j \in 0 .. 0 - 1 : FALSE
  OBVIOUS
<1>4. Room(x)
  BY <1>1, <1>2, <1>3 DEF Room
<1> QED  BY <1>2, <1>4, NothingIn DEF x

-----------------------------------------------------------------------------
(* Copying.                                                                  *)
LEMMA CeilIsNear ==
  ASSUME NEW n \in Nat \ {0}, NEW a \in Nat
  PROVE  /\ CeilDiv(a, n) \in Nat
         /\ \A c \in Nat : c < CeilDiv(a, n) <=> n * c < a
<1>1. a + n - 1 \in Nat
  OBVIOUS
<1>2. PICK q \in Nat, r \in 0 .. n - 1 : a + n - 1 = n * q + r /\ q = CeilDiv(a, n)
  BY <1>1, DivIs DEF CeilDiv
<1>3. PICK m \in Nat : m = n * q
  BY Product
<1>4. a + n - 1 = m + r
  BY <1>2, <1>3
<1>5. ASSUME NEW c \in Nat
      PROVE  c < q <=> n * c < a
  <2>1. PICK o \in Nat : o = n * c
    BY Product
  <2>2. CASE c < q
    <3>1. n * c + n <= n * q
      BY <2>2, Further
    <3>2. o + n <= m
      BY <1>3, <2>1, <3>1
    <3> QED  BY <1>4, <2>1, <2>2, <3>2
  <2>3. CASE c = q
    <3>1. o = m
      BY <1>3, <2>1, <2>3
    <3> QED  BY <1>4, <2>1, <2>3, <3>1
  <2>4. CASE q < c
    <3>1. n * q + n <= n * c
      BY <2>4, Further
    <3>2. m + n <= o
      BY <1>3, <2>1, <3>1
    <3> QED  BY <1>4, <2>1, <2>4, <3>2
  <2> QED  BY <2>2, <2>3, <2>4
<1> QED  BY <1>2, <1>5

Taken(a, n, alloc) == [j \in 0 .. alloc - 1 |-> IF j < n THEN a[j] ELSE Garbage]

LEMMA CountsTaken ==
  ASSUME NEW num \in Nat \ {0}, NEW size \in Nat, NEW counted \in Nat, NEW cap \in Nat,
         0 < counted, counted <= size, size <= cap,
         NEW a \in ArraysOf(Int \cup {Garbage}), HasRoom(a, num, cap)
  PROVE  Grown(a, Taken(a, num * CeilDiv(counted, num), num * CeilDiv(size, num)),
               num, counted, size)
<1>1. PICK n \in Nat : n = num * CeilDiv(counted, num)
  BY CeilCovers
<1>2. PICK alloc \in Nat : alloc = num * CeilDiv(size, num)
  BY CeilCovers
<1>3. PICK b : b = Taken(a, n, alloc)
  OBVIOUS
<1>4. \A c \in Nat : num * c < counted => num * c + num <= n
  BY <1>1, CeilCovers
<1>5. \A c \in Nat : num * c < size => num * c + num <= alloc
  BY <1>2, CeilCovers
<1>6. ASSUME NEW j \in Nat, j < n PROVE j \in DOMAIN a
  <2>1. PICK q \in Nat, r \in 0 .. num - 1 : j = num * q + r
    BY DivIs
  <2>2. PICK u \in Nat : u = CeilDiv(counted, num)
    BY CeilIsNear
  <2>3. PICK m \in Nat : m = num * q
    BY Product
  <2>4. q < u
    <3>1. CASE q = u
      <4>1. m = n
        BY <1>1, <2>2, <2>3, <3>1
      <4> QED  BY <1>6, <2>1, <2>3, <4>1
    <3>2. CASE u < q
      <4>1. num * u + num <= num * q
        BY <3>2, Further
      <4>2. n + num <= m
        BY <1>1, <2>2, <2>3, <4>1
      <4> QED  BY <1>6, <2>1, <2>3, <4>2
    <3> QED  BY <3>1, <3>2
  <2>5. num * q < counted
    BY <2>2, <2>4, CeilIsNear
  <2>6. num * q < cap
    BY <2>3, <2>5
  <2> QED  BY <2>1, <2>6 DEF HasRoom
<1>7. /\ b \in ArraysOf(Int \cup {Garbage}) /\ DOMAIN b = 0 .. alloc - 1
      /\ \A j \in 0 .. alloc - 1 : j < n => b[j] = a[j]
  <2>1. a \in [DOMAIN a -> Int \cup {Garbage}]
    BY ArrayIs
  <2>2. b \in [0 .. alloc - 1 -> Int \cup {Garbage}]
    BY <1>3, <1>6, <2>1 DEF Taken
  <2> QED  BY <1>3, <2>2 DEF ArraysOf, Taken
<1>8. ASSUME NEW c \in Nat, NEW v \in 0 .. num - 1, num * c < size
      PROVE  num * c + v \in 0 .. alloc - 1
  <2>1. PICK m \in Nat : m = num * c
    BY Product
  <2>2. m + num <= alloc
    BY <1>5, <1>8, <2>1
  <2>3. m + v \in 0 .. alloc - 1
    BY <2>2
  <2> QED  BY <2>1, <2>3
<1>9. HasRoom(b, num, size)
  BY <1>7, <1>8 DEF HasRoom
<1>10. b # Array(0)
  <2>1. num * 0 = 0 /\ 0 \in 0 .. num - 1 /\ 0 < size
    OBVIOUS
  <2>2. num * 0 + 0 \in DOMAIN b
    BY <1>9, <2>1 DEF HasRoom
  <2> QED  BY <2>2, NoArray
<1>11. SameBelow(a, b, num, counted)
  <2> SUFFICES ASSUME NEW c \in Nat, NEW v \in 0 .. num - 1, num * c < counted
               PROVE  a[num * c + v] = b[num * c + v]
    BY DEF SameBelow
  <2>1. PICK m \in Nat : m = num * c
    BY Product
  <2>2. m + num <= n /\ m < size
    BY <1>4, <2>1
  <2>3. m + v < n
    BY <2>2
  <2>4. num * c + v < n /\ num * c < size
    BY <2>1, <2>2, <2>3
  <2> QED  BY <1>7, <1>8, <2>4
<1> QED  BY <1>1, <1>2, <1>3, <1>7, <1>9, <1>10, <1>11 DEF Grown

LEMMA CopyIs ==
  ASSUME NEW st, StoreInv(st)
  PROVE  Same(CopyOf(st), st)
<1> DEFINE x == CopyOf(st)
           m == st.size
<1>1. PICK at : Positions(st, at)
  BY DEF StoreInv
<1>2. /\ st \in StoreType /\ Room(st) /\ CountsTrue(st, st.counted) /\ st.cap \in Nat
      /\ m \in Nat /\ m <= st.cap /\ st.counted \in Nat /\ st.counted <= m
      /\ st.symbols \in ArraysOf(Symbols \cup {Garbage})
      /\ st.chunks \in ArraysOf(Nat \cup {Garbage})
      /\ st.ll \in ArraysOf(Int \cup {Garbage}) /\ st.d \in ArraysOf(Int \cup {Garbage})
  BY DEF StoreInv, Room, StoreType
<1>3. PICK symbols : symbols = Taken(st.symbols, m, m)
  OBVIOUS
<1>4. PICK q \in Nat : q = m \div PosChunk
  BY <1>2, Positive, DivIs
<1>5. PICK u \in Nat : u = CeilDiv(m, PosChunk)
  BY <1>2, Positive, CeilIsNear
<1>6. PICK chunks : chunks = Taken(st.chunks, u, q + 1)
  OBVIOUS
<1>7. PICK ll : ll = IF st.counted = 0 THEN Array(0)
                     ELSE Taken(st.ll, NumLL * CeilDiv(st.counted, NumLL), NumLL * CeilDiv(m, NumLL))
  OBVIOUS
<1>8. PICK d : d = IF st.counted = 0 THEN Array(0)
                   ELSE Taken(st.d, NumD * CeilDiv(st.counted, NumD), NumD * CeilDiv(m, NumD))
  OBVIOUS
<1>9. x = [size |-> m, cap |-> m, symbols |-> symbols, chunks |-> chunks,
           ll |-> ll, d |-> d, counted |-> st.counted]
  BY <1>3, <1>4, <1>5, <1>6, <1>7, <1>8 DEF CopyOf, Taken
<1> HIDE DEF x
<1>10. /\ symbols \in ArraysOf(Symbols \cup {Garbage}) /\ DOMAIN symbols = 0 .. m - 1
       /\ \A j \in 0 .. m - 1 : symbols[j] = st.symbols[j] /\ symbols[j] \in Symbols
  <2>1. \A j \in 0 .. m - 1 : j < m /\ st.symbols[j] \in Symbols
    BY <1>2 DEF Room
  <2>2. symbols \in [0 .. m - 1 -> Symbols \cup {Garbage}]
    BY <1>3, <2>1 DEF Taken
  <2> QED  BY <1>2, <1>3, <2>1, <2>2 DEF ArraysOf, Taken
<1>11. \A c \in Nat : PosChunk * c < m => c < u /\ c \in 0 .. (q + 1) - 1 /\ c \in DOMAIN st.chunks
  <2> SUFFICES ASSUME NEW c \in Nat, PosChunk * c < m
               PROVE  c < u /\ c \in 0 .. (q + 1) - 1 /\ c \in DOMAIN st.chunks
    OBVIOUS
  <2>1. c < u
    BY <1>2, <1>5, Positive, CeilIsNear
  <2>2. c <= q
    BY <1>2, <1>4, Positive, FloorCovers
  <2>3. PosChunk * c < st.cap
    <3>1. PICK o \in Nat : o = PosChunk * c
      BY Positive, Product
    <3> QED  BY <1>2, <3>1
  <2> QED  BY <1>2, <2>1, <2>2, <2>3 DEF Room
<1>12. /\ chunks \in ArraysOf(Nat \cup {Garbage})
       /\ \A c \in Nat : PosChunk * c < m => c \in DOMAIN chunks /\ chunks[c] = st.chunks[c]
  <2>1. st.chunks \in [DOMAIN st.chunks -> Nat \cup {Garbage}]
    BY <1>2, ArrayIs
  <2>2. \A c \in Nat : c < u => c \in DOMAIN st.chunks
    <3>1. \A c \in Nat : c < u => PosChunk * c < m
      BY <1>2, <1>5, Positive, CeilIsNear
    <3> QED  BY <1>11, <3>1
  <2>3. chunks \in [0 .. (q + 1) - 1 -> Nat \cup {Garbage}]
    BY <1>6, <2>1, <2>2 DEF Taken
  <2>4. chunks \in ArraysOf(Nat \cup {Garbage})
    BY <2>3 DEF ArraysOf
  <2>5. \A c \in 0 .. (q + 1) - 1 : c < u => chunks[c] = st.chunks[c]
    BY <1>6 DEF Taken
  <2> QED  BY <1>11, <2>3, <2>4, <2>5
<1>13. /\ st.counted = 0 => ll = Array(0) /\ d = Array(0)
       /\ st.counted # 0 => /\ Grown(st.ll, ll, NumLL, st.counted, m)
                            /\ Grown(st.d, d, NumD, st.counted, m)
                            /\ m > 0
  <2>1. CASE st.counted = 0
    BY <1>7, <1>8, <2>1
  <2>2. CASE st.counted # 0
    <3>1. HasRoom(st.ll, NumLL, st.cap) /\ HasRoom(st.d, NumD, st.cap)
      BY <1>2, <2>2 DEF Room
    <3>2. 0 < st.counted /\ m > 0
      BY <1>2, <2>2
    <3>3. Grown(st.ll, ll, NumLL, st.counted, m)
      BY <1>2, <1>7, <2>2, <3>1, <3>2, Positive, CountsTaken
    <3>4. Grown(st.d, d, NumD, st.counted, m)
      BY <1>2, <1>8, <2>2, <3>1, <3>2, Positive, CountsTaken
    <3> QED  BY <2>2, <3>2, <3>3, <3>4
  <2> QED  BY <2>1, <2>2
<1>14. ll \in ArraysOf(Int \cup {Garbage}) /\ d \in ArraysOf(Int \cup {Garbage})
  <2>1. Array(0) \in ArraysOf(Int \cup {Garbage})
    <3>1. 0 .. 0 - 1 = {} /\ Array(0) \in [0 .. 0 - 1 -> Int \cup {Garbage}]
      BY DEF Array
    <3> QED  BY <3>1 DEF ArraysOf
  <2> QED  BY <1>13, <2>1 DEF Grown
<1>15. /\ x.size = m /\ x.cap = m /\ x.symbols = symbols /\ x.chunks = chunks
       /\ x.ll = ll /\ x.d = d /\ x.counted = st.counted
  BY <1>9
<1>16. x \in StoreType
  BY <1>2, <1>9, <1>10, <1>12, <1>14 DEF StoreType
<1>17. Room(x)
  <2>1. ll = Array(0) => d = Array(0) /\ st.counted = 0
    BY <1>13 DEF Grown
  <2>2. ll # Array(0) => d # Array(0) /\ m > 0 /\ HasRoom(ll, NumLL, m) /\ HasRoom(d, NumD, m)
    BY <1>13 DEF Grown
  <2>3. m <= m
    BY <1>2
  <2> QED  BY <1>2, <1>10, <1>12, <1>15, <1>16, <2>1, <2>2, <2>3 DEF Room
<1>18. CountsTrue(x, x.counted)
  <2>1. CASE st.counted = 0
    BY <1>15, <2>1, NothingCounted, Positive DEF CountsTrue
  <2>2. CASE st.counted # 0
    <3>1. \A j \in 0 .. st.counted - 1 : j \in 0 .. m - 1
      BY <1>2
    <3>2. SameUpTo(LLOf(st), LLOf(x), st.counted) /\ SameUpTo(DOf(st), DOf(x), st.counted)
      BY <1>10, <1>15, <3>1 DEF SameUpTo, LLOf, DOf
    <3>3. SameBelow(st.ll, ll, NumLL, st.counted) /\ SameBelow(st.d, d, NumD, st.counted)
      BY <1>13, <2>2 DEF Grown
    <3>4. Tallies(st.ll, NumLL, LLOf(st), st.counted) /\ Tallies(st.d, NumD, DOf(st), st.counted)
      BY <1>2 DEF CountsTrue
    <3>5. Tallies(ll, NumLL, LLOf(x), st.counted)
      BY <1>2, <3>2, <3>3, <3>4, Positive, TalliesAgree
    <3>6. Tallies(d, NumD, DOf(x), st.counted)
      BY <1>2, <3>2, <3>3, <3>4, Positive, TalliesAgree
    <3> QED  BY <1>15, <3>5, <3>6 DEF CountsTrue
  <2> QED  BY <2>1, <2>2
<1>19. Positions(x, at)
  BY <1>1, <1>10, <1>12, <1>15 DEF Positions
<1>20. Entries(x) = Entries(st)
  <2>1. Entries(x) = [j \in 1 .. m |-> [symbol |-> symbols[j - 1], at |-> at[j - 1]]]
    BY <1>15, <1>17, <1>19, EntriesIs
  <2>2. Entries(st) = [j \in 1 .. m |-> [symbol |-> st.symbols[j - 1], at |-> at[j - 1]]]
    BY <1>1, <1>2, EntriesIs
  <2>3. \A j \in 1 .. m : j - 1 \in 0 .. m - 1
    BY <1>2
  <2> QED  BY <1>10, <2>1, <2>2, <2>3
<1> QED  BY <1>15, <1>17, <1>18, <1>19, <1>20 DEF Same, StoreInv, x

-----------------------------------------------------------------------------
(* Appending.                                                                *)
(* acc holds target and the first n symbols of st.                           *)
HoldsBoth(acc, st, target, n) ==
  /\ StoreInv(acc.to) /\ acc.to.size = target.size + n
  /\ \A j \in 1 .. target.size : Entries(acc.to)[j] = Entries(target)[j]
  /\ \A j \in 1 .. n : Entries(acc.to)[target.size + j] = Entries(st)[j]

GoesOn(acc, at, n) ==
  /\ acc.pos = at[n]
  /\ acc.to.size > 0 => acc.pos = EndOf(acc.to)

AccSet == [to : StoreType, pos : Nat]
StepOf(acc, symbol) == [ to  |-> Added(acc.to, symbol, acc.pos), pos |-> acc.pos + Span(symbol) ]

LEMMA AppendStep ==
  ASSUME NEW st, StoreInv(st), NEW at, Positions(st, at), NEW target, StoreInv(target),
         NEW n \in 0 .. st.size - 1,
         NEW acc \in AccSet, HoldsBoth(acc, st, target, n), GoesOn(acc, at, n)
  PROVE  /\ StepOf(acc, st.symbols[n]) \in AccSet
         /\ HoldsBoth(StepOf(acc, st.symbols[n]), st, target, n + 1)
         /\ GoesOn(StepOf(acc, st.symbols[n]), at, n + 1)
<1>1. PICK m \in Nat : m = target.size
  BY DEF StoreInv, Room, StoreType
<1>2. PICK to, pos : to = acc.to /\ pos = acc.pos
  OBVIOUS
<1>3. to \in StoreType /\ pos \in Nat /\ StoreInv(to) /\ to.size = m + n /\ st.size \in Nat /\ n \in Nat
  BY <1>1, <1>2 DEF AccSet, HoldsBoth, StoreInv, Room, StoreType
<1>4. PICK symbol \in Symbols : symbol = st.symbols[n]
  BY DEF StoreInv, Room
<1>5. PICK x : x = Added(to, symbol, pos)
  OBVIOUS
<1>6. OneMore(x, to, symbol, pos)
  <2>1. to.size > 0 => pos = EndOf(to)
    BY <1>2 DEF GoesOn
  <2> QED  BY <1>3, <1>5, <2>1, AddedIs
<1>7. PICK y : y = StepOf(acc, st.symbols[n])
  OBVIOUS
<1>8. y.to = x /\ y.pos = pos + Span(symbol) /\ y = [to |-> x, pos |-> pos + Span(symbol)]
  BY <1>2, <1>4, <1>5, <1>7 DEF StepOf
<1>9. y \in AccSet
  <2>1. pos + Span(symbol) \in Nat
    <3>1. Span(symbol) \in Nat
      BY StoreAssumption
    <3> QED  BY <1>3, <3>1
  <2>2. x \in StoreType
    BY <1>6 DEF OneMore, StoreInv, Room
  <2> QED  BY <1>8, <2>1, <2>2 DEF AccSet
<1>10. at[n + 1] = at[n] + Span(symbol)
  BY <1>4 DEF Positions
<1>11. GoesOn(y, at, n + 1)
  BY <1>2, <1>6, <1>8, <1>10 DEF GoesOn, OneMore
<1>12. /\ Len(Entries(x)) = m + n + 1
       /\ \A j \in 1 .. m + n : Entries(x)[j] = Entries(to)[j]
       /\ Entries(x)[m + n + 1] = Entry(symbol, pos)
  <2>1. Entries(to) \in Seq(EntrySet) /\ Len(Entries(to)) = m + n
    BY <1>3, EntriesType DEF StoreInv
  <2>2. Entry(symbol, pos) \in EntrySet
    BY <1>3 DEF Entry, EntrySet
  <2>3. Entries(x) = Append(Entries(to), Entry(symbol, pos))
    BY <1>6 DEF OneMore
  <2>4. PICK e : e = Entries(to)
    OBVIOUS
  <2>5. /\ Len(Append(e, Entry(symbol, pos))) = Len(e) + 1
        /\ \A j \in 1 .. Len(e) : Append(e, Entry(symbol, pos))[j] = e[j]
        /\ Append(e, Entry(symbol, pos))[Len(e) + 1] = Entry(symbol, pos)
    BY <2>1, <2>2, <2>4, AppendProperties
  <2> QED  BY <2>1, <2>3, <2>4, <2>5
<1>13. HoldsBoth(y, st, target, n + 1)
  <2>1. \A j \in 1 .. m : Entries(x)[j] = Entries(target)[j]
    <3>1. \A j \in 1 .. m : j \in 1 .. m + n
      BY <1>3
    <3>2. \A j \in 1 .. m : Entries(to)[j] = Entries(target)[j]
      BY <1>1, <1>2 DEF HoldsBoth
    <3> QED  BY <1>12, <3>1, <3>2
  <2>2. ASSUME NEW j \in 1 .. n + 1
        PROVE  Entries(x)[m + j] = Entries(st)[j]
    <3>1. CASE j = n + 1
      <4>1. m + j = m + n + 1 /\ j - 1 = n /\ j \in 1 .. st.size
        BY <1>1, <1>3, <3>1
      <4>2. Entries(st)[j] = [symbol |-> st.symbols[n], at |-> at[n]]
        <5>1. Entries(st) = [k \in 1 .. st.size |-> [symbol |-> st.symbols[k - 1], at |-> at[k - 1]]]
          BY EntriesIs DEF StoreInv
        <5> QED  BY <4>1, <5>1
      <4>3. pos = at[n]
        BY <1>2 DEF GoesOn
      <4> QED  BY <1>4, <1>12, <4>1, <4>2, <4>3 DEF Entry
    <3>2. CASE j # n + 1
      <4>1. j \in 1 .. n /\ m + j \in 1 .. m + n
        BY <1>1, <1>3, <3>2
      <4>2. Entries(to)[m + j] = Entries(st)[j]
        BY <1>1, <1>2, <4>1 DEF HoldsBoth
      <4> QED  BY <1>12, <4>1, <4>2
    <3> QED  BY <3>1, <3>2
  <2>3. StoreInv(x) /\ x.size = m + (n + 1)
    BY <1>3, <1>6 DEF OneMore
  <2> QED  BY <1>1, <1>8, <2>1, <2>2, <2>3 DEF HoldsBoth
<1> QED  BY <1>7, <1>9, <1>11, <1>13

Both(x, st, target) ==
  /\ StoreInv(x) /\ x.size = target.size + st.size
  /\ Entries(x) = Entries(target) \o Entries(st)

LEMMA AllAppended ==
  ASSUME NEW st, StoreInv(st), NEW target, StoreInv(target),
         NEW acc, HoldsBoth(acc, st, target, st.size)
  PROVE  Both(acc.to, st, target)
<1>1. PICK n, m : n = st.size /\ m = target.size
  OBVIOUS
<1>2. n \in Nat /\ m \in Nat
  BY <1>1 DEF StoreInv, Room, StoreType
<1>3. PICK x, a, b, c : x = acc.to /\ a = Entries(x) /\ b = Entries(target) /\ c = Entries(st)
  OBVIOUS
<1>4. /\ a \in Seq(EntrySet) /\ Len(a) = m + n /\ b \in Seq(EntrySet) /\ Len(b) = m
      /\ c \in Seq(EntrySet) /\ Len(c) = n
  BY <1>1, <1>3, EntriesType DEF HoldsBoth, StoreInv
<1>5. \A j \in 1 .. m : a[j] = b[j]
  BY <1>1, <1>3 DEF HoldsBoth
<1>6. \A j \in 1 .. n : a[m + j] = c[j]
  BY <1>1, <1>3 DEF HoldsBoth
<1>7. /\ b \o c \in Seq(EntrySet) /\ Len(b \o c) = m + n
      /\ \A j \in 1 .. m + n : (b \o c)[j] = IF j <= m THEN b[j] ELSE c[j - m]
  BY <1>4, ConcatProperties
<1>8. ASSUME NEW j \in 1 .. m + n PROVE a[j] = (b \o c)[j]
  <2>1. CASE j <= m
    <3>1. j \in 1 .. m
      BY <1>2, <2>1
    <3> QED  BY <1>5, <1>7, <2>1, <3>1
  <2>2. CASE ~ (j <= m)
    <3>1. j - m \in 1 .. n /\ m + (j - m) = j
      BY <1>2, <2>2
    <3> QED  BY <1>6, <1>7, <2>2, <3>1
  <2> QED  BY <2>1, <2>2
<1>9. a = b \o c
  BY <1>4, <1>7, <1>8, SeqEqual
<1> QED  BY <1>3, <1>9 DEF HoldsBoth, Both

LEMMA AppendedIs ==
  ASSUME NEW st, StoreInv(st), NEW target, StoreInv(target),
         st.size > 0 /\ target.size > 0 => PosOf(st, 0) = EndOf(target)
  PROVE  Both(Appended(st, target), st, target)
<1>1. PICK at : Positions(st, at)
  BY DEF StoreInv
<1>2. PICK m \in Nat : m = st.size
  BY DEF StoreInv, Room, StoreType
<1>3. PICK symbols : symbols = st.symbols
  OBVIOUS
<1>4. PICK base : base = [to |-> target, pos |-> FirstPos(st)]
  OBVIOUS
<1> DEFINE Good(acc, n) == /\ HoldsBoth(acc, st, target, n)
                           /\ m > 0 => GoesOn(acc, at, n)
           P == [n \in 0 .. m |-> {acc \in AccSet : Good(acc, n)}]
           step == [z \in (1 .. m) \X AccSet |-> StepOf(z[2], symbols[z[1] - 1])]
           Is(f) == f = [n \in 0 .. m |-> IF n = 0 THEN base
                                          ELSE StepOf(f[n - 1], symbols[n - 1])]
           upTo == CHOOSE f : Is(f)
<1>5. base \in AccSet /\ Good(base, 0)
  <2>0. target.size \in Nat /\ target \in StoreType
    BY DEF StoreInv, Room, StoreType
  <2>1. PICK pos : pos = FirstPos(st)
    OBVIOUS
  <2>2. /\ m > 0 => pos = at[0]
        /\ m > 0 /\ target.size > 0 => pos = EndOf(target)
    <3>1. CASE m = 0
      BY <1>2, <2>1, <3>1 DEF FirstPos
    <3>2. CASE m # 0
      <4>1. 0 \in 0 .. st.size - 1 /\ 0 \in 0 .. st.size /\ PosChunk * 0 = 0 /\ st.size > 0
        BY <1>2, <3>2, Positive
      <4>2. PosOf(st, 0) = at[0]
        BY <1>1, <4>1, PosIs DEF StoreInv
      <4>3. pos = st.chunks[0]
        BY <1>2, <2>1, <3>2 DEF FirstPos
      <4>4. st.chunks[0] = at[0]
        BY <1>1, <4>1 DEF Positions
      <4> QED  BY <4>1, <4>2, <4>3, <4>4
    <3> QED  BY <3>1, <3>2
  <2>3. base.to = target /\ base.pos = pos /\ base = [to |-> target, pos |-> pos]
    BY <1>4, <2>1
  <2>4. HoldsBoth(base, st, target, 0)
    BY <2>0, <2>3 DEF HoldsBoth
  <2>5. m > 0 => GoesOn(base, at, 0)
    BY <2>2, <2>3 DEF GoesOn
  <2>6. pos \in Nat
    <3>1. CASE m = 0
      BY <1>2, <2>1, <3>1 DEF FirstPos
    <3>2. CASE m # 0
      <4>1. 0 \in 0 .. st.size
        BY <1>2
      <4> QED  BY <1>1, <1>2, <2>2, <3>2, <4>1 DEF Positions
    <3> QED  BY <3>1, <3>2
  <2> QED  BY <2>0, <2>3, <2>4, <2>5, <2>6 DEF AccSet
<1>6. ASSUME NEW n \in 1 .. m, NEW acc \in AccSet, Good(acc, n - 1)
      PROVE  StepOf(acc, symbols[n - 1]) \in AccSet /\ Good(StepOf(acc, symbols[n - 1]), n)
  <2>1. n - 1 \in 0 .. st.size - 1 /\ (n - 1) + 1 = n /\ m > 0
    BY <1>2
  <2>2. HoldsBoth(acc, st, target, n - 1) /\ GoesOn(acc, at, n - 1)
    BY <1>6, <2>1
  <2> HIDE DEF Good
  <2>3. /\ StepOf(acc, st.symbols[n - 1]) \in AccSet
        /\ HoldsBoth(StepOf(acc, st.symbols[n - 1]), st, target, (n - 1) + 1)
        /\ GoesOn(StepOf(acc, st.symbols[n - 1]), at, (n - 1) + 1)
    BY <1>1, <2>1, <2>2, AppendStep
  <2> QED  BY <1>3, <2>1, <2>3 DEF Good
<1> HIDE DEF Good
<1>7. \E f : Is(f)
  <2>1. base \in P[0] /\ 0 \in 0 .. m
    BY <1>5
  <2>2. ASSUME NEW n \in 1 .. m, NEW acc \in P[n - 1]
        PROVE  /\ step[<<n, acc>>] \in P[n]
               /\ step[<<n, acc>>] = StepOf(acc, symbols[n - 1])
    <3>1. n \in 0 .. m /\ n - 1 \in 0 .. m
      OBVIOUS
    <3>2. acc \in AccSet /\ Good(acc, n - 1)
      BY <3>1
    <3>3. step[<<n, acc>>] = StepOf(acc, symbols[n - 1])
      BY <3>2
    <3>4. StepOf(acc, symbols[n - 1]) \in AccSet /\ Good(StepOf(acc, symbols[n - 1]), n)
      BY <1>6, <3>2
    <3> HIDE DEF step
    <3> QED  BY <3>1, <3>3, <3>4
  <2> HIDE DEF P, step
  <2>3. Leads(step, P, m)
    BY <2>2 DEF Leads
  <2> HIDE DEF Is
  <2>4. PICK f : /\ f = [n \in 0 .. m |-> IF n = 0 THEN base ELSE step[<<n, f[n - 1]>>]]
                 /\ \A n \in 0 .. m : f[n] \in P[n]
    BY <2>1, <2>3, StepsExist
  <2>5. ASSUME NEW n \in 0 .. m
        PROVE  (IF n = 0 THEN base ELSE step[<<n, f[n - 1]>>])
                 = IF n = 0 THEN base ELSE StepOf(f[n - 1], symbols[n - 1])
    <3>1. CASE n = 0
      BY <3>1
    <3>2. CASE n # 0
      <4>1. n \in 1 .. m /\ n - 1 \in 0 .. m
        BY <3>2
      <4>2. f[n - 1] \in P[n - 1]
        BY <2>4, <4>1
      <4> QED  BY <2>2, <3>2, <4>1, <4>2
    <3> QED  BY <3>1, <3>2
  <2>6. Is(f)
    BY <2>4, <2>5 DEF Is
  <2> QED  BY <2>6
<1>8. Is(upTo)
  <2> HIDE DEF Is
  <2> QED  BY <1>7
<1> HIDE DEF upTo
<1> DEFINE T == {n \in 0 .. m : upTo[n] \in AccSet /\ Good(upTo[n], n)}
<1>9. 0 \in T
  <2>1. 0 \in 0 .. m
    OBVIOUS
  <2>2. upTo[0] = base
    BY <1>8, <2>1
  <2> QED  BY <1>5, <2>1, <2>2
<1>10. ASSUME NEW n \in 0 .. m - 1, n \in T PROVE n + 1 \in T
  <2>1. n + 1 \in 1 .. m /\ n + 1 \in 0 .. m /\ (n + 1) - 1 = n /\ n + 1 # 0
    OBVIOUS
  <2>2. upTo[n] \in AccSet /\ Good(upTo[n], n)
    BY <1>10
  <2>3. upTo[n + 1] = StepOf(upTo[n], symbols[n])
    BY <1>8, <2>1
  <2>4. StepOf(upTo[n], symbols[n]) \in AccSet /\ Good(StepOf(upTo[n], symbols[n]), n + 1)
    BY <1>6, <2>1, <2>2
  <2> QED  BY <2>1, <2>3, <2>4
<1>11. m \in T
  <2> HIDE DEF T
  <2>1. m \in Nat /\ m \in 0 .. m
    OBVIOUS
  <2> QED  BY <1>9, <1>10, <2>1, UpTo
<1>12. HoldsBoth(upTo[m], st, target, st.size)
  BY <1>2, <1>11 DEF Good
<1>13. Appended(st, target) = upTo[m].to
  BY <1>2, <1>3, <1>4 DEF Appended, upTo, Is, StepOf
<1>14. PICK acc : acc = upTo[m]
  OBVIOUS
<1> QED  BY <1>12, <1>13, <1>14, AllAppended

-----------------------------------------------------------------------------
(* Every store, always.                                                      *)
AllStores ==
  /\ store \in [Stores -> StoreType]
  /\ \A s \in Stores : StoreInv(store[s])

(* What a step may do to the store s.                                        *)
Becomes(s, x) == store' = [store EXCEPT ![s] = x]

LEMMA BecomesKeeps ==
  ASSUME AllStores, NEW s \in Stores, NEW x, StoreInv(x), Becomes(s, x)
  PROVE  AllStores' /\ store'[s] = x /\ \A t \in Stores \ {s} : store'[t] = store[t]
<1>1. x \in StoreType
  BY DEF StoreInv, Room
<1>2. /\ store' \in [Stores -> StoreType] /\ store'[s] = x
      /\ \A t \in Stores \ {s} : store'[t] = store[t]
  BY <1>1 DEF AllStores, Becomes
<1>3. \A t \in Stores : StoreInv(store'[t])
  <2> SUFFICES ASSUME NEW t \in Stores PROVE StoreInv(store'[t])
    OBVIOUS
  <2>1. CASE t = s
    BY <1>2, <2>1
  <2>2. CASE t # s
    BY <1>2, <2>2 DEF AllStores
  <2> QED  BY <2>1, <2>2
<1> QED  BY <1>2, <1>3 DEF AllStores

LEMMA ContinuesInNat ==
  ASSUME AllStores, NEW s \in Stores, NEW pos \in Continuations(s)
  PROVE  pos \in Nat /\ (store[s].size > 0 => pos = EndOf(store[s]))
<1>1. \A t \in Stores : store[t].size > 0 => EndOf(store[t]) \in Nat
  BY EndIs DEF AllStores, StoreInv
<1>2. CASE store[s].size > 0
  BY <1>1, <1>2 DEF Continuations
<1>3. CASE ~ (store[s].size > 0)
  <2>1. pos = 0 \/ \E t \in Stores : store[t].size > 0 /\ pos = EndOf(store[t])
    BY <1>3 DEF Continuations
  <2> QED  BY <1>1, <1>3, <2>1
<1> QED  BY <1>2, <1>3

LEMMA WorkIsStores == Work \subseteq Stores
BY StoreAssumption

LEMMA PutStep ==
  ASSUME AllStores, NEW s \in Work, NEW symbol \in Symbols, NEW pos \in Continuations(s),
         StoreLitLenDist(s, symbol, pos)
  PROVE  /\ s \in Stores /\ Becomes(s, Added(store[s], symbol, pos))
         /\ OneMore(Added(store[s], symbol, pos), store[s], symbol, pos)
<1>1. s \in Stores
  BY WorkIsStores
<1>2. pos \in Nat /\ (store[s].size > 0 => pos = EndOf(store[s]))
  BY <1>1, ContinuesInNat
<1>3. StoreInv(store[s])
  BY <1>1 DEF AllStores
<1>4. OneMore(Added(store[s], symbol, pos), store[s], symbol, pos)
  BY <1>2, <1>3, AddedIs
<1> QED  BY <1>1, <1>4 DEF StoreLitLenDist, Becomes

LEMMA ResetStep ==
  ASSUME AllStores, NEW s \in Work, ResetLZ77Store(s)
  PROVE  s \in Stores /\ Becomes(s, Emptied(store[s])) /\ IsEmpty(Emptied(store[s]))
<1>1. s \in Stores /\ StoreInv(store[s])
  BY WorkIsStores DEF AllStores
<1> QED  BY <1>1, EmptiedIs DEF ResetLZ77Store, Becomes

LEMMA CopyStep ==
  ASSUME AllStores, NEW s \in Work, NEW t \in Stores \ {s}, CopyLZ77Store(s, t)
  PROVE  s \in Stores /\ Becomes(t, CopyOf(store[s])) /\ Same(CopyOf(store[s]), store[s])
<1>1. s \in Stores /\ StoreInv(store[s])
  BY WorkIsStores DEF AllStores
<1> QED  BY <1>1, CopyIs DEF CopyLZ77Store, Becomes

LEMMA AppendOfStep ==
  ASSUME AllStores, NEW s \in Work, NEW t \in Stores \ {s}, AppendLZ77Store(s, t)
  PROVE  /\ s \in Stores /\ Becomes(t, Appended(store[s], store[t]))
         /\ Both(Appended(store[s], store[t]), store[s], store[t])
         /\ store[s].size > 0 /\ store[t].size > 0 => PosOf(store[s], 0) = EndOf(store[t])
<1>1. s \in Stores /\ StoreInv(store[s]) /\ StoreInv(store[t])
  BY WorkIsStores DEF AllStores
<1>2. store[s].size > 0 /\ store[t].size > 0 => PosOf(store[s], 0) = EndOf(store[t])
  BY DEF AppendLZ77Store
<1>3. Both(Appended(store[s], store[t]), store[s], store[t])
  BY <1>1, <1>2, AppendedIs
<1> QED  BY <1>1, <1>2, <1>3 DEF AppendLZ77Store, Becomes

LEMMA CountStep ==
  ASSUME AllStores, NEW s \in Stores, NEW r \in 0 .. store[s].size, NEW l \in 0 .. r,
         GetHistogram(s, l, r)
  PROVE  Becomes(s, Counted(store[s])) /\ Same(Counted(store[s]), store[s])
<1>1. PICK st : st = store[s]
  OBVIOUS
<1>2. StoreInv(st) /\ st.size \in Nat
  BY <1>1 DEF AllStores, StoreInv, Room, StoreType
<1>3. st.size > 0
  BY <1>1, <1>2, Positive DEF GetHistogram, CountsCumulatively
<1>4. Same(Counted(st), st)
  BY <1>2, <1>3, CountedIs
<1> QED  BY <1>1, <1>4 DEF GetHistogram, Becomes

LEMMA AllStoresNext == AllStores /\ [StoreNext]_store => AllStores'
<1> SUFFICES ASSUME AllStores, [StoreNext]_store PROVE AllStores'
  OBVIOUS
<1>1. ASSUME NEW s \in Work, NEW symbol \in Symbols, NEW pos \in Continuations(s),
             StoreLitLenDist(s, symbol, pos)
      PROVE  AllStores'
  BY <1>1, PutStep, BecomesKeeps DEF OneMore
<1>2. ASSUME NEW s \in Work, ResetLZ77Store(s)
      PROVE  AllStores'
  BY <1>2, ResetStep, BecomesKeeps DEF IsEmpty
<1>3. ASSUME NEW s \in Work, NEW t \in Stores \ {s}, CopyLZ77Store(s, t)
      PROVE  AllStores'
  BY <1>3, CopyStep, BecomesKeeps DEF Same
<1>4. ASSUME NEW s \in Work, NEW t \in Stores \ {s}, AppendLZ77Store(s, t)
      PROVE  AllStores'
  BY <1>4, AppendOfStep, BecomesKeeps DEF Both
<1>5. ASSUME NEW s \in Stores, NEW r \in 0 .. store[s].size, NEW l \in 0 .. r,
             GetHistogram(s, l, r)
      PROVE  AllStores'
  BY <1>5, CountStep, BecomesKeeps DEF Same
<1>6. CASE UNCHANGED store
  BY <1>6 DEF AllStores
<1> QED  BY <1>1, <1>2, <1>3, <1>4, <1>5, <1>6 DEF StoreNext

LEMMA InitAllStores == StoreInit => AllStores
<1>1. StoreInv(EmptyStore) /\ EmptyStore \in StoreType
  BY EmptyIs DEF IsEmpty, StoreInv, Room
<1> QED  BY <1>1 DEF StoreInit, AllStores

(* However stores are filled, reset, copied, appended and counted, each keeps *)
(* room, true counts and positions, as StoreInv says (lz77.c:60-305).         *)
THEOREM StoresHold == StoreSpec => []AllStores
<1>1. StoreInit => AllStores
  BY InitAllStores
<1>2. AllStores /\ [StoreNext]_store => AllStores'
  BY AllStoresNext
<1> QED  BY <1>1, <1>2, PTL DEF StoreSpec

LEMMA BoundsFollow ==
  ASSUME NEW st, Room(st)
  PROVE  /\ st.counted <= st.size /\ st.size <= st.cap
         /\ DOMAIN st.symbols = 0 .. st.cap - 1
         /\ \A j \in 0 .. st.cap - 1 : j \div PosChunk \in DOMAIN st.chunks
         /\ st.counted > 0 => st.ll # Array(0)
         /\ st.ll # Array(0) =>
              \A j \in 0 .. st.cap - 1 :
                /\ NumLL * (j \div NumLL) + NumLL - 1 \in DOMAIN st.ll
                /\ NumD * (j \div NumD) + NumD - 1 \in DOMAIN st.d
<1>1. st.cap \in Nat /\ st.counted \in Nat
  BY DEF Room, StoreType
<1>2. ASSUME NEW num \in Nat \ {0}, NEW j \in 0 .. st.cap - 1
      PROVE  j \div num \in Nat /\ num * (j \div num) < st.cap
  <2>1. j \in Nat
    OBVIOUS
  <2>2. PICK q \in Nat, r \in 0 .. num - 1 : j = num * q + r /\ q = j \div num
    BY <2>1, DivIs
  <2>3. PICK m \in Nat : m = num * q
    BY Product
  <2>4. m + r = j /\ m < st.cap
    <3>1. m + r = j
      BY <2>2, <2>3
    <3> QED  BY <1>1, <3>1
  <2> QED  BY <2>2, <2>3, <2>4
<1>3. \A j \in 0 .. st.cap - 1 : j \div PosChunk \in DOMAIN st.chunks
  BY <1>2, Positive DEF Room
<1>4. ASSUME NEW num \in Nat \ {0}, NEW a, HasRoom(a, num, st.cap), NEW j \in 0 .. st.cap - 1
      PROVE  num * (j \div num) + num - 1 \in DOMAIN a
  <2>1. PICK q \in Nat : q = j \div num /\ num * q < st.cap
    BY <1>2
  <2>2. num - 1 \in 0 .. num - 1
    OBVIOUS
  <2>3. num * q + (num - 1) \in DOMAIN a
    BY <1>4, <2>1, <2>2 DEF HasRoom
  <2>4. PICK m \in Nat : m = num * q
    BY Product
  <2>5. m + (num - 1) = m + num - 1
    OBVIOUS
  <2> QED  BY <2>1, <2>3, <2>4, <2>5
<1>5. st.ll # Array(0) => \A j \in 0 .. st.cap - 1 :
                /\ NumLL * (j \div NumLL) + NumLL - 1 \in DOMAIN st.ll
                /\ NumD * (j \div NumD) + NumD - 1 \in DOMAIN st.d
  BY <1>4, Positive DEF Room
<1>6. st.counted > 0 => st.ll # Array(0)
  BY <1>1 DEF Room
<1> QED  BY <1>3, <1>5, <1>6 DEF Room

(* Whatever is written next, and whatever a histogram reads, lies inside the  *)
(* allocations (ZopfliReserveLZ77Store and EnsureCounts, lz77.c).             *)
THEOREM StoresInBounds == StoreSpec => []InBounds
<1>1. AllStores => InBounds
  <2> SUFFICES ASSUME AllStores PROVE InBounds
    OBVIOUS
  <2>1. \A s \in Stores : Room(store[s])
    BY DEF AllStores, StoreInv
  <2> QED  BY <2>1, BoundsFollow DEF InBounds
<1> QED  BY <1>1, StoresHold, PTL

(* A histogram taken from the cumulative counts is that of its range: for any *)
(* sizes of chunks, capacities and alphabets, after any history of the store  *)
(* (ZopfliLZ77GetHistogram).                                                  *)
THEOREM HistogramsAreExact == StoreSpec => []HistogramsExact
<1>1. AllStores => HistogramsExact
  <2> SUFFICES ASSUME AllStores, NEW s \in Stores, NEW r \in 0 .. store[s].size,
                      NEW l \in 0 .. r, CountsCumulatively(l, r)
               PROVE  Cumulatively(Counted(store[s]), l, r) = Directly(store[s], l, r)
    BY DEF HistogramsExact
  <2>1. PICK st : st = store[s]
    OBVIOUS
  <2>2. Room(st) /\ CountsTrue(st, st.counted) /\ r \in 0 .. st.size
    BY <2>1 DEF AllStores, StoreInv
  <2>3. Cumulatively(Counted(st), l, r) = Directly(st, l, r)
    BY <2>2, HistogramExact
  <2> QED  BY <2>1, <2>3
<1> QED  BY <1>1, StoresHold, PTL

-----------------------------------------------------------------------------
(* Every store is the list that SymbolLog says.                              *)
LogOf == [s \in Stores |-> Entries(store[s])]

LEMMA LogEnd ==
  ASSUME NEW st, StoreInv(st)
  PROVE  /\ Entries(st) # << >> <=> st.size > 0
         /\ st.size > 0 => /\ Log!EndOf(Entries(st)) = EndOf(st)
                           /\ Entries(st)[1].at = PosOf(st, 0)
<1>1. PICK at : Positions(st, at)
  BY DEF StoreInv
<1>2. PICK n \in Nat : n = st.size
  BY DEF StoreInv, Room, StoreType
<1>3. PICK e : e = Entries(st)
  OBVIOUS
<1>4. e \in Seq(EntrySet) /\ Len(e) = n
  BY <1>1, <1>2, <1>3, EntriesType DEF StoreInv
<1>5. e # << >> <=> n > 0
  <2>1. n = 0 => e = << >>
    BY <1>4, EmptySeq
  <2>2. n > 0 => e # << >>
    BY <1>4, EmptySeq
  <2> QED  BY <2>1, <2>2
<1>6. e = [j \in 1 .. n |-> [symbol |-> st.symbols[j - 1], at |-> PosOf(st, j - 1)]]
  BY <1>2, <1>3 DEF Entries
<1>7. CASE n > 0
  <2>1. n \in 1 .. n /\ 1 \in 1 .. n /\ 1 - 1 = 0
    BY <1>7
  <2>2. e[n].at = PosOf(st, n - 1) /\ e[n].symbol = st.symbols[n - 1]
    BY <1>6, <2>1
  <2>3. e[1].at = PosOf(st, 0)
    BY <1>6, <2>1
  <2>4. Log!EndOf(e) = e[n].at + Span(e[n].symbol)
    BY <1>4 DEF Log!EndOf
  <2>5. Log!EndOf(e) = EndOf(st)
    BY <1>2, <2>2, <2>4 DEF EndOf
  <2> QED  BY <1>2, <1>3, <1>5, <2>3, <2>5
<1>8. CASE ~ (n > 0)
  BY <1>2, <1>3, <1>5, <1>8
<1> QED  BY <1>7, <1>8

LEMMA LogContinues ==
  ASSUME AllStores, NEW s \in Stores
  PROVE  Log!Continuations(s) = Continuations(s)
<1>1. \A t \in Stores : Entries(store[t]) # << >> <=> store[t].size > 0
  BY LogEnd DEF AllStores
<1>2. \A t \in Stores : store[t].size > 0 => Log!EndOf(Entries(store[t])) = EndOf(store[t])
  BY LogEnd DEF AllStores
<1>3. Log!Continuations(s) =
        IF LogOf[s] # << >> THEN {Log!EndOf(LogOf[s])}
        ELSE {0} \cup {Log!EndOf(LogOf[t]) : t \in {u \in Stores : LogOf[u] # << >>}}
  BY DEF Log!Continuations, LogOf
<1>4. {u \in Stores : LogOf[u] # << >>} = {u \in Stores : store[u].size > 0}
  BY <1>1 DEF LogOf
<1>5. {Log!EndOf(LogOf[t]) : t \in {u \in Stores : store[u].size > 0}}
        = {EndOf(store[t]) : t \in {u \in Stores : store[u].size > 0}}
  BY <1>2 DEF LogOf
<1> QED  BY <1>1, <1>2, <1>3, <1>4, <1>5 DEF Continuations, LogOf

(* The list of one store changes, the others stay.                           *)
LEMMA LogBecomes ==
  ASSUME AllStores, NEW s \in Stores, NEW x, StoreInv(x), Becomes(s, x)
  PROVE  LogOf' = [LogOf EXCEPT ![s] = Entries(x)]
<1>1. store'[s] = x /\ \A t \in Stores \ {s} : store'[t] = store[t]
  BY BecomesKeeps
<1>2. LogOf' = [t \in Stores |-> Entries(store'[t])]
  BY DEF LogOf
<1>3. [LogOf EXCEPT ![s] = Entries(x)] = [t \in Stores |-> IF t = s THEN Entries(x) ELSE Entries(store[t])]
  BY DEF LogOf
<1> QED  BY <1>1, <1>2, <1>3

LEMMA LogStep == AllStores /\ [StoreNext]_store => [Log!LogNext]_LogOf
<1> SUFFICES ASSUME AllStores, [StoreNext]_store PROVE [Log!LogNext]_LogOf
  OBVIOUS
<1>1. ASSUME NEW s \in Work, NEW symbol \in Symbols, NEW pos \in Continuations(s),
             StoreLitLenDist(s, symbol, pos)
      PROVE  s \in Stores /\ Log!Put(s)
  <2>1. PICK x : x = Added(store[s], symbol, pos)
    OBVIOUS
  <2>2. s \in Stores /\ Becomes(s, x) /\ OneMore(x, store[s], symbol, pos)
    BY <1>1, <2>1, PutStep
  <2>3. pos \in Log!Continuations(s)
    BY <2>2, LogContinues
  <2>4. LogOf' = [LogOf EXCEPT ![s] = Entries(x)] /\ LogOf[s] = Entries(store[s])
    BY <2>2, LogBecomes DEF OneMore, LogOf
  <2>5. Entries(x) = Append(LogOf[s], [symbol |-> symbol, at |-> pos])
    BY <2>2, <2>4 DEF OneMore, Entry
  <2>6. LogOf' = [LogOf EXCEPT ![s] = Append(@, [symbol |-> symbol, at |-> pos])]
    BY <2>4, <2>5
  <2> QED  BY <2>2, <2>3, <2>6 DEF Log!Put, LogOf
<1>2. ASSUME NEW s \in Work, ResetLZ77Store(s)
      PROVE  s \in Stores /\ Log!Clear(s)
  <2>1. PICK x : x = Emptied(store[s])
    OBVIOUS
  <2>2. s \in Stores /\ Becomes(s, x) /\ IsEmpty(x)
    BY <1>2, <2>1, ResetStep
  <2>3. LogOf' = [LogOf EXCEPT ![s] = << >>]
    BY <2>2, LogBecomes DEF IsEmpty
  <2> QED  BY <2>2, <2>3 DEF Log!Clear, LogOf
<1>3. ASSUME NEW s \in Work, NEW t \in Stores \ {s}, CopyLZ77Store(s, t)
      PROVE  s \in Stores /\ Log!Replace(s, t)
  <2>1. PICK x : x = CopyOf(store[s])
    OBVIOUS
  <2>2. s \in Stores /\ Becomes(t, x) /\ Same(x, store[s])
    BY <1>3, <2>1, CopyStep
  <2>3. LogOf' = [LogOf EXCEPT ![t] = LogOf[s]]
    BY <2>2, LogBecomes DEF Same, LogOf
  <2> QED  BY <2>2, <2>3 DEF Log!Replace, LogOf
<1>4. ASSUME NEW s \in Work, NEW t \in Stores \ {s}, AppendLZ77Store(s, t)
      PROVE  s \in Stores /\ Log!Extend(s, t)
  <2>1. PICK x : x = Appended(store[s], store[t])
    OBVIOUS
  <2>2. /\ s \in Stores /\ Becomes(t, x) /\ Both(x, store[s], store[t])
        /\ store[s].size > 0 /\ store[t].size > 0 => PosOf(store[s], 0) = EndOf(store[t])
    BY <1>4, <2>1, AppendOfStep
  <2>3. LogOf' = [LogOf EXCEPT ![t] = LogOf[t] \o LogOf[s]]
    <3>1. LogOf' = [LogOf EXCEPT ![t] = Entries(x)]
      BY <2>2, LogBecomes DEF Both
    <3>2. LogOf[t] = Entries(store[t]) /\ LogOf[s] = Entries(store[s])
      BY <2>2 DEF LogOf
    <3>3. Entries(x) = LogOf[t] \o LogOf[s]
      BY <2>2, <3>2 DEF Both
    <3> QED  BY <3>1, <3>3
  <2>4. LogOf' = [LogOf EXCEPT ![t] = @ \o LogOf[s]]
    BY <2>3 DEF LogOf
  <2>5. LogOf[s] # << >> /\ LogOf[t] # << >> => LogOf[s][1].at = Log!EndOf(LogOf[t])
    <3>1. LogOf[s] = Entries(store[s]) /\ LogOf[t] = Entries(store[t])
      BY <2>2 DEF LogOf
    <3>2. StoreInv(store[s]) /\ StoreInv(store[t])
      BY <2>2 DEF AllStores
    <3>3. /\ Entries(store[s]) # << >> <=> store[s].size > 0
          /\ Entries(store[t]) # << >> <=> store[t].size > 0
          /\ store[s].size > 0 => Entries(store[s])[1].at = PosOf(store[s], 0)
          /\ store[t].size > 0 => Log!EndOf(Entries(store[t])) = EndOf(store[t])
      BY <3>2, LogEnd
    <3> QED  BY <2>2, <3>1, <3>3
  <2> QED  BY <2>2, <2>4, <2>5 DEF Log!Extend, LogOf
<1>5. ASSUME NEW s \in Stores, NEW r \in 0 .. store[s].size, NEW l \in 0 .. r,
             GetHistogram(s, l, r)
      PROVE  UNCHANGED LogOf
  <2>1. PICK x : x = Counted(store[s])
    OBVIOUS
  <2>2. Becomes(s, x) /\ Same(x, store[s])
    BY <1>5, <2>1, CountStep
  <2>3. LogOf' = [LogOf EXCEPT ![s] = LogOf[s]]
    BY <2>2, LogBecomes DEF Same, LogOf
  <2> QED  BY <2>3 DEF LogOf
<1>6. CASE UNCHANGED store
  BY <1>6 DEF LogOf
<1> QED  BY <1>1, <1>2, <1>3, <1>4, <1>5, <1>6 DEF StoreNext, Log!LogNext

LEMMA LogInitially == StoreInit => LogOf = [s \in Stores |-> << >>]
BY EmptyIs DEF StoreInit, LogOf, IsEmpty

(* The stores implement SymbolLog: although one position in PosChunk is kept  *)
(* and memory is reused, every operation does to the list of symbols and      *)
(* positions what it should (lz77.h).                                         *)
THEOREM StoresAreLogs == StoreSpec => IsALog
<1>1. StoreInit => Log!LogInit
  BY LogInitially DEF Log!LogInit, LogOf
<1>2. AllStores /\ [StoreNext]_store => [Log!LogNext]_LogOf
  BY LogStep
<1> QED  BY <1>1, <1>2, StoresHold, PTL DEF StoreSpec, IsALog, Log!LogSpec, LogOf
=============================================================================
