---------------------------- MODULE BlockProofs ----------------------------
(***************************************************************************)
(* Proofs about what a block is cut by and coded with.                     *)
(*                                                                         *)
(* The block splitter: for every list of symbols, every cost of blocks and *)
(* every limit, the points found in any order cut blocks that are in order *)
(* and not empty.                                                          *)
(*                                                                         *)
(* The code lengths: for all frequencies and every limit on the lengths,   *)
(* the chains of the boundary package-merge fit into the nodes allocated,  *)
(* and no length is longer than the limit.                                 *)
(*                                                                         *)
(* The blocks: for every list of symbols and every size of the constants,  *)
(* a compressed block has as many bits as it was estimated at.  Sums and   *)
(* concatenations are taken apart first, then sums over symbols are turned *)
(* into sums over places; the lengths of all trees that can be chosen are  *)
(* shown to be lengths of codes, and with them every part of a block to be *)
(* of the length its size says.                                            *)
(***************************************************************************)
EXTENDS BlockSplitter, CodeLengths, BlockWriter, NumberLemmas, FiniteSetTheorems,
        SequenceTheorems

(* Arithmetic of the probes: they are apart, and inside the range.           *)
LEMMA TimesGrows ==
  ASSUME NEW a \in Nat, NEW b \in Nat, NEW d \in Nat, a <= b
  PROVE  a * d <= b * d /\ a * d \in Nat
<1>1. PICK c \in Nat : b = a + c
  <2>1. b - a \in Nat /\ b = a + (b - a)
    OBVIOUS
  <2> QED BY <2>1
<1>2. b * d = a * d + c * d /\ c * d \in Nat /\ a * d \in Nat
  BY <1>1
<1> QED BY <1>2

LEMMA StepFits ==
  ASSUME NEW range \in Nat, NEW k \in Nat \ {0, 1}, range > k
  PROVE  LET d == range \div (k + 1)
         IN  d \in Nat \ {0} /\ k * d + d <= range
<1> DEFINE m == k + 1
           d == range \div m
<1>1. m \in Nat \ {0} /\ range >= m
  OBVIOUS
<1>2. d \in Nat \ {0} /\ m * d <= range
  <2> HIDE DEF m
  <2>1. range = m * d + (range % m) /\ range % m \in 0 .. m - 1 /\ d \in Nat
    BY <1>1
  <2>2. d # 0
    BY <1>1, <2>1
  <2>3. m * d \in Int
    BY <1>1, <2>1
  <2> HIDE DEF d
  <2> QED BY <1>1, <2>1, <2>2, <2>3
<1>3. m * d = k * d + d
  <2> HIDE DEF d
  <2> QED BY <1>2
<1> QED BY <1>2, <1>3

(* Probes are in order, the first after the start of the range, the last     *)
(* before its end.                                                           *)
LEMMA ProbesInside ==
  ASSUME low \in Int, high \in Int, high - low > Num
  PROVE  /\ \A k \in 1 .. Num : Probed(k) \in Int /\ low < Probed(k) /\ Probed(k) < high
         /\ \A k \in 1 .. Num - 1 : Probed(k) < Probed(k + 1)
<1> DEFINE d == (high - low) \div (Num + 1)
<1>1. Num \in Nat \ {0, 1} /\ high - low \in Nat
  BY SplitAssumption
<1>2. d \in Nat \ {0} /\ Num * d + d <= high - low
  BY <1>1, StepFits
<1>3. \A k \in Nat : Probed(k) = low + k * d
  BY DEF Probed
<1> HIDE DEF d
<1>4. ASSUME NEW k \in 1 .. Num
      PROVE  Probed(k) \in Int /\ low < Probed(k) /\ Probed(k) < high
  <2>1. 1 * d <= k * d /\ k * d <= Num * d /\ k * d \in Nat /\ Num * d \in Nat /\ 1 * d = d
    BY <1>1, <1>2, TimesGrows
  <2> QED BY <2>1, <1>1, <1>2, <1>3
<1>5. ASSUME NEW k \in 1 .. Num - 1
      PROVE  Probed(k) < Probed(k + 1)
  <2>1. (k + 1) * d = k * d + d /\ k * d \in Int
    BY <1>1, <1>2
  <2> QED BY <2>1, <1>1, <1>2, <1>3
<1> QED BY <1>4, <1>5

-----------------------------------------------------------------------------
(* AddSorted inserts a value.                                                *)
LEMMA Inserted ==
  ASSUME NEW S, NEW s \in Seq(S), NEW e \in S, NEW k \in 1 .. Len(s) + 1
  PROVE  /\ InsertAt(s, k, e) \in Seq(S) /\ Len(InsertAt(s, k, e)) = Len(s) + 1
         /\ \A a \in 1 .. Len(s) + 1 :
              /\ a < k => InsertAt(s, k, e)[a] = s[a]
              /\ a = k => InsertAt(s, k, e)[a] = e
              /\ a > k => InsertAt(s, k, e)[a] = s[a - 1]
<1> DEFINE left == SubSeq(s, 1, k - 1)
           right == SubSeq(s, k, Len(s))
           first == left \o <<e>>
           t == first \o right
<1>1. Len(s) \in Nat /\ k \in Nat
  OBVIOUS
<1>2. /\ left \in Seq(S) /\ Len(left) = k - 1
      /\ \A a \in 1 .. k - 1 : left[a] = s[a]
  BY <1>1
<1>3. /\ right \in Seq(S) /\ Len(right) = Len(s) - k + 1
      /\ \A a \in 1 .. Len(right) : right[a] = s[k + a - 1]
  BY <1>1
<1> HIDE DEF left, right
<1>4. /\ first \in Seq(S) /\ Len(first) = k
      /\ \A a \in 1 .. k - 1 : first[a] = s[a]
      /\ first[k] = e
  BY <1>1, <1>2
<1> HIDE DEF first
<1>5. /\ t \in Seq(S) /\ Len(t) = k + Len(right)
      /\ \A a \in 1 .. k : t[a] = first[a]
      /\ \A a \in 1 .. Len(right) : t[k + a] = right[a]
  BY <1>1, <1>3, <1>4
<1> HIDE DEF t
<1>6. Len(t) = Len(s) + 1
  BY <1>1, <1>3, <1>5
<1>7. ASSUME NEW a \in 1 .. Len(s) + 1
      PROVE  /\ a < k => t[a] = s[a]
             /\ a = k => t[a] = e
             /\ a > k => t[a] = s[a - 1]
  <2>1. CASE a <= k
    BY <2>1, <1>1, <1>4, <1>5
  <2>2. CASE a > k
    <3>1. a - k \in 1 .. Len(right) /\ a = k + (a - k) /\ k + (a - k) - 1 = a - 1
      BY <2>2, <1>1, <1>3
    <3>2. t[a] = right[a - k] /\ right[a - k] = s[a - 1]
      BY <3>1, <1>3, <1>5
    <3> QED BY <2>2, <3>2
  <2> QED BY <2>1, <2>2, <1>1
<1> QED BY <1>5, <1>6, <1>7 DEF InsertAt, left, right, first, t

-----------------------------------------------------------------------------
(* The inductive invariant.                                                  *)

Types ==
  /\ lz77 \in Stores /\ points \in Seq(1 .. Size - 1) /\ done \subseteq 0 .. Size - 1
  /\ phase \in {"round", "probe", "decide", "choose", "end"}
  /\ lstart \in Int /\ lend \in Int /\ low \in Int /\ high \in Int /\ pos \in Int
  /\ smallest \in 0 .. LargeCost

Ordered == \A a, b \in 1 .. Len(points) : a < b => points[a] < points[b]
Limited == MaxBlocks > 0 => Len(points) + 1 <= MaxBlocks

(* The block of a round lies between two points, and has one inside.         *)
BlockIsClear ==
  phase \in {"round", "probe", "decide"} =>
    /\ 0 <= lstart /\ lend <= Size /\ lend - lstart >= 2
    /\ \A a \in 1 .. Len(points) : points[a] <= lstart \/ lend <= points[a]

Probing ==
  phase = "probe" => /\ lstart < low /\ low < high /\ high <= lend
                     /\ FewPoints <= lend - (lstart + 1)

PointFound ==
  phase \in {"probe", "decide"} =>
    /\ ~ EnoughBlocks /\ lstart < pos /\ pos < lend
    /\ smallest < LargeCost => smallest = SplitCost(pos)
FoundIsLeast ==
  phase = "decide" /\ smallest < LargeCost /\ lend - (lstart + 1) < FewPoints =>
    \A q \in lstart + 1 .. lend - 1 : smallest <= SplitCost(q)

(* A block begins where the store does or at a point; none that was given up *)
(* is tried again.                                                           *)
IsStart(s) == s = 0 \/ \E a \in 1 .. Len(points) : points[a] = s
BlocksTried ==
  /\ \A s \in done : IsStart(s)
  /\ phase \in {"round", "probe", "decide"} => lstart \notin done /\ IsStart(lstart)

IInv == /\ Types /\ Ordered /\ Limited /\ BlockIsClear /\ BlocksTried
        /\ Probing /\ PointFound /\ FoundIsLeast

LEMMA CostIsNat ==
  ASSUME Types, 0 <= lstart, lend <= Size, NEW q \in lstart .. lend
  PROVE  SplitCost(q) \in Nat
<1>1. /\ Len(lz77) \in Nat /\ lz77 \in Stores /\ lstart \in Int /\ lend \in Int
  BY SplitAssumption DEF Types
<1>2. lstart \in 0 .. Len(lz77) /\ lend \in 0 .. Len(lz77) /\ q \in 0 .. Len(lz77)
  BY <1>1 DEF Size
<1>3. Estimate(lz77, lstart, q) \in Nat /\ Estimate(lz77, q, lend) \in Nat
  BY <1>1, <1>2, SplitAssumption
<1> QED BY <1>3 DEF SplitCost, EstimateCost

LEMMA SizeIsNat ==
  ASSUME Types
  PROVE  Size \in Nat /\ Len(points) \in Nat
BY SplitAssumption DEF Types, Size

-----------------------------------------------------------------------------
LEMMA TryAllStep ==
  ASSUME IInv, TryAll
  PROVE  IInv'
<1> USE DEF IInv
<1>1. /\ phase = "round" /\ phase' = "decide" /\ ~ EnoughBlocks
      /\ UNCHANGED <<lz77, points, done, lstart, lend, low, high>>
  BY DEF TryAll
<1>2. /\ 0 <= lstart /\ lend <= Size /\ lend - lstart >= 2
      /\ lstart \in Int /\ lend \in Int /\ LargeCost \in Nat
  BY <1>1, SplitAssumption DEF BlockIsClear, Types
<1>3. \A q \in PointsInside : SplitCost(q) \in Nat
  BY <1>2, CostIsNat DEF PointsInside
<1>4. /\ pos' \in PointsInside /\ smallest' \in 0 .. LargeCost
      /\ smallest' < LargeCost =>
           smallest' = SplitCost(pos') /\ \A q \in PointsInside : smallest' <= SplitCost(q)
  <2>1. CASE BestOf(PointsInside) = {}
    <3>1. pos' = lstart + 1 /\ smallest' = LargeCost
      BY <2>1 DEF TryAll
    <3> QED BY <3>1, <1>2 DEF PointsInside
  <2>2. CASE BestOf(PointsInside) # {}
    <3>1. pos' \in BestOf(PointsInside) /\ smallest' = SplitCost(pos')
      BY <2>2 DEF TryAll
    <3>2. /\ pos' \in PointsInside /\ SplitCost(pos') < LargeCost
          /\ \A r \in PointsInside : SplitCost(r) < LargeCost => SplitCost(pos') <= SplitCost(r)
      BY <3>1 DEF BestOf
    <3> QED BY <3>1, <3>2, <1>2, <1>3
  <2> QED BY <2>1, <2>2
<1>5. lstart < pos' /\ pos' < lend /\ pos' \in Int
  BY <1>2, <1>4 DEF PointsInside
<1>6. Types'
  BY <1>1, <1>4, <1>5 DEF Types, Size
<1>7. BlockIsClear' /\ BlocksTried' /\ Ordered' /\ Limited' /\ Probing'
  BY <1>1 DEF BlockIsClear, BlocksTried, IsStart, Ordered, Limited, Probing, Size
<1>8. PointFound'
  BY <1>1, <1>4, <1>5 DEF PointFound, EnoughBlocks, SplitCost, EstimateCost
<1>9. FoundIsLeast'
  BY <1>1, <1>4 DEF FoundIsLeast, PointsInside, SplitCost, EstimateCost
<1> QED BY <1>6, <1>7, <1>8, <1>9

LEMMA StartProbingStep ==
  ASSUME IInv, StartProbing
  PROVE  IInv'
<1> USE DEF IInv
<1>1. /\ phase = "round" /\ phase' = "probe" /\ ~ EnoughBlocks
      /\ lend - (lstart + 1) >= FewPoints
      /\ low' = lstart + 1 /\ high' = lend /\ pos' = lstart + 1 /\ smallest' = LargeCost
      /\ UNCHANGED <<lz77, points, done, lstart, lend>>
  BY DEF StartProbing
<1>2. /\ 0 <= lstart /\ lend <= Size /\ lend - lstart >= 2
      /\ lstart \in Int /\ lend \in Int /\ LargeCost \in Nat /\ FewPoints \in Nat
  BY <1>1, SplitAssumption DEF BlockIsClear, Types
<1>3. Types'
  BY <1>1, <1>2 DEF Types, Size
<1>4. BlockIsClear' /\ BlocksTried' /\ Ordered' /\ Limited' /\ FoundIsLeast'
  BY <1>1 DEF BlockIsClear, BlocksTried, IsStart, Ordered, Limited, FoundIsLeast, Size
<1>5. Probing' /\ PointFound'
  BY <1>1, <1>2 DEF Probing, PointFound, EnoughBlocks
<1> QED BY <1>3, <1>4, <1>5

LEMMA ProbeStep ==
  ASSUME IInv, Probe
  PROVE  IInv'
<1> USE DEF IInv
<1>1. PICK k \in BestProbe :
        /\ phase = "probe" /\ high - low > Num /\ ~ GivesUp(SplitCost(Probed(k)))
        /\ low' = IF k = 1 THEN low ELSE Probed(k - 1)
        /\ high' = IF k = Num THEN high ELSE Probed(k + 1)
        /\ pos' = Probed(k) /\ smallest' = SplitCost(Probed(k))
        /\ UNCHANGED <<lz77, points, done, lstart, lend, phase>>
  BY DEF Probe
<1>2. k \in 1 .. Num /\ Num \in Nat \ {0, 1} /\ LargeCost \in Nat /\ FewPoints \in Nat
  BY SplitAssumption DEF BestProbe
<1>3. /\ 0 <= lstart /\ lend <= Size /\ lstart \in Int /\ lend \in Int
      /\ lstart < low /\ low < high /\ high <= lend /\ low \in Int /\ high \in Int
      /\ FewPoints <= lend - (lstart + 1) /\ smallest \in 0 .. LargeCost
  BY <1>1 DEF BlockIsClear, Types, Probing
<1>4. /\ \A m \in 1 .. Num : Probed(m) \in Int /\ low < Probed(m) /\ Probed(m) < high
      /\ \A m \in 1 .. Num - 1 : Probed(m) < Probed(m + 1)
  BY <1>1, <1>3, ProbesInside
<1>5. Probed(k) \in Int /\ low < Probed(k) /\ Probed(k) < high
  BY <1>2, <1>4
<1>6. low' \in Int /\ low <= low' /\ low' < Probed(k)
  <2>1. CASE k = 1
    BY <2>1, <1>1, <1>3, <1>5
  <2>2. CASE k # 1
    <3>1. k - 1 \in 1 .. Num - 1 /\ k - 1 \in 1 .. Num /\ (k - 1) + 1 = k
      BY <2>2, <1>2
    <3>2. Probed(k - 1) \in Int /\ low < Probed(k - 1) /\ Probed(k - 1) < Probed(k)
      BY <3>1, <1>4
    <3> QED BY <3>2, <2>2, <1>1, <1>3
  <2> QED BY <2>1, <2>2
<1>7. high' \in Int /\ Probed(k) < high' /\ high' <= high
  <2>1. CASE k = Num
    BY <2>1, <1>1, <1>3, <1>5
  <2>2. CASE k # Num
    <3>1. k \in 1 .. Num - 1 /\ k + 1 \in 1 .. Num
      BY <2>2, <1>2
    <3>2. Probed(k + 1) \in Int /\ Probed(k + 1) < high /\ Probed(k) < Probed(k + 1)
      BY <3>1, <1>4
    <3> QED BY <3>2, <2>2, <1>1, <1>3
  <2> QED BY <2>1, <2>2
<1>8. lstart < Probed(k) /\ Probed(k) < lend
  BY <1>3, <1>5
<1>9. smallest' \in 0 .. LargeCost
  <2>1. SplitCost(Probed(k)) \in Nat
    BY <1>3, <1>5, <1>8, CostIsNat
  <2>2. SplitCost(Probed(k)) <= smallest
    BY <2>1, <1>1, <1>3 DEF GivesUp
  <2> QED BY <2>1, <2>2, <1>1, <1>2, <1>3
<1>10. Types'
  BY <1>1, <1>5, <1>6, <1>7, <1>9 DEF Types, Size
<1>11. BlockIsClear' /\ BlocksTried' /\ Ordered' /\ Limited'
  BY <1>1 DEF BlockIsClear, BlocksTried, IsStart, Ordered, Limited, Size
<1>12. Probing'
  BY <1>1, <1>3, <1>5, <1>6, <1>7 DEF Probing
<1>13. PointFound' /\ FoundIsLeast'
  BY <1>1, <1>8 DEF PointFound, FoundIsLeast, EnoughBlocks, SplitCost, EstimateCost
<1> QED BY <1>10, <1>11, <1>12, <1>13

LEMMA StopProbingStep ==
  ASSUME IInv, StopProbing
  PROVE  IInv'
<1> USE DEF IInv
<1>1. /\ phase = "probe" /\ phase' = "decide"
      /\ UNCHANGED <<lz77, points, done, lstart, lend, low, high, pos, smallest>>
  BY DEF StopProbing
<1>2. Types' /\ Ordered' /\ Limited' /\ BlockIsClear' /\ BlocksTried' /\ Probing'
  BY <1>1 DEF Types, Ordered, Limited, BlockIsClear, BlocksTried, IsStart, Probing, Size
<1>3. PointFound'
  BY <1>1 DEF PointFound, EnoughBlocks, SplitCost, EstimateCost
<1>4. FoundIsLeast'
  <2>1. FewPoints <= lend - (lstart + 1) /\ FewPoints \in Nat /\ lend \in Int /\ lstart \in Int
    BY <1>1, SplitAssumption DEF Probing, Types
  <2> QED BY <2>1, <1>1 DEF FoundIsLeast
<1> QED BY <1>2, <1>3, <1>4

LEMMA AddPointStep ==
  ASSUME IInv, AddPoint
  PROVE  /\ IInv'
         /\ \A s \in done : \A e \in s + 1 .. Size :
              IsBlock(s, e, points) => IsBlock(s, e, points')
<1> USE DEF IInv
<1>1. /\ phase = "decide" /\ phase' = "choose"
      /\ UNCHANGED <<lz77, done, lstart, lend, low, high, pos, smallest>>
  BY DEF AddPoint
<1>2. PICK k \in Places(pos) : points' = InsertAt(points, k, pos)
  BY DEF AddPoint, AddSorted
<1>3. /\ Size \in Nat /\ Len(points) \in Nat /\ points \in Seq(1 .. Size - 1)
      /\ lstart \in Int /\ lend \in Int /\ pos \in Int
  BY SizeIsNat DEF Types
<1>4. /\ 0 <= lstart /\ lend <= Size /\ lstart < pos /\ pos < lend /\ ~ EnoughBlocks
      /\ \A a \in 1 .. Len(points) : points[a] <= lstart \/ lend <= points[a]
  BY <1>1 DEF BlockIsClear, PointFound
<1>5. pos \in 1 .. Size - 1
  BY <1>3, <1>4
<1>6. k \in 1 .. Len(points) + 1 /\ (\A a \in 1 .. k - 1 : points[a] <= pos)
      /\ (k <= Len(points) => pos < points[k])
  BY DEF Places
<1>7. /\ points' \in Seq(1 .. Size - 1) /\ Len(points') = Len(points) + 1
      /\ \A a \in 1 .. Len(points) + 1 : /\ a < k => points'[a] = points[a]
                                         /\ a = k => points'[a] = pos
                                         /\ a > k => points'[a] = points[a - 1]
  <2> DEFINE S == 1 .. Size - 1
  <2>1. points \in Seq(S) /\ pos \in S /\ k \in 1 .. Len(points) + 1
    BY <1>3, <1>5, <1>6
  <2> HIDE DEF S
  <2>2. /\ InsertAt(points, k, pos) \in Seq(S)
        /\ Len(InsertAt(points, k, pos)) = Len(points) + 1
        /\ \A a \in 1 .. Len(points) + 1 :
             /\ a < k => InsertAt(points, k, pos)[a] = points[a]
             /\ a = k => InsertAt(points, k, pos)[a] = pos
             /\ a > k => InsertAt(points, k, pos)[a] = points[a - 1]
    BY <2>1, Inserted
  <2> QED BY <2>2, <1>2 DEF S
<1>8. ASSUME NEW a \in 1 .. k - 1 PROVE points[a] \in Int /\ points[a] < pos
  <2>1. a \in 1 .. Len(points) /\ points[a] <= pos
    BY <1>3, <1>6
  <2>2. points[a] \in 1 .. Size - 1 /\ (points[a] <= lstart \/ lend <= points[a])
    BY <2>1, <1>3, <1>4
  <2> QED BY <2>1, <2>2, <1>3, <1>4
<1>9. ASSUME NEW a \in k .. Len(points) PROVE points[a] \in Int /\ pos < points[a]
  <2>1. a \in 1 .. Len(points) /\ k \in 1 .. Len(points) /\ pos < points[k]
    BY <1>3, <1>6
  <2>2. points[a] \in 1 .. Size - 1 /\ points[k] \in 1 .. Size - 1
    BY <2>1, <1>3
  <2>3. k < a => points[k] < points[a]
    BY <2>1 DEF Ordered
  <2> QED BY <2>1, <2>2, <2>3, <1>3
<1>10. Ordered'
  <2> SUFFICES ASSUME NEW a \in 1 .. Len(points'), NEW b \in 1 .. Len(points'), a < b
               PROVE  points'[a] < points'[b]
    BY DEF Ordered
  <2>1. a \in 1 .. Len(points) + 1 /\ b \in 1 .. Len(points) + 1
    BY <1>7
  <2>2. CASE b < k
    <3>1. a \in 1 .. Len(points) /\ b \in 1 .. Len(points) /\ a < k
      BY <2>1, <2>2, <1>3, <1>6
    <3> QED BY <3>1, <2>1, <2>2, <1>7 DEF Ordered
  <2>3. CASE b = k
    <3>1. a \in 1 .. k - 1 /\ a < k
      BY <2>1, <2>3, <1>6
    <3> QED BY <3>1, <2>1, <2>3, <1>7, <1>8
  <2>4. CASE b > k /\ a < k
    <3>1. a \in 1 .. k - 1 /\ b - 1 \in k .. Len(points)
      BY <2>1, <2>4, <1>3, <1>6
    <3>2. points[a] < pos /\ pos < points[b - 1] /\ points[a] \in Int /\ points[b - 1] \in Int
      BY <3>1, <1>8, <1>9
    <3>3. points'[a] = points[a] /\ points'[b] = points[b - 1]
      BY <2>1, <2>4, <1>7
    <3> QED BY <3>2, <3>3, <1>3
  <2>5. CASE b > k /\ a = k
    <3>1. b - 1 \in k .. Len(points)
      BY <2>1, <2>5, <1>3, <1>6
    <3> QED BY <3>1, <2>1, <2>5, <1>7, <1>9
  <2>6. CASE a > k
    <3>1. a - 1 \in 1 .. Len(points) /\ b - 1 \in 1 .. Len(points) /\ a - 1 < b - 1 /\ b > k
      BY <2>1, <2>6, <1>3, <1>6
    <3> QED BY <3>1, <2>1, <2>6, <1>7 DEF Ordered
  <2> QED BY <2>1, <2>2, <2>3, <2>4, <2>5, <2>6, <1>6
<1>11. Limited'
  BY <1>3, <1>4, <1>7, SplitAssumption DEF Limited, EnoughBlocks
<1>12. Types'
  BY <1>1, <1>7 DEF Types, Size
<1>13. BlockIsClear' /\ Probing' /\ PointFound' /\ FoundIsLeast'
  BY <1>1 DEF BlockIsClear, Probing, PointFound, FoundIsLeast
<1>14. BlocksTried'
  <2> SUFFICES ASSUME NEW s \in done PROVE IsStart(s)'
    BY <1>1 DEF BlocksTried
  <2>1. CASE s = 0
    BY <2>1 DEF IsStart
  <2>2. CASE \E a \in 1 .. Len(points) : points[a] = s
    <3>1. PICK a \in 1 .. Len(points) : points[a] = s
      BY <2>2
    <3>2. CASE a < k
      <4>1. a \in 1 .. Len(points) + 1 /\ points'[a] = s
        BY <3>1, <3>2, <1>3, <1>7
      <4> QED BY <4>1, <1>7 DEF IsStart
    <3>3. CASE ~ (a < k)
      <4>1. a + 1 \in 1 .. Len(points) + 1 /\ a + 1 > k /\ (a + 1) - 1 = a
        BY <3>3, <1>3, <1>6
      <4>2. points'[a + 1] = s
        BY <4>1, <3>1, <1>7
      <4> QED BY <4>1, <4>2, <1>7 DEF IsStart
    <3> QED BY <3>2, <3>3
  <2> QED BY <2>1, <2>2 DEF BlocksTried, IsStart
<1>15. ASSUME NEW a \in 1 .. Len(points)
       PROVE  \E b \in 1 .. Len(points') : points'[b] = points[a]
  <2>1. CASE a < k
    <3>1. a \in 1 .. Len(points) + 1
      BY <1>3
    <3>2. points'[a] = points[a]
      BY <2>1, <3>1, <1>7
    <3> QED BY <3>1, <3>2, <1>7
  <2>2. CASE ~ (a < k)
    <3>1. a + 1 \in 1 .. Len(points) + 1 /\ a + 1 > k /\ (a + 1) - 1 = a
      BY <2>2, <1>3, <1>6
    <3>2. points'[a + 1] = points[a]
      BY <3>1, <1>7
    <3> QED BY <3>1, <3>2, <1>7
  <2> QED BY <2>1, <2>2
<1>16. ASSUME NEW b \in 1 .. Len(points')
       PROVE  points'[b] = pos \/ \E a \in 1 .. Len(points) : points'[b] = points[a]
  <2>1. CASE b < k
    BY <2>1, <1>3, <1>6, <1>7
  <2>2. CASE b > k
    <3>1. b - 1 \in 1 .. Len(points)
      BY <2>2, <1>3, <1>6, <1>7
    <3> QED BY <3>1, <2>2, <1>7
  <2>3. CASE b = k
    BY <2>3, <1>7
  <2> QED BY <2>1, <2>2, <2>3, <1>6
<1>17. ASSUME NEW s \in done, NEW e \in s + 1 .. Size, IsBlock(s, e, points)
       PROVE  IsBlock(s, e, points')
  <2>1. s \in 0 .. Size - 1 /\ s # lstart /\ IsStart(s) /\ IsStart(lstart)
    BY <1>1 DEF Types, BlocksTried
  <2>2. s < lstart \/ lend <= s
    BY <2>1, <1>3, <1>4 DEF IsStart
  <2>3. pos <= s \/ e <= pos
    <3>1. CASE lend <= s
      BY <3>1, <2>1, <1>3, <1>4
    <3>2. CASE s < lstart
      <4>1. PICK a \in 1 .. Len(points) : points[a] = lstart
        BY <3>2, <2>1, <1>3 DEF IsStart
      <4>2. lstart <= s \/ e <= lstart
        BY <4>1, <1>17 DEF IsBlock
      <4>3. e <= lstart
        BY <4>2, <3>2, <2>1, <1>3
      <4> QED BY <4>3, <2>1, <1>3, <1>4
    <3> QED BY <2>2, <3>1, <3>2
  <2>4. \A b \in 1 .. Len(points') : points'[b] <= s \/ e <= points'[b]
    BY <2>3, <1>16, <1>17 DEF IsBlock
  <2>5. e = Size \/ \E b \in 1 .. Len(points') : points'[b] = e
    BY <1>15, <1>17 DEF IsBlock
  <2> QED BY <2>4, <2>5, <1>1 DEF IsBlock
<1> QED BY <1>10, <1>11, <1>12, <1>13, <1>14, <1>17

LEMMA MarkDoneStep ==
  ASSUME IInv, MarkDone
  PROVE  IInv'
<1> USE DEF IInv
<1>1. /\ phase = "decide" /\ phase' = "choose" /\ done' = done \cup {lstart}
      /\ UNCHANGED <<lz77, points, lstart, lend, low, high, pos, smallest>>
  BY DEF MarkDone
<1>2. lstart \in 0 .. Size - 1
  <2>1. Size \in Nat /\ lstart \in Int /\ lend \in Int
    BY SizeIsNat DEF Types
  <2> QED BY <2>1, <1>1 DEF BlockIsClear
<1>3. Types'
  BY <1>1, <1>2 DEF Types, Size
<1>4. Ordered' /\ Limited' /\ BlockIsClear' /\ Probing' /\ PointFound' /\ FoundIsLeast'
  BY <1>1 DEF Ordered, Limited, BlockIsClear, Probing, PointFound, FoundIsLeast
<1>5. BlocksTried'
  BY <1>1 DEF BlocksTried, IsStart
<1> QED BY <1>3, <1>4, <1>5

LEMMA ChooseBlockStep ==
  ASSUME IInv, ChooseBlock
  PROVE  IInv'
<1> USE DEF IInv
<1>1. /\ phase = "choose" /\ UNCHANGED <<lz77, points, done, low, high, pos, smallest>>
  BY DEF ChooseBlock
<1>2. PICK k \in Largest :
        /\ lstart' = Starts[k] /\ lend' = Ends[k]
        /\ phase' = IF lend' - lstart' < TooSmall THEN "end" ELSE "round"
  BY DEF ChooseBlock
<1>3. /\ Size \in Nat /\ Len(points) \in Nat /\ points \in Seq(1 .. Size - 1)
      /\ \A a \in 1 .. Len(points) : points[a] \in 1 .. Size - 1
      /\ TooSmall \in Nat \ {0, 1}
  BY SizeIsNat, SplitAssumption DEF Types
<1>4. /\ Len(Starts) = Len(points) + 1 /\ DOMAIN Starts = 1 .. Len(points) + 1
      /\ Starts[1] = 0 /\ \A a \in 2 .. Len(points) + 1 : Starts[a] = points[a - 1]
  BY <1>3 DEF Starts
<1>5. /\ \A a \in 1 .. Len(points) : Ends[a] = points[a]
      /\ Ends[Len(points) + 1] = Size - 1
  <2>1. Ends = Append(points, Size - 1)
    BY <1>3 DEF Ends
  <2>2. points \in Seq(Int) /\ Size - 1 \in Int
    BY <1>3
  <2> QED BY ONLY <2>1, <2>2
<1>6. k \in 1 .. Len(points) + 1
  BY <1>4 DEF Largest, Splittable
<1>7. lstart' \in Int /\ 0 <= lstart' /\ lend' \in Int /\ lend' <= Size
  <2>1. lstart' \in Int /\ 0 <= lstart'
    <3>1. CASE k = 1
      BY <3>1, <1>2, <1>4
    <3>2. CASE k # 1
      <4>1. k \in 2 .. Len(points) + 1 /\ k - 1 \in 1 .. Len(points)
        BY <3>2, <1>3, <1>6
      <4>2. lstart' = points[k - 1] /\ points[k - 1] \in 1 .. Size - 1
        BY <4>1, <1>2, <1>3, <1>4
      <4> QED BY <4>2, <1>3
    <3> QED BY <3>1, <3>2
  <2>2. lend' \in Int /\ lend' <= Size
    <3>1. CASE k = Len(points) + 1
      BY <3>1, <1>2, <1>3, <1>5
    <3>2. CASE k # Len(points) + 1
      <4>1. k \in 1 .. Len(points)
        BY <3>2, <1>3, <1>6
      <4>2. lend' = points[k] /\ points[k] \in 1 .. Size - 1
        BY <4>1, <1>2, <1>3, <1>5
      <4> QED BY <4>2, <1>3
    <3> QED BY <3>1, <3>2
  <2> QED BY <2>1, <2>2
<1>8. ASSUME NEW a \in 1 .. Len(points)
      PROVE  points[a] <= lstart' \/ lend' <= points[a]
  <2>1. points[a] \in 1 .. Size - 1
    BY <1>3
  <2>2. CASE a < k
    <3>1. k \in 2 .. Len(points) + 1 /\ k - 1 \in 1 .. Len(points) /\ (a = k - 1 \/ a < k - 1)
      BY <2>2, <1>3, <1>6
    <3>2. lstart' = points[k - 1]
      BY <3>1, <1>2, <1>4
    <3>3. a < k - 1 => points[a] < points[k - 1]
      BY <3>1 DEF Ordered
    <3>4. points[k - 1] \in 1 .. Size - 1
      BY <3>1, <1>3
    <3> QED BY <3>1, <3>2, <3>3, <3>4, <2>1, <1>3
  <2>3. CASE ~ (a < k)
    <3>1. k \in 1 .. Len(points) /\ (a = k \/ k < a)
      BY <2>3, <1>3, <1>6
    <3>2. lend' = points[k]
      BY <3>1, <1>2, <1>5
    <3>3. k < a => points[k] < points[a]
      BY <3>1 DEF Ordered
    <3>4. points[k] \in 1 .. Size - 1
      BY <3>1, <1>3
    <3> QED BY <3>1, <3>2, <3>3, <3>4, <2>1, <1>3
  <2> QED BY <2>2, <2>3
<1>9. phase' \in {"round", "end"} /\ (phase' = "round" => lend' - lstart' >= 2)
  BY <1>2, <1>3, <1>7
<1>10. Types'
  BY <1>1, <1>7, <1>9 DEF Types, Size
<1>11. Ordered' /\ Limited' /\ Probing' /\ PointFound' /\ FoundIsLeast'
  BY <1>1, <1>9 DEF Ordered, Limited, Probing, PointFound, FoundIsLeast
<1>12. BlockIsClear'
  BY <1>1, <1>7, <1>8, <1>9 DEF BlockIsClear, Size
<1>13. BlocksTried'
  <2>1. lstart' \notin done
    BY <1>2 DEF Largest, Splittable
  <2>2. lstart' = 0 \/ \E a \in 1 .. Len(points) : points[a] = lstart'
    <3>1. CASE k = 1
      BY <3>1, <1>2, <1>4
    <3>2. CASE k # 1
      <4>1. k \in 2 .. Len(points) + 1 /\ k - 1 \in 1 .. Len(points)
        BY <3>2, <1>3, <1>6
      <4> QED BY <4>1, <1>2, <1>4
    <3> QED BY <3>1, <3>2
  <2> QED BY <2>1, <2>2, <1>1 DEF BlocksTried, IsStart
<1> QED BY <1>10, <1>11, <1>12, <1>13

LEMMA EndStep ==
  ASSUME IInv, StopAtLimit \/ NoneLeft \/ UNCHANGED splitVars
  PROVE  IInv'
<1> USE DEF IInv
<1>1. /\ UNCHANGED <<lz77, points, done, lstart, lend, low, high, pos, smallest>>
      /\ phase' = "end" \/ phase' = phase
  BY DEF StopAtLimit, NoneLeft, splitVars
<1>2. Types' /\ Ordered' /\ Limited'
  BY <1>1 DEF Types, Ordered, Limited, Size
<1>3. BlockIsClear' /\ BlocksTried' /\ Probing' /\ PointFound' /\ FoundIsLeast'
  BY <1>1 DEF BlockIsClear, BlocksTried, IsStart, Probing, PointFound, FoundIsLeast, Size, EnoughBlocks,
              SplitCost, EstimateCost
<1> QED BY <1>2, <1>3

LEMMA Initially == Init => IInv
<1> SUFFICES ASSUME Init PROVE IInv
  OBVIOUS
<1>1. /\ lz77 \in Stores /\ points = << >> /\ done = {} /\ lstart = 0 /\ lend = Size
      /\ low = 0 /\ high = 0 /\ pos = 0 /\ smallest = LargeCost
      /\ phase \in {"round", "end"} /\ (phase = "round" => ~ Size < TooSmall)
  BY DEF Init
<1>2. Size \in Nat /\ TooSmall \in Nat \ {0, 1} /\ LargeCost \in Nat /\ MaxBlocks \in Nat
  BY <1>1, SplitAssumption DEF Size
<1>3. Types
  BY <1>1, <1>2 DEF Types
<1>4. Ordered /\ Limited /\ BlockIsClear /\ BlocksTried
  BY <1>1, <1>2 DEF Ordered, Limited, BlockIsClear, BlocksTried, IsStart
<1>5. Probing /\ PointFound /\ FoundIsLeast
  BY <1>1 DEF Probing, PointFound, FoundIsLeast
<1> QED BY <1>3, <1>4, <1>5 DEF IInv

(* The invariant that the theorems below rest on.                            *)
THEOREM Invariant == Spec => []IInv
<1>1. IInv /\ [Next]_splitVars => IInv'
  BY TryAllStep, StartProbingStep, ProbeStep, StopProbingStep, AddPointStep,
     MarkDoneStep, ChooseBlockStep, EndStep
     DEF Next, Step, Finished
<1> QED BY Initially, <1>1, PTL DEF Spec

(* ZopfliBlockSplitLZ77: for every list of symbols, every cost of blocks and *)
(* any number of probes, the points cut blocks in order that are not empty,  *)
(* never more than allowed; and FindMinimum answers from inside the block,   *)
(* as the assertions after it say.                                           *)
THEOREM PointsAreInOrder == Spec => []PointsCutBlocks
<1>1. IInv => PointsCutBlocks
  <2> SUFFICES ASSUME IInv PROVE PointsCutBlocks
    OBVIOUS
  <2>1. /\ Size \in Nat /\ Len(points) \in Nat /\ lstart \in Int /\ lend \in Int
        /\ pos \in Int /\ low \in Int /\ high \in Int
    BY SizeIsNat DEF IInv, Types
  <2>2. phase \in {"round", "probe", "decide"} =>
          lstart \in 0 .. lend - 1 /\ lend <= Size
    BY <2>1 DEF IInv, BlockIsClear
  <2>3. phase \in {"probe", "decide"} => pos \in lstart + 1 .. lend - 1
    BY <2>1 DEF IInv, PointFound
  <2>4. TypeOK
    BY <2>2, <2>3 DEF IInv, Types, Probing, TypeOK
  <2>5. \A a \in 1 .. Len(points) - 1 : points[a] < points[a + 1]
    <3> SUFFICES ASSUME NEW a \in 1 .. Len(points) - 1 PROVE points[a] < points[a + 1]
      OBVIOUS
    <3>1. a \in 1 .. Len(points) /\ a + 1 \in 1 .. Len(points) /\ a < a + 1
      BY <2>1
    <3> QED BY <3>1 DEF IInv, Ordered
  <2> QED BY <2>4, <2>5 DEF IInv, Limited, PointsCutBlocks
<1> QED BY Invariant, <1>1, PTL

(* FindMinimum: the cost it answers is that of the point it answers, also    *)
(* when it gives up probing, and the least of all when it tries all.         *)
THEOREM CostBelongsToPoint == Spec => []CostIsOfPoint
<1>1. IInv => CostIsOfPoint
  BY DEF IInv, PointFound, FoundIsLeast, CostIsOfPoint
<1> QED BY Invariant, <1>1, PTL

(* FindLargestSplittableBlock: a block that was given up is not cut later.   *)
THEOREM BlocksStayWhole == Spec => DoneStaysWhole
<1> DEFINE Whole == \A s \in done : \A e \in s + 1 .. Size :
                      IsBlock(s, e, points) => IsBlock(s, e, points')
<1>1. IInv /\ [Next]_splitVars => [Whole]_splitVars
  <2> SUFFICES ASSUME IInv, [Next]_splitVars PROVE Whole
    OBVIOUS
  <2>1. CASE AddPoint
    BY <2>1, AddPointStep
  <2>2. CASE points' = points
    BY <2>2
  <2>3. points' = points \/ AddPoint
    BY DEF Next, Step, Finished, splitVars, StopAtLimit, TryAll, StartProbing, Probe,
           StopProbing, MarkDone, ChooseBlock, NoneLeft
  <2> QED BY <2>1, <2>2, <2>3
<1> QED BY Invariant, <1>1, PTL DEF Spec, DoneStaysWhole

-----------------------------------------------------------------------------
(* The leaves: sorted, the lightest first.                                   *)
LeastOf(S, x) == x \in S /\ \A y \in S : x <= y

LEMMA LeastExists == ASSUME NEW S, S \subseteq Nat, S # {} PROVE \E x \in S : LeastOf(S, x)
<1> DEFINE R == {nn \in Nat \X Nat : nn[1] < nn[2]}
<1>1. PICK x \in S : \A y \in S : ~ (<<y, x>> \in R)
  <2>1. IsWellFoundedOn(R, Nat)
    BY NatLessThanWellFounded DEF OpToRel, IsWellFoundedOn
  <2> HIDE DEF R
  <2> QED  BY <2>1, WFMin
<1>2. ASSUME NEW y \in S PROVE x <= y
  <2>1. x \in Nat /\ y \in Nat
    OBVIOUS
  <2>2. y < x => <<y, x>> \in R
    BY <2>1
  <2> QED  BY <1>1, <2>1, <2>2
<1> QED  BY <1>2 DEF LeastOf

Leaf == [weight : Nat \ {0}, symbol : Nat]
NoLighter(a, L) == \A b \in L : a.weight <= b.weight

LEMMA LightestIs ==
  ASSUME NEW L, L \subseteq Leaf, L # {}
  PROVE  Lightest(L) \in L /\ NoLighter(Lightest(L), L)
<1> DEFINE W == {a.weight : a \in L}
<1>1. PICK w \in W : LeastOf(W, w)
  <2>1. W \subseteq Nat /\ W # {}
    BY DEF Leaf
  <2> HIDE DEF W
  <2> QED  BY <2>1, LeastExists
<1> DEFINE K == {a.symbol : a \in {b \in L : b.weight = w}}
<1>2. PICK s \in K : LeastOf(K, s)
  <2>1. K \subseteq Nat /\ K # {}
    BY DEF Leaf
  <2> HIDE DEF K
  <2> QED  BY <2>1, LeastExists
<1>3. PICK a \in L : a.weight = w /\ a.symbol = s
  OBVIOUS
<1>4. ASSUME NEW b \in L \ {a} PROVE Lighter(a, b)
  <2>1. b.weight \in Nat /\ b.symbol \in Nat /\ a.weight \in Nat /\ a.symbol \in Nat
    BY DEF Leaf
  <2>2. w <= b.weight
    BY <1>1 DEF LeastOf
  <2>3. b.weight = w => s <= b.symbol
    BY <1>2 DEF LeastOf
  <2>4. ~ (a.weight = b.weight /\ a.symbol = b.symbol)
    BY DEF Leaf
  <2> QED  BY <1>3, <2>1, <2>2, <2>3, <2>4 DEF Lighter
<1> HIDE DEF W, K
<1>5. \E c \in L : \A b \in L \ {c} : Lighter(c, b)
  BY <1>4
<1>6. Lightest(L) \in L /\ \A b \in L \ {Lightest(L)} : Lighter(Lightest(L), b)
  BY <1>5 DEF Lightest
<1>7. ASSUME NEW b \in L PROVE Lightest(L).weight <= b.weight
  <2>1. b.weight \in Nat /\ Lightest(L).weight \in Nat
    BY <1>6 DEF Leaf
  <2>2. CASE b = Lightest(L)
    BY <2>1, <2>2
  <2>3. CASE b # Lightest(L)
    BY <1>6, <2>1, <2>3 DEF Lighter
  <2> QED  BY <2>2, <2>3
<1> QED  BY <1>6, <1>7 DEF NoLighter

Sorted(s) == \A j, k \in 1 .. Len(s) : j <= k => s[j].weight <= s[k].weight

(* The lightest k leaves in order.                                           *)
SortedPart(L, k) ==
  {s \in Seq(L) : /\ Len(s) = k /\ Sorted(s)
                  /\ \A j \in 1 .. k : NoLighter(s[j], L \ Range(s))
                  /\ Cardinality(L \ Range(s)) = Cardinality(L) - k}

LEMMA NextIsSorted ==
  ASSUME NEW L, L \subseteq Leaf, IsFiniteSet(L),
         NEW k \in 1 .. Cardinality(L), NEW s \in SortedPart(L, k - 1)
  PROVE  Append(s, Lightest(L \ Range(s))) \in SortedPart(L, k)
<1> DEFINE rest == L \ Range(s)
           a == Lightest(rest)
           t == Append(s, a)
<1>1. Cardinality(L) \in Nat /\ k \in Nat /\ k - 1 \in Nat
  BY FS_CardinalityType
<1>2. s \in Seq(L) /\ Len(s) = k - 1 /\ Sorted(s)
      /\ (\A j \in 1 .. k - 1 : NoLighter(s[j], rest))
      /\ Cardinality(rest) = Cardinality(L) - (k - 1)
  BY DEF SortedPart
<1>3. IsFiniteSet(rest) /\ rest \subseteq L /\ Cardinality(rest) # 0
  BY <1>1, <1>2, FS_Subset
<1>4. rest # {} /\ rest \subseteq Leaf
  BY <1>3, FS_EmptySet
<1> HIDE DEF rest
<1>5. a \in rest /\ NoLighter(a, rest)
  BY <1>4, LightestIs
<1> HIDE DEF a
<1>6. a \in L /\ a \in Leaf
  BY <1>3, <1>5
<1>7. /\ t \in Seq(L) /\ Len(t) = k
      /\ \A j \in 1 .. k - 1 : t[j] = s[j]
      /\ t[k] = a
  BY <1>1, <1>2, <1>6, AppendProperties
<1>8. Range(t) = Range(s) \cup {a}
  <2>1. DOMAIN t = 1 .. k /\ DOMAIN s = 1 .. k - 1
    BY <1>1, <1>2, <1>7
  <2>2. \A j \in 1 .. k : j \in 1 .. k - 1 \/ j = k
    BY <1>1
  <2>3. k \in 1 .. k /\ \A j \in 1 .. k - 1 : j \in 1 .. k
    BY <1>1
  <2> HIDE DEF t
  <2> QED  BY <1>7, <2>1, <2>2, <2>3 DEF Range
<1>9. L \ Range(t) = rest \ {a}
  BY <1>8 DEF rest
<1>10. Cardinality(rest \ {a}) = Cardinality(L) - k
  <2>1. Cardinality(rest \ {a}) = Cardinality(rest) - 1
    BY <1>3, <1>5, FS_RemoveElement
  <2> QED  BY <1>1, <1>2, <2>1
<1> HIDE DEF t
<1>11. \A j \in 1 .. k : NoLighter(t[j], rest)
  <2>1. \A j \in 1 .. k : j \in 1 .. k - 1 \/ j = k
    BY <1>1
  <2> QED  BY <1>2, <1>5, <1>7, <2>1
<1>12. Sorted(t)
  <2> SUFFICES ASSUME NEW i \in 1 .. k, NEW j \in 1 .. k, i <= j
               PROVE  t[i].weight <= t[j].weight
    BY <1>7 DEF Sorted
  <2>1. CASE j # k
    BY <1>1, <1>2, <1>7, <2>1 DEF Sorted
  <2>2. CASE j = k /\ i # k
    <3>1. i \in 1 .. k - 1
      BY <1>1, <2>2
    <3>2. NoLighter(s[i], rest)
      BY <1>2, <3>1
    <3> QED  BY <1>5, <1>7, <2>2, <3>1, <3>2 DEF NoLighter
  <2>3. CASE j = k /\ i = k
    BY <1>6, <1>7, <2>3 DEF Leaf
  <2> QED  BY <2>1, <2>2, <2>3
<1>13. \A j \in 1 .. k : NoLighter(t[j], L \ Range(t))
  BY <1>9, <1>11 DEF NoLighter
<1>14. t \in SortedPart(L, k)
  BY <1>7, <1>9, <1>10, <1>12, <1>13 DEF SortedPart
<1> QED  BY <1>14 DEF t, a, rest

LEMMA SortedUpToIs ==
  ASSUME NEW L, L \subseteq Leaf, IsFiniteSet(L)
  PROVE  \A k \in 0 .. Cardinality(L) : SortedUpTo(L)[k] \in SortedPart(L, k)
<1> DEFINE n == Cardinality(L)
           P == [k \in 0 .. n |-> SortedPart(L, k)]
           U == UNION {SortedPart(L, k) : k \in 0 .. n}
           step == [z \in (1 .. n) \X U |-> Append(z[2], Lightest(L \ Range(z[2])))]
           Is(f) == f = [k \in 0 .. n |-> IF k = 0 THEN << >>
                                          ELSE Append(f[k - 1], Lightest(L \ Range(f[k - 1])))]
           sorted == CHOOSE f : Is(f)
<1>1. n \in Nat
  BY FS_CardinalityType
<1> HIDE DEF n
<1>2. << >> \in SortedPart(L, 0)
  <2>1. Range(<< >>) = {}
    BY DEF Range
  <2>2. L \ Range(<< >>) = L /\ Cardinality(L) - 0 = Cardinality(L)
    BY <1>1, <2>1 DEF n
  <2>3. << >> \in Seq(L) /\ Len(<< >>) = 0 /\ \A j \in 1 .. 0 : FALSE
    OBVIOUS
  <2> QED  BY <2>2, <2>3 DEF SortedPart, Sorted
<1>3. ASSUME NEW k \in 1 .. n, NEW x \in SortedPart(L, k - 1)
      PROVE  /\ step[<<k, x>>] = Append(x, Lightest(L \ Range(x)))
             /\ step[<<k, x>>] \in SortedPart(L, k)
  <2>1. k - 1 \in 0 .. n
    BY <1>1
  <2>2. x \in U
    BY <2>1
  <2> HIDE DEF U
  <2>3. step[<<k, x>>] = Append(x, Lightest(L \ Range(x)))
    BY <2>2
  <2> QED  BY <2>3, NextIsSorted DEF n
<1> HIDE DEF step, U
<1>4. \E f : Is(f) /\ \A k \in 0 .. n : f[k] \in SortedPart(L, k)
  <2>1. << >> \in P[0] /\ \A k \in 0 .. n : P[k] = SortedPart(L, k)
    BY <1>1, <1>2
  <2>2. ASSUME NEW k \in 1 .. n, NEW x \in P[k - 1] PROVE step[<<k, x>>] \in P[k]
    <3>1. k \in 0 .. n /\ k - 1 \in 0 .. n
      BY <1>1
    <3> QED  BY <1>3, <2>1, <3>1
  <2> HIDE DEF P
  <2>3. Leads(step, P, n)
    BY <2>2 DEF Leads
  <2>3a. PICK f : StepsWithin(f, << >>, step, P, n)
    BY <1>1, <2>1, <2>3, StepsAreThere
  <2>4. /\ f = [k \in 0 .. n |-> IF k = 0 THEN << >> ELSE step[<<k, f[k - 1]>>]]
        /\ \A k \in 0 .. n : f[k] \in P[k]
    BY <2>3a DEF StepsWithin
  <2>5. \A k \in 0 .. n : f[k] \in SortedPart(L, k)
    BY <2>1, <2>4
  <2>6. ASSUME NEW k \in 0 .. n, k # 0
        PROVE  step[<<k, f[k - 1]>>] = Append(f[k - 1], Lightest(L \ Range(f[k - 1])))
    <3>1. k \in 1 .. n /\ k - 1 \in 0 .. n
      BY <1>1, <2>6
    <3> QED  BY <1>3, <2>5, <3>1
  <2>7. Is(f)
    BY <2>4, <2>6
  <2> HIDE DEF Is
  <2> QED  BY <2>5, <2>7
<1>5. SortedUpTo(L) = sorted
  BY DEF SortedUpTo, n
<1>6. Is(sorted)
  <2>1. \E f : Is(f)
    BY <1>4
  <2> HIDE DEF Is
  <2> QED  BY <2>1
<1>7. PICK f : Is(f) /\ \A k \in 0 .. n : f[k] \in SortedPart(L, k)
  BY <1>4
<1> HIDE DEF sorted
<1> DEFINE Same == {k \in 0 .. n : sorted[k] = f[k]}
<1>8. 0 \in Same
  <2>1. 0 \in 0 .. n
    BY <1>1
  <2> QED  BY <1>6, <1>7, <2>1
<1>9. ASSUME NEW k \in 0 .. n - 1, k \in Same PROVE k + 1 \in Same
  <2>1. k + 1 \in 0 .. n /\ k + 1 # 0 /\ (k + 1) - 1 = k
    BY <1>1
  <2>2. sorted[k + 1] = Append(sorted[k], Lightest(L \ Range(sorted[k])))
    BY <1>6, <2>1
  <2>3. f[k + 1] = Append(f[k], Lightest(L \ Range(f[k])))
    BY <1>7, <2>1
  <2> QED  BY <1>9, <2>1, <2>2, <2>3
<1> HIDE DEF Same
<1>10. \A k \in 0 .. n : k \in Same
  BY <1>1, <1>8, <1>9, UpTo
<1>11. \A k \in 0 .. n : sorted[k] \in SortedPart(L, k)
  BY <1>7, <1>10 DEF Same
<1> QED  BY <1>5, <1>11 DEF n

(* What SortLeaves gives of frequencies.                                     *)
SortedLeaves == {s \in Seq(Leaf) : Sorted(s)}

LEMMA SortLeavesIs ==
  ASSUME NEW freq, IsFiniteSet(DOMAIN freq), DOMAIN freq \subseteq Nat,
         \A s \in DOMAIN freq : freq[s] \in Nat
  PROVE  SortLeaves(freq) \in SortedLeaves
<1> DEFINE L == LeavesOf(freq)
           f == [s \in Used(freq) |-> [weight |-> freq[s], symbol |-> s]]
<1>1. L \subseteq Leaf
  BY DEF LeavesOf, Used, Leaf
<1>2. IsFiniteSet(Used(freq))
  <2>1. Used(freq) \in SUBSET DOMAIN freq
    BY DEF Used
  <2> QED  BY <2>1, FS_Subset
<1>3. f \in Surjection(Used(freq), L)
  <2>1. f \in [Used(freq) -> L] /\ \A a \in L : \E s \in Used(freq) : f[s] = a
    BY DEF LeavesOf
  <2> QED  BY <2>1 DEF Surjection
<1> HIDE DEF L, f
<1>4. IsFiniteSet(L) /\ Cardinality(L) \in Nat
  BY <1>2, <1>3, FS_Surjection, FS_CardinalityType
<1>5. Cardinality(L) \in 0 .. Cardinality(L)
  BY <1>4
<1>6. SortedUpTo(L)[Cardinality(L)] \in SortedPart(L, Cardinality(L))
  BY <1>1, <1>4, <1>5, SortedUpToIs
<1>7. Seq(L) \subseteq Seq(Leaf)
  BY <1>1
<1> QED  BY <1>6, <1>7 DEF SortLeaves, SortedPart, SortedLeaves, L

-----------------------------------------------------------------------------
(* What a list shows: the weights of its two last chains, and how many       *)
(* leaves are in it.                                                         *)
Lo(st, k) == st.lists[k][1].weight
Hi(st, k) == st.lists[k][2].weight
Cnt(st, k) == Head(st.lists[k][2].counts)

LEMMA StateTypes ==
  ASSUME NEW L \in Nat, NEW st \in States(L), NEW k \in 1 .. L
  PROVE  /\ st.lists[k][1] \in Chain /\ st.lists[k][2] \in Chain
         /\ Lo(st, k) \in Nat /\ Hi(st, k) \in Nat /\ Cnt(st, k) \in Nat /\ st.used \in Nat
<1>1. st.lists \in [1 .. L -> Chain \X Chain] /\ st.used \in Nat
  BY DEF States
<1>2. st.lists[k] \in Chain \X Chain
  BY <1>1
<1>3. st.lists[k][1] \in Chain /\ st.lists[k][2] \in Chain
  BY <1>2
<1>4. \A c \in Chain : c.weight \in Nat /\ Head(c.counts) \in Nat
  BY DEF Chain
<1> QED  BY <1>1, <1>3, <1>4 DEF Lo, Hi, Cnt

(* Only one list differs after a new chain.                                  *)
Replaced(st, new, L, i, chain) ==
  /\ new \in States(L) /\ new.used = st.used + 1
  /\ Lo(new, i) = Hi(st, i) /\ Hi(new, i) = chain.weight /\ Cnt(new, i) = Head(chain.counts)
  /\ \A k \in 1 .. L : k # i => /\ Lo(new, k) = Lo(st, k) /\ Hi(new, k) = Hi(st, k)
                                /\ Cnt(new, k) = Cnt(st, k)

LEMMA NewChainIs ==
  ASSUME NEW L \in Nat, NEW st \in States(L), NEW i \in 1 .. L, NEW chain \in Chain
  PROVE  Replaced(st, NewChain(st, i, chain), L, i, chain)
<1> DEFINE lists == [st.lists EXCEPT ![i] = <<st.lists[i][2], chain>>]
           new == [used |-> st.used + 1, lists |-> lists]
<1>1. NewChain(st, i, chain) = new
  BY DEF NewChain
<1>2. st.lists \in [1 .. L -> Chain \X Chain] /\ st.used \in Nat
  BY DEF States
<1>3. st.lists[i][2] \in Chain
  BY StateTypes
<1>4. lists \in [1 .. L -> Chain \X Chain] /\ lists[i] = <<st.lists[i][2], chain>>
      /\ \A k \in 1 .. L : k # i => lists[k] = st.lists[k]
  BY <1>2, <1>3
<1> HIDE DEF lists
<1>5. new \in States(L) /\ new.used = st.used + 1 /\ new.lists = lists
  BY <1>2, <1>4 DEF States
<1> HIDE DEF new
<1>6. Lo(new, i) = Hi(st, i) /\ Hi(new, i) = chain.weight /\ Cnt(new, i) = Head(chain.counts)
  BY <1>4, <1>5 DEF Lo, Hi, Cnt
<1>7. \A k \in 1 .. L : k # i => /\ Lo(new, k) = Lo(st, k) /\ Hi(new, k) = Hi(st, k)
                                 /\ Cnt(new, k) = Cnt(st, k)
  BY <1>4, <1>5 DEF Lo, Hi, Cnt
<1> QED  BY <1>1, <1>5, <1>6, <1>7 DEF Replaced

LEMMA LeafChain ==
  ASSUME NEW lv \in Seq(Leaf), NEW c \in Chain, Head(c.counts) < Len(lv)
  PROVE  /\ WithLeaf(lv, c) \in Chain
         /\ WithLeaf(lv, c).weight = lv[Head(c.counts) + 1].weight
         /\ Head(WithLeaf(lv, c).counts) = Head(c.counts) + 1
<1>1. Head(c.counts) \in Nat /\ Tail(c.counts) \in Seq(Nat)
  BY DEF Chain
<1>2. lv[Head(c.counts) + 1] \in Leaf
  BY <1>1
<1>3. lv[Head(c.counts) + 1].weight \in Nat
  BY <1>2 DEF Leaf
<1> DEFINE s == <<Head(c.counts) + 1>> \o Tail(c.counts)
<1>4. s \in Seq(Nat) /\ s # << >> /\ Head(s) = Head(c.counts) + 1
  BY <1>1
<1> HIDE DEF s
<1> QED  BY <1>3, <1>4 DEF WithLeaf, Chain, s

LEMMA PackageChain ==
  ASSUME NEW L \in Nat, NEW st \in States(L), NEW i \in 2 .. L
  PROVE  /\ WithPackage(st.lists, i) \in Chain
         /\ WithPackage(st.lists, i).weight = Lo(st, i - 1) + Hi(st, i - 1)
         /\ Head(WithPackage(st.lists, i).counts) = Cnt(st, i)
<1>1. i \in 1 .. L /\ i - 1 \in 1 .. L
  OBVIOUS
<1>2. /\ Lo(st, i - 1) \in Nat /\ Hi(st, i - 1) \in Nat /\ Cnt(st, i) \in Nat
      /\ st.lists[i - 1][2] \in Chain
  BY <1>1, StateTypes
<1> DEFINE t == st.lists[i - 1][2].counts
           s == <<Cnt(st, i)>> \o t
<1>3. t \in Seq(Nat)
  BY <1>2 DEF Chain
<1> HIDE DEF t
<1>4. s \in Seq(Nat) /\ s # << >> /\ Head(s) = Cnt(st, i)
  BY <1>2, <1>3
<1>5. WithPackage(st.lists, i) = [weight |-> Lo(st, i - 1) + Hi(st, i - 1), counts |-> s]
  BY DEF WithPackage, PackageWeight, Lo, Hi, Cnt, t
<1> HIDE DEF s
<1> QED  BY <1>2, <1>4, <1>5 DEF Chain

LEMMA TakesLeafIs ==
  ASSUME NEW lv, NEW st, NEW i
  PROVE  TakesLeaf(lv, st.lists, i) <=>
           /\ Cnt(st, i) < Len(lv)
           /\ Lo(st, i - 1) + Hi(st, i - 1) > lv[Cnt(st, i) + 1].weight
BY DEF TakesLeaf, PackageWeight, Lo, Hi, Cnt

-----------------------------------------------------------------------------
(* The runs are functions of states: the recursion of BoundaryPM.            *)
FirstRun(lv, L) ==
  [st \in States(L) |-> IF Cnt(st, 1) >= Len(lv) THEN st
                        ELSE NewChain(st, 1, WithLeaf(lv, st.lists[1][2]))]
NextRun(lv, L, i, g) ==
  [st \in States(L) |-> IF TakesLeaf(lv, st.lists, i)
                          THEN NewChain(st, i, WithLeaf(lv, st.lists[i][2]))
                          ELSE g[g[NewChain(st, i, WithPackage(st.lists, i))]]]

LEMMA FirstRunType ==
  ASSUME NEW L \in Nat \ {0}, NEW lv \in Seq(Leaf)
  PROVE  FirstRun(lv, L) \in [States(L) -> States(L)]
<1> SUFFICES ASSUME NEW st \in States(L), ~ (Cnt(st, 1) >= Len(lv))
             PROVE  NewChain(st, 1, WithLeaf(lv, st.lists[1][2])) \in States(L)
  BY DEF FirstRun
<1>1. 1 \in 1 .. L /\ Len(lv) \in Nat
  OBVIOUS
<1>2. st.lists[1][2] \in Chain /\ Cnt(st, 1) \in Nat
  BY <1>1, StateTypes
<1>3. Head(st.lists[1][2].counts) < Len(lv)
  BY <1>1, <1>2 DEF Cnt
<1>4. WithLeaf(lv, st.lists[1][2]) \in Chain
  BY <1>2, <1>3, LeafChain
<1> QED  BY <1>1, <1>4, NewChainIs DEF Replaced

LEMMA NextRunType ==
  ASSUME NEW L \in Nat \ {0}, NEW lv \in Seq(Leaf), NEW i \in 2 .. L,
         NEW g \in [States(L) -> States(L)]
  PROVE  NextRun(lv, L, i, g) \in [States(L) -> States(L)]
<1>1. ASSUME NEW st \in States(L), TakesLeaf(lv, st.lists, i)
      PROVE  NewChain(st, i, WithLeaf(lv, st.lists[i][2])) \in States(L)
  <2>1. i \in 1 .. L
    OBVIOUS
  <2>2. st.lists[i][2] \in Chain
    BY <2>1, StateTypes
  <2>3. Head(st.lists[i][2].counts) < Len(lv)
    BY <1>1 DEF TakesLeaf
  <2>4. WithLeaf(lv, st.lists[i][2]) \in Chain
    BY <2>2, <2>3, LeafChain
  <2> QED  BY <2>1, <2>4, NewChainIs DEF Replaced
<1>2. ASSUME NEW st \in States(L)
      PROVE  g[g[NewChain(st, i, WithPackage(st.lists, i))]] \in States(L)
  <2>1. i \in 1 .. L
    OBVIOUS
  <2>2. WithPackage(st.lists, i) \in Chain
    BY PackageChain
  <2>3. NewChain(st, i, WithPackage(st.lists, i)) \in States(L)
    BY <2>1, <2>2, NewChainIs DEF Replaced
  <2> QED  BY <2>3
<1> QED  BY <1>1, <1>2 DEF NextRun

LEMMA RunsAre ==
  ASSUME NEW L \in Nat \ {0}, NEW lv \in Seq(Leaf)
  PROVE  /\ RunsBelow(lv, L)[1] = FirstRun(lv, L)
         /\ \A i \in 2 .. L : RunsBelow(lv, L)[i] = NextRun(lv, L, i, RunsBelow(lv, L)[i - 1])
         /\ \A i \in 1 .. L : RunsBelow(lv, L)[i] \in [States(L) -> States(L)]
<1> DEFINE S == [States(L) -> States(L)]
           Is(f) == f = [i \in 1 .. L |-> IF i = 1 THEN FirstRun(lv, L)
                                          ELSE NextRun(lv, L, i, f[i - 1])]
           m == L - 1
           P == [j \in 0 .. m |-> S]
           step == [z \in (1 .. m) \X S |-> NextRun(lv, L, z[1] + 1, z[2])]
           R == CHOOSE f : Is(f)
<1>1. RunsBelow(lv, L) = R
  BY DEF RunsBelow, FirstRun, NextRun, Cnt
<1>2. FirstRun(lv, L) \in S
  BY FirstRunType
<1>3. \A i \in 2 .. L, g \in S : NextRun(lv, L, i, g) \in S
  BY NextRunType
<1> HIDE DEF S
<1>4. m \in Nat
  OBVIOUS
<1>5. ASSUME NEW j \in 1 .. m, NEW g \in S
      PROVE  step[<<j, g>>] = NextRun(lv, L, j + 1, g) /\ step[<<j, g>>] \in S
  <2>1. step[<<j, g>>] = NextRun(lv, L, j + 1, g)
    OBVIOUS
  <2>2. j + 1 \in 2 .. L
    OBVIOUS
  <2> QED  BY <1>3, <2>1, <2>2
<1> HIDE DEF step
<1>6. \E f : Is(f)
  <2>1. FirstRun(lv, L) \in P[0] /\ \A j \in 0 .. m : P[j] = S
    BY <1>2, <1>4
  <2>2. ASSUME NEW j \in 1 .. m, NEW x \in P[j - 1] PROVE step[<<j, x>>] \in P[j]
    <3>1. j \in 0 .. m /\ j - 1 \in 0 .. m
      BY <1>4
    <3> QED  BY <1>5, <2>1, <3>1
  <2> HIDE DEF P, m
  <2>3. Leads(step, P, m)
    BY <2>2 DEF Leads
  <2> DEFINE base == FirstRun(lv, L)
  <2>3a. base \in P[0]
    BY <2>1
  <2> HIDE DEF base, Is
  <2>3b. PICK f : StepsWithin(f, base, step, P, m)
    BY <1>4, <2>3, <2>3a, StepsAreThere
  <2>4. /\ f = [j \in 0 .. m |-> IF j = 0 THEN base ELSE step[<<j, f[j - 1]>>]]
        /\ \A j \in 0 .. m : f[j] \in P[j]
    BY <2>3b DEF StepsWithin
  <2> DEFINE g == [i \in 1 .. L |-> f[i - 1]]
  <2>5. ASSUME NEW i \in 1 .. L
        PROVE  g[i] = IF i = 1 THEN FirstRun(lv, L) ELSE NextRun(lv, L, i, g[i - 1])
    <3>1. i - 1 \in 0 .. m /\ g[i] = f[i - 1]
      BY DEF m
    <3>2. CASE i = 1
      BY <2>4, <3>1, <3>2 DEF base
    <3>3. CASE i # 1
      <4>1. i - 1 \in 1 .. m /\ i - 2 \in 0 .. m /\ i - 1 \in 1 .. L /\ (i - 1) - 1 = i - 2
            /\ (i - 1) + 1 = i /\ i - 1 # 0
        BY <3>3 DEF m
      <4>2. f[i - 1] = step[<<i - 1, f[i - 2]>>] /\ f[i - 2] \in S
        BY <2>1, <2>4, <4>1
      <4>3. step[<<i - 1, f[i - 2]>>] = NextRun(lv, L, (i - 1) + 1, f[i - 2])
        BY <1>5, <4>1, <4>2
      <4>4. g[i - 1] = f[i - 2]
        BY <4>1
      <4> QED  BY <3>1, <3>3, <4>1, <4>2, <4>3, <4>4
    <3> QED  BY <3>2, <3>3
  <2>6. g = [i \in 1 .. L |-> g[i]]
    OBVIOUS
  <2> HIDE DEF g
  <2>7. Is(g)
    BY <2>5, <2>6 DEF Is
  <2> QED  BY <2>7
<1>7. Is(R)
  <2> HIDE DEF Is
  <2> QED  BY <1>6
<1> HIDE DEF R
<1>8. R[1] = FirstRun(lv, L) /\ \A i \in 2 .. L : R[i] = NextRun(lv, L, i, R[i - 1])
  <2>1. 1 \in 1 .. L /\ \A i \in 2 .. L : i \in 1 .. L /\ i # 1
    OBVIOUS
  <2> QED  BY <1>7, <2>1
<1> HIDE DEF Is
<1> DEFINE T == {j \in 0 .. m : R[j + 1] \in S}
<1>9. 0 \in T
  BY <1>2, <1>4, <1>8
<1>10. ASSUME NEW j \in 0 .. m - 1, j \in T PROVE j + 1 \in T
  <2>1. j + 1 \in 0 .. m /\ (j + 1) + 1 \in 2 .. L /\ ((j + 1) + 1) - 1 = j + 1
    OBVIOUS
  <2>2. R[j + 1] \in S
    BY <1>10
  <2>3. R[(j + 1) + 1] = NextRun(lv, L, (j + 1) + 1, R[j + 1])
    BY <1>8, <2>1
  <2> QED  BY <1>3, <2>1, <2>2, <2>3
<1> HIDE DEF T
<1>11. \A j \in 0 .. m : j \in T
  <2> HIDE DEF m
  <2> QED  BY <1>4, <1>9, <1>10, UpTo
<1>12. ASSUME NEW i \in 1 .. L PROVE R[i] \in S
  <2>1. i - 1 \in 0 .. m /\ (i - 1) + 1 = i
    OBVIOUS
  <2> QED  BY <1>11, <2>1 DEF T
<1> QED  BY <1>1, <1>8, <1>12 DEF S

-----------------------------------------------------------------------------
(* How many chains were ever made in each list is not kept by the code.  A   *)
(* count c of them, added up over the lists, is carried along in the proof:  *)
(* Chains is the chains of a list, Packs those of them that are packages.    *)
Counts(L) == {c \in [0 .. L -> Nat] : c[0] = 0}
Chains(c, k) == (c[k] - c[k - 1]) + 2
Packs(st, c, k) == Chains(c, k) - Cnt(st, k)

(* The chains of a list have rising weights, no lighter than the last leaf   *)
(* in it and no heavier than what could come next.                           *)
Weighed(lv, st, k) ==
  /\ 1 <= Lo(st, k) /\ Lo(st, k) <= Hi(st, k)
  /\ Cnt(st, k) \in 2 .. Len(lv) /\ lv[Cnt(st, k)].weight <= Hi(st, k)
  /\ Cnt(st, k) < Len(lv) => Hi(st, k) <= lv[Cnt(st, k) + 1].weight
  /\ k > 1 => Hi(st, k) <= Lo(st, k - 1) + Hi(st, k - 1)

(* A list has fewer packages than leaves, the first has none, and none has   *)
(* more chains than it will ever be asked for.                               *)
Counted(lv, st, c, k) ==
  /\ 0 <= Packs(st, c, k) /\ Packs(st, c, k) < Cnt(st, k)
  /\ k = 1 => Packs(st, c, k) = 0
  /\ Chains(c, k) <= (2 * Len(lv)) - 2

Sound(lv, L, st, c) ==
  /\ st \in States(L) /\ c \in Counts(L) /\ st.used = c[L] + 2
  /\ \A k \in 1 .. L : Weighed(lv, st, k) /\ Counted(lv, st, c, k)

(* The list below has the two chains of each package, and two to look at; or *)
(* it is the first, and there are no more leaves.                            *)
Fed(lv, st, c, k) ==
  \/ Chains(c, k - 1) = (2 * Packs(st, c, k)) + 2
  \/ /\ k = 2 /\ Cnt(st, 1) = Len(lv)
     /\ Len(lv) <= (2 * Packs(st, c, 2)) + 2
FedUpTo(lv, st, c, i) == \A k \in 2 .. i : Fed(lv, st, c, k)

OneMore(L, c, i) == [k \in 0 .. L |-> IF k < i THEN c[k] ELSE c[k] + 1]

LEMMA OneMoreIs ==
  ASSUME NEW L \in Nat, NEW c \in Counts(L), NEW i \in 1 .. L
  PROVE  /\ OneMore(L, c, i) \in Counts(L) /\ OneMore(L, c, i)[L] = c[L] + 1
         /\ Chains(OneMore(L, c, i), i) = Chains(c, i) + 1
         /\ \A k \in 1 .. L : k # i => Chains(OneMore(L, c, i), k) = Chains(c, k)
         /\ \A k \in 1 .. L : Chains(c, k) \in Int /\ c[k] \in Nat
<1> DEFINE d == OneMore(L, c, i)
<1>1. c \in [0 .. L -> Nat] /\ c[0] = 0
  BY DEF Counts
<1>2. /\ d \in [0 .. L -> Nat]
      /\ \A k \in 0 .. L : d[k] = IF k < i THEN c[k] ELSE c[k] + 1
  BY <1>1 DEF OneMore
<1>3. 0 \in 0 .. L /\ L \in 0 .. L /\ i \in 0 .. L /\ i - 1 \in 0 .. L
      /\ \A k \in 1 .. L : k \in 0 .. L /\ k - 1 \in 0 .. L
  OBVIOUS
<1> HIDE DEF d
<1>4. d \in Counts(L) /\ d[L] = c[L] + 1
  BY <1>1, <1>2, <1>3 DEF Counts
<1>5. Chains(d, i) = Chains(c, i) + 1
  BY <1>1, <1>2, <1>3 DEF Chains
<1>6. \A k \in 1 .. L : k # i => Chains(d, k) = Chains(c, k)
  BY <1>1, <1>2, <1>3 DEF Chains
<1>7. \A k \in 1 .. L : Chains(c, k) \in Int /\ c[k] \in Nat
  BY <1>1, <1>3 DEF Chains
<1> QED  BY <1>4, <1>5, <1>6, <1>7 DEF d

ManyLeaves == {lv \in SortedLeaves : Len(lv) >= 3}

LEMMA LeavesAre ==
  ASSUME NEW lv \in ManyLeaves
  PROVE  /\ lv \in Seq(Leaf) /\ Len(lv) \in Nat /\ Len(lv) >= 3
         /\ \A k \in 1 .. Len(lv) : lv[k] \in Leaf /\ lv[k].weight \in Nat \ {0}
         /\ \A j, k \in 1 .. Len(lv) : j <= k => lv[j].weight <= lv[k].weight
<1>1. lv \in Seq(Leaf) /\ Sorted(lv) /\ Len(lv) >= 3
  BY DEF ManyLeaves, SortedLeaves
<1>2. \A k \in 1 .. Len(lv) : lv[k] \in Leaf
  BY <1>1
<1> QED  BY <1>1, <1>2 DEF Sorted, Leaf

(* What a new chain does to the weights: it may be a leaf or a package.      *)
LEMMA WeighedAfter ==
  ASSUME NEW lv \in ManyLeaves, NEW L \in Nat, NEW st \in States(L), NEW i \in 1 .. L,
         NEW new \in States(L), NEW chain \in Chain, Replaced(st, new, L, i, chain),
         \A k \in 1 .. L : Weighed(lv, st, k),
         Hi(st, i) <= chain.weight, Cnt(new, i) \in 2 .. Len(lv),
         lv[Cnt(new, i)].weight <= chain.weight,
         Cnt(new, i) < Len(lv) => chain.weight <= lv[Cnt(new, i) + 1].weight,
         i > 1 => chain.weight <= Lo(st, i - 1) + Hi(st, i - 1)
  PROVE  \A k \in 1 .. L : Weighed(lv, new, k)
<1> SUFFICES ASSUME NEW k \in 1 .. L PROVE Weighed(lv, new, k)
  OBVIOUS
<1>1. \A j \in 1 .. L : /\ Lo(st, j) \in Nat /\ Hi(st, j) \in Nat
                        /\ Lo(new, j) \in Nat /\ Hi(new, j) \in Nat
  BY StateTypes
<1>2. chain.weight \in Nat
  BY DEF Chain
<1>3. Weighed(lv, st, i) /\ Weighed(lv, st, k)
  OBVIOUS
<1>4. CASE k = i
  <2>1. 1 <= Lo(new, i) /\ Lo(new, i) <= Hi(new, i)
    BY <1>1, <1>2, <1>3 DEF Weighed, Replaced
  <2>2. lv[Cnt(new, i)].weight <= Hi(new, i)
        /\ (Cnt(new, i) < Len(lv) => Hi(new, i) <= lv[Cnt(new, i) + 1].weight)
    BY DEF Replaced
  <2>3. ASSUME i > 1 PROVE Hi(new, i) <= Lo(new, i - 1) + Hi(new, i - 1)
    <3>1. i - 1 \in 1 .. L /\ i - 1 # i
      BY <2>3
    <3> QED  BY <2>3, <3>1 DEF Replaced
  <2> QED  BY <1>4, <2>1, <2>2, <2>3 DEF Weighed
<1>5. CASE k # i
  <2>1. Lo(new, k) = Lo(st, k) /\ Hi(new, k) = Hi(st, k) /\ Cnt(new, k) = Cnt(st, k)
    BY <1>5 DEF Replaced
  <2>2. ASSUME k > 1 PROVE Lo(st, k - 1) + Hi(st, k - 1) <= Lo(new, k - 1) + Hi(new, k - 1)
    <3>1. k - 1 \in 1 .. L
      BY <2>2
    <3>2. CASE k - 1 = i
      <4>1. Lo(new, i) = Hi(st, i) /\ Hi(new, i) = chain.weight
        BY DEF Replaced
      <4>2. Lo(st, i) <= Hi(st, i)
        BY <1>3 DEF Weighed
      <4> QED  BY <1>1, <1>2, <3>2, <4>1, <4>2
    <3>3. CASE k - 1 # i
      BY <1>1, <3>1, <3>3 DEF Replaced
    <3> QED  BY <3>2, <3>3
  <2>3. k > 1 => Hi(st, k) <= Lo(new, k - 1) + Hi(new, k - 1)
    <3> SUFFICES ASSUME k > 1 PROVE Hi(st, k) <= Lo(new, k - 1) + Hi(new, k - 1)
      OBVIOUS
    <3>1. Hi(st, k) <= Lo(st, k - 1) + Hi(st, k - 1)
      BY <1>3 DEF Weighed
    <3>2. k - 1 \in 1 .. L
      OBVIOUS
    <3>3. Lo(st, k - 1) + Hi(st, k - 1) <= Lo(new, k - 1) + Hi(new, k - 1)
      BY <2>2
    <3>4. /\ Lo(st, k - 1) \in Nat /\ Hi(st, k - 1) \in Nat /\ Hi(st, k) \in Nat
          /\ Lo(new, k - 1) \in Nat /\ Hi(new, k - 1) \in Nat
      BY <1>1, <3>2
    <3> QED  BY <3>1, <3>3, <3>4
  <2> QED  BY <1>3, <2>1, <2>3 DEF Weighed
<1> QED  BY <1>4, <1>5

(* The other lists keep what they count.                                     *)
LEMMA OthersCounted ==
  ASSUME NEW L \in Nat, NEW c \in Counts(L), NEW i \in 1 .. L, NEW st, NEW new,
         NEW chain, Replaced(st, new, L, i, chain)
  PROVE  \A k \in 1 .. L : k # i => /\ Packs(new, OneMore(L, c, i), k) = Packs(st, c, k)
                                    /\ Chains(OneMore(L, c, i), k) = Chains(c, k)
                                    /\ Cnt(new, k) = Cnt(st, k)
BY OneMoreIs DEF Replaced, Packs

LEMMA SoundAfter ==
  ASSUME NEW lv \in ManyLeaves, NEW L \in Nat, NEW st, NEW c, Sound(lv, L, st, c),
         NEW i \in 1 .. L, NEW new \in States(L), NEW chain \in Chain,
         Replaced(st, new, L, i, chain), \A k \in 1 .. L : Weighed(lv, new, k),
         Counted(lv, new, OneMore(L, c, i), i)
  PROVE  Sound(lv, L, new, OneMore(L, c, i))
<1>1. c \in Counts(L) /\ st.used = c[L] + 2 /\ \A k \in 1 .. L : Counted(lv, st, c, k)
  BY DEF Sound
<1>2. ASSUME NEW k \in 1 .. L PROVE Counted(lv, new, OneMore(L, c, i), k)
  <2>1. CASE k # i
    BY <1>1, <2>1, OthersCounted DEF Counted
  <2> QED  BY <2>1
<1>3. OneMore(L, c, i) \in Counts(L) /\ OneMore(L, c, i)[L] = c[L] + 1 /\ c[L] \in Nat
  BY <1>1, OneMoreIs
<1>4. new.used = OneMore(L, c, i)[L] + 2
  BY <1>1, <1>3 DEF Replaced
<1> QED  BY <1>2, <1>3, <1>4 DEF Sound

LEMMA LeafSound ==
  ASSUME NEW lv \in ManyLeaves, NEW L \in Nat, NEW st, NEW c, Sound(lv, L, st, c),
         NEW i \in 1 .. L, Cnt(st, i) < Len(lv),
         i > 1 => Lo(st, i - 1) + Hi(st, i - 1) > lv[Cnt(st, i) + 1].weight,
         Chains(c, i) + 1 <= (2 * Len(lv)) - 2
  PROVE  LET new == NewChain(st, i, WithLeaf(lv, st.lists[i][2]))
         IN  /\ Sound(lv, L, new, OneMore(L, c, i))
             /\ Packs(new, OneMore(L, c, i), i) = Packs(st, c, i)
             /\ Cnt(new, i) = Cnt(st, i) + 1
             /\ \E chain \in Chain : Replaced(st, new, L, i, chain)
<1> DEFINE chain == WithLeaf(lv, st.lists[i][2])
           new == NewChain(st, i, chain)
<1>1. /\ st \in States(L) /\ c \in Counts(L)
      /\ \A k \in 1 .. L : Weighed(lv, st, k) /\ Counted(lv, st, c, k)
  BY DEF Sound
<1>2. /\ lv \in Seq(Leaf) /\ Len(lv) \in Nat
      /\ \A k \in 1 .. Len(lv) : lv[k].weight \in Nat
      /\ \A j, k \in 1 .. Len(lv) : j <= k => lv[j].weight <= lv[k].weight
  BY LeavesAre
<1>3. st.lists[i][2] \in Chain /\ Cnt(st, i) \in Nat /\ Hi(st, i) \in Nat
  BY <1>1, StateTypes
<1>4. chain \in Chain /\ chain.weight = lv[Cnt(st, i) + 1].weight
      /\ Head(chain.counts) = Cnt(st, i) + 1
  BY <1>2, <1>3, LeafChain DEF Cnt
<1> HIDE DEF chain
<1>5. Replaced(st, new, L, i, chain) /\ new \in States(L)
  BY <1>1, <1>4, NewChainIs DEF Replaced
<1> HIDE DEF new
<1>6. Cnt(new, i) = Cnt(st, i) + 1
  BY <1>4, <1>5 DEF Replaced
<1>7. Cnt(st, i) \in 2 .. Len(lv) /\ Hi(st, i) <= chain.weight
  BY <1>1, <1>4 DEF Weighed
<1>8. \A k \in 1 .. L : Weighed(lv, new, k)
  <2>1. Cnt(new, i) \in 2 .. Len(lv)
    BY <1>2, <1>6, <1>7
  <2>2. lv[Cnt(new, i)].weight <= chain.weight
    BY <1>2, <1>4, <1>6, <2>1
  <2>3. Cnt(new, i) < Len(lv) => chain.weight <= lv[Cnt(new, i) + 1].weight
    BY <1>2, <1>4, <1>6, <2>1
  <2>4. i > 1 => chain.weight <= Lo(st, i - 1) + Hi(st, i - 1)
    <3> SUFFICES ASSUME i > 1 PROVE chain.weight <= Lo(st, i - 1) + Hi(st, i - 1)
      OBVIOUS
    <3>1. i - 1 \in 1 .. L
      OBVIOUS
    <3>2. Lo(st, i - 1) \in Nat /\ Hi(st, i - 1) \in Nat /\ chain.weight \in Nat
      BY <1>1, <1>4, <3>1, StateTypes DEF Chain
    <3> QED  BY <1>4, <3>2
  <2> QED  BY <1>1, <1>4, <1>5, <1>7, <2>1, <2>2, <2>3, <2>4, WeighedAfter
<1>9. Chains(OneMore(L, c, i), i) = Chains(c, i) + 1 /\ Chains(c, i) \in Int
  BY <1>1, OneMoreIs
<1>10. Packs(new, OneMore(L, c, i), i) = Packs(st, c, i)
  BY <1>3, <1>6, <1>9 DEF Packs
<1>11. Packs(st, c, i) \in Int
  BY <1>3, <1>9 DEF Packs
<1>12. Counted(lv, new, OneMore(L, c, i), i)
  BY <1>1, <1>3, <1>6, <1>9, <1>10, <1>11 DEF Counted
<1>13. Sound(lv, L, new, OneMore(L, c, i))
  BY <1>4, <1>5, <1>8, <1>12, SoundAfter
<1> QED  BY <1>4, <1>5, <1>6, <1>10, <1>13 DEF new, chain

(* A package is heavier than every leaf in the list below, so that as many   *)
(* leaves are in the list it comes to; and what the list below has been      *)
(* asked for bounds the packages.                                            *)
LEMMA PackageSound ==
  ASSUME NEW lv \in ManyLeaves, NEW L \in Nat, NEW st, NEW c, Sound(lv, L, st, c),
         NEW i \in 2 .. L, ~ TakesLeaf(lv, st.lists, i), Fed(lv, st, c, i),
         Chains(c, i) + 1 <= (2 * Len(lv)) - 2
  PROVE  LET new == NewChain(st, i, WithPackage(st.lists, i))
         IN  /\ Sound(lv, L, new, OneMore(L, c, i))
             /\ Packs(new, OneMore(L, c, i), i) = Packs(st, c, i) + 1
             /\ Cnt(new, i) = Cnt(st, i)
             /\ \E chain \in Chain : Replaced(st, new, L, i, chain)
<1> DEFINE chain == WithPackage(st.lists, i)
           new == NewChain(st, i, chain)
           n == Len(lv)
<1>1. /\ st \in States(L) /\ c \in Counts(L)
      /\ \A k \in 1 .. L : Weighed(lv, st, k) /\ Counted(lv, st, c, k)
  BY DEF Sound
<1>2. /\ lv \in Seq(Leaf) /\ n \in Nat /\ n >= 3
      /\ \A k \in 1 .. n : lv[k].weight \in Nat
      /\ \A j, k \in 1 .. n : j <= k => lv[j].weight <= lv[k].weight
  BY LeavesAre
<1>3. i \in 1 .. L /\ i - 1 \in 1 .. L /\ i > 1 /\ i # 1 /\ i - 1 # i
  OBVIOUS
<1>4. /\ Cnt(st, i) \in Nat /\ Hi(st, i) \in Nat /\ Cnt(st, i - 1) \in Nat
      /\ Lo(st, i - 1) \in Nat /\ Hi(st, i - 1) \in Nat
  BY <1>1, <1>3, StateTypes
<1>5. chain \in Chain /\ chain.weight = Lo(st, i - 1) + Hi(st, i - 1)
      /\ Head(chain.counts) = Cnt(st, i)
  BY <1>1, PackageChain
<1> HIDE DEF chain, n
<1>6. Replaced(st, new, L, i, chain) /\ new \in States(L)
  BY <1>1, <1>3, <1>5, NewChainIs DEF Replaced
<1> HIDE DEF new
<1>7. Cnt(new, i) = Cnt(st, i)
  BY <1>5, <1>6 DEF Replaced
<1>8. /\ Cnt(st, i) \in 2 .. n /\ lv[Cnt(st, i)].weight <= Hi(st, i)
      /\ Hi(st, i) <= Lo(st, i - 1) + Hi(st, i - 1)
      /\ Cnt(st, i - 1) \in 2 .. n /\ lv[Cnt(st, i - 1)].weight <= Hi(st, i - 1)
      /\ 1 <= Lo(st, i - 1)
  BY <1>1, <1>3 DEF Weighed, n
<1>9. Cnt(st, i) < n => Lo(st, i - 1) + Hi(st, i - 1) <= lv[Cnt(st, i) + 1].weight
  <2> SUFFICES ASSUME Cnt(st, i) < n
               PROVE  Lo(st, i - 1) + Hi(st, i - 1) <= lv[Cnt(st, i) + 1].weight
    OBVIOUS
  <2>1. Cnt(st, i) + 1 \in 1 .. n
    BY <1>2, <1>4
  <2>2. lv[Cnt(st, i) + 1].weight \in Nat
    BY <1>2, <2>1
  <2>3. ~ (Lo(st, i - 1) + Hi(st, i - 1) > lv[Cnt(st, i) + 1].weight)
    BY TakesLeafIs DEF n
  <2> QED  BY <1>4, <2>2, <2>3
<1>10. Cnt(st, i - 1) <= Cnt(st, i)
  <2> SUFFICES ASSUME Cnt(st, i) < Cnt(st, i - 1) PROVE FALSE
    BY <1>4
  <2>0. Cnt(st, i - 1) <= n /\ Cnt(st, i - 1) \in 1 .. n
    BY <1>2, <1>8
  <2>1. Cnt(st, i) < n /\ Cnt(st, i) + 1 \in 1 .. n /\ Cnt(st, i - 1) \in 1 .. n
        /\ Cnt(st, i) + 1 <= Cnt(st, i - 1)
    BY <1>2, <1>4, <2>0
  <2>2. /\ lv[Cnt(st, i) + 1].weight <= lv[Cnt(st, i - 1)].weight
        /\ lv[Cnt(st, i) + 1].weight \in Nat /\ lv[Cnt(st, i - 1)].weight \in Nat
    BY <1>2, <2>1
  <2> QED  BY <1>4, <1>8, <1>9, <2>1, <2>2
<1>11. \A k \in 1 .. L : Weighed(lv, new, k)
  <2>1. Hi(st, i) <= chain.weight /\ chain.weight \in Nat
    BY <1>4, <1>5, <1>8
  <2>2. lv[Cnt(new, i)].weight <= chain.weight
    <3>1. lv[Cnt(st, i)].weight \in Nat
      BY <1>2, <1>8
    <3> QED  BY <1>4, <1>7, <1>8, <2>1, <3>1
  <2>3. Cnt(new, i) \in 2 .. Len(lv)
    BY <1>7, <1>8 DEF n
  <2>4. Cnt(new, i) < Len(lv) => chain.weight <= lv[Cnt(new, i) + 1].weight
    BY <1>5, <1>7, <1>9 DEF n
  <2>5. i > 1 => chain.weight <= Lo(st, i - 1) + Hi(st, i - 1)
    BY <1>4, <1>5
  <2> QED  BY <1>1, <1>3, <1>5, <1>6, <2>1, <2>2, <2>3, <2>4, <2>5, WeighedAfter
<1>12. /\ Chains(OneMore(L, c, i), i) = Chains(c, i) + 1 /\ Chains(c, i) \in Int
       /\ Chains(c, i - 1) \in Int
  BY <1>1, <1>3, OneMoreIs
<1>13. Packs(new, OneMore(L, c, i), i) = Packs(st, c, i) + 1 /\ Packs(st, c, i) \in Int
  BY <1>4, <1>7, <1>12 DEF Packs
<1>14. Packs(st, c, i) + 1 < Cnt(st, i)
  <2>1. Chains(c, i) = Packs(st, c, i) + Cnt(st, i)
    BY <1>4, <1>12 DEF Packs
  <2>2. Chains(c, i) + 1 <= (2 * n) - 2
    BY DEF n
  <2>3. CASE Chains(c, i - 1) = (2 * Packs(st, c, i)) + 2
    <3>1. Packs(st, c, i - 1) < Cnt(st, i - 1)
          /\ Packs(st, c, i - 1) = Chains(c, i - 1) - Cnt(st, i - 1)
      BY <1>1, <1>3 DEF Counted, Packs
    <3>2. (2 * Packs(st, c, i)) + 2 < 2 * Cnt(st, i - 1)
      BY <1>4, <1>12, <1>13, <2>3, <3>1
    <3> QED  BY <1>4, <1>10, <1>13, <3>2
  <2>4. CASE i = 2 /\ Cnt(st, 1) = n
    <3>1. Cnt(st, i) = n
      BY <1>2, <1>8, <1>10, <2>4
    <3> QED  BY <1>2, <1>13, <2>1, <2>2, <3>1
  <2> QED  BY <2>3, <2>4 DEF Fed, n
<1>15. Counted(lv, new, OneMore(L, c, i), i)
  <2>1. 0 <= Packs(st, c, i)
    BY <1>1, <1>3 DEF Counted
  <2> QED  BY <1>3, <1>4, <1>7, <1>12, <1>13, <1>14, <2>1 DEF Counted
<1>16. Sound(lv, L, new, OneMore(L, c, i))
  BY <1>3, <1>5, <1>6, <1>11, <1>15, SoundAfter
<1> QED  BY <1>5, <1>6, <1>7, <1>13, <1>16 DEF new, chain

-----------------------------------------------------------------------------
(* What a run does to list i, given that all lists up to it are fed: one     *)
(* more chain, unless it is the first list and there are no more leaves; and *)
(* nothing to the lists above it.                                            *)
Ready(lv, L, st, c, i) ==
  /\ Sound(lv, L, st, c) /\ FedUpTo(lv, st, c, i)
  /\ Chains(c, i) + 1 <= (2 * Len(lv)) - 2

Ran(lv, L, st, c, i, new, d) ==
  /\ Sound(lv, L, new, d) /\ FedUpTo(lv, new, d, i)
  /\ \A k \in i + 1 .. L : /\ Chains(d, k) = Chains(c, k) /\ Cnt(new, k) = Cnt(st, k)
  /\ \/ Chains(d, i) = Chains(c, i) + 1
     \/ i = 1 /\ Cnt(new, 1) = Len(lv) /\ Chains(d, 1) = Chains(c, 1)

RunsWell(lv, L, i) ==
  \A st \in States(L), c \in Counts(L) :
    Ready(lv, L, st, c, i) =>
      \E d \in Counts(L) : Ran(lv, L, st, c, i, RunsBelow(lv, L)[i][st], d)

(* A chain made in list i changes nothing between the lists below it.        *)
LEMMA FedBelow ==
  ASSUME NEW lv, NEW L \in Nat, NEW c \in Counts(L), NEW i \in 1 .. L, NEW st, NEW new,
         NEW chain, Replaced(st, new, L, i, chain),
         NEW j \in Nat, j < i, FedUpTo(lv, st, c, j)
  PROVE  FedUpTo(lv, new, OneMore(L, c, i), j)
<1> SUFFICES ASSUME NEW k \in 2 .. j PROVE Fed(lv, new, OneMore(L, c, i), k)
  BY DEF FedUpTo
<1>1. Fed(lv, st, c, k)
  BY DEF FedUpTo
<1>2. k \in 1 .. L /\ k # i /\ k - 1 \in 1 .. L /\ k - 1 # i
  OBVIOUS
<1>3. /\ Packs(new, OneMore(L, c, i), k) = Packs(st, c, k)
      /\ Chains(OneMore(L, c, i), k - 1) = Chains(c, k - 1)
      /\ Cnt(new, k - 1) = Cnt(st, k - 1)
  BY <1>2, OthersCounted
<1> QED  BY <1>1, <1>3 DEF Fed

(* A leaf in list i: its packages, and so what the list below needs, stay.   *)
LEMMA FedAfterLeaf ==
  ASSUME NEW lv, NEW L \in Nat, NEW c \in Counts(L), NEW i \in 1 .. L, NEW st, NEW new,
         NEW chain, Replaced(st, new, L, i, chain), FedUpTo(lv, st, c, i),
         Packs(new, OneMore(L, c, i), i) = Packs(st, c, i)
  PROVE  FedUpTo(lv, new, OneMore(L, c, i), i)
<1> SUFFICES ASSUME NEW k \in 2 .. i PROVE Fed(lv, new, OneMore(L, c, i), k)
  BY DEF FedUpTo
<1>1. Fed(lv, st, c, k)
  BY DEF FedUpTo
<1>2. k \in 1 .. L /\ k - 1 \in 1 .. L /\ k - 1 # i
  OBVIOUS
<1>3. /\ Packs(new, OneMore(L, c, i), k) = Packs(st, c, k)
      /\ Chains(OneMore(L, c, i), k - 1) = Chains(c, k - 1)
      /\ Cnt(new, k - 1) = Cnt(st, k - 1)
  BY <1>2, OthersCounted
<1> QED  BY <1>1, <1>3 DEF Fed

LEMMA LeafRuns ==
  ASSUME NEW lv \in ManyLeaves, NEW L \in Nat, NEW i \in 1 .. L, NEW st, NEW c,
         Ready(lv, L, st, c, i), Cnt(st, i) < Len(lv),
         i > 1 => Lo(st, i - 1) + Hi(st, i - 1) > lv[Cnt(st, i) + 1].weight
  PROVE  Ran(lv, L, st, c, i, NewChain(st, i, WithLeaf(lv, st.lists[i][2])), OneMore(L, c, i))
<1> DEFINE new == NewChain(st, i, WithLeaf(lv, st.lists[i][2]))
           d == OneMore(L, c, i)
<1>1. /\ Sound(lv, L, st, c) /\ FedUpTo(lv, st, c, i) /\ c \in Counts(L)
      /\ Chains(c, i) + 1 <= (2 * Len(lv)) - 2
  BY DEF Ready, Sound
<1>2. /\ Sound(lv, L, new, d) /\ Packs(new, d, i) = Packs(st, c, i)
      /\ \E chain \in Chain : Replaced(st, new, L, i, chain)
  BY <1>1, LeafSound
<1> HIDE DEF new
<1>3. PICK chain \in Chain : Replaced(st, new, L, i, chain)
  BY <1>2
<1>4. FedUpTo(lv, new, d, i)
  BY <1>1, <1>2, <1>3, FedAfterLeaf
<1>5. \A k \in i + 1 .. L : Chains(d, k) = Chains(c, k) /\ Cnt(new, k) = Cnt(st, k)
  <2>1. \A k \in i + 1 .. L : k \in 1 .. L /\ k # i
    OBVIOUS
  <2> QED  BY <1>1, <1>3, <2>1, OthersCounted
<1>6. Chains(d, i) = Chains(c, i) + 1
  BY <1>1, OneMoreIs
<1> QED  BY <1>2, <1>4, <1>5, <1>6 DEF Ran, new

(* A package in list i: both chains of the list below are used up, and two   *)
(* runs give it two more.                                                    *)
LEMMA TypesOfSound ==
  ASSUME NEW lv, NEW L \in Nat, NEW st, NEW c, Sound(lv, L, st, c), NEW k \in 1 .. L
  PROVE  /\ st \in States(L) /\ c \in Counts(L)
         /\ Chains(c, k) \in Int /\ Cnt(st, k) \in Nat /\ Packs(st, c, k) \in Int
         /\ Chains(c, k) = Packs(st, c, k) + Cnt(st, k)
         /\ Cnt(st, k) <= Len(lv) /\ Counted(lv, st, c, k)
<1>1. st \in States(L) /\ c \in Counts(L) /\ Weighed(lv, st, k) /\ Counted(lv, st, c, k)
  BY DEF Sound
<1>2. Chains(c, k) \in Int /\ Cnt(st, k) \in Nat
  BY <1>1, OneMoreIs, StateTypes
<1> QED  BY <1>1, <1>2 DEF Packs, Weighed

SoundAt(lv, st, c, k) ==
  /\ Packs(st, c, k) \in Int /\ Chains(c, k) = Packs(st, c, k) + Cnt(st, k)
  /\ Counted(lv, st, c, k) /\ Cnt(st, k) \in Nat

LEMMA SoundIsSoundAt ==
  \A lv, st, c : \A L \in Nat : \A k \in 1 .. L : Sound(lv, L, st, c) => SoundAt(lv, st, c, k)
BY TypesOfSound DEF SoundAt

LEMMA PackageRuns ==
  ASSUME NEW lv \in ManyLeaves, NEW L \in Nat \ {0}, NEW i \in 2 .. L, NEW st, NEW c,
         Ready(lv, L, st, c, i), ~ TakesLeaf(lv, st.lists, i), RunsWell(lv, L, i - 1)
  PROVE  LET run == RunsBelow(lv, L)[i - 1]
         IN  \E d \in Counts(L) :
               Ran(lv, L, st, c, i, run[run[NewChain(st, i, WithPackage(st.lists, i))]], d)
<1> DEFINE n == Len(lv)
           j == i - 1
           run == RunsBelow(lv, L)[j]
           st1 == NewChain(st, i, WithPackage(st.lists, i))
           c1 == OneMore(L, c, i)
           st2 == run[st1]
           st3 == run[st2]
<1>1. /\ Sound(lv, L, st, c) /\ FedUpTo(lv, st, c, i) /\ c \in Counts(L)
      /\ Chains(c, i) + 1 <= (2 * n) - 2
  BY DEF Ready, Sound
<1>2. /\ i \in 1 .. L /\ j \in 1 .. L /\ j \in Nat /\ j < i /\ i # j /\ i = j + 1 /\ i \in 2 .. i
      /\ i \in j + 1 .. L /\ \A k \in i + 1 .. L : k \in j + 1 .. L
  OBVIOUS
<1>3. n \in Nat /\ n >= 3 /\ lv \in Seq(Leaf)
  BY LeavesAre
<1>4. Fed(lv, st, c, i)
  BY <1>1, <1>2 DEF FedUpTo
<1>5. /\ Sound(lv, L, st1, c1)
      /\ Packs(st1, c1, i) = Packs(st, c, i) + 1 /\ Cnt(st1, i) = Cnt(st, i)
      /\ \E chain \in Chain : Replaced(st, st1, L, i, chain)
  BY <1>1, <1>4, PackageSound
<1> HIDE DEF n, st1
<1>6. PICK chain \in Chain : Replaced(st, st1, L, i, chain)
  BY <1>5
<1>7. FedUpTo(lv, st, c, j)
  BY <1>1, <1>2 DEF FedUpTo
<1>8. FedUpTo(lv, st1, c1, j)
  BY <1>1, <1>2, <1>6, <1>7, FedBelow
<1>9. /\ Chains(c1, j) = Chains(c, j) /\ Cnt(st1, j) = Cnt(st, j)
      /\ \A k \in i + 1 .. L : Chains(c1, k) = Chains(c, k) /\ Cnt(st1, k) = Cnt(st, k)
  <2>1. \A k \in i + 1 .. L : k \in 1 .. L /\ k # i
    OBVIOUS
  <2> QED  BY <1>1, <1>2, <1>6, <2>1, OthersCounted
<1>10. Chains(c1, i) = Chains(c, i) + 1
  BY <1>1, <1>2, OneMoreIs
(* What list i asks of the list below.                                       *)
<1>11. /\ Packs(st1, c1, i) \in Int /\ 1 <= Packs(st1, c1, i) /\ Packs(st1, c1, i) <= n - 2
  <2>1. /\ Packs(st1, c1, i) \in Int /\ Chains(c1, i) = Packs(st1, c1, i) + Cnt(st1, i)
        /\ Counted(lv, st1, c1, i) /\ Cnt(st1, i) \in Nat
    <3>1. Sound(lv, L, st1, c1) /\ i \in 1 .. L /\ L \in Nat
      BY <1>2, <1>5
    <3>2. SoundAt(lv, st1, c1, i)
      BY <3>1, SoundIsSoundAt
    <3> QED  BY <3>2 DEF SoundAt
  <2>2. Packs(st, c, i) \in Int /\ 0 <= Packs(st, c, i)
    BY <1>1, <1>2, TypesOfSound DEF Counted
  <2>3. Packs(st1, c1, i) < Cnt(st1, i) /\ Chains(c1, i) <= (2 * n) - 2
    BY <2>1 DEF Counted, n
  <2> QED  BY <1>3, <1>5, <2>1, <2>2, <2>3
<1> DEFINE p == Packs(st1, c1, i)
<1>12. \/ Chains(c1, j) = 2 * p
       \/ j = 1 /\ Chains(c1, 1) = n /\ Cnt(st1, 1) = n /\ n <= 2 * p
  <2>1. Packs(st, c, i) \in Int
    BY <1>1, <1>2, TypesOfSound
  <2>2. CASE Chains(c, i - 1) = (2 * Packs(st, c, i)) + 2
    BY <1>5, <1>9, <2>1, <2>2
  <2>3. CASE i = 2 /\ Cnt(st, 1) = n /\ n <= (2 * Packs(st, c, 2)) + 2
    <3>1. j = 1 /\ Cnt(st1, 1) = n /\ n <= 2 * p
      BY <1>3, <1>5, <1>9, <2>1, <2>3
    <3>2. Chains(c1, 1) = Packs(st1, c1, 1) + Cnt(st1, 1) /\ Counted(lv, st1, c1, 1)
      BY <1>2, <1>5, <3>1, TypesOfSound
    <3> QED  BY <1>3, <3>1, <3>2 DEF Counted
  <2> QED  BY <1>4, <2>2, <2>3 DEF Fed, n
<1> HIDE DEF c1, p
<1>13. st1 \in States(L) /\ c1 \in Counts(L) /\ Chains(c1, j) \in Int /\ p \in Int
       /\ 1 <= p /\ p <= n - 2
  BY <1>2, <1>5, <1>11, TypesOfSound DEF p
<1>14. Ready(lv, L, st1, c1, j)
  <2>1. Chains(c1, j) + 1 <= (2 * n) - 2
    BY <1>3, <1>12, <1>13
  <2> QED  BY <1>5, <1>8, <2>1 DEF Ready, n
<1>15. PICK c2 \in Counts(L) : Ran(lv, L, st1, c1, j, st2, c2)
  BY <1>13, <1>14 DEF RunsWell
<1> HIDE DEF st2
<1>16. /\ Sound(lv, L, st2, c2) /\ FedUpTo(lv, st2, c2, j)
       /\ \A k \in j + 1 .. L : Chains(c2, k) = Chains(c1, k) /\ Cnt(st2, k) = Cnt(st1, k)
       /\ \/ Chains(c2, j) = Chains(c1, j) + 1
          \/ j = 1 /\ Cnt(st2, 1) = n /\ Chains(c2, 1) = Chains(c1, 1)
  BY <1>15 DEF Ran, n
<1>17. st2 \in States(L) /\ Chains(c2, j) \in Int /\ Cnt(st2, j) \in Nat /\ Cnt(st2, j) <= n
       /\ Counted(lv, st2, c2, j) /\ Chains(c2, j) = Packs(st2, c2, j) + Cnt(st2, j)
       /\ Packs(st2, c2, j) \in Int
  BY <1>2, <1>16, TypesOfSound DEF n
<1>18. \/ Chains(c2, j) = (2 * p) + 1
       \/ j = 1 /\ Chains(c2, 1) = n /\ n <= 2 * p
  <2>1. j = 1 => Chains(c2, 1) = Cnt(st2, 1) /\ Cnt(st2, 1) <= n
    BY <1>17 DEF Counted
  <2> QED  BY <1>3, <1>12, <1>13, <1>16, <1>17, <2>1
<1>19. Ready(lv, L, st2, c2, j)
  <2>1. Chains(c2, j) + 1 <= (2 * n) - 2
    BY <1>3, <1>13, <1>17, <1>18
  <2> QED  BY <1>16, <2>1 DEF Ready, n
<1>20. PICK c3 \in Counts(L) : Ran(lv, L, st2, c2, j, st3, c3)
  BY <1>17, <1>19 DEF RunsWell
<1> HIDE DEF st3
<1>21. /\ Sound(lv, L, st3, c3) /\ FedUpTo(lv, st3, c3, j)
       /\ \A k \in j + 1 .. L : Chains(c3, k) = Chains(c2, k) /\ Cnt(st3, k) = Cnt(st2, k)
       /\ \/ Chains(c3, j) = Chains(c2, j) + 1
          \/ j = 1 /\ Cnt(st3, 1) = n /\ Chains(c3, 1) = Chains(c2, 1)
  BY <1>20 DEF Ran, n
<1>22. Chains(c3, j) \in Int /\ Cnt(st3, j) \in Nat /\ Cnt(st3, j) <= n
       /\ Counted(lv, st3, c3, j) /\ Chains(c3, j) = Packs(st3, c3, j) + Cnt(st3, j)
       /\ Packs(st3, c3, j) \in Int
  BY <1>2, <1>21, TypesOfSound DEF n
<1>23. \/ Chains(c3, j) = (2 * p) + 2
       \/ j = 1 /\ Cnt(st3, 1) = n /\ n <= (2 * p) + 2
  <2>1. j = 1 => Chains(c3, 1) = Cnt(st3, 1) /\ Cnt(st3, 1) <= n
    BY <1>22 DEF Counted
  <2> QED  BY <1>3, <1>13, <1>17, <1>18, <1>21, <1>22, <2>1
<1>24. Chains(c3, i) = Chains(c, i) + 1 /\ Cnt(st3, i) = Cnt(st1, i) /\ Chains(c3, i) = Chains(c1, i)
  BY <1>2, <1>10, <1>16, <1>21
<1>25. Packs(st3, c3, i) = p
  BY <1>24 DEF Packs, p
<1>26. Fed(lv, st3, c3, i)
  BY <1>2, <1>23, <1>25 DEF Fed, n
<1>27. FedUpTo(lv, st3, c3, i)
  <2>1. \A k \in 2 .. i : k \in 2 .. j \/ k = i
    OBVIOUS
  <2> QED  BY <1>21, <1>26, <2>1 DEF FedUpTo
<1>28. \A k \in i + 1 .. L : Chains(c3, k) = Chains(c, k) /\ Cnt(st3, k) = Cnt(st, k)
  BY <1>2, <1>9, <1>16, <1>21
<1>29. Ran(lv, L, st, c, i, st3, c3)
  BY <1>21, <1>24, <1>27, <1>28 DEF Ran
<1> QED  BY <1>29 DEF st3, st2, st1

LEMMA EveryRunWell ==
  ASSUME NEW lv \in ManyLeaves, NEW L \in Nat \ {0}
  PROVE  \A i \in 1 .. L : RunsWell(lv, L, i)
<1> DEFINE run == RunsBelow(lv, L)
           m == L - 1
           T == {j \in 0 .. m : RunsWell(lv, L, j + 1)}
<1>1. lv \in Seq(Leaf) /\ Len(lv) \in Nat
  BY LeavesAre
<1>2. /\ run[1] = FirstRun(lv, L)
      /\ \A i \in 2 .. L : run[i] = NextRun(lv, L, i, run[i - 1])
  BY <1>1, RunsAre
<1> HIDE DEF run
<1>3. RunsWell(lv, L, 1)
  <2> SUFFICES ASSUME NEW st \in States(L), NEW c \in Counts(L), Ready(lv, L, st, c, 1)
               PROVE  \E d \in Counts(L) : Ran(lv, L, st, c, 1, run[1][st], d)
    BY DEF RunsWell, run
  <2>1. 1 \in 1 .. L
    OBVIOUS
  <2>2. Cnt(st, 1) \in Nat /\ Cnt(st, 1) <= Len(lv)
    BY <2>1, TypesOfSound DEF Ready
  <2>3. CASE Cnt(st, 1) >= Len(lv)
    <3>1. run[1][st] = st
      BY <1>2, <2>3 DEF FirstRun
    <3>2. Cnt(st, 1) = Len(lv)
      BY <1>1, <2>2, <2>3
    <3>3. Ran(lv, L, st, c, 1, st, c)
      BY <3>2 DEF Ran, Ready
    <3> QED  BY <3>1, <3>3
  <2>4. CASE ~ (Cnt(st, 1) >= Len(lv))
    <3>1. run[1][st] = NewChain(st, 1, WithLeaf(lv, st.lists[1][2]))
      BY <1>2, <2>4 DEF FirstRun
    <3>2. Cnt(st, 1) < Len(lv)
      BY <1>1, <2>2, <2>4
    <3>3. Ran(lv, L, st, c, 1, run[1][st], OneMore(L, c, 1))
      BY <2>1, <3>1, <3>2, LeafRuns
    <3> QED  BY <2>1, <3>3, OneMoreIs
  <2> QED  BY <2>3, <2>4
<1>4. ASSUME NEW i \in 2 .. L, RunsWell(lv, L, i - 1) PROVE RunsWell(lv, L, i)
  <2> SUFFICES ASSUME NEW st \in States(L), NEW c \in Counts(L), Ready(lv, L, st, c, i)
               PROVE  \E d \in Counts(L) : Ran(lv, L, st, c, i, run[i][st], d)
    BY DEF RunsWell, run
  <2>1. i \in 1 .. L
    OBVIOUS
  <2>2. run[i] = NextRun(lv, L, i, run[i - 1])
    BY <1>2
  <2>3. CASE TakesLeaf(lv, st.lists, i)
    <3>1. run[i][st] = NewChain(st, i, WithLeaf(lv, st.lists[i][2]))
      BY <2>2, <2>3 DEF NextRun
    <3>2. /\ Cnt(st, i) < Len(lv)
          /\ Lo(st, i - 1) + Hi(st, i - 1) > lv[Cnt(st, i) + 1].weight
      BY <2>3, TakesLeafIs
    <3>3. Ran(lv, L, st, c, i, run[i][st], OneMore(L, c, i))
      BY <2>1, <3>1, <3>2, LeafRuns
    <3> QED  BY <2>1, <3>3, OneMoreIs
  <2>4. CASE ~ TakesLeaf(lv, st.lists, i)
    <3>1. run[i][st] = run[i - 1][run[i - 1][NewChain(st, i, WithPackage(st.lists, i))]]
      BY <2>2, <2>4 DEF NextRun
    <3>2. \E d \in Counts(L) :
             Ran(lv, L, st, c, i,
                 run[i - 1][run[i - 1][NewChain(st, i, WithPackage(st.lists, i))]], d)
      BY <1>4, <2>4, PackageRuns DEF run
    <3> QED  BY <3>1, <3>2
  <2> QED  BY <2>3, <2>4
<1>5. m \in Nat
  OBVIOUS
<1>6. 0 \in T
  BY <1>3, <1>5
<1>7. ASSUME NEW j \in 0 .. m - 1, j \in T PROVE j + 1 \in T
  <2>1. j + 1 \in 0 .. m /\ (j + 1) + 1 \in 2 .. L /\ ((j + 1) + 1) - 1 = j + 1
    OBVIOUS
  <2>2. RunsWell(lv, L, j + 1)
    BY <1>7
  <2>3. RunsWell(lv, L, (j + 1) + 1)
    BY <1>4, <2>1, <2>2
  <2> QED  BY <2>1, <2>3
<1> HIDE DEF T
<1>8. \A j \in 0 .. m : j \in T
  <2> HIDE DEF m
  <2> QED  BY <1>5, <1>6, <1>7, UpTo
<1> SUFFICES ASSUME NEW i \in 1 .. L PROVE RunsWell(lv, L, i)
  OBVIOUS
<1>9. i - 1 \in 0 .. m /\ (i - 1) + 1 = i
  OBVIOUS
<1> QED  BY <1>8, <1>9 DEF T

-----------------------------------------------------------------------------
(* No list has more than 2n - 2 chains, so all of them fit.                  *)
LEMMA PoolFits ==
  ASSUME NEW lv \in ManyLeaves, NEW L \in Nat \ {0}, NEW st, NEW c, Sound(lv, L, st, c)
  PROVE  st.used + 1 <= NodesFor(L, Len(lv)) /\ st.used \in Nat
<1> DEFINE n == Len(lv)
           w == (2 * n) - 4
           T == {k \in 0 .. L : c[k] <= k * w}
<1>1. n \in Nat /\ n >= 3
  BY LeavesAre
<1>2. /\ c \in [0 .. L -> Nat] /\ c[0] = 0 /\ st.used = c[L] + 2
      /\ \A k \in 1 .. L : Chains(c, k) <= (2 * n) - 2
  BY DEF Sound, Counts, Counted
<1> HIDE DEF n
<1>3. w \in Nat /\ w >= 2 /\ w = (2 * n) - 4
  BY <1>1
<1> HIDE DEF w
<1>4. 0 \in T
  BY <1>2, <1>3
<1>5. ASSUME NEW k \in 0 .. L - 1, k \in T PROVE k + 1 \in T
  <2>1. k + 1 \in 1 .. L /\ k + 1 \in 0 .. L /\ (k + 1) - 1 = k /\ k \in Nat
    OBVIOUS
  <2>2. Chains(c, k + 1) <= (2 * n) - 2
    BY <1>2, <2>1
  <2>3. c[k + 1] \in Nat /\ c[k] \in Nat /\ c[k] <= k * w
    BY <1>2, <1>5, <2>1
  <2>4. c[k + 1] <= c[k] + w
    BY <1>1, <1>3, <2>1, <2>2, <2>3 DEF Chains
  <2>5. (k + 1) * w = (k * w) + w /\ k * w \in Nat
    BY <1>3, <2>1
  <2>6. c[k + 1] <= (k + 1) * w
    BY <1>3, <2>3, <2>4, <2>5
  <2> QED  BY <2>1, <2>6
<1> HIDE DEF T
<1>6. \A k \in 0 .. L : k \in T
  BY <1>4, <1>5, UpTo
<1>7. c[L] <= L * w /\ c[L] \in Nat
  <2>1. L \in 0 .. L
    OBVIOUS
  <2> QED  BY <1>2, <1>6, <2>1 DEF T
<1>8. L * w = (2 * L * n) - (4 * L) /\ 2 * L * n \in Nat /\ L * w \in Nat
  BY <1>1, <1>3
<1> QED  BY <1>2, <1>7, <1>8 DEF NodesFor, n

LEMMA LimitIs ==
  ASSUME NEW b \in 1 .. 15, NEW n \in Nat, n >= 3
  PROVE  Limit(b, n) \in Nat \ {0}
BY DEF Limit, Smallest

(* The lists begin with the two lightest leaves.                             *)
LEMMA BeginningIsSound ==
  ASSUME NEW lv \in ManyLeaves, NEW b \in 1 .. 15
  PROVE  LET L == Limit(b, Len(lv))
         IN  \E c \in Counts(L) : /\ Sound(lv, L, InitLists(lv, b), c)
                                  /\ FedUpTo(lv, InitLists(lv, b), c, L)
                                  /\ Chains(c, L) = 2
<1> DEFINE n == Len(lv)
           L == Limit(b, n)
           st == InitLists(lv, b)
           c == [k \in 0 .. L |-> 0]
           first == [weight |-> lv[1].weight, counts |-> <<1>>]
           second == [weight |-> lv[2].weight, counts |-> <<2>>]
<1>1. /\ n \in Nat /\ n >= 3 /\ \A k \in 1 .. n : lv[k].weight \in Nat \ {0}
      /\ \A j, k \in 1 .. n : j <= k => lv[j].weight <= lv[k].weight
  BY LeavesAre
<1> HIDE DEF n
<1>2. L \in Nat \ {0}
  BY <1>1, LimitIs
<1> HIDE DEF L
<1>3. /\ lv[1].weight \in Nat \ {0} /\ lv[2].weight \in Nat \ {0}
      /\ lv[1].weight <= lv[2].weight /\ lv[2].weight <= lv[3].weight
  BY <1>1
<1>4. first \in Chain /\ second \in Chain
  BY <1>3 DEF Chain
<1>5. first.weight = lv[1].weight /\ second.weight = lv[2].weight /\ Head(second.counts) = 2
  OBVIOUS
<1>6. st = [used |-> 2, lists |-> [k \in 1 .. L |-> <<first, second>>]]
  BY DEF InitLists, L, n
<1> HIDE DEF first, second
<1>7. st \in States(L) /\ st.used = 2 /\ \A k \in 1 .. L : st.lists[k] = <<first, second>>
  BY <1>4, <1>6 DEF States
<1> HIDE DEF st
<1>8. \A k \in 1 .. L : /\ Lo(st, k) = lv[1].weight /\ Hi(st, k) = lv[2].weight
                        /\ Cnt(st, k) = 2
  BY <1>5, <1>7 DEF Lo, Hi, Cnt
<1>9. /\ c \in Counts(L) /\ c[L] = 0 /\ \A k \in 1 .. L : Chains(c, k) = 2
  <2>1. L \in 0 .. L /\ 0 \in 0 .. L /\ \A k \in 1 .. L : k \in 0 .. L /\ k - 1 \in 0 .. L
    BY <1>2
  <2>2. \A k \in 0 .. L : c[k] = 0
    OBVIOUS
  <2>3. c \in [0 .. L -> Nat]
    OBVIOUS
  <2> HIDE DEF c
  <2> QED  BY <2>1, <2>2, <2>3 DEF Counts, Chains
<1> HIDE DEF c
<1>10. ASSUME NEW k \in 1 .. L PROVE Weighed(lv, st, k) /\ Counted(lv, st, c, k)
  <2>1. /\ Lo(st, k) = lv[1].weight /\ Hi(st, k) = lv[2].weight /\ Cnt(st, k) = 2
        /\ Chains(c, k) = 2
    BY <1>8, <1>9
  <2>2. k > 1 => Lo(st, k - 1) = lv[1].weight /\ Hi(st, k - 1) = lv[2].weight
    <3>1. k > 1 => k - 1 \in 1 .. L
      BY <1>2
    <3> QED  BY <1>8, <3>1
  <2>3. Weighed(lv, st, k)
    BY <1>1, <1>3, <2>1, <2>2 DEF Weighed, n
  <2>4. Packs(st, c, k) = 0
    BY <2>1 DEF Packs
  <2> QED  BY <1>1, <2>1, <2>3, <2>4 DEF Counted, n
<1>11. FedUpTo(lv, st, c, L)
  <2> SUFFICES ASSUME NEW k \in 2 .. L PROVE Fed(lv, st, c, k)
    BY DEF FedUpTo
  <2>1. k \in 1 .. L /\ k - 1 \in 1 .. L
    BY <1>2
  <2>2. Cnt(st, k) = 2 /\ Chains(c, k) = 2 /\ Chains(c, k - 1) = 2
    BY <1>8, <1>9, <2>1
  <2> QED  BY <2>2 DEF Fed, Packs
<1>12. Sound(lv, L, st, c)
  BY <1>7, <1>9, <1>10 DEF Sound
<1>13. Chains(c, L) = 2
  <2>1. L \in 1 .. L
    BY <1>2
  <2> QED  BY <1>9, <2>1
<1> QED  BY <1>9, <1>11, <1>12, <1>13 DEF st, L, n

-----------------------------------------------------------------------------
(* While the lists are merged there is a count of chains for which they are  *)
(* sound, and the last list will not be asked for more than it may have.     *)
Merging ==
  LET L == Limit(task[2], Len(leaves))
  IN  /\ leaves \in ManyLeaves /\ L \in Nat \ {0} /\ Len(pm.lists) = L
      /\ runs \in Nat
      /\ \E c \in Counts(L) : /\ Sound(leaves, L, pm, c) /\ FedUpTo(leaves, pm, c, L)
                              /\ Chains(c, L) + runs <= (2 * Len(leaves)) - 2

NodesInv ==
  /\ task \in Tasks
  /\ stage = "asked" => leaves = << >> /\ pm = NoLists
  /\ stage = "merging" => Merging
  /\ stage = "given" => NodesInPool

LEMMA ListsOf == ASSUME NEW L \in Nat, NEW st \in States(L) PROVE Len(st.lists) = L
<1>1. st.lists \in [1 .. L -> Chain \X Chain]
  BY DEF States
<1>2. st.lists \in Seq(Chain \X Chain)
  BY <1>1
<1> QED  BY <1>1, <1>2

LEMMA MergingFits == Merging => pm.used + 1 <= NodesFor(Limit(task[2], Len(leaves)), Len(leaves))
                               /\ pm.used \in Nat
BY PoolFits DEF Merging

LEMMA StartMergingKeeps == NodesInv /\ StartMerging => NodesInv'
<1> SUFFICES ASSUME NodesInv, StartMerging PROVE NodesInv'
  OBVIOUS
<1> DEFINE lv == SortLeaves(task[1])
           b == task[2]
           L == Limit(b, Len(lv))
<1>1. task \in Tasks /\ task' = task /\ stage' = "merging"
      /\ leaves' = lv /\ pm' = InitLists(lv, b) /\ runs' = RunsFor(Len(lv)) /\ Len(lv) > 2
  BY DEF NodesInv, StartMerging
<1>2. b \in 1 .. 15 /\ lv \in SortedLeaves
  BY <1>1, TasksAssumption, SortLeavesIs
<1> HIDE DEF lv, b
<1>3. lv \in ManyLeaves /\ Len(lv) \in Nat /\ Len(lv) >= 3
  BY <1>1, <1>2 DEF ManyLeaves, SortedLeaves
<1>4. L \in Nat \ {0}
  BY <1>2, <1>3, LimitIs
<1>5. PICK c \in Counts(L) : /\ Sound(lv, L, InitLists(lv, b), c)
                             /\ FedUpTo(lv, InitLists(lv, b), c, L)
                             /\ Chains(c, L) = 2
  BY <1>2, <1>3, BeginningIsSound
<1> HIDE DEF L
<1>6. Len(InitLists(lv, b).lists) = L
  BY <1>4, <1>5, ListsOf DEF Sound
<1>7. RunsFor(Len(lv)) \in Nat /\ 2 + RunsFor(Len(lv)) <= (2 * Len(lv)) - 2
  BY <1>3 DEF RunsFor
<1>8. Limit(task'[2], Len(leaves')) = L
  BY <1>1 DEF L, b
<1>9. Merging'
  BY <1>1, <1>3, <1>4, <1>5, <1>6, <1>7, <1>8 DEF Merging
<1> QED  BY <1>1, <1>9 DEF NodesInv

LEMMA MergeRunKeeps == NodesInv /\ MergeRun => NodesInv'
<1> SUFFICES ASSUME NodesInv, MergeRun PROVE NodesInv'
  OBVIOUS
<1> DEFINE L == Limit(task[2], Len(leaves))
<1>1. /\ task \in Tasks /\ Merging /\ stage = "merging" /\ runs > 1
      /\ pm' = BoundaryPM(leaves, pm) /\ runs' = runs - 1
      /\ UNCHANGED <<task, stage, leaves, lengths>>
  BY DEF NodesInv, MergeRun
<1>2. /\ leaves \in ManyLeaves /\ L \in Nat \ {0} /\ Len(pm.lists) = L /\ runs \in Nat
      /\ \E c \in Counts(L) : /\ Sound(leaves, L, pm, c) /\ FedUpTo(leaves, pm, c, L)
                              /\ Chains(c, L) + runs <= (2 * Len(leaves)) - 2
  BY <1>1 DEF Merging
<1> HIDE DEF L
<1>3. PICK c \in Counts(L) : /\ Sound(leaves, L, pm, c) /\ FedUpTo(leaves, pm, c, L)
                             /\ Chains(c, L) + runs <= (2 * Len(leaves)) - 2
  BY <1>2
<1>4. L \in 1 .. L /\ Len(leaves) \in Nat
  BY <1>2, LeavesAre
<1>5. Chains(c, L) \in Int /\ pm \in States(L)
  BY <1>2, <1>3, <1>4, TypesOfSound
<1>6. Ready(leaves, L, pm, c, L)
  BY <1>1, <1>2, <1>3, <1>4, <1>5 DEF Ready
<1>7. RunsWell(leaves, L, L)
  BY <1>2, <1>4, EveryRunWell
<1>8. PICK d \in Counts(L) : Ran(leaves, L, pm, c, L, pm', d)
  <2>1. pm' = RunsBelow(leaves, L)[L][pm]
    BY <1>1, <1>2 DEF BoundaryPM
  <2> QED  BY <1>5, <1>6, <1>7, <2>1 DEF RunsWell
<1>9. /\ Sound(leaves, L, pm', d) /\ FedUpTo(leaves, pm', d, L)
      /\ Chains(d, L) = Chains(c, L) + 1 \/ Chains(d, L) = Chains(c, L)
  BY <1>8 DEF Ran
<1>10. Chains(d, L) + (runs - 1) <= (2 * Len(leaves)) - 2
  BY <1>2, <1>3, <1>4, <1>5, <1>9
<1>11. Len(pm'.lists) = L
  BY <1>2, <1>9, ListsOf DEF Sound
<1>12. runs - 1 \in Nat
  BY <1>1, <1>2
<1>13. Limit(task'[2], Len(leaves')) = L /\ leaves' = leaves /\ runs' = runs - 1
  BY <1>1 DEF L
<1>14. Merging'
  BY <1>2, <1>9, <1>10, <1>11, <1>12, <1>13 DEF Merging
<1> QED  BY <1>1, <1>14 DEF NodesInv

LEMMA FinalRunKeeps == NodesInv /\ FinalRun => NodesInv'
<1> SUFFICES ASSUME NodesInv, FinalRun PROVE NodesInv'
  OBVIOUS
<1>1. /\ task \in Tasks /\ Merging /\ stage' = "given" /\ pm' = BoundaryPMFinal(leaves, pm)
      /\ task' = task /\ leaves' = leaves
  BY DEF NodesInv, FinalRun
<1> DEFINE L == Limit(task[2], Len(leaves))
<1>2. pm.used + 1 <= NodesFor(L, Len(leaves)) /\ pm.used \in Nat
  BY <1>1, MergingFits
<1>3. pm \in States(L) /\ leaves \in ManyLeaves /\ L \in Nat \ {0}
  BY <1>1 DEF Merging, Sound
<1>4. NodesFor(L, Len(leaves)) \in Int
  <2>1. Len(leaves) \in Nat
    BY <1>3, LeavesAre
  <2> QED  BY <1>3, <2>1 DEF NodesFor
<1>5. pm'.used = pm.used + 1 \/ pm'.used = pm.used
  BY <1>1, <1>3 DEF BoundaryPMFinal, States
<1>6. pm'.used <= NodesFor(L, Len(leaves))
  BY <1>2, <1>4, <1>5
<1>7. NodesInPool'
  BY <1>1, <1>6 DEF NodesInPool
<1> QED  BY <1>1, <1>7 DEF NodesInv

LEMMA FewSymbolsKeeps == NodesInv /\ FewSymbols => NodesInv'
<1> SUFFICES ASSUME NodesInv, FewSymbols PROVE NodesInv'
  OBVIOUS
<1>1. /\ task \in Tasks /\ leaves = << >> /\ pm = NoLists /\ stage' = "given"
      /\ task' = task /\ leaves' = leaves /\ pm' = pm
  BY DEF NodesInv, FewSymbols
<1>2. task[2] \in 1 .. 15
  BY <1>1, TasksAssumption
<1>3. Len(<< >>) = 0 /\ NoLists.used = 0
  BY DEF NoLists
<1>4. Limit(task[2], 0) = -1
  BY <1>2 DEF Limit, Smallest
<1>5. NodesFor(-1, 0) = 0
  BY DEF NodesFor
<1>6. pm'.used = 0 /\ NodesFor(Limit(task[2], Len(leaves)), Len(leaves)) = 0
  BY <1>1, <1>3, <1>4, <1>5
<1>7. NodesInPool'
  BY <1>1, <1>6 DEF NodesInPool
<1> QED  BY <1>1, <1>7 DEF NodesInv

(* ZopfliLengthLimitedCodeLengthsScratch (katajainen.c:284-305): the pool    *)
(* that is sized as 2 * maxbits * numsymbols holds every chain that is made, *)
(* and the one of the last run, for all frequencies and limits.              *)
THEOREM PoolIsLargeEnough == LengthsSpec => []NodesInPool
<1>1. InitLengths => NodesInv
  BY DEF InitLengths, NodesInv
<1>2. NodesInv /\ [LengthsNext]_pmVars => NodesInv'
  <2> SUFFICES ASSUME NodesInv, [LengthsNext]_pmVars PROVE NodesInv'
    OBVIOUS
  <2>1. CASE Refuse
    BY <2>1 DEF Refuse, NodesInv
  <2>2. CASE FewSymbols
    BY <2>2, FewSymbolsKeeps
  <2>3. CASE StartMerging
    BY <2>3, StartMergingKeeps
  <2>4. CASE MergeRun
    BY <2>4, MergeRunKeeps
  <2>5. CASE FinalRun
    BY <2>5, FinalRunKeeps
  <2>6. CASE UNCHANGED pmVars
    BY <2>6 DEF pmVars, NodesInv, Merging, NodesInPool
  <2> QED  BY <2>1, <2>2, <2>3, <2>4, <2>5, <2>6 DEF LengthsNext
<1>3. NodesInv => NodesInPool
  <2> SUFFICES ASSUME NodesInv, stage = "merging" PROVE NodesInPool
    BY DEF NodesInv, NodesInPool
  <2>1. Merging
    BY DEF NodesInv
  <2>2. /\ pm.used + 1 <= NodesFor(Limit(task[2], Len(leaves)), Len(leaves))
        /\ pm.used \in Nat
    BY <2>1, MergingFits
  <2>3. Limit(task[2], Len(leaves)) \in Nat /\ Len(leaves) \in Nat
    BY <2>1, LeavesAre DEF Merging
  <2>4. NodesFor(Limit(task[2], Len(leaves)), Len(leaves)) \in Int
    BY <2>3 DEF NodesFor
  <2> QED  BY <2>2, <2>4 DEF NodesInPool
<1> QED  BY <1>1, <1>2, <1>3, PTL DEF LengthsSpec

-----------------------------------------------------------------------------
(* Functions that go by halves: over the pairs of numbers from a to b.       *)
Pairs(a, b) == (a .. b) \X (a .. b)

LEMMA HalvesAre ==
  ASSUME NEW a \in Int, NEW b \in Int, NEW x \in Pairs(a, b), x[1] < x[2]
  PROVE  /\ LeftHalf(x) \in Pairs(a, b) /\ RightHalf(x) \in Pairs(a, b)
         /\ LeftHalf(x)[1] = x[1] /\ LeftHalf(x)[2] = Middle(x)
         /\ RightHalf(x)[1] = Middle(x) + 1 /\ RightHalf(x)[2] = x[2]
         /\ Middle(x) \in Int /\ x[1] <= Middle(x) /\ Middle(x) < x[2]
<1>1. x[1] \in a .. b /\ x[2] \in a .. b
  BY DEF Pairs
<1>2. x[1] \in Int /\ x[2] \in Int
  BY <1>1
<1>3. Middle(x) \in Int /\ x[1] <= Middle(x) /\ Middle(x) < x[2]
  BY <1>2 DEF Middle
<1>4. Middle(x) \in a .. b /\ Middle(x) + 1 \in a .. b
  BY <1>1, <1>3
<1> QED  BY <1>1, <1>3, <1>4 DEF Pairs, LeftHalf, RightHalf

(* Whatever holds of single ones, and of a pair if it does of its halves.    *)
LEMMA ByHalves ==
  ASSUME NEW a \in Int, NEW b \in Int, NEW Q,
         \A x \in Pairs(a, b) : x[1] >= x[2] => x \in Q,
         \A x \in Pairs(a, b) :
           x[1] < x[2] /\ LeftHalf(x) \in Q /\ RightHalf(x) \in Q => x \in Q
  PROVE  \A x \in Pairs(a, b) : x \in Q
<1> DEFINE T == {n \in Nat : \A x \in Pairs(a, b) : x[2] - x[1] <= n => x \in Q}
<1>0. \A x \in Pairs(a, b) : x[1] \in Int /\ x[2] \in Int /\ x[1] \in a .. b /\ x[2] \in a .. b
  BY DEF Pairs
<1>1. 0 \in T
  BY <1>0
<1>2. ASSUME NEW n \in Nat, n \in T PROVE n + 1 \in T
  <2> SUFFICES ASSUME NEW x \in Pairs(a, b), x[2] - x[1] <= n + 1 PROVE x \in Q
    OBVIOUS
  <2>1. CASE x[1] >= x[2]
    BY <2>1
  <2>2. CASE x[1] < x[2]
    <3>1. /\ LeftHalf(x) \in Pairs(a, b) /\ RightHalf(x) \in Pairs(a, b)
          /\ LeftHalf(x)[1] = x[1] /\ LeftHalf(x)[2] = Middle(x)
          /\ RightHalf(x)[1] = Middle(x) + 1 /\ RightHalf(x)[2] = x[2]
          /\ Middle(x) \in Int /\ x[1] <= Middle(x) /\ Middle(x) < x[2]
      BY <2>2, HalvesAre
    <3>2. LeftHalf(x)[2] - LeftHalf(x)[1] <= n /\ RightHalf(x)[2] - RightHalf(x)[1] <= n
      BY <3>1, <1>0
    <3>3. LeftHalf(x) \in Q /\ RightHalf(x) \in Q
      BY <1>2, <3>1, <3>2
    <3> QED  BY <2>2, <3>3
  <2>3. x[1] \in Int /\ x[2] \in Int
    BY <1>0
  <2> QED  BY <2>1, <2>2, <2>3
<1> HIDE DEF T
<1>3. ASSUME NEW x \in Pairs(a, b) PROVE x \in Q
  <2>1. x[1] \in a .. b /\ x[2] \in a .. b
    BY <1>0
  <2>2. b - a \in Nat
    BY <2>1
  <2>3. \A n \in 0 .. (b - a) - 1 : n \in T => n + 1 \in T
    BY <1>2, <2>2
  <2>4. \A n \in 0 .. b - a : n \in T
    BY <1>1, <2>2, <2>3, UpTo
  <2>5. b - a \in T
    BY <2>2, <2>4
  <2> QED  BY <2>1, <2>5 DEF T
<1> QED  BY <1>3

Halving(h, a, b, leaf, comb) ==
  h = [x \in Pairs(a, b) |-> IF x[1] >= x[2] THEN leaf[x[1]]
                             ELSE comb[<<h[LeftHalf(x)], h[RightHalf(x)]>>]]

LEMMA HalvesExist ==
  ASSUME NEW a \in Int, NEW b \in Int, NEW S, NEW leaf, \A k \in a .. b : leaf[k] \in S,
         NEW comb, \A p \in S \X S : comb[p] \in S
  PROVE  \E h : Halving(h, a, b, leaf, comb)
<1> DEFINE X == Pairs(a, b)
           base == [x \in X |-> leaf[x[1]]]
           Next1(g) == [x \in X |-> IF x[1] >= x[2] THEN leaf[x[1]]
                                    ELSE comb[<<g[LeftHalf(x)], g[RightHalf(x)]>>]]
           go == [z \in Nat \X [X -> S] |-> Next1(z[2])]
           m == IF a <= b THEN b - a + 1 ELSE 1
           P == [n \in 0 .. m |-> [X -> S]]
<1>0. \A x \in X : x[1] \in a .. b /\ x[2] \in a .. b /\ x[1] \in Int /\ x[2] \in Int
  BY DEF Pairs
<1>m. m \in Nat \ {0}
  OBVIOUS
<1>1. base \in [X -> S]
  BY <1>0
<1>2. ASSUME NEW g \in [X -> S] PROVE Next1(g) \in [X -> S]
  <2>1. ASSUME NEW x \in X, x[1] < x[2]
        PROVE comb[<<g[LeftHalf(x)], g[RightHalf(x)]>>] \in S
    <3>1. LeftHalf(x) \in X /\ RightHalf(x) \in X
      BY <2>1, HalvesAre
    <3> QED  BY <3>1
  <2> QED  BY <1>0, <2>1
<1>3. \A n \in Nat, g \in [X -> S] : go[<<n, g>>] = Next1(g)
  OBVIOUS
<1> HIDE DEF go, base
<1>4. Leads(go, P, m)
  <2> SUFFICES ASSUME NEW n \in 1 .. m, NEW g \in P[n - 1] PROVE go[<<n, g>>] \in P[n]
    BY DEF Leads
  <2>0. n \in Nat /\ n - 1 \in 0 .. m /\ n \in 0 .. m
    BY <1>m
  <2>1. P[n - 1] = [X -> S] /\ P[n] = [X -> S]
    BY <2>0
  <2>2. g \in [X -> S] 
    BY <2>1
  <2>3. go[<<n, g>>] = Next1(g)
    BY <2>0, <2>2, <1>3
  <2> QED  BY <2>1, <2>2, <2>3, <1>2
<1>5. base \in P[0] /\ m \in Nat
  BY <1>1, <1>m
<1> HIDE DEF P
<1>6. PICK f : StepsWithin(f, base, go, P, m)
  BY <1>4, <1>5, StepsAreThere
<1> HIDE DEF m
<1>7. ASSUME NEW n \in 0 .. m PROVE f[n] \in [X -> S]
  BY <1>6 DEF StepsWithin, P
<1>8. f[0] = base
  BY <1>6, <1>m DEF StepsWithin
<1>9. ASSUME NEW n \in 1 .. m PROVE f[n] = Next1(f[n - 1])
  <2>1. n \in 0 .. m /\ n - 1 \in 0 .. m /\ n # 0 /\ n \in Nat
    BY <1>m
  <2>2. f[n] = go[<<n, f[n - 1]>>]
    BY <1>6, <2>1 DEF StepsWithin
  <2>3. f[n - 1] \in [X -> S]
    BY <2>1, <1>7
  <2> HIDE DEF Next1
  <2> QED  BY <2>1, <2>2, <2>3, <1>3
<1> DEFINE T == {n \in 0 .. m - 1 : \A x \in X : x[2] - x[1] <= n => f[n + 1][x] = f[n][x]}
<1>10. 0 \in T
  <2>1. f[1] = Next1(base)
    <3>1. 1 \in 1 .. m /\ 1 - 1 = 0
      BY <1>m
    <3> HIDE DEF Next1
    <3> QED  BY <3>1, <1>8, <1>9
  <2>2. ASSUME NEW x \in X, x[2] - x[1] <= 0 PROVE f[1][x] = f[0][x]
    <3>1. x[1] >= x[2]
      BY <2>2, <1>0
    <3> QED  BY <3>1, <2>1, <1>8 DEF base
  <2> QED  BY <2>2, <1>m
<1>11. ASSUME NEW n \in 0 .. (m - 1) - 1, n \in T PROVE n + 1 \in T
  <2>1. n + 1 \in 0 .. m - 1 /\ n + 1 \in 1 .. m /\ n + 2 \in 1 .. m /\ n \in Nat
        /\ (n + 1) - 1 = n /\ (n + 2) - 1 = n + 1 /\ (n + 1) + 1 = n + 2
    BY <1>m
  <2>2. f[n + 1] = Next1(f[n]) /\ f[n + 2] = Next1(f[n + 1])
    <3> HIDE DEF Next1
    <3> QED  BY <2>1, <1>9
  <2>3. ASSUME NEW x \in X, x[2] - x[1] <= n + 1 PROVE f[n + 2][x] = f[n + 1][x]
    <3>1. CASE x[1] >= x[2]
      BY <3>1, <2>2
    <3>2. CASE x[1] < x[2]
      <4>1. /\ LeftHalf(x) \in X /\ RightHalf(x) \in X
            /\ LeftHalf(x)[1] = x[1] /\ LeftHalf(x)[2] = Middle(x)
            /\ RightHalf(x)[1] = Middle(x) + 1 /\ RightHalf(x)[2] = x[2]
            /\ Middle(x) \in Int /\ x[1] <= Middle(x) /\ Middle(x) < x[2]
        BY <3>2, HalvesAre
      <4>2. LeftHalf(x)[2] - LeftHalf(x)[1] <= n /\ RightHalf(x)[2] - RightHalf(x)[1] <= n
        BY <4>1, <1>0, <2>1, <2>3
      <4>3. /\ f[n + 1][LeftHalf(x)] = f[n][LeftHalf(x)]
            /\ f[n + 1][RightHalf(x)] = f[n][RightHalf(x)]
        BY <4>1, <4>2, <1>11
      <4>4. ~ (x[1] >= x[2])
        BY <3>2, <1>0
      <4>5. /\ f[n + 2][x] = comb[<<f[n + 1][LeftHalf(x)], f[n + 1][RightHalf(x)]>>]
            /\ f[n + 1][x] = comb[<<f[n][LeftHalf(x)], f[n][RightHalf(x)]>>]
        BY <2>2, <4>4
      <4> QED  BY <4>3, <4>5
    <3> QED  BY <3>1, <3>2, <1>0
  <2> QED  BY <2>1, <2>3
<1> HIDE DEF T
<1>12. m - 1 \in T
  <2>1. m - 1 \in Nat
    BY <1>m
  <2>2. \A n \in 0 .. m - 1 : n \in T
    BY <1>10, <1>11, <2>1, UpTo
  <2> QED  BY <2>1, <2>2
<1>13. f[m] = Next1(f[m - 1])
  <2>1. m \in 1 .. m
    BY <1>m
  <2> HIDE DEF Next1
  <2> QED  BY <2>1, <1>9
<1>14. \A x \in X : f[m][x] = f[m - 1][x]
  <2>1. \A x \in X : x[2] - x[1] <= m - 1
    BY <1>0 DEF m
  <2>2. (m - 1) + 1 = m
    BY <1>m
  <2> QED  BY <1>12, <2>1, <2>2 DEF T
<1>15. f[m] = [x \in X |-> IF x[1] >= x[2] THEN leaf[x[1]]
                           ELSE comb[<<f[m][LeftHalf(x)], f[m][RightHalf(x)]>>]]
  <2>1. ASSUME NEW x \in X, x[1] < x[2]
        PROVE  /\ f[m - 1][LeftHalf(x)] = f[m][LeftHalf(x)]
               /\ f[m - 1][RightHalf(x)] = f[m][RightHalf(x)]
    <3>1. LeftHalf(x) \in X /\ RightHalf(x) \in X
      BY <2>1, HalvesAre
    <3> QED  BY <3>1, <1>14
  <2>2. ASSUME NEW x \in X
        PROVE  f[m][x] = IF x[1] >= x[2] THEN leaf[x[1]]
                         ELSE comb[<<f[m][LeftHalf(x)], f[m][RightHalf(x)]>>]
    <3>1. CASE x[1] >= x[2]
      BY <3>1, <1>13
    <3>2. CASE ~ (x[1] >= x[2])
      <4>1. x[1] < x[2]
        BY <3>2, <1>0
      <4>2. f[m][x] = comb[<<f[m - 1][LeftHalf(x)], f[m - 1][RightHalf(x)]>>]
        BY <3>2, <1>13
      <4> QED  BY <3>2, <4>1, <4>2, <2>1
    <3> QED  BY <3>1, <3>2
  <2>3. f[m] = [x \in X |-> f[m][x]]
    <3>1. m \in 0 .. m
      BY <1>m
    <3> QED  BY <3>1, <1>7
  <2> QED  BY <2>2, <2>3
<1> QED  BY <1>15 DEF Halving

(* What sums and concatenations are.                                         *)
Summing(g, f, a, b) ==
  g = [x \in (a .. b) \X (a .. b) |-> IF x[1] >= x[2] THEN f[x[1]]
                                      ELSE g[LeftHalf(x)] + g[RightHalf(x)]]
NatsFrom(f, a, b) == \A k \in a .. b : f[k] \in Nat
Prefix(pre, f, a, b) ==
  pre[0] = 0 /\ \A n \in 1 .. b - a + 1 : pre[n - 1] \in Nat /\ pre[n] = pre[n - 1] + f[a + n - 1]

LEMMA TotalByPrefix ==
  ASSUME NEW a \in Int, NEW b \in Int, a <= b + 1, NEW f, NatsFrom(f, a, b),
         NEW pre, Prefix(pre, f, a, b)
  PROVE  Total(f, a, b) = pre[b - a + 1]
<1>1. CASE a = b + 1
  <2>1. a > b /\ b - a + 1 = 0
    BY <1>1
  <2> QED  BY <2>1 DEF Total, Prefix
<1>2. CASE a <= b
  <2> DEFINE plus == [p \in Nat \X Nat |-> p[1] + p[2]]
             sum == CHOOSE g : Summing(g, f, a, b)
             Q == {x \in Pairs(a, b) : x[1] <= x[2] => sum[x] \in Nat
                                       /\ pre[x[2] - a + 1] = pre[x[1] - a] + sum[x]}
             NatPre == \A n \in 0 .. b - a + 1 : pre[n] \in Nat
  <2>0. \A x \in Pairs(a, b) : x[1] \in a .. b /\ x[2] \in a .. b /\ x[1] \in Int /\ x[2] \in Int
    BY DEF Pairs
  <2>1. PICK h : Halving(h, a, b, f, plus)
    <3>1. \A k \in a .. b : f[k] \in Nat
      BY DEF NatsFrom
    <3>2. \A p \in Nat \X Nat : plus[p] \in Nat
      OBVIOUS
    <3> HIDE DEF plus
    <3> QED  BY <3>1, <3>2, HalvesExist
  <2>t. ASSUME NEW g, Halving(g, a, b, f, plus) PROVE \A x \in Pairs(a, b) : g[x] \in Nat
    <3> DEFINE G == {x \in Pairs(a, b) : g[x] \in Nat}
    <3>1. \A x \in Pairs(a, b) : x[1] >= x[2] => x \in G
      BY <2>0, <2>t DEF Halving, NatsFrom
    <3>2. \A x \in Pairs(a, b) : x[1] < x[2] /\ LeftHalf(x) \in G /\ RightHalf(x) \in G => x \in G
      <4> SUFFICES ASSUME NEW x \in Pairs(a, b), x[1] < x[2], LeftHalf(x) \in G, RightHalf(x) \in G
                   PROVE  x \in G
        OBVIOUS
      <4>1. ~ (x[1] >= x[2])
        BY <2>0
      <4>2. g[x] = plus[<<g[LeftHalf(x)], g[RightHalf(x)]>>]
        BY <4>1, <2>t DEF Halving
      <4>3. g[LeftHalf(x)] \in Nat /\ g[RightHalf(x)] \in Nat
        OBVIOUS
      <4>4. g[x] = g[LeftHalf(x)] + g[RightHalf(x)]
        BY <4>2, <4>3
      <4> QED  BY <4>3, <4>4
    <3> HIDE DEF G
    <3>3. \A x \in Pairs(a, b) : x \in G
      BY <3>1, <3>2, ByHalves
    <3> QED  BY <3>3 DEF G
  <2>2. Summing(h, f, a, b)
    <3>1. ASSUME NEW x \in Pairs(a, b)
          PROVE  h[x] = IF x[1] >= x[2] THEN f[x[1]] ELSE h[LeftHalf(x)] + h[RightHalf(x)]
      <4>1. CASE x[1] >= x[2]
        BY <4>1, <2>1 DEF Halving
      <4>2. CASE ~ (x[1] >= x[2])
        <5>1. LeftHalf(x) \in Pairs(a, b) /\ RightHalf(x) \in Pairs(a, b)
          BY <4>2, <2>0, HalvesAre
        <5>2. h[LeftHalf(x)] \in Nat /\ h[RightHalf(x)] \in Nat
          BY <5>1, <2>1, <2>t
        <5>3. h[x] = plus[<<h[LeftHalf(x)], h[RightHalf(x)]>>]
          BY <4>2, <2>1 DEF Halving
        <5> QED  BY <4>2, <5>2, <5>3
      <4> QED  BY <4>1, <4>2
    <3>2. h = [x \in Pairs(a, b) |-> h[x]]
      BY <2>1 DEF Halving
    <3> QED  BY <3>1, <3>2 DEF Summing, Pairs
  <2>3. Summing(sum, f, a, b)
    BY <2>2
  <2>4. Total(f, a, b) = sum[<<a, b>>]
    BY <1>2 DEF Total, Summing
  <2> HIDE DEF sum, plus
  <2>5. NatPre
    <3> SUFFICES ASSUME NEW n \in 0 .. b - a + 1 PROVE pre[n] \in Nat
      OBVIOUS
    <3>1. CASE n = 0
      BY <3>1 DEF Prefix
    <3>2. CASE n # 0
      <4>1. n \in 1 .. b - a + 1 /\ a + n - 1 \in a .. b
        BY <3>2
      <4>2. pre[n] = pre[n - 1] + f[a + n - 1] /\ pre[n - 1] \in Nat /\ f[a + n - 1] \in Nat
        BY <4>1 DEF Prefix, NatsFrom
      <4> QED  BY <4>2
    <3> QED  BY <3>1, <3>2
  <2>6. \A x \in Pairs(a, b) : x[1] >= x[2] => x \in Q
    <3> SUFFICES ASSUME NEW x \in Pairs(a, b), x[1] = x[2]
                 PROVE  sum[x] \in Nat /\ pre[x[2] - a + 1] = pre[x[1] - a] + sum[x]
      BY <2>0
    <3>1. sum[x] = f[x[1]]
      BY <2>3, <2>0 DEF Summing, Pairs
    <3>2. PICK k \in Int : k = x[1] /\ k \in a .. b
      BY <2>0
    <3>3. k - a + 1 \in 1 .. b - a + 1 /\ a + (k - a + 1) - 1 = k /\ (k - a + 1) - 1 = k - a
      BY <3>2
    <3>4. pre[k - a + 1] = pre[k - a] + f[k]
      BY <3>3 DEF Prefix
    <3>5. f[k] \in Nat
      BY <3>2 DEF NatsFrom
    <3> QED  BY <3>1, <3>2, <3>4, <3>5
  <2>7. \A x \in Pairs(a, b) : x[1] < x[2] /\ LeftHalf(x) \in Q /\ RightHalf(x) \in Q => x \in Q
    <3> SUFFICES ASSUME NEW x \in Pairs(a, b), x[1] < x[2], LeftHalf(x) \in Q, RightHalf(x) \in Q
                 PROVE  sum[x] \in Nat /\ pre[x[2] - a + 1] = pre[x[1] - a] + sum[x]
      OBVIOUS
    <3>1. /\ LeftHalf(x)[1] = x[1] /\ LeftHalf(x)[2] = Middle(x)
          /\ RightHalf(x)[1] = Middle(x) + 1 /\ RightHalf(x)[2] = x[2]
          /\ Middle(x) \in Int /\ x[1] <= Middle(x) /\ Middle(x) < x[2]
      BY HalvesAre
    <3>2. ~ (x[1] >= x[2])
      BY <2>0
    <3>3. sum[x] = sum[LeftHalf(x)] + sum[RightHalf(x)]
      BY <3>2, <2>3 DEF Summing, Pairs
    <3>4. PICK p \in Int, q \in Int, r \in Int : p = x[1] /\ q = Middle(x) /\ r = x[2]
      BY <2>0, <3>1
    <3>4a. p \in a .. b /\ r \in a .. b /\ p <= q /\ q < r /\ (q + 1) - a = q - a + 1
      BY <3>4, <3>1, <2>0
    <3>5. sum[LeftHalf(x)] \in Nat /\ pre[q - a + 1] = pre[p - a] + sum[LeftHalf(x)]
      BY <3>1, <3>4, <3>4a
    <3>6. sum[RightHalf(x)] \in Nat /\ pre[r - a + 1] = pre[q - a + 1] + sum[RightHalf(x)]
      BY <3>1, <3>4, <3>4a
    <3>7. p - a \in 0 .. b - a + 1
      BY <3>4a
    <3>8. pre[p - a] \in Nat
      BY <3>7, <2>5
    <3> QED  BY <3>3, <3>4, <3>5, <3>6, <3>8
  <2> HIDE DEF Q
  <2>8. \A x \in Pairs(a, b) : x \in Q
    BY <2>6, <2>7, ByHalves
  <2>9. <<a, b>> \in Pairs(a, b)
    BY <1>2 DEF Pairs
  <2>10. sum[<<a, b>>] \in Nat /\ pre[b - a + 1] = pre[a - a] + sum[<<a, b>>]
    BY <1>2, <2>8, <2>9 DEF Q
  <2>11. a - a = 0 /\ pre[0] = 0
    BY DEF Prefix
  <2> QED  BY <2>4, <2>10, <2>11
<1> QED  BY <1>1, <1>2

LEMMA PrefixExists ==
  ASSUME NEW a \in Int, NEW b \in Int, a <= b + 1, NEW f, NatsFrom(f, a, b)
  PROVE  \E pre : Prefix(pre, f, a, b) /\ pre[b - a + 1] \in Nat
<1> DEFINE m == b - a + 1
           P == [n \in 0 .. m |-> Nat]
           go == [z \in Nat \X Nat |-> z[2] + f[a + z[1] - 1]]
<1>1. m \in Nat /\ 0 \in P[0]
  OBVIOUS
<1>2. \A n \in 1 .. m, v \in Nat : go[<<n, v>>] = v + f[a + n - 1] /\ go[<<n, v>>] \in Nat
  <2> SUFFICES ASSUME NEW n \in 1 .. m, NEW v \in Nat
               PROVE  go[<<n, v>>] = v + f[a + n - 1] /\ go[<<n, v>>] \in Nat
    OBVIOUS
  <2>1. a + n - 1 \in a .. b /\ n \in Nat
    OBVIOUS
  <2>2. f[a + n - 1] \in Nat
    BY <2>1 DEF NatsFrom
  <2> QED  BY <2>1, <2>2
<1>3a. \A n \in 0 .. m : P[n] = Nat
  OBVIOUS
<1> HIDE DEF P, go
<1>3. Leads(go, P, m)
  <2> SUFFICES ASSUME NEW n \in 1 .. m, NEW v \in P[n - 1] PROVE go[<<n, v>>] \in P[n]
    BY DEF Leads
  <2>1. n - 1 \in 0 .. m /\ n \in 0 .. m
    BY <1>1
  <2>2. P[n - 1] = Nat /\ P[n] = Nat
    BY <2>1, <1>3a
  <2> QED  BY <2>2, <1>2
<1>4. PICK pre : StepsWithin(pre, 0, go, P, m)
  BY <1>1, <1>3, StepsAreThere
<1>5. \A n \in 0 .. m : pre[n] \in Nat
  BY <1>4, <1>3a DEF StepsWithin
<1>6. pre[0] = 0
  BY <1>4, <1>1 DEF StepsWithin
<1>7. ASSUME NEW n \in 1 .. m PROVE pre[n - 1] \in Nat /\ pre[n] = pre[n - 1] + f[a + n - 1]
  <2>1. n \in 0 .. m /\ n - 1 \in 0 .. m /\ n # 0
    OBVIOUS
  <2>2. pre[n] = go[<<n, pre[n - 1]>>]
    BY <2>1, <1>4 DEF StepsWithin
  <2> QED  BY <2>1, <2>2, <1>2, <1>5
<1>8. m \in 0 .. m
  BY <1>1
<1> QED  BY <1>5, <1>6, <1>7, <1>8 DEF Prefix

LEMMA NoTotal == ASSUME NEW a \in Int, NEW f PROVE Total(f, a, a - 1) = 0
BY DEF Total

LEMMA TotalIsNat ==
  ASSUME NEW a \in Int, NEW b \in Int, NEW f, NatsFrom(f, a, b)
  PROVE  Total(f, a, b) \in Nat
<1>1. CASE a > b
  BY <1>1 DEF Total
<1>2. CASE a <= b
  BY <1>2, PrefixExists, TotalByPrefix
<1> QED  BY <1>1, <1>2

LEMMA TotalStep ==
  ASSUME NEW a \in Int, NEW b \in Int, a <= b, NEW f, NatsFrom(f, a, b)
  PROVE  /\ Total(f, a, b) = Total(f, a, b - 1) + f[b] /\ f[b] \in Nat
         /\ Total(f, a, b - 1) \in Nat /\ Total(f, a, b) \in Nat
<1>1. PICK pre : Prefix(pre, f, a, b)
  BY PrefixExists
<1>2. NatsFrom(f, a, b - 1) /\ f[b] \in Nat
  BY DEF NatsFrom
<1>3. Prefix(pre, f, a, b - 1)
  BY <1>1 DEF Prefix
<1>4. b - 1 \in Int /\ a <= (b - 1) + 1 /\ (b - 1) - a + 1 = b - a
  OBVIOUS
<1>5. Total(f, a, b - 1) = pre[b - a]
  BY <1>2, <1>3, <1>4, TotalByPrefix
<1>6. Total(f, a, b) = pre[b - a + 1]
  BY <1>1, TotalByPrefix
<1>7. b - a + 1 \in 1 .. b - a + 1 /\ (b - a + 1) - 1 = b - a /\ a + (b - a + 1) - 1 = b
  OBVIOUS
<1>8. pre[b - a + 1] = pre[b - a] + f[b] /\ pre[b - a] \in Nat
  BY <1>1, <1>7 DEF Prefix
<1> QED  BY <1>2, <1>5, <1>6, <1>8

LEMMA TotalIs ==
  ASSUME NEW a \in Int, NEW b \in Int, a <= b + 1, NEW f, NatsFrom(f, a, b)
  PROVE  \E pre : /\ Prefix(pre, f, a, b) /\ Total(f, a, b) = pre[b - a + 1]
                  /\ \A n \in 0 .. b - a + 1 : pre[n] \in Nat
<1>1. PICK pre : Prefix(pre, f, a, b) /\ pre[b - a + 1] \in Nat
  BY PrefixExists
<1>2. Total(f, a, b) = pre[b - a + 1]
  BY <1>1, TotalByPrefix
<1>3. ASSUME NEW n \in 0 .. b - a + 1 PROVE pre[n] \in Nat
  <2>1. CASE n = b - a + 1
    BY <2>1, <1>1
  <2>2. CASE n # b - a + 1
    <3>1. n + 1 \in 1 .. b - a + 1 /\ (n + 1) - 1 = n
      BY <2>2
    <3> QED  BY <3>1, <1>1 DEF Prefix
  <2> QED  BY <2>1, <2>2
<1> QED  BY <1>1, <1>2, <1>3

Joining(g, f, a, b) ==
  g = [x \in (a .. b) \X (a .. b) |-> IF x[1] >= x[2] THEN f[x[1]]
                                      ELSE g[LeftHalf(x)] \o g[RightHalf(x)]]

(* Concatenations: their elements and their length.                          *)
LEMMA JoinedIs ==
  ASSUME NEW a \in Int, NEW b \in Int, a <= b + 1, NEW f, NEW S,
         \A k \in a .. b : f[k] \in Seq(S),
         NEW lens, \A k \in a .. b : lens[k] = Len(f[k])
  PROVE  Joined(f, a, b) \in Seq(S) /\ Len(Joined(f, a, b)) = Total(lens, a, b)
<1>0. NatsFrom(lens, a, b)
  BY DEF NatsFrom
<1>1. CASE a = b + 1
  <2>1. a > b /\ b = a - 1
    BY <1>1
  <2>2. Total(lens, a, b) = 0 /\ Joined(f, a, b) = << >>
    BY <2>1 DEF Total, Joined
  <2> QED  BY <2>2
<1>2. CASE a <= b
  <2> DEFINE both == [p \in Seq(S) \X Seq(S) |-> p[1] \o p[2]]
             joined == CHOOSE g : Joining(g, f, a, b)
  <2>0. \A x \in Pairs(a, b) : x[1] \in a .. b /\ x[2] \in a .. b /\ x[1] \in Int /\ x[2] \in Int
    BY DEF Pairs
  <2>p. PICK pre : /\ Prefix(pre, lens, a, b) /\ Total(lens, a, b) = pre[b - a + 1]
                   /\ \A n \in 0 .. b - a + 1 : pre[n] \in Nat
    BY <1>0, TotalIs
  <2>b. ASSUME NEW s \in Seq(S), NEW t \in Seq(S)
        PROVE  both[<<s, t>>] = s \o t /\ s \o t \in Seq(S)
    <3>1. <<s, t>> \in Seq(S) \X Seq(S)
      OBVIOUS
    <3>2. both[<<s, t>>] = <<s, t>>[1] \o <<s, t>>[2]
      BY <3>1
    <3>3. s \o t \in Seq(S)
      BY ConcatProperties
    <3> HIDE DEF both
    <3> QED  BY <3>2, <3>3
  <2>1. PICK h : Halving(h, a, b, f, both)
    <3>2. \A p \in Seq(S) \X Seq(S) : both[p] \in Seq(S)
      OBVIOUS
    <3> HIDE DEF both
    <3> QED  BY <3>2, HalvesExist
  <2> HIDE DEF both
  <2>t. ASSUME NEW g, Halving(g, a, b, f, both) PROVE \A x \in Pairs(a, b) : g[x] \in Seq(S)
    <3> DEFINE G == {x \in Pairs(a, b) : g[x] \in Seq(S)}
    <3>1. \A x \in Pairs(a, b) : x[1] >= x[2] => x \in G
      BY <2>0, <2>t DEF Halving
    <3>2. \A x \in Pairs(a, b) : x[1] < x[2] /\ LeftHalf(x) \in G /\ RightHalf(x) \in G => x \in G
      <4> SUFFICES ASSUME NEW x \in Pairs(a, b), x[1] < x[2], LeftHalf(x) \in G, RightHalf(x) \in G
                   PROVE  x \in G
        OBVIOUS
      <4>1. ~ (x[1] >= x[2])
        BY <2>0
      <4>2. g[x] = both[<<g[LeftHalf(x)], g[RightHalf(x)]>>]
        BY <4>1, <2>t DEF Halving
      <4>3. g[LeftHalf(x)] \in Seq(S) /\ g[RightHalf(x)] \in Seq(S)
        OBVIOUS
      <4>4. g[x] \in Seq(S)
        <5> HIDE DEF G
        <5>1. /\ both[<<g[LeftHalf(x)], g[RightHalf(x)]>>] = g[LeftHalf(x)] \o g[RightHalf(x)]
              /\ g[LeftHalf(x)] \o g[RightHalf(x)] \in Seq(S)
          BY <4>3, <2>b
        <5> QED  BY <4>2, <5>1
      <4> QED  BY <4>4
    <3> HIDE DEF G
    <3>3. \A x \in Pairs(a, b) : x \in G
      BY <3>1, <3>2, ByHalves
    <3> QED  BY <3>3 DEF G
  <2>2. Joining(h, f, a, b)
    <3>1. ASSUME NEW x \in Pairs(a, b)
          PROVE  h[x] = IF x[1] >= x[2] THEN f[x[1]] ELSE h[LeftHalf(x)] \o h[RightHalf(x)]
      <4>1. CASE x[1] >= x[2]
        BY <4>1, <2>1 DEF Halving
      <4>2. CASE ~ (x[1] >= x[2])
        <5>0. x[1] < x[2]
          BY <4>2, <2>0
        <5>1. LeftHalf(x) \in Pairs(a, b) /\ RightHalf(x) \in Pairs(a, b)
          BY <5>0, HalvesAre
        <5>2. h[LeftHalf(x)] \in Seq(S) /\ h[RightHalf(x)] \in Seq(S)
          BY <5>1, <2>1, <2>t
        <5>3. h[x] = both[<<h[LeftHalf(x)], h[RightHalf(x)]>>]
          BY <4>2, <2>1 DEF Halving
        <5> QED  BY <4>2, <5>2, <5>3, <2>b
      <4> QED  BY <4>1, <4>2
    <3>2. h = [x \in Pairs(a, b) |-> h[x]]
      BY <2>1 DEF Halving
    <3> QED  BY <3>1, <3>2 DEF Joining, Pairs
  <2>3. Joining(joined, f, a, b)
    BY <2>2
  <2>4. Joined(f, a, b) = joined[<<a, b>>]
    BY <1>2 DEF Joined, Joining
  <2> HIDE DEF joined
  <2> DEFINE Q == {x \in Pairs(a, b) : x[1] <= x[2] => joined[x] \in Seq(S)
                                    /\ pre[x[2] - a + 1] = pre[x[1] - a] + Len(joined[x])}
  <2>6. \A x \in Pairs(a, b) : x[1] >= x[2] => x \in Q
    <3> SUFFICES ASSUME NEW x \in Pairs(a, b), x[1] = x[2]
                 PROVE  joined[x] \in Seq(S) /\ pre[x[2] - a + 1] = pre[x[1] - a] + Len(joined[x])
      BY <2>0
    <3>1. joined[x] = f[x[1]]
      BY <2>3, <2>0 DEF Joining, Pairs
    <3>2. PICK k \in Int : k = x[1] /\ k \in a .. b
      BY <2>0
    <3>3. k - a + 1 \in 1 .. b - a + 1 /\ a + (k - a + 1) - 1 = k /\ (k - a + 1) - 1 = k - a
      BY <3>2
    <3>4. pre[k - a + 1] = pre[k - a] + lens[k]
      BY <3>3, <2>p DEF Prefix
    <3>5. f[k] \in Seq(S) /\ lens[k] = Len(f[k])
      BY <3>2
    <3> QED  BY <3>1, <3>2, <3>4, <3>5
  <2>7. \A x \in Pairs(a, b) : x[1] < x[2] /\ LeftHalf(x) \in Q /\ RightHalf(x) \in Q => x \in Q
    <3> SUFFICES ASSUME NEW x \in Pairs(a, b), x[1] < x[2], LeftHalf(x) \in Q, RightHalf(x) \in Q
                 PROVE  joined[x] \in Seq(S) /\ pre[x[2] - a + 1] = pre[x[1] - a] + Len(joined[x])
      OBVIOUS
    <3>1. /\ LeftHalf(x)[1] = x[1] /\ LeftHalf(x)[2] = Middle(x)
          /\ RightHalf(x)[1] = Middle(x) + 1 /\ RightHalf(x)[2] = x[2]
          /\ Middle(x) \in Int /\ x[1] <= Middle(x) /\ Middle(x) < x[2]
      BY HalvesAre
    <3>2. ~ (x[1] >= x[2])
      BY <2>0
    <3>3. joined[x] = joined[LeftHalf(x)] \o joined[RightHalf(x)]
      BY <3>2, <2>3 DEF Joining, Pairs
    <3>4. PICK p \in Int, q \in Int, r \in Int : p = x[1] /\ q = Middle(x) /\ r = x[2]
      BY <2>0, <3>1
    <3>4a. p \in a .. b /\ r \in a .. b /\ p <= q /\ q < r /\ (q + 1) - a = q - a + 1
      BY <3>4, <3>1, <2>0
    <3>5. joined[LeftHalf(x)] \in Seq(S) /\ pre[q - a + 1] = pre[p - a] + Len(joined[LeftHalf(x)])
      BY <3>1, <3>4, <3>4a
    <3>6. joined[RightHalf(x)] \in Seq(S)
          /\ pre[r - a + 1] = pre[q - a + 1] + Len(joined[RightHalf(x)])
      BY <3>1, <3>4, <3>4a
    <3>7. p - a \in 0 .. b - a + 1
      BY <3>4a
    <3>8. pre[p - a] \in Nat
      BY <3>7, <2>p
    <3>9. /\ joined[x] \in Seq(S)
          /\ Len(joined[x]) = Len(joined[LeftHalf(x)]) + Len(joined[RightHalf(x)])
          /\ Len(joined[LeftHalf(x)]) \in Nat /\ Len(joined[RightHalf(x)]) \in Nat
      BY <3>3, <3>5, <3>6, ConcatProperties
    <3>10. pre[r - a + 1] = pre[p - a] + Len(joined[x])
      <4> DEFINE l1 == Len(joined[LeftHalf(x)])
                 l2 == Len(joined[RightHalf(x)])
                 l3 == Len(joined[x])
      <4>1. pre[r - a + 1] = pre[q - a + 1] + l2 /\ pre[q - a + 1] = pre[p - a] + l1
            /\ l3 = l1 + l2 /\ l1 \in Nat /\ l2 \in Nat
        BY <3>5, <3>6, <3>9
      <4> HIDE DEF l1, l2, l3
      <4>2. pre[r - a + 1] = pre[p - a] + l3
        BY <4>1, <3>8
      <4> QED  BY <4>2 DEF l3
    <3> QED  BY <3>9, <3>10, <3>4
  <2> HIDE DEF Q
  <2>8. \A x \in Pairs(a, b) : x \in Q
    BY <2>6, <2>7, ByHalves
  <2>9. <<a, b>> \in Pairs(a, b)
    BY <1>2 DEF Pairs
  <2>10. joined[<<a, b>>] \in Seq(S) /\ pre[b - a + 1] = pre[a - a] + Len(joined[<<a, b>>])
    BY <1>2, <2>8, <2>9 DEF Q
  <2>11. a - a = 0 /\ pre[0] = 0
    BY <2>p DEF Prefix
  <2> QED  BY <2>4, <2>10, <2>11, <2>p
<1> QED  BY <1>1, <1>2

(* A sequence of some length, whatever its elements.                         *)
OfLength(s, n) == n \in Nat /\ s \in Seq(Range(s)) /\ Len(s) = n

LEMMA IsOfLength == ASSUME NEW S, NEW s \in Seq(S) PROVE OfLength(s, Len(s))
<1>1. s \in [1 .. Len(s) -> S] /\ DOMAIN s = 1 .. Len(s) /\ Len(s) \in Nat
  OBVIOUS
<1>2. s \in [1 .. Len(s) -> Range(s)]
  BY <1>1 DEF Range
<1>3. s \in Seq(Range(s))
  BY <1>1, <1>2
<1> QED  BY <1>1, <1>3 DEF OfLength

LEMMA BothOfLength ==
  ASSUME NEW s, NEW t, NEW m, NEW n, OfLength(s, m), OfLength(t, n)
  PROVE  OfLength(s \o t, m + n)
<1> DEFINE U == Range(s) \cup Range(t)
<1>1. s \in Seq(Range(s)) /\ t \in Seq(Range(t)) /\ m \in Nat /\ n \in Nat /\ Len(s) = m /\ Len(t) = n
  BY DEF OfLength
<1>2. s \in Seq(U) /\ t \in Seq(U)
  BY <1>1
<1> HIDE DEF U
<1>3. s \o t \in Seq(U) /\ Len(s \o t) = m + n
  BY <1>1, <1>2
<1> QED  BY <1>3, IsOfLength

LEMMA JoinedOfLength ==
  ASSUME NEW a \in Int, NEW b \in Int, a <= b + 1, NEW f, NEW lens,
         \A k \in a .. b : OfLength(f[k], lens[k])
  PROVE  OfLength(Joined(f, a, b), Total(lens, a, b))
<1> DEFINE U == UNION {Range(f[k]) : k \in a .. b}
<1>1. ASSUME NEW k \in a .. b PROVE f[k] \in Seq(U) /\ lens[k] = Len(f[k])
  <2>1. f[k] \in Seq(Range(f[k])) /\ lens[k] = Len(f[k])
    BY DEF OfLength
  <2>2. Range(f[k]) \subseteq U
    OBVIOUS
  <2> HIDE DEF U
  <2> QED  BY <2>1, <2>2
<1> HIDE DEF U
<1>2. Joined(f, a, b) \in Seq(U) /\ Len(Joined(f, a, b)) = Total(lens, a, b)
  BY <1>1, JoinedIs
<1> QED  BY <1>2, IsOfLength

LEMMA BitsOfLength ==
  ASSUME NEW v, NEW n \in Nat
  PROVE  OfLength(Bits(v, n), n) /\ OfLength(HuffmanBits(v, n), n)
<1>1. ASSUME NEW s, s = [k \in 1 .. n |-> s[k]] PROVE OfLength(s, n)
  <2>1. DOMAIN s = 1 .. n
    BY <1>1
  <2>2. s \in [1 .. n -> Range(s)]
    BY <1>1, <2>1 DEF Range
  <2>3. s \in Seq(Range(s)) /\ Len(s) = n
    BY <2>2
  <2> QED  BY <2>3 DEF OfLength
<1>2. Bits(v, n) = [k \in 1 .. n |-> Bits(v, n)[k]]
  BY DEF Bits
<1>3. HuffmanBits(v, n) = [k \in 1 .. n |-> HuffmanBits(v, n)[k]]
  BY DEF HuffmanBits
<1> QED  BY <1>1, <1>2, <1>3

-----------------------------------------------------------------------------
(* Sums: of the same, of zeros, of equals, of sums, and of one point more.   *)
LEMMA SameTotal ==
  ASSUME NEW a \in Int, NEW b \in Int, NEW f, NatsFrom(f, a, b),
         NEW g, \A k \in a .. b : g[k] = f[k]
  PROVE  Total(g, a, b) = Total(f, a, b)
<1>1. CASE a > b
  BY <1>1 DEF Total
<1>2. CASE a <= b
  <2>1. PICK pre : Prefix(pre, f, a, b)
    BY <1>2, PrefixExists
  <2>2. \A n \in 1 .. b - a + 1 : a + n - 1 \in a .. b
    OBVIOUS
  <2>3. Prefix(pre, g, a, b)
    BY <2>1, <2>2 DEF Prefix
  <2>4. NatsFrom(g, a, b) /\ a <= b + 1
    BY <1>2 DEF NatsFrom
  <2>5. Total(f, a, b) = pre[b - a + 1]
    BY <2>1, <2>4, TotalByPrefix
  <2>6. Total(g, a, b) = pre[b - a + 1]
    BY <2>3, <2>4, TotalByPrefix
  <2> QED  BY <2>5, <2>6
<1> QED  BY <1>1, <1>2

LEMMA TotalOfEquals ==
  ASSUME NEW a \in Int, NEW b \in Int, a <= b + 1, NEW v \in Nat,
         NEW f, \A k \in a .. b : f[k] = v
  PROVE  Total(f, a, b) = v * (b - a + 1)
<1> DEFINE pre == [n \in 0 .. b - a + 1 |-> v * n]
<1>1. pre[0] = 0 /\ pre[b - a + 1] = v * (b - a + 1)
  OBVIOUS
<1>2. ASSUME NEW n \in 1 .. b - a + 1
      PROVE  pre[n - 1] \in Nat /\ pre[n] = pre[n - 1] + f[a + n - 1]
  <2>1. n - 1 \in 0 .. b - a + 1 /\ n \in 0 .. b - a + 1 /\ a + n - 1 \in a .. b
    OBVIOUS
  <2>2. pre[n - 1] = v * (n - 1) /\ pre[n] = v * n /\ f[a + n - 1] = v
    BY <2>1
  <2>3. n - 1 \in Nat /\ v * n = v * (n - 1) + v /\ v * (n - 1) \in Nat
    OBVIOUS
  <2> QED  BY <2>2, <2>3
<1> HIDE DEF pre
<1>3. Prefix(pre, f, a, b)
  BY <1>1, <1>2 DEF Prefix
<1>4. NatsFrom(f, a, b)
  BY DEF NatsFrom
<1> QED  BY <1>1, <1>3, <1>4, TotalByPrefix

LEMMA TotalOfSums ==
  ASSUME NEW a \in Int, NEW b \in Int, NEW f, NatsFrom(f, a, b), NEW g, NatsFrom(g, a, b),
         NEW h, \A k \in a .. b : h[k] = f[k] + g[k]
  PROVE  Total(h, a, b) = Total(f, a, b) + Total(g, a, b)
<1>1. CASE a > b
  BY <1>1 DEF Total
<1>2. CASE a <= b
  <2> DEFINE m == b - a + 1
  <2>1. PICK pre : /\ Prefix(pre, f, a, b) /\ Total(f, a, b) = pre[m]
                   /\ \A n \in 0 .. m : pre[n] \in Nat
    BY <1>2, TotalIs
  <2>2. PICK qre : /\ Prefix(qre, g, a, b) /\ Total(g, a, b) = qre[m]
                   /\ \A n \in 0 .. m : qre[n] \in Nat
    BY <1>2, TotalIs
  <2> DEFINE sums == [n \in 0 .. m |-> pre[n] + qre[n]]
  <2>3. sums[0] = 0 /\ sums[m] = pre[m] + qre[m]
    BY <1>2, <2>1, <2>2 DEF Prefix
  <2>4. ASSUME NEW n \in 1 .. m
        PROVE  sums[n - 1] \in Nat /\ sums[n] = sums[n - 1] + h[a + n - 1]
    <3>1. n - 1 \in 0 .. m /\ n \in 0 .. m /\ a + n - 1 \in a .. b
      OBVIOUS
    <3>2. sums[n - 1] = pre[n - 1] + qre[n - 1] /\ sums[n] = pre[n] + qre[n]
      BY <3>1
    <3> HIDE DEF sums
    <3>3. pre[n] = pre[n - 1] + f[a + n - 1] /\ qre[n] = qre[n - 1] + g[a + n - 1]
      BY <2>1, <2>2 DEF Prefix
    <3>4. pre[n - 1] \in Nat /\ qre[n - 1] \in Nat /\ f[a + n - 1] \in Nat /\ g[a + n - 1] \in Nat
      BY <2>1, <2>2, <3>1 DEF NatsFrom
    <3>5. h[a + n - 1] = f[a + n - 1] + g[a + n - 1]
      BY <3>1
    <3> QED  BY <3>2, <3>3, <3>4, <3>5
  <2> HIDE DEF sums
  <2>5. Prefix(sums, h, a, b)
    BY <2>3, <2>4 DEF Prefix
  <2>6. NatsFrom(h, a, b) /\ a <= b + 1
    BY <1>2 DEF NatsFrom
  <2>7. Total(h, a, b) = sums[m]
    BY <2>5, <2>6, TotalByPrefix
  <2> QED  BY <2>1, <2>2, <2>3, <2>7
<1> QED  BY <1>1, <1>2

LEMMA TotalOfMore ==
  ASSUME NEW a \in Int, NEW b \in Int, NEW f, NatsFrom(f, a, b),
         NEW c \in a .. b, NEW v \in Nat,
         NEW g, g[c] = f[c] + v, \A k \in a .. b : k # c => g[k] = f[k]
  PROVE  Total(g, a, b) = Total(f, a, b) + v
<1> DEFINE one == [k \in a .. b |-> IF k = c THEN v ELSE 0]
           pre == [n \in 0 .. b - a + 1 |-> IF n > c - a THEN v ELSE 0]
<1>1. NatsFrom(one, a, b)
  BY DEF NatsFrom
<1>2. Total(one, a, b) = v
  <2>1. pre[0] = 0 /\ pre[b - a + 1] = v
    OBVIOUS
  <2>2. ASSUME NEW n \in 1 .. b - a + 1
        PROVE  pre[n - 1] \in Nat /\ pre[n] = pre[n - 1] + one[a + n - 1]
    <3>1. n - 1 \in 0 .. b - a + 1 /\ n \in 0 .. b - a + 1 /\ a + n - 1 \in a .. b /\ n \in Int
      OBVIOUS
    <3>2. /\ pre[n - 1] = IF n - 1 > c - a THEN v ELSE 0
          /\ pre[n] = IF n > c - a THEN v ELSE 0
          /\ one[a + n - 1] = IF a + n - 1 = c THEN v ELSE 0
      BY <3>1
    <3> HIDE DEF pre, one
    <3> QED  BY <3>1, <3>2
  <2> HIDE DEF pre, one
  <2>3. Prefix(pre, one, a, b)
    BY <2>1, <2>2 DEF Prefix
  <2>4. a <= b + 1
    OBVIOUS
  <2> QED  BY <1>1, <2>1, <2>3, <2>4, TotalByPrefix
<1>3. \A k \in a .. b : g[k] = f[k] + one[k]
  <2> SUFFICES ASSUME NEW k \in a .. b PROVE g[k] = f[k] + one[k]
    OBVIOUS
  <2>1. f[k] \in Nat /\ f[c] \in Nat
    BY DEF NatsFrom
  <2> QED  BY <2>1
<1> HIDE DEF one
<1> QED  BY <1>1, <1>2, <1>3, TotalOfSums

(* A sum over numbers of what their symbols weigh is the sum over the symbols *)
(* of how often each is there.                                               *)
Weights(f, K, sym, w, a, b) == \A k \in a .. b : f[k] = IF k \in K THEN w[sym[k]] ELSE 0
WithSymbol(K, sym, s) == {k \in K : sym[k] = s}
SymbolsIn(K, sym, a, b, p, q) == K \subseteq a .. b /\ \A k \in K : sym[k] \in p .. q
CountsOf(g, K, sym, w, p, q) ==
  \A s \in p .. q : g[s] = Cardinality(WithSymbol(K, sym, s)) * w[s]

LEMMA CountedBySymbol ==
  ASSUME NEW a \in Int, NEW b \in Int, a <= b + 1, NEW K,
         NEW p \in Int, NEW q \in Int, NEW sym, SymbolsIn(K, sym, a, b, p, q),
         NEW w, NatsFrom(w, p, q),
         NEW f, Weights(f, K, sym, w, a, b), NEW g, CountsOf(g, K, sym, w, p, q)
  PROVE  Total(f, a, b) = Total(g, p, q) /\ NatsFrom(f, a, b) /\ NatsFrom(g, p, q)
<1> DEFINE m == b - a + 1
           Part(n) == {k \in K : k < a + n}
           With(n, s) == {k \in Part(n) : sym[k] = s}
           G(n) == [s \in p .. q |-> Cardinality(With(n, s)) * w[s]]
           pre == [n \in 0 .. m |-> Total(G(n), p, q)]
<1>0. m \in Nat /\ K \subseteq a .. b
  BY DEF SymbolsIn
<1>1. IsFiniteSet(K) /\ \A n, s : IsFiniteSet(With(n, s))
  <2>1. IsFiniteSet(a .. b)
    BY FS_Interval
  <2>2. IsFiniteSet(K)
    BY <1>0, <2>1, FS_Subset
  <2> QED  BY <2>2, FS_Subset
<1>2. \A n, s : Cardinality(With(n, s)) \in Nat
  BY <1>1, FS_CardinalityType
<1>3. ASSUME NEW s \in p .. q PROVE w[s] \in Nat
  BY DEF NatsFrom
<1>4. \A n \in 0 .. m, s \in p .. q : G(n)[s] = Cardinality(With(n, s)) * w[s]
  OBVIOUS
<1>k. \A k \in K : k \in Int /\ a <= k /\ k <= b
  BY <1>0
<1>5. \A n \in 0 .. m : NatsFrom(G(n), p, q)
  <2> SUFFICES ASSUME NEW n \in 0 .. m, NEW s \in p .. q PROVE G(n)[s] \in Nat
    BY DEF NatsFrom
  <2>1. Cardinality(With(n, s)) \in Nat /\ w[s] \in Nat
    BY <1>2, <1>3
  <2> HIDE DEF With
  <2> QED  BY <2>1
<1>6. \A n \in 0 .. m : pre[n] = Total(G(n), p, q)
  OBVIOUS
<1>7. \A n \in 0 .. m : pre[n] \in Nat
  <2> SUFFICES ASSUME NEW n \in 0 .. m PROVE pre[n] \in Nat
    OBVIOUS
  <2> HIDE DEF G
  <2> QED  BY <1>5, <1>6, TotalIsNat
<1>8. pre[0] = 0
  <2>1. \A s : With(0, s) = {}
    <3>1. \A k \in K : ~ (k < a + 0)
      BY <1>k
    <3> QED  BY <3>1
  <2>2. 0 \in 0 .. m
    BY <1>0
  <2>3. Cardinality({}) = 0
    BY FS_EmptySet
  <2>4. ASSUME NEW s \in p .. q PROVE G(0)[s] = 0
    <3>1. G(0)[s] = 0 * w[s]
      BY <2>1, <2>2, <2>3, <1>4
    <3> QED  BY <3>1, <1>3
  <2>5. CASE p > q
    BY <2>2, <2>5, <1>6 DEF Total
  <2>6. CASE p <= q
    <3> HIDE DEF G
    <3>1. Total(G(0), p, q) = 0 * (q - p + 1)
      BY <2>4, <2>6, TotalOfEquals
    <3> QED  BY <3>1, <2>2, <1>6
  <2> QED  BY <2>5, <2>6
<1>9. ASSUME NEW n \in 1 .. m
      PROVE  pre[n] = pre[n - 1] + f[a + n - 1] /\ f[a + n - 1] \in Nat
  <2> DEFINE k == a + n - 1
  <2>1. n - 1 \in 0 .. m /\ n \in 0 .. m /\ k \in a .. b /\ k \in Int
    BY <1>0
  <2>2. f[k] = IF k \in K THEN w[sym[k]] ELSE 0
    BY <2>1 DEF Weights
  <2>3. \A j \in K : j \in Int
    BY <1>k
  <2>4. CASE k \notin K
    <3>1. Part(n) = Part(n - 1)
      <4>1. \A j \in K : j # k => (j < a + n <=> j < a + (n - 1))
        BY <1>k, <2>1
      <4> HIDE DEF k
      <4> QED  BY <4>1, <2>4
    <3>2. G(n) = G(n - 1)
      BY <3>1
    <3>3. pre[n] = pre[n - 1]
      BY <3>2, <2>1, <1>6
    <3>4. pre[n - 1] \in Nat
      BY <2>1, <1>7
    <3> HIDE DEF pre
    <3> QED  BY <3>3, <3>4, <2>2, <2>4
  <2>5. CASE k \in K
    <3>1. Part(n) = Part(n - 1) \cup {k} /\ k \notin Part(n - 1)
      <4>1. \A j \in K : j # k => (j < a + n <=> j < a + (n - 1))
        BY <1>k, <2>1
      <4>2. k < a + n /\ ~ (k < a + (n - 1))
        BY <2>1
      <4> HIDE DEF k
      <4> QED  BY <4>1, <4>2, <2>5
    <3>2. sym[k] \in p .. q /\ f[k] = w[sym[k]]
      BY <2>2, <2>5 DEF SymbolsIn
    <3> HIDE DEF k
    <3>3. With(n, sym[k]) = With(n - 1, sym[k]) \cup {k} /\ k \notin With(n - 1, sym[k])
      BY <3>1
    <3>4. Cardinality(With(n, sym[k])) = Cardinality(With(n - 1, sym[k])) + 1
      <4> HIDE DEF With
      <4> QED  BY <3>3, <1>1, FS_AddElement
    <3>5. \A s \in p .. q : s # sym[k] => With(n, s) = With(n - 1, s)
      BY <3>1
    <3> HIDE DEF With, Part
    <3>6. G(n)[sym[k]] = G(n - 1)[sym[k]] + w[sym[k]]
      <4>1. G(n)[sym[k]] = (Cardinality(With(n - 1, sym[k])) + 1) * w[sym[k]]
        BY <3>2, <3>4, <2>1, <1>4
      <4>2. G(n - 1)[sym[k]] = Cardinality(With(n - 1, sym[k])) * w[sym[k]]
        BY <3>2, <2>1, <1>4
      <4>3. Cardinality(With(n - 1, sym[k])) \in Nat /\ w[sym[k]] \in Nat
        BY <1>2, <1>3, <3>2
      <4>4. \A x, y \in Nat : (x + 1) * y = x * y + y
        OBVIOUS
      <4> HIDE DEF G
      <4> QED  BY <4>1, <4>2, <4>3, <4>4
    <3>7. \A s \in p .. q : s # sym[k] => G(n)[s] = G(n - 1)[s]
      BY <3>5, <2>1, <1>4
    <3>8. w[sym[k]] \in Nat
      BY <1>3, <3>2
    <3>9. NatsFrom(G(n - 1), p, q)
      BY <2>1, <1>5
    <3> HIDE DEF G
    <3>10. Total(G(n), p, q) = Total(G(n - 1), p, q) + w[sym[k]]
      BY <3>2, <3>6, <3>7, <3>8, <3>9, TotalOfMore
    <3>11. pre[n] = Total(G(n), p, q) /\ pre[n - 1] = Total(G(n - 1), p, q)
      BY <2>1, <1>6
    <3> HIDE DEF pre
    <3> QED  BY <3>2, <3>8, <3>10, <3>11 DEF k
  <2> QED  BY <2>4, <2>5
<1>10. NatsFrom(f, a, b)
  <2> SUFFICES ASSUME NEW k \in a .. b PROVE f[k] \in Nat
    BY DEF NatsFrom
  <2>1. k - a + 1 \in 1 .. m /\ a + (k - a + 1) - 1 = k
    OBVIOUS
  <2> HIDE DEF pre
  <2> QED  BY <2>1, <1>9
<1>11. ASSUME NEW s \in p .. q PROVE g[s] = G(m)[s]
  <2>1. Part(m) = K
    <3>1. \A k \in K : k < a + m
      BY <1>k
    <3> QED  BY <3>1
  <2>2. With(m, s) = WithSymbol(K, sym, s)
    BY <2>1 DEF WithSymbol
  <2>3. m \in 0 .. m
    BY <1>0
  <2>4. g[s] = Cardinality(WithSymbol(K, sym, s)) * w[s]
    BY DEF CountsOf
  <2> QED  BY <2>2, <2>3, <2>4, <1>4
<1>12. NatsFrom(G(m), p, q)
  <2>1. m \in 0 .. m
    BY <1>0
  <2> HIDE DEF G, m
  <2> QED  BY <2>1, <1>5
<1>13. NatsFrom(g, p, q) /\ Total(g, p, q) = Total(G(m), p, q)
  <2> HIDE DEF G
  <2>1. NatsFrom(g, p, q)
    BY <1>11, <1>12 DEF NatsFrom
  <2> QED  BY <2>1, <1>11, <1>12, SameTotal
<1>14. pre[m] = Total(G(m), p, q)
  BY <1>0, <1>6
<1> HIDE DEF pre, G, m
<1>15. Prefix(pre, f, a, b)
  <2> SUFFICES ASSUME NEW n \in 1 .. b - a + 1
               PROVE  pre[n - 1] \in Nat /\ pre[n] = pre[n - 1] + f[a + n - 1]
    BY <1>8 DEF Prefix
  <2>1. n \in 1 .. m /\ n - 1 \in 0 .. m
    BY <1>0 DEF m
  <2> QED  BY <2>1, <1>7, <1>9
<1>16. Total(f, a, b) = pre[m]
  BY <1>10, <1>15, TotalByPrefix DEF m
<1> QED  BY <1>10, <1>13, <1>14, <1>16

-----------------------------------------------------------------------------
(* The symbols of lengths and distances have the extra bits of these.        *)
LEMMA SmallPowers ==
  /\ Power(0) = 1 /\ Power(1) = 2 /\ Power(2) = 4 /\ Power(3) = 8 /\ Power(4) = 16
  /\ Power(5) = 32 /\ Power(6) = 64 /\ Power(7) = 128 /\ Power(8) = 256
BY DEF Power, Powers

LEMMA PowersAre == \A e \in 0 .. 16 : Power(e) \in Nat \ {0}
<1> SUFFICES ASSUME NEW e \in 0 .. 16 PROVE Power(e) \in Nat \ {0}
  OBVIOUS
<1>1. \A k \in 1 .. 17 : Powers[k] \in Nat \ {0}
  BY DEF Powers
<1>2. e + 1 \in 1 .. 17
  OBVIOUS
<1> HIDE DEF Powers
<1>3. Powers[e + 1] \in Nat \ {0}
  BY <1>1, <1>2
<1> QED  BY <1>3 DEF Power

LEMMA Log2Is ==
  ASSUME NEW n \in Nat, n >= 1, n < Power(16)
  PROVE  Log2(n) \in 0 .. 15 /\ Power(Log2(n)) <= n /\ n < Power(Log2(n) + 1)
<1> DEFINE T == {e \in 0 .. 16 : e = 0 \/ n >= Power(e) \/ \E d \in 0 .. 15 : Power(d) <= n /\ n < Power(d + 1)}
<1>1. \A e \in 0 .. 16 : Power(e) \in Int
  BY PowersAre
<1>2. 0 \in T
  OBVIOUS
<1>3. ASSUME NEW e \in 0 .. 16 - 1, e \in T PROVE e + 1 \in T
  <2>1. e \in 0 .. 15 /\ e + 1 \in 0 .. 16 /\ e \in 0 .. 16
    OBVIOUS
  <2>2. Power(0) <= n
    BY SmallPowers
  <2>3. Power(e) \in Int /\ Power(e + 1) \in Int
    BY <2>1, <1>1
  <2>4. CASE n < Power(e + 1) /\ Power(e) <= n
    BY <2>1, <2>4
  <2>5. CASE n >= Power(e + 1)
    BY <2>1, <2>5
  <2>6. CASE \E d \in 0 .. 15 : Power(d) <= n /\ n < Power(d + 1)
    BY <2>1, <2>6
  <2> QED  BY <1>3, <2>2, <2>3, <2>4, <2>5, <2>6
<1> HIDE DEF T
<1>4. \A e \in 0 .. 16 : e \in T
  BY <1>2, <1>3, UpTo
<1>5. 16 \in T
  BY <1>4
<1>6. Power(16) \in Int
  BY <1>1
<1>7. \E d \in 0 .. 15 : Power(d) <= n /\ n < Power(d + 1)
  BY <1>5, <1>6 DEF T
<1> QED  BY <1>7 DEF Log2

LEMMA LengthCodes ==
  ASSUME NEW l \in MatchLengths
  PROVE  /\ LengthSymbol(l) \in 257 .. 285 /\ LengthExtraBits(l) \in Nat
         /\ LengthSymbolExtraBits(LengthSymbol(l)) = LengthExtraBits(l)
<1>0. l \in Int /\ 3 <= l /\ l <= 258
  BY DEF MatchLengths
<1>1. CASE l < 11
  <2>1. LengthExtraBits(l) = 0
    BY <1>1 DEF LengthExtraBits
  <2>2. LengthSymbol(l) = 254 + l
    BY <1>0, <1>1, <2>1, SmallPowers DEF LengthSymbol
  <2> QED  BY <1>0, <1>1, <2>1, <2>2 DEF LengthSymbolExtraBits
<1>2. CASE l = 258
  BY <1>2 DEF LengthExtraBits, LengthSymbol, LengthSymbolExtraBits
<1>3. CASE l >= 11 /\ l # 258
  <2>1. l - 3 \in Nat /\ 8 <= l - 3 /\ l - 3 < 256
    BY <1>0, <1>3
  <2>1a. l - 3 < Power(16)
    <3>1. 256 < Power(16)
      BY DEF Power, Powers
    <3>2. Power(16) \in Int
      BY PowersAre
    <3> QED  BY <2>1, <3>1, <3>2
  <2>2. PICK e \in 0 .. 15 : e = Log2(l - 3) /\ Power(e) <= l - 3 /\ l - 3 < Power(e + 1)
    BY <2>1, <2>1a, Log2Is
  <2>3. e \in 3 .. 7
    <3>1. CASE e < 3
      <4>1. e = 0 \/ e = 1 \/ e = 2
        BY <3>1
      <4> QED  BY <2>1, <2>2, <4>1, SmallPowers
    <3>2. CASE e > 7
      <4> DEFINE T == {d \in 0 .. 7 : Power(8 + d) >= 256}
      <4>1. 8 + (e - 8) = e /\ e - 8 \in 0 .. 7
        BY <3>2
      <4>2. \A d \in 0 .. 7 : Power(8 + d) >= 256
        BY DEF Power, Powers
      <4>3. Power(e) >= 256
        BY <4>1, <4>2
      <4>4. Power(e) \in Int
        BY PowersAre
      <4> QED  BY <2>1, <2>2, <4>3, <4>4
    <3> QED  BY <3>1, <3>2
  <2>4. LengthExtraBits(l) = e - 2
    BY <1>0, <1>3, <2>2 DEF LengthExtraBits
  <2>5. LengthSymbol(l) = 257 + 4 * (e - 2) + (l - 3) \div Power(e - 2)
    BY <1>3, <2>4 DEF LengthSymbol
  <2>6. (l - 3) \div Power(e - 2) \in 4 .. 7
    <3>1. e = 3 \/ e = 4 \/ e = 5 \/ e = 6 \/ e = 7
      BY <2>3
    <3>2. \/ Power(e - 2) = 2 /\ 8 <= l - 3 /\ l - 3 < 16
          \/ Power(e - 2) = 4 /\ 16 <= l - 3 /\ l - 3 < 32
          \/ Power(e - 2) = 8 /\ 32 <= l - 3 /\ l - 3 < 64
          \/ Power(e - 2) = 16 /\ 64 <= l - 3 /\ l - 3 < 128
          \/ Power(e - 2) = 32 /\ 128 <= l - 3 /\ l - 3 < 256
      BY <3>1, <2>2, SmallPowers
    <3> QED  BY <3>2, <1>0
  <2>7. PICK q \in 4 .. 7 : LengthSymbol(l) = 257 + 4 * (e - 2) + q
    BY <2>5, <2>6
  <2> QED  BY <2>3, <2>4, <2>7 DEF LengthSymbolExtraBits
<1> QED  BY <1>0, <1>1, <1>2, <1>3

LEMMA DistCodes ==
  ASSUME NEW x \in MatchDistances
  PROVE  /\ DistSymbol(x) \in 0 .. 29 /\ DistExtraBits(x) \in Nat
         /\ DistSymbolExtraBits(DistSymbol(x)) = DistExtraBits(x)
<1>0. x \in Int /\ 1 <= x /\ x - 1 < Power(15)
  BY DEF MatchDistances, Power, Powers
<1>1. CASE x < 5
  BY <1>0, <1>1 DEF DistSymbol, DistExtraBits, DistSymbolExtraBits
<1>2. CASE x >= 5
  <2>1. x - 1 \in Nat /\ x - 1 >= 4
    BY <1>0, <1>2
  <2>1a. x - 1 < Power(16)
    <3>1. Power(15) < Power(16)
      BY DEF Power, Powers
    <3>2. Power(15) \in Int /\ Power(16) \in Int
      BY PowersAre
    <3> QED  BY <1>0, <2>1, <3>1, <3>2
  <2>2. PICK e \in 0 .. 15 : e = Log2(x - 1) /\ Power(e) <= x - 1 /\ x - 1 < Power(e + 1)
    BY <2>1, <2>1a, Log2Is
  <2>3. e \in 2 .. 14
    <3>1. CASE e < 2
      <4>1. e = 0 \/ e = 1
        BY <3>1
      <4> QED  BY <2>1, <2>2, <4>1, SmallPowers
    <3>2. CASE e = 15
      <4>1. Power(15) \in Int
        BY PowersAre
      <4> QED  BY <1>0, <2>1, <2>2, <3>2, <4>1
    <3> QED  BY <3>1, <3>2
  <2>4. DistExtraBits(x) = e - 1
    BY <1>0, <1>2, <2>2 DEF DistExtraBits
  <2>5. DistSymbol(x) = 2 * e + (((x - 1) \div Power(e - 1)) % 2)
    BY <1>0, <1>2, <2>2 DEF DistSymbol
  <2>6. ((x - 1) \div Power(e - 1)) % 2 \in 0 .. 1
    <3>1. e - 1 \in 0 .. 16
      BY <2>3
    <3>2. Power(e - 1) \in Nat \ {0} /\ x - 1 \in Nat
      BY <2>1, <3>1, PowersAre
    <3>3. (x - 1) \div Power(e - 1) \in Nat
      BY <3>2, DivIs
    <3> QED  BY <3>3
  <2>7. PICK q \in 0 .. 1 : DistSymbol(x) = 2 * e + q
    BY <2>5, <2>6
  <2> QED  BY <2>3, <2>4, <2>7 DEF DistSymbolExtraBits
<1> QED  BY <1>0, <1>1, <1>2

-----------------------------------------------------------------------------
(* What symbols cost, one by one and counted, and the bits of their codes.   *)
Codable(tree) == NatsFrom(tree.ll, 0, 287) /\ NatsFrom(tree.d, 0, 31)

LEMMA SymbolIs ==
  ASSUME NEW x \in LZ77Symbols
  PROVE  \/ x.dist = 0 /\ x.litlen \in LiteralBytes
         \/ x.dist # 0 /\ x.litlen \in MatchLengths /\ x.dist \in MatchDistances
<1>1. 0 \notin MatchDistances
  BY DEF MatchDistances
<1> QED  BY <1>1 DEF LZ77Symbols

LEMMA LiteralIs == \A l \in LiteralBytes : l \in 0 .. 255
BY DEF LiteralBytes

LEMMA TreeLengths ==
  ASSUME NEW tree, Codable(tree)
  PROVE  /\ \A s \in 0 .. 255 : tree.ll[s] \in Nat
         /\ \A s \in 257 .. 285 : tree.ll[s] \in Nat
         /\ \A s \in 0 .. 29 : tree.d[s] \in Nat
         /\ tree.ll[256] \in Nat
BY DEF Codable, NatsFrom

LEMMA ExtraBitsAre ==
  /\ \A s \in 257 .. 285 : LengthSymbolExtraBits(s) \in Nat
  /\ \A s \in 0 .. 29 : DistSymbolExtraBits(s) \in Nat
<1>1. ASSUME NEW s \in 257 .. 285 PROVE LengthSymbolExtraBits(s) \in Nat
  <2>1. CASE s < 265
    BY <2>1 DEF LengthSymbolExtraBits
  <2>2. CASE s >= 265
    <3>1. s - 261 \in Nat /\ (s - 261) \div 4 \in Nat
      BY <2>2
    <3> QED  BY <3>1 DEF LengthSymbolExtraBits
  <2> QED  BY <2>1, <2>2
<1>2. ASSUME NEW s \in 0 .. 29 PROVE DistSymbolExtraBits(s) \in Nat
  BY DEF DistSymbolExtraBits
<1> QED  BY <1>1, <1>2

LEMMA SymbolCodeIs ==
  ASSUME NEW tree, Codable(tree), NEW x \in LZ77Symbols, NEW ll, NEW d
  PROVE  SymbolBits(tree, x) \in Nat /\ OfLength(SymbolCode(x, tree, ll, d), SymbolBits(tree, x))
<1>1. CASE x.dist = 0
  <2>1. x.litlen \in 0 .. 255
    BY <1>1, SymbolIs, LiteralIs
  <2>2. tree.ll[x.litlen] \in Nat
    BY <2>1, TreeLengths
  <2>3. SymbolBits(tree, x) = tree.ll[x.litlen]
    BY <1>1 DEF SymbolBits
  <2>4. SymbolCode(x, tree, ll, d) = HuffmanBits(ll[x.litlen], tree.ll[x.litlen])
    BY <1>1 DEF SymbolCode
  <2> QED  BY <2>2, <2>3, <2>4, BitsOfLength
<1>2. CASE x.dist # 0
  <2> DEFINE lls == LengthSymbol(x.litlen)
             ds == DistSymbol(x.dist)
             e == LengthExtraBits(x.litlen)
             f == DistExtraBits(x.dist)
             s1 == HuffmanBits(ll[lls], tree.ll[lls])
             s2 == Bits(LengthExtraValue(x.litlen), e)
             s3 == HuffmanBits(d[ds], tree.d[ds])
             s4 == Bits(DistExtraValue(x.dist), f)
  <2>1. x.litlen \in MatchLengths /\ x.dist \in MatchDistances
    BY <1>2, SymbolIs
  <2>2. lls \in 257 .. 285 /\ e \in Nat /\ LengthSymbolExtraBits(lls) = e
    BY <2>1, LengthCodes
  <2>3. ds \in 0 .. 29 /\ f \in Nat /\ DistSymbolExtraBits(ds) = f
    BY <2>1, DistCodes
  <2>4. tree.ll[lls] \in Nat /\ tree.d[ds] \in Nat
    BY <2>2, <2>3, TreeLengths
  <2>5. SymbolBits(tree, x) = tree.ll[lls] + tree.d[ds] + e + f
    BY <1>2, <2>2, <2>3 DEF SymbolBits
  <2>6. SymbolCode(x, tree, ll, d) = s1 \o s2 \o s3 \o s4
    BY <1>2 DEF SymbolCode
  <2>7. /\ OfLength(s1, tree.ll[lls]) /\ OfLength(s2, e)
        /\ OfLength(s3, tree.d[ds]) /\ OfLength(s4, f)
    BY <2>2, <2>3, <2>4, BitsOfLength
  <2> HIDE DEF s1, s2, s3, s4, e, f, lls, ds
  <2>8. OfLength(s1 \o s2, tree.ll[lls] + e)
    BY <2>7, BothOfLength
  <2>9. OfLength((s1 \o s2) \o s3, (tree.ll[lls] + e) + tree.d[ds])
    BY <2>7, <2>8, BothOfLength
  <2>10. OfLength(((s1 \o s2) \o s3) \o s4, ((tree.ll[lls] + e) + tree.d[ds]) + f)
    BY <2>7, <2>9, BothOfLength
  <2>11. ((tree.ll[lls] + e) + tree.d[ds]) + f = tree.ll[lls] + tree.d[ds] + e + f
         /\ ((tree.ll[lls] + e) + tree.d[ds]) + f \in Nat
    BY <2>2, <2>3, <2>4
  <2> QED  BY <2>5, <2>6, <2>10, <2>11
<1> QED  BY <1>1, <1>2

(* Symbols a to b - 1 of a store.                                            *)
Symbols(store, a, b) == \A k \in a .. b - 1 : store[k] \in LZ77Symbols
CodeBits(tree, store, a, b) == [k \in a .. b - 1 |-> SymbolBits(tree, store[k])]
BitsOf(tree, store, a, b) == Total(CodeBits(tree, store, a, b), a, b - 1) + tree.ll[256]

LEMMA DataOfLength ==
  ASSUME NEW tree, Codable(tree), NEW a \in Int, NEW b \in Int, a <= b,
         NEW store, Symbols(store, a, b)
  PROVE  /\ NatsFrom(CodeBits(tree, store, a, b), a, b - 1)
         /\ BitsOf(tree, store, a, b) \in Nat
         /\ OfLength(AddLZ77Data(store, a, b, tree), BitsOf(tree, store, a, b))
<1> DEFINE ll == LengthsToSymbols(tree.ll, 15)
           d == LengthsToSymbols(tree.d, 15)
           codes == [k \in a .. b - 1 |-> SymbolCode(store[k], tree, ll, d)]
           lens == CodeBits(tree, store, a, b)
<1>0. b - 1 \in Int /\ a <= (b - 1) + 1
  OBVIOUS
<1> HIDE DEF ll, d
<1>1. ASSUME NEW k \in a .. b - 1 PROVE OfLength(codes[k], lens[k]) /\ lens[k] \in Nat
  <2>1. store[k] \in LZ77Symbols
    BY DEF Symbols
  <2>2. codes[k] = SymbolCode(store[k], tree, ll, d) /\ lens[k] = SymbolBits(tree, store[k])
    BY DEF CodeBits
  <2> HIDE DEF codes, lens
  <2> QED  BY <2>1, <2>2, SymbolCodeIs
<1>2. AddLZ77Data(store, a, b, tree) = Joined(codes, a, b - 1) \o HuffmanBits(ll[256], tree.ll[256])
  BY DEF AddLZ77Data, ll, d
<1> HIDE DEF codes, lens
<1>3. NatsFrom(lens, a, b - 1)
  BY <1>1 DEF NatsFrom
<1>4. Total(lens, a, b - 1) \in Nat /\ tree.ll[256] \in Nat
  BY <1>0, <1>3, TotalIsNat, TreeLengths
<1>5. OfLength(Joined(codes, a, b - 1), Total(lens, a, b - 1))
  BY <1>0, <1>1, JoinedOfLength
<1>6. OfLength(HuffmanBits(ll[256], tree.ll[256]), tree.ll[256])
  BY <1>4, BitsOfLength
<1>7. OfLength(AddLZ77Data(store, a, b, tree), Total(lens, a, b - 1) + tree.ll[256])
  BY <1>2, <1>5, <1>6, BothOfLength
<1> QED  BY <1>3, <1>4, <1>7 DEF BitsOf, lens

LEMMA SymbolOfIs ==
  ASSUME NEW x \in LZ77Symbols
  PROVE  /\ x.dist = 0 => SymbolOf(x) = x.litlen /\ x.litlen \in 0 .. 255
         /\ x.dist # 0 => /\ SymbolOf(x) = LengthSymbol(x.litlen)
                          /\ LengthSymbol(x.litlen) \in 257 .. 285
                          /\ DistSymbol(x.dist) \in 0 .. 29
<1>1. x.dist = 0 => SymbolOf(x) = x.litlen /\ x.litlen \in 0 .. 255
  BY SymbolIs, LiteralIs DEF SymbolOf
<1>2. ASSUME x.dist # 0
      PROVE  /\ SymbolOf(x) = LengthSymbol(x.litlen)
             /\ LengthSymbol(x.litlen) \in 257 .. 285 /\ DistSymbol(x.dist) \in 0 .. 29
  <2>1. x.litlen \in MatchLengths /\ x.dist \in MatchDistances
    BY <1>2, SymbolIs
  <2>2. LengthSymbol(x.litlen) \in 257 .. 285 /\ DistSymbol(x.dist) \in 0 .. 29
    BY <2>1, LengthCodes, DistCodes
  <2> QED  BY <1>2, <2>2 DEF SymbolOf
<1> QED  BY <1>1, <1>2

(* The counts of a block, the end symbol's aside.                            *)
CountsOfBlock(counts, store, a, b) ==
  /\ \A s \in 0 .. 287 : s # 256 => counts.ll[s] = Histogram(store, a, b).ll[s]
  /\ \A s \in 0 .. 31 : counts.d[s] = Histogram(store, a, b).d[s]

WithLL(store, a, b, s) == {k \in a .. b - 1 : SymbolOf(store[k]) = s}
WithD(store, a, b, s) ==
  {k \in {j \in a .. b - 1 : store[j].dist # 0} : DistSymbol(store[k].dist) = s}

LEMMA HistogramIs ==
  ASSUME NEW store, NEW a \in Int, NEW b \in Int, NEW counts, CountsOfBlock(counts, store, a, b)
  PROVE  /\ \A s \in 0 .. 287 : s # 256 => counts.ll[s] = Cardinality(WithLL(store, a, b, s))
         /\ \A s \in 0 .. 31 : counts.d[s] = Cardinality(WithD(store, a, b, s))
<1> DEFINE hl == [k \in a .. b - 1 |-> SymbolOf(store[k])]
           hd == [k \in {j \in a .. b - 1 : store[j].dist # 0} |-> DistSymbol(store[k].dist)]
<1>1. Histogram(store, a, b) =
        [ ll |-> [s \in 0 .. NumLL - 1 |-> Cardinality({k \in DOMAIN hl : hl[k] = s})],
          d  |-> [s \in 0 .. NumD - 1 |-> Cardinality({k \in DOMAIN hd : hd[k] = s})] ]
  BY DEF Histogram
<1>2. NumLL - 1 = 287 /\ NumD - 1 = 31
  BY DEF NumLL, NumD
<1> DEFINE Ofl(s) == {k \in DOMAIN hl : hl[k] = s}
           Ofd(s) == {k \in DOMAIN hd : hd[k] = s}
<1>3. \A s : Ofl(s) = WithLL(store, a, b, s)
  BY DEF WithLL
<1>4. \A s : Ofd(s) = WithD(store, a, b, s)
  BY DEF WithD
<1>1a. Histogram(store, a, b) =
         [ ll |-> [s \in 0 .. NumLL - 1 |-> Cardinality(Ofl(s))],
           d  |-> [s \in 0 .. NumD - 1 |-> Cardinality(Ofd(s))] ]
  BY <1>1
<1> HIDE DEF Ofl, Ofd
<1>5. \A s \in 0 .. 287 : Histogram(store, a, b).ll[s] = Cardinality(WithLL(store, a, b, s))
  BY <1>1a, <1>2, <1>3
<1>6. \A s \in 0 .. 31 : Histogram(store, a, b).d[s] = Cardinality(WithD(store, a, b, s))
  BY <1>1a, <1>2, <1>4
<1> QED  BY <1>5, <1>6 DEF CountsOfBlock

(* ZopfliCalculateBlockSymbolSizeGivenCounts: both ways of it.               *)
LEMMA SizeGivenCounts ==
  ASSUME NEW tree, Codable(tree), NEW a \in Int, NEW b \in Int, a <= b,
         NEW store, Symbols(store, a, b), NEW counts, CountsOfBlock(counts, store, a, b)
  PROVE  CalculateBlockSymbolSizeGivenCounts(counts, tree, store, a, b) = BitsOf(tree, store, a, b)
<1>c. /\ \A s \in 0 .. 287 : s # 256 => counts.ll[s] = Cardinality(WithLL(store, a, b, s))
      /\ \A s \in 0 .. 31 : counts.d[s] = Cardinality(WithD(store, a, b, s))
  BY HistogramIs
<1> DEFINE m == b - 1
           bits1 == CodeBits(tree, store, a, b)
           K0 == {k \in a .. m : store[k].dist = 0}
           K1 == {k \in a .. m : store[k].dist # 0}
           lits == [k \in a .. m |-> store[k].litlen]
           lens == [k \in a .. m |-> LengthSymbol(store[k].litlen)]
           dists == [k \in a .. m |-> DistSymbol(store[k].dist)]
           wl == [s \in 257 .. 285 |-> tree.ll[s] + LengthSymbolExtraBits(s)]
           wd == [s \in 0 .. 29 |-> tree.d[s] + DistSymbolExtraBits(s)]
           f0 == [k \in a .. m |-> IF k \in K0 THEN tree.ll[lits[k]] ELSE 0]
           f1 == [k \in a .. m |-> IF k \in K1 THEN wl[lens[k]] ELSE 0]
           f2 == [k \in a .. m |-> IF k \in K1 THEN wd[dists[k]] ELSE 0]
           g0 == [s \in 0 .. 255 |-> counts.ll[s] * tree.ll[s]]
           g1 == [s \in 257 .. 285 |-> counts.ll[s] * (tree.ll[s] + LengthSymbolExtraBits(s))]
           g2 == [s \in 0 .. 29 |-> counts.d[s] * (tree.d[s] + DistSymbolExtraBits(s))]
<1>m. m \in Int /\ a <= m + 1
  OBVIOUS
<1>0. ASSUME NEW k \in a .. m
      PROVE  /\ store[k] \in LZ77Symbols
             /\ store[k].dist = 0 => SymbolOf(store[k]) = lits[k] /\ lits[k] \in 0 .. 255
             /\ store[k].dist # 0 => /\ SymbolOf(store[k]) = lens[k]
                                     /\ lens[k] \in 257 .. 285 /\ dists[k] \in 0 .. 29
  <2>1. store[k] \in LZ77Symbols
    BY DEF Symbols
  <2>2. /\ lits[k] = store[k].litlen /\ lens[k] = LengthSymbol(store[k].litlen)
        /\ dists[k] = DistSymbol(store[k].dist)
    OBVIOUS
  <2> HIDE DEF lits, lens, dists
  <2> QED  BY <2>1, <2>2, SymbolOfIs
<1>1. NatsFrom(tree.ll, 0, 255) /\ NatsFrom(wl, 257, 285) /\ NatsFrom(wd, 0, 29)
  <2>1. NatsFrom(tree.ll, 0, 255)
    BY TreeLengths DEF NatsFrom
  <2>2. ASSUME NEW s \in 257 .. 285 PROVE wl[s] \in Nat
    <3>1. tree.ll[s] \in Nat /\ LengthSymbolExtraBits(s) \in Nat
      BY TreeLengths, ExtraBitsAre
    <3>2. wl[s] = tree.ll[s] + LengthSymbolExtraBits(s)
      OBVIOUS
    <3> HIDE DEF wl
    <3> QED  BY <3>1, <3>2
  <2>3. ASSUME NEW s \in 0 .. 29 PROVE wd[s] \in Nat
    <3>1. tree.d[s] \in Nat /\ DistSymbolExtraBits(s) \in Nat
      BY TreeLengths, ExtraBitsAre
    <3>2. wd[s] = tree.d[s] + DistSymbolExtraBits(s)
      OBVIOUS
    <3> HIDE DEF wd
    <3> QED  BY <3>1, <3>2
  <2> HIDE DEF wl, wd
  <2> QED  BY <2>1, <2>2, <2>3 DEF NatsFrom
<1>2. Total(f0, a, m) = Total(g0, 0, 255) /\ NatsFrom(f0, a, m)
  <2>1. Weights(f0, K0, lits, tree.ll, a, m)
    BY DEF Weights
  <2>2. SymbolsIn(K0, lits, a, m, 0, 255)
    <3> HIDE DEF lits
    <3> QED  BY <1>0 DEF SymbolsIn
  <2>3. ASSUME NEW s \in LiteralBytes
        PROVE  g0[s] = Cardinality(WithSymbol(K0, lits, s)) * tree.ll[s]
    <3>1. s \in 0 .. 287 /\ s # 256 /\ s \notin 257 .. 285
      BY DEF LiteralBytes
    <3>2. WithLL(store, a, b, s) = WithSymbol(K0, lits, s)
      <4>1. \A k \in a .. m : SymbolOf(store[k]) = s <=> (k \in K0 /\ lits[k] = s)
        <5> HIDE DEF lits, lens, dists, m
        <5> QED  BY <1>0, <3>1
      <4> HIDE DEF lits
      <4> QED  BY <4>1 DEF WithLL, WithSymbol
    <3>3. counts.ll[s] = Cardinality(WithLL(store, a, b, s))
      BY ONLY <1>c, <3>1
    <3>4. g0[s] = counts.ll[s] * tree.ll[s]
      BY DEF LiteralBytes
    <3> HIDE DEF K0, lits, g0
    <3> QED  BY <3>2, <3>3, <3>4
  <2>4. CountsOf(g0, K0, lits, tree.ll, 0, 255)
    BY <2>3 DEF CountsOf, LiteralBytes
  <2> HIDE DEF g0, f0, K0, lits, m
  <2> QED  BY <1>m, <1>1, <2>1, <2>2, <2>4, CountedBySymbol
<1>3. Total(f1, a, m) = Total(g1, 257, 285) /\ NatsFrom(f1, a, m)
  <2>1. Weights(f1, K1, lens, wl, a, m)
    BY DEF Weights
  <2>2. SymbolsIn(K1, lens, a, m, 257, 285)
    <3> HIDE DEF lens
    <3> QED  BY <1>0 DEF SymbolsIn
  <2>3. ASSUME NEW s \in 257 .. 285
        PROVE  g1[s] = Cardinality(WithSymbol(K1, lens, s)) * wl[s]
    <3>1. s \in 0 .. 287 /\ s # 256 /\ s \notin 0 .. 255
      OBVIOUS
    <3>2. WithLL(store, a, b, s) = WithSymbol(K1, lens, s)
      <4>1. \A k \in a .. m : SymbolOf(store[k]) = s <=> (k \in K1 /\ lens[k] = s)
        <5> HIDE DEF lits, lens, dists, m
        <5> QED  BY <1>0, <3>1
      <4> HIDE DEF lens
      <4> QED  BY <4>1 DEF WithLL, WithSymbol
    <3>3. counts.ll[s] = Cardinality(WithLL(store, a, b, s))
      BY ONLY <1>c, <3>1
    <3>4. /\ wl[s] = tree.ll[s] + LengthSymbolExtraBits(s)
          /\ g1[s] = counts.ll[s] * (tree.ll[s] + LengthSymbolExtraBits(s))
      OBVIOUS
    <3> HIDE DEF K1, lens, wl, g1
    <3> QED  BY <3>2, <3>3, <3>4
  <2>4. CountsOf(g1, K1, lens, wl, 257, 285)
    BY <2>3 DEF CountsOf
  <2> HIDE DEF g1, f1, K1, lens, m, wl
  <2> QED  BY <1>m, <1>1, <2>1, <2>2, <2>4, CountedBySymbol
<1>4. Total(f2, a, m) = Total(g2, 0, 29) /\ NatsFrom(f2, a, m)
  <2>1. Weights(f2, K1, dists, wd, a, m)
    BY DEF Weights
  <2>2. SymbolsIn(K1, dists, a, m, 0, 29)
    <3> HIDE DEF dists
    <3> QED  BY <1>0 DEF SymbolsIn
  <2>3. ASSUME NEW s \in 0 .. 29
        PROVE  g2[s] = Cardinality(WithSymbol(K1, dists, s)) * wd[s]
    <3>1. s \in 0 .. 31
      OBVIOUS
    <3>2. WithD(store, a, b, s) = WithSymbol(K1, dists, s)
      BY DEF WithD, WithSymbol
    <3>3. counts.d[s] = Cardinality(WithD(store, a, b, s))
      BY ONLY <1>c, <3>1
    <3>4. /\ wd[s] = tree.d[s] + DistSymbolExtraBits(s)
          /\ g2[s] = counts.d[s] * (tree.d[s] + DistSymbolExtraBits(s))
      OBVIOUS
    <3> HIDE DEF K1, dists, wd, g2
    <3> QED  BY <3>2, <3>3, <3>4
  <2>4. CountsOf(g2, K1, dists, wd, 0, 29)
    BY <2>3 DEF CountsOf
  <2> HIDE DEF g2, f2, K1, dists, m, wd
  <2> QED  BY <1>m, <1>1, <2>1, <2>2, <2>4, CountedBySymbol
<1>5. ASSUME NEW k \in a .. m
      PROVE  /\ bits1[k] = (f0[k] + f1[k]) + f2[k]
             /\ f0[k] \in Nat /\ f1[k] \in Nat /\ f2[k] \in Nat
  <2>1. bits1[k] = SymbolBits(tree, store[k])
    BY DEF CodeBits
  <2>2. f0[k] \in Nat /\ f1[k] \in Nat /\ f2[k] \in Nat
    BY <1>2, <1>3, <1>4 DEF NatsFrom
  <2>3. CASE store[k].dist = 0
    <3>1. k \in K0 /\ k \notin K1 /\ lits[k] = store[k].litlen
      BY <2>3
    <3>2. f0[k] = tree.ll[store[k].litlen] /\ f1[k] = 0 /\ f2[k] = 0
      BY <3>1
    <3>3. bits1[k] = tree.ll[store[k].litlen]
      BY <2>1, <2>3 DEF SymbolBits
    <3> HIDE DEF f0, f1, f2, bits1
    <3> QED  BY <2>2, <3>2, <3>3
  <2>4. CASE store[k].dist # 0
    <3>1. /\ k \notin K0 /\ k \in K1 /\ lens[k] = LengthSymbol(store[k].litlen)
          /\ dists[k] = DistSymbol(store[k].dist)
      BY <2>4
    <3>2. f0[k] = 0 /\ f1[k] = wl[lens[k]] /\ f2[k] = wd[dists[k]]
      BY <3>1
    <3>3. lens[k] \in 257 .. 285 /\ dists[k] \in 0 .. 29
      BY <2>4, <1>0
    <3>4. /\ wl[lens[k]] = tree.ll[lens[k]] + LengthSymbolExtraBits(lens[k])
          /\ wd[dists[k]] = tree.d[dists[k]] + DistSymbolExtraBits(dists[k])
      BY <3>3
    <3>5. bits1[k] = tree.ll[lens[k]] + tree.d[dists[k]]
                       + LengthSymbolExtraBits(lens[k]) + DistSymbolExtraBits(dists[k])
      BY <2>1, <2>4, <3>1 DEF SymbolBits
    <3>6. /\ tree.ll[lens[k]] \in Nat /\ tree.d[dists[k]] \in Nat
          /\ LengthSymbolExtraBits(lens[k]) \in Nat /\ DistSymbolExtraBits(dists[k]) \in Nat
      BY <3>3, TreeLengths, ExtraBitsAre
    <3> HIDE DEF f0, f1, f2, bits1, wl, wd, lens, dists
    <3> QED  BY <2>2, <3>2, <3>4, <3>5, <3>6
  <2> QED  BY <2>2, <2>3, <2>4
<1> DEFINE f01 == [k \in a .. m |-> f0[k] + f1[k]]
<1>6. \A k \in a .. m : f01[k] = f0[k] + f1[k]
  OBVIOUS
<1>7. NatsFrom(f01, a, m)
  <2> SUFFICES ASSUME NEW k \in a .. m PROVE f01[k] \in Nat
    BY DEF NatsFrom
  <2> HIDE DEF f0, f1, f2, f01
  <2> QED  BY <1>5, <1>6
<1> HIDE DEF f0, f1, f2, f01, bits1, m
<1>8. Total(f01, a, m) = Total(f0, a, m) + Total(f1, a, m)
  BY <1>m, <1>2, <1>3, <1>6, TotalOfSums
<1>9. \A k \in a .. m : bits1[k] = f01[k] + f2[k]
  BY <1>5, <1>6
<1>10. Total(bits1, a, m) = Total(f01, a, m) + Total(f2, a, m)
  BY <1>m, <1>4, <1>7, <1>9, TotalOfSums
<1>11. CalculateBlockSymbolSizeGivenCounts(counts, tree, store, a, b) =
         IF a + SmallBlock > b
           THEN Total(bits1, a, m) + tree.ll[256]
           ELSE Total(g0, 0, 255) + Total(g1, 257, 285) + Total(g2, 0, 29) + tree.ll[256]
  BY DEF CalculateBlockSymbolSizeGivenCounts, bits1, m, CodeBits
<1>12. BitsOf(tree, store, a, b) = Total(bits1, a, m) + tree.ll[256]
  BY DEF BitsOf, bits1, m
<1> HIDE DEF g0, g1, g2
<1>13. /\ Total(f0, a, m) \in Nat /\ Total(f1, a, m) \in Nat /\ Total(f2, a, m) \in Nat
  BY <1>m, <1>2, <1>3, <1>4, TotalIsNat
<1>14. Total(bits1, a, m) = Total(g0, 0, 255) + Total(g1, 257, 285) + Total(g2, 0, 29)
  BY <1>2, <1>3, <1>4, <1>8, <1>10, <1>13
<1> QED  BY <1>11, <1>12, <1>14

-----------------------------------------------------------------------------
(* Code lengths stay within the limit: no chain is longer than its list's    *)
(* number, because a package is one longer than a chain of the list below.   *)
ShortChain(c, k) == c \in Chain /\ Len(c.counts) <= k
Short(L, st) ==
  /\ st \in States(L)
  /\ \A k \in 1 .. L : ShortChain(st.lists[k][1], k) /\ ShortChain(st.lists[k][2], k)

LEMMA ShortNew ==
  ASSUME NEW L \in Nat, NEW st, Short(L, st), NEW i \in 1 .. L, NEW chain, ShortChain(chain, i)
  PROVE  Short(L, NewChain(st, i, chain))
<1> DEFINE new == NewChain(st, i, chain)
<1>1. st \in States(L) /\ chain \in Chain
  BY DEF Short, ShortChain
<1>2. new \in States(L)
  BY <1>1, NewChainIs DEF Replaced
<1>3. st.lists \in [1 .. L -> Chain \X Chain]
  BY <1>1 DEF States
<1>4. new.lists = [st.lists EXCEPT ![i] = <<st.lists[i][2], chain>>]
  BY DEF NewChain
<1> HIDE DEF new
<1>5. ASSUME NEW k \in 1 .. L
      PROVE  ShortChain(new.lists[k][1], k) /\ ShortChain(new.lists[k][2], k)
  <2>1. CASE k = i
    <3>1. new.lists[k] = <<st.lists[i][2], chain>>
      BY <1>3, <1>4, <2>1
    <3>2. new.lists[k][1] = st.lists[i][2] /\ new.lists[k][2] = chain
      BY <3>1
    <3> QED  BY <2>1, <3>2 DEF Short
  <2>2. CASE k # i
    <3>1. new.lists[k] = st.lists[k]
      BY <1>3, <1>4, <2>2
    <3> QED  BY <3>1 DEF Short
  <2> QED  BY <2>1, <2>2
<1> QED  BY <1>2, <1>5 DEF Short, new

LEMMA ShortLeaf ==
  ASSUME NEW lv \in Seq(Leaf), NEW k \in Nat, NEW c, ShortChain(c, k), Head(c.counts) < Len(lv)
  PROVE  ShortChain(WithLeaf(lv, c), k)
<1>1. c \in Chain /\ Len(c.counts) <= k /\ c.counts \in Seq(Nat) /\ c.counts # << >>
  BY DEF ShortChain, Chain
<1>2. WithLeaf(lv, c) \in Chain
  BY <1>1, LeafChain
<1>3. WithLeaf(lv, c).counts = <<Head(c.counts) + 1>> \o Tail(c.counts)
  BY DEF WithLeaf
<1>4. Head(c.counts) \in Nat /\ Tail(c.counts) \in Seq(Nat)
      /\ Len(Tail(c.counts)) = Len(c.counts) - 1
  BY <1>1
<1>5. Len(<<Head(c.counts) + 1>> \o Tail(c.counts)) = 1 + Len(Tail(c.counts))
  <2>1. <<Head(c.counts) + 1>> \in Seq(Nat) /\ Len(<<Head(c.counts) + 1>>) = 1
    BY <1>4
  <2> QED  BY <1>4, <2>1, ConcatProperties
<1>6. Len(c.counts) \in Nat
  BY <1>1
<1> QED  BY <1>1, <1>2, <1>3, <1>4, <1>5, <1>6 DEF ShortChain

LEMMA ShortPackage ==
  ASSUME NEW L \in Nat, NEW st, Short(L, st), NEW i \in 2 .. L
  PROVE  ShortChain(WithPackage(st.lists, i), i)
<1>1. st \in States(L) /\ i \in 1 .. L /\ i - 1 \in 1 .. L
  BY DEF Short
<1>2. WithPackage(st.lists, i) \in Chain
  BY <1>1, PackageChain
<1>3. ShortChain(st.lists[i - 1][2], i - 1) /\ ShortChain(st.lists[i][2], i)
  BY <1>1 DEF Short
<1>4. /\ st.lists[i - 1][2].counts \in Seq(Nat) /\ Len(st.lists[i - 1][2].counts) <= i - 1
      /\ Head(st.lists[i][2].counts) \in Nat
  <2>1. PICK c \in Chain : c = st.lists[i - 1][2]
    BY <1>3 DEF ShortChain
  <2>2. c.counts \in Seq(Nat) /\ Len(c.counts) <= i - 1
    BY <1>3, <2>1 DEF ShortChain, Chain
  <2>3. Cnt(st, i) \in Nat
    BY <1>1, StateTypes
  <2> QED  BY <2>1, <2>2, <2>3 DEF Cnt
<1>5. WithPackage(st.lists, i).counts
        = <<Head(st.lists[i][2].counts)>> \o st.lists[i - 1][2].counts
  BY DEF WithPackage
<1>6. Len(<<Head(st.lists[i][2].counts)>> \o st.lists[i - 1][2].counts)
        = 1 + Len(st.lists[i - 1][2].counts)
  <2>1. <<Head(st.lists[i][2].counts)>> \in Seq(Nat) /\ Len(<<Head(st.lists[i][2].counts)>>) = 1
    BY <1>4
  <2> QED  BY <1>4, <2>1, ConcatProperties
<1>7. Len(st.lists[i - 1][2].counts) \in Nat
  BY <1>4
<1> QED  BY <1>2, <1>4, <1>5, <1>6, <1>7 DEF ShortChain

ShortRuns(lv, L, i) == \A st : Short(L, st) => Short(L, RunsBelow(lv, L)[i][st])

LEMMA EveryRunShort ==
  ASSUME NEW lv \in Seq(Leaf), NEW L \in Nat \ {0}
  PROVE  \A i \in 1 .. L : ShortRuns(lv, L, i)
<1> DEFINE run == RunsBelow(lv, L)
           m == L - 1
           T == {j \in 0 .. m : ShortRuns(lv, L, j + 1)}
<1>1. /\ run[1] = FirstRun(lv, L)
      /\ \A i \in 2 .. L : run[i] = NextRun(lv, L, i, run[i - 1])
  BY RunsAre
<1>2. Len(lv) \in Nat
  OBVIOUS
<1> HIDE DEF run
<1>3. ShortRuns(lv, L, 1)
  <2> SUFFICES ASSUME NEW st, Short(L, st) PROVE Short(L, run[1][st])
    BY DEF ShortRuns, run
  <2>1. 1 \in 1 .. L /\ st \in States(L)
    BY DEF Short
  <2>2. CASE Cnt(st, 1) >= Len(lv)
    <3>1. run[1][st] = st
      BY <1>1, <2>1, <2>2 DEF FirstRun
    <3> QED  BY <3>1
  <2>3. CASE ~ (Cnt(st, 1) >= Len(lv))
    <3>1. run[1][st] = NewChain(st, 1, WithLeaf(lv, st.lists[1][2]))
      BY <1>1, <2>1, <2>3 DEF FirstRun
    <3>2. Cnt(st, 1) \in Nat /\ Cnt(st, 1) = Head(st.lists[1][2].counts)
      BY <2>1, StateTypes DEF Cnt
    <3>3. ShortChain(st.lists[1][2], 1)
      BY <2>1 DEF Short
    <3>4. ShortChain(WithLeaf(lv, st.lists[1][2]), 1)
      BY <1>2, <2>3, <3>2, <3>3, ShortLeaf
    <3> QED  BY <2>1, <3>1, <3>4, ShortNew
  <2> QED  BY <2>2, <2>3
<1>4. ASSUME NEW i \in 2 .. L, ShortRuns(lv, L, i - 1) PROVE ShortRuns(lv, L, i)
  <2> SUFFICES ASSUME NEW st, Short(L, st) PROVE Short(L, run[i][st])
    BY DEF ShortRuns, run
  <2>1. i \in 1 .. L /\ st \in States(L) /\ i \in Nat
    BY DEF Short
  <2>2. run[i] = NextRun(lv, L, i, run[i - 1])
    BY <1>1
  <2>3. CASE TakesLeaf(lv, st.lists, i)
    <3>1. run[i][st] = NewChain(st, i, WithLeaf(lv, st.lists[i][2]))
      BY <2>1, <2>2, <2>3 DEF NextRun
    <3>2. Head(st.lists[i][2].counts) < Len(lv)
      BY <2>3 DEF TakesLeaf
    <3>3. ShortChain(st.lists[i][2], i)
      BY <2>1 DEF Short
    <3>4. ShortChain(WithLeaf(lv, st.lists[i][2]), i)
      BY <2>1, <3>2, <3>3, ShortLeaf
    <3> QED  BY <2>1, <3>1, <3>4, ShortNew
  <2>4. CASE ~ TakesLeaf(lv, st.lists, i)
    <3>1. run[i][st] = run[i - 1][run[i - 1][NewChain(st, i, WithPackage(st.lists, i))]]
      BY <2>1, <2>2, <2>4 DEF NextRun
    <3>2. Short(L, NewChain(st, i, WithPackage(st.lists, i)))
      BY <2>1, ShortPackage, ShortNew
    <3>3. Short(L, run[i - 1][NewChain(st, i, WithPackage(st.lists, i))])
      BY <1>4, <3>2 DEF ShortRuns, run
    <3>4. Short(L, run[i - 1][run[i - 1][NewChain(st, i, WithPackage(st.lists, i))]])
      BY <1>4, <3>3 DEF ShortRuns, run
    <3> QED  BY <3>1, <3>4
  <2> QED  BY <2>3, <2>4
<1>5. m \in Nat
  OBVIOUS
<1>6. 0 \in T
  BY <1>3, <1>5
<1>7. ASSUME NEW j \in 0 .. m - 1, j \in T PROVE j + 1 \in T
  <2>1. j + 1 \in 0 .. m /\ (j + 1) + 1 \in 2 .. L /\ ((j + 1) + 1) - 1 = j + 1
    OBVIOUS
  <2>2. ShortRuns(lv, L, j + 1)
    BY <1>7
  <2>3. ShortRuns(lv, L, (j + 1) + 1)
    BY <1>4, <2>1, <2>2
  <2> QED  BY <2>1, <2>3
<1> HIDE DEF T
<1>8. \A j \in 0 .. m : j \in T
  <2> HIDE DEF m
  <2> QED  BY <1>5, <1>6, <1>7, UpTo
<1> SUFFICES ASSUME NEW i \in 1 .. L PROVE ShortRuns(lv, L, i)
  OBVIOUS
<1>9. i - 1 \in 0 .. m /\ (i - 1) + 1 = i
  OBVIOUS
<1> QED  BY <1>8, <1>9 DEF T

LEMMA MergedShort ==
  ASSUME NEW lv \in Seq(Leaf), NEW L \in Nat \ {0}, NEW st, Short(L, st), NEW m \in Nat
  PROVE  Short(L, MergedLists(lv, st, m))
<1> DEFINE S == {x \in States(L) : Short(L, x)}
           P == [n \in 0 .. m |-> S]
           go == [z \in Nat \X S |-> BoundaryPM(lv, z[2])]
           Is(f) == f = [r \in 0 .. m |-> IF r = 0 THEN st ELSE BoundaryPM(lv, f[r - 1])]
           merged == CHOOSE f : Is(f)
           T == {n \in 0 .. m : merged[n] \in S}
<1>0. \A x : Short(L, x) <=> x \in S
  BY DEF Short
<1>1. ASSUME NEW x \in S PROVE BoundaryPM(lv, x) \in S
  <2>1. x \in States(L) /\ Short(L, x)
    OBVIOUS
  <2>2. Len(x.lists) = L /\ L \in 1 .. L
    BY <2>1, ListsOf
  <2>3. BoundaryPM(lv, x) = RunsBelow(lv, L)[L][x]
    BY <2>2 DEF BoundaryPM
  <2>4. Short(L, RunsBelow(lv, L)[L][x])
    BY <2>1, <2>2, EveryRunShort DEF ShortRuns
  <2> HIDE DEF S
  <2> QED  BY <2>3, <2>4, <1>0
<1>2. \A n \in Nat, x \in S : go[<<n, x>>] = BoundaryPM(lv, x)
  OBVIOUS
<1>3. \A n \in 0 .. m : P[n] = S
  OBVIOUS
<1>4. st \in S
  BY <1>0
<1> HIDE DEF P, go, S
<1>5. Leads(go, P, m)
  <2> SUFFICES ASSUME NEW n \in 1 .. m, NEW v \in P[n - 1] PROVE go[<<n, v>>] \in P[n]
    BY DEF Leads
  <2>1. n - 1 \in 0 .. m /\ n \in 0 .. m /\ n \in Nat
    OBVIOUS
  <2>2. P[n - 1] = S /\ P[n] = S
    BY <2>1, <1>3
  <2>3. v \in S
    BY <2>2
  <2> QED  BY <2>1, <2>2, <2>3, <1>1, <1>2
<1>6. st \in P[0]
  BY <1>3, <1>4
<1>7. PICK f : StepsWithin(f, st, go, P, m)
  BY <1>5, <1>6, StepsAreThere
<1>8. \E h : Is(h)
  <2>1. ASSUME NEW n \in 0 .. m, n # 0 PROVE go[<<n, f[n - 1]>>] = BoundaryPM(lv, f[n - 1])
    <3>1. n - 1 \in 0 .. m /\ n \in Nat
      BY <2>1
    <3>2. f[n - 1] \in S
      BY <3>1, <1>3, <1>7 DEF StepsWithin
    <3> QED  BY <3>1, <3>2, <1>2
  <2>2. Is(f)
    BY <2>1, <1>7 DEF StepsWithin
  <2> HIDE DEF Is
  <2> QED  BY <2>2
<1>9. Is(merged)
  <2> HIDE DEF Is
  <2> QED  BY <1>8
<1>10. MergedLists(lv, st, m) = merged[m]
  BY DEF MergedLists
<1> HIDE DEF merged
<1>11. 0 \in T
  BY <1>4, <1>9
<1>12. ASSUME NEW n \in 0 .. m - 1, n \in T PROVE n + 1 \in T
  <2>1. n + 1 \in 0 .. m /\ n + 1 # 0 /\ (n + 1) - 1 = n
    OBVIOUS
  <2>2. merged[n + 1] = BoundaryPM(lv, merged[n])
    BY <2>1, <1>9
  <2> QED  BY <2>1, <2>2, <1>1, <1>12
<1> HIDE DEF T
<1>13. \A n \in 0 .. m : n \in T
  BY <1>11, <1>12, UpTo
<1>14. merged[m] \in S
  <2>1. m \in T
    BY <1>13
  <2> QED  BY <2>1 DEF T
<1> QED  BY <1>0, <1>10, <1>14

LEMMA FirstListsShort ==
  ASSUME NEW lv \in ManyLeaves, NEW b \in 1 .. 15
  PROVE  Short(Limit(b, Len(lv)), InitLists(lv, b))
<1> DEFINE L == Limit(b, Len(lv))
           st == InitLists(lv, b)
           first == [weight |-> lv[1].weight, counts |-> <<1>>]
           second == [weight |-> lv[2].weight, counts |-> <<2>>]
<1>1. Len(lv) \in Nat /\ Len(lv) >= 3 /\ lv[1].weight \in Nat /\ lv[2].weight \in Nat
  BY LeavesAre
<1>2. L \in Nat \ {0}
  BY <1>1, LimitIs
<1> HIDE DEF L
<1>3. first \in Chain /\ second \in Chain /\ Len(first.counts) = 1 /\ Len(second.counts) = 1
  BY <1>1 DEF Chain
<1>4. st = [used |-> 2, lists |-> [k \in 1 .. L |-> <<first, second>>]]
  BY DEF InitLists, L
<1> HIDE DEF first, second
<1>5. st \in States(L) /\ \A k \in 1 .. L : st.lists[k] = <<first, second>>
  BY <1>3, <1>4 DEF States
<1> HIDE DEF st
<1>6. ASSUME NEW k \in 1 .. L
      PROVE  ShortChain(st.lists[k][1], k) /\ ShortChain(st.lists[k][2], k)
  <2>1. st.lists[k][1] = first /\ st.lists[k][2] = second
    BY <1>5
  <2>2. 1 <= k
    OBVIOUS
  <2>3. Len(first.counts) <= k /\ Len(second.counts) <= k
    BY <1>3, <2>2
  <2> QED  BY <1>3, <2>1, <2>3 DEF ShortChain
<1> QED  BY <1>5, <1>6 DEF Short, st, L

LEMMA FinalShort ==
  ASSUME NEW lv \in Seq(Leaf), NEW L \in Nat \ {0, 1}, NEW st, Short(L, st)
  PROVE  /\ BoundaryPMFinal(lv, st).lists[L][2].counts \in Seq(Nat)
         /\ Len(BoundaryPMFinal(lv, st).lists[L][2].counts) <= L
         /\ Len(BoundaryPMFinal(lv, st).lists) = L
<1> DEFINE end == BoundaryPMFinal(lv, st)
<1>1. st \in States(L) /\ L \in 1 .. L /\ L \in 2 .. L
  BY DEF Short
<1>2. Len(st.lists) = L
  BY <1>1, ListsOf
<1>3. st.lists \in [1 .. L -> Chain \X Chain] /\ st = [used |-> st.used, lists |-> st.lists]
  BY <1>1 DEF States
<1>4. PICK one \in Chain, two \in Chain : st.lists[L] = <<one, two>>
  BY <1>1, <1>3
<1>5. st.lists[L][2] = two /\ ShortChain(two, L)
  BY <1>1, <1>4 DEF Short
<1>6. CASE TakesLeaf(lv, st.lists, L)
  <2>1. end = [st EXCEPT !.used = @ + 1, !.lists[L][2] = WithLeaf(lv, @)]
    BY <1>2, <1>6 DEF BoundaryPMFinal
  <2>2. end.lists = [st.lists EXCEPT ![L] = <<one, WithLeaf(lv, two)>>]
    <3> DEFINE w == WithLeaf(lv, st.lists[L][2])
    <3>1. w = WithLeaf(lv, two)
      BY <1>5
    <3>2. end.lists = [st.lists EXCEPT ![L] = [st.lists[L] EXCEPT ![2] = w]]
      BY <1>1, <1>3, <2>1
    <3> HIDE DEF w, end
    <3>3. [<<one, two>> EXCEPT ![2] = w] = <<one, w>>
      OBVIOUS
    <3> QED  BY <1>4, <3>1, <3>2, <3>3
  <2>3. end.lists[L] = <<one, WithLeaf(lv, two)>>
    BY <1>1, <1>3, <2>2
  <2>4. Head(two.counts) < Len(lv)
    BY <1>5, <1>6 DEF TakesLeaf
  <2>5. ShortChain(WithLeaf(lv, two), L)
    BY <1>5, <2>4, ShortLeaf
  <2>6. end.lists \in [1 .. L -> Chain \X Chain]
    BY <1>1, <1>3, <2>2, <2>5 DEF ShortChain
  <2>7. Len(end.lists) = L
    BY <2>6
  <2>8. end.lists[L][2] = WithLeaf(lv, two)
    BY <2>3
  <2> HIDE DEF end
  <2> QED  BY <2>5, <2>7, <2>8 DEF ShortChain, Chain, end
<1>7. CASE ~ TakesLeaf(lv, st.lists, L)
  <2> DEFINE counts == WithPackage(st.lists, L).counts
  <2>1. end = [st EXCEPT !.lists[L][2].counts = counts]
    BY <1>2, <1>7 DEF BoundaryPMFinal
  <2>2. ShortChain(WithPackage(st.lists, L), L)
    BY <1>1, ShortPackage
  <2>3. counts \in Seq(Nat) \ {<< >>} /\ Len(counts) <= L
    BY <2>2 DEF ShortChain, Chain
  <2> HIDE DEF counts
  <2>4. two.weight \in Nat /\ two = [weight |-> two.weight, counts |-> two.counts]
    BY DEF Chain
  <2>5. [two EXCEPT !.counts = counts] = [weight |-> two.weight, counts |-> counts]
    BY <2>4
  <2>6. end.lists = [st.lists EXCEPT ![L] = <<one, [weight |-> two.weight, counts |-> counts]>>]
    <3> DEFINE w == [weight |-> two.weight, counts |-> counts]
    <3>1. end.lists = [st.lists EXCEPT ![L] = [st.lists[L] EXCEPT ![2] =
                                                 [st.lists[L][2] EXCEPT !.counts = counts]]]
      BY <1>1, <1>3, <2>1
    <3>2. end.lists = [st.lists EXCEPT ![L] = [<<one, two>> EXCEPT ![2] = w]]
      BY <1>4, <1>5, <2>5, <3>1
    <3> HIDE DEF w, end
    <3>3. [<<one, two>> EXCEPT ![2] = w] = <<one, w>>
      OBVIOUS
    <3> QED  BY <3>2, <3>3 DEF w
  <2>7. end.lists[L] = <<one, [weight |-> two.weight, counts |-> counts]>>
    BY <1>1, <1>3, <2>6
  <2>8. [weight |-> two.weight, counts |-> counts] \in Chain
    BY <2>3, <2>4 DEF Chain
  <2>9. end.lists \in [1 .. L -> Chain \X Chain]
    BY <1>1, <1>3, <2>6, <2>8
  <2>10. Len(end.lists) = L
    BY <2>9
  <2>11. end.lists[L][2].counts = counts
    BY <2>7
  <2> HIDE DEF end
  <2> QED  BY <2>3, <2>10, <2>11 DEF end
<1> QED  BY <1>6, <1>7

(* A leaf has a length because a chain ends.                                 *)
LEMMA ExtractedWithin ==
  ASSUME NEW freq, NEW lv, NEW counts \in Seq(Nat), NEW b \in Nat, Len(counts) <= b
  PROVE  ExtractBitLengths(freq, lv, counts) \in [DOMAIN freq -> 0 .. b]
<1> DEFINE Covered(v, j) == IF j > Len(counts) THEN FALSE ELSE v <= counts[j]
           IsLength(v, j) == ~ Covered(v, j + 1) /\ \A k \in 1 .. j : Covered(v, k)
           LengthOf(v) == IF ~ Covered(v, 1) THEN 0
                          ELSE CHOOSE j \in DOMAIN counts : IsLength(v, j)
           RankOf(s) == CHOOSE v \in DOMAIN lv : lv[v].symbol = s
<1>1. Len(counts) \in Nat /\ DOMAIN counts = 1 .. Len(counts)
  OBVIOUS
<1>2. ASSUME NEW v PROVE LengthOf(v) \in 0 .. b
  <2>1. CASE ~ Covered(v, 1)
    <3> HIDE DEF Covered
    <3> QED  BY <2>1
  <2>2. CASE Covered(v, 1)
    <3> DEFINE S == {j \in DOMAIN counts : ~ Covered(v, j + 1)}
    <3>1. S \subseteq Nat /\ Len(counts) \in S
      BY <1>1, <2>2
    <3>2. PICK j \in S : LeastOf(S, j)
      <4> HIDE DEF S
      <4> QED  BY <3>1, LeastExists DEF LeastOf
    <3>3. j \in DOMAIN counts /\ ~ Covered(v, j + 1) /\ j \in Nat /\ j <= Len(counts)
      BY <1>1
    <3>4. ASSUME NEW k \in 1 .. j PROVE Covered(v, k)
      <4>1. CASE k = 1
        <5> HIDE DEF Covered
        <5> QED  BY <2>2, <4>1
      <4>2. CASE k # 1
        <5>1. k - 1 \in DOMAIN counts /\ (k - 1) + 1 = k /\ ~ (j <= k - 1)
          BY <1>1, <3>3, <4>2
        <5>2. k - 1 \notin S
          BY <3>2, <5>1 DEF LeastOf
        <5> HIDE DEF Covered
        <5> QED  BY <5>1, <5>2
      <4> QED  BY <4>1, <4>2
    <3> HIDE DEF Covered
    <3>5. IsLength(v, j)
      BY <3>3, <3>4
    <3>6. LengthOf(v) = CHOOSE i \in DOMAIN counts : IsLength(v, i)
      BY <2>2
    <3> HIDE DEF IsLength, LengthOf
    <3>7. LengthOf(v) \in DOMAIN counts
      BY <3>3, <3>5, <3>6
    <3> QED  BY <1>1, <3>7
  <2> QED  BY <2>1, <2>2
<1>3. ExtractBitLengths(freq, lv, counts)
        = [s \in DOMAIN freq |-> IF freq[s] = 0 THEN 0 ELSE LengthOf(RankOf(s))]
  BY DEF ExtractBitLengths
<1> HIDE DEF LengthOf, RankOf
<1> QED  BY <1>2, <1>3

(* The code lengths of a tree are within the limit.                          *)
LEMMA LengthsWithin ==
  ASSUME NEW freq, IsFiniteSet(DOMAIN freq), DOMAIN freq \subseteq Nat,
         \A s \in DOMAIN freq : freq[s] \in Nat, NEW b \in 2 .. 15
  PROVE  LengthLimitedCodeLengths(freq, b) \in [DOMAIN freq -> 0 .. b]
<1> DEFINE lv == SortLeaves(freq)
           st == InitLists(lv, b)
           m == RunsFor(Len(lv)) - 1
           merged == BoundaryPMFinal(lv, MergedLists(lv, st, m))
           L == Limit(b, Len(lv))
<1>1. lv \in SortedLeaves
  BY SortLeavesIs
<1> HIDE DEF lv
<1>2. LengthLimitedCodeLengths(freq, b)
        = IF Len(lv) <= 2 THEN FewLengths(freq)
          ELSE ExtractBitLengths(freq, lv, merged.lists[Len(merged.lists)][2].counts)
  BY DEF LengthLimitedCodeLengths, lv
<1> HIDE DEF merged
<1>3. CASE Len(lv) <= 2
  <2>1. LengthLimitedCodeLengths(freq, b) = FewLengths(freq)
    BY <1>2, <1>3
  <2> QED  BY <2>1 DEF FewLengths
<1>4. CASE ~ (Len(lv) <= 2)
  <2>1. lv \in ManyLeaves
    BY <1>1, <1>4 DEF ManyLeaves, SortedLeaves
  <2>2. Len(lv) \in Nat /\ Len(lv) >= 3 /\ lv \in Seq(Leaf)
    BY <2>1, LeavesAre
  <2>3. L \in Nat \ {0, 1} /\ L <= b /\ b \in 1 .. 15
    <3> DEFINE n == Len(lv)
    <3>0. n \in Nat /\ n >= 3
      BY <2>2
    <3> HIDE DEF n
    <3>1a. b \in Nat /\ 2 <= b /\ b \in 1 .. 15
      OBVIOUS
    <3>1b. n - 1 \in Nat /\ 2 <= n - 1
      BY <3>0
    <3>2. L = b \/ (L = n - 1 /\ ~ (b < n - 1))
      BY DEF Limit, Smallest, n
    <3> HIDE DEF L
    <3>3. L \in Nat /\ 2 <= L /\ L <= b
      BY <3>1a, <3>1b, <3>2
    <3>4. L # 0 /\ L # 1
      BY <3>3
    <3> QED  BY <3>1a, <3>3, <3>4
  <2>4. Short(L, st)
    BY <2>1, <2>3, FirstListsShort
  <2>5. m \in Nat
    BY <2>2 DEF RunsFor
  <2> HIDE DEF L, st, m
  <2>6. Short(L, MergedLists(lv, st, m))
    BY <2>2, <2>3, <2>4, <2>5, MergedShort
  <2>7. /\ merged.lists[L][2].counts \in Seq(Nat) /\ Len(merged.lists[L][2].counts) <= L
        /\ Len(merged.lists) = L
    BY <2>2, <2>3, <2>6, FinalShort DEF merged
  <2>8. Len(merged.lists[L][2].counts) <= b /\ b \in Nat
    BY <2>3, <2>7
  <2> QED  BY <1>2, <1>4, <2>7, <2>8, ExtractedWithin
<1> QED  BY <1>3, <1>4

-----------------------------------------------------------------------------
(* The trees a block can be given: lengths for all symbols.                  *)
LLSymbols == 0 .. NumLL - 1
DSymbols == 0 .. NumD - 1
CodeTree(tree) == tree.ll \in [LLSymbols -> 0 .. 15] /\ tree.d \in [DSymbols -> 0 .. 15]
CodeCounts(counts) == counts.ll \in [LLSymbols -> Nat] /\ counts.d \in [DSymbols -> Nat]

LEMMA SymbolsAre ==
  /\ \A s \in 0 .. 287 : s \in LLSymbols
  /\ \A s \in 0 .. 31 : s \in DSymbols
  /\ LLSymbols \subseteq Nat /\ DSymbols \subseteq Nat
  /\ IsFiniteSet(LLSymbols) /\ IsFiniteSet(DSymbols)
<1>1. NumLL - 1 = 287 /\ NumD - 1 = 31
  BY DEF NumLL, NumD
<1>2. IsFiniteSet(0 .. NumLL - 1) /\ IsFiniteSet(0 .. NumD - 1)
  <2>1. NumLL - 1 \in Int /\ NumD - 1 \in Int
    BY <1>1
  <2> HIDE DEF NumLL, NumD
  <2> QED  BY <2>1, FS_Interval
<1>3. (\A s \in 0 .. 287 : s \in LLSymbols) /\ LLSymbols \subseteq Nat
  BY <1>1 DEF LLSymbols
<1>4. (\A s \in 0 .. 31 : s \in DSymbols) /\ DSymbols \subseteq Nat
  BY <1>1 DEF DSymbols
<1> QED  BY <1>2, <1>3, <1>4 DEF LLSymbols, DSymbols

LEMMA TreesAreCodable == ASSUME NEW tree, CodeTree(tree) PROVE Codable(tree)
<1>1. ASSUME NEW s \in 0 .. 287 PROVE tree.ll[s] \in Nat
  <2>1. s \in LLSymbols
    BY SymbolsAre
  <2>2. tree.ll[s] \in 0 .. 15
    BY <2>1 DEF CodeTree
  <2> QED  BY <2>2
<1>2. ASSUME NEW s \in 0 .. 31 PROVE tree.d[s] \in Nat
  <2>1. s \in DSymbols
    BY SymbolsAre
  <2>2. tree.d[s] \in 0 .. 15
    BY <2>1 DEF CodeTree
  <2> QED  BY <2>2
<1> QED  BY <1>1, <1>2 DEF Codable, NatsFrom

LEMMA FixedTreeIs == CodeTree(FixedTree)
<1>1. FixedTree.ll \in [LLSymbols -> 0 .. 15]
  <2> DEFINE len(s) == CASE s < 144 -> 8 [] s \in 144 .. 255 -> 9
                         [] s \in 256 .. 279 -> 7 [] OTHER -> 8
  <2>1. FixedTree.ll = [s \in LLSymbols |-> len(s)]
    BY DEF FixedTree, LLSymbols
  <2>2. \A s \in LLSymbols : len(s) \in 0 .. 15
    OBVIOUS
  <2> HIDE DEF len
  <2> QED  BY <2>1, <2>2
<1>2. FixedTree.d \in [DSymbols -> 0 .. 15]
  BY DEF FixedTree, DSymbols
<1> QED  BY <1>1, <1>2 DEF CodeTree

LEMMA PatchedWithin ==
  ASSUME NEW d \in [DSymbols -> 0 .. 15]
  PROVE  PatchDistanceCodesForBuggyDecoders(d) \in [DSymbols -> 0 .. 15]
<1> DEFINE codes == {s \in 0 .. 29 : d[s] # 0}
           more == Cardinality(codes) >= 2
           both == [d EXCEPT ![0] = 1, ![1] = 1]
           one == [d EXCEPT ![IF d[0] # 0 THEN 1 ELSE 0] = 1]
<1>1. PatchDistanceCodesForBuggyDecoders(d)
        = CASE more -> d [] codes = {} -> both [] OTHER -> one
  BY DEF PatchDistanceCodesForBuggyDecoders
<1>2. 0 \in DSymbols /\ 1 \in DSymbols
  BY SymbolsAre
<1>3. both \in [DSymbols -> 0 .. 15] /\ one \in [DSymbols -> 0 .. 15]
  BY <1>2
<1> HIDE DEF more, both, one, codes
<1>4. PatchDistanceCodesForBuggyDecoders(d) \in {d, both, one}
  BY <1>1
<1> QED  BY <1>3, <1>4

LEMMA CodesWithin == ASSUME NEW counts, CodeCounts(counts) PROVE CodeTree(CodeLengthsFor(counts))
<1>1. DOMAIN counts.ll = LLSymbols /\ DOMAIN counts.d = DSymbols
      /\ (\A s \in LLSymbols : counts.ll[s] \in Nat) /\ (\A s \in DSymbols : counts.d[s] \in Nat)
  BY DEF CodeCounts
<1>2. 15 \in 2 .. 15
  OBVIOUS
<1>3. LengthLimitedCodeLengths(counts.ll, 15) \in [LLSymbols -> 0 .. 15]
  BY <1>1, <1>2, SymbolsAre, LengthsWithin
<1>4. LengthLimitedCodeLengths(counts.d, 15) \in [DSymbols -> 0 .. 15]
  BY <1>1, <1>2, SymbolsAre, LengthsWithin
<1> QED  BY <1>3, <1>4, PatchedWithin DEF CodeTree, CodeLengthsFor

(* What is left when zeros at the end are trimmed.                           *)
LEMMA LastOf ==
  ASSUME NEW m \in Nat, NEW Z
  PROVE  \E n \in 0 .. m : (n > 0 => n \in Z) /\ \A k \in n + 1 .. m : k \notin Z
<1> DEFINE S == {n \in 0 .. m : \A k \in n + 1 .. m : k \notin Z}
<1>1. S \subseteq Nat /\ m \in S
  OBVIOUS
<1>2. PICK n \in S : LeastOf(S, n)
  <2> HIDE DEF S
  <2> QED  BY <1>1, LeastExists DEF LeastOf
<1>3. n \in 0 .. m /\ \A k \in n + 1 .. m : k \notin Z
  OBVIOUS
<1>4. ASSUME n > 0 PROVE n \in Z
  <2>1. n - 1 \in 0 .. m /\ ~ (n <= n - 1) /\ (n - 1) + 1 = n
    BY <1>3, <1>4
  <2>2. n - 1 \notin S
    BY <1>2, <2>1 DEF LeastOf
  <2>3. PICK k \in n .. m : k \in Z
    BY <2>1, <2>2
  <2>4. k \notin n + 1 .. m
    BY <1>3, <2>3
  <2>5. k = n
    BY <1>3, <2>3, <2>4
  <2> QED  BY <2>3, <2>5
<1> QED  BY <1>3, <1>4

LEMMA TrimmedIs == ASSUME NEW f, NEW least \in Nat PROVE Trimmed(f, least) \in 0 .. 29
<1> DEFINE Z == {n \in 0 .. 29 : f[least + n - 1] # 0}
           Is(n) == /\ n > 0 => f[least + n - 1] # 0
                    /\ \A k \in n + 1 .. 29 : f[least + k - 1] = 0
<1>1. 29 \in Nat
  OBVIOUS
<1>2. PICK n \in 0 .. 29 : (n > 0 => n \in Z) /\ \A k \in n + 1 .. 29 : k \notin Z
  <2> HIDE DEF Z
  <2> QED  BY <1>1, LastOf
<1>3. n > 0 => f[least + n - 1] # 0
  BY <1>2
<1>4. ASSUME NEW k \in n + 1 .. 29 PROVE f[least + k - 1] = 0
  <2>1. k \in 0 .. 29 /\ k \notin Z
    BY <1>2
  <2> QED  BY <2>1
<1>5. Is(n)
  BY <1>3, <1>4
<1>6. Trimmed(f, least) = CHOOSE i \in 0 .. 29 : Is(i)
  BY DEF Trimmed
<1> HIDE DEF Is
<1> QED  BY <1>5, <1>6

LEMMA HclenIs == ASSUME NEW f PROVE Hclen(f) \in 0 .. 15
<1> DEFINE Z == {n \in 0 .. 15 : f[Order[n + 4]] # 0}
           Is(n) == /\ n > 0 => f[Order[n + 4]] # 0
                    /\ \A k \in n + 1 .. 15 : f[Order[k + 4]] = 0
<1>1. 15 \in Nat
  OBVIOUS
<1>2. PICK n \in 0 .. 15 : (n > 0 => n \in Z) /\ \A k \in n + 1 .. 15 : k \notin Z
  <2> HIDE DEF Z
  <2> QED  BY <1>1, LastOf
<1>3. n > 0 => f[Order[n + 4]] # 0
  BY <1>2
<1>4. ASSUME NEW k \in n + 1 .. 15 PROVE f[Order[k + 4]] = 0
  <2>1. k \in 0 .. 15 /\ k \notin Z
    BY <1>2
  <2> QED  BY <2>1
<1>5. Is(n)
  BY <1>3, <1>4
<1>6. Hclen(f) = CHOOSE i \in 0 .. 15 : Is(i)
  BY DEF Hclen
<1> HIDE DEF Is
<1> QED  BY <1>5, <1>6

LEMMA OverIsSeq ==
  ASSUME NEW S, NEW n \in Nat, NEW f \in [1 .. n -> S]
  PROVE  f \in Seq(S) /\ Len(f) = n
OBVIOUS

LEMMA TreeLensAre ==
  ASSUME NEW tree, CodeTree(tree)
  PROVE  BuildTreeLens(tree.ll, tree.d).lens \in Seq(0 .. 15)
<1> DEFINE hlit == Trimmed(tree.ll, 257)
           hdist == Trimmed(tree.d, 1)
           first == [i \in 1 .. hlit + 257 |-> tree.ll[i - 1]]
           second == [i \in 1 .. hdist + 1 |-> tree.d[i - 1]]
<1>1. hlit \in 0 .. 29 /\ hdist \in 0 .. 29
  BY TrimmedIs
<1>2. BuildTreeLens(tree.ll, tree.d).lens = first \o second
  BY DEF BuildTreeLens
<1> HIDE DEF hlit, hdist
<1>3. ASSUME NEW i \in 1 .. hlit + 257 PROVE first[i] \in 0 .. 15
  <2>1. i - 1 \in 0 .. 287
    BY <1>1
  <2>2. i - 1 \in LLSymbols
    BY <2>1, SymbolsAre
  <2> QED  BY <2>2 DEF CodeTree
<1>4. ASSUME NEW i \in 1 .. hdist + 1 PROVE second[i] \in 0 .. 15
  <2>1. i - 1 \in 0 .. 31
    BY <1>1
  <2>2. i - 1 \in DSymbols
    BY <2>1, SymbolsAre
  <2> QED  BY <2>2 DEF CodeTree
<1>5. first \in Seq(0 .. 15) /\ second \in Seq(0 .. 15)
  <2>1. hlit + 257 \in Nat /\ hdist + 1 \in Nat
    BY <1>1
  <2>2. first \in [1 .. hlit + 257 -> 0 .. 15] /\ second \in [1 .. hdist + 1 -> 0 .. 15]
    BY <1>3, <1>4
  <2> HIDE DEF first, second
  <2>3. first \in Seq(0 .. 15)
    BY <2>1, <2>2, OverIsSeq
  <2>4. second \in Seq(0 .. 15)
    BY <2>1, <2>2, OverIsSeq
  <2> QED  BY <2>3, <2>4
<1> HIDE DEF first, second
<1> QED  BY <1>2, <1>5, ConcatProperties

-----------------------------------------------------------------------------
(* The codes for a run of lengths: each takes at most what there is.         *)
Run == [left : Nat, pieces : Seq(Nat)]
Item == [code : 0 .. 18, extra : Int]

LEMMA CutIs ==
  ASSUME NEW run \in Run, NEW least \in Nat, NEW most \in Nat
  PROVE  Cut(run, least, most) \in Run
<1> DEFINE p == Smallest(run.left, most)
<1>1. run.left \in Nat /\ run.pieces \in Seq(Nat)
  BY DEF Run
<1>2. p \in Nat /\ p <= run.left
  BY <1>1 DEF Smallest
<1> HIDE DEF p
<1>3. run.left - p \in Nat /\ Append(run.pieces, p) \in Seq(Nat)
  BY <1>1, <1>2
<1>4. [left |-> run.left - p, pieces |-> Append(run.pieces, p)] \in Run
  BY <1>3 DEF Run
<1>5. Cut(run, least, most)
        = IF run.left < least THEN run
          ELSE [left |-> run.left - p, pieces |-> Append(run.pieces, p)]
  BY DEF Cut, p
<1> QED  BY <1>4, <1>5

LEMMA PiecesAre ==
  ASSUME NEW count \in Nat, NEW least \in Nat \ {0}, NEW most \in Nat
  PROVE  Pieces(count, least, most) \in Run
<1> DEFINE m == count \div least
           P == [n \in 0 .. m |-> Run]
           go == [z \in Nat \X Run |-> Cut(z[2], least, most)]
           Is(f) == f = [n \in 0 .. m |-> IF n = 0 THEN Uncut(count)
                                          ELSE Cut(f[n - 1], least, most)]
           cut == CHOOSE f : Is(f)
           T == {n \in 0 .. m : cut[n] \in Run}
<1>1. m \in Nat
  BY DivIs
<1>2. Uncut(count) \in Run
  BY DEF Uncut, Run
<1>3. \A n \in Nat, x \in Run : go[<<n, x>>] = Cut(x, least, most)
  OBVIOUS
<1>4. \A n \in 0 .. m : P[n] = Run
  OBVIOUS
<1>5. Pieces(count, least, most) = cut[m]
  BY DEF Pieces
<1> HIDE DEF P, go, m
<1>6. Leads(go, P, m)
  <2> SUFFICES ASSUME NEW n \in 1 .. m, NEW v \in P[n - 1] PROVE go[<<n, v>>] \in P[n]
    BY DEF Leads
  <2>1. n - 1 \in 0 .. m /\ n \in 0 .. m /\ n \in Nat
    BY <1>1
  <2>2. P[n - 1] = Run /\ P[n] = Run
    BY <2>1, <1>4
  <2>3. v \in Run
    BY <2>2
  <2> QED  BY <2>1, <2>2, <2>3, <1>3, CutIs
<1>7. Uncut(count) \in P[0]
  BY <1>1, <1>2, <1>4
<1>8. PICK f : StepsWithin(f, Uncut(count), go, P, m)
  BY <1>1, <1>6, <1>7, StepsAreThere
<1>9. \E h : Is(h)
  <2>1. ASSUME NEW n \in 0 .. m, n # 0 PROVE go[<<n, f[n - 1]>>] = Cut(f[n - 1], least, most)
    <3>1. n - 1 \in 0 .. m /\ n \in Nat
      BY <1>1, <2>1
    <3>2. f[n - 1] \in Run
      BY <3>1, <1>4, <1>8 DEF StepsWithin
    <3> QED  BY <3>1, <3>2, <1>3
  <2>2. Is(f)
    BY <2>1, <1>8 DEF StepsWithin
  <2> HIDE DEF Is
  <2> QED  BY <2>2
<1>10. Is(cut)
  <2> HIDE DEF Is
  <2> QED  BY <1>9
<1> HIDE DEF cut
<1>11. 0 \in T
  BY <1>1, <1>2, <1>10
<1>12. ASSUME NEW n \in 0 .. m - 1, n \in T PROVE n + 1 \in T
  <2>1. n + 1 \in 0 .. m /\ n + 1 # 0 /\ (n + 1) - 1 = n
    BY <1>1
  <2>2. cut[n + 1] = Cut(cut[n], least, most)
    BY <2>1, <1>10
  <2>3. cut[n + 1] \in Run
    BY <2>2, <1>12, CutIs
  <2> QED  BY <2>1, <2>3
<1> HIDE DEF T
<1>13. \A n \in 0 .. m : n \in T
  BY <1>1, <1>11, <1>12, UpTo
<1>14. m \in T
  BY <1>1, <1>13
<1> QED  BY <1>5, <1>14 DEF T

LEMMA RepeatsAre ==
  ASSUME NEW code \in 0 .. 18, NEW p \in Seq(Nat), NEW least \in Nat
  PROVE  Repeats(code, p, least) \in Seq(Item)
<1>1. Len(p) \in Nat /\ DOMAIN p = 1 .. Len(p) /\ \A k \in 1 .. Len(p) : p[k] \in Nat
  OBVIOUS
<1>2. Repeats(code, p, least) \in [1 .. Len(p) -> Item]
  BY <1>1 DEF Repeats, Item
<1> QED  BY <1>1, <1>2, OverIsSeq

LEMMA SinglesAre ==
  ASSUME NEW symbol \in 0 .. 15, NEW n \in Nat
  PROVE  Singles(symbol, n) \in Seq(Item)
<1>1. Singles(symbol, n) \in [1 .. n -> Item]
  BY DEF Singles, Item
<1> QED  BY <1>1, OverIsSeq

LEMMA RunCodesAre ==
  ASSUME NEW symbol \in 0 .. 15, NEW count \in Nat, NEW use
  PROVE  RunCodes(symbol, count, use) \in Seq(Item)
<1> DEFINE zeros == symbol = 0 /\ count >= 3
           Codes(long, short, once, again) ==
             Repeats(18, long.pieces, 11) \o Repeats(17, short.pieces, 3)
               \o Singles(symbol, once) \o Repeats(16, again.pieces, 3)
               \o Singles(symbol, again.left)
           Rest(long, short) ==
             IF use[16] /\ short.left >= 4
               THEN Codes(long, short, 1, Pieces(short.left - 1, 3, 6))
               ELSE Codes(long, short, 0, Uncut(short.left))
           long1 == IF zeros /\ use[18] THEN Pieces(count, 11, LongestZeros) ELSE Uncut(count)
           short1 == IF zeros /\ use[17] THEN Pieces(long1.left, 3, 10) ELSE Uncut(long1.left)
<1>1. RunCodes(symbol, count, use) = Rest(long1, short1)
  BY DEF RunCodes
<1>2. LongestZeros \in Nat
  BY DEF LongestZeros
<1>3. \A n \in Nat : Uncut(n) \in Run
  BY DEF Uncut, Run
<1>4. \A x \in Run : x.left \in Nat /\ x.pieces \in Seq(Nat)
  BY DEF Run
<1> HIDE DEF zeros
<1>5. long1 \in Run
  <2>1. Pieces(count, 11, LongestZeros) \in Run
    BY <1>2, PiecesAre
  <2> QED  BY <1>3, <2>1
<1> HIDE DEF long1
<1>6. short1 \in Run
  <2>1. long1.left \in Nat
    BY <1>4, <1>5
  <2>2. Pieces(long1.left, 3, 10) \in Run
    BY <2>1, PiecesAre
  <2> QED  BY <1>3, <2>1, <2>2
<1> HIDE DEF short1
<1>7. ASSUME NEW long \in Run, NEW short \in Run, NEW once \in Nat, NEW again \in Run
      PROVE  Codes(long, short, once, again) \in Seq(Item)
  <2>1. /\ long.pieces \in Seq(Nat) /\ short.pieces \in Seq(Nat)
        /\ again.pieces \in Seq(Nat) /\ again.left \in Nat
    BY <1>4
  <2>1a. 18 \in 0 .. 18 /\ 17 \in 0 .. 18 /\ 11 \in Nat /\ 3 \in Nat
    OBVIOUS
  <2>2. Repeats(18, long.pieces, 11) \in Seq(Item)
    <3> HIDE DEF Rest, long1, short1
    <3> QED  BY ONLY <2>1, <2>1a, RepeatsAre
  <2>3. Repeats(17, short.pieces, 3) \in Seq(Item)
    <3> HIDE DEF Rest, long1, short1
    <3> QED  BY ONLY <2>1, <2>1a, RepeatsAre
  <2>4. Repeats(16, again.pieces, 3) \in Seq(Item)
    BY <2>1, RepeatsAre
  <2>5. Singles(symbol, once) \in Seq(Item)
    BY SinglesAre
  <2>6. Singles(symbol, again.left) \in Seq(Item)
    BY <2>1, SinglesAre
  <2> QED  BY <2>2, <2>3, <2>4, <2>5, <2>6, ConcatProperties
<1> HIDE DEF Codes
<1>8. CASE use[16] /\ short1.left >= 4
  <2>1. Rest(long1, short1) = Codes(long1, short1, 1, Pieces(short1.left - 1, 3, 6))
    BY <1>8
  <2>2. short1.left - 1 \in Nat
    BY <1>4, <1>6, <1>8
  <2>3. Pieces(short1.left - 1, 3, 6) \in Run
    BY <2>2, PiecesAre
  <2> QED  BY <1>1, <1>5, <1>6, <1>7, <2>1, <2>3
<1>9. CASE ~ (use[16] /\ short1.left >= 4)
  <2>1. Rest(long1, short1) = Codes(long1, short1, 0, Uncut(short1.left))
    BY <1>9
  <2>2. Uncut(short1.left) \in Run
    BY <1>3, <1>4, <1>6
  <2> QED  BY <1>1, <1>5, <1>6, <1>7, <2>1, <2>2
<1> QED  BY <1>8, <1>9

(* The next beginning of a run is later, and one of them or the end.         *)
LEMMA NextIs ==
  ASSUME NEW starts, starts \subseteq Nat, NEW i \in Nat, NEW b \in Int, i <= b
  PROVE  /\ NextOf(starts, i, b) \in Nat /\ i < NextOf(starts, i, b)
         /\ NextOf(starts, i, b) = b + 1 \/ NextOf(starts, i, b) \in starts
<1> DEFINE later == {j \in starts : j > i}
           Is(j) == \A k \in later : j <= k
<1>1. NextOf(starts, i, b) = IF later = {} THEN b + 1 ELSE CHOOSE j \in later : Is(j)
  BY DEF NextOf
<1>2. CASE later = {}
  <2> HIDE DEF later
  <2> QED  BY <1>1, <1>2
<1>3. CASE later # {}
  <2>1. later \subseteq Nat /\ \A j \in later : j \in starts /\ i < j
    OBVIOUS
  <2> HIDE DEF later
  <2>2. PICK j \in later : LeastOf(later, j)
    BY <1>3, <2>1, LeastExists DEF LeastOf
  <2>3. Is(j)
    BY <2>2 DEF LeastOf
  <2>4. NextOf(starts, i, b) = CHOOSE x \in later : Is(x)
    BY <1>1, <1>3
  <2> HIDE DEF Is
  <2>5. NextOf(starts, i, b) \in later
    BY <2>3, <2>4
  <2> QED  BY <2>1, <2>5
<1> QED  BY <1>2, <1>3

LEMMA LensCodesAre ==
  ASSUME NEW lens \in Seq(0 .. 15), NEW use
  PROVE  LensCodes(lens, use) \in Seq(Item)
<1> DEFINE n == Len(lens)
           starts == RunStarts(lens, 1, n)
           Together(symbol) == use[16] \/ (symbol = 0 /\ (use[17] \/ use[18]))
           CountAt(i) == IF Together(lens[i]) THEN NextOf(starts, i, n) - i ELSE 1
           CodesAt(i) == IF Together(lens[i]) /\ i \notin starts THEN << >>
                         ELSE RunCodes(lens[i], CountAt(i), use)
           all == [i \in DOMAIN lens |-> CodesAt(i)]
           counts == [i \in 1 .. n |-> Len(all[i])]
<1>1. n \in Nat /\ DOMAIN lens = 1 .. n /\ \A i \in 1 .. n : lens[i] \in 0 .. 15
  OBVIOUS
<1>2. LensCodes(lens, use) = Concat(all)
  BY DEF LensCodes
<1>3. starts \subseteq Nat
  BY DEF RunStarts
<1> HIDE DEF n, starts, Together
<1>4. ASSUME NEW i \in 1 .. n PROVE CodesAt(i) \in Seq(Item)
  <2>1. i \in Nat /\ n \in Int /\ i <= n
    BY <1>1
  <2>2. NextOf(starts, i, n) \in Nat /\ i < NextOf(starts, i, n)
    BY <1>3, <2>1, NextIs
  <2>3. NextOf(starts, i, n) - i \in Nat
    BY <2>1, <2>2
  <2>4. CountAt(i) \in Nat
    BY <2>3
  <2>5. lens[i] \in 0 .. 15
    BY <1>1
  <2> HIDE DEF CountAt
  <2>6. RunCodes(lens[i], CountAt(i), use) \in Seq(Item)
    BY <2>4, <2>5, RunCodesAre
  <2>7. << >> \in Seq(Item)
    OBVIOUS
  <2> QED  BY <2>6, <2>7
<1> HIDE DEF CodesAt
<1>5. \A i \in 1 .. n : all[i] \in Seq(Item)
  BY <1>1, <1>4
<1>6. DOMAIN all = 1 .. n /\ all \in [1 .. n -> Seq(Item)]
  BY <1>1, <1>4
<1>7. Len(all) = n
  <2> HIDE DEF all
  <2> QED  BY <1>1, <1>6, OverIsSeq
<1>8. \A i \in 1 .. n : counts[i] = Len(all[i])
  OBVIOUS
<1> HIDE DEF all, counts
<1>9. Joined(all, 1, n) \in Seq(Item)
  <2>1. 1 \in Int /\ n \in Int /\ 1 <= n + 1
    BY <1>1
  <2> QED  BY <1>5, <1>8, <2>1, JoinedIs
<1> QED  BY <1>2, <1>7, <1>9 DEF Concat

-----------------------------------------------------------------------------
(* The size of the trees is that of their bits.                              *)
CostOfCode(clcl) == [c \in 0 .. 18 |-> clcl[c] + CodeExtraBits(c)]
CodeUses(codes, clcl) ==
  [c \in 0 .. 18 |-> Cardinality({k \in DOMAIN codes : codes[k].code = c}) * CostOfCode(clcl)[c]]
TreeCoded(best) ==
  /\ best.codes \in Seq(Item) /\ best.clcl \in [0 .. 18 -> 0 .. 7] /\ best.hclen \in 0 .. 15
  /\ best.size = 14 + 3 * (best.hclen + 4) + Total(CodeUses(best.codes, best.clcl), 0, 18)

LEMMA PlacesAre ==
  ASSUME NEW S, NEW s \in Seq(S), NEW K, K \subseteq DOMAIN s
  PROVE  IsFiniteSet(K) /\ Cardinality(K) \in Nat
<1>1. Len(s) \in Int /\ DOMAIN s = 1 .. Len(s)
  OBVIOUS
<1>2. IsFiniteSet(1 .. Len(s))
  BY <1>1, FS_Interval
<1> QED  BY <1>1, <1>2, FS_Subset, FS_CardinalityType

LEMMA TreeCodesAre ==
  ASSUME NEW t, t.lens \in Seq(0 .. 15), NEW use
  PROVE  TreeCoded(TreeCodes(t, use))
<1> DEFINE codes == LensCodes(t.lens, use)
           CountOf(c) == Cardinality({k \in DOMAIN codes : codes[k].code = c})
           counts == [c \in 0 .. 18 |-> CountOf(c)]
           clcl == LengthLimitedCodeLengths(counts, 7)
           hclen == Hclen(counts)
           best == [ codes |-> codes, clcl |-> clcl, hclen |-> hclen,
                     size |-> 14 + 3 * (hclen + 4)
                       + Total([c \in 0 .. 18 |-> counts[c] * (clcl[c] + CodeExtraBits(c))], 0, 18) ]
<1>1. TreeCodes(t, use) = best
  BY DEF TreeCodes
<1>2. codes \in Seq(Item)
  BY LensCodesAre
<1> HIDE DEF codes
<1>3. ASSUME NEW c \in 0 .. 18 PROVE CountOf(c) \in Nat
  <2>1. {k \in DOMAIN codes : codes[k].code = c} \subseteq DOMAIN codes
    OBVIOUS
  <2> QED  BY <1>2, <2>1, PlacesAre
<1>4. clcl \in [0 .. 18 -> 0 .. 7]
  <2>1a. 0 \in Int /\ 18 \in Int /\ 0 .. 18 \subseteq Nat /\ 7 \in 2 .. 15
    OBVIOUS
  <2>1. IsFiniteSet(0 .. 18) /\ 0 .. 18 \subseteq Nat /\ 7 \in 2 .. 15
    BY ONLY <2>1a, FS_Interval
  <2>2. DOMAIN counts = 0 .. 18 /\ \A c \in 0 .. 18 : counts[c] \in Nat
    BY <1>3
  <2> HIDE DEF counts
  <2> QED  BY <2>1, <2>2, LengthsWithin
<1>5. hclen \in 0 .. 15
  BY HclenIs
<1>6. \A c \in 0 .. 18 : counts[c] = CountOf(c)
  OBVIOUS
<1> HIDE DEF counts, clcl, hclen
<1>7. [c \in 0 .. 18 |-> counts[c] * (clcl[c] + CodeExtraBits(c))] = CodeUses(codes, clcl)
  <2>1. ASSUME NEW c \in 0 .. 18
        PROVE  counts[c] * (clcl[c] + CodeExtraBits(c)) = CountOf(c) * CostOfCode(clcl)[c]
    BY <1>6 DEF CostOfCode
  <2> QED  BY <2>1 DEF CodeUses
<1>8. /\ best.codes = codes /\ best.clcl = clcl /\ best.hclen = hclen
      /\ best.size = 14 + 3 * (hclen + 4) + Total(CodeUses(codes, clcl), 0, 18)
  BY <1>7
<1> HIDE DEF best
<1> QED  BY <1>1, <1>2, <1>4, <1>5, <1>8 DEF TreeCoded

LEMMA CodeCosts ==
  ASSUME NEW clcl \in [0 .. 18 -> 0 .. 7]
  PROVE  \A c \in 0 .. 18 : CodeExtraBits(c) \in Nat /\ clcl[c] \in Nat /\ CostOfCode(clcl)[c] \in Nat
                            /\ CostOfCode(clcl)[c] = clcl[c] + CodeExtraBits(c)
<1> SUFFICES ASSUME NEW c \in 0 .. 18
             PROVE  /\ CodeExtraBits(c) \in Nat /\ clcl[c] \in Nat /\ CostOfCode(clcl)[c] \in Nat
                    /\ CostOfCode(clcl)[c] = clcl[c] + CodeExtraBits(c)
  OBVIOUS
<1>1. CodeExtraBits(c) \in Nat
  BY DEF CodeExtraBits
<1>2. clcl[c] \in Nat
  <2>1. clcl[c] \in 0 .. 7
    OBVIOUS
  <2> QED  BY <2>1
<1>3. CostOfCode(clcl)[c] = clcl[c] + CodeExtraBits(c)
  BY DEF CostOfCode
<1> QED  BY <1>1, <1>2, <1>3

LEMMA TreeOfLength ==
  ASSUME NEW t, NEW best, TreeCoded(best)
  PROVE  OfLength(WriteTree(t, best), best.size) /\ best.size \in Nat
<1> DEFINE codes == best.codes
           clcl == best.clcl
           h == best.hclen
           n == Len(codes)
           symbols == LengthsToSymbols(clcl, 7)
           BitsFor(c) == HuffmanBits(symbols[c.code], clcl[c.code])
                           \o Bits(c.extra, CodeExtraBits(c.code))
           sym == [k \in 1 .. n |-> codes[k].code]
           f == [k \in 1 .. n |-> CostOfCode(clcl)[sym[k]]]
           g == CodeUses(codes, clcl)
           threes == [i \in 1 .. h + 4 |-> Bits(clcl[Order[i]], 3)]
           each == [k \in DOMAIN codes |-> BitsFor(codes[k])]
           K == 1 .. n
<1>1. /\ codes \in Seq(Item) /\ clcl \in [0 .. 18 -> 0 .. 7] /\ h \in 0 .. 15
      /\ best.size = 14 + 3 * (h + 4) + Total(g, 0, 18)
  BY DEF TreeCoded
<1>2. WriteTree(t, best)
        = Bits(t.hlit, 5) \o Bits(t.hdist, 5) \o Bits(h, 4) \o Concat(threes) \o Concat(each)
  BY DEF WriteTree
<1> HIDE DEF codes, clcl, h, symbols
<1>3. n \in Nat /\ DOMAIN codes = 1 .. n /\ \A k \in 1 .. n : codes[k] \in Item
  BY <1>1
<1> HIDE DEF n
<1>4. \A k \in 1 .. n : sym[k] = codes[k].code /\ sym[k] \in 0 .. 18
  BY <1>3 DEF Item
<1>5. ASSUME NEW k \in 1 .. n PROVE OfLength(each[k], f[k])
  <2> DEFINE c == sym[k]
  <2>1. c \in 0 .. 18 /\ c = codes[k].code
    BY <1>4
  <2> HIDE DEF c
  <2>2. each[k] = HuffmanBits(symbols[c], clcl[c]) \o Bits(codes[k].extra, CodeExtraBits(c))
    BY <1>3, <2>1
  <2>3. f[k] = clcl[c] + CodeExtraBits(c) /\ clcl[c] \in Nat /\ CodeExtraBits(c) \in Nat
    <3>1. f[k] = CostOfCode(clcl)[c]
      BY DEF c
    <3> QED  BY <1>1, <2>1, <3>1, CodeCosts
  <2> HIDE DEF each, f
  <2>4. OfLength(HuffmanBits(symbols[c], clcl[c]), clcl[c])
    BY <2>3, BitsOfLength
  <2>5. OfLength(Bits(codes[k].extra, CodeExtraBits(c)), CodeExtraBits(c))
    BY <2>3, BitsOfLength
  <2> QED  BY <2>2, <2>3, <2>4, <2>5, BothOfLength
<1>6. OfLength(Concat(each), Total(f, 1, n))
  <2>1. 1 \in Int /\ n \in Int /\ 1 <= n + 1
    BY <1>3
  <2>2. Len(each) = n
    BY <1>3
  <2> HIDE DEF each, f
  <2>3. OfLength(Joined(each, 1, n), Total(f, 1, n))
    BY <1>5, <2>1, JoinedOfLength
  <2> QED  BY <2>2, <2>3 DEF Concat
<1>7. Total(f, 1, n) = Total(g, 0, 18) /\ NatsFrom(g, 0, 18)
  <2>1. 1 \in Int /\ n \in Int /\ 1 <= n + 1 /\ 0 \in Int /\ 18 \in Int
    BY <1>3
  <2>2. SymbolsIn(K, sym, 1, n, 0, 18)
    BY <1>4 DEF SymbolsIn
  <2>3. NatsFrom(CostOfCode(clcl), 0, 18)
    BY <1>1, CodeCosts DEF NatsFrom
  <2>4. Weights(f, K, sym, CostOfCode(clcl), 1, n)
    BY DEF Weights
  <2>5. CountsOf(g, K, sym, CostOfCode(clcl), 0, 18)
    <3> SUFFICES ASSUME NEW c \in 0 .. 18
                 PROVE  g[c] = Cardinality(WithSymbol(K, sym, c)) * CostOfCode(clcl)[c]
      BY DEF CountsOf
    <3>1. g[c] = Cardinality({k \in DOMAIN codes : codes[k].code = c}) * CostOfCode(clcl)[c]
      BY DEF CodeUses
    <3>2. {k \in DOMAIN codes : codes[k].code = c} = WithSymbol(K, sym, c)
      BY <1>3, <1>4 DEF WithSymbol
    <3> QED  BY <3>1, <3>2
  <2> HIDE DEF f, g, K, sym
  <2> QED  BY <2>1, <2>2, <2>3, <2>4, <2>5, CountedBySymbol
<1>8. OfLength(Concat(threes), 3 * (h + 4))
  <2> DEFINE three == [i \in 1 .. h + 4 |-> 3]
  <2>1. h + 4 \in Nat /\ 1 \in Int /\ h + 4 \in Int /\ 1 <= (h + 4) + 1 /\ 3 \in Nat
    BY <1>1
  <2>2. Len(threes) = h + 4
    BY <2>1
  <2>3. ASSUME NEW i \in 1 .. h + 4 PROVE OfLength(threes[i], three[i])
    <3>1. threes[i] = Bits(clcl[Order[i]], 3) /\ three[i] = 3
      OBVIOUS
    <3> HIDE DEF threes, three
    <3> QED  BY <2>1, <3>1, BitsOfLength
  <2>4. \A i \in 1 .. h + 4 : three[i] = 3
    OBVIOUS
  <2> HIDE DEF threes, three
  <2>5. OfLength(Joined(threes, 1, h + 4), Total(three, 1, h + 4))
    BY <2>1, <2>3, JoinedOfLength
  <2>6. Total(three, 1, h + 4) = 3 * ((h + 4) - 1 + 1)
    BY <2>1, <2>4, TotalOfEquals
  <2>7. (h + 4) - 1 + 1 = h + 4
    BY <2>1
  <2> QED  BY <2>2, <2>5, <2>6, <2>7 DEF Concat
<1>9. OfLength(Bits(t.hlit, 5), 5) /\ OfLength(Bits(t.hdist, 5), 5) /\ OfLength(Bits(h, 4), 4)
  BY BitsOfLength
<1> HIDE DEF threes, each, f, g
<1> DEFINE s == Total(g, 0, 18)
<1>10. s \in Nat
  BY <1>7, TotalIsNat
<1>11. OfLength(Bits(t.hlit, 5) \o Bits(t.hdist, 5), 5 + 5)
  BY <1>9, BothOfLength
<1>12. OfLength(Bits(t.hlit, 5) \o Bits(t.hdist, 5) \o Bits(h, 4), (5 + 5) + 4)
  BY <1>9, <1>11, BothOfLength
<1>13. OfLength(Bits(t.hlit, 5) \o Bits(t.hdist, 5) \o Bits(h, 4) \o Concat(threes),
                ((5 + 5) + 4) + 3 * (h + 4))
  BY <1>8, <1>12, BothOfLength
<1>14. OfLength(WriteTree(t, best), (((5 + 5) + 4) + 3 * (h + 4)) + s)
  BY <1>2, <1>6, <1>7, <1>13, BothOfLength
<1>15. best.size = (((5 + 5) + 4) + 3 * (h + 4)) + s /\ best.size \in Nat
  <2>1. best.size = 14 + 3 * (h + 4) + s /\ h \in Nat
    BY <1>1
  <2> HIDE DEF s
  <2> QED  BY <1>10, <2>1
<1> QED  BY <1>14, <1>15

(* One of the eight ways is the smallest.                                    *)
LEMMA BestIsOne ==
  ASSUME NEW t, t.lens \in Seq(0 .. 15)
  PROVE  TreeCoded(SelectBestTreeCombo(t))
<1> DEFINE all == [i \in 0 .. 7 |-> TreeCodes(t, Combo(i))]
           Is(i) == /\ \A k \in 0 .. 7 : all[i].size <= all[k].size
                    /\ \A k \in 0 .. i - 1 : all[i].size < all[k].size
           Sizes == {all[i].size : i \in 0 .. 7}
<1>1. SelectBestTreeCombo(t) = all[CHOOSE i \in 0 .. 7 : Is(i)]
  BY DEF SelectBestTreeCombo
<1>2. \A i \in 0 .. 7 : TreeCoded(all[i])
  BY TreeCodesAre
<1>3. \A i \in 0 .. 7 : all[i].size \in Nat
  BY <1>2, TreeOfLength
<1> HIDE DEF all
<1>4. PICK s \in Sizes : LeastOf(Sizes, s)
  <2>1. Sizes \subseteq Nat /\ Sizes # {}
    <3>1. all[0].size \in Sizes
      OBVIOUS
    <3>2. ASSUME NEW x \in Sizes PROVE x \in Nat
      BY <1>3
    <3> HIDE DEF Sizes
    <3> QED  BY <3>1, <3>2
  <2> HIDE DEF Sizes
  <2> QED  BY <2>1, LeastExists DEF LeastOf
<1>5. s \in Nat /\ \A k \in 0 .. 7 : s <= all[k].size
  BY <1>3, <1>4 DEF LeastOf
<1> DEFINE F == {i \in 0 .. 7 : all[i].size = s}
<1>6. PICK i \in F : LeastOf(F, i)
  <2>1. F \subseteq Nat /\ F # {}
    BY <1>4
  <2> HIDE DEF F
  <2> QED  BY <2>1, LeastExists DEF LeastOf
<1>7. i \in 0 .. 7 /\ all[i].size = s
  OBVIOUS
<1>8. ASSUME NEW k \in 0 .. i - 1 PROVE all[i].size < all[k].size
  <2>1. k \in 0 .. 7 /\ ~ (i <= k)
    BY <1>7
  <2>2. k \notin F
    BY <1>6, <2>1 DEF LeastOf
  <2>3. all[k].size # s /\ all[k].size \in Nat
    BY <1>3, <2>1, <2>2
  <2> QED  BY <1>5, <1>7, <2>1, <2>3
<1>9. Is(i)
  BY <1>5, <1>7, <1>8
<1> HIDE DEF Is
<1>10. (CHOOSE k \in 0 .. 7 : Is(k)) \in 0 .. 7
  BY <1>7, <1>9
<1> QED  BY <1>1, <1>2, <1>10

LEMMA DynamicTreeOfLength ==
  ASSUME NEW tree, CodeTree(tree)
  PROVE  /\ OfLength(AddDynamicTree(tree.ll, tree.d), CalculateTreeSize(tree.ll, tree.d))
         /\ CalculateTreeSize(tree.ll, tree.d) \in Nat
<1> DEFINE t == BuildTreeLens(tree.ll, tree.d)
           best == SelectBestTreeCombo(t)
<1>1. t.lens \in Seq(0 .. 15)
  BY TreeLensAre
<1>2. AddDynamicTree(tree.ll, tree.d) = WriteTree(t, best)
      /\ CalculateTreeSize(tree.ll, tree.d) = best.size
  BY DEF AddDynamicTree, CalculateTreeSize
<1> HIDE DEF t
<1>3. TreeCoded(best)
  BY <1>1, BestIsOne
<1> HIDE DEF best
<1> QED  BY <1>2, <1>3, TreeOfLength

-----------------------------------------------------------------------------
(* The counts made even: a function that is defined by later strides exists. *)
Later(h, m, A, nxt, base, step) ==
  h = [k \in 0 .. m - 1 |-> step[<<k, IF nxt[k] = m THEN base ELSE h[nxt[k]]>>]]

LEMMA LaterExists ==
  ASSUME NEW m \in Nat, NEW A, NEW nxt, \A k \in 0 .. m - 1 : nxt[k] \in k + 1 .. m,
         NEW base \in A, NEW step, \A k \in 0 .. m - 1, x \in A : step[<<k, x>>] \in A
  PROVE  \E h : /\ Later(h, m, A, nxt, base, step)
                /\ \A k \in 0 .. m - 1 : h[k] \in A
<1> DEFINE Fs == [0 .. m - 1 -> A]
           Once(f) == [k \in 0 .. m - 1 |-> step[<<k, IF nxt[k] = m THEN base ELSE f[nxt[k]]>>]]
           go == [z \in Nat \X Fs |-> Once(z[2])]
           first == [k \in 0 .. m - 1 |-> base]
<1>1. ASSUME NEW f \in Fs PROVE Once(f) \in Fs
  <2>1. ASSUME NEW k \in 0 .. m - 1
        PROVE  (IF nxt[k] = m THEN base ELSE f[nxt[k]]) \in A
    <3>1. nxt[k] \in k + 1 .. m
      OBVIOUS
    <3>2. nxt[k] # m => nxt[k] \in 0 .. m - 1
      BY <3>1
    <3> QED  BY <3>2
  <2>2. \A k \in 0 .. m - 1 : step[<<k, IF nxt[k] = m THEN base ELSE f[nxt[k]]>>] \in A
    BY <2>1
  <2> QED  BY <2>2
<1>2. first \in Fs
  OBVIOUS
<1>3. \A n \in Nat, f \in Fs : go[<<n, f>>] = Once(f)
  OBVIOUS
<1>4. \A n \in Nat \ {0}, f \in Fs : go[<<n, f>>] \in Fs
  <2> HIDE DEF go, Once, Fs
  <2> QED  BY <1>1, <1>3
<1>5. PICK g : /\ g = [n \in Nat |-> IF n = 0 THEN first ELSE go[<<n, g[n - 1]>>]]
               /\ \A n \in Nat : g[n] \in Fs
  <2> HIDE DEF go, Fs, first, Once
  <2>1. \A n \in Nat \ {0}, x \in Fs : go[<<n, x>>] \in Fs
    BY <1>4
  <2> QED  BY ONLY <1>2, <2>1, StepsOnAll, ZenonT(60)
<1>6. ASSUME NEW n \in Nat PROVE g[n + 1] = Once(g[n])
  <2>1. n + 1 \in Nat /\ n + 1 # 0 /\ (n + 1) - 1 = n
    OBVIOUS
  <2>2. g[n + 1] = go[<<n + 1, g[n]>>]
    <3> HIDE DEF go, first
    <3> QED  BY <1>5, <2>1
  <2>3. g[n] \in Fs
    BY <1>5
  <2> HIDE DEF go, Once, Fs
  <2> QED  BY <1>3, <2>1, <2>2, <2>3
<1> DEFINE Settled(n) == \A k \in 0 .. m - 1 : k >= m - n => g[n + 1][k] = g[n][k]
           T == {n \in 0 .. m : Settled(n)}
<1> HIDE DEF go, first
<1>7. ASSUME NEW n \in Nat, NEW k \in 0 .. m - 1
      PROVE  g[n + 1][k] = step[<<k, IF nxt[k] = m THEN base ELSE g[n][nxt[k]]>>]
  BY <1>6
<1> HIDE DEF Once, Fs
<1>8. 0 \in T
  OBVIOUS
<1>9. ASSUME NEW n \in 0 .. m - 1, n \in T PROVE n + 1 \in T
  <2>1. n \in Nat /\ n + 1 \in Nat /\ n + 1 \in 0 .. m /\ Settled(n)
    BY <1>9
  <2> SUFFICES ASSUME NEW k \in 0 .. m - 1, k >= m - (n + 1)
               PROVE  g[(n + 1) + 1][k] = g[n + 1][k]
    BY <2>1
  <2>2. /\ g[(n + 1) + 1][k] = step[<<k, IF nxt[k] = m THEN base ELSE g[n + 1][nxt[k]]>>]
        /\ g[n + 1][k] = step[<<k, IF nxt[k] = m THEN base ELSE g[n][nxt[k]]>>]
    BY <1>7, <2>1
  <2>3. CASE nxt[k] = m
    BY <2>2, <2>3
  <2>4. CASE nxt[k] # m
    <3>1. nxt[k] \in k + 1 .. m
      OBVIOUS
    <3>2. nxt[k] \in 0 .. m - 1 /\ nxt[k] >= m - n
      BY <2>1, <2>4, <3>1
    <3>3. g[n + 1][nxt[k]] = g[n][nxt[k]]
      BY <2>1, <3>2
    <3> QED  BY <2>2, <3>3
  <2> QED  BY <2>3, <2>4
<1> HIDE DEF T
<1>10. \A n \in 0 .. m : n \in T
  BY <1>8, <1>9, UpTo
<1>11. Settled(m)
  <2>1. m \in T
    BY <1>10
  <2> QED  BY <2>1 DEF T
<1>12. Later(g[m], m, A, nxt, base, step)
  <2>1. g[m] \in [0 .. m - 1 -> A]
    BY <1>5 DEF Fs
  <2>2. ASSUME NEW k \in 0 .. m - 1
        PROVE  g[m][k] = step[<<k, IF nxt[k] = m THEN base ELSE g[m][nxt[k]]>>]
    <3>1. g[m + 1][k] = g[m][k]
      BY <1>11
    <3> QED  BY <1>7, <3>1
  <2>3. g[m] = [k \in 0 .. m - 1 |-> g[m][k]]
    BY <2>1
  <2> QED  BY <2>2, <2>3 DEF Later
<1>13. \A k \in 0 .. m - 1 : g[m][k] \in A
  BY <1>5 DEF Fs
<1> QED  BY <1>12, <1>13

LEMMA MeanIs ==
  ASSUME NEW stride \in Nat \ {0}, NEW sum \in Nat
  PROVE  StrideMean(stride, sum) \in Nat
<1> DEFINE mean == (sum + stride \div 2) \div stride
<1>1. stride \div 2 \in Nat
  BY DivIs
<1>2. mean \in Nat
  <2>1. sum + stride \div 2 \in Nat
    BY <1>1
  <2> QED  BY <2>1, DivIs
<1>3. StrideMean(stride, sum) = IF sum = 0 THEN 0 ELSE IF mean < 1 THEN 1 ELSE mean
  BY DEF StrideMean
<1> HIDE DEF mean
<1> QED  BY <1>2, <1>3

LEMMA CollapsedIs ==
  ASSUME NEW n \in Nat, NEW counts \in [0 .. n - 1 -> Nat], NEW from \in 0 .. n - 1,
         NEW to \in from + 1 .. n
  PROVE  Collapsed(counts, from, to) \in [0 .. n - 1 -> Nat]
<1> DEFINE stride == to - from
           sum == Total(counts, from, to - 1)
           mean == StrideMean(stride, sum)
           even == [s \in DOMAIN counts |-> IF s \in from .. to - 1 THEN mean ELSE counts[s]]
<1>1. stride \in Nat \ {0} /\ from \in Int /\ to - 1 \in Int
  OBVIOUS
<1>2. NatsFrom(counts, from, to - 1)
  <2> SUFFICES ASSUME NEW k \in from .. to - 1 PROVE counts[k] \in Nat
    BY DEF NatsFrom
  <2>1. k \in 0 .. n - 1
    OBVIOUS
  <2> QED  BY <2>1
<1>3. sum \in Nat
  BY <1>1, <1>2, TotalIsNat
<1>4. mean \in Nat
  BY <1>1, <1>3, MeanIs
<1>5. Collapsed(counts, from, to)
        = IF stride >= 4 \/ (stride >= 3 /\ sum = 0) THEN even ELSE counts
  BY DEF Collapsed
<1> HIDE DEF mean
<1>6. even \in [0 .. n - 1 -> Nat]
  BY <1>4
<1> HIDE DEF even, stride, sum
<1> QED  BY <1>5, <1>6

LEMMA StrideEndIs ==
  ASSUME NEW counts, NEW good, NEW m \in Nat, NEW from \in 0 .. m - 1
  PROVE  StrideEnd(counts, good, m, from) \in from + 1 .. m
<1> DEFINE limit == StrideLimit(counts, good, m, from)
           Stops(j) == j = m \/ j \in good \/ AbsDiff(counts[j], limit) >= 4
           Is(j) == Stops(j) /\ \A k \in from + 1 .. j - 1 : ~ Stops(k)
           S == {j \in from + 1 .. m : Stops(j)}
<1>1. StrideEnd(counts, good, m, from) = CHOOSE j \in from + 1 .. m : Is(j)
  BY DEF StrideEnd
<1>2. S \subseteq Nat /\ m \in S
  <2>1. m \in from + 1 .. m /\ from + 1 .. m \subseteq Nat
    OBVIOUS
  <2>2. Stops(m)
    OBVIOUS
  <2> HIDE DEF Stops
  <2> QED  BY <2>1, <2>2
<1> HIDE DEF Stops
<1>3. PICK j \in S : LeastOf(S, j)
  <2> HIDE DEF S
  <2> QED  BY <1>2, LeastExists DEF LeastOf
<1>4. j \in from + 1 .. m /\ Stops(j)
  OBVIOUS
<1>5. ASSUME NEW k \in from + 1 .. j - 1 PROVE ~ Stops(k)
  <2>1. k \in from + 1 .. m /\ ~ (j <= k)
    BY <1>4
  <2>2. k \notin S
    BY <1>3, <2>1 DEF LeastOf
  <2> QED  BY <2>1, <2>2
<1>6. Is(j)
  BY <1>4, <1>5
<1> HIDE DEF Is
<1> QED  BY <1>1, <1>4, <1>6

LEMMA NextStrideIs ==
  ASSUME NEW m \in Nat, NEW good, good \subseteq 0 .. m - 1, NEW to \in 0 .. m - 1
  PROVE  NextStride(good, m, to) \in to .. m - 1
<1> DEFINE Is(j) == to .. j \subseteq good /\ j + 1 \notin good
           S == {j \in to .. m - 1 : j + 1 \notin good}
<1>1. CASE to \notin good
  BY <1>1 DEF NextStride
<1>2. CASE to \in good
  <2>1. NextStride(good, m, to) = CHOOSE j \in to .. m - 1 : Is(j)
    BY <1>2 DEF NextStride
  <2>2. S \subseteq Nat /\ m - 1 \in S
    OBVIOUS
  <2>3. PICK j \in S : LeastOf(S, j)
    <3> HIDE DEF S
    <3> QED  BY <2>2, LeastExists DEF LeastOf
  <2>4. j \in to .. m - 1 /\ j + 1 \notin good
    OBVIOUS
  <2>5. ASSUME NEW k \in to .. j PROVE k \in good
    <3>1. CASE k = to
      BY <1>2, <3>1
    <3>2. CASE k # to
      <4>1. k - 1 \in to .. m - 1 /\ ~ (j <= k - 1) /\ (k - 1) + 1 = k
        BY <2>4, <3>2
      <4>2. k - 1 \notin S
        BY <2>3, <4>1 DEF LeastOf
      <4> QED  BY <4>1, <4>2
    <3> QED  BY <3>1, <3>2
  <2>6. Is(j)
    BY <2>4, <2>5
  <2> HIDE DEF Is
  <2> QED  BY <2>1, <2>4, <2>6
<1> QED  BY <1>1, <1>2

LEMMA CollapsedFromIs ==
  ASSUME NEW n \in Nat, NEW counts \in [0 .. n - 1 -> Nat], NEW m \in 1 .. n,
         NEW good, good \subseteq 0 .. m - 1
  PROVE  CollapsedFrom(counts, good, m) \in [0 .. n - 1 -> Nat]
<1> DEFINE A == [0 .. n - 1 -> Nat]
           End(k) == StrideEnd(counts, good, m, k)
           nxt == [k \in 0 .. m - 1 |-> IF End(k) = m THEN m ELSE NextStride(good, m, End(k))]
           step == [z \in (0 .. m - 1) \X A |-> Collapsed(z[2], z[1], End(z[1]))]
           Others(f, k) == IF End(k) = m THEN counts ELSE f[NextStride(good, m, End(k))]
           Is(f) == f = [k \in 0 .. m - 1 |-> Collapsed(Others(f, k), k, End(k))]
           collapsed == CHOOSE f : Is(f)
<1>1. m \in Nat /\ 0 \in 0 .. m - 1 /\ 0 .. m - 1 \subseteq 0 .. n - 1
  OBVIOUS
<1>2. CollapsedFrom(counts, good, m) = collapsed[0]
  BY DEF CollapsedFrom
<1>3. \A k \in 0 .. m - 1 : End(k) \in k + 1 .. m
  BY <1>1, StrideEndIs
<1> HIDE DEF End
<1>4. ASSUME NEW k \in 0 .. m - 1
      PROVE  nxt[k] \in k + 1 .. m /\ (nxt[k] = m <=> End(k) = m)
             /\ (End(k) # m => nxt[k] = NextStride(good, m, End(k)))
  <2>1. nxt[k] = IF End(k) = m THEN m ELSE NextStride(good, m, End(k))
    OBVIOUS
  <2>2. End(k) \in k + 1 .. m
    BY <1>3
  <2>3. End(k) # m => End(k) \in 0 .. m - 1
    BY <2>2
  <2>4. End(k) # m => NextStride(good, m, End(k)) \in End(k) .. m - 1
    BY <1>1, <2>3, NextStrideIs
  <2> HIDE DEF nxt
  <2> QED  BY <2>1, <2>2, <2>4
<1>5. ASSUME NEW k \in 0 .. m - 1, NEW x \in A
      PROVE  step[<<k, x>>] = Collapsed(x, k, End(k)) /\ step[<<k, x>>] \in A
  <2>1. k \in 0 .. n - 1 /\ End(k) \in k + 1 .. n
    BY <1>1, <1>3
  <2>2. Collapsed(x, k, End(k)) \in A
    BY <2>1, CollapsedIs
  <2>3. step[<<k, x>>] = Collapsed(x, k, End(k))
    OBVIOUS
  <2> QED  BY <2>2, <2>3
<1>6. counts \in A
  OBVIOUS
<1> HIDE DEF nxt, step, A
<1>7. PICK h : Later(h, m, A, nxt, counts, step) /\ \A k \in 0 .. m - 1 : h[k] \in A
  <2>1. \A k \in 0 .. m - 1 : nxt[k] \in k + 1 .. m
    BY <1>4
  <2>2. \A k \in 0 .. m - 1, x \in A : step[<<k, x>>] \in A
    BY <1>5
  <2> QED  BY ONLY <1>1, <1>6, <2>1, <2>2, LaterExists
<1>8. Is(h)
  <2>1. ASSUME NEW k \in 0 .. m - 1
        PROVE  step[<<k, IF nxt[k] = m THEN counts ELSE h[nxt[k]]>>]
                 = Collapsed(Others(h, k), k, End(k))
    <3>1. (IF nxt[k] = m THEN counts ELSE h[nxt[k]]) = Others(h, k)
      BY <1>4
    <3>2. Others(h, k) \in A
      <4>1. nxt[k] # m => nxt[k] \in 0 .. m - 1
        <5>1. nxt[k] \in k + 1 .. m
          BY <1>4
        <5> QED  BY <5>1
      <4>2. nxt[k] # m => h[nxt[k]] \in A
        BY <1>7, <4>1
      <4> HIDE DEF Others
      <4> QED  BY <1>6, <3>1, <4>2
    <3> HIDE DEF Others
    <3> QED  BY <1>5, <3>1, <3>2
  <2> HIDE DEF Others
  <2> QED  BY <1>7, <2>1 DEF Later
<1>9. Is(collapsed)
  <2>1. \E f : Is(f)
    <3> HIDE DEF Is
    <3> QED  BY <1>8
  <2> HIDE DEF Is
  <2> QED  BY <2>1
<1> HIDE DEF collapsed
<1> DEFINE T == {j \in 0 .. m - 1 : \A k \in 0 .. m - 1 : k >= (m - 1) - j => collapsed[k] \in A}
<1>10. ASSUME NEW k \in 0 .. m - 1,
              \A j \in 0 .. m - 1 : j > k => collapsed[j] \in A
       PROVE  collapsed[k] \in A
  <2>1. collapsed[k] = Collapsed(Others(collapsed, k), k, End(k))
    <3> HIDE DEF Others
    <3> QED  BY <1>9
  <2>2. Others(collapsed, k) \in A
    <3>1. CASE End(k) = m
      BY <1>6, <3>1
    <3>2. CASE End(k) # m
      <4>1. nxt[k] \in k + 1 .. m /\ nxt[k] # m /\ nxt[k] = NextStride(good, m, End(k))
        BY <1>4, <3>2
      <4>2. nxt[k] \in 0 .. m - 1 /\ nxt[k] > k
        BY <4>1
      <4>3. Others(collapsed, k) = collapsed[nxt[k]]
        BY <3>2, <4>1
      <4> QED  BY <1>10, <4>2, <4>3
    <3> QED  BY <3>1, <3>2
  <2> HIDE DEF Others
  <2> QED  BY <1>5, <2>1, <2>2
<1> DEFINE p == m - 1
<1>11. p \in Nat
  BY <1>1
<1>12. 0 \in T
  <2> SUFFICES ASSUME NEW k \in 0 .. m - 1, k >= (m - 1) - 0 PROVE collapsed[k] \in A
    BY <1>1
  <2>1. \A j \in 0 .. m - 1 : ~ (j > k)
    OBVIOUS
  <2> QED  BY <1>10, <2>1
<1>13. ASSUME NEW j \in 0 .. p - 1, j \in T PROVE j + 1 \in T
  <2> SUFFICES ASSUME NEW k \in 0 .. m - 1, k >= (m - 1) - (j + 1) PROVE collapsed[k] \in A
    OBVIOUS
  <2>1. ASSUME NEW i \in 0 .. m - 1, i > k PROVE collapsed[i] \in A
    <3>1. i >= (m - 1) - j
      BY <2>1
    <3> QED  BY <1>13, <3>1
  <2> QED  BY <1>10, <2>1
<1> HIDE DEF T
<1>14. \A j \in 0 .. p : j \in T
  <2> HIDE DEF p
  <2> QED  BY <1>11, <1>12, <1>13, UpTo
<1>15. collapsed[0] \in A
  <2>1. m - 1 \in T
    BY <1>11, <1>14
  <2>2. 0 >= (m - 1) - (m - 1)
    OBVIOUS
  <2> QED  BY <1>1, <2>1, <2>2 DEF T
<1> QED  BY <1>2, <1>15 DEF A

LEMMA GoodIs ==
  ASSUME NEW counts, NEW m \in Nat \ {0}
  PROVE  GoodForRle(counts, m) \subseteq 0 .. m - 1
<1> DEFINE starts == RunStarts(counts, 0, m - 1)
           Later1(i) == NextOf(starts, i, m - 1)
           good == {i \in starts : Later1(i) - i >= IF counts[i] = 0 THEN 5 ELSE 7}
<1>1. GoodForRle(counts, m) = UNION {i .. Later1(i) - 1 : i \in good}
  BY DEF GoodForRle
<1>2. starts \subseteq 0 .. m - 1
  BY DEF RunStarts
<1> HIDE DEF starts
<1>3. ASSUME NEW i \in good, NEW x \in i .. Later1(i) - 1 PROVE x \in 0 .. m - 1
  <2>1. i \in 0 .. m - 1
    BY <1>2
  <2>2. starts \subseteq Nat /\ i \in Nat /\ m - 1 \in Int /\ i <= m - 1
    BY <1>2, <2>1
  <2>3. Later1(i) = (m - 1) + 1 \/ Later1(i) \in starts
    BY <2>2, NextIs
  <2>4. Later1(i) \in Nat
    BY <2>2, NextIs
  <2>5. \A s \in starts : s \in 0 .. m - 1
    BY <1>2
  <2> HIDE DEF Later1, good
  <2>6. Later1(i) <= m
    <3>1. CASE Later1(i) = (m - 1) + 1
      BY <3>1
    <3>2. CASE Later1(i) \in starts
      <4>1. Later1(i) \in 0 .. m - 1
        BY <2>5, <3>2
      <4> QED  BY <4>1
    <3> QED  BY <2>3, <3>1, <3>2
  <2>7. x \in i .. Later1(i) - 1
    OBVIOUS
  <2> QED  BY <2>1, <2>4, <2>6, <2>7
<1> HIDE DEF good, Later1
<1> QED  BY <1>1, <1>3

LEMMA LastUsed ==
  ASSUME NEW n \in Nat, NEW used, used \subseteq 0 .. n - 1, used # {}
  PROVE  (CHOOSE s \in used : \A t \in used : t <= s) \in used
<1> DEFINE S == {x \in 0 .. n - 1 : \A t \in used : t <= x}
           Is(s) == \A t \in used : t <= s
<1>1. PICK u \in used : u \in 0 .. n - 1
  OBVIOUS
<1>2. S \subseteq Nat /\ n - 1 \in S
  BY <1>1
<1>3. PICK x \in S : LeastOf(S, x)
  <2> HIDE DEF S
  <2> QED  BY <1>2, LeastExists DEF LeastOf
<1>4. x \in 0 .. n - 1 /\ \A t \in used : t <= x
  OBVIOUS
<1>5. x \in used
  <2> SUFFICES ASSUME x \notin used PROVE FALSE
    OBVIOUS
  <2>1. ASSUME NEW t \in used PROVE t <= x - 1
    <3>1. t \in 0 .. n - 1 /\ t <= x /\ t # x
      BY <1>4
    <3> QED  BY <1>4, <3>1
  <2>2. x - 1 \in 0 .. n - 1
    BY <1>1, <1>4, <2>1
  <2>3. x - 1 \in S /\ ~ (x <= x - 1)
    BY <1>4, <2>1, <2>2
  <2> QED  BY <1>3, <2>3 DEF LeastOf
<1>6. Is(x)
  BY <1>4
<1> HIDE DEF Is, S
<1>7. (CHOOSE s \in used : Is(s)) \in used
  BY <1>5, <1>6
<1> QED  BY <1>7 DEF Is

LEMMA OptimizedIs ==
  ASSUME NEW n \in Nat, NEW counts \in [0 .. n - 1 -> Nat]
  PROVE  OptimizeHuffmanForRle(counts, n) \in [0 .. n - 1 -> Nat]
<1> DEFINE used == {s \in 0 .. n - 1 : counts[s] # 0}
           last == CHOOSE s \in used : \A t \in used : t <= s
           m == 1 + last
           good == GoodForRle(counts, m)
<1>1. OptimizeHuffmanForRle(counts, n)
        = IF used = {} THEN counts ELSE CollapsedFrom(counts, good, m)
  BY DEF OptimizeHuffmanForRle
<1>2. used \subseteq 0 .. n - 1
  OBVIOUS
<1> HIDE DEF used
<1>3. CASE used = {}
  BY <1>1, <1>3
<1>4. CASE used # {}
  <2>1. last \in 0 .. n - 1
    BY <1>2, <1>4, LastUsed
  <2> HIDE DEF last
  <2>2. m \in 1 .. n /\ m \in Nat \ {0}
    BY <2>1
  <2> HIDE DEF m
  <2>3. good \subseteq 0 .. m - 1
    BY <2>2, GoodIs
  <2> HIDE DEF good
  <2>4. CollapsedFrom(counts, good, m) \in [0 .. n - 1 -> Nat]
    BY ONLY n \in Nat, counts \in [0 .. n - 1 -> Nat], <2>2, <2>3, CollapsedFromIs
  <2> QED  BY <1>1, <1>4, <2>4
<1> QED  BY <1>3, <1>4

LEMMA HistogramCounts ==
  ASSUME NEW store, NEW a \in Int, NEW b \in Int
  PROVE  CodeCounts(Histogram(store, a, b))
<1> DEFINE ll == [k \in a .. b - 1 |-> SymbolOf(store[k])]
           d == [k \in {j \in a .. b - 1 : store[j].dist # 0} |-> DistSymbol(store[k].dist)]
           h == Histogram(store, a, b)
           CountLL(s) == Cardinality({k \in DOMAIN ll : ll[k] = s})
           CountD(s) == Cardinality({k \in DOMAIN d : d[k] = s})
<1>1. h.ll = [s \in LLSymbols |-> CountLL(s)] /\ h.d = [s \in DSymbols |-> CountD(s)]
  BY DEF Histogram, LLSymbols, DSymbols
<1>2. ASSUME NEW K, K \subseteq a .. b - 1 PROVE Cardinality(K) \in Nat
  <2>1. IsFiniteSet(a .. b - 1)
    <3>1. b - 1 \in Int
      OBVIOUS
    <3> QED  BY <3>1, FS_Interval
  <2> QED  BY <1>2, <2>1, FS_Subset, FS_CardinalityType
<1>3. DOMAIN ll \subseteq a .. b - 1 /\ DOMAIN d \subseteq a .. b - 1
  OBVIOUS
<1> HIDE DEF ll, d, h
<1>4. ASSUME NEW s PROVE CountLL(s) \in Nat /\ CountD(s) \in Nat
  <2>1. {k \in DOMAIN ll : ll[k] = s} \subseteq a .. b - 1
    BY <1>3
  <2>2. {k \in DOMAIN d : d[k] = s} \subseteq a .. b - 1
    BY <1>3
  <2> QED  BY <1>2, <2>1, <2>2
<1> HIDE DEF CountLL, CountD
<1> QED  BY <1>1, <1>4 DEF CodeCounts, h

(* Whichever lengths are taken, their size is that of the trees and data.    *)
Costed(g, store, a, b) ==
  /\ CodeTree(g.tree)
  /\ g.size = CalculateTreeSize(g.tree.ll, g.tree.d) + BitsOf(g.tree, store, a, b)

LEMMA TriedIs ==
  ASSUME NEW a \in Int, NEW b \in Int, a <= b, NEW store, Symbols(store, a, b),
         NEW counts, CodeCounts(counts), CountsOfBlock(counts, store, a, b),
         NEW tree, CodeTree(tree)
  PROVE  Costed(TryOptimizeHuffmanForRle(counts, tree, store, a, b), store, a, b)
<1> DEFINE Sized(t) == [ tree |-> t,
                         size |-> CalculateTreeSize(t.ll, t.d)
                           + CalculateBlockSymbolSizeGivenCounts(counts, t, store, a, b) ]
           even == [ ll |-> OptimizeHuffmanForRle(counts.ll, NumLL),
                     d  |-> OptimizeHuffmanForRle(counts.d, NumD) ]
           tree2 == CodeLengthsFor(even)
           tried == TryOptimizeHuffmanForRle(counts, tree, store, a, b)
<1>1. tried = IF tree2 = tree THEN Sized(tree)
              ELSE IF Sized(tree2).size < Sized(tree).size THEN Sized(tree2) ELSE Sized(tree)
  BY DEF TryOptimizeHuffmanForRle
<1>2. CodeTree(tree2)
  <2>1. NumLL \in Nat /\ NumD \in Nat
    BY DEF NumLL, NumD
  <2>2. counts.ll \in [0 .. NumLL - 1 -> Nat] /\ counts.d \in [0 .. NumD - 1 -> Nat]
    BY DEF CodeCounts, LLSymbols, DSymbols
  <2>3. OptimizeHuffmanForRle(counts.ll, NumLL) \in [0 .. NumLL - 1 -> Nat]
    BY ONLY <2>1, <2>2, OptimizedIs
  <2>4. OptimizeHuffmanForRle(counts.d, NumD) \in [0 .. NumD - 1 -> Nat]
    BY ONLY <2>1, <2>2, OptimizedIs
  <2>5. CodeCounts(even)
    BY <2>3, <2>4 DEF CodeCounts, LLSymbols, DSymbols
  <2> HIDE DEF even
  <2> QED  BY <2>5, CodesWithin
<1> HIDE DEF tree2, tried
<1>3. ASSUME NEW t, CodeTree(t) PROVE Costed(Sized(t), store, a, b)
  <2>1. Codable(t)
    BY <1>3, TreesAreCodable
  <2>2. CalculateBlockSymbolSizeGivenCounts(counts, t, store, a, b) = BitsOf(t, store, a, b)
    BY <2>1, SizeGivenCounts
  <2>3. Sized(t).tree = t
        /\ Sized(t).size = CalculateTreeSize(t.ll, t.d) + BitsOf(t, store, a, b)
    BY <2>2
  <2> HIDE DEF Sized
  <2> QED  BY <1>3, <2>3 DEF Costed
<1> HIDE DEF Sized
<1>4. tried \in {Sized(tree), Sized(tree2)}
  BY <1>1
<1> QED  BY <1>2, <1>3, <1>4 DEF tried

LEMMA DynamicIs ==
  ASSUME NEW a \in Int, NEW b \in Int, a <= b, NEW store, Symbols(store, a, b)
  PROVE  Costed(GetDynamicLengths(store, a, b), store, a, b)
<1> DEFINE h == Histogram(store, a, b)
           counts == [h EXCEPT !.ll[256] = 1]
<1>1. GetDynamicLengths(store, a, b)
        = TryOptimizeHuffmanForRle(counts, CodeLengthsFor(counts), store, a, b)
  BY DEF GetDynamicLengths
<1>2. CodeCounts(h)
  BY HistogramCounts
<1>3. h = [ll |-> h.ll, d |-> h.d]
  BY DEF Histogram
<1>4. counts.ll = [h.ll EXCEPT ![256] = 1] /\ counts.d = h.d
  <2> HIDE DEF h
  <2> QED  BY <1>3
<1> HIDE DEF counts
<1>5. CodeCounts(counts)
  <2> HIDE DEF h
  <2>1. h.ll \in [LLSymbols -> Nat] /\ h.d \in [DSymbols -> Nat]
    BY <1>2 DEF CodeCounts
  <2>2. [h.ll EXCEPT ![256] = 1] \in [LLSymbols -> Nat]
    BY <2>1
  <2> QED  BY <1>4, <2>1, <2>2 DEF CodeCounts
<1>6. CountsOfBlock(counts, store, a, b)
  <2>1. ASSUME NEW s \in 0 .. 287, s # 256 PROVE counts.ll[s] = h.ll[s]
    <3>1. s \in LLSymbols
      BY SymbolsAre
    <3>2. s \in DOMAIN h.ll
      <4> HIDE DEF h
      <4> QED  BY <1>2, <3>1 DEF CodeCounts
    <3> HIDE DEF h
    <3> QED  BY <1>4, <2>1, <3>2
  <2> QED  BY <1>4, <2>1 DEF CountsOfBlock, h
<1> HIDE DEF h
<1> QED  BY <1>1, <1>5, <1>6, CodesWithin, TriedIs

(* What a compressed block costs is the number of its bits.                  *)
LEMMA FixedBlockOfLength ==
  ASSUME NEW a \in Int, NEW b \in Int, a <= b, NEW store, Symbols(store, a, b)
  PROVE  OfLength(AddLZ77Block(1, store, a, b), FixedSize(store, a, b))
<1> DEFINE head == <<1, 1 % 2, 1 \div 2>>
           data == AddLZ77Data(store, a, b, FixedTree)
           size == BitsOf(FixedTree, store, a, b)
<1>1. AddLZ77Block(1, store, a, b) = head \o << >> \o data
  BY DEF AddLZ77Block
<1>2. Codable(FixedTree)
  BY FixedTreeIs, TreesAreCodable
<1>3. OfLength(data, size) /\ size \in Nat
  BY <1>2, DataOfLength
<1>4. FixedSize(store, a, b) = 3 + size
  <2>1. CountsOfBlock(Histogram(store, a, b), store, a, b)
    BY DEF CountsOfBlock
  <2> QED  BY <1>2, <2>1, SizeGivenCounts DEF FixedSize
<1>5. OfLength(head, 3)
  <2>1. head \in Seq({1, 1 % 2, 1 \div 2}) /\ Len(head) = 3
    OBVIOUS
  <2> HIDE DEF head
  <2> QED  BY <2>1, IsOfLength
<1>6. OfLength(<< >>, 0)
  <2>1. << >> \in Seq({}) /\ Len(<< >>) = 0
    OBVIOUS
  <2> QED  BY <2>1, IsOfLength
<1> HIDE DEF head, data, size
<1>7. OfLength(head \o << >>, 3 + 0)
  BY <1>5, <1>6, BothOfLength
<1>8. OfLength(head \o << >> \o data, (3 + 0) + size)
  BY <1>3, <1>7, BothOfLength
<1>9. (3 + 0) + size = 3 + size
  BY <1>3
<1> QED  BY <1>1, <1>4, <1>8, <1>9

LEMMA DynamicBlockOfLength ==
  ASSUME NEW a \in Int, NEW b \in Int, a <= b, NEW store, Symbols(store, a, b)
  PROVE  OfLength(AddLZ77Block(2, store, a, b), DynamicSize(store, a, b))
<1> DEFINE g == GetDynamicLengths(store, a, b)
           tree == g.tree
           head == <<1, 2 % 2, 2 \div 2>>
           codes == AddDynamicTree(tree.ll, tree.d)
           data == AddLZ77Data(store, a, b, tree)
           size == BitsOf(tree, store, a, b)
           treesize == CalculateTreeSize(tree.ll, tree.d)
<1>1. AddLZ77Block(2, store, a, b) = head \o codes \o data
  BY DEF AddLZ77Block
<1>2. CodeTree(tree) /\ g.size = treesize + size
  <2> HIDE DEF g
  <2>1. Costed(g, store, a, b)
    BY DynamicIs DEF g
  <2> QED  BY <2>1 DEF Costed
<1>3. DynamicSize(store, a, b) = 3 + g.size
  BY DEF DynamicSize
<1> HIDE DEF g, tree
<1>4. OfLength(data, size) /\ size \in Nat
  BY <1>2, TreesAreCodable, DataOfLength
<1>5. OfLength(codes, treesize) /\ treesize \in Nat
  BY <1>2, DynamicTreeOfLength
<1>6. OfLength(head, 3)
  <2>1. head \in Seq({1, 2 % 2, 2 \div 2}) /\ Len(head) = 3
    OBVIOUS
  <2> HIDE DEF head
  <2> QED  BY <2>1, IsOfLength
<1> HIDE DEF head, codes, data, size, treesize
<1>7. OfLength(head \o codes, 3 + treesize)
  BY <1>5, <1>6, BothOfLength
<1>8. OfLength(head \o codes \o data, (3 + treesize) + size)
  BY <1>4, <1>7, BothOfLength
<1>9. (3 + treesize) + size = 3 + g.size
  BY <1>2, <1>4, <1>5
<1> QED  BY <1>1, <1>3, <1>8, <1>9

-----------------------------------------------------------------------------
(* The costs are those of the block that is written: the fixed one that of   *)
(* the store made for the fixed tree exactly when that store is written.     *)
OwnFixed(b) == FixedSize(b.store, b.lstart, b.lend)
OwnDynamic(b) == DynamicSize(b.store, b.lstart, b.lend)
Remade(b) == b.btype = AutoType /\ UseExpensiveFixed(Len(b.store), OwnFixed(b), OwnDynamic(b))
FixedCost(b) == IF Remade(b) THEN FixedSize(b.fixedstore, 1, Len(b.fixedstore) + 1)
                ELSE OwnFixed(b)
WriterInv ==
  /\ block \in Blocks
  /\ writing \in {"asked", "costed", "written"}
  /\ writing # "written" => OfLength(bits, block.ahead) /\ written = AutoType
  /\ writing # "asked" => costs[2] = FixedCost(block) /\ costs[3] = OwnDynamic(block)
  /\ EstimateExact

LEMMA BlockIs ==
  ASSUME NEW b \in Blocks
  PROVE  /\ b.lstart \in Int /\ b.lend \in Int /\ b.lstart <= b.lend
         /\ Symbols(b.store, b.lstart, b.lend)
         /\ Symbols(b.fixedstore, 1, Len(b.fixedstore) + 1) /\ Len(b.fixedstore) \in Nat
         /\ b.ahead \in Nat /\ b.btype \in 0 .. AutoType
<1>1. /\ b.store \in Seq(LZ77Symbols) /\ b.fixedstore \in Seq(LZ77Symbols)
      /\ b.lstart \in Nat /\ b.lend \in Nat
      /\ 1 <= b.lstart /\ b.lstart <= b.lend /\ b.lend <= Len(b.store) + 1
      /\ b.btype \in 0 .. AutoType /\ b.ahead \in 0 .. 7
  BY BlocksAssumption
<1>2. Len(b.store) \in Nat /\ Len(b.fixedstore) \in Nat
      /\ (\A k \in 1 .. Len(b.store) : b.store[k] \in LZ77Symbols)
      /\ (\A k \in 1 .. Len(b.fixedstore) : b.fixedstore[k] \in LZ77Symbols)
  BY <1>1
<1>3. \A k \in b.lstart .. b.lend - 1 : k \in 1 .. Len(b.store)
  BY <1>1, <1>2
<1>4. \A k \in 1 .. (Len(b.fixedstore) + 1) - 1 : k \in 1 .. Len(b.fixedstore)
  BY <1>2
<1>5. b.ahead \in Nat
  BY <1>1
<1> QED  BY <1>1, <1>2, <1>3, <1>4, <1>5 DEF Symbols

LEMMA WriterBegins == InitWriter => WriterInv
<1> SUFFICES ASSUME InitWriter PROVE WriterInv
  OBVIOUS
<1>1. block \in Blocks /\ writing = "asked" /\ written = AutoType
      /\ bits = [k \in 1 .. block.ahead |-> 0]
  BY DEF InitWriter
<1>2. OfLength(bits, block.ahead)
  <2>1. block.ahead \in Nat
    BY <1>1, BlockIs
  <2>2. bits \in [1 .. block.ahead -> {0}]
    BY <1>1
  <2>3. bits \in Seq({0}) /\ Len(bits) = block.ahead
    BY <2>1, <2>2, OverIsSeq
  <2> QED  BY <2>3, IsOfLength
<1>3. EstimateExact
  BY <1>1 DEF EstimateExact, AutoType
<1> QED  BY <1>1, <1>2, <1>3 DEF WriterInv

LEMMA EstimateCostsKeeps == WriterInv /\ EstimateCosts => WriterInv'
<1> SUFFICES ASSUME WriterInv, EstimateCosts PROVE WriterInv'
  OBVIOUS
<1>1. /\ writing = "asked" /\ writing' = "costed"
      /\ block' = block /\ written' = written /\ bits' = bits
  BY DEF EstimateCosts
<1>2. block \in Blocks /\ OfLength(bits, block.ahead) /\ written = AutoType
  BY <1>1 DEF WriterInv
<1>3. costs' = << StoredSize(block.store, block.lstart, block.lend),
                  IF ExpensiveFixed(OwnDynamic(block), OwnFixed(block))
                    THEN FixedSize(block.fixedstore, 1, Len(block.fixedstore) + 1)
                    ELSE OwnFixed(block),
                  OwnDynamic(block) >>
  BY DEF EstimateCosts, OwnDynamic, OwnFixed
<1>4. ExpensiveFixed(OwnDynamic(block), OwnFixed(block)) <=> Remade(block)
  BY DEF ExpensiveFixed, Remade
<1>5. costs'[2] = FixedCost(block) /\ costs'[3] = OwnDynamic(block)
  BY <1>3, <1>4 DEF FixedCost
<1>6. EstimateExact'
  BY <1>1, <1>2 DEF EstimateExact, AutoType
<1> QED  BY <1>1, <1>2, <1>5, <1>6 DEF WriterInv

LEMMA WriteEmptyKeeps == WriterInv /\ WriteEmpty => WriterInv'
<1> SUFFICES ASSUME WriterInv, WriteEmpty PROVE WriterInv'
  OBVIOUS
<1>1. writing = "costed" /\ writing' = "written" /\ block' = block /\ costs' = costs /\ Empty
  BY DEF WriteEmpty
<1>2. EstimateExact'
  BY <1>1 DEF EstimateExact, Empty
<1> QED  BY <1>1, <1>2 DEF WriterInv

LEMMA WriteStoredKeeps == WriterInv /\ WriteStored => WriterInv'
<1> SUFFICES ASSUME WriterInv, WriteStored PROVE WriterInv'
  OBVIOUS
<1>1. writing = "costed" /\ writing' = "written" /\ block' = block /\ costs' = costs
      /\ written' = 0
  BY DEF WriteStored
<1>2. EstimateExact'
  BY <1>1 DEF EstimateExact
<1> QED  BY <1>1, <1>2 DEF WriterInv

(* A block that is compressed is as long as the cost of its type.            *)
LEMMA CompressedAsCosted ==
  ASSUME WriterInv, writing = "costed", TypeFor # 0
  PROVE  LET s == SymbolsWritten
         IN  /\ TypeFor \in {1, 2}
             /\ OfLength(AddLZ77Block(TypeFor, s.store, s.lstart, s.lend), costs[TypeFor + 1])
<1> DEFINE s == SymbolsWritten
           whole == [store |-> block.store, lstart |-> block.lstart, lend |-> block.lend]
           made == [store |-> block.fixedstore, lstart |-> 1, lend |-> Len(block.fixedstore) + 1]
<1>1. block \in Blocks /\ costs[2] = FixedCost(block) /\ costs[3] = OwnDynamic(block)
  BY DEF WriterInv
<1>2. /\ block.lstart \in Int /\ block.lend \in Int /\ block.lstart <= block.lend
      /\ Symbols(block.store, block.lstart, block.lend)
      /\ Symbols(block.fixedstore, 1, Len(block.fixedstore) + 1) /\ Len(block.fixedstore) \in Nat
      /\ block.btype \in 0 .. AutoType
  BY <1>1, BlockIs
<1>3. TypeFor \in {1, 2}
  <2>1. block.btype # AutoType => block.btype \in {0, 1, 2}
    BY <1>2 DEF AutoType
  <2> QED  BY <2>1 DEF TypeFor
<1>4. s = IF FixedStoreUsed THEN made ELSE whole
  BY DEF SymbolsWritten
<1>5. FixedStoreUsed <=> Remade(block) /\ TypeFor = 1
  BY <1>1 DEF FixedStoreUsed, Remade, OwnFixed
<1>6. CASE TypeFor = 2
  <2>1. s = whole
    BY <1>4, <1>5, <1>6
  <2>2. OfLength(AddLZ77Block(2, block.store, block.lstart, block.lend), OwnDynamic(block))
    BY <1>2, DynamicBlockOfLength DEF OwnDynamic
  <2>3. s.store = block.store /\ s.lstart = block.lstart /\ s.lend = block.lend
    BY <2>1
  <2> QED  BY <1>1, <1>3, <1>6, <2>2, <2>3
<1>7. CASE TypeFor = 1 /\ Remade(block)
  <2>1. s = made
    BY <1>4, <1>5, <1>7
  <2> DEFINE e == Len(block.fixedstore) + 1
  <2>2. 1 \in Int /\ e \in Int /\ 1 <= e
    BY <1>2
  <2>3. OfLength(AddLZ77Block(1, block.fixedstore, 1, e), FixedSize(block.fixedstore, 1, e))
    BY <1>2, <2>2, FixedBlockOfLength
  <2>4. costs[2] = FixedSize(block.fixedstore, 1, e)
    BY <1>1, <1>7 DEF FixedCost
  <2>5. s.store = block.fixedstore /\ s.lstart = 1 /\ s.lend = e
    BY <2>1
  <2> QED  BY <1>3, <1>7, <2>3, <2>4, <2>5
<1>8. CASE TypeFor = 1 /\ ~ Remade(block)
  <2>1. s = whole
    BY <1>4, <1>5, <1>8
  <2>2. OfLength(AddLZ77Block(1, block.store, block.lstart, block.lend), OwnFixed(block))
    BY <1>2, FixedBlockOfLength DEF OwnFixed
  <2>3. costs[2] = OwnFixed(block)
    BY <1>1, <1>8 DEF FixedCost
  <2>4. s.store = block.store /\ s.lstart = block.lstart /\ s.lend = block.lend
    BY <2>1
  <2> QED  BY <1>3, <1>8, <2>2, <2>3, <2>4
<1> QED  BY <1>3, <1>6, <1>7, <1>8

LEMMA WriteCompressedKeeps == WriterInv /\ WriteCompressed => WriterInv'
<1> SUFFICES ASSUME WriterInv, WriteCompressed PROVE WriterInv'
  OBVIOUS
<1> DEFINE s == SymbolsWritten
           new == AddLZ77Block(TypeFor, s.store, s.lstart, s.lend)
           cost == costs[TypeFor + 1]
<1>1. /\ writing = "costed" /\ writing' = "written" /\ block' = block /\ costs' = costs
      /\ TypeFor # 0 /\ bits' = bits \o new /\ written' = TypeFor
  BY DEF WriteCompressed
<1>2. TypeFor \in {1, 2} /\ OfLength(new, cost)
  BY <1>1, CompressedAsCosted
<1>3. OfLength(bits, block.ahead)
  BY <1>1 DEF WriterInv
<1> HIDE DEF new
<1>4. OfLength(bits', block.ahead + cost)
  BY <1>1, <1>2, <1>3, BothOfLength
<1>5. cost \in Nat /\ block.ahead \in Nat /\ Len(bits') = block.ahead + cost
  BY <1>2, <1>3, <1>4 DEF OfLength
<1>6. costs'[written' + 1] = cost
  BY <1>1
<1> HIDE DEF cost
<1>7. Len(bits') - block'.ahead = cost
  BY <1>1, <1>5
<1>8. EstimateExact'
  BY <1>6, <1>7 DEF EstimateExact
<1> QED  BY <1>1, <1>8 DEF WriterInv

(* The cost a compressed block is chosen for is the number of its bits, for  *)
(* every store of LZ77 symbols and every size of the constants: what         *)
(* EncodeTree sums up without writing is what it writes, the size by symbol  *)
(* counts is the size symbol by symbol, and the fixed cost is that of the    *)
(* store that is written (deflate.c:131-259, 316-345, 454-489, 586-604,      *)
(* 817-859).                                                                 *)
THEOREM EstimateIsExact == WriterSpec => []EstimateExact
<1>1. ASSUME WriterInv, [WriterNext]_writerVars PROVE WriterInv'
  <2>1. CASE UNCHANGED writerVars
    BY <1>1, <2>1 DEF WriterInv, writerVars, EstimateExact, Empty
  <2>2. CASE WriterNext
    BY <1>1, <2>2, EstimateCostsKeeps, WriteEmptyKeeps, WriteStoredKeeps, WriteCompressedKeeps
       DEF WriterNext
  <2> QED  BY <1>1, <2>1, <2>2
<1>2. WriterInv => EstimateExact
  BY DEF WriterInv
<1> QED  BY <1>1, <1>2, WriterBegins, PTL DEF WriterSpec
=============================================================================
