----------------------------- MODULE Katajainen -----------------------------
(***************************************************************************)
(* Length-limited Huffman code lengths by boundary package-merge, of       *)
(* src/zopfli/katajainen.c.  There is one list of chains for every bit of  *)
(* the limit, of which the last two are looked at.  A chain is what        *)
(* ExtractBitLengths reads of it: its weight, and how many of the sorted   *)
(* leaves it and each of the chains behind its tail covers.  Each new      *)
(* chain takes a node of a pool that was sized beforehand.                 *)
(***************************************************************************)
EXTENDS Integers, Sequences, FiniteSets, Functions

CONSTANT MaxWeight    \* weights must stay below it (2^55)
ASSUME MaxWeightAssumption == MaxWeight \in Nat

Smallest(a, b) == IF a < b THEN a ELSE b

(* The used symbols, lightest first, ties by symbol.                         *)
Used(freq) == {s \in DOMAIN freq : freq[s] # 0}
LeavesOf(freq) == {[weight |-> freq[s], symbol |-> s] : s \in Used(freq)}
Lighter(a, b) == \/ a.weight < b.weight
                 \/ a.weight = b.weight /\ a.symbol < b.symbol
Lightest(L) == CHOOSE a \in L : \A b \in L \ {a} : Lighter(a, b)
SortedUpTo(L) ==
  LET sorted[k \in 0 .. Cardinality(L)] ==
        IF k = 0 THEN << >>
        ELSE LET lighter == sorted[k - 1]
             IN  Append(lighter, Lightest(L \ Range(lighter)))
  IN  sorted
SortLeaves(freq) == SortedUpTo(LeavesOf(freq))[Cardinality(LeavesOf(freq))]

Limit(maxbits, n) == Smallest(maxbits, n - 1)

(* The two lightest leaves begin every list and take two nodes. *)
InitLists(leaves, maxbits) ==
  [ used  |-> 2,
    lists |-> [i \in 1 .. Limit(maxbits, Len(leaves)) |->
                 << [weight |-> leaves[1].weight, counts |-> <<1>>],
                    [weight |-> leaves[2].weight, counts |-> <<2>>] >>] ]

(* A new chain at the end of list i: the next leaf if it is lighter than a   *)
(* package of the two chains looked at in the list below.                    *)
PackageWeight(lists, i) == lists[i - 1][1].weight + lists[i - 1][2].weight
TakesLeaf(leaves, lists, i) ==
  LET last == Head(lists[i][2].counts)
  IN  last < Len(leaves) /\ PackageWeight(lists, i) > leaves[last + 1].weight

WithLeaf(leaves, chain) ==
  [ weight |-> leaves[Head(chain.counts) + 1].weight,
    counts |-> <<Head(chain.counts) + 1>> \o Tail(chain.counts) ]
WithPackage(lists, i) ==
  [ weight |-> PackageWeight(lists, i),
    counts |-> <<Head(lists[i][2].counts)>> \o lists[i - 1][2].counts ]

NewChain(st, i, chain) ==
  [ used  |-> st.used + 1,
    lists |-> [st.lists EXCEPT ![i] = <<@[2], chain>>] ]

(* A run of BoundaryPM for list i: a package uses up both chains looked at,  *)
(* so two new ones are made in the list below.  The runs are a function of   *)
(* what there is in a number of lists.                                       *)
Chain == [weight : Nat, counts : Seq(Nat) \ {<< >>}]
States(numlists) == [used : Nat, lists : [1 .. numlists -> Chain \X Chain]]

RunsBelow(leaves, numlists) ==
  LET run[i \in 1 .. numlists] ==
        IF i = 1
          THEN [st \in States(numlists) |->
                  IF Head(st.lists[1][2].counts) >= Len(leaves) THEN st
                  ELSE NewChain(st, 1, WithLeaf(leaves, st.lists[1][2]))]
          ELSE [st \in States(numlists) |->
                  IF TakesLeaf(leaves, st.lists, i)
                    THEN NewChain(st, i, WithLeaf(leaves, st.lists[i][2]))
                    ELSE run[i - 1][run[i - 1][NewChain(st, i, WithPackage(st.lists, i))]]]
  IN  run
BoundaryPM(leaves, st) == RunsBelow(leaves, Len(st.lists))[Len(st.lists)][st]

(* The last chain needs no weight and nothing below it.  It is written in    *)
(* the next node of the pool, or into the chain that is already there.       *)
BoundaryPMFinal(leaves, st) ==
  LET i == Len(st.lists)
  IN  IF TakesLeaf(leaves, st.lists, i)
        THEN [st EXCEPT !.used = @ + 1,
                        !.lists[i][2] = WithLeaf(leaves, @)]
        ELSE [st EXCEPT !.lists[i][2].counts = WithPackage(st.lists, i).counts]

(* A leaf is as long as there are chains that cover it. *)
ExtractBitLengths(freq, leaves, counts) ==
  LET Covered(v, j) == IF j > Len(counts) THEN FALSE ELSE v <= counts[j]
      LengthOf(v) == IF ~ Covered(v, 1) THEN 0
                     ELSE CHOOSE j \in DOMAIN counts :
                            ~ Covered(v, j + 1) /\ \A k \in 1 .. j : Covered(v, k)
      RankOf(s) == CHOOSE v \in DOMAIN leaves : leaves[v].symbol = s
  IN  [s \in DOMAIN freq |-> IF freq[s] = 0 THEN 0 ELSE LengthOf(RankOf(s))]

NodesForOneChain(maxbits, n) == maxbits * n                           \* mutant
NodesFor(maxbits, n) == 2 * maxbits * n
RunsForFewer(n) == 2 * n - 5                                          \* mutant
RunsFor(n) == 2 * n - 4

TooFewBits(maxbits, n) == 2 ^ maxbits < n
TooHeavy(leaves) == \E k \in DOMAIN leaves : leaves[k].weight >= MaxWeight

(* No symbol, or at most two: a length of 1 whatever the weights.            *)
FewLengths(freq) == [s \in DOMAIN freq |-> IF freq[s] = 0 THEN 0 ELSE 1]

(* The whole computation, as its callers see it. *)
MergedLists(leaves, st, runs) ==
  LET merged[r \in 0 .. runs] == IF r = 0 THEN st ELSE BoundaryPM(leaves, merged[r - 1])
  IN  merged[runs]

LengthLimitedCodeLengths(freq, maxbits) ==
  LET LastCounts(lists) == lists[Len(lists)][2].counts
      Merged(leaves) ==
        BoundaryPMFinal(leaves, MergedLists(leaves, InitLists(leaves, maxbits),
                                            RunsFor(Len(leaves)) - 1))
      Lengths(leaves) == IF Len(leaves) <= 2 THEN FewLengths(freq)
                         ELSE ExtractBitLengths(freq, leaves, LastCounts(Merged(leaves).lists))
  IN  Lengths(SortLeaves(freq))

=============================================================================
