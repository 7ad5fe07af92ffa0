----------------------------- MODULE MCSqueeze ------------------------------
(***************************************************************************)
(* Instances of Squeeze: short blocks over two letters with a small match  *)
(* cache, and blocks that are one long repetition.  Matches are of three   *)
(* and four bytes, distances of two costs.                                 *)
(***************************************************************************)
EXTENDS Squeeze, SqueezeIterations

MCDistSymbol(d) == IF d <= 2 THEN 0 ELSE 1

Model(lit0, lit1, len3, len4, near, far) ==
  [ lit  |-> [b \in Byte |-> IF b = 0 THEN lit0 ELSE lit1],
    len  |-> [k \in MinMatch .. MaxMatch |-> IF k = 3 THEN len3 ELSE len4],
    dist |-> [s \in {0, 1} |-> IF s = 0 THEN near ELSE far] ]

MCLengthSymbol(k) == k              \* the end is symbol 2
MCLengthExtraBits(k) == k - 3
MCDistExtraBits(s) == s
MCShortCode(s) == s \notin {1, 4}

(* The fixed tree; far matches that cost more than literals; lengths of      *)
(* very different cost, one way (few matches of other lengths than the       *)
(* longest one) and the other.                                               *)
MCCostModels == { FixedCosts(0, Byte, 3 .. 4, {0, 1}), Model(1, 5, 2, 2, 1, 9),
                  Model(6, 4, 9, 2, 3, 2), Model(9, 9, 1, 9, 1, 2) }

(* Eight letters, the first of them given; all are the block or the last six.*)
Short(w) == [q \in 0 .. 7 |-> IF q = 0 THEN 0 ELSE w[q]]
ShortCases == {<<Short(w), s, 8>> : w \in [1 .. 7 -> Byte], s \in {0, 2}}

(* One byte repeated, but for at most one other byte somewhere.              *)
RunBut(p) == [q \in 0 .. 24 |-> IF q = p THEN 1 ELSE 0]
RunCases == {<<RunBut(p), s, 25>> : p \in 0 .. 25, s \in {0, 6}}

MCCases == ShortCases \cup RunCases

(* The cache is too small for some of the short blocks.                      *)
MCPoolCap(n) == IF n <= 8 THEN 4 ELSE 60

(* Parses of a block of twelve bytes; two of them differ in distances only.  *)
Histogram(lit0, lit1, len4, near, far) ==
  [ ll |-> [s \in LLSymbols |-> CASE s = 0 -> lit0 [] s = 1 -> lit1
                                              [] s = EndSymbol -> 1 [] OTHER -> len4],
    d |-> [s \in DSymbols |-> IF s = 0 THEN near ELSE far] ]
MCParses == { Histogram(6, 6, 0, 0, 0), Histogram(3, 1, 2, 2, 0),
              Histogram(3, 1, 2, 1, 1), Histogram(0, 0, 3, 0, 3) }
MCEncodedSize(p) == 2 * p.ll[0] + 3 * p.ll[1] + 6 * p.ll[4] - p.d[1]

MCGreedySearches == {{}, {0, 1, 5}, 0 .. 24}

(* One run checks both: either the passes move or the iterations.            *)
NoIterations ==
  /\ numiterations = -1 /\ round = 0 /\ made = {} /\ hist = NoParse /\ lastcost = 0
  /\ stats = [ll_symbols |-> << >>, d_symbols |-> << >>]
  /\ kept = NoParse /\ bestcost = 0 /\ beststats = NoParse /\ lastrandomstep = -1
NoPass ==
  /\ array = << >> /\ instart = 0 /\ end = 0 /\ searches = {}
  /\ lmc = NoCache /\ build_hash = TRUE /\ iteration = 0 /\ cost = 0
  /\ phase = "stored" /\ i = 0 /\ costs = [t \in {0} |-> 0]
  /\ lendist = [t \in {0} |-> <<0, 0>>] /\ index = 0 /\ path = << >> /\ parsed = << >>
IdlePass == NoPass /\ UNCHANGED squeezeVars

MCSpec == /\ (Init /\ NoIterations) \/ (InitIterations /\ NoPass)
          /\ [][\/ numiterations = -1 /\ Next /\ UNCHANGED iterationVars
                \/ IdlePass /\ IterationsNext]_<<squeezeVars, iterationVars>>
=============================================================================
