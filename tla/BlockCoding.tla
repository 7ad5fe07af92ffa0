----------------------------- MODULE BlockCoding -----------------------------
(***************************************************************************)
(* What a deflate block of the LZ77 symbols lstart .. lend - 1 consists of *)
(* and costs: symbols.h, tree.c:31-72 and deflate.c:36-729.  A store is a  *)
(* sequence of symbols [litlen, dist]; bits are a sequence of 0 and 1 in   *)
(* the order in which a reader takes them out of the bytes; an array of    *)
(* the code is a function from 0.                                          *)
(***************************************************************************)
EXTENDS Katajainen

CONSTANTS
  SmallBlock,   \* blocks below it are sized symbol by symbol (ZOPFLI_NUM_LL * 3)
  SmallStore,   \* stores below it always try a fixed tree (1000)
  MaxStored     \* the bytes of a stored chunk (65535)

ASSUME SizesAssumption == SmallBlock \in Nat /\ SmallStore \in Nat
                          /\ MaxStored \in 1 .. 65535

NumLL == 288
NumD == 32

(* symbols.h, where a count of leading zeros gives the logarithm.            *)
Powers == <<1, 2, 4, 8, 16, 32, 64, 128, 256, 512, 1024, 2048, 4096, 8192, 16384, 32768, 65536>>
Power(e) == Powers[e + 1]
Log2(n) == CHOOSE e \in 0 .. 15 : Power(e) <= n /\ n < Power(e + 1)

DistExtraBits(dist) == IF dist < 5 THEN 0 ELSE Log2(dist - 1) - 1
DistExtraValue(dist) ==
  IF dist < 5 THEN 0
  ELSE (dist - (1 + Power(Log2(dist - 1)))) % Power(Log2(dist - 1) - 1)
DistSymbol(dist) ==
  IF dist < 5 THEN dist - 1
  ELSE LET l == Log2(dist - 1) IN 2 * l + (((dist - 1) \div Power(l - 1)) % 2)

(* The tables of lengths count on from 3, eight symbols to a doubling once   *)
(* there are extra bits, and give the longest length a symbol of its own.    *)
LengthExtraBits(l) == IF l < 11 \/ l = 258 THEN 0 ELSE Log2(l - 3) - 2
LengthSymbol(l) ==
  IF l = 258 THEN 285
  ELSE 257 + 4 * LengthExtraBits(l) + (l - 3) \div Power(LengthExtraBits(l))
LengthExtraValue(l) == IF l = 258 THEN 0 ELSE (l - 3) % Power(LengthExtraBits(l))

LengthSymbolExtraBitsAll(s) == IF s < 265 THEN 0 ELSE (s - 261) \div 4   \* mutant
LengthSymbolExtraBits(s) == IF s < 265 \/ s = 285 THEN 0 ELSE (s - 261) \div 4
DistSymbolExtraBits(s) == IF s < 4 THEN 0 ELSE s \div 2 - 1

-----------------------------------------------------------------------------
(* Bits *)

(* Sums and concatenations of f[a] to f[b], by halves.                       *)
Middle(x) == (x[1] + x[2]) \div 2
LeftHalf(x) == <<x[1], Middle(x)>>
RightHalf(x) == <<Middle(x) + 1, x[2]>>
Total(f, a, b) ==
  LET sum[x \in (a .. b) \X (a .. b)] ==
        IF x[1] >= x[2] THEN f[x[1]] ELSE sum[LeftHalf(x)] + sum[RightHalf(x)]
  IN  IF a > b THEN 0 ELSE sum[<<a, b>>]
Joined(seqs, a, b) ==
  LET joined[x \in (a .. b) \X (a .. b)] ==
        IF x[1] >= x[2] THEN seqs[x[1]] ELSE joined[LeftHalf(x)] \o joined[RightHalf(x)]
  IN  IF a > b THEN << >> ELSE joined[<<a, b>>]
Concat(seqs) == Joined(seqs, 1, Len(seqs))

Bits(value, n) == [i \in 1 .. n |-> (value \div 2 ^ (i - 1)) % 2]
HuffmanBits(code, n) == [i \in 1 .. n |-> (code \div 2 ^ (n - i)) % 2]

(* Canonical codes: of each length consecutive, from where the shorter end.  *)
LengthsToSymbols(lengths, maxbits) ==
  LET used == {s \in DOMAIN lengths : lengths[s] # 0}
      h == [of |-> [bits \in 1 .. maxbits |-> {s \in used : lengths[s] = bits}]]
      first[bits \in 1 .. maxbits] ==
        IF bits = 1 THEN 0 ELSE 2 * (first[bits - 1] + Cardinality(h.of[bits - 1]))
      CodeOf(s) == first[lengths[s]] + Cardinality({t \in h.of[lengths[s]] : t < s})
  IN  [s \in DOMAIN lengths |-> IF lengths[s] = 0 THEN 0 ELSE CodeOf(s)]

-----------------------------------------------------------------------------
(* The code of the two trees' lengths *)

PatchDistanceCodesForBuggyDecoders(d) ==
  LET codes == {s \in 0 .. 29 : d[s] # 0}
  IN  CASE Cardinality(codes) >= 2 -> d
        [] codes = {} -> [d EXCEPT ![0] = 1, ![1] = 1]
        [] OTHER -> [d EXCEPT ![IF d[0] # 0 THEN 1 ELSE 0] = 1]

(* Zeros at the ends are trimmed, down to 257 and 1 lengths.                 *)
Trimmed(lengths, least) ==
  CHOOSE n \in 0 .. 29 :
    /\ n > 0 => lengths[least + n - 1] # 0
    /\ \A k \in n + 1 .. 29 : lengths[least + k - 1] = 0
BuildTreeLens(ll, d) ==
  LET hlit == Trimmed(ll, 257)
      hdist == Trimmed(d, 1)
  IN  [ hlit |-> hlit, hdist |-> hdist,
        lens |-> [i \in 1 .. hlit + 257 |-> ll[i - 1]] \o
                 [i \in 1 .. hdist + 1 |-> d[i - 1]] ]

(* A run is cut into pieces of at most `most` while `least` are left.        *)
Uncut(count) == [left |-> count, pieces |-> << >>]
Cut(run, least, most) ==
  IF run.left < least THEN run
  ELSE [ left   |-> run.left - Smallest(run.left, most),
         pieces |-> Append(run.pieces, Smallest(run.left, most)) ]
Pieces(count, least, most) ==
  LET cut[n \in 0 .. count \div least] ==
        IF n = 0 THEN Uncut(count) ELSE Cut(cut[n - 1], least, most)
  IN  cut[count \div least]
Repeats(code, pieces, least) ==
  [k \in DOMAIN pieces |-> [code |-> code, extra |-> pieces[k] - least]]
Singles(symbol, n) == [k \in 1 .. n |-> [code |-> symbol, extra |-> 0]]

LongestZerosPast == 139                                               \* mutant
LongestZeros == 138

(* The codes for `count` lengths in a row that are `symbol`: long and short  *)
(* runs of zeros, and repetitions of a length put once.                      *)
RunCodes(symbol, count, use) ==
  LET zeros == symbol = 0 /\ count >= 3
      Codes(long, short, once, again) ==
        Repeats(18, long.pieces, 11) \o Repeats(17, short.pieces, 3) \o Singles(symbol, once)
          \o Repeats(16, again.pieces, 3) \o Singles(symbol, again.left)
      Rest(long, short) ==
        IF use[16] /\ short.left >= 4
          THEN Codes(long, short, 1, Pieces(short.left - 1, 3, 6))
          ELSE Codes(long, short, 0, Uncut(short.left))
      Zeros(long) ==
        Rest(long, IF zeros /\ use[17] THEN Pieces(long.left, 3, 10) ELSE Uncut(long.left))
  IN  Zeros(IF zeros /\ use[18] THEN Pieces(count, 11, LongestZeros) ELSE Uncut(count))

(* Where each run of equal elements of f[a .. b] begins and which ends it.   *)
RunStarts(f, a, b) == {i \in a .. b : i = a \/ f[i] # f[i - 1]}
NextOf(starts, i, b) ==
  LET later == {j \in starts : j > i}
  IN  IF later = {} THEN b + 1 ELSE CHOOSE j \in later : \A k \in later : j <= k

(* Equal lengths are taken together when something can be made of them.      *)
LensCodes(lens, use) ==
  LET starts == RunStarts(lens, 1, Len(lens))
      Together(symbol) == use[16] \/ (symbol = 0 /\ (use[17] \/ use[18]))
      CodesAt(i) ==
        IF Together(lens[i]) /\ i \notin starts THEN << >>
        ELSE RunCodes(lens[i], IF Together(lens[i]) THEN NextOf(starts, i, Len(lens)) - i ELSE 1, use)
  IN  Concat([i \in DOMAIN lens |-> CodesAt(i)])

Order == <<16, 17, 18, 0, 8, 7, 9, 6, 10, 5, 11, 4, 12, 3, 13, 2, 14, 1, 15>>
CodeExtraBits(code) ==
  CASE code = 16 -> 2 [] code = 17 -> 3 [] code = 18 -> 7 [] OTHER -> 0

(* EncodeTree: the codes, the lengths of the codes' own tree, and their sum. *)
Hclen(counts) ==
  CHOOSE n \in 0 .. 15 : /\ n > 0 => counts[Order[n + 4]] # 0
                         /\ \A k \in n + 1 .. 15 : counts[Order[k + 4]] = 0
TreeCodes(t, use) ==
  LET CountsOf(codes) ==
        [c \in 0 .. 18 |-> Cardinality({k \in DOMAIN codes : codes[k].code = c})]
      Sized(codes, counts, clcl, hclen) ==
        [ codes |-> codes, clcl |-> clcl, hclen |-> hclen,
          size |-> 14 + 3 * (hclen + 4)
                   + Total([c \in 0 .. 18 |-> counts[c] * (clcl[c] + CodeExtraBits(c))], 0, 18) ]
      Given(h) == Sized(h.codes, h.counts, h.clcl, Hclen(h.counts))
      Counted(h) == Given([ codes |-> h.codes, counts |-> h.counts,
                            clcl |-> LengthLimitedCodeLengths(h.counts, 7) ])
      Coded(codes) == Counted([codes |-> codes, counts |-> CountsOf(codes)])
  IN  Coded(LensCodes(t.lens, use))

Combo(i) == [c \in 16 .. 18 |-> (i \div 2 ^ (c - 16)) % 2 = 1]

(* The smallest of the eight ways, the first of equals.                      *)
SelectBestTreeCombo(t) ==
  LET First(all) == all[CHOOSE i \in 0 .. 7 :
                          /\ \A k \in 0 .. 7 : all[i].size <= all[k].size
                          /\ \A k \in 0 .. i - 1 : all[i].size < all[k].size]
      Best(h) == First(h.all)
  IN  Best([all |-> [i \in 0 .. 7 |-> TreeCodes(t, Combo(i))]])

CalculateTreeSize(ll, d) == SelectBestTreeCombo(BuildTreeLens(ll, d)).size

WriteTree(t, best) ==
  LET symbols == LengthsToSymbols(best.clcl, 7)
      CodeBits(c) == HuffmanBits(symbols[c.code], best.clcl[c.code])
                       \o Bits(c.extra, CodeExtraBits(c.code))
  IN  Bits(t.hlit, 5) \o Bits(t.hdist, 5) \o Bits(best.hclen, 4) \o
      Concat([i \in 1 .. best.hclen + 4 |-> Bits(best.clcl[Order[i]], 3)]) \o
      Concat([k \in DOMAIN best.codes |-> CodeBits(best.codes[k])])
AddDynamicTree(ll, d) ==
  LET t == BuildTreeLens(ll, d)
  IN  WriteTree(t, SelectBestTreeCombo(t))

-----------------------------------------------------------------------------
(* Counts, lengths and sizes *)

SymbolOf(x) == IF x.dist = 0 THEN x.litlen ELSE LengthSymbol(x.litlen)
Histogram(store, lstart, lend) ==
  LET h == [ ll |-> [k \in lstart .. lend - 1 |-> SymbolOf(store[k])],
             d  |-> [k \in {j \in lstart .. lend - 1 : store[j].dist # 0} |->
                       DistSymbol(store[k].dist)] ]
  IN  [ ll |-> [s \in 0 .. NumLL - 1 |-> Cardinality({k \in DOMAIN h.ll : h.ll[k] = s})],
        d  |-> [s \in 0 .. NumD - 1 |-> Cardinality({k \in DOMAIN h.d : h.d[k] = s})] ]

FixedTree ==
  [ ll |-> [s \in 0 .. NumLL - 1 |-> CASE s < 144 -> 8 [] s \in 144 .. 255 -> 9
                                       [] s \in 256 .. 279 -> 7 [] OTHER -> 8],
    d  |-> [s \in 0 .. NumD - 1 |-> 5] ]

SymbolBits(tree, x) ==
  IF x.dist = 0 THEN tree.ll[x.litlen]
  ELSE LET lls == LengthSymbol(x.litlen)
           ds == DistSymbol(x.dist)
       IN  tree.ll[lls] + tree.d[ds] + LengthSymbolExtraBits(lls) + DistSymbolExtraBits(ds)

(* With or without the end symbol among the counts, it is added once.        *)
CalculateBlockSymbolSizeGivenCounts(counts, tree, store, lstart, lend) ==
  IF lstart + SmallBlock > lend
    THEN Total([k \in lstart .. lend - 1 |-> SymbolBits(tree, store[k])], lstart, lend - 1)
         + tree.ll[256]
    ELSE Total([s \in 0 .. 255 |-> counts.ll[s] * tree.ll[s]], 0, 255)
         + Total([s \in 257 .. 285 |->
                    counts.ll[s] * (tree.ll[s] + LengthSymbolExtraBits(s))], 257, 285)
         + Total([s \in 0 .. 29 |-> counts.d[s] * (tree.d[s] + DistSymbolExtraBits(s))], 0, 29)
         + tree.ll[256]

(* OptimizeHuffmanForRle: equal counts that make a long run already are good *)
(* and each begins a stride of its own, of which the last goes on.  A stride *)
(* ends before a good count, and before one 4 or more away from the mean of  *)
(* its first four; the counts of a long one become their mean, at least 1.   *)
AbsDiff(a, b) == IF a < b THEN b - a ELSE a - b

GoodForRle(counts, length) ==
  LET starts == RunStarts(counts, 0, length - 1)
      Next(i) == NextOf(starts, i, length - 1)
      good == {i \in starts : Next(i) - i >= IF counts[i] = 0 THEN 5 ELSE 7}
  IN  UNION {i .. Next(i) - 1 : i \in good}

StrideMean(stride, sum) ==
  IF sum = 0 THEN 0 ELSE LET mean == (sum + stride \div 2) \div stride
                         IN  IF mean < 1 THEN 1 ELSE mean
Collapsed(counts, from, to) ==
  LET stride == to - from
      sum == Total(counts, from, to - 1)
  IN  IF stride >= 4 \/ (stride >= 3 /\ sum = 0)
        THEN [s \in DOMAIN counts |-> IF s \in from .. to - 1 THEN StrideMean(stride, sum)
                                      ELSE counts[s]]
        ELSE counts
LimitAt(counts, i, length) ==
  IF i < length - 3
    THEN (counts[i] + counts[i + 1] + counts[i + 2] + counts[i + 3] + 2) \div 4
    ELSE counts[i]

(* The strides from `from` on; none changes what another is made of.         *)
StrideLimit(counts, good, length, from) ==
  IF from = 0 /\ 0 \notin good THEN counts[0] ELSE LimitAt(counts, from, length)
StrideEnd(counts, good, length, from) ==
  LET limit == StrideLimit(counts, good, length, from)
      Ends(j) == j = length \/ j \in good \/ AbsDiff(counts[j], limit) >= 4
  IN  CHOOSE j \in from + 1 .. length : Ends(j) /\ \A k \in from + 1 .. j - 1 : ~ Ends(k)
NextStride(good, length, to) ==
  IF to \notin good THEN to
  ELSE CHOOSE j \in to .. length - 1 : to .. j \subseteq good /\ j + 1 \notin good
CollapsedFrom(counts, good, length) ==
  LET collapsed[from \in 0 .. length - 1] ==
        LET to == StrideEnd(counts, good, length, from)
            others == IF to = length THEN counts
                      ELSE collapsed[NextStride(good, length, to)]
        IN  Collapsed(others, from, to)
  IN  collapsed[0]

OptimizeHuffmanForRle(counts, n) ==
  LET used == {s \in 0 .. n - 1 : counts[s] # 0}
      length == 1 + CHOOSE s \in used : \A t \in used : t <= s
      h == [good |-> GoodForRle(counts, length)]
  IN  IF used = {} THEN counts ELSE CollapsedFrom(counts, h.good, length)

CodeLengthsFor(counts) ==
  [ ll |-> LengthLimitedCodeLengths(counts.ll, 15),
    d  |-> PatchDistanceCodesForBuggyDecoders(LengthLimitedCodeLengths(counts.d, 15)) ]

(* The lengths for the counts or for the counts made even, whichever gives   *)
(* the smaller block; what they cost is counted with the true counts.        *)
TryOptimizeHuffmanForRle(counts, tree, store, lstart, lend) ==
  LET Sized(t) == [ tree |-> t,
                    size |-> CalculateTreeSize(t.ll, t.d)
                             + CalculateBlockSymbolSizeGivenCounts(counts, t, store, lstart, lend) ]
      Smaller(first, second) == IF second.size < first.size THEN second ELSE first
      Tried(tree2) == IF tree2 = tree THEN Sized(tree) ELSE Smaller(Sized(tree), Sized(tree2))
  IN  Tried(CodeLengthsFor([ ll |-> OptimizeHuffmanForRle(counts.ll, NumLL),
                             d  |-> OptimizeHuffmanForRle(counts.d, NumD) ]))

GetDynamicLengths(store, lstart, lend) ==
  LET Optimized(counts) ==
        TryOptimizeHuffmanForRle(counts, CodeLengthsFor(counts), store, lstart, lend)
      WithEnd(counts) == Optimized([counts EXCEPT !.ll[256] = 1])
  IN  WithEnd(Histogram(store, lstart, lend))

ByteRange(store, lstart, lend) ==
  Total([k \in lstart .. lend - 1 |-> IF store[k].dist = 0 THEN 1 ELSE store[k].litlen],
        lstart, lend - 1)

(* ZopfliCalculateBlockSize, for each type.                                  *)
StoredSize(store, lstart, lend) ==
  LET length == ByteRange(store, lstart, lend)
      blocks == length \div MaxStored + IF length % MaxStored = 0 THEN 0 ELSE 1
  IN  blocks * 5 * 8 + length * 8
FixedSize(store, lstart, lend) ==
  3 + CalculateBlockSymbolSizeGivenCounts(
        Histogram(store, lstart, lend), FixedTree, store, lstart, lend)
DynamicSize(store, lstart, lend) == 3 + GetDynamicLengths(store, lstart, lend).size

UseExpensiveFixed(size, fixedcost, dyncost) ==
  size < SmallStore \/ fixedcost * 10 <= dyncost * 11

=============================================================================
