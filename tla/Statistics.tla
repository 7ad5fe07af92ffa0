----------------------------- MODULE Statistics ------------------------------
(***************************************************************************)
(* The statistics of a parse and the cost models made from them            *)
(* (squeeze.c:41-208, 466-494, and the entropy of tree.c): how often each  *)
(* symbol occurs, what it would cost in bits, in fixed point, and what     *)
(* blending and perturbing do to the frequencies.  A parse is its          *)
(* histogram, [ll |-> frequencies, d |-> frequencies], of literals and     *)
(* lengths and of distances; which symbols there are is left open.         *)
(***************************************************************************)
EXTENDS Integers, FiniteSetsExt

CONSTANTS
  NumSymbols,          \* symbols are below ZOPFLI_NUM_LL (288)
  EndSymbol,           \* 256
  LengthSymbol(_), LengthExtraBits(_),
  DistExtraBits(_),    \* of a distance symbol
  ShortCode(_),        \* symbols with the shorter fixed code: to 143, and 256 to 279
  LogWidth,            \* bits of the numbers the logarithm is taken of (32)
  MaxShift,            \* 16
  PositionBits,        \* what a position costs at most (32)
  TotalBits            \* log2 of what a block may cost (29)

ASSUME StatisticsAssumption ==
  /\ NumSymbols \in Nat \ {0}
  /\ LogWidth \in Nat \ {0} /\ MaxShift \in Nat /\ TotalBits \in Nat
  /\ PositionBits \in Nat \ {0} /\ PositionBits <= LogWidth /\ MaxShift < TotalBits

(* Shifts of one bit; the leading bit of a word.                             *)
TwoTo[n \in Nat] == IF n = 0 THEN 1 ELSE 2 * TwoTo[n - 1]
Top == TwoTo[LogWidth - 1]

(* IntLog2Fixed: the fraction is squared out of the mantissa bit by bit; one  *)
(* bit of it is left over for rounding.                                      *)
IsMantissa(m) == Top <= m /\ m < 2 * Top
LeadingZeros(x) == CHOOSE z \in 0 .. LogWidth - 1 : IsMantissa(x * TwoTo[z])
Squared(acc) ==
  LET m == (acc.m * acc.m) \div Top
  IN  IF m >= 2 * Top THEN [m |-> m \div 2, bits |-> (2 * acc.bits) + 1]
      ELSE [m |-> m, bits |-> 2 * acc.bits]
SquaredOut(mantissa, n) ==
  LET squared[b \in 0 .. n] == IF b = 0 THEN [m |-> mantissa, bits |-> 0]
                               ELSE Squared(squared[b - 1])
  IN  squared
Rounded(fraction) == (fraction + 1) \div 2
IntLog2Fixed(x, frac) ==
  LET zeros == LeadingZeros(x)
      fraction == SquaredOut(x * TwoTo[zeros], frac + 1)[frac + 1].bits
  IN  (LogWidth - 1 - zeros) * TwoTo[frac] + Rounded(fraction)

SumsOf(freqs) ==
  LET sums[n \in 0 .. NumSymbols] ==
        IF n = 0 THEN 0
        ELSE sums[n - 1] + (IF n - 1 \in DOMAIN freqs THEN freqs[n - 1] ELSE 0)
  IN  sums
Occurrences(freqs) == SumsOf(freqs)[NumSymbols]

(* ZopfliCalculateEntropy: a symbol that does not occur costs as if it did   *)
(* once.                                                                     *)
Entropy(freqs, frac) ==
  LET sum == Occurrences(freqs)
      log2sum == IntLog2Fixed(IF sum = 0 THEN Cardinality(DOMAIN freqs) ELSE sum, frac)
  IN  [s \in DOMAIN freqs |->
         IF freqs[s] = 0 THEN log2sum ELSE log2sum - IntLog2Fixed(freqs[s], frac)]

CalculateStatistics(parse, shift) ==
  [ ll |-> parse.ll, d |-> parse.d,
    ll_symbols |-> Entropy(parse.ll, shift), d_symbols |-> Entropy(parse.d, shift) ]

AddStatFreqsHalf(stats, last) ==
  [ ll |-> [s \in DOMAIN stats.ll |-> IF s = EndSymbol THEN 1
                                      ELSE stats.ll[s] + last.ll[s] \div 2],
    d |-> [s \in DOMAIN stats.d |-> stats.d[s] + last.d[s] \div 2] ]

(* RandomizeFreqs: all that the random numbers could make of the             *)
(* frequencies, which are gone through in order.                             *)
WithAnother(all, symbols, s) ==
  IF s \in symbols THEN all \cup {[f EXCEPT ![s] = f[t]] : f \in all, t \in symbols}
  ELSE all
RandomizedUpTo(freqs) ==
  LET randomized[n \in 0 .. NumSymbols] ==
        IF n = 0 THEN {freqs} ELSE WithAnother(randomized[n - 1], DOMAIN freqs, n - 1)
  IN  randomized
RandomizeFreqs(freqs) == RandomizedUpTo(freqs)[NumSymbols]
RandomizeStatFreqs(stats) ==
  { [ll |-> [ll EXCEPT ![EndSymbol] = 1], d |-> d] :
      ll \in RandomizeFreqs(stats.ll), d \in RandomizeFreqs(stats.d) }

(* The largest shift that keeps a block within 2^TotalBits, or 0.            *)
GetCostShiftOfBytes(blocksize) ==                                     \* mutant
  Max({0} \cup {s \in 0 .. MaxShift : blocksize <= TwoTo[TotalBits - s]})
GetCostShift(blocksize) ==
  Max({0} \cup {s \in 0 .. MaxShift : PositionBits * blocksize <= TwoTo[TotalBits - s]})

(* BuildStatCostCache and BuildFixedCostCache, of these bytes and lengths.   *)
StatCosts(stats, shift, bytes, lengths) ==
  [ lit  |-> [b \in bytes |-> stats.ll_symbols[b]],
    len  |-> [k \in lengths |-> stats.ll_symbols[LengthSymbol(k)]
                                + LengthExtraBits(k) * TwoTo[shift]],
    dist |-> [s \in DOMAIN stats.d |-> stats.d_symbols[s] + DistExtraBits(s) * TwoTo[shift]] ]
FixedCosts(shift, bytes, lengths, distsymbols) ==
  [ lit  |-> [b \in bytes |-> (IF ShortCode(b) THEN 8 ELSE 9) * TwoTo[shift]],
    len  |-> [k \in lengths |-> ((IF ShortCode(LengthSymbol(k)) THEN 7 ELSE 8)
                                 + LengthExtraBits(k)) * TwoTo[shift]],
    dist |-> [s \in distsymbols |-> (5 + DistExtraBits(s)) * TwoTo[shift]] ]
==============================================================================
