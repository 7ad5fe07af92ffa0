----------------------------- MODULE PngScanlines -----------------------------
(***************************************************************************)
(* From a raw image to the bytes that are compressed, and back             *)
(* (lodepng.cpp:3977-4346 and 5379-5780): the seven reduced images of      *)
(* Adam7, lines padded to whole bytes, and each line filtered, that is,    *)
(* replaced by its differences to a prediction.                            *)
(***************************************************************************)
EXTENDS PngColor

CONSTANTS
  CompressedSize(_)    \* what deflate with fixed trees makes of a line

LineBytes(w, bpp) == (w * bpp + 7) \div 8

(* Each of h lines of bits is given zeros to fill a byte, or loses them.     *)
AddPaddingBits(bits, olinebits, ilinebits, h) ==
  InRows([y \in 1 .. h |->
            SubSeq(bits, (y - 1) * ilinebits + 1, y * ilinebits)
            \o [x \in 1 .. olinebits - ilinebits |-> 0]], olinebits)
RemovePaddingBits(bits, olinebits, ilinebits, h) ==
  InRows([y \in 1 .. h |->
            SubSeq(bits, (y - 1) * ilinebits + 1, (y - 1) * ilinebits + olinebits)], olinebits)

Joined(seqs) == FoldLeft(LAMBDA s, t : s \o t, << >>, seqs)
ToBytes(bits) == [k \in 1 .. Len(bits) \div 8 |-> ValueOf(SubSeq(bits, 8 * k - 7, 8 * k))]
ToBits(bytes) == InRows([k \in DOMAIN bytes |-> BitsOf(bytes[k], 8)], 8)

-----------------------------------------------------------------------------
(* Filters.  What lies left of a line or above the first is 0.               *)
At(line, k) == IF k \in DOMAIN line THEN line[k] ELSE 0
Distance(a, b) == IF a < b THEN b - a ELSE a - b

PaethPredictor(a, b, c) ==
  LET pa == Distance(b, c)
      pb == Distance(a, c)
      pc == Distance(a + b, 2 * c)
      nearer == IF pb < pa THEN b ELSE a
  IN  IF pc < Min({pa, pb}) THEN c ELSE nearer

Prediction(type, a, b, c) ==
  CASE type = 0 -> 0
    [] type = 1 -> a
    [] type = 2 -> b
    [] type = 3 -> (a + b) \div 2
    [] type = 4 -> PaethPredictor(a, b, c)

FilterScanline(line, prev, bytewidth, type) ==
  [k \in DOMAIN line |->
     (line[k] - Prediction(type, At(line, k - bytewidth), At(prev, k), At(prev, k - bytewidth))) % 256]

(* The prediction is made from the bytes that are restored already.          *)
Restored(recon, v, prev, bytewidth, type) ==
  LET k == Len(recon) + 1
  IN  (v + Prediction(type, At(recon, k - bytewidth), At(prev, k), At(prev, k - bytewidth))) % 256
UnfilterScanline(line, prev, bytewidth, type) ==
  LET recon[n \in 0 .. Len(line)] ==
        IF n = 0 THEN << >>
        ELSE LET before == recon[n - 1]
             IN  Append(before, Restored(before, line[n], prev, bytewidth, type))
  IN  recon[Len(line)]

(* The filter strategies, after those of always one type.                    *)
MINSUM == 5
ENTROPY == 6
BRUTE_FORCE == 7
PREDEFINED == 8

(* The scores by which a filter is chosen.                                   *)
SumOfDifferences(type, line) ==
  FoldLeft(LAMBDA sum, v : sum + (IF type = 0 \/ v < 128 THEN v ELSE 255 - v), 0, line)
ILog2(i) == Max({l \in 0 .. 16 : 2^l <= i})    \* i is at most a line's length
ILog2I(i) == IF i = 0 THEN 0 ELSE i * ILog2(i) + 2 * (i - 2^ILog2(i))
Entropy(type, line) ==
  FoldSet(LAMBDA v, sum : sum + ILog2I(Cardinality({k \in DOMAIN line : line[k] = v})
                                       + (IF v = type THEN 1 ELSE 0)),
          0, Range(line) \cup {type})
Score(strategy, type, line) ==
  CASE strategy = MINSUM -> SumOfDifferences(type, line)
    [] strategy = ENTROPY -> 0 - Entropy(type, line)
    [] strategy = BRUTE_FORCE -> CompressedSize(line)

(* The first type with the best score, or the one that is prescribed.        *)
TheLess(score, t, u) == IF score[u + 1] < score[t + 1] THEN u ELSE t
BestType(score) ==
  LET best[t \in 0 .. 4] == IF t = 0 THEN 0 ELSE TheLess(score, best[t - 1], t)
  IN  best[4]
FilterType(strategy, predefined, y, line, prev, bytewidth) ==
  LET score(t) == Score(strategy, t, FilterScanline(line, prev, bytewidth, t))
  IN  CASE strategy \in 0 .. 4 -> strategy
        [] strategy = PREDEFINED -> predefined[y]
        [] OTHER -> BestType(<<score(0), score(1), score(2), score(3), score(4)>>)

Line(bytes, y, length) == SubSeq(bytes, (y - 1) * length + 1, y * length)
ByteWidth(bpp) == (bpp + 7) \div 8

Filter(bytes, w, h, bpp, strategy, predefined) ==
  LET lb == LineBytes(w, bpp)
  IN  InRows([y \in 1 .. h |->
                LET line == Line(bytes, y, lb)
                    prev == IF y = 1 THEN << >> ELSE Line(bytes, y - 1, lb)
                    Filtered(type) == <<type>> \o FilterScanline(line, prev, ByteWidth(bpp), type)
                IN  Filtered(FilterType(strategy, predefined, y, line, prev, ByteWidth(bpp)))],
             1 + lb)

UnfilteredLine(out, bytes, y, lb, bytewidth) ==
  LET line == Line(bytes, y, 1 + lb)
      prev == IF y = 1 THEN << >> ELSE Line(out, y - 1, lb)
  IN  UnfilterScanline(Tail(line), prev, bytewidth, line[1])
Unfilter(bytes, w, h, bpp) ==
  LET lb == LineBytes(w, bpp)
      out[y \in 0 .. h] ==
        IF y = 0 THEN << >>
        ELSE LET above == out[y - 1]
             IN  above \o UnfilteredLine(above, bytes, y, lb, ByteWidth(bpp))
  IN  out[h]
BadFilterType(bytes, w, h, bpp) ==
  \E y \in 1 .. h : bytes[(y - 1) * (1 + LineBytes(w, bpp)) + 1] > 4

-----------------------------------------------------------------------------
(* Adam7: where a reduced image begins and how far apart its pixels are.     *)
Adam7IX == <<0, 4, 0, 2, 0, 1, 0>>
Adam7IY == <<0, 0, 4, 0, 2, 0, 1>>
Adam7DX == <<8, 8, 4, 4, 2, 2, 1>>
Adam7DY == <<8, 8, 8, 4, 4, 2, 2>>

PassColumns(w, i) == (w + Adam7DX[i] - Adam7IX[i] - 1) \div Adam7DX[i]
PassRows(h, i) == (h + Adam7DY[i] - Adam7IY[i] - 1) \div Adam7DY[i]
PassW(w, h, i) == IF PassRows(h, i) = 0 THEN 0 ELSE PassColumns(w, i)
PassH(w, h, i) == IF PassColumns(w, i) = 0 THEN 0 ELSE PassRows(h, i)

(* Bytes of the reduced images before the i-th, with those for the filters.  *)
FilterPassSize(w, h, bpp, i) ==
  IF PassW(w, h, i) # 0 THEN PassH(w, h, i) * (1 + LineBytes(PassW(w, h, i), bpp)) ELSE 0
FilterPassStart(w, h, bpp, i) ==
  LET start[k \in 1 .. 8] ==
        IF k = 1 THEN 0 ELSE start[k - 1] + FilterPassSize(w, h, bpp, k - 1)
  IN  start[i]

(* Which pixel of the image (from 0) is pixel (x, y) of reduced image i.     *)
PassPixel(w, i, x, y) == (Adam7IY[i] + y * Adam7DY[i]) * w + Adam7IX[i] + x * Adam7DX[i]

PixelBits(raw, n, bpp) == SubSeq(raw, n * bpp + 1, (n + 1) * bpp)
ReducedImage(raw, w, h, bpp, i) ==
  LET pw == PassW(w, h, i)
  IN  InRows([k \in 1 .. pw * PassH(w, h, i) |->
                PixelBits(raw, PassPixel(w, i, (k - 1) % pw, (k - 1) \div pw), bpp)], bpp)

(* Bits that no reduced image has would stay 0.                              *)
HasPixel(w, h, i, k, n) ==
  /\ k < PassW(w, h, i) * PassH(w, h, i)
  /\ n = PassPixel(w, i, k % PassW(w, h, i), k \div PassW(w, h, i))
Deinterlace(reduced, w, h, bpp) ==
  LET places(n) == {q \in (1 .. 7) \X (0 .. w * h - 1) : HasPixel(w, h, q[1], q[2], n)}
      Bits(q) == PixelBits(reduced[q[1]], q[2], bpp)
  IN  InRows([n \in 1 .. w * h |->
                IF places(n - 1) = {} THEN [b \in 1 .. bpp |-> 0]
                ELSE Bits(CHOOSE q \in places(n - 1) : TRUE)], bpp)

-----------------------------------------------------------------------------
PadAndFilter(raw, w, h, bpp, strategy, predefined) ==
  Filter(ToBytes(AddPaddingBits(raw, 8 * LineBytes(w, bpp), w * bpp, h)),
         w, h, bpp, strategy, predefined)
PreProcessScanlines(raw, w, h, bpp, interlace, strategy, predefined) ==
  IF interlace = 0
    THEN PadAndFilter(raw, w, h, bpp, strategy, predefined)
    ELSE Joined([i \in 1 .. 7 |->
                   PadAndFilter(ReducedImage(raw, w, h, bpp, i), PassW(w, h, i), PassH(w, h, i),
                                bpp, strategy, predefined)])

(* How many bytes there must be, by the sizes of the reduced images.         *)
IdatSize(w, h, bpp) == h * (1 + LineBytes(w, bpp))
ExpectedSize(w, h, bpp, interlace) ==
  IF interlace = 0 THEN IdatSize(w, h, bpp)
  ELSE IdatSize((w + 7) \div 8, (h + 7) \div 8, bpp)
       + (IF w > 4 THEN IdatSize((w + 3) \div 8, (h + 7) \div 8, bpp) ELSE 0)
       + IdatSize((w + 3) \div 4, (h + 3) \div 8, bpp)
       + (IF w > 2 THEN IdatSize((w + 1) \div 4, (h + 3) \div 4, bpp) ELSE 0)
       + IdatSize((w + 1) \div 2, (h + 1) \div 4, bpp)
       + (IF w > 1 THEN IdatSize(w \div 2, (h + 1) \div 2, bpp) ELSE 0)
       + IdatSize(w, h \div 2, bpp)

(* An error, or the raw image.                                               *)
UnfilterAndUnpad(bytes, w, h, bpp) ==
  RemovePaddingBits(ToBits(Unfilter(bytes, w, h, bpp)), w * bpp, 8 * LineBytes(w, bpp), h)
PostProcessScanlines(bytes, w, h, bpp, interlace) ==
  LET pass(i) == SubSeq(bytes, FilterPassStart(w, h, bpp, i) + 1, FilterPassStart(w, h, bpp, i + 1))
      bad == IF interlace = 0 THEN BadFilterType(bytes, w, h, bpp)
             ELSE \E i \in 1 .. 7 : BadFilterType(pass(i), PassW(w, h, i), PassH(w, h, i), bpp)
      reduced == [i \in 1 .. 7 |->
                    UnfilterAndUnpad(pass(i), PassW(w, h, i), PassH(w, h, i), bpp)] \o << >>
  IN  CASE bad -> Converted(36, << >>)
        [] ~ bad /\ interlace = 0 -> Converted(0, UnfilterAndUnpad(bytes, w, h, bpp))
        [] OTHER -> Converted(0, Deinterlace(reduced, w, h, bpp))
==============================================================================
