----------------------------- MODULE Containers ------------------------------
(***************************************************************************)
(* What is put around a deflate stream: zlib_container.c, gzip_container.c,*)
(* and the zlib container that lodepng writes and reads.  The stream is a  *)
(* token that stands for the bytes it inflates to (DeflateStream and       *)
(* DeflateBlock are about it), a container is [header, stream, trailer].   *)
(* Checksums have HalfWidth bits in each half, sums twice as many.         *)
(***************************************************************************)
EXTENDS Integers, Sequences, SequencesExt

CONSTANTS
  HalfWidth,         \* 16
  AdlerBase,         \* 65521, the largest prime below 2^HalfWidth
  AdlerAmount,       \* bytes zopfli sums before it reduces (5550)
  LodepngAmount,     \* bytes lodepng does (5552, the most there may be)
  ByteMax,           \* 255
  Crc(_)             \* the crc32 of a sequence of bytes, two halves

(* Sums of fewer than so many: unsigned arithmetic wraps.                    *)
SumLimit == 2^(2 * HalfWidth)

(* Reduced sums, and so many of the largest bytes more, do not wrap: twice   *)
(* the second sum, which is the larger one.                                  *)
SumsFit(amount) ==
  2 * (AdlerBase - 1) * (amount + 1) + ByteMax * amount * (amount + 1) < 2 * SumLimit

ASSUME ContainersAssumption ==
  /\ HalfWidth \in Nat \ {0} /\ ByteMax \in Nat
  /\ AdlerBase \in Nat \ {0, 1} /\ AdlerBase < 2^HalfWidth
  /\ SumLimit \in Nat
  /\ \A amount \in {AdlerAmount, LodepngAmount} : amount \in Nat \ {0} /\ SumsFit(amount)

(* The sums with one byte more, in unsigned arithmetic.                      *)
Summed(sums, byte) ==
  LET s1 == (sums.s1 + byte) % SumLimit
  IN  [s1 |-> s1, s2 |-> (sums.s2 + s1) % SumLimit]
Reduced(sums) == [s1 |-> sums.s1 % AdlerBase, s2 |-> sums.s2 % AdlerBase]

(* The sums after the first n bytes: at the end of every stretch of bytes    *)
(* they are reduced.                                                         *)
AdlerSums(data, amount) ==
  LET sums[n \in 0 .. Len(data)] ==
        IF n = 0 THEN [s1 |-> 1, s2 |-> 0]
        ELSE LET s == Summed(sums[n - 1], data[n])
             IN  IF n % amount = 0 \/ n = Len(data) THEN Reduced(s) ELSE s
  IN  sums
UpdateAdler32(data, amount) ==
  LET last == AdlerSums(data, amount)[Len(data)]
  IN  <<last.s2, last.s1>>

Adler32Late(data) == UpdateAdler32(data, 2 * AdlerAmount)             \* mutant
Adler32(data) == UpdateAdler32(data, AdlerAmount)
LodepngAdler32(data) == UpdateAdler32(data, LodepngAmount)

(* Halves of a number, the most significant first or last; of numbers that   *)
(* do not fit only the low ones.                                             *)
BigEndian(halves) == halves
LittleEndian(halves) == Reverse(halves)
Halves(n) == <<(n \div 2^HalfWidth) % 2^HalfWidth, n % 2^HalfWidth>>

(* CMF and FLG, of which the check bits make a multiple of 31.               *)
ZlibHeader(flevel) ==
  LET cmfflg == 256 * 120 + flevel * 64
      checked == cmfflg + 31 - (cmfflg % 31)
  IN  <<checked \div 256, checked % 256>>

Container(header, data, trailer) == [header |-> header, stream |-> data, trailer |-> trailer]

GzipHeader == <<31, 139, 8, 0, 0, 0, 0, 0, 2, 3>>
ZopfliGzipCompress(data) ==
  Container(GzipHeader, data, LittleEndian(Crc(data)) \o LittleEndian(Halves(Len(data))))
ZopfliZlibCompress(data) == Container(ZlibHeader(3), data, BigEndian(Adler32(data)))
ZopfliDeflateOnly(data) == Container(<< >>, data, << >>)
LodepngZlibCompress(data) == Container(ZlibHeader(0), data, BigEndian(LodepngAdler32(data)))

ZopfliCompress(format, data) ==
  CASE format = "gzip" -> ZopfliGzipCompress(data)
    [] format = "zlib" -> ZopfliZlibCompress(data)
    [] format = "deflate" -> ZopfliDeflateOnly(data)

-----------------------------------------------------------------------------
(* lodepng_zlib_decompressv: its errors, or 0.                               *)
LodepngZlibError(c) ==
  LET in0 == c.header[1]
      in1 == c.header[2]
  IN  CASE Len(c.header) < 2 -> 53
        [] (in0 * 256 + in1) % 31 # 0 -> 24
        [] in0 % 16 # 8 \/ in0 \div 16 > 7 -> 25
        [] (in1 \div 32) % 2 # 0 -> 26
        [] BigEndian(LodepngAdler32(c.stream)) # c.trailer -> 58
        [] OTHER -> 0

(* What RFC 1952 has a reader check.                                         *)
GzipReads(c) ==
  /\ Len(c.header) = 10 /\ SubSeq(c.header, 1, 4) = <<31, 139, 8, 0>>
  /\ c.trailer = LittleEndian(Crc(c.stream)) \o LittleEndian(Halves(Len(c.stream)))

(* A container of this format that reads back as data.                       *)
ReadsAs(c, format, data) ==
  /\ c.stream = data
  /\ format = "gzip" => GzipReads(c)
  /\ format = "zlib" => LodepngZlibError(c) = 0
==============================================================================
