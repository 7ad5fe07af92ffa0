------------------------------- MODULE Inflate -------------------------------
(***************************************************************************)
(* lodepng's inflator (src/zopflipng/lodepng/lodepng.cpp:456-860,          *)
(* 1058-1411), which zopflipng reads its own result back with.  A reader   *)
(* [bp, out, error] goes through a sequence of bits; error 0 is none.      *)
(* A Huffman tree gives each symbol its code, <<length, value>>.           *)
(***************************************************************************)
EXTENDS Integers, Sequences, FiniteSets

CONSTANT Before      \* zero bytes that earlier blocks have put out
ASSUME BeforeAssumption == Before \in Nat

LengthBase ==
  <<3, 4, 5, 6, 7, 8, 9, 10, 11, 13, 15, 17, 19, 23, 27, 31, 35, 43, 51, 59,
    67, 83, 99, 115, 131, 163, 195, 227, 258>>
LengthExtra ==
  <<0, 0, 0, 0, 0, 0, 0, 0, 1, 1, 1, 1, 2, 2, 2, 2, 3, 3, 3, 3, 4, 4, 4, 4, 5, 5, 5, 5, 0>>
DistanceBase ==
  <<1, 2, 3, 4, 5, 7, 9, 13, 17, 25, 33, 49, 65, 97, 129, 193, 257, 385, 513,
    769, 1025, 1537, 2049, 3073, 4097, 6145, 8193, 12289, 16385, 24577>>
DistanceExtra ==
  <<0, 0, 0, 0, 1, 1, 2, 2, 3, 3, 4, 4, 5, 5, 6, 6, 7, 7, 8, 8, 9, 9, 10, 10, 11, 11,
    12, 12, 13, 13>>
ClclOrder == <<16, 17, 18, 0, 8, 7, 9, 6, 10, 5, 11, 4, 12, 3, 13, 2, 14, 1, 15>>

InvalidSymbol == 65535

(* Bits beyond the end are zeros; whoever reads them finds out afterwards.   *)
BitAt(in, p) == IF p < Len(in) THEN in[p + 1] ELSE 0
RECURSIVE ReadValue(_, _, _)
ReadValue(in, p, n) ==
  IF n = 0 THEN 0 ELSE BitAt(in, p) + 2 * ReadValue(in, p + 1, n - 1)

(* HuffmanTree_makeFromLengths: of each length consecutive codes.  Two or    *)
(* more codes must leave no combination of bits undecodable (error 55); a    *)
(* missing code of fewer is decoded as the invalid symbol.                   *)
MakeFromLengths(lengths, maxbitlen) ==
  LET present == {s \in DOMAIN lengths : lengths[s] # 0}
      h == [of |-> [l \in 1 .. maxbitlen |-> {s \in present : lengths[s] = l}]]
      next[l \in 1 .. maxbitlen + 1] ==
        IF l = 1 THEN 0 ELSE 2 * (next[l - 1] + Cardinality(h.of[l - 1]))
      Earlier(s) == Cardinality({t \in h.of[lengths[s]] : t < s})
      CodeOf(s) == <<lengths[s], (next[lengths[s]] + Earlier(s)) % (2 ^ lengths[s])>>
      full == next[maxbitlen + 1] = 2 ^ (maxbitlen + 1)
  IN  [ error |-> IF Cardinality(present) >= 2 /\ ~ full THEN 55 ELSE 0,
        codes |-> [s \in present |-> CodeOf(s)] ]

(* huffmanDecodeSymbol: <<symbol, bits taken>>.                              *)
RECURSIVE DecodeFrom(_, _, _, _)
DecodeFrom(in, p, codes, code) ==
  LET next == << code[1] + 1, 2 * code[2] + BitAt(in, p + code[1]) >>
      found == {s \in DOMAIN codes : codes[s] = next}
  IN  CASE found # {} -> <<CHOOSE s \in found : TRUE, next[1]>>
        [] found = {} /\ next[1] > 15 -> <<InvalidSymbol, 1>>
        [] OTHER -> DecodeFrom(in, p, codes, next)
Decode(in, p, codes) == DecodeFrom(in, p, codes, <<0, 0>>)

(* The lengths of both trees, <<bp, error, lengths read>>.                   *)
RECURSIVE ReadLengths(_, _, _, _, _)
ReadLengths(in, p, codes, total, lens) ==
  LET code == Decode(in, p, codes)
      q == p + code[2]
      c == code[1]
      extra == CASE c = 16 -> 2 [] c = 17 -> 3 [] c = 18 -> 7 [] OTHER -> 0
      least == IF c = 18 THEN 11 ELSE 3
      count == IF c <= 15 THEN 1 ELSE least + ReadValue(in, q, extra)
      value == CASE c <= 15 -> c [] c = 16 -> lens[Len(lens)] [] OTHER -> 0
  IN  CASE Len(lens) = total -> <<p, 0, lens>>
        [] Len(lens) < total /\ c = 16 /\ lens = << >> -> <<q, 54, lens>>
        [] Len(lens) < total /\ c = InvalidSymbol -> <<q, 16, lens>>
        [] OTHER ->
             IF Len(lens) + count > total THEN <<q, c - 3, lens>>
             ELSE IF q + extra > Len(in) THEN <<q, 50, lens>>
             ELSE ReadLengths(in, q + extra, codes, total,
                              lens \o [k \in 1 .. count |-> value])

Trees(ll, d, p, error) == [ll |-> ll, d |-> d, bp |-> p, error |-> error]
NoTrees(p, error) == Trees(<< >>, << >>, p, error)

FixedTrees(p) ==
  Trees(MakeFromLengths([s \in 0 .. 287 |-> CASE s <= 143 -> 8 [] s \in 144 .. 255 -> 9
                                              [] s \in 256 .. 279 -> 7 [] OTHER -> 8], 15).codes,
        MakeFromLengths([s \in 0 .. 31 |-> 5], 15).codes, p, 0)

DynamicTrees(in, p) ==
  LET hlit == ReadValue(in, p, 5) + 257
      hdist == ReadValue(in, p + 5, 5) + 1
      hclen == ReadValue(in, p + 10, 4) + 4
      Clcl(c) == LET i == CHOOSE i \in 1 .. 19 : ClclOrder[i] = c
                 IN  IF i <= hclen THEN ReadValue(in, p + 14 + 3 * (i - 1), 3) ELSE 0
      cl == MakeFromLengths([c \in 0 .. 18 |-> Clcl(c)], 7)
      read == ReadLengths(in, p + 14 + 3 * hclen, cl.codes, hlit + hdist, << >>)
      lens == read[3]
      ll == [s \in 0 .. 287 |-> IF s < hlit THEN lens[s + 1] ELSE 0]
      d == [s \in 0 .. 31 |-> IF s < hdist THEN lens[hlit + s + 1] ELSE 0]
      treeLL == MakeFromLengths(ll, 15)
      treeD == MakeFromLengths(d, 15)
  IN  CASE p + 14 > Len(in) -> NoTrees(p, 49)
        [] p + 14 <= Len(in) /\ p + 14 + 3 * hclen > Len(in) -> NoTrees(p, 50)
        [] OTHER ->
             IF cl.error # 0 THEN NoTrees(p, cl.error)
             ELSE IF read[2] # 0 THEN NoTrees(read[1], read[2])
             ELSE IF ll[256] = 0 THEN NoTrees(read[1], 64)
             ELSE Trees(treeLL.codes, treeD.codes, read[1],
                        IF treeLL.error # 0 THEN treeLL.error ELSE treeD.error)

(* One symbol of a block.  A match longer than its distance repeats what it  *)
(* has copied.                                                               *)
CopyMatch(out, distance, length) ==
  LET h == [out |-> out, size |-> Len(out)]
      OutAt(i) == IF i < 1 THEN 0 ELSE h.out[i]
  IN  h.out \o [k \in 1 .. length |-> OutAt(h.size - distance + 1 + ((k - 1) % distance))]

WithMatch(in, rd, code, p, trees) ==
  LET l == code - 256
      length == LengthBase[l] + ReadValue(in, p, LengthExtra[l])
      codeD == Decode(in, p + LengthExtra[l], trees.d)
      q == p + LengthExtra[l] + codeD[2]
      distance == DistanceBase[codeD[1] + 1] + ReadValue(in, q, DistanceExtra[codeD[1] + 1])
  IN  IF codeD[1] > 29
        THEN [rd EXCEPT !.bp = q, !.error = IF codeD[1] <= 31 THEN 18 ELSE 16]
        ELSE IF distance > Before + Len(rd.out)
        THEN [rd EXCEPT !.bp = q + DistanceExtra[codeD[1] + 1], !.error = 52]
        ELSE [rd EXCEPT !.bp = q + DistanceExtra[codeD[1] + 1],
                        !.out = CopyMatch(rd.out, distance, length)]

EndOfBlock == 256
NextSymbol(in, rd, trees) ==
  LET code == Decode(in, rd.bp, trees.ll)
      p == rd.bp + code[2]
      next == CASE code[1] <= 255 -> [rd EXCEPT !.bp = p, !.out = Append(rd.out, code[1])]
                [] code[1] \in 257 .. 285 -> WithMatch(in, rd, code[1], p, trees)
                [] OTHER -> [rd EXCEPT !.bp = p, !.error = 16]
  IN  [ ends |-> code[1] = EndOfBlock,
        rd   |-> CASE code[1] = EndOfBlock -> [rd EXCEPT !.bp = p]
                   [] code[1] # EndOfBlock /\ next.error = 0 /\ next.bp > Len(in) ->
                        [next EXCEPT !.error = 51]
                   [] OTHER -> next ]

(* A stored block begins at a whole byte and may not be the very last bytes. *)
NoCompression(in, rd) ==
  LET p == ((rd.bp + 7) \div 8) * 8
      len == ReadValue(in, p, 16)
      nlen == ReadValue(in, p + 16, 16)
      bytes == [k \in 1 .. len |-> ReadValue(in, p + 32 + 8 * (k - 1), 8)]
  IN  CASE p + 32 >= Len(in) -> [rd EXCEPT !.error = 52]
        [] p + 32 < Len(in) /\ len + nlen # 65535 -> [rd EXCEPT !.error = 21]
        [] OTHER -> IF p + 32 + 8 * len > Len(in) THEN [rd EXCEPT !.error = 23]
                    ELSE [rd EXCEPT !.bp = p + 32 + 8 * len, !.out = @ \o bytes]

=============================================================================
