------------------------------- MODULE PngColor -------------------------------
(***************************************************************************)
(* Colors in lodepng.cpp: a color mode says what the bits of a pixel mean; *)
(* images are converted between modes; the statistics of an image choose   *)
(* the mode that takes the fewest bits; and zopflipng_lib.cc may change    *)
(* the colors nobody sees.  An image is a sequence of pixels <<r, g, b, a>>*)
(* of 8 bits (or of 16, which is "wide"), a raw image a sequence of bits.  *)
(***************************************************************************)
EXTENDS Integers, Sequences, FiniteSets, SequencesExt, FiniteSetsExt

CONSTANTS
  MaxPalette,     \* 256
  FewPixels       \* 16: images too small for the overhead of a color key

ASSUME ColorAssumption == MaxPalette \in 1 .. 256 /\ FewPixels \in Nat

(* A mode; the key is the color that stands for transparent ones, if any.    *)
ColorMode(type, depth, palette, key) ==
  [colortype |-> type, bitdepth |-> depth, palette |-> palette, key |-> key]
RawMode(wide, palette) == ColorMode("RGBA", IF wide THEN 16 ELSE 8, palette, << >>)

NumColorChannels(mode) ==
  [GREY |-> 1, RGB |-> 3, PALETTE |-> 1, GREY_ALPHA |-> 2, RGBA |-> 4][mode.colortype]
Bpp(mode) == NumColorChannels(mode) * mode.bitdepth
Powers == <<1, 2, 4, 8, 16, 32, 64, 128, 256, 512, 1024, 2048, 4096, 8192, 16384, 32768, 65536>>
Power(n) == Powers[n + 1]
ColorValid(mode) ==
  mode.bitdepth \in [ GREY |-> {1, 2, 4, 8, 16}, RGB |-> {8, 16}, PALETTE |-> {1, 2, 4, 8},
                      GREY_ALPHA |-> {8, 16}, RGBA |-> {8, 16} ][mode.colortype]

BitsOf(v, n) == [k \in 1 .. n |-> (v \div Power(n - k)) % 2]
ValueOf(bits) ==
  LET value[n \in 0 .. Len(bits)] == IF n = 0 THEN 0 ELSE 2 * value[n - 1] + bits[n]
  IN  value[Len(bits)]

(* Rows of one length, one after the other (what is put in front of << >> is *)
(* computed once by TLC); and the members of a sequence that are marked.     *)
InRows(rows, length) ==
  [k \in 1 .. Len(rows) * length |-> rows[((k - 1) \div length) + 1][((k - 1) % length) + 1]]
  \o << >>
Marked(seq, marks) ==
  LET s[n \in 0 .. Len(seq)] ==
        IF n = 0 THEN << >> ELSE IF marks[n] THEN Append(s[n - 1], seq[n]) ELSE s[n - 1]
  IN  s[Len(seq)]

-----------------------------------------------------------------------------
(* The channels of pixel i (from 0) of a raw image, and its color.           *)
ChannelsAt(raw, i, mode) ==
  LET d == mode.bitdepth
  IN  [c \in 1 .. NumColorChannels(mode) |->
         ValueOf(SubSeq(raw, i * Bpp(mode) + (c - 1) * d + 1, i * Bpp(mode) + c * d))]

To8Bits(v, depth) ==
  CASE depth = 16 -> v \div 256
    [] depth = 8 -> v
    [] OTHER -> (v * 255) \div (Power(depth) - 1)

IsKey(v, mode) == mode.key # << >> /\ v = SubSeq(mode.key, 1, Len(v))

(* An index beyond the palette is black.                                     *)
PaletteColor(palette, index) ==
  IF index < Len(palette) THEN palette[index + 1] ELSE <<0, 0, 0, 255>>

PixelOf(v, mode, wide) ==
  LET c == [k \in DOMAIN v |-> IF wide THEN v[k] ELSE To8Bits(v[k], mode.bitdepth)]
      alpha == IF IsKey(v, mode) THEN 0 ELSE IF wide THEN 65535 ELSE 255
  IN  CASE mode.colortype = "GREY" -> <<c[1], c[1], c[1], alpha>>
        [] mode.colortype = "RGB" -> <<c[1], c[2], c[3], alpha>>
        [] mode.colortype = "PALETTE" -> PaletteColor(mode.palette, v[1])
        [] mode.colortype = "GREY_ALPHA" -> <<c[1], c[1], c[1], c[2]>>
        [] mode.colortype = "RGBA" -> <<c[1], c[2], c[3], c[4]>>

PixelsOf(raw, mode, n, wide) ==
  [k \in 1 .. n |-> PixelOf(ChannelsAt(raw, k - 1, mode), mode, wide)]

(* The other way.  Grays keep their most significant bits.                   *)
From8Bits(v, depth) ==
  CASE depth = 16 -> v * 257
    [] depth = 8 -> v
    [] OTHER -> v \div Power(8 - depth)

(* Where a color is in the part of the palette that the depth can name: the  *)
(* last place, as each overwrites the one before in the tree.                *)
PlacesOf(p, mode) ==
  {k \in DOMAIN mode.palette : k <= Power(mode.bitdepth) /\ mode.palette[k] = p}
NotInPalette(pixels, mode) ==
  mode.colortype = "PALETTE" /\ \E k \in DOMAIN pixels : PlacesOf(pixels[k], mode) = {}

ChannelsFor(p, mode, wide) ==
  LET c == [k \in 1 .. 4 |-> IF wide THEN p[k] ELSE From8Bits(p[k], mode.bitdepth)]
  IN  CASE mode.colortype = "GREY" -> <<c[1]>>
        [] mode.colortype = "RGB" -> <<c[1], c[2], c[3]>>
        [] mode.colortype = "PALETTE" -> <<Max(PlacesOf(p, mode)) - 1>>
        [] mode.colortype = "GREY_ALPHA" -> <<c[1], c[4]>>
        [] mode.colortype = "RGBA" -> c

RawOf(pixels, mode, wide) ==
  InRows([k \in DOMAIN pixels |->
            LET v == ChannelsFor(pixels[k], mode, wide)
            IN  InRows([c \in DOMAIN v |-> BitsOf(v[c], mode.bitdepth)], mode.bitdepth)],
         Bpp(mode))

(* lodepng_convert of n pixels: an error, or the raw image in the new mode.  *)
Converted(error, raw) == [error |-> error, raw |-> raw]
Convert(raw, mode_out, mode_in, n) ==
  LET wide == mode_in.bitdepth = 16 /\ mode_out.bitdepth = 16
      InMode(pixels) == IF NotInPalette(pixels, mode_out) THEN Converted(82, << >>)
                        ELSE Converted(0, RawOf(pixels, mode_out, wide))
  IN  CASE mode_in.colortype = "PALETTE" /\ mode_in.palette = << >> -> Converted(107, << >>)
        [] mode_out = mode_in -> Converted(0, raw)
        [] OTHER -> InMode(PixelsOf(raw, mode_in, n, wide))

-----------------------------------------------------------------------------
(* Statistics: whether there is color, partial alpha or one color that is    *)
(* always transparent, the bits a gray needs, and the first colors met.      *)

NoStats ==
  [ colored |-> FALSE, alpha |-> FALSE, key |-> FALSE, color |-> <<0, 0, 0>>,
    bits |-> 1, palette |-> << >>, numpixels |-> 0 ]

ValueRequiredBits(v) ==
  CASE v \in {0, 255} -> 1
    [] v \notin {0, 255} /\ v % 85 = 0 -> 2
    [] v % 85 # 0 /\ v % 17 = 0 -> 4
    [] OTHER -> 8

AtLeast8Bits(s) == [s EXCEPT !.bits = Max({@, 8})]
NeedsAlpha(s) == AtLeast8Bits([s EXCEPT !.alpha = TRUE, !.key = FALSE])

Rgb(p) == SubSeq(p, 1, 3)
CountBits(s, p) == IF s.bits < 8 THEN [s EXCEPT !.bits = Max({@, ValueRequiredBits(p[1])})] ELSE s
CountColored(s, p) ==
  IF p[1] # p[2] \/ p[1] # p[3] THEN AtLeast8Bits([s EXCEPT !.colored = TRUE]) ELSE s
CountAlpha(s, p, opaque) ==
  LET matchkey == Rgb(p) = s.color
  IN  CASE s.alpha -> s
        [] ~ s.alpha /\ \/ p[4] # opaque /\ (p[4] # 0 \/ (s.key /\ ~ matchkey))
                        \/ p[4] = opaque /\ s.key /\ matchkey
             -> NeedsAlpha(s)
        [] ~ s.alpha /\ p[4] = 0 /\ ~ s.key -> [s EXCEPT !.key = TRUE, !.color = Rgb(p)]
        [] OTHER -> s
CountPalette(s, p) ==
  IF Len(s.palette) <= MaxPalette /\ ~ Contains(s.palette, p)
    THEN [s EXCEPT !.palette = Append(@, p)] ELSE s

(* An opaque pixel of the key's color may come before the key is known.      *)
RecheckKeyNot(s, pixels) == s                                         \* mutant
RecheckKey(s, pixels) ==
  IF s.key /\ (\E k \in DOMAIN pixels : pixels[k][4] # 0 /\ Rgb(pixels[k]) = s.color)
    THEN NeedsAlpha(s) ELSE s

(* Wide images count as such if some channel has two different bytes.        *)
Truly16(pixels) == \E k \in DOMAIN pixels : \E c \in 1 .. 4 : pixels[k][c] % 257 # 0
HighBytes(pixels) == [k \in DOMAIN pixels |-> [c \in 1 .. 4 |-> pixels[k][c] \div 256]]

Count8(s, p) == CountPalette(CountAlpha(CountColored(CountBits(s, p), p), p, 255), p)
Stats8(pixels) ==
  LET s[n \in 0 .. Len(pixels)] == IF n = 0 THEN NoStats ELSE Count8(s[n - 1], pixels[n])
  IN  RecheckKey(s[Len(pixels)], pixels)
Count16(s, p) == CountAlpha(CountColored(s, p), p, 65535)
Stats16(pixels) ==
  LET s[n \in 0 .. Len(pixels)] ==
        IF n = 0 THEN [NoStats EXCEPT !.bits = 16] ELSE Count16(s[n - 1], pixels[n])
  IN  RecheckKey(s[Len(pixels)], pixels)

(* The key is always given in 16 bits.                                       *)
ComputeColorStats(pixels, wide) ==
  LET Counted(s) ==
        [s EXCEPT !.numpixels = Len(pixels),
                  !.color = IF s.bits = 16 THEN @ ELSE [c \in 1 .. 3 |-> 257 * s.color[c]]]
  IN  Counted(IF wide /\ Truly16(pixels) THEN Stats16(pixels)
              ELSE Stats8(IF wide THEN HighBytes(pixels) ELSE pixels))

-----------------------------------------------------------------------------
(* auto_choose_color.                                                        *)
PaletteBits(n) ==
  CASE n <= 2 -> 1 [] n \in 3 .. 4 -> 2 [] n \in 5 .. 16 -> 4 [] OTHER -> 8

(* A key is no gain for few pixels.                                          *)
ForFewPixels(s) ==
  IF s.key /\ s.numpixels <= FewPixels THEN NeedsAlpha(s) ELSE s

PaletteChosen(s) ==
  LET n == Len(s.palette)
  IN  /\ n # 0 /\ n <= MaxPalette /\ s.bits <= 8
      /\ s.numpixels >= n * 2
      /\ s.colored \/ s.alpha \/ s.bits > PaletteBits(n)

AutoChooseColor(mode_in, stats) ==
  LET few == ForFewPixels(stats)
      s == IF few.colored THEN AtLeast8Bits(few) ELSE few
      paletted == ColorMode("PALETTE", PaletteBits(Len(s.palette)), s.palette, << >>)
      gray == ~ s.colored
      type == IF s.alpha THEN (IF gray THEN "GREY_ALPHA" ELSE "RGBA")
                         ELSE (IF gray THEN "GREY" ELSE "RGB")
  IN  IF PaletteChosen(s)
        THEN IF /\ mode_in.colortype = "PALETTE" /\ mode_in.bitdepth = paletted.bitdepth
                /\ Len(mode_in.palette) >= Len(s.palette)
               THEN mode_in ELSE paletted
        ELSE ColorMode(type, s.bits, << >>,
                       IF s.key THEN [c \in 1 .. 3 |-> s.color[c] % Power(s.bits)] ELSE << >>)

-----------------------------------------------------------------------------
(* LossyOptimizeTransparent: one color behind all transparent pixels if that *)
(* may make a key or a palette, else the one of the last visible pixel.      *)
CountColors(pixels, transparent_counts_as_one) ==
  {IF transparent_counts_as_one /\ p[4] = 0 THEN <<0, 0, 0, 0>> ELSE p : p \in Range(pixels)}

HiddenColor(pixels, i, same) ==
  LET first == {k \in DOMAIN pixels : pixels[k][4] = 0}
      shown == {k \in 1 .. i : pixels[k][4] # 0}
  IN  CASE same -> Rgb(pixels[Min(first)])
        [] ~ same /\ shown # {} -> Rgb(pixels[Max(shown)])
        [] OTHER -> <<0, 0, 0>>

PaletteFits(pixels) == Cardinality(CountColors(pixels, TRUE)) <= MaxPalette
WithoutHidden(pixels) ==
  LET key == \A k \in DOMAIN pixels : pixels[k][4] \in {0, 255}
  IN  [k \in DOMAIN pixels |->
         IF pixels[k][4] = 0
           THEN Append(HiddenColor(pixels, k, key \/ PaletteFits(pixels)), 0)
           ELSE pixels[k]]

(* The palette of the input is cut to the colors that are left, as those     *)
(* have become fewer.                                                        *)
PaletteLeft(palette, before, after) ==
  LET colors == CountColors(after, FALSE)
  IN  IF PaletteFits(before) /\ Cardinality(colors) < Len(palette)
        THEN Marked(palette, [k \in DOMAIN palette |-> palette[k] \in colors]) ELSE palette
==============================================================================
