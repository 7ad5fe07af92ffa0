---------------------------- MODULE MCPngOptimize ----------------------------
EXTENDS PngOptimize

Ints(n) == [k \in 1 .. n |-> k]
MCCompressedSize(line) == Cardinality(Range(line))

RawBits(mode, values) ==
  Joined([k \in DOMAIN values |-> Joined([c \in DOMAIN values[k] |-> BitsOf(values[k][c], mode.bitdepth)])])
Pic(mode, w, h, values) == [mode |-> mode, w |-> w, h |-> h, values |-> values]
FileOf(p, interlace, strategy) ==
  WriteFile(p.w, p.h, p.mode, interlace,
    PreProcessScanlines(RawBits(p.mode, p.values), p.w, p.h, Bpp(p.mode), interlace, strategy, << >>))
Task(file, t, b, c, keep, strategy) ==
  [ file |-> file, lossy_transparent |-> t, lossy_8bit |-> b, keep_colortype |-> c,
    keepchunks |-> keep, strategy |-> strategy ]

Gray(d, key) == ColorMode("GREY", d, << >>, key)
RGB(d, key) == ColorMode("RGB", d, << >>, key)
RGBA(d) == ColorMode("RGBA", d, << >>, << >>)
GrayAlpha(d) == ColorMode("GREY_ALPHA", d, << >>, << >>)
Indexed(d, p) == ColorMode("PALETTE", d, p, << >>)

(* All small images of colors that matter to the choice of a mode.           *)
Black == <<0, 0, 0, 255>>
Colors8 == {Black, <<0, 0, 0, 0>>, <<85, 85, 85, 255>>, <<85, 85, 85, 7>>,
            <<1, 2, 3, 0>>, <<1, 2, 3, 255>>}
Small == {Pic(RGBA(8), 3, 1, v) : v \in [1 .. 3 -> Colors8]}
         \cup {Pic(RGBA(8), 1, 2, v) : v \in [1 .. 2 -> Colors8 \ {Black}]}

(* A pattern of n values of c channels, below m, from which s picks one.     *)
Pattern(n, c, m, s) == [k \in 1 .. n |-> [i \in 1 .. c |-> (s * k + ((k * k) \div 3) * i) % m]]
Patterned(mode, w, h, s) ==
  Pic(mode, w, h, Pattern(w * h, NumColorChannels(mode), 2^mode.bitdepth, s))

Grays == {Patterned(Gray(d, k), s[1], s[2], 3) :
            d \in {1, 2, 4, 8}, k \in {<< >>, <<1, 1, 1>>}, s \in {<<1, 3>>, <<5, 3>>, <<9, 2>>}}
Deep == {Patterned(m, 2, 2, s) :
           m \in {Gray(16, << >>), Gray(16, <<3, 3, 3>>), RGB(16, << >>), RGB(16, <<3, 3, 3>>),
                  GrayAlpha(16), RGBA(16)}, s \in {3, 257 * 20, 771}}
Rows == {Patterned(m, 4, 3, s) :
           m \in {RGB(8, << >>), RGB(8, <<6, 8, 10>>), GrayAlpha(8), RGBA(8)}, s \in {5, 60}}

(* Palettes with transparent, unused and repeated colors.                    *)
Palette5 == <<<<9, 8, 7, 255>>, <<5, 5, 5, 0>>, <<6, 6, 6, 0>>, Black, <<9, 8, 7, 255>>>>
Palettes == {Pic(Indexed(d, SubSeq(Palette5, 1, n)), 5, 3,
                 [k \in 1 .. 15 |-> <<lo + ((k * k) % (hi - lo + 1))>>]) :
               d \in {2, 4}, n \in {4, 5}, lo \in 0 .. 1, hi \in 2 .. 3}
            \cup {Pic(Indexed(8, Palette5), 2, 2, <<v, <<4>>, <<0>>, v>>) : v \in {<<0>>, <<2>>, <<3>>}}
            \cup {Pic(Indexed(1, Palette5), 9, 1, [k \in 1 .. 9 |-> <<(k \div 4) % 2>>])}

(* At the limit of the palette, and beyond.                                  *)
ManyColors == {Pic(RGBA(8), 6, 6, [k \in 1 .. 36 |-> <<k % n, 7, 7, IF k % n = 3 THEN 0 ELSE a>>]) :
                 n \in {16, 17, 18}, a \in {255, 100}}

(* Chunks around those that are essential.                                   *)
Around(file, first, second, third) == InsertChunks(file, <<first, second, third>>)
Text(n) == Chunk("tEXt", <<n>>)
Time == Chunk("tIME", <<7>>)
Bkgd(v) == Chunk("bKGD", v)

Wanted(lossy, eight, keep) == {<<t, b, c>> : t \in lossy, b \in eight, c \in keep}
JobsOf(files, options, chunks, strategies) ==
  {Task(f, o[1], o[2], o[3], k, s) : f \in files, o \in options, k \in chunks, s \in strategies}
PngFiles(pics, interlaces, filters) == {FileOf(p, l, f) : p \in pics, l \in interlaces, f \in filters}

PaletteFiles == {Around(f, <<Text(1), Time>>, <<Bkgd(<<k>>), Text(2)>>, <<Text(3)>>) :
                   f \in PngFiles(Palettes, {0}, {2}), k \in {0, 3}}
GrayFiles == {Around(f, <<Text(1), Bkgd(<<1>>)>>, <<Time>>, <<Time>>) : f \in PngFiles(Grays, {1}, {4})}
Beyond == Pic(Indexed(2, SubSeq(Palette5, 1, 3)), 4, 1, [k \in 1 .. 4 |-> <<k - 1>>])
InTwo(f) ==
  LET n == Len(f) - 1
  IN  SubSeq(f, 1, n - 1) \o <<Chunk("IDAT", SubSeq(f[n].data, 1, 1)), Text(4),
                               Chunk("IDAT", Tail(f[n].data)), f[n + 1], Text(5)>>
Odd == {InTwo(f) : f \in PngFiles({Beyond, Patterned(RGB(8, << >>), 2, 2, 5)}, {0}, {0})}
Broken == { <<Header(1, 1, Indexed(8, << >>), 0), Chunk("IDAT", <<0, 0>>), Chunk("IEND", << >>)>>,
            <<Header(1, 1, Gray(8, << >>), 0), Chunk("IDAT", <<7, 0>>), Chunk("IEND", << >>)>>,
            <<Header(1, 1, Gray(8, << >>), 1), Chunk("IDAT", <<0>>), Chunk("IEND", << >>)>>,
            <<Header(1, 0, Gray(8, << >>), 0), Chunk("IDAT", << >>), Chunk("IEND", << >>)>>,
            <<Header(1, 1, RGB(4, << >>), 0), Chunk("IDAT", <<0, 0>>)>>,
            <<Header(1, 1, RGBA(8), 0), Chunk("tRNS", <<1>>), Chunk("IDAT", <<0, 0>>)>> }

MCJobs ==
  JobsOf(PngFiles(Small, {0}, {0}), Wanted(BOOLEAN, {FALSE}, {FALSE}), {{}}, {0})
  \cup JobsOf(GrayFiles, Wanted({FALSE}, {FALSE}, BOOLEAN), {{"tIME"}, {"bKGD", "tEXt"}}, {MINSUM, PREDEFINED})
  \cup JobsOf(PngFiles(Deep, 0 .. 1, {3}), Wanted({TRUE}, BOOLEAN, BOOLEAN), {{}}, {ENTROPY})
  \cup JobsOf(PngFiles(Rows, 0 .. 1, {BRUTE_FORCE}), Wanted({FALSE}, {FALSE}, {FALSE}), {{}}, 0 .. 8)
  \cup JobsOf(PaletteFiles, Wanted(BOOLEAN, {FALSE}, BOOLEAN), {{}, {"tEXt"}, {"bKGD"}}, {1})
  \cup JobsOf(PngFiles(ManyColors, {0}, {0}), Wanted(BOOLEAN, {FALSE}, {FALSE}), {{}}, {2})
  \cup JobsOf(Odd, Wanted(BOOLEAN, {FALSE}, BOOLEAN), {{"tEXt"}}, {0})
  \cup JobsOf(Broken, Wanted({FALSE}, {FALSE}, {FALSE}), {{}}, {0})
Spec == InitPng /\ [][PngNext]_pngVars
=============================================================================
