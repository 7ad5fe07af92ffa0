-------------------------------- MODULE PngFile --------------------------------
(***************************************************************************)
(* A PNG file as the sequence of its chunks: what lodepng writes for an    *)
(* image and reads back (lodepng.cpp:4043-4949, 5099-5186, 5814-6073), and *)
(* what lodepng_util.cpp does with chunks it does not understand.  The     *)
(* data of the image are not compressed here: Containers and DeflateBlock  *)
(* are about that.  A chunk is [name, data].                               *)
(***************************************************************************)
EXTENDS PngScanlines

Chunk(name, data) == [name |-> name, data |-> data]
Header(w, h, mode, interlace) == Chunk("IHDR", <<w, h, mode.colortype, mode.bitdepth, interlace>>)
Essential == {"IHDR", "PLTE", "tRNS", "IDAT", "IEND"}

(* Only as much of the palette's alpha as is not opaque at its end.          *)
AlphaAmount(palette) ==
  LET seen == {k \in DOMAIN palette : palette[k][4] # 255}
  IN  IF seen = {} THEN 0 ELSE Max(seen)
AddPLTE(mode) ==
  IF mode.colortype = "PALETTE"
    THEN <<Chunk("PLTE", [k \in DOMAIN mode.palette |-> Rgb(mode.palette[k])])>> ELSE << >>
AddTRNS(mode) ==
  LET alpha == [k \in 1 .. AlphaAmount(mode.palette) |-> mode.palette[k][4]]
  IN  CASE mode.colortype = "PALETTE" /\ alpha # << >> -> <<Chunk("tRNS", alpha)>>
        [] mode.colortype = "GREY" /\ mode.key # << >> -> <<Chunk("tRNS", SubSeq(mode.key, 1, 1))>>
        [] mode.colortype = "RGB" /\ mode.key # << >> -> <<Chunk("tRNS", mode.key)>>
        [] OTHER -> << >>

WriteFile(w, h, mode, interlace, data) ==
  <<Header(w, h, mode, interlace)>> \o AddPLTE(mode) \o AddTRNS(mode)
  \o <<Chunk("IDAT", data), Chunk("IEND", << >>)>>

(* lodepng_encode, of an image in the raw mode.                              *)
Encoded(error, file) == [error |-> error, file |-> file]
Encode(raw, w, h, mode, raw_mode, strategy, predefined) ==
  LET Written(converted) ==
        IF converted.error # 0 THEN Encoded(converted.error, << >>)
        ELSE Encoded(0, WriteFile(w, h, mode, 0,
               PreProcessScanlines(converted.raw, w, h, Bpp(mode), 0, strategy, predefined)))
  IN  CASE mode.colortype = "PALETTE" /\ Len(mode.palette) \notin 1 .. MaxPalette -> Encoded(68, << >>)
        [] ~ ColorValid(mode) -> Encoded(37, << >>)
        [] OTHER -> Written(Convert(raw, mode, raw_mode, w * h))

-----------------------------------------------------------------------------
(* Reading: one chunk after the other adds to what is known of the image.    *)

NothingRead ==
  [ error |-> 0, w |-> 0, h |-> 0, mode |-> ColorMode("RGBA", 8, << >>, << >>), interlace |-> 0,
    data |-> << >>, ended |-> FALSE, raw |-> << >> ]

ReadIHDR(s, d) ==
  LET mode == ColorMode(d[3], d[4], << >>, << >>)
  IN  [s EXCEPT !.w = d[1], !.h = d[2], !.mode = mode, !.interlace = d[5],
                !.error = IF d[1] = 0 \/ d[2] = 0 THEN 93 ELSE IF ColorValid(mode) THEN 0 ELSE 37]
ReadPLTE(s, d) ==
  [s EXCEPT !.error = IF Len(d) \in 1 .. MaxPalette THEN 0 ELSE 38,
            !.mode.palette = [k \in DOMAIN d |-> Append(d[k], 255)]]
TRNSError(type) ==
  CASE type = "PALETTE" -> 39 [] type = "GREY" -> 30 [] type = "RGB" -> 41 [] OTHER -> 42
ReadTRNS(s, d) ==
  LET p == s.mode.palette
      type == s.mode.colortype
  IN  CASE type = "PALETTE" /\ Len(d) <= Len(p) ->
             [s EXCEPT !.mode.palette =
                [k \in DOMAIN p |-> IF k \in DOMAIN d THEN Append(Rgb(p[k]), d[k]) ELSE p[k]]]
        [] type = "GREY" /\ Len(d) = 1 -> [s EXCEPT !.mode.key = <<d[1], d[1], d[1]>>]
        [] type = "RGB" /\ Len(d) = 3 -> [s EXCEPT !.mode.key = d]
        [] OTHER -> [s EXCEPT !.error = TRNSError(type)]
ReadBKGD(s, d) ==
  IF s.mode.colortype = "PALETTE" /\ d[1] >= Len(s.mode.palette)
    THEN [s EXCEPT !.error = 103] ELSE s

ReadChunk(s, c) ==
  CASE s.error # 0 \/ s.ended -> s
    [] OTHER ->
       CASE c.name = "IHDR" -> [s EXCEPT !.error = 69]
         [] c.name = "PLTE" -> ReadPLTE(s, c.data)
         [] c.name = "tRNS" -> ReadTRNS(s, c.data)
         [] c.name = "bKGD" -> ReadBKGD(s, c.data)
         [] c.name = "IDAT" -> [s EXCEPT !.data = @ \o c.data]
         [] c.name = "IEND" -> [s EXCEPT !.ended = TRUE]
         [] OTHER -> s
ReadChunks(first, chunks) ==
  LET s[n \in 0 .. Len(chunks)] == IF n = 0 THEN first ELSE ReadChunk(s[n - 1], chunks[n])
  IN  s[Len(chunks)]
ReadFile(file) ==
  IF file = << >> \/ file[1].name # "IHDR" THEN [NothingRead EXCEPT !.error = 29]
  ELSE ReadChunks(ReadIHDR(NothingRead, file[1].data), Tail(file))

(* decodeGeneric: the raw image in the file's own mode.                      *)
ReadError(s) ==
  CASE s.error # 0 -> s.error
    [] s.error = 0 /\ ~ s.ended -> 30
    [] s.error = 0 /\ s.ended /\ s.mode.colortype = "PALETTE" /\ s.mode.palette = << >> -> 106
    [] OTHER ->
         IF Len(s.data) # ExpectedSize(s.w, s.h, Bpp(s.mode), s.interlace) THEN 91 ELSE 0
DecodeGeneric(file) ==
  LET WithImage(s, image) == [s EXCEPT !.error = image.error, !.raw = image.raw]
      Finished(s, e) ==
        IF e # 0 THEN [s EXCEPT !.error = e]
        ELSE WithImage(s, PostProcessScanlines(s.data, s.w, s.h, Bpp(s.mode), s.interlace))
      Read(s) == Finished(s, ReadError(s))
  IN  Read(ReadFile(file))

(* lodepng_decode: its pixels, of 8 or of 16 bits.                           *)
Picture(error, w, h, mode, pixels) ==
  [error |-> error, w |-> w, h |-> h, mode |-> mode, pixels |-> pixels]
DecodeFile(file, wide) ==
  LET Shown(s, to) == Picture(to.error, s.w, s.h, s.mode,
                              PixelsOf(to.raw, RawMode(wide, << >>), s.w * s.h, wide))
      Decoded(s) == IF s.error # 0 THEN Picture(s.error, 0, 0, s.mode, << >>)
                    ELSE Shown(s, Convert(s.raw, RawMode(wide, << >>), s.mode, s.w * s.h))
  IN  Decoded(DecodeGeneric(file))

-----------------------------------------------------------------------------
(* Chunks that are not understood: in three places, before PLTE, before IDAT *)
(* and after it.                                                             *)
LocationAfterIDAT(location, name) ==                                  \* mutant
  CASE name = "IHDR" -> 1 [] name = "IDAT" -> 3 [] OTHER -> location
LocationAfter(location, name) ==
  CASE name = "IHDR" -> 1 [] name = "PLTE" -> 2 [] name = "IDAT" -> 3 [] OTHER -> location

NoChunks == [chunks |-> <<<< >>, << >>, << >>>>, location |-> 1, ended |-> FALSE]
AddChunk(s, c) ==
  CASE s.ended -> s
    [] ~ s.ended /\ c.name = "IEND" -> [s EXCEPT !.ended = TRUE]
    [] ~ s.ended /\ c.name \in {"IHDR", "PLTE", "IDAT"} ->
         [s EXCEPT !.location = LocationAfter(@, c.name)]
    [] OTHER -> [s EXCEPT !.chunks[s.location] = Append(@, c)]
GetChunks(file) ==
  LET s[n \in 0 .. Len(file)] == IF n = 0 THEN NoChunks ELSE AddChunk(s[n - 1], file[n])
  IN  s[Len(file)].chunks

(* Each kept chunk is inserted at the place that it had.                     *)
FirstOf(file, names) == Min({k \in DOMAIN file : file[k].name \in names})
InsertChunks(file, chunks) ==
  LET l0 == FirstOf(file, {"PLTE", "IDAT"})
      l1 == FirstOf(file, {"IDAT"})
      l2 == FirstOf(file, {"IEND"})
  IN  SubSeq(file, 1, l0 - 1) \o chunks[1] \o SubSeq(file, l0, l1 - 1) \o chunks[2]
      \o SubSeq(file, l1, l2 - 1) \o chunks[3] \o SubSeq(file, l2, Len(file))

ChunksToKeep(file, names) ==
  {c.name : c \in UNION {Range(GetChunks(file)[l]) : l \in 1 .. 3}} \cap names
KeepChunks(original, names, file) ==
  LET named(chunks) == Marked(chunks, [k \in DOMAIN chunks |-> chunks[k].name \in names])
      kept == [l \in 1 .. 3 |-> named(GetChunks(original)[l])]
  IN  InsertChunks(file, kept)

-----------------------------------------------------------------------------
(* The filter of each line of a file; of an interlaced one the filter of the *)
(* line of a reduced image that is nearest.                                  *)
FiltersOfPass(data, w, h, bpp, i) ==
  [y \in 1 .. PassH(w, h, i) |->
     data[FilterPassStart(w, h, bpp, i) + (y - 1) * (1 + LineBytes(PassW(w, h, i), bpp)) + 1]]
Column0 == <<0, 6, 4, 6, 2, 6, 4, 6>>
Column1 == <<5, 6, 5, 6, 5, 6, 5, 6>>
Shift0 == <<3, 1, 2, 1, 3, 1, 2, 1>>
FiltersRead(s) ==
  LET bpp == Bpp(s.mode)
      wide == s.w > 1
      row(y) == ((y - 1) % 8) + 1
      pass(y) == (IF wide THEN Column1[row(y)] ELSE Column0[row(y)]) + 1
      shift(y) == IF wide THEN 1 ELSE Shift0[row(y)]
  IN  IF s.interlace = 0
        THEN [y \in 1 .. Len(s.data) \div (1 + LineBytes(s.w, bpp)) |->
                s.data[(y - 1) * (1 + LineBytes(s.w, bpp)) + 1]]
        ELSE [y \in 1 .. s.h |->
                FiltersOfPass(s.data, s.w, s.h, bpp, pass(y))[(y - 1) \div Power(shift(y)) + 1]]
GetFilterTypes(file) == FiltersRead(DecodeGeneric(file))
==============================================================================
