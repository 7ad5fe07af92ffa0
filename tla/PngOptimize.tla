------------------------------ MODULE PngOptimize ------------------------------
(***************************************************************************)
(* One way of ZopfliPNGOptimize (zopflipng_lib.cc) through an image: the   *)
(* file is decoded, colors behind transparent pixels may go, the image is  *)
(* encoded with one filter strategy in the mode chosen for it, perhaps a   *)
(* second time without a palette, and chunks of the old file are put into  *)
(* the new one.  ZopfliPNG is about the strategies, which one is best, and *)
(* what becomes of the file.                                               *)
(***************************************************************************)
EXTENDS PngFile

CONSTANT Jobs      \* [file, lossy_transparent, lossy_8bit, keep_colortype,
                   \*  keepchunks, strategy]

(* Files consist of chunks with the data that belong into them, laid out as  *)
(* the format demands: the header comes first, there is at most one palette, *)
(* and none after image data.  They need not be complete, nor decode.        *)
Octets == 0 .. 255
IsHeader(c) ==
  /\ c.name = "IHDR"
  /\ c.data \in Nat \X Nat \X {"GREY", "RGB", "PALETTE", "GREY_ALPHA", "RGBA"} \X Nat \X {0, 1}
IsChunk(c, colortype) ==
  /\ c.name = "PLTE" => c.data \in Seq([1 .. 3 -> Octets])
  /\ c.name = "tRNS" => c.data \in Seq(IF colortype = "PALETTE" THEN Octets ELSE 0 .. 65535)
  /\ c.name = "IDAT" => c.data \in Seq(Octets)
IsPng(file) ==
  /\ Len(file) \in Nat \ {0} /\ file = [k \in 1 .. Len(file) |-> file[k]]
  /\ IsHeader(file[1])
  /\ \A k \in 2 .. Len(file) : file[k].name # "IHDR" /\ IsChunk(file[k], file[1].data[3])
  /\ \A k, n \in DOMAIN file :
       k < n /\ file[n].name = "PLTE" => file[k].name \notin {"PLTE", "IDAT"}

(* The chunks that may be named for keeping are not those the encoder writes *)
(* itself.                                                                   *)
ASSUME JobsAssumption ==
  \A j \in Jobs : /\ IsPng(j.file)
                  /\ {j.lossy_transparent, j.lossy_8bit, j.keep_colortype} \subseteq BOOLEAN
                  /\ j.keepchunks \cap Essential = {}
                  /\ j.strategy \in 0 .. PREDEFINED

VARIABLES
  job,             \* the file and the options
  png_stage,       \* what is to be done next
  picture,         \* the image, decoded
  wide,            \* bit16: decoded to 16 bits
  input_color,     \* inputstate.info_png.color
  resultpng,       \* the new file
  png_error

pngVars == <<job, png_stage, picture, wide, input_color, resultpng, png_error>>

NoPicture == Picture(0, 0, 0, RawMode(FALSE, << >>), << >>)

InitPng ==
  /\ job \in Jobs /\ png_stage = "decode"
  /\ picture = NoPicture /\ wide = FALSE /\ input_color = RawMode(FALSE, << >>)
  /\ resultpng = << >> /\ png_error = 0

(* Chunks that depend on the color type force it to be kept.                 *)
KeepColortype ==
  job.keep_colortype \/ ChunksToKeep(job.file, job.keepchunks) \cap {"bKGD", "sBIT"} # {}

Bit16(mode) == mode.bitdepth = 16 /\ (KeepColortype \/ ~ job.lossy_8bit)

DecodeInput ==
  LET Decoded(first) ==
        /\ wide' = (first.error = 0 /\ Bit16(first.mode))
        /\ picture' = IF wide' THEN DecodeFile(job.file, TRUE) ELSE first
        /\ input_color' = first.mode
  IN  /\ png_stage = "decode"
      /\ Decoded(DecodeFile(job.file, FALSE))
      /\ png_error' = picture'.error
      /\ png_stage' = IF png_error' = 0 THEN "hide" ELSE "done"
      /\ UNCHANGED <<job, resultpng>>

LossyOptimizeTransparent ==
  LET pixels == WithoutHidden(picture.pixels)
  IN  /\ png_stage = "hide"
      /\ png_stage' = "encode"
      /\ IF job.lossy_transparent /\ ~ wide
           THEN /\ picture' = [picture EXCEPT !.pixels = pixels]
                /\ input_color' = [input_color EXCEPT !.palette =
                                     PaletteLeft(@, picture.pixels, pixels)]
           ELSE UNCHANGED <<picture, input_color>>
      /\ UNCHANGED <<job, wide, resultpng, png_error>>

-----------------------------------------------------------------------------
(* TryOptimize.  The palette of the input goes along with the raw image.     *)
(* After an error, which PixelsKept says there is not, the result is of no   *)
(* use, so that the chunks are then not put into it.                         *)
InfoRaw ==
  RawMode(wide, IF input_color.colortype = "PALETTE" THEN input_color.palette ELSE << >>)
ImageStats == ComputeColorStats(picture.pixels, wide)
ChosenMode ==
  IF KeepColortype THEN input_color ELSE AutoChooseColor(InfoRaw, ImageStats)

Filters == IF job.strategy = PREDEFINED THEN GetFilterTypes(job.file) ELSE << >>
EncodeIn(mode, filters) ==
  Encode(RawOf(picture.pixels, InfoRaw, wide), picture.w, picture.h, mode, InfoRaw,
         job.strategy, filters)

TryOptimize ==
  LET Result(encoded) == png_error' = encoded.error /\ resultpng' = encoded.file
      Try(filters) ==
        \/ /\ job.strategy = PREDEFINED /\ Len(filters) # picture.h
           /\ png_error' = 1
           /\ resultpng' = resultpng
        \/ /\ job.strategy = PREDEFINED => Len(filters) = picture.h
           /\ Result(EncodeIn(ChosenMode, filters))
  IN  /\ png_stage = "encode"
      /\ Try(Filters)
      /\ png_stage' = IF png_error' = 0 THEN "again" ELSE "done"
      /\ UNCHANGED <<job, picture, wide, input_color>>

(* A small image with a palette is tried without, and the smaller of the two *)
(* files taken, either.                                                      *)
NeedsRetry == ~ KeepColortype /\ resultpng[1].data[3] = "PALETTE"
WithoutPalette(s) ==
  LET alpha == s.alpha \/ (s.key /\ picture.w * picture.h <= FewPixels)
  IN  ColorMode(IF alpha THEN "RGBA" ELSE "RGB", 8, << >>,
                IF s.key /\ ~ alpha THEN [c \in 1 .. 3 |-> s.color[c] % 256] ELSE << >>)

RetryWithoutPalette ==
  LET Result(encoded) == /\ png_error' = encoded.error
                         /\ resultpng' \in {resultpng, encoded.file}
  IN  /\ png_stage = "again" /\ NeedsRetry
      /\ Result(EncodeIn(WithoutPalette(ImageStats), Filters))
      /\ png_stage' = IF png_error' = 0 THEN "keep" ELSE "done"
      /\ UNCHANGED <<job, picture, wide, input_color>>

NoRetry ==
  /\ png_stage = "again"
  /\ png_stage' = "keep"
  /\ UNCHANGED <<job, picture, wide, input_color, resultpng, png_error>>

InsertKeptChunks ==
  /\ png_stage = "keep"
  /\ resultpng' = KeepChunks(job.file, job.keepchunks, resultpng)
  /\ png_stage' = "done"
  /\ UNCHANGED <<job, picture, wide, input_color, png_error>>

PngDone == png_stage = "done" /\ UNCHANGED pngVars

PngNext ==
  \/ DecodeInput \/ LossyOptimizeTransparent \/ TryOptimize
  \/ RetryWithoutPalette \/ NoRetry \/ InsertKeptChunks \/ PngDone
PngSpec == InitPng /\ [][PngNext]_pngVars

-----------------------------------------------------------------------------
(* A file that can be decoded gives a file that decodes to the same image:   *)
(* with all 16 bits unless only 8 were asked for, and the same colors except *)
(* behind pixels that are transparent if those may go.  (A kept bKGD chunk   *)
(* may name a color that was cut from the palette; such a file does not      *)
(* decode, which the program finds out.  And the black that an index beyond  *)
(* the palette shows cannot be written with the same palette.)               *)
SamePixel(p, q, lossy) == p[4] = q[4] /\ (p = q \/ (lossy /\ p[4] = 0))
SamePicture(a, b, lossy) ==
  /\ b.error = 0 /\ a.w = b.w /\ a.h = b.h
  /\ \A k \in DOMAIN a.pixels : SamePixel(a.pixels[k], b.pixels[k], lossy)

BeyondPalette(p) ==
  p.mode.colortype = "PALETTE" /\ ~ Range(p.pixels) \subseteq Range(p.mode.palette)
PixelsKept ==
  LET Kept(before, now) ==
        before.error = 0 =>
          /\ png_error # 0 => KeepColortype /\ BeyondPalette(before)
          /\ now.error = 103 => "bKGD" \in job.keepchunks /\ job.lossy_transparent
          /\ png_error = 0 /\ now.error # 103 => SamePicture(before, now, job.lossy_transparent)
          /\ wide <=> before.mode.bitdepth = 16 /\ (job.lossy_8bit => KeepColortype)
  IN  png_stage = "done" => Kept(DecodeFile(job.file, wide), DecodeFile(resultpng, wide))

(* The chunks to be kept are in the new file as they were in the old, in the *)
(* same order and on the same side of the image data and, where both files   *)
(* have one, of the palette; no others are.                                  *)
HasPalette(file) == \E k \in DOMAIN file : file[k].name = "PLTE"
Until(file, name) ==
  LET at == {k \in DOMAIN file : file[k].name = name}
  IN  IF at = {} THEN file ELSE SubSeq(file, 1, Min(at) - 1)
Ancillary(file) == Marked(file, [k \in DOMAIN file |-> file[k].name \notin Essential])
ToKeep(file) == Marked(file, [k \in DOMAIN file |-> file[k].name \in job.keepchunks \ Essential])
ChunksKept ==
  LET Kept(old, now) ==
        \A name \in {"IEND", "IDAT", "PLTE"} :
          (name = "PLTE" => HasPalette(old) /\ HasPalette(now))
            => Ancillary(Until(now, name)) = ToKeep(Until(old, name))
  IN  png_stage = "done" /\ png_error = 0 => Kept(Until(job.file, "IEND"), resultpng)

(* The background that a kept bKGD chunk names is the same color as before.  *)
Background(file, s) ==
  LET at == {k \in DOMAIN file : file[k].name = "bKGD"}
      v == file[Min(at)].data
  IN  CASE at = {} -> << >>
        [] at # {} /\ s.mode.colortype = "PALETTE" -> Rgb(PaletteColor(s.mode.palette, v[1]))
        [] OTHER -> v
BackgroundKept ==
  LET Kept(before, now) == before.error = 0 /\ now.error = 0 =>
                             Background(resultpng, now) = Background(job.file, before)
  IN  png_stage = "done" /\ png_error = 0 /\ "bKGD" \in job.keepchunks =>
        Kept(DecodeGeneric(job.file), DecodeGeneric(resultpng))
==============================================================================
