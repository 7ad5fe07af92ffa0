------------------------------ MODULE ZopfliPNG ------------------------------
(***************************************************************************)
(* The program zopflipng (zopflipng_bin.cc) and the strategies that        *)
(* ZopfliPNGOptimize tries (zopflipng_lib.cc): options are read, each file *)
(* is loaded, encoded in one way after the other, the best result decoded  *)
(* and compared with the original, and written where an old file may be.   *)
(* What a strategy makes of an image is left open, so that nothing here    *)
(* rests on the encoder: it may fail, or give any file.  PngOptimize is    *)
(* about what it does give.                                                *)
(*                                                                         *)
(* A name is <<k, base>> if it is base after k prefixes; a file is whether *)
(* it decodes, the colors one sees, those behind transparent pixels, and   *)
(* its size.                                                               *)
(***************************************************************************)
EXTENDS Integers, Sequences, SequencesExt

CONSTANTS
  Commands,               \* lists of arguments <<option, value>>
  Disk,                   \* the files before the program runs
  Pictures,               \* [valid, shown, hidden]
  PngSizes,               \* what encoded images may take
  ChunksSize,             \* what chunks that are kept add to that
  NumFilterStrategies     \* 9; the last one is brute force

ASSUME ZopfliPNGAssumption ==
  /\ PngSizes \subseteq Nat \ {0} /\ ChunksSize \in Nat
  /\ NumFilterStrategies \in Nat \ {0, 1}
  /\ Pictures \subseteq [valid : BOOLEAN, shown : Nat, hidden : Nat]
  /\ \A f \in DOMAIN Disk :
       Disk[f] \in [valid : BOOLEAN, shown : Nat, hidden : Nat, size : Nat]

VARIABLES
  command, settings,      \* the arguments, and what they ask for
  inputs, nth,            \* the files, and the one that is worked on
  png_step,
  disk,                   \* name -> file
  origpng, result,        \* what was loaded, and the best found for it
  strategy, enabled,      \* the strategy to be tried, and those that shall be
  bestsize, bestfilter,
  error,
  total_errors, exit_code

searchVars == <<strategy, enabled, bestsize, bestfilter>>
fileVars == <<origpng, result>>
zopflipngVars ==
  <<command, settings, inputs, nth, png_step, disk, fileVars, searchVars, error, total_errors, exit_code>>

Png(p, size) == [valid |-> p.valid, shown |-> p.shown, hidden |-> p.hidden, size |-> size]
Undecodable(size) == Png([valid |-> FALSE, shown |-> 0, hidden |-> 0], size)
NoFile == Undecodable(0)

-----------------------------------------------------------------------------
(* The arguments: options may stand anywhere, and the first that is wrong,   *)
(* or asks for help, ends the program.                                       *)

Defaults ==
  [ yes |-> FALSE, dryrun |-> FALSE, always_zopflify |-> FALSE, lossy_transparent |-> FALSE,
    filters |-> {}, keepchunks |-> FALSE, use_prefix |-> FALSE, files |-> << >>, stop |-> "no" ]

TakeArgument(s, arg) ==
  CASE s.stop # "no" -> s
    [] OTHER ->
       CASE arg[1] = "file" -> [s EXCEPT !.files = Append(@, arg[2])]
         [] arg[1] = "-y" -> [s EXCEPT !.yes = TRUE]
         [] arg[1] = "-d" -> [s EXCEPT !.dryrun = TRUE]
         [] arg[1] = "--always_zopflify" -> [s EXCEPT !.always_zopflify = TRUE]
         [] arg[1] = "--lossy_transparent" -> [s EXCEPT !.lossy_transparent = TRUE]
         [] arg[1] = "--prefix" -> [s EXCEPT !.use_prefix = TRUE]
         [] arg[1] = "--filters" ->
              IF arg[2] \subseteq 0 .. NumFilterStrategies - 1
                THEN [s EXCEPT !.filters = @ \cup arg[2]] ELSE [s EXCEPT !.stop = "error"]
         [] arg[1] = "--keepchunks" ->
              IF arg[2] = "nAME" THEN [s EXCEPT !.keepchunks = TRUE] ELSE [s EXCEPT !.stop = "help"]
         [] OTHER -> [s EXCEPT !.stop = "help"]                \* -h, or unknown

(* Without a prefix there must be one file to read and one to write.         *)
Parsed(args) ==
  LET s == FoldLeft(TakeArgument, Defaults, args)
  IN  IF \/ args = << >>
         \/ s.stop = "no" /\ ~ s.use_prefix /\ Len(s.files) # 2
        THEN [s EXCEPT !.stop = "help"] ELSE s

(* The arguments that are not options are names.                             *)
ASSUME NamesAssumption ==
  \A args \in Commands : Parsed(args).files \in Seq(Nat \X STRING)

InitZopfliPNG ==
  /\ command \in Commands
  /\ settings = Parsed(command)
  /\ inputs = CASE settings.stop # "no" -> << >>
                [] settings.stop = "no" /\ settings.use_prefix -> settings.files
                [] OTHER -> <<settings.files[1]>>
  /\ nth = 1
  /\ png_step = IF settings.stop = "no" THEN "next" ELSE "exited"
  /\ exit_code = IF settings.stop = "error" THEN 1 ELSE 0
  /\ disk = Disk
  /\ origpng = NoFile /\ result = NoFile
  /\ strategy = 0 /\ enabled = {} /\ bestsize = 0 /\ bestfilter = 0
  /\ error = 0 /\ total_errors = 0

OutFilename ==
  IF settings.use_prefix THEN <<inputs[nth][1] + 1, inputs[nth][2]>> ELSE settings.files[2]

-----------------------------------------------------------------------------
(* With several files, those are left out that have the prefix already.      *)
AlreadyPrefixed ==
  settings.use_prefix /\ Len(inputs) > 1 /\ inputs[nth][1] > 0
SkipFile ==
  /\ png_step = "next" /\ nth <= Len(inputs) /\ AlreadyPrefixed
  /\ nth' = nth + 1
  /\ UNCHANGED <<command, settings, inputs, png_step, disk, fileVars, searchVars, error, total_errors, exit_code>>

NextFile == nth' = nth + 1 /\ png_step' = "next"
FileHasError == NextFile /\ total_errors' = total_errors + 1

(* The file cannot be read, or is no image.                                  *)
LoadError ==
  /\ png_step = "next" /\ nth <= Len(inputs) /\ ~ AlreadyPrefixed
  /\ FileHasError
  /\ UNCHANGED <<command, settings, inputs, disk, fileVars, searchVars, error, exit_code>>

LoadAndDecode ==
  /\ png_step = "next" /\ nth <= Len(inputs) /\ ~ AlreadyPrefixed
  /\ inputs[nth] \in DOMAIN disk /\ disk[inputs[nth]].valid
  /\ origpng' = disk[inputs[nth]] /\ result' = NoFile /\ error' = 0
  /\ strategy' = 0 /\ bestsize' = 0 /\ bestfilter' = 0
  /\ enabled' = settings.filters
  /\ png_step' = IF settings.filters = {} THEN "choose" ELSE "encode"
  /\ UNCHANGED <<command, settings, inputs, nth, disk, total_errors, exit_code>>

Better(size) == bestsize = 0 \/ size < bestsize

(* AutoChooseFilterStrategy: a quick try of each strategy but brute force.   *)
TryQuickly(size) ==
  /\ png_step = "choose" /\ strategy < NumFilterStrategies - 1
  /\ strategy' = strategy + 1
  /\ IF Better(size) THEN bestsize' = size /\ bestfilter' = strategy
                     ELSE UNCHANGED <<bestsize, bestfilter>>
  /\ UNCHANGED <<command, settings, inputs, nth, png_step, disk, fileVars, enabled, error, total_errors, exit_code>>
QuickTryFails ==
  /\ png_step = "choose" /\ strategy < NumFilterStrategies - 1
  /\ FileHasError
  /\ UNCHANGED <<command, settings, inputs, disk, fileVars, searchVars, error, exit_code>>
ChooseFilter ==
  /\ png_step = "choose" /\ strategy = NumFilterStrategies - 1
  /\ enabled' = {bestfilter}
  /\ strategy' = 0 /\ bestsize' = 0
  /\ png_step' = "encode"
  /\ UNCHANGED <<command, settings, inputs, nth, disk, fileVars, bestfilter, error, total_errors, exit_code>>

(* The error is that of the last strategy, whatever those before gave.       *)
TryStrategy(e, temp) ==
  /\ png_step = "encode" /\ strategy < NumFilterStrategies
  /\ strategy' = strategy + 1
  /\ \/ strategy \notin enabled /\ UNCHANGED <<error, bestsize, result>>
     \/ /\ strategy \in enabled /\ error' = e
        /\ IF e = 0 /\ Better(temp.size) THEN bestsize' = temp.size /\ result' = temp
                                         ELSE UNCHANGED <<bestsize, result>>
  /\ UNCHANGED <<command, settings, inputs, nth, png_step, disk, origpng, enabled, bestfilter, total_errors, exit_code>>

AfterStrategies ==
  /\ png_step = "encode" /\ strategy = NumFilterStrategies
  /\ \/ error # 0 /\ FileHasError /\ result' = result
     \/ /\ error = 0
        /\ result' = IF settings.keepchunks THEN [result EXCEPT !.size = @ + ChunksSize] ELSE result
        /\ png_step' = "verify"
        /\ UNCHANGED <<nth, total_errors>>
  /\ UNCHANGED <<command, settings, inputs, disk, origpng, searchVars, error, exit_code>>

-----------------------------------------------------------------------------
(* A result that does not decode, or to another image, is replaced.          *)
VerifiedDecodes(png) == png.valid                                     \* mutant
Verified(png) ==
  /\ png.valid /\ png.shown = origpng.shown
  /\ png.hidden = origpng.hidden \/ settings.lossy_transparent
VerifyResult ==
  /\ png_step = "verify"
  /\ result' = IF Verified(result) THEN result ELSE origpng
  /\ png_step' = "save"
  /\ UNCHANGED <<command, settings, inputs, nth, disk, origpng, searchVars, error, total_errors, exit_code>>

(* What would be written, and whether an earlier file is kept instead.       *)
OutputNotSmaller(png) == png                                          \* mutant
Output(png) ==
  IF ~ settings.always_zopflify /\ png.size >= origpng.size THEN origpng ELSE png
KeepEarlierOutput(png) ==
  /\ OutFilename \in DOMAIN disk /\ png.size >= disk[OutFilename].size
  /\ ~ settings.always_zopflify
  /\ settings.use_prefix \/ OutFilename = inputs[nth]

(* Nothing is written: an earlier file is kept, or it is a dry run, or the   *)
(* user says no, or the file does not open.  None of it counts as an error.  *)
NotSaved ==
  /\ png_step = "save"
  /\ NextFile
  /\ UNCHANGED <<command, settings, inputs, disk, fileVars, searchVars, error, total_errors, exit_code>>

(* Only opening is checked: a short write goes unnoticed.                    *)
SaveResult(torn) ==
  LET png == Output(result)
      file == IF torn THEN Undecodable(png.size - 1) ELSE png
  IN  /\ png_step = "save"
      /\ ~ KeepEarlierOutput(png) /\ ~ settings.dryrun
      /\ disk' = [f \in DOMAIN disk \cup {OutFilename} |-> IF f = OutFilename THEN file ELSE disk[f]]
      /\ NextFile
      /\ UNCHANGED <<command, settings, inputs, fileVars, searchVars, error, total_errors, exit_code>>

ReturnErrors ==
  /\ png_step = "next" /\ nth > Len(inputs)
  /\ png_step' = "exited" /\ exit_code' = total_errors
  /\ UNCHANGED <<command, settings, inputs, nth, disk, fileVars, searchVars, error, total_errors>>

ZopfliPNGEnded == png_step = "exited" /\ UNCHANGED zopflipngVars

ZopfliPNGNext ==
  \/ SkipFile \/ LoadError \/ LoadAndDecode
  \/ \E size \in PngSizes : TryQuickly(size)
  \/ QuickTryFails \/ ChooseFilter
  \/ \E e \in 0 .. 1, p \in Pictures, size \in PngSizes : TryStrategy(e, Png(p, size))
  \/ AfterStrategies \/ VerifyResult \/ NotSaved
  \/ \E torn \in BOOLEAN : SaveResult(torn)
  \/ ReturnErrors \/ ZopfliPNGEnded

ZopfliPNGSpec == InitZopfliPNG /\ [][ZopfliPNGNext]_zopflipngVars

-----------------------------------------------------------------------------
(* Whatever the encoder gives, a file that decodes is as it was before the   *)
(* program ran, or shows what one of the images shows that were named as its *)
(* input, hidden colors included unless those may go; a file that no longer  *)
(* decodes was torn while it was written, to a name that is an output; and   *)
(* no file is written in a dry run, or when an argument was wrong.           *)
OutputsOf(source) ==
  IF settings.use_prefix THEN {<<source[1] + 1, source[2]>>} ELSE {settings.files[2]}
MadeFrom(png, source) ==
  /\ source \in DOMAIN Disk /\ Disk[source].valid
  /\ png.shown = Disk[source].shown
  /\ png.hidden = Disk[source].hidden \/ settings.lossy_transparent
FilesKept ==
  \A f \in DOMAIN disk :
    \/ f \in DOMAIN Disk /\ disk[f] = Disk[f]
    \/ /\ settings.stop = "no" /\ ~ settings.dryrun
       /\ \E k \in DOMAIN inputs :
            f \in OutputsOf(inputs[k]) /\ (disk[f].valid => MadeFrom(disk[f], inputs[k]))

(* Unless one asked for zopfli's result in any case, what is written is no   *)
(* larger than the file it was made from, and smaller than what a run before *)
(* left there or than itself when it is written in place.                    *)
NeverLarger ==
  [][disk' # disk /\ ~ settings.always_zopflify =>
       /\ disk'[OutFilename].size <= origpng.size
       /\ OutFilename \in DOMAIN disk /\ (settings.use_prefix \/ OutFilename = inputs[nth]) =>
            disk'[OutFilename].size < disk[OutFilename].size]_disk
==============================================================================
