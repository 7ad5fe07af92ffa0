---------------------------- MODULE ZopfliProgram ----------------------------
(***************************************************************************)
(* The command-line program of src/zopfli/zopfli_bin.c: the arguments are  *)
(* gone through twice, first for options, then for files; each file is     *)
(* loaded until its end, whatever size it was said to have, compressed,    *)
(* and written to a file or to standard output.  Anything the system is    *)
(* asked for may fail: opening, sizing, reading (also half way),           *)
(* allocating, writing and closing.                                        *)
(***************************************************************************)
EXTENDS Containers, FiniteSetsExt

CONSTANTS
  ArgLists,        \* sequences of options and names of files
  Content,         \* the bytes of each file there is
  Sizes,           \* what may be reported as the size of a file
  SizeMax,         \* SIZE_MAX
  FirstCap,        \* 65536
  Formats          \* "--gzip" and the like, and the format each sets

FormatNames == {"gzip", "zlib", "deflate"}
OutputName(name, format) == name \o "." \o format

ASSUME ProgramAssumption ==
  /\ FirstCap \in Nat \ {0} /\ SizeMax \in Nat /\ FirstCap <= SizeMax
  /\ Sizes \subseteq Nat
  /\ Formats \in [DOMAIN Formats -> FormatNames]
  /\ \A name \in DOMAIN Content : Content[name] \in Seq(0 .. ByteMax)

(* Different names have different outputs, as concatenation has it; and no   *)
(* output is read as an input of the same call.                              *)
ASSUME OutputNamesAssumption ==
  \A args \in ArgLists :
    /\ args \in Seq(STRING)
    /\ \A m, n \in DOMAIN args, format \in FormatNames :
         /\ args[m] # args[n] => OutputName(args[m], format) # OutputName(args[n], format)
         /\ OutputName(args[m], format) # args[n]

VARIABLES
  argv, i,               \* the arguments, and the one that is looked at
  output_type, output_to_stdout,
  filename,              \* whether a file has been named
  exit_status,           \* "success" or "failure"
  phase,
  cap, data,             \* the buffer, and what has been read into it
  ferror,
  written,               \* the output of each file, if any: [whole, container]
  stdout,                \* the same, one after the other
  trouble                \* files with which something failed

optionVars == <<output_type, output_to_stdout, filename>>
loadVars == <<cap, data, ferror>>
outputVars == <<written, stdout>>
programVars == <<argv, i, optionVars, exit_status, phase, loadVars, outputVars, trouble>>

Files == DOMAIN Content
IsOption(arg) == arg \in DOMAIN Formats \cup {"-c", "-h", "-v", "bad"}
Named == {k \in DOMAIN argv : ~ IsOption(argv[k])}

NoOutput == [whole |-> FALSE, container |-> Container(<< >>, << >>, << >>)]

InitProgram ==
  /\ argv \in ArgLists /\ i = 1
  /\ output_type = "gzip" /\ output_to_stdout = FALSE /\ filename = FALSE
  /\ exit_status = "success"
  /\ phase = "options"
  /\ cap = 0 /\ data = << >> /\ ferror = FALSE
  /\ written = [f \in {} |-> NoOutput] /\ stdout = << >>
  /\ trouble = {}

(* exit, with this status.                                                   *)
Exit(status) == phase' = "exited" /\ exit_status' = status

-----------------------------------------------------------------------------
(* The first pass over the arguments.                                        *)

TakeOption ==
  LET arg == argv[i]
  IN  /\ phase = "options" /\ i <= Len(argv) /\ arg \notin {"-h", "bad"}
      /\ output_to_stdout' = (output_to_stdout \/ arg = "-c")
      /\ output_type' = IF arg \in DOMAIN Formats THEN Formats[arg] ELSE output_type
      /\ i' = i + 1
      /\ UNCHANGED <<argv, filename, exit_status, phase, loadVars, outputVars, trouble>>

Help ==
  /\ phase = "options" /\ i <= Len(argv) /\ argv[i] = "-h"
  /\ Exit("success")
  /\ UNCHANGED <<argv, i, optionVars, loadVars, outputVars, trouble>>

(* An unknown option, or a number of iterations that is none.                *)
RejectOption ==
  /\ phase = "options" /\ i <= Len(argv) /\ argv[i] = "bad"
  /\ Exit("failure")
  /\ UNCHANGED <<argv, i, optionVars, loadVars, outputVars, trouble>>

OptionsRead ==
  /\ phase = "options" /\ i > Len(argv)
  /\ phase' = "files" /\ i' = 1
  /\ UNCHANGED <<argv, optionVars, exit_status, loadVars, outputVars, trouble>>

-----------------------------------------------------------------------------
(* The second pass.                                                          *)

SkipOption ==
  /\ phase = "files" /\ i <= Len(argv) /\ IsOption(argv[i])
  /\ i' = i + 1
  /\ UNCHANGED <<argv, optionVars, exit_status, phase, loadVars, outputVars, trouble>>

(* CompressFile returns 0 and the next file is taken.                        *)
FileFailsQuietly ==                                                   \* mutant
  /\ exit_status' = exit_status
  /\ phase' = "files" /\ i' = i + 1
  /\ trouble' = trouble \cup {argv[i]}
FileFails ==
  /\ exit_status' = "failure"
  /\ phase' = "files" /\ i' = i + 1
  /\ trouble' = trouble \cup {argv[i]}

(* LoadFile does not get to read: the file does not open or cannot be sized, *)
(* or its size is no size of memory.                                         *)
LoadRefused ==
  /\ phase = "files" /\ i <= Len(argv) /\ ~ IsOption(argv[i])
  /\ filename' = TRUE
  /\ FileFails
  /\ UNCHANGED <<argv, output_type, output_to_stdout, loadVars, outputVars>>

(* The size is a hint only.                                                  *)
FirstCapFor(filesize) == IF filesize = 0 THEN FirstCap ELSE filesize + 1
StartLoad(filesize) ==
  /\ phase = "files" /\ i <= Len(argv) /\ ~ IsOption(argv[i]) /\ argv[i] \in Files
  /\ filesize < SizeMax
  /\ filename' = TRUE
  /\ cap' = FirstCapFor(filesize) /\ data' = << >> /\ ferror' = FALSE
  /\ phase' = "loading"
  /\ UNCHANGED <<argv, i, output_type, output_to_stdout, exit_status, outputVars, trouble>>

(* ZopfliRealloc does not return without memory.                             *)
OutOfMemory ==
  /\ phase \in {"loading", "loaded"}
  /\ Exit("failure")
  /\ trouble' = trouble \cup {argv[i]}
  /\ UNCHANGED <<argv, i, optionVars, loadVars, outputVars>>

GrowCap == (cap + (cap \div 2) + (cap \div 8) + 1) % (SizeMax + 1)

(* What fread gets: all there is room for or the rest of the file, or less   *)
(* with an error.                                                            *)
Gets(left, fails) ==
  LET most == Min({cap - Len(data), left})
  IN  IF fails THEN 0 .. most ELSE {most}

AtEnd(got) == got = 0

(* One call of fread, and what follows it in the loop.                       *)
Read(got, fails) ==
  LET whole == Content[argv[i]]
      read == data \o SubSeq(whole, Len(data) + 1, Len(data) + got)
      full == ~ AtEnd(got) /\ Len(read) = cap
  IN  /\ phase = "loading"
      /\ got \in Gets(Len(whole) - Len(data), fails)
      /\ ferror' = (ferror \/ fails)
      /\ data' = read
      /\ \/ /\ ~ AtEnd(got) /\ (full => GrowCap > cap)
            /\ cap' = IF full THEN GrowCap ELSE cap
            /\ UNCHANGED <<i, exit_status, phase, trouble>>
         \/ /\ AtEnd(got) /\ ~ ferror'
            /\ phase' = "loaded"
            /\ UNCHANGED <<i, exit_status, cap, trouble>>
         \/ /\ (AtEnd(got) /\ ferror') \/ (full /\ GrowCap <= cap)
            /\ FileFails
            /\ UNCHANGED cap
      /\ UNCHANGED <<argv, optionVars, outputVars>>

-----------------------------------------------------------------------------
Saved(output) ==
  LET name == OutputName(argv[i], output_type)
  IN  [f \in DOMAIN written \cup {name} |-> IF f = name THEN output ELSE written[f]]
Written(whole) ==
  [whole |-> whole, container |-> ZopfliCompress(output_type, data)]

(* The output is written to a file, or only part of it when writing or       *)
(* closing fails; or the file does not open.                                 *)
SaveFile ==
  /\ phase = "loaded" /\ ~ output_to_stdout
  /\ \/ /\ phase' = "files" /\ i' = i + 1
        /\ written' = Saved(Written(TRUE))
        /\ UNCHANGED <<exit_status, trouble>>
     \/ /\ FileFails
        /\ written' \in {written, Saved(Written(FALSE))}
  /\ UNCHANGED <<argv, optionVars, loadVars, stdout>>

WriteStdout ==
  /\ phase = "loaded" /\ output_to_stdout
  /\ \/ /\ phase' = "files" /\ i' = i + 1
        /\ stdout' = Append(stdout, Written(TRUE))
        /\ UNCHANGED <<exit_status, trouble>>
     \/ FileFails /\ stdout' = Append(stdout, Written(FALSE))
  /\ UNCHANGED <<argv, optionVars, loadVars, written>>

StatusAtEnd == IF filename THEN exit_status ELSE "failure"
Return ==
  /\ phase = "files" /\ i > Len(argv)
  /\ Exit(StatusAtEnd)
  /\ UNCHANGED <<argv, i, optionVars, loadVars, outputVars, trouble>>

Exited == phase = "exited" /\ UNCHANGED programVars

ProgramNext ==
  \/ TakeOption \/ Help \/ RejectOption \/ OptionsRead \/ SkipOption \/ LoadRefused
  \/ \E size \in Sizes : StartLoad(size)
  \/ OutOfMemory
  \/ \E got \in 0 .. SizeMax, fails \in BOOLEAN : Read(got, fails)
  \/ SaveFile \/ WriteStdout \/ Return \/ Exited

ProgramSpec == InitProgram /\ [][ProgramNext]_programVars

-----------------------------------------------------------------------------
(* There is always room to read into; and an output that was written whole   *)
(* reads back as the whole of its input, in the format asked for: the file   *)
(* was read to its end, whatever its size was said to be, and its checksum   *)
(* is the one a reader computes.                                             *)
SavedReadsBack ==
  /\ phase = "loading" => Len(data) < cap /\ cap <= SizeMax
  /\ \A k \in Named : LET f == OutputName(argv[k], output_type) IN
       f \in DOMAIN written /\ written[f].whole =>
         ReadsAs(written[f].container, output_type, Content[argv[k]])
  /\ \A k \in DOMAIN stdout :
       stdout[k].whole =>
         \E n \in Named : /\ argv[n] \in Files
                          /\ ReadsAs(stdout[k].container, output_type, Content[argv[n]])

(* The n-th output on standard output is that of the k-th argument, whole.   *)
PutWhole(n, k) ==
  n \in DOMAIN stdout /\ stdout[n].whole /\ stdout[n].container.stream = Content[argv[k]]
WrittenWhole(k) ==
  IF output_to_stdout
    THEN \E n \in DOMAIN stdout : PutWhole(n, k)
    ELSE LET f == OutputName(argv[k], output_type) IN f \in DOMAIN written /\ written[f].whole

(* The outputs on standard output, whole or not, are those of some of the    *)
(* files named, each once and in the order of the arguments.                 *)
PutInOrder ==
  \E from \in [DOMAIN stdout -> Named] :
    /\ \A m, n \in DOMAIN stdout : m < n => from[m] < from[n]
    /\ \A n \in DOMAIN stdout :
         argv[from[n]] \in Files /\ stdout[n].container.stream = Content[argv[from[n]]]

NamedUpTo(k) == {n \in Named : n <= k}
Helped == "-h" \in Range(argv)

(* The exit status is success only if every file named was written whole, or *)
(* if help was asked for.  The outputs on standard output are in the order   *)
(* of the files, whatever fails; on success the output of the first file     *)
(* named is the first, that of the second the second, and there are no more. *)
(* The status is failure only if something failed; a file that failed does   *)
(* not keep others from being written, unless memory ran out; and a wrong    *)
(* option keeps all from it.                                                 *)
StatusTellsFailures ==
  phase = "exited" =>
    /\ exit_status = "success" /\ ~ Helped =>
         /\ Named # {} /\ \A k \in Named : WrittenWhole(k)
         /\ output_to_stdout =>
              /\ Len(stdout) = Cardinality(Named)
              /\ \A k \in Named : PutWhole(Cardinality(NamedUpTo(k)), k)
    /\ PutInOrder
    /\ exit_status = "failure" => Named = {} \/ trouble # {} \/ "bad" \in Range(argv)
    /\ i > Len(argv) /\ filename =>
         \A k \in Named : argv[k] \notin trouble => WrittenWhole(k)
    /\ "bad" \in Range(argv) \/ Helped => written = << >> /\ stdout = << >>
==============================================================================
