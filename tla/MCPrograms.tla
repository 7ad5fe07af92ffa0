----------------------------- MODULE MCPrograms -----------------------------
(* The two programs, and the encoder behind the second, side by side: each    *)
(* behavior runs one of them, with the other two idle.                        *)
EXTENDS MCZopfliProgram, MCPngOptimize, ZopfliPNG

(* Two images, one of which has been through the program before, a file that  *)
(* is no image, and a name that is not taken.                                 *)
A == <<0, "a">>
B == <<0, "b">>
MCPictures == {[valid |-> TRUE, shown |-> s, hidden |-> h] : s \in 1 .. 2, h \in 0 .. 1}
              \cup {[valid |-> FALSE, shown |-> 0, hidden |-> 0]}
Image(s, h) == [valid |-> TRUE, shown |-> s, hidden |-> h]
MCDisk == (A :> Png(Image(1, 1), 3)) @@ (<<1, "a">> :> Png(Image(2, 0), 2))
          @@ (B :> Png(Image(2, 1), 2)) @@ (<<0, "x">> :> Undecodable(2))

Flag(name) == <<name, "">>
Named2(names) == [n \in DOMAIN names |-> <<"file", names[n]>>]
Pairs == {<<A, B>>, <<A, A>>, <<A, <<0, "new">>>>}
Lists == {<<A>>, <<A, B>>, <<A, <<1, "a">>>>, <<<<0, "x">>, B>>, <<<<1, "a">>>>}
Wishes == { << >>, <<Flag("--lossy_transparent")>>, <<Flag("--always_zopflify"), Flag("-y")>>,
            <<<<"--filters", {0, 2}>>>>, <<<<"--keepchunks", "nAME">>, <<"--filters", {1}>>>>, <<Flag("-d")>> }
MCCommands ==
  {w \o Named2(f) : w \in Wishes, f \in Pairs}
  \cup {<<Flag("--prefix")>> \o Named2(f) \o w : w \in Wishes, f \in Lists}
  \cup {Named2(<<A, B>>) \o w : w \in {<<Flag("-h")>>, <<Flag("--what")>>, <<<<"--filters", {9}>>>>,
                                     <<<<"--keepchunks", "nAM">>>>, Named2(<<A>>)}}
  \cup {<< >>, <<Flag("--prefix")>>, Named2(<<A>>)}

ZopfliIdle ==
  /\ argv = << >> /\ i = 1 /\ output_type = "gzip" /\ output_to_stdout = FALSE /\ filename = FALSE
  /\ exit_status = "success" /\ phase = "idle" /\ cap = 0 /\ data = << >> /\ ferror = FALSE
  /\ written = << >> /\ stdout = << >> /\ trouble = {}
EncoderIdle ==
  /\ job = Task(<< >>, FALSE, FALSE, FALSE, {}, 0) /\ png_stage = "idle"
  /\ picture = NoPicture /\ wide = FALSE /\ input_color = RawMode(FALSE, << >>)
  /\ resultpng = << >> /\ png_error = 0
ZopfliPNGIdle ==
  /\ command = << >> /\ settings = Defaults /\ inputs = << >> /\ nth = 1 /\ png_step = "idle"
  /\ disk = Disk /\ origpng = NoFile /\ result = NoFile
  /\ strategy = 0 /\ enabled = {} /\ bestsize = 0 /\ bestfilter = 0
  /\ error = 0 /\ total_errors = 0 /\ exit_code = 0

MCInit == \/ InitProgram /\ EncoderIdle /\ ZopfliPNGIdle
          \/ ZopfliIdle /\ InitPng /\ ZopfliPNGIdle
          \/ ZopfliIdle /\ EncoderIdle /\ InitZopfliPNG
MCNext == \/ ProgramNext /\ UNCHANGED <<pngVars, zopflipngVars>>
          \/ PngNext /\ UNCHANGED <<programVars, zopflipngVars>>
          \/ ZopfliPNGNext /\ UNCHANGED <<programVars, pngVars>>
MCSpec == MCInit /\ [][MCNext]_<<programVars, pngVars, zopflipngVars>>
==============================================================================
