--------------------------- MODULE MCZopfliProgram ---------------------------
(* Files at the limits of the buffer and of the sums, and lists of arguments. *)
EXTENDS ZopfliProgram

Sevens(n) == [k \in 1 .. n |-> 7]

(* The sums of "l" and "m" are at their largest where a second stretch        *)
(* begins; "h" may outgrow the largest buffer there can be.                   *)
MCContent == ("e" :> << >>) @@ ("s" :> <<2, 0, 7>>)
             @@ ("l" :> <<7, 4, 0, 0, 0>> \o Sevens(10)) @@ ("m" :> <<7, 4, 0, 0, 0, 0>> \o Sevens(6))
             @@ ("h" :> Sevens(22))

MCFormats == ("--gzip" :> "gzip") @@ ("--zlib" :> "zlib") @@ ("--deflate" :> "deflate")
MCCrc(bytes) == <<Len(bytes), FoldLeft(+, 0, bytes)>>

Options == {<< >>, <<"--zlib">>, <<"-c">>, <<"--deflate", "-v">>, <<"-c", "--zlib">>}
FileLists == {<< >>} \cup {<<f>> : f \in {"e", "s", "l", "m", "h", "missing"}}
             \cup {<<"l", "s">>, <<"missing", "e">>, <<"s", "s">>}
MCArgLists ==
  {o \o f : o \in Options, f \in FileLists}
  \cup {<<"-c", "s", "missing", "l">>, <<"l", "-c", "e", "s">>}
  \cup {<<"s">> \o o : o \in {<<"bad">>, <<"-h">>, <<"-c">>, <<"--zlib", "--gzip">>, <<"-h", "bad">>}}
==============================================================================
