----------------------------- MODULE DeflateBlock -----------------------------
(***************************************************************************)
(* A block that BlockWriter has written on its way through lodepng's       *)
(* inflator (lodepng.cpp:1262-1411): the bytes read back, symbol by symbol.*)
(***************************************************************************)
EXTENDS BlockWriter, Inflate

(* The bytes that symbols stand for.                                         *)
SymbolBytes(out, x) == IF x.dist = 0 THEN Append(out, x.litlen)
                       ELSE CopyMatch(out, x.dist, x.litlen)
BytesOf(store) ==
  LET upTo[k \in 0 .. Len(store)] ==
        IF k = 0 THEN << >> ELSE SymbolBytes(upTo[k - 1], store[k])
  IN  upTo[Len(store)]

ASSUME DataAssumption == \A b \in Blocks : b.data = BytesOf(b.store)

VARIABLES
  reading,  \* "header", "symbols" or "done"
  rd,       \* the reader
  trees,    \* the trees of the block it is in
  last      \* the final flag of that block

readerVars == <<reading, rd, trees, last>>
blockVars == <<writerVars, readerVars>>

InitReader ==
  /\ reading = "header"
  /\ rd = [ bp |-> block.ahead, error |-> 0, out |-> SubSeq(block.data, 1, StartByte(block)) ]
  /\ trees = NoTrees(0, 0) /\ last = FALSE

-----------------------------------------------------------------------------
(* Reading: zlib puts a checksum of four bytes behind the last byte.         *)

Input == PadToByte(bits) \o [k \in 1 .. 32 |-> 1]

AfterBlock(reader, final) ==
  /\ rd' = reader
  /\ reading' = IF final \/ reader.error # 0 THEN "done" ELSE "header"

ReadHeader ==
  LET p == rd.bp
      btype == ReadValue(Input, p + 1, 2)
      final == ReadValue(Input, p, 1) = 1
      inside == [rd EXCEPT !.bp = p + 3]
  IN  /\ writing = "written" /\ reading = "header"
      /\ last' = final
      /\ CASE p + 3 > Len(Input) ->
                AfterBlock([rd EXCEPT !.error = 52], TRUE) /\ UNCHANGED trees
           [] p + 3 <= Len(Input) /\ btype = 3 ->
                AfterBlock([inside EXCEPT !.error = 20], TRUE) /\ UNCHANGED trees
           [] p + 3 <= Len(Input) /\ btype = 0 ->
                AfterBlock(NoCompression(Input, inside), final) /\ UNCHANGED trees
           [] OTHER ->
                /\ trees' = IF btype = 1 THEN FixedTrees(p + 3) ELSE DynamicTrees(Input, p + 3)
                /\ rd' = [rd EXCEPT !.bp = trees'.bp, !.error = trees'.error]
                /\ reading' = IF trees'.error # 0 THEN "done" ELSE "symbols"
      /\ UNCHANGED writerVars

ReadSymbol ==
  LET next == NextSymbol(Input, rd, trees)
  IN  /\ reading = "symbols"
      /\ IF next.ends \/ next.rd.error # 0
           THEN AfterBlock(next.rd, last)
           ELSE rd' = next.rd /\ UNCHANGED reading
      /\ UNCHANGED <<trees, last, writerVars>>

Reading == ReadHeader \/ ReadSymbol
Init == InitWriter /\ InitReader
Next == (WriterNext /\ UNCHANGED readerVars) \/ Reading

-----------------------------------------------------------------------------
(* lodepng reads back what was written: never an error, never another byte,  *)
(* and it ends with the last bit of the stream.  A dynamic tree has two      *)
(* distance codes for the decoders that require them (deflate.c:78-85).      *)
ReadsBack ==
  /\ rd.error = 0
  /\ Len(rd.out) <= EndByte(block) /\ rd.out = SubSeq(block.data, 1, Len(rd.out))
  /\ reading = "done" => Len(rd.out) = EndByte(block) /\ rd.bp = Len(bits)
  /\ reading = "symbols" => Cardinality(DOMAIN trees.d \cap 0 .. 29) >= 2

=============================================================================
