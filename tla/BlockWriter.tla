------------------------------ MODULE BlockWriter ------------------------------
(***************************************************************************)
(* One block of LZ77 symbols on its way through AddLZ77BlockAutoType or    *)
(* AddLZ77Block (deflate.c:733-910): its cost as each type, the type       *)
(* chosen, and the bits written.                                           *)
(***************************************************************************)
EXTENDS BlockCoding

CONSTANT Blocks
  \* records [store, data, lstart, lend (exclusive), btype, ahead, fixedstore]:
  \* symbols are numbered from 1 and stand for the bytes of data, btype is 0,
  \* 1, 2 or AutoType, `ahead` bits of an earlier block are in the last byte,
  \* and fixedstore is what ZopfliLZ77OptimalFixed makes of the same bytes

AutoType == 3

(* What AddLZ77Data asserts of a symbol (deflate.c:349-357), within the      *)
(* longest match and the window.                                             *)
LiteralBytes == 0 .. 255
MatchLengths == 3 .. 258
MatchDistances == 1 .. 32768
LZ77Symbols == [litlen : LiteralBytes, dist : {0}]
               \cup [litlen : MatchLengths, dist : MatchDistances]

ASSUME BlocksAssumption ==
  \A b \in Blocks : /\ b.store \in Seq(LZ77Symbols) /\ b.fixedstore \in Seq(LZ77Symbols)
                    /\ b.lstart \in Nat /\ b.lend \in Nat
                    /\ 1 <= b.lstart /\ b.lstart <= b.lend /\ b.lend <= Len(b.store) + 1
                    /\ b.btype \in 0 .. AutoType /\ b.ahead \in 0 .. 7

VARIABLES
  block,    \* the call's arguments
  writing,  \* "asked", "costed" or "written"
  costs,    \* of the types, <<stored, fixed, dynamic>>
  written,  \* the type written
  bits      \* the stream

writerVars == <<block, writing, costs, written, bits>>

StartByte(b) == ByteRange(b.store, 1, b.lstart)
EndByte(b) == ByteRange(b.store, 1, b.lend)

-----------------------------------------------------------------------------
PadToByte(s) == s \o [k \in 1 .. (8 - (Len(s) % 8)) % 8 |-> 0]

StoredLEN(n) == Bits(n, 16) \o Bits(65535 - n, 16)
WithChunk(s, bytes, final) ==
  PadToByte(s \o <<IF final THEN 1 ELSE 0, 0, 0>>) \o StoredLEN(Len(bytes))
    \o Concat([k \in DOMAIN bytes |-> Bits(bytes[k], 8)])
WithStored(s, bytes) ==
  LET full == Len(bytes) \div MaxStored
      chunks == IF Len(bytes) % MaxStored = 0 /\ full > 0 THEN full ELSE full + 1
      ChunkOf(n) == SubSeq(bytes, (n - 1) * MaxStored + 1, Smallest(n * MaxStored, Len(bytes)))
      with[n \in 0 .. chunks] ==
        IF n = 0 THEN s ELSE WithChunk(with[n - 1], ChunkOf(n), n = chunks)
  IN  with[chunks]

SymbolCode(x, tree, ll, d) ==
  LET lls == LengthSymbol(x.litlen)
      ds == DistSymbol(x.dist)
  IN  IF x.dist = 0 THEN HuffmanBits(ll[x.litlen], tree.ll[x.litlen])
      ELSE HuffmanBits(ll[lls], tree.ll[lls])
             \o Bits(LengthExtraValue(x.litlen), LengthExtraBits(x.litlen))
             \o HuffmanBits(d[ds], tree.d[ds])
             \o Bits(DistExtraValue(x.dist), DistExtraBits(x.dist))

AddLZ77Data(store, lstart, lend, tree) ==
  LET h == [ll |-> LengthsToSymbols(tree.ll, 15), d |-> LengthsToSymbols(tree.d, 15)]
  IN  Joined([k \in lstart .. lend - 1 |-> SymbolCode(store[k], tree, h.ll, h.d)],
             lstart, lend - 1)
      \o HuffmanBits(h.ll[256], tree.ll[256])

AddLZ77Block(btype, store, lstart, lend) ==
  LET With(tree) == <<1, btype % 2, btype \div 2>>
                    \o (IF btype = 1 THEN << >> ELSE AddDynamicTree(tree.ll, tree.d))
                    \o AddLZ77Data(store, lstart, lend, tree)
  IN  With(IF btype = 1 THEN FixedTree ELSE GetDynamicLengths(store, lstart, lend).tree)

-----------------------------------------------------------------------------
InitWriter ==
  /\ block \in Blocks
  /\ writing = "asked"
  /\ costs = << >> /\ written = AutoType
  /\ bits = [k \in 1 .. block.ahead |-> 0]

ExpensiveFixed(dyncost, fixedcost) ==
  block.btype = AutoType /\ UseExpensiveFixed(Len(block.store), fixedcost, dyncost)

(* The costs that AutoType compares; the fixed one is that of a store made   *)
(* for the fixed tree, if one is made.                                       *)
EstimateCosts ==
  LET OfBlock(Size(_, _, _)) == Size(block.store, block.lstart, block.lend)
      Costs(fixed, dynamic) ==
        << OfBlock(StoredSize),
           IF ExpensiveFixed(dynamic, fixed)
             THEN FixedSize(block.fixedstore, 1, Len(block.fixedstore) + 1)
             ELSE fixed,
           dynamic >>
  IN  /\ writing = "asked"
      /\ costs' = Costs(OfBlock(FixedSize), OfBlock(DynamicSize))
      /\ writing' = "costed"
      /\ UNCHANGED <<block, written, bits>>

(* The smallest, a stored block only if both others are larger, and a fixed  *)
(* one only if a dynamic one is larger.                                      *)
TypeFor == CASE block.btype # AutoType -> block.btype
             [] block.btype = AutoType /\ costs[1] < costs[2] /\ costs[1] < costs[3] -> 0
             [] OTHER -> IF costs[2] < costs[3] THEN 1 ELSE 2

Empty == block.btype = AutoType /\ block.lstart = block.lend

WriteEmpty ==
  /\ writing = "costed" /\ Empty
  /\ bits' = bits \o <<1, 1, 0>> \o Bits(0, 7)
  /\ written' = 1
  /\ writing' = "written"
  /\ UNCHANGED <<block, costs>>

WriteStored ==
  /\ writing = "costed" /\ ~ Empty /\ TypeFor = 0
  /\ bits' = WithStored(bits, SubSeq(block.data, StartByte(block) + 1, EndByte(block)))
  /\ written' = 0
  /\ writing' = "written"
  /\ UNCHANGED <<block, costs>>

(* A block chosen for the fixed tree is written from the store made for it.  *)
FixedStoreUsed == block.btype = AutoType /\ TypeFor = 1
                    /\ UseExpensiveFixed(Len(block.store),
                         FixedSize(block.store, block.lstart, block.lend), costs[3])
SymbolsWritten ==
  IF FixedStoreUsed
    THEN [store |-> block.fixedstore, lstart |-> 1, lend |-> Len(block.fixedstore) + 1]
    ELSE [store |-> block.store, lstart |-> block.lstart, lend |-> block.lend]
WriteCompressed ==
  LET Written(s) == AddLZ77Block(TypeFor, s.store, s.lstart, s.lend)
  IN  /\ writing = "costed" /\ ~ Empty /\ TypeFor # 0
      /\ bits' = bits \o Written(SymbolsWritten)
      /\ written' = TypeFor
      /\ writing' = "written"
      /\ UNCHANGED <<block, costs>>

WriterNext == EstimateCosts \/ WriteEmpty \/ WriteStored \/ WriteCompressed
WriterSpec == InitWriter /\ [][WriterNext]_writerVars

(* The cost a compressed block is chosen for is the number of its bits       *)
(* (deflate.c:316, 454): header, trees, codes of their lengths and data.     *)
EstimateExact ==
  written \in {1, 2} /\ ~ Empty => Len(bits) - block.ahead = costs[written + 1]

=============================================================================
