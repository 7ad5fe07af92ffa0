---------------------------- MODULE DeflateStream ---------------------------
(***************************************************************************)
(* ZopfliDeflateBuf and DeflatePart of src/zopfli/deflate.c: the input is  *)
(* taken in master blocks, each is split, squeezed block by block into one *)
(* store, possibly split again, and written as blocks of the cheapest type.*)
(* A block's costs are left open, so any type may be the cheapest, and the *)
(* output is the bit pointer and the blocks, not their contents.           *)
(***************************************************************************)
EXTENDS Integers, Sequences

CONSTANTS
  InSizes,        \* sizes of the input
  Modes,          \* [btype |-> 0 .. 2, splitting |-> BOOLEAN]
  MaxBlocks,      \* options->blocksplittingmax, 0 for no limit
  MasterSize,     \* mbs
  MaxStored,      \* bytes in a stored block (65535)
  BodyBits        \* bits a compressed block may have after its three first

ASSUME StreamAssumption ==
  /\ InSizes \subseteq Nat /\ MaxBlocks \in Nat /\ BodyBits \subseteq Nat
  /\ MasterSize \in Nat \ {0} /\ MaxStored \in Nat \ {0}
  /\ Modes \subseteq [btype : 0 .. 2, splitting : BOOLEAN]

VARIABLES
  insize, final, mode,  \* the call
  i,                    \* start of the next master block
  part,                 \* the part being deflated
  bytePoints,           \* splitpoints_uncompressed
  lz77, points,         \* the store of the whole part, and splitpoints
  n,                    \* the loops over blocks
  stored,               \* the block that is being stored in chunks
  buf,                  \* size of the output, and bp
  read,                 \* bits that a reader of the blocks has gone through
  last,                 \* the latest block
  phase

call == <<insize, final, mode>>
deflateVars == <<call, i, part, bytePoints, lz77, points, n, stored, buf, read,
                last, phase>>

-----------------------------------------------------------------------------
(* The bit pointer *)

(* The number of bits in the buffer.                                         *)
BitPos(b) == IF b.bp = 0 THEN 8 * b.size ELSE (8 * (b.size - 1)) + b.bp

Bytes(bits) == (bits + 7) \div 8

(* A byte is pushed whenever bp comes to 0.                                  *)
AddBits(b, bits) ==
  [size |-> b.size + Bytes(b.bp + bits) - Bytes(b.bp), bp |-> (b.bp + bits) % 8]

PushBytes(b, bytes) == [b EXCEPT !.size = @ + bytes]

PaddedNot(b) == b                                                     \* mutant
Padded(b) == [b EXCEPT !.bp = 0]

-----------------------------------------------------------------------------
(* The store: where each symbol begins and how many bytes it stands for *)

(* Any points between two ends, in order.                                    *)
PointsOf(k, from, to) ==
  {p \in [1 .. k -> from + 1 .. to - 1] : \A a, b \in 1 .. k : a < b => p[a] < p[b]}
PointsBetween(from, to) == UNION {PointsOf(k, from, to) : k \in 0 .. to - from}

(* The symbols of a block that begin at its start and at the cuts.           *)
ParseOf(from, to, cuts) ==
  LET begins == <<from>> \o cuts
  IN  IF from = to THEN << >>
      ELSE [k \in 1 .. Len(begins) |->
              [pos |-> begins[k],
               len |-> (IF k = Len(begins) THEN to ELSE begins[k + 1]) - begins[k]]]

(* ZopfliLZ77Pos and ZopfliLZ77GetByteRange, of the symbols after lstart.    *)
RangeFrom(lstart, lend) == IF lstart = lend THEN 0 ELSE lz77[lstart + 1].pos
RangeTo(lstart, lend) ==
  IF lstart = lend THEN 0 ELSE lz77[lend].pos + lz77[lend].len

(* ZopfliBlockSplitLZ77: the points it may find between two symbols.         *)
SplitPoints(from, to) ==
  {p \in PointsBetween(from, to) : MaxBlocks > 0 => Len(p) < MaxBlocks}

BlockStart(pts, first) == IF n = 0 THEN first ELSE pts[n]
BlockEnd(pts, end) == IF n = Len(pts) THEN end ELSE pts[n + 1]

-----------------------------------------------------------------------------
NoPart == [from |-> 0, to |-> 0, final |-> FALSE]
NotStored == [from |-> 0, pos |-> 0, end |-> 0, final |-> FALSE, at |-> 0]

Init ==
  /\ insize \in InSizes /\ final \in BOOLEAN /\ mode \in Modes
  /\ i = 0 /\ part = NoPart
  /\ bytePoints = << >> /\ lz77 = << >> /\ points = << >> /\ n = 0
  /\ stored = NotStored
  /\ buf = [size |-> 0, bp |-> 0] /\ read = 0
  /\ last = [from |-> 0, to |-> 0, final |-> FALSE]
  /\ phase = "part"

(* AddNonCompressedBlock is called. *)
StartStored(from, to, fin) ==
  stored' = [from |-> from, pos |-> from, end |-> to, final |-> fin,
             at |-> BitPos(buf)]

MasterFinalLate == i + MasterSize > insize                            \* mutant
MasterFinal == i + MasterSize >= insize

(* One round of the loop over master blocks, up to the choice by btype.      *)
StartPart ==
  LET to == IF MasterFinal THEN insize ELSE i + MasterSize
  IN  /\ phase = "part"
      /\ part' = [from |-> i, to |-> to, final |-> final /\ MasterFinal]
      /\ i' = to
      /\ lz77' = << >> /\ points' = << >> /\ bytePoints' = << >> /\ n' = 0
      /\ phase' = CASE mode.btype = 0 -> "stored"
                    [] mode.btype = 1 -> "fixed"
                    [] mode.btype = 2 -> IF mode.splitting THEN "split" ELSE "squeeze"
      /\ IF mode.btype = 0 THEN StartStored(i, to, final /\ MasterFinal)
                           ELSE UNCHANGED stored
      /\ UNCHANGED <<call, buf, read, last>>

AfterPart == IF i < insize THEN "part" ELSE "end"

(* ZopfliBlockSplit: points between the symbols of a greedy parse of the     *)
(* part become the bytes that these symbols begin at.                        *)
Split ==
  /\ phase = "split"
  /\ \E cuts \in PointsBetween(part.from, part.to) :
       LET store == ParseOf(part.from, part.to, cuts)
       IN  \E lz77points \in SplitPoints(0, Len(store)) :
             bytePoints' = [k \in DOMAIN lz77points |-> store[lz77points[k] + 1].pos]
  /\ phase' = "squeeze"
  /\ UNCHANGED <<call, i, part, lz77, points, n, stored, buf, read, last>>

WithPointBefore(store) == Append(points, Len(lz77))                   \* mutant
WithPoint(store) == Append(points, Len(store))

(* One block is squeezed and its symbols appended to those of the part.      *)
SqueezeBlock ==
  LET from == BlockStart(bytePoints, part.from)
      to == BlockEnd(bytePoints, part.to)
      more == n < Len(bytePoints)
  IN  /\ phase = "squeeze"
      /\ \E cuts \in PointsBetween(from, to) :
           lz77' = lz77 \o ParseOf(from, to, cuts)
      /\ points' = IF more THEN WithPoint(lz77') ELSE points
      /\ n' = IF more THEN n + 1 ELSE 0
      /\ phase' = IF more THEN "squeeze"
                  ELSE IF mode.splitting /\ Len(bytePoints) > 1 THEN "again" ELSE "emit"
      /\ UNCHANGED <<call, i, part, bytePoints, stored, buf, read, last>>

(* ZopfliBlockSplitLZ77 on all the symbols; its points are taken if they are *)
(* cheaper.                                                                  *)
SplitAgain ==
  /\ phase = "again"
  /\ points' \in {points} \cup SplitPoints(0, Len(lz77))
  /\ phase' = "emit"
  /\ UNCHANGED <<call, i, part, bytePoints, lz77, n, stored, buf, read, last>>

-----------------------------------------------------------------------------
(* A block of some bits that holds the bytes of the input in a range.        *)
Compressed(from, to, fin, bits) ==
  /\ buf' = AddBits(buf, bits)
  /\ read' = read + bits
  /\ last' = [from |-> from, to |-> to, final |-> fin]

(* btype 1: the part is one block.                                           *)
FixedPart ==
  /\ phase = "fixed"
  /\ \E bits \in BodyBits : Compressed(part.from, part.to, part.final, 3 + bits)
  /\ phase' = AfterPart
  /\ UNCHANGED <<call, i, part, bytePoints, lz77, points, n, stored>>

LastBlock == n = Len(points)
LStart == BlockStart(points, 0)
LEnd == BlockEnd(points, Len(lz77))

NextBlock ==
  /\ n' = n + 1
  /\ phase' = IF LastBlock THEN AfterPart ELSE "emit"

(* AddLZ77BlockAutoType: a block without symbols, a compressed block, or the *)
(* first step of a stored one.  A fixed block may be made of another parse,  *)
(* of the same bytes.                                                        *)
EmptyBlock ==
  /\ phase = "emit" /\ LStart = LEnd
  /\ Compressed(last.to, last.to, LastBlock /\ part.final, 10)
  /\ NextBlock
  /\ UNCHANGED <<call, i, part, bytePoints, lz77, points, stored>>

CompressedBlock ==
  /\ phase = "emit" /\ LStart # LEnd
  /\ \E bits \in BodyBits :
       Compressed(RangeFrom(LStart, LEnd), RangeTo(LStart, LEnd),
                  LastBlock /\ part.final, 3 + bits)
  /\ NextBlock
  /\ UNCHANGED <<call, i, part, bytePoints, lz77, points, stored>>

StoredBlock ==
  /\ phase = "emit" /\ LStart # LEnd
  /\ StartStored(RangeFrom(LStart, LEnd), RangeTo(LStart, LEnd),
                 LastBlock /\ part.final)
  /\ phase' = "stored"
  /\ UNCHANGED <<call, i, part, bytePoints, lz77, points, n, buf, read, last>>

-----------------------------------------------------------------------------
(* AddNonCompressedBlock *)
ChunkSize ==
  IF stored.pos + MaxStored > stored.end THEN stored.end - stored.pos ELSE MaxStored
CurrentFinalPast == stored.pos + ChunkSize > stored.end               \* mutant
CurrentFinal == stored.pos + ChunkSize >= stored.end
ChunkFinalAlways == stored.final                                      \* mutant
ChunkFinal == stored.final /\ CurrentFinal

(* Three bits, padding, LEN and NLEN, and the bytes.  The reader expects LEN *)
(* at the first whole byte after the three bits.                             *)
StoredChunk ==
  /\ phase = "stored"
  /\ buf' = PushBytes(Padded(AddBits(buf, 3)), 4 + ChunkSize)
  /\ read' = (8 * Bytes(read + 3)) + 32 + (8 * ChunkSize)
  /\ last' = [from |-> stored.pos, to |-> stored.pos + ChunkSize, final |-> ChunkFinal]
  /\ IF CurrentFinal
     THEN /\ stored' = NotStored
          /\ IF mode.btype = 0 THEN n' = n /\ phase' = AfterPart ELSE NextBlock
     ELSE /\ stored' = [stored EXCEPT !.pos = @ + ChunkSize]
          /\ UNCHANGED <<n, phase>>
  /\ UNCHANGED <<call, i, part, bytePoints, lz77, points>>

Step == \/ StartPart \/ Split \/ SqueezeBlock \/ SplitAgain
        \/ FixedPart \/ EmptyBlock \/ CompressedBlock \/ StoredBlock \/ StoredChunk

Finished == phase = "end" /\ UNCHANGED deflateVars

Next == Step \/ Finished

Spec == Init /\ [][Next]_deflateVars

(* One sequential call: it goes on as long as it can.                        *)
FairSpec == Spec /\ WF_deflateVars(Step)

-----------------------------------------------------------------------------
TypeOK ==
  /\ i \in 0 .. insize /\ part.from <= part.to /\ part.to <= insize
  /\ buf.size \in Nat /\ buf.bp \in 0 .. 7 /\ read \in Nat
  /\ n \in 0 .. Len(points) + Len(bytePoints) + 1
  /\ last.from <= last.to /\ last.to <= insize
  /\ stored.pos <= stored.end /\ stored.end <= insize
  /\ phase \in {"part", "split", "squeeze", "again", "fixed", "emit", "stored", "end"}

(* The output is as long as what a reader of its blocks goes through, so     *)
(* every block begins where the one before ended: stored blocks pad to whole *)
(* bytes, the others continue in the last byte.                              *)
BitsAgree == TypeOK /\ BitPos(buf) = read

(* A stored block is cut into full chunks and a last one, none longer than   *)
(* its 16-bit length can say, and none is empty unless the block is: a block *)
(* that ends with a full chunk gets no further header.                       *)
ChunksFit ==
  [][phase = "stored" =>
       LET size == last'.to - last'.from
       IN  /\ size <= MaxStored
           /\ size < MaxStored => last'.to = stored.end
           /\ size = 0 => stored.from = stored.end]_last

(* When the part is split again, the points of the first splitting have been *)
(* carried over from bytes of the input to symbols of the store.             *)
PointsCarriedOver ==
  phase = "again" =>
    /\ Len(points) = Len(bytePoints)
    /\ \A k \in DOMAIN points : lz77[points[k] + 1].pos = bytePoints[k]

(* Through master blocks, both splittings and stored chunks, the blocks hold *)
(* the input in order and once, and none follows a final one.                *)
Stream == INSTANCE BlockStream
StreamSpec == Stream!Spec

(* The stream is completed: all of the input, and a final block if asked.    *)
StreamEnds == <>[](phase = "end" /\ Stream!Complete)

(* deflate.c:675-678: a stored block takes five bytes and its data for every *)
(* MaxStored bytes, or less for the first.  It is the cost that a stored     *)
(* block is chosen for.                                                      *)
StoredEstimate == (8 * 5 * ((stored.end - stored.from + MaxStored - 1) \div MaxStored))
                    + (8 * (stored.end - stored.from))
StoredFitsEstimate ==
  [][phase = "stored" /\ CurrentFinal /\ mode.btype = 2
       => BitPos(buf') - stored.at <= StoredEstimate]_buf
=============================================================================
