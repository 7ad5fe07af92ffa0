----------------------------- MODULE ZopfliHash -----------------------------
(***************************************************************************)
(* The sliding-window hash of src/zopfli/hash.c.  An LZ77 run resets it,   *)
(* warms it up at the start of the window before its block, and then       *)
(* updates it once for every consecutive position up to the end of the     *)
(* block.  Every position is linked into two chains: one keyed by a        *)
(* rolling hash of three bytes, one keyed by that hash mixed with the      *)
(* length of the run of equal bytes that starts there.  All the tables are *)
(* rings addressed with the position modulo the window, so an entry is     *)
(* silently overwritten one window later.                                  *)
(***************************************************************************)
EXTENDS Integers

CONSTANTS
  WindowSize,       \* ZOPFLI_WINDOW_SIZE: slots of the ring (32768)
  MaxLen,           \* length of the input array (a bound for TLC)
  Byte,             \* the byte values
  Inputs,           \* the input arrays
  Blocks,           \* the blocks <<first, one past last>> that runs may cover
  HashVals,         \* 0 .. HASH_MASK
  SameCap,          \* the largest run length a uint16_t holds (65535)
  Empty,            \* ZOPFLI_HASH_EMPTY
  HashStep(_, _),   \* UpdateHashValue: hash after one more byte
  HashSame(_, _)    \* the hash of the second chain, from hash and run length

ASSUME HashAssumption ==
  /\ WindowSize \in Nat \ {0}
  /\ MaxLen \in Nat \ {0}
  /\ SameCap \in Nat \ {0}
  /\ 0 \in Byte /\ 0 \in HashVals
  /\ Empty \notin 0 .. WindowSize - 1
  /\ Empty \notin HashVals

ASSUME InputAssumption ==
  /\ Inputs \subseteq [0 .. MaxLen - 1 -> Byte]
  /\ \A b \in Blocks : /\ b \in (0 .. MaxLen - 1) \X (1 .. MaxLen)
                      /\ b[1] < b[2]

ASSUME HashClosed ==
  /\ \A v \in HashVals, b \in Byte : HashStep(v, b) \in HashVals
  /\ \A v \in HashVals, n \in 0 .. SameCap : HashSame(v, n) \in HashVals

(* 3 * HASH_SHIFT bits leave a HASH_MASK wide value after three more bytes. *)
ASSUME HashForgets ==
  \A v, w \in HashVals, a, b, c \in Byte :
     HashStep(HashStep(HashStep(v, a), b), c)
       = HashStep(HashStep(HashStep(w, a), b), c)

VARIABLES
  array,     \* the whole input
  instart,   \* first position of the block of this run
  end,       \* one past the last position of the block
  pos,       \* the next position to be hashed
  val,       \* rolling hash
  val2,      \* hash of the second chain at the last position
  same,      \* slot -> repetitions of the byte after the position
  chain,     \* head, prev, hashval
  chain2     \* head2, prev2, hashval2

vars == <<array, instart, end, pos, val, val2, same, chain, chain2>>

Slots == 0 .. WindowSize - 1
Slot(q) == q % WindowSize

WindowStart(i) == IF i > WindowSize THEN i - WindowSize ELSE 0

EmptyChain ==
  [ head    |-> [v \in HashVals |-> Empty],
    prev    |-> [i \in Slots |-> i],
    hashval |-> [i \in Slots |-> Empty] ]

(* The old head h of the bucket is believed only if its slot still has the  *)
(* hash value; otherwise the slot links to itself, "uninitialized".          *)
PrevLinkUnchecked(hashval, h, v, hpos) == IF h # Empty THEN h ELSE hpos  \* mutant
PrevLink(hashval, h, v, hpos) ==
  IF h # Empty /\ hashval[h] = v THEN h ELSE hpos

(* Enter slot hpos in the bucket of v, the new hash value first.             *)
Link(c, hpos, v) ==
  LET hashval == [c.hashval EXCEPT ![hpos] = v]
  IN  [ head    |-> [c.head EXCEPT ![v] = hpos],
        prev    |-> [c.prev EXCEPT ![hpos] = PrevLink(hashval, c.head[v], v, hpos)],
        hashval |-> hashval ]

Warmup(ws, e) ==
  LET v == HashStep(0, array[ws])
  IN  IF ws + 1 < e THEN HashStep(v, array[ws + 1]) ELSE v

(* The byte that enters the rolling hash at q: the third one, 0 past the end. *)
ThirdByte(q) == IF q + 3 <= end THEN array[q + 2] ELSE 0

(* Byte q is repeated one more time after n repetitions. *)
Repeats(q, n) ==
  /\ q + n + 1 < end
  /\ array[q] = array[q + n + 1]
  /\ n < SameCap

(* What is already known of the run from the position before. *)
KnownRunWhole(before) == before                            \* mutant
KnownRun(before) == IF before > 1 THEN before - 1 ELSE 0

(* The counting loop, from a count already known. *)
CountRun(q, known) ==
  CHOOSE n \in known .. SameCap :
    /\ ~ Repeats(q, n)
    /\ \A k \in known .. n - 1 : Repeats(q, k)

ResetTables ==
  /\ val2' = 0
  /\ same' = [i \in Slots |-> 0]
  /\ chain' = EmptyChain
  /\ chain2' = EmptyChain

(* An LZ77 run over the block i .. e - 1 begins: reset, then warm up.        *)
StartRun(i, e) ==
  /\ instart' = i
  /\ end' = e
  /\ pos' = WindowStart(i)
  /\ val' = Warmup(WindowStart(i), e)
  /\ ResetTables
  /\ UNCHANGED array

UpdateHash ==
  LET hpos   == Slot(pos)
      newval == HashStep(val, ThirdByte(pos))
      amount == CountRun(pos, KnownRun(same[Slot(pos - 1)]))
      newval2 == HashSame(newval, amount)
  IN  /\ pos < end
      /\ val' = newval
      /\ chain' = Link(chain, hpos, newval)
      /\ same' = [same EXCEPT ![hpos] = amount]
      /\ val2' = newval2
      /\ chain2' = Link(chain2, hpos, newval2)
      /\ pos' = pos + 1
      /\ UNCHANGED <<array, instart, end>>

Init ==
  /\ array \in Inputs
  /\ \E b \in Blocks : instart = b[1] /\ end = b[2]
  /\ pos = WindowStart(instart)
  /\ val = Warmup(WindowStart(instart), end)
  /\ val2 = 0
  /\ same = [i \in Slots |-> 0]
  /\ chain = EmptyChain
  /\ chain2 = EmptyChain

Restart ==
  /\ pos = end
  /\ \E b \in Blocks : StartRun(b[1], b[2])

Next == UpdateHash \/ Restart

Spec == Init /\ [][Next]_vars

-----------------------------------------------------------------------------
(* Properties.  They speak of positions, the code of slots: a position is   *)
(* live while its slot has not been taken by a later one.                   *)

Start == WindowStart(instart)
LiveAt(s, n) == {q \in s .. n - 1 : q >= n - WindowSize}
Live == LiveAt(Start, pos)

ChainType ==
  [ head    : [HashVals -> Slots \cup {Empty}],
    prev    : [Slots -> Slots],
    hashval : [Slots -> HashVals \cup {Empty}] ]

(* Every table holds what its uint16_t elements are meant to hold.          *)
TypeOK ==
  /\ array \in [0 .. MaxLen - 1 -> Byte]
  /\ instart \in 0 .. MaxLen - 1
  /\ end \in instart + 1 .. MaxLen
  /\ pos \in Start .. end
  /\ val \in HashVals
  /\ val2 \in HashVals
  /\ same \in [Slots -> 0 .. SameCap]
  /\ chain \in ChainType
  /\ chain2 \in ChainType

(* The hash of position q as a function of the input alone: three bytes,    *)
(* zeros past the end (and two steps only, if the run sees a single byte).  *)
ByteOrZero(q) == IF q < end THEN array[q] ELSE 0
HashAt(q) ==
  LET v == HashStep(0, array[q])
  IN  IF end = Start + 1
        THEN HashStep(v, 0)
        ELSE HashStep(HashStep(v, ByteOrZero(q + 1)), ByteOrZero(q + 2))

(* n is the number of repetitions of byte q after it, capped.               *)
IsRun(q, n) ==
  /\ ~ Repeats(q, n)
  /\ \A k \in 0 .. n - 1 : Repeats(q, k)

(* A table of chains is exact for the hash f after the positions s .. n-1:  *)
(* live slots hold the hash of their position, dead ones nothing; head      *)
(* names the last position of a bucket; prev names the nearest earlier      *)
(* position of the same bucket that is less than a window away, or the slot *)
(* itself if there is none.                                                 *)
HashvalExact(c, f, s, n) ==
  /\ \A q \in LiveAt(s, n) : c.hashval[Slot(q)] = f[q]
  /\ \A i \in Slots :
       (\A q \in LiveAt(s, n) : Slot(q) # i) => c.hashval[i] = Empty

HeadExact(c, f, s, n) ==
  \A v \in HashVals :
    \/ c.head[v] = Empty /\ \A q \in s .. n - 1 : f[q] # v
    \/ \E q \in s .. n - 1 :
         /\ c.head[v] = Slot(q) /\ f[q] = v
         /\ \A r \in q + 1 .. n - 1 : f[r] # v

LinkExact(c, f, s, q) ==
  \/ /\ c.prev[Slot(q)] = Slot(q)
     /\ \A p \in s .. q - 1 : q - p < WindowSize => f[p] # f[q]
  \/ \E p \in s .. q - 1 :
       /\ q - p < WindowSize
       /\ c.prev[Slot(q)] = Slot(p) /\ f[p] = f[q]
       /\ \A r \in p + 1 .. q - 1 : f[r] # f[q]

ChainExact(c, f, s, n) ==
  /\ HashvalExact(c, f, s, n)
  /\ HeadExact(c, f, s, n)
  /\ \A q \in LiveAt(s, n) : LinkExact(c, f, s, q)

RunLengthAt(q) == CHOOSE n \in 0 .. SameCap : IsRun(q, n)
Hashes == [q \in Start .. end - 1 |-> HashAt(q)]
SecondHashes ==
  [q \in Start .. end - 1 |-> HashSame(HashAt(q), RunLengthAt(q))]

(* same holds the true length of the run at every live position, although   *)
(* it is counted on from the value stored for the position before, which is *)
(* read from the ring (hash.c:131-139).                                     *)
SameExact == \A q \in Live : IsRun(q, same[Slot(q)])

(* The chains of the three-byte hash reach, from any live position, exactly *)
(* the earlier positions with the same three bytes' hash inside the window, *)
(* nearest first, whatever the ring has overwritten (hash.c:120-128).       *)
FirstChainExact == ChainExact(chain, Hashes, Start, pos)

(* The same of the second chains, whose hash is that of the first mixed     *)
(* with the run length (hash.c:143-150).                                    *)
SecondChainExact == ChainExact(chain2, SecondHashes, Start, pos)

=============================================================================
