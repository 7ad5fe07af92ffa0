------------------------ MODULE DeflateStreamProofs -------------------------
(***************************************************************************)
(* Proofs about DeflateStream.  One inductive invariant ties together the  *)
(* bit pointer, the master blocks, the symbols squeezed so far, the blocks *)
(* they are cut into and the latest block written; the theorems at the end *)
(* follow from it.                                                         *)
(***************************************************************************)
EXTENDS DeflateStream, TLAPS

Buffer == [size : Nat, bp : 0 .. 7]

(* The length of whole bytes and some bits.                                  *)
LEMMA BytesOfSum ==
  ASSUME NEW s \in Int, NEW c \in Nat
  PROVE  Bytes(8 * s + c) = s + Bytes(c)
BY DEF Bytes

LEMMA BytesOfBits ==
  ASSUME NEW t \in Nat
  PROVE  /\ t % 8 \in 0 .. 7 /\ Bytes(t) \in Nat
         /\ t % 8 = 0 => 8 * Bytes(t) = t
         /\ t % 8 # 0 => 8 * (Bytes(t) - 1) + (t % 8) = t
BY DEF Bytes

LEMMA BitsAdded ==
  ASSUME NEW b \in Buffer, NEW bits \in Nat
  PROVE  /\ AddBits(b, bits) \in Buffer
         /\ BitPos(AddBits(b, bits)) = BitPos(b) + bits
<1> DEFINE t == b.bp + bits
           c == AddBits(b, bits)
<1>1. /\ b.bp \in 0 .. 7 /\ b.size \in Nat /\ t \in Nat
  BY DEF Buffer
<1>2. /\ Bytes(b.bp) \in 0 .. 1
      /\ b.bp = 0 => Bytes(b.bp) = 0
      /\ b.bp # 0 => Bytes(b.bp) = 1
  BY <1>1 DEF Bytes
<1>3. Bytes(t) >= Bytes(b.bp)
  BY <1>1 DEF Bytes
<1>4. /\ t % 8 \in 0 .. 7 /\ Bytes(t) \in Nat
      /\ t % 8 = 0 => 8 * Bytes(t) = t
      /\ t % 8 # 0 => 8 * (Bytes(t) - 1) + (t % 8) = t
  BY <1>1, BytesOfBits
<1>5. c.size = b.size + Bytes(t) - Bytes(b.bp) /\ c.bp = t % 8
  BY DEF AddBits
<1>6. c \in Buffer
  <2>1. b.size + Bytes(t) - Bytes(b.bp) \in Nat
    <3> HIDE DEF t
    <3> QED BY <1>1, <1>2, <1>3, <1>4
  <2> QED BY <2>1, <1>4 DEF AddBits, Buffer
<1>7. BitPos(c) = BitPos(b) + bits
  <2> HIDE DEF c
  <2>1. BitPos(c) = 8 * (b.size - Bytes(b.bp)) + t
    <3> HIDE DEF t
    <3>1. CASE t % 8 = 0
      BY <3>1, <1>1, <1>2, <1>4, <1>5 DEF BitPos
    <3>2. CASE t % 8 # 0
      BY <3>2, <1>1, <1>2, <1>4, <1>5 DEF BitPos
    <3> QED BY <3>1, <3>2
  <2>2. 8 * (b.size - Bytes(b.bp)) + b.bp = BitPos(b)
    BY <1>1, <1>2 DEF BitPos
  <2> QED BY <2>1, <2>2, <1>1, <1>2
<1> QED BY <1>6, <1>7

(* A stored chunk: the reader skips to a whole byte as the writer does.      *)
LEMMA ChunkAdded ==
  ASSUME NEW b \in Buffer, NEW bytes \in Nat
  PROVE  LET c == PushBytes(Padded(AddBits(b, 3)), 4 + bytes)
         IN  c \in Buffer /\ BitPos(c) = 8 * Bytes(BitPos(b) + 3) + 32 + 8 * bytes
<1> DEFINE a == AddBits(b, 3)
           c == PushBytes(Padded(a), 4 + bytes)
<1>1. a \in Buffer
  BY BitsAdded
<1>2. b.bp \in 0 .. 7 /\ b.size \in Nat
  BY DEF Buffer
<1>3. a.size = b.size + Bytes(b.bp + 3) - Bytes(b.bp)
  BY DEF AddBits
<1>4. a.size = Bytes(BitPos(b) + 3)
  <2>1. CASE b.bp = 0
    <3>1. BitPos(b) + 3 = 8 * b.size + 3 /\ Bytes(b.bp) = 0 /\ b.bp + 3 = 3
      BY <2>1, <1>2 DEF BitPos, Bytes
    <3> QED BY <3>1, <1>2, <1>3, BytesOfSum DEF Bytes
  <2>2. CASE b.bp # 0
    <3>1. BitPos(b) + 3 = 8 * (b.size - 1) + (b.bp + 3) /\ Bytes(b.bp) = 1
      BY <2>2, <1>2 DEF BitPos, Bytes
    <3>2. Bytes(8 * (b.size - 1) + (b.bp + 3)) = (b.size - 1) + Bytes(b.bp + 3)
      <4>1. b.size - 1 \in Int /\ b.bp + 3 \in Nat
        BY <1>2
      <4> QED BY <4>1, BytesOfSum
    <3>3. Bytes(b.bp + 3) \in Int
      BY <1>2 DEF Bytes
    <3> QED BY <3>1, <3>2, <3>3, <1>2, <1>3
  <2> QED BY <2>1, <2>2
<1>5. c = [size |-> a.size + (4 + bytes), bp |-> 0]
  <2> HIDE DEF a
  <2>1. Padded(a) = [size |-> a.size, bp |-> 0]
    BY <1>1 DEF Padded, Buffer
  <2>2. c = [[size |-> a.size, bp |-> 0] EXCEPT !.size = @ + (4 + bytes)]
    BY <2>1 DEF PushBytes
  <2> QED BY <2>2
<1>6. a.size \in Nat
  BY <1>1 DEF Buffer
<1>7. c \in Buffer /\ BitPos(c) = 8 * a.size + 32 + 8 * bytes
  <2> HIDE DEF a
  <2> QED BY <1>5, <1>6 DEF Buffer, BitPos
<1> QED BY <1>4, <1>7

-----------------------------------------------------------------------------
Symbol == [pos : Nat, len : Nat \ {0}]

Increasing(p) == \A a, b \in 1 .. Len(p) : a < b => p[a] < p[b]
Points(p, from, to) ==
  /\ p \in Seq(Nat) /\ Increasing(p)
  /\ \A k \in 1 .. Len(p) : from < p[k] /\ p[k] < to

(* Symbols that stand for the bytes between two ends, one after the other.   *)
Chain(s, from, to) ==
  /\ s \in Seq(Symbol)
  /\ \A k \in 1 .. Len(s) : from <= s[k].pos /\ s[k].pos + s[k].len <= to
  /\ \A a, b \in 1 .. Len(s) : a < b => s[a].pos + s[a].len <= s[b].pos
  /\ \A k \in 1 .. Len(s) - 1 : s[k].pos + s[k].len = s[k + 1].pos
  /\ Len(s) = 0 => from = to
  /\ Len(s) # 0 => s[1].pos = from /\ s[Len(s)].pos + s[Len(s)].len = to

LEMMA FunctionIsSequence ==
  ASSUME NEW S, NEW k \in Nat, NEW f \in [1 .. k -> S]
  PROVE  f \in Seq(S) /\ Len(f) = k
OBVIOUS

LEMMA PointsBetweenIn ==
  ASSUME NEW from \in Nat, NEW to \in Nat, NEW p \in PointsBetween(from, to)
  PROVE  Points(p, from, to)
<1>1. PICK k \in 0 .. to - from : p \in PointsOf(k, from, to)
  BY DEF PointsBetween
<1>2. p \in [1 .. k -> from + 1 .. to - 1] /\ k \in Nat
  BY <1>1 DEF PointsOf
<1>3. p \in Seq(Nat) /\ Len(p) = k
  BY <1>2
<1> QED BY <1>1, <1>2, <1>3 DEF PointsOf, Points, Increasing

LEMMA ParseChain ==
  ASSUME NEW from \in Nat, NEW to \in Nat, from <= to,
         NEW cuts \in PointsBetween(from, to)
  PROVE  /\ Chain(ParseOf(from, to, cuts), from, to)
         /\ from < to => Len(ParseOf(from, to, cuts)) > 0
<1> DEFINE begins == <<from>> \o cuts
           s == ParseOf(from, to, cuts)
<1>1. Points(cuts, from, to)
  BY PointsBetweenIn
<1>2. CASE from = to
  BY <1>2 DEF ParseOf, Chain
<1>3. CASE from < to
  <2>1. /\ begins \in Seq(Nat) /\ Len(begins) = Len(cuts) + 1 /\ Len(begins) \in Nat
        /\ begins[1] = from
        /\ \A k \in 2 .. Len(begins) : begins[k] = cuts[k - 1]
    BY <1>1 DEF Points
  <2> DEFINE after(k) == IF k = Len(begins) THEN to ELSE begins[k + 1]
  <2>2. s = [k \in 1 .. Len(begins) |-> [pos |-> begins[k], len |-> after(k) - begins[k]]]
    BY <1>3 DEF ParseOf
  <2> HIDE DEF begins, s
  <2>3. \A k \in 1 .. Len(begins) : begins[k] \in Nat /\ from <= begins[k] /\ begins[k] < to
    BY <2>1, <1>1, <1>3 DEF Points
  <2>4. \A a, b \in 1 .. Len(begins) : a < b => begins[a] < begins[b]
    <3> SUFFICES ASSUME NEW a \in 1 .. Len(begins), NEW b \in 1 .. Len(begins), a < b
                 PROVE  begins[a] < begins[b]
      OBVIOUS
    <3>1. begins[b] = cuts[b - 1] /\ b - 1 \in 1 .. Len(cuts)
      BY <2>1
    <3>2. CASE a = 1
      BY <3>1, <3>2, <2>1, <1>1 DEF Points
    <3>3. CASE a # 1
      <4>1. begins[a] = cuts[a - 1] /\ a - 1 \in 1 .. Len(cuts) /\ a - 1 < b - 1
        BY <3>3, <2>1
      <4> QED BY <4>1, <3>1, <1>1 DEF Points, Increasing
    <3> QED BY <3>2, <3>3
  <2>5. \A k \in 1 .. Len(begins) : /\ after(k) \in Nat /\ begins[k] < after(k) /\ after(k) <= to
                                    /\ \A b \in 1 .. Len(begins) : k < b => after(k) <= begins[b]
    <3> SUFFICES ASSUME NEW k \in 1 .. Len(begins)
                 PROVE  /\ after(k) \in Nat /\ begins[k] < after(k) /\ after(k) <= to
                        /\ \A b \in 1 .. Len(begins) : k < b => after(k) <= begins[b]
      OBVIOUS
    <3>1. CASE k = Len(begins)
      BY <3>1, <2>1, <2>3
    <3>2. CASE k # Len(begins)
      <4>1. k + 1 \in 1 .. Len(begins) /\ after(k) = begins[k + 1] /\ k < k + 1
        BY <3>2, <2>1
      <4>2. after(k) \in Nat /\ begins[k] < after(k) /\ after(k) <= to
        BY <4>1, <2>3, <2>4
      <4>3. ASSUME NEW b \in 1 .. Len(begins), k < b PROVE after(k) <= begins[b]
        <5>1. b = k + 1 \/ k + 1 < b
          BY <4>3, <2>1
        <5> QED BY <5>1, <4>1, <2>3, <2>4
      <4> QED BY <4>2, <4>3
    <3> QED BY <3>1, <3>2
  <2>6. /\ Len(s) = Len(begins) /\ s \in Seq(Symbol)
        /\ \A k \in 1 .. Len(s) : s[k].pos = begins[k] /\ s[k].pos + s[k].len = after(k)
    <3>1. \A k \in 1 .. Len(begins) : [pos |-> begins[k], len |-> after(k) - begins[k]] \in Symbol
      <4> HIDE DEF after
      <4>1. \A k \in 1 .. Len(begins) : after(k) - begins[k] \in Nat \ {0}
        BY <2>3, <2>5
      <4> QED BY <4>1, <2>3 DEF Symbol
    <3>2. s \in [1 .. Len(begins) -> Symbol]
      BY <3>1, <2>2
    <3>3. Len(s) = Len(begins) /\ s \in Seq(Symbol)
      BY <3>2, <2>1, FunctionIsSequence
    <3> HIDE DEF after
    <3>4. \A k \in 1 .. Len(begins) : s[k].pos = begins[k] /\ s[k].len = after(k) - begins[k]
      BY <2>2
    <3> QED BY <3>3, <3>4, <2>3, <2>5
  <2>7. \A k \in 1 .. Len(s) - 1 : s[k].pos + s[k].len = s[k + 1].pos
    <3> SUFFICES ASSUME NEW k \in 1 .. Len(s) - 1
                 PROVE  s[k].pos + s[k].len = s[k + 1].pos
      OBVIOUS
    <3>1. k \in 1 .. Len(s) /\ k + 1 \in 1 .. Len(s) /\ k # Len(begins)
      BY <2>6, <2>1
    <3>2. after(k) = begins[k + 1]
      BY <3>1
    <3> HIDE DEF after
    <3> QED BY <3>1, <3>2, <2>6
  <2>8. s[Len(s)].pos + s[Len(s)].len = to /\ s[1].pos = from /\ Len(s) > 0
    BY <2>6, <2>1
  <2>9. \A k \in 1 .. Len(s) : from <= s[k].pos /\ s[k].pos + s[k].len <= to
    <3> HIDE DEF after
    <3> QED BY <2>6, <2>3, <2>5
  <2>10. \A a, b \in 1 .. Len(s) : a < b => s[a].pos + s[a].len <= s[b].pos
    <3> HIDE DEF after
    <3> QED BY <2>6, <2>5
  <2>11. Chain(s, from, to) /\ Len(s) > 0
    <3> HIDE DEF after
    <3> QED BY <2>6, <2>7, <2>8, <2>9, <2>10 DEF Chain
  <2> QED BY <2>11 DEF s
<1> QED BY <1>2, <1>3

LEMMA ChainJoined ==
  ASSUME NEW a \in Nat, NEW b \in Nat, NEW c \in Nat, a <= b, b <= c,
         NEW s \in Seq(Symbol), NEW t \in Seq(Symbol), Chain(s, a, b), Chain(t, b, c)
  PROVE  /\ Chain(s \o t, a, c) /\ Len(s \o t) = Len(s) + Len(t)
         /\ \A k \in 1 .. Len(s) : (s \o t)[k] = s[k]
         /\ Len(t) > 0 => (s \o t)[Len(s) + 1].pos = b
<1> DEFINE st == s \o t
<1>1. /\ s \in Seq(Symbol) /\ Len(s) \in Nat
      /\ t \in Seq(Symbol) /\ Len(t) \in Nat
  BY DEF Chain
<1>2. /\ \A k \in 1 .. Len(s) : s[k].pos \in Nat /\ s[k].len \in Nat
      /\ \A k \in 1 .. Len(t) : t[k].pos \in Nat /\ t[k].len \in Nat
  <2>1. /\ \A k \in 1 .. Len(s) : s[k] \in Symbol
        /\ \A k \in 1 .. Len(t) : t[k] \in Symbol
    BY <1>1
  <2> QED BY <2>1 DEF Symbol
<1>3. st \in Seq(Symbol) /\ Len(st) = Len(s) + Len(t)
  BY <1>1
<1>4. \A k \in 1 .. Len(s) : st[k] = s[k]
  BY <1>1
<1>5. \A k \in 1 .. Len(t) : st[Len(s) + k] = t[k]
  BY <1>1
<1> HIDE DEF st
<1>6. ASSUME NEW k \in 1 .. Len(st)
      PROVE  \/ k \in 1 .. Len(s) /\ st[k] = s[k]
             \/ /\ k - Len(s) \in 1 .. Len(t) /\ k > Len(s)
                /\ st[k] = t[k - Len(s)]
  <2>1. CASE k <= Len(s)
    BY <2>1, <1>1, <1>4
  <2>2. CASE k > Len(s)
    <3>1. k - Len(s) \in 1 .. Len(t) /\ k = Len(s) + (k - Len(s))
      BY <2>2, <1>1, <1>3
    <3> QED BY <2>2, <3>1, <1>5
  <2> QED BY <2>1, <2>2, <1>1
<1>7. ASSUME NEW k \in 1 .. Len(st)
      PROVE  a <= st[k].pos /\ st[k].pos + st[k].len <= c
  <2>1. CASE k \in 1 .. Len(s) /\ st[k] = s[k]
    <3>1. a <= s[k].pos /\ s[k].pos + s[k].len <= b
      BY <2>1 DEF Chain
    <3> QED BY <2>1, <3>1, <1>2
  <2>2. CASE k - Len(s) \in 1 .. Len(t) /\ st[k] = t[k - Len(s)]
    <3>1. b <= t[k - Len(s)].pos /\ t[k - Len(s)].pos + t[k - Len(s)].len <= c
      BY <2>2 DEF Chain
    <3> QED BY <2>2, <3>1, <1>2
  <2> QED BY <1>6, <2>1, <2>2
<1>8. ASSUME NEW k \in 1 .. Len(st), NEW m \in 1 .. Len(st), k < m
      PROVE  st[k].pos + st[k].len <= st[m].pos
  <2>1. CASE m \in 1 .. Len(s) /\ st[m] = s[m]
    <3>1. k \in 1 .. Len(s) /\ st[k] = s[k]
      BY <2>1, <1>8, <1>1, <1>4
    <3> QED BY <2>1, <3>1, <1>8 DEF Chain
  <2>2. CASE k - Len(s) \in 1 .. Len(t) /\ k > Len(s) /\ st[k] = t[k - Len(s)]
    <3>1. m - Len(s) \in 1 .. Len(t) /\ st[m] = t[m - Len(s)] /\ k - Len(s) < m - Len(s)
      BY <2>2, <1>8, <1>1, <1>6
    <3> QED BY <2>2, <3>1 DEF Chain
  <2>3. CASE /\ k \in 1 .. Len(s) /\ st[k] = s[k]
             /\ m - Len(s) \in 1 .. Len(t) /\ st[m] = t[m - Len(s)]
    <3>1. s[k].pos + s[k].len <= b /\ b <= t[m - Len(s)].pos
      BY <2>3 DEF Chain
    <3>2. s[k].pos \in Nat /\ s[k].len \in Nat /\ t[m - Len(s)].pos \in Nat
      BY <2>3, <1>2
    <3> DEFINE pos == s[k].pos
               len == s[k].len
               next == t[m - Len(s)].pos
    <3>3. pos + len <= b /\ b <= next /\ pos \in Nat /\ len \in Nat /\ next \in Nat
      BY <3>1, <3>2
    <3>4. pos + len <= next
      <4> HIDE DEF pos, len, next
      <4> QED BY <3>3
    <3> QED BY <2>3, <3>4
  <2> QED BY <1>6, <2>1, <2>2, <2>3
<1>9. Len(t) > 0 => st[Len(s) + 1].pos = b
  <2>1. Len(t) > 0 => st[Len(s) + 1] = t[1]
    BY <1>1, <1>5
  <2> QED BY <2>1, <1>1 DEF Chain
<1>10. ASSUME NEW k \in 1 .. Len(st) - 1
       PROVE  st[k].pos + st[k].len = st[k + 1].pos
  <2>1. CASE k < Len(s)
    <3>1. k \in 1 .. Len(s) - 1 /\ k \in 1 .. Len(s) /\ k + 1 \in 1 .. Len(s)
      BY <2>1, <1>1
    <3>2. st[k] = s[k] /\ st[k + 1] = s[k + 1]
      BY <3>1, <1>4
    <3> QED BY <3>1, <3>2 DEF Chain
  <2>2. CASE k > Len(s)
    <3> DEFINE j == k - Len(s)
    <3>1. /\ j \in 1 .. Len(t) - 1 /\ j \in 1 .. Len(t) /\ j + 1 \in 1 .. Len(t)
          /\ k = Len(s) + j /\ k + 1 = Len(s) + (j + 1)
      BY <2>2, <1>1, <1>3
    <3> HIDE DEF j
    <3>2. st[k] = t[j] /\ st[k + 1] = t[j + 1]
      BY <3>1, <1>5
    <3> QED BY <3>1, <3>2 DEF Chain
  <2>3. CASE k = Len(s)
    <3>1. Len(t) > 0 /\ k \in 1 .. Len(s) /\ Len(s) # 0
      BY <2>3, <1>1, <1>3
    <3>2. s[k].pos + s[k].len = b
      BY <3>1, <2>3 DEF Chain
    <3> QED BY <3>1, <3>2, <2>3, <1>4, <1>9
  <2> QED BY <2>1, <2>2, <2>3, <1>1
<1>11. Len(st) = 0 => a = c
  <2> SUFFICES ASSUME Len(s) + Len(t) = 0 PROVE a = c
    BY <1>3
  <2>1. Len(s) = 0 /\ Len(t) = 0
    BY <1>1
  <2> QED BY <2>1 DEF Chain
<1>12. Len(st) # 0 => st[1].pos = a
  <2>1. CASE Len(s) # 0
    <3>1. st[1] = s[1]
      BY <2>1, <1>1, <1>4
    <3> QED BY <2>1, <3>1 DEF Chain
  <2>2. CASE Len(s) = 0
    <3>1. Len(st) # 0 => Len(t) > 0
      BY <2>2, <1>1, <1>3
    <3> QED BY <2>2, <3>1, <1>9 DEF Chain
  <2> QED BY <2>1, <2>2
<1>13. Len(st) # 0 => st[Len(st)].pos + st[Len(st)].len = c
  <2>1. CASE Len(t) # 0
    <3>1. st[Len(st)] = t[Len(t)]
      BY <2>1, <1>1, <1>3, <1>5
    <3> QED BY <2>1, <3>1 DEF Chain
  <2>2. CASE Len(t) = 0
    <3>1. b = c /\ Len(st) = Len(s)
      BY <2>2, <1>1, <1>3 DEF Chain
    <3>2. Len(s) # 0 => st[Len(st)] = s[Len(s)]
      BY <3>1, <1>1, <1>4
    <3> QED BY <3>1, <3>2 DEF Chain
  <2> QED BY <2>1, <2>2
<1>14. Chain(st, a, c)
  BY <1>3, <1>7, <1>8, <1>10, <1>11, <1>12, <1>13 DEF Chain
<1> QED BY <1>3, <1>4, <1>9, <1>14 DEF st

-----------------------------------------------------------------------------
(* The inductive invariant.                                                  *)

Types ==
  /\ insize \in Nat /\ final \in BOOLEAN
  /\ mode \in [btype : 0 .. 2, splitting : BOOLEAN]
  /\ i \in 0 .. insize /\ n \in Nat
  /\ part \in [from : Nat, to : Nat, final : BOOLEAN]
  /\ bytePoints \in Seq(Nat) /\ lz77 \in Seq(Symbol) /\ points \in Seq(Nat)
  /\ stored \in [from : Nat, pos : Nat, end : Nat, final : BOOLEAN, at : Int]
  /\ stored.pos <= stored.end /\ stored.end <= insize
  /\ buf \in Buffer /\ read \in Nat
  /\ last \in [from : Nat, to : Nat, final : BOOLEAN]
  /\ phase \in {"part", "split", "squeeze", "again", "fixed", "emit", "stored", "end"}

PositionsAgree == BitPos(buf) = read

(* Master blocks end where the next begins, and only the last has the flag.  *)
PartInv ==
  /\ part.from <= part.to /\ part.to = i
  /\ phase # "part" => (part.final <=> final /\ part.to = insize)
  /\ phase = "end" => i = insize
  /\ phase \in {"split", "squeeze", "again", "emit"} => mode.btype = 2
  /\ phase = "stored" => mode.btype # 1

(* While blocks are squeezed, the points found are where they begin.         *)
Squeezing ==
  /\ n <= Len(bytePoints) /\ Points(bytePoints, part.from, part.to)
  /\ Chain(lz77, part.from, BlockStart(bytePoints, part.from))
  /\ Len(points) = n /\ Increasing(points)
  /\ n > 0 => points[n] = Len(lz77)
  /\ \A k \in 1 .. n :
       /\ 0 < points[k] /\ points[k] <= Len(lz77)
       /\ points[k] < Len(lz77) => lz77[points[k] + 1].pos = bytePoints[k]

(* Afterwards the symbols are those of the part, cut into blocks.            *)
Squeezed ==
  /\ Chain(lz77, part.from, part.to) /\ Points(points, 0, Len(lz77))
  /\ n <= Len(points)
CarriedOver ==
  /\ n = 0 /\ Len(points) = Len(bytePoints)
  /\ \A k \in 1 .. Len(points) : lz77[points[k] + 1].pos = bytePoints[k]

(* Where block m of the part begins, and where it ends.                      *)
BeginOf(m) == IF m = 0 THEN part.from ELSE lz77[points[m] + 1].pos
EndOf(m) == IF m = Len(points) THEN part.to ELSE lz77[points[m + 1] + 1].pos

StoreInv ==
  /\ phase \in {"part", "end"} => n <= Len(points) + 1
  /\ phase \in {"split", "fixed"} => n = 0 /\ points = << >> /\ lz77 = << >>
  /\ phase = "squeeze" => Squeezing
  /\ phase = "again" => CarriedOver
  /\ phase \in {"again", "emit"} => Squeezed
  /\ phase = "stored" =>
       /\ mode.btype = 0 => n = 0 /\ points = << >>
       /\ mode.btype # 0 => Squeezed /\ Len(lz77) > 0
       /\ stored.pos <= stored.end /\ stored.end = EndOf(n)
       /\ stored.pos = stored.from \/ stored.pos < stored.end
       /\ stored.final <=> LastBlock /\ part.final

(* The latest block ends where the next is to begin.                         *)
LastInv ==
  /\ last.from <= last.to /\ last.to <= i
  /\ phase # "end" => ~ last.final
  /\ phase = "part" => last.to = i
  /\ phase \in {"split", "squeeze", "again", "fixed"} => last.to = part.from
  /\ phase = "emit" => last.to = BeginOf(n)
  /\ phase = "stored" => last.to = stored.pos
  /\ phase = "end" => last.to = i /\ (last.final <=> final)

IInv == Types /\ PositionsAgree /\ PartInv /\ StoreInv /\ LastInv

StreamStep == UNCHANGED <<insize, final>> /\ (last' = last \/ Stream!AddBlock)

-----------------------------------------------------------------------------
(* The blocks that the symbols of a part are cut into.                       *)
LEMMA BlockOfSymbols ==
  ASSUME Types, Squeezed, Len(lz77) > 0
  PROVE  /\ LStart # LEnd
         /\ RangeFrom(LStart, LEnd) = BeginOf(n) /\ RangeFrom(LStart, LEnd) \in Nat
         /\ RangeTo(LStart, LEnd) = EndOf(n) /\ RangeTo(LStart, LEnd) \in Nat
         /\ RangeFrom(LStart, LEnd) <= RangeTo(LStart, LEnd)
         /\ RangeTo(LStart, LEnd) <= part.to
         /\ n < Len(points) => EndOf(n) = BeginOf(n + 1)
<1>1. /\ n \in 0 .. Len(points) /\ Len(points) \in Nat /\ Len(lz77) \in Nat
      /\ \A k \in 1 .. Len(points) : points[k] \in Nat
      /\ part.from \in Nat /\ part.to \in Nat
  BY DEF Types, Squeezed
<1>2. \A k \in 1 .. Len(lz77) : lz77[k].pos \in Nat /\ lz77[k].len \in Nat
  <2>1. \A k \in 1 .. Len(lz77) : lz77[k] \in Symbol
    BY DEF Types
  <2> QED BY <2>1 DEF Symbol
<1>3. LStart = IF n = 0 THEN 0 ELSE points[n]
  BY DEF LStart, BlockStart
<1>4. LEnd = IF n = Len(points) THEN Len(lz77) ELSE points[n + 1]
  BY DEF LEnd, BlockEnd
<1>5. LStart \in Nat /\ LEnd \in 1 .. Len(lz77) /\ LStart < LEnd
  <2>1. \A k \in 1 .. Len(points) : 0 < points[k] /\ points[k] < Len(lz77)
    BY DEF Squeezed, Points
  <2>2. n # 0 /\ n # Len(points) => points[n] < points[n + 1]
    <3> SUFFICES ASSUME n # 0, n # Len(points) PROVE points[n] < points[n + 1]
      OBVIOUS
    <3>1. n \in 1 .. Len(points) /\ n + 1 \in 1 .. Len(points) /\ n < n + 1
      BY <1>1
    <3> QED BY <3>1 DEF Squeezed, Points, Increasing
  <2>3. CASE n = 0
    BY <2>3, <2>1, <1>1, <1>3, <1>4
  <2>4. CASE n # 0 /\ n = Len(points)
    BY <2>4, <2>1, <1>1, <1>3, <1>4
  <2>5. CASE n # 0 /\ n # Len(points)
    <3>1. n \in 1 .. Len(points) /\ n + 1 \in 1 .. Len(points)
      BY <2>5, <1>1
    <3> QED BY <3>1, <2>5, <2>1, <2>2, <1>1, <1>3, <1>4
  <2> QED BY <2>3, <2>4, <2>5
<1>6. /\ RangeFrom(LStart, LEnd) = lz77[LStart + 1].pos
      /\ RangeTo(LStart, LEnd) = lz77[LEnd].pos + lz77[LEnd].len
  BY <1>5 DEF RangeFrom, RangeTo
<1>7. LStart + 1 \in 1 .. Len(lz77)
  BY <1>5, <1>1
<1>8. lz77[LStart + 1].pos = BeginOf(n)
  <2>1. CASE n = 0
    <3>1. lz77[1].pos = part.from
      BY DEF Squeezed, Chain
    <3> QED BY <2>1, <3>1, <1>3 DEF BeginOf
  <2>2. CASE n # 0
    BY <2>2, <1>3 DEF BeginOf
  <2> QED BY <2>1, <2>2
<1>9. lz77[LEnd].pos + lz77[LEnd].len = EndOf(n)
  <2>1. CASE n = Len(points)
    <3>1. lz77[Len(lz77)].pos + lz77[Len(lz77)].len = part.to
      BY DEF Squeezed, Chain
    <3> QED BY <2>1, <3>1, <1>4 DEF EndOf
  <2>2. CASE n # Len(points)
    <3>1. n + 1 \in 1 .. Len(points) /\ LEnd = points[n + 1]
      BY <2>2, <1>1, <1>4
    <3>2. LEnd \in 1 .. Len(lz77) - 1
      BY <3>1, <1>1 DEF Squeezed, Points
    <3>3. lz77[LEnd].pos + lz77[LEnd].len = lz77[LEnd + 1].pos
      BY <3>2 DEF Squeezed, Chain
    <3> QED BY <2>2, <3>1, <3>3 DEF EndOf
  <2> QED BY <2>1, <2>2
<1>10. lz77[LStart + 1].pos <= lz77[LEnd].pos + lz77[LEnd].len
  <2>1. CASE LStart + 1 = LEnd
    BY <2>1, <1>5, <1>2
  <2>2. CASE LStart + 1 # LEnd
    <3>1. LStart + 1 < LEnd
      BY <2>2, <1>5
    <3>2. lz77[LStart + 1].pos + lz77[LStart + 1].len <= lz77[LEnd].pos
      BY <3>1, <1>5, <1>7 DEF Squeezed, Chain
    <3>3. /\ lz77[LStart + 1].pos \in Nat /\ lz77[LStart + 1].len \in Nat
          /\ lz77[LEnd].pos \in Nat /\ lz77[LEnd].len \in Nat
      BY <1>2, <1>5, <1>7
    <3> QED BY <3>2, <3>3
  <2> QED BY <2>1, <2>2
<1>11. lz77[LEnd].pos + lz77[LEnd].len <= part.to
  BY <1>5 DEF Squeezed, Chain
<1>12. ASSUME n < Len(points) PROVE EndOf(n) = BeginOf(n + 1)
  <2>1. n # Len(points) /\ n + 1 # 0
    BY <1>12, <1>1
  <2> QED BY <2>1 DEF EndOf, BeginOf
<1>13. lz77[LStart + 1].pos \in Nat /\ lz77[LEnd].pos + lz77[LEnd].len \in Nat
  <2>1. lz77[LStart + 1].pos \in Nat /\ lz77[LEnd].pos \in Nat /\ lz77[LEnd].len \in Nat
    BY <1>2, <1>5, <1>7
  <2> QED BY <2>1
<1>14. LStart # LEnd
  BY <1>5, <1>1
<1> QED BY <1>6, <1>8, <1>9, <1>10, <1>11, <1>12, <1>13, <1>14

(* A part without symbols has no bytes, and is one block.                    *)
LEMMA BlockOfNoSymbols ==
  ASSUME Types, Squeezed, Len(lz77) = 0
  PROVE  /\ part.from = part.to /\ Len(points) = 0 /\ n = 0 /\ LastBlock
         /\ LStart = LEnd
<1>1. /\ n \in 0 .. Len(points) /\ Len(points) \in Nat
      /\ \A k \in 1 .. Len(points) : points[k] \in Nat
  BY DEF Types, Squeezed
<1>2. Len(points) = 0
  <2>1. \A k \in 1 .. Len(points) : 0 < points[k] /\ points[k] < 0
    BY DEF Squeezed, Points
  <2> SUFFICES ASSUME Len(points) # 0 PROVE FALSE
    OBVIOUS
  <2>2. 1 \in 1 .. Len(points)
    BY <1>1
  <2> QED BY <2>1, <2>2, <1>1
<1>3. part.from = part.to
  BY DEF Squeezed, Chain
<1>4. n = 0 /\ LastBlock
  BY <1>1, <1>2 DEF LastBlock
<1> QED BY <1>2, <1>3, <1>4 DEF LStart, LEnd, BlockStart, BlockEnd

-----------------------------------------------------------------------------
(* Every step keeps the invariant, and is a step of BlockStream or none.     *)

LEMMA StartPartStep ==
  ASSUME IInv, StartPart
  PROVE  IInv' /\ StreamStep
<1> DEFINE to == IF MasterFinal THEN insize ELSE i + MasterSize
<1> USE DEF IInv
<1>1. /\ insize \in Nat /\ final \in BOOLEAN /\ i \in 0 .. insize /\ MasterSize \in Nat
      /\ mode \in [btype : 0 .. 2, splitting : BOOLEAN]
  BY StreamAssumption DEF Types
<1>2. to \in Nat /\ i <= to /\ to <= insize /\ (MasterFinal <=> to = insize)
  BY <1>1 DEF MasterFinal
<1>3. MasterFinal \in BOOLEAN /\ (final /\ MasterFinal) \in BOOLEAN
  BY DEF MasterFinal
<1> HIDE DEF to
<1>4. /\ part' = [from |-> i, to |-> to, final |-> final /\ MasterFinal] /\ i' = to
      /\ lz77' = << >> /\ points' = << >> /\ bytePoints' = << >> /\ n' = 0
      /\ UNCHANGED <<insize, final, mode, buf, read, last>>
      /\ phase = "part"
  BY DEF StartPart, to, call
<1>5. /\ phase' \in {"stored", "fixed", "split", "squeeze"}
      /\ phase' = "stored" <=> mode.btype = 0
      /\ phase' \in {"split", "squeeze"} => mode.btype = 2
      /\ phase' = "stored" => mode.btype # 1
  BY <1>1 DEF StartPart
<1>6. /\ mode.btype = 0 => stored' = [from |-> i, pos |-> i, end |-> to,
                                      final |-> final /\ MasterFinal, at |-> BitPos(buf)]
      /\ mode.btype # 0 => stored' = stored
  BY DEF StartPart, StartStored, to
<1>7. BitPos(buf) \in Int
  BY DEF Types, PositionsAgree
<1>8. /\ stored' \in [from : Nat, pos : Nat, end : Nat, final : BOOLEAN, at : Int]
      /\ stored'.pos <= stored'.end /\ stored'.end <= insize
  <2>1. CASE mode.btype = 0
    BY <2>1, <1>1, <1>2, <1>3, <1>6, <1>7
  <2>2. CASE mode.btype # 0
    BY <2>2, <1>6 DEF Types
  <2> QED BY <2>1, <2>2
<1>9. part' \in [from : Nat, to : Nat, final : BOOLEAN]
  BY <1>1, <1>2, <1>3, <1>4
<1>10. Types'
  BY <1>1, <1>2, <1>4, <1>5, <1>8, <1>9 DEF Types
<1>11. PositionsAgree'
  BY <1>4 DEF PositionsAgree
<1>12. PartInv'
  <2>1. part'.from <= part'.to /\ part'.to = i' /\ (part'.final <=> final /\ part'.to = insize)
    BY <1>1, <1>2, <1>3, <1>4
  <2> QED BY <2>1, <1>4, <1>5 DEF PartInv
<1>13. StoreInv'
  <2>1. CASE phase' = "squeeze"
    <3>1. Points(<< >>, part'.from, part'.to)
      BY DEF Points, Increasing
    <3>2. Chain(<< >>, part'.from, part'.from)
      BY DEF Chain
    <3>3. BlockStart(bytePoints, part.from)' = part'.from
      BY <1>4 DEF BlockStart
    <3>4. Squeezing'
      BY <3>1, <3>2, <3>3, <1>4 DEF Squeezing, Increasing
    <3> QED BY <2>1, <3>4 DEF StoreInv
  <2>2. CASE phase' = "stored"
    <3>1. mode'.btype = 0 /\ n' = 0 /\ points' = << >> /\ Len(points') = 0
      BY <2>2, <1>4, <1>5
    <3>2. stored'.pos <= stored'.end /\ stored'.end = part'.to /\ stored'.pos = stored'.from
      BY <3>1, <1>1, <1>2, <1>4, <1>6
    <3>3. EndOf(n)' = part'.to /\ LastBlock'
      BY <3>1 DEF EndOf, LastBlock
    <3>4. stored'.final <=> part'.final
      BY <3>1, <1>4, <1>6
    <3> QED BY <2>2, <3>1, <3>2, <3>3, <3>4 DEF StoreInv
  <2>3. CASE phase' \in {"split", "fixed"}
    BY <2>3, <1>4 DEF StoreInv
  <2> QED BY <2>1, <2>2, <2>3, <1>5
<1>14. LastInv'
  <2>1. last.from <= last.to /\ last.to = i /\ ~ last.final
    BY <1>4 DEF LastInv
  <2>2. last.from \in Nat /\ last.to \in Nat
    BY DEF Types
  <2>3. phase' = "stored" => stored'.pos = i
    BY <1>5, <1>6
  <2>4. last'.from <= last'.to /\ last'.to <= i'
    BY <2>1, <1>4, <1>2
  <2> QED BY <2>1, <2>3, <2>4, <1>4, <1>5 DEF LastInv
<1>15. StreamStep
  BY <1>4 DEF StreamStep
<1> QED BY <1>10, <1>11, <1>12, <1>13, <1>14, <1>15

LEMMA SplitStep ==
  ASSUME IInv, Split
  PROVE  IInv' /\ StreamStep
<1> USE DEF IInv
<1>1. /\ phase = "split" /\ phase' = "squeeze"
      /\ UNCHANGED <<insize, final, mode, i, part, lz77, points, n, stored, buf, read, last>>
  BY DEF Split, call
<1>2. /\ part.from \in Nat /\ part.to \in Nat /\ part.from <= part.to
      /\ n = 0 /\ points = << >> /\ lz77 = << >>
  BY <1>1 DEF Types, PartInv, StoreInv
<1>3. Points(bytePoints', part.from, part.to)
  <2>1. PICK cuts \in PointsBetween(part.from, part.to) :
          LET store == ParseOf(part.from, part.to, cuts)
          IN  \E p \in SplitPoints(0, Len(store)) :
                bytePoints' = [k \in DOMAIN p |-> store[p[k] + 1].pos]
    BY DEF Split
  <2> DEFINE store == ParseOf(part.from, part.to, cuts)
  <2>2. Chain(store, part.from, part.to)
    BY <1>2, ParseChain
  <2> HIDE DEF store
  <2>3. PICK p \in SplitPoints(0, Len(store)) :
          bytePoints' = [k \in DOMAIN p |-> store[p[k] + 1].pos]
    BY <2>1 DEF store
  <2>4. Len(store) \in Nat /\ store \in Seq(Symbol)
    BY <2>2 DEF Chain
  <2>5. Points(p, 0, Len(store))
    BY <2>4, PointsBetweenIn DEF SplitPoints
  <2>6. /\ p \in Seq(Nat) /\ DOMAIN p = 1 .. Len(p) /\ Len(p) \in Nat
        /\ \A k \in 1 .. Len(p) : p[k] \in 1 .. Len(store) /\ p[k] + 1 \in 1 .. Len(store)
    BY <2>4, <2>5 DEF Points
  <2>7. ASSUME NEW k \in 1 .. Len(p)
        PROVE  /\ store[p[k] + 1].pos \in Nat
               /\ part.from < store[p[k] + 1].pos /\ store[p[k] + 1].pos < part.to
    <3>1. p[k] + 1 \in 1 .. Len(store) /\ 1 \in 1 .. Len(store) /\ 1 < p[k] + 1
      BY <2>4, <2>6
    <3>2. store[p[k] + 1] \in Symbol /\ store[1] \in Symbol
      BY <3>1, <2>4
    <3>3. /\ store[1].pos = part.from
          /\ store[1].pos + store[1].len <= store[p[k] + 1].pos
          /\ store[p[k] + 1].pos + store[p[k] + 1].len <= part.to
      BY <3>1, <2>2 DEF Chain
    <3>4. /\ store[1].pos \in Nat /\ store[1].len \in Nat \ {0}
          /\ store[p[k] + 1].pos \in Nat /\ store[p[k] + 1].len \in Nat \ {0}
      BY <3>2 DEF Symbol
    <3> QED BY <3>3, <3>4, <1>2
  <2>8. ASSUME NEW a \in 1 .. Len(p), NEW b \in 1 .. Len(p), a < b
        PROVE  store[p[a] + 1].pos < store[p[b] + 1].pos
    <3>1. p[a] < p[b]
      BY <2>5, <2>8 DEF Points, Increasing
    <3>2. p[a] + 1 \in 1 .. Len(store) /\ p[b] + 1 \in 1 .. Len(store) /\ p[a] + 1 < p[b] + 1
      BY <3>1, <2>6, <2>4
    <3>3. store[p[a] + 1] \in Symbol
      BY <3>2, <2>4
    <3>4. store[p[a] + 1].pos + store[p[a] + 1].len <= store[p[b] + 1].pos
      BY <3>2, <2>2 DEF Chain
    <3>5. store[p[a] + 1].pos \in Nat /\ store[p[a] + 1].len \in Nat \ {0}
      BY <3>3 DEF Symbol
    <3> QED BY <3>4, <3>5, <2>7
  <2>9. bytePoints' = [k \in 1 .. Len(p) |-> store[p[k] + 1].pos]
    BY <2>3, <2>6
  <2>10. bytePoints' \in [1 .. Len(p) -> Nat]
    BY <2>7, <2>9
  <2>11. bytePoints' \in Seq(Nat) /\ Len(bytePoints') = Len(p)
    BY <2>6, <2>10, FunctionIsSequence
  <2> QED BY <2>7, <2>8, <2>9, <2>11 DEF Points, Increasing
<1>4. Types'
  BY <1>1, <1>3 DEF Types, Points
<1>5. PositionsAgree' /\ PartInv'
  BY <1>1 DEF PositionsAgree, PartInv
<1>6. Squeezing'
  <2>1. Chain(<< >>, part.from, part.from)
    BY DEF Chain
  <2>2. BlockStart(bytePoints, part.from)' = part.from
    BY <1>1, <1>2 DEF BlockStart
  <2>3. Len(bytePoints') \in Nat
    BY <1>3 DEF Points
  <2> QED BY <1>1, <1>2, <1>3, <2>1, <2>2, <2>3 DEF Squeezing, Increasing
<1>7. StoreInv'
  BY <1>1, <1>6 DEF StoreInv
<1>8. LastInv'
  BY <1>1 DEF LastInv
<1>9. StreamStep
  BY <1>1 DEF StreamStep
<1> QED BY <1>4, <1>5, <1>7, <1>8, <1>9

LEMMA SqueezeStep ==
  ASSUME IInv, SqueezeBlock
  PROVE  IInv' /\ StreamStep
<1> DEFINE from == BlockStart(bytePoints, part.from)
           to == BlockEnd(bytePoints, part.to)
           more == n < Len(bytePoints)
<1> USE DEF IInv
<1>1. /\ phase = "squeeze" /\ mode.btype = 2 /\ Squeezing
      /\ UNCHANGED <<insize, final, mode, i, part, bytePoints, stored, buf, read, last>>
  BY DEF SqueezeBlock, call, PartInv, StoreInv
<1>2. /\ part.from \in Nat /\ part.to \in Nat /\ part.from <= part.to
      /\ Len(bytePoints) \in Nat /\ n \in 0 .. Len(bytePoints) /\ Len(lz77) \in Nat
      /\ Points(bytePoints, part.from, part.to) /\ points \in Seq(Nat) /\ Len(points) = n
      /\ \A k \in 1 .. n : points[k] \in Nat /\ 0 < points[k] /\ points[k] <= Len(lz77)
  <2>1. /\ part.from \in Nat /\ part.to \in Nat /\ n \in Nat /\ points \in Seq(Nat)
        /\ Len(bytePoints) \in Nat /\ Len(lz77) \in Nat
    BY DEF Types
  <2>2. /\ n <= Len(bytePoints) /\ Points(bytePoints, part.from, part.to) /\ Len(points) = n
        /\ \A k \in 1 .. n : 0 < points[k] /\ points[k] <= Len(lz77)
    BY <1>1 DEF Squeezing
  <2>3. part.from <= part.to
    BY DEF PartInv
  <2> QED BY <2>1, <2>2, <2>3
<1>3. \A k \in 1 .. Len(bytePoints) :
        bytePoints[k] \in Nat /\ part.from < bytePoints[k] /\ bytePoints[k] < part.to
  BY <1>2 DEF Points
<1>4. /\ from \in Nat /\ to \in Nat
      /\ part.from <= from /\ from <= to /\ to <= part.to
      /\ n > 0 => from = bytePoints[n] /\ from < to
      /\ more => to = bytePoints[n + 1] /\ from < to
      /\ ~ more => to = part.to
  <2>1. CASE n = 0
    <3>1. from = part.from
      BY <2>1 DEF BlockStart
    <3>2. CASE more
      <4>1. to = bytePoints[n + 1] /\ n + 1 \in 1 .. Len(bytePoints)
        BY <3>2, <2>1, <1>2 DEF BlockEnd
      <4> QED BY <3>1, <3>2, <4>1, <2>1, <1>2, <1>3
    <3>3. CASE ~ more
      <4>1. to = part.to
        BY <3>3, <1>2 DEF BlockEnd
      <4> QED BY <3>1, <3>3, <4>1, <2>1, <1>2
    <3> QED BY <3>2, <3>3
  <2>2. CASE n > 0
    <3>1. from = bytePoints[n] /\ n \in 1 .. Len(bytePoints)
      BY <2>2, <1>2 DEF BlockStart
    <3>2. CASE more
      <4>1. to = bytePoints[n + 1] /\ n + 1 \in 1 .. Len(bytePoints) /\ n < n + 1
        BY <3>2, <1>2 DEF BlockEnd
      <4>2. bytePoints[n] < bytePoints[n + 1]
        BY <3>1, <4>1, <1>2 DEF Points, Increasing
      <4> QED BY <3>1, <3>2, <4>1, <4>2, <1>2, <1>3
    <3>3. CASE ~ more
      <4>1. to = part.to
        BY <3>3, <1>2 DEF BlockEnd
      <4> QED BY <3>1, <3>3, <4>1, <2>2, <1>2, <1>3
    <3> QED BY <3>2, <3>3
  <2> QED BY <2>1, <2>2, <1>2
<1>5. Chain(lz77, part.from, from)
  BY <1>1 DEF Squeezing
<1>6. PICK cuts \in PointsBetween(from, to) : lz77' = lz77 \o ParseOf(from, to, cuts)
  BY DEF SqueezeBlock
<1>7. /\ points' = IF more THEN Append(points, Len(lz77')) ELSE points
      /\ n' = IF more THEN n + 1 ELSE 0
      /\ phase' = IF more THEN "squeeze"
                  ELSE IF mode.splitting /\ Len(bytePoints) > 1 THEN "again" ELSE "emit"
  BY DEF SqueezeBlock, WithPoint
<1> DEFINE t == ParseOf(from, to, cuts)
<1> HIDE DEF from, to
<1>8. Chain(t, from, to) /\ (from < to => Len(t) > 0)
  BY <1>4, ParseChain
<1> HIDE DEF t
<1>9. /\ Chain(lz77', part.from, to) /\ Len(lz77') = Len(lz77) + Len(t)
      /\ \A k \in 1 .. Len(lz77) : lz77'[k] = lz77[k]
      /\ Len(t) > 0 => lz77'[Len(lz77) + 1].pos = from
  <2>1. lz77' = lz77 \o t
    BY <1>6 DEF t
  <2>2. /\ Chain(lz77 \o t, part.from, to) /\ Len(lz77 \o t) = Len(lz77) + Len(t)
        /\ \A k \in 1 .. Len(lz77) : (lz77 \o t)[k] = lz77[k]
        /\ Len(t) > 0 => (lz77 \o t)[Len(lz77) + 1].pos = from
    <3>1. part.from \in Nat /\ from \in Nat /\ to \in Nat /\ part.from <= from /\ from <= to
      BY <1>2, <1>4
    <3>2. Chain(lz77, part.from, from) /\ Chain(t, from, to)
      BY <1>5, <1>8
    <3>3. lz77 \in Seq(Symbol) /\ t \in Seq(Symbol)
      BY <3>2 DEF Chain
    <3> QED BY ONLY <3>1, <3>2, <3>3, ChainJoined
  <2> QED BY <2>1, <2>2
<1>10. Len(t) \in Nat /\ Len(lz77') \in Nat /\ lz77' \in Seq(Symbol)
  BY <1>8, <1>9 DEF Chain
<1>11. (n > 0 \/ more) => Len(t) > 0 /\ Len(lz77') > Len(lz77)
  BY <1>2, <1>4, <1>8, <1>9, <1>10
<1>12. ASSUME NEW k \in 1 .. n
       PROVE  points[k] < Len(lz77') /\ lz77'[points[k] + 1].pos = bytePoints[k]
  <2>1. n > 0 /\ Len(t) > 0 /\ Len(lz77') > Len(lz77) /\ from = bytePoints[n]
    BY <1>2, <1>4, <1>11
  <2>2. points[k] \in Nat /\ points[k] <= Len(lz77)
    BY <1>2
  <2>3. CASE points[k] < Len(lz77)
    <3>1. points[k] + 1 \in 1 .. Len(lz77)
      BY <2>2, <2>3, <1>2
    <3>2. lz77[points[k] + 1].pos = bytePoints[k]
      BY <2>3, <1>1 DEF Squeezing
    <3> QED BY <3>1, <3>2, <2>1, <2>2, <2>3, <1>2, <1>9, <1>10
  <2>4. CASE points[k] = Len(lz77)
    <3>1. k = n
      <4> SUFFICES ASSUME k # n PROVE FALSE
        OBVIOUS
      <4>1. k < n /\ n \in 1 .. n
        BY <1>2
      <4>2. points[k] < points[n] /\ points[n] = Len(lz77)
        BY <4>1, <1>1, <1>2, <2>1 DEF Squeezing, Increasing
      <4> QED BY <4>2, <2>4, <1>2
    <3> QED BY <3>1, <2>1, <2>4, <1>9
  <2> QED BY <2>2, <2>3, <2>4, <1>2
<1>13. CASE more
  <2>1. /\ points' = Append(points, Len(lz77')) /\ n' = n + 1 /\ phase' = "squeeze"
        /\ n + 1 \in 1 .. Len(bytePoints)
    BY <1>13, <1>7, <1>2
  <2>2. /\ points' \in Seq(Nat) /\ Len(points') = n + 1
        /\ \A k \in 1 .. n : points'[k] = points[k]
        /\ points'[n + 1] = Len(lz77')
    BY <2>1, <1>2, <1>10
  <2>3. Increasing(points')
    <3> SUFFICES ASSUME NEW a \in 1 .. Len(points'), NEW b \in 1 .. Len(points'), a < b
                 PROVE  points'[a] < points'[b]
      BY DEF Increasing
    <3>1. a \in 1 .. n
      BY <2>2, <1>2
    <3>2. CASE b = n + 1
      BY <3>1, <3>2, <2>2, <1>12
    <3>3. CASE b # n + 1
      <4>1. b \in 1 .. n
        BY <3>3, <2>2, <1>2
      <4> QED BY <3>1, <4>1, <2>2, <1>1, <1>2 DEF Squeezing, Increasing
    <3> QED BY <3>2, <3>3
  <2>4. ASSUME NEW k \in 1 .. n + 1
        PROVE  /\ 0 < points'[k] /\ points'[k] <= Len(lz77')
               /\ points'[k] < Len(lz77') => lz77'[points'[k] + 1].pos = bytePoints[k]
    <3>1. CASE k = n + 1
      BY <3>1, <2>2, <1>2, <1>10, <1>11, <1>13
    <3>2. CASE k # n + 1
      <4>1. k \in 1 .. n
        BY <3>2, <1>2
      <4>2. points'[k] = points[k] /\ points[k] \in Nat /\ 0 < points[k]
        BY <4>1, <2>2, <1>2
      <4>3. points[k] < Len(lz77') /\ lz77'[points[k] + 1].pos = bytePoints[k]
        BY <4>1, <1>12
      <4> QED BY <4>2, <4>3, <1>10
    <3> QED BY <3>1, <3>2
  <2>5. BlockStart(bytePoints, part.from)' = to
    BY <2>1, <1>1, <1>2, <1>4, <1>13 DEF BlockStart
  <2>6. Squeezing'
    <3>1. n' <= Len(bytePoints') /\ Points(bytePoints', part'.from, part'.to)
      BY <2>1, <1>1, <1>2
    <3>2. Chain(lz77', part'.from, BlockStart(bytePoints, part.from)')
      BY <2>5, <1>1, <1>9
    <3> QED BY <3>1, <3>2, <2>1, <2>2, <2>3, <2>4, <1>1 DEF Squeezing
  <2>7. Types'
    BY <2>1, <2>2, <1>1, <1>2, <1>10 DEF Types
  <2>8. PartInv' /\ PositionsAgree' /\ LastInv'
    BY <2>1, <1>1 DEF PartInv, PositionsAgree, LastInv
  <2>9. StoreInv'
    BY <2>1, <2>6 DEF StoreInv
  <2> QED BY <2>7, <2>8, <2>9, <1>1 DEF StreamStep
<1>14. CASE ~ more
  <2>1. points' = points /\ n' = 0 /\ phase' \in {"again", "emit"} /\ n = Len(bytePoints)
    BY <1>14, <1>7, <1>2
  <2>2. Squeezed'
    <3>1. Chain(lz77', part'.from, part'.to)
      BY <1>1, <1>4, <1>9, <1>14
    <3>2. Points(points', 0, Len(lz77'))
      BY <2>1, <1>1, <1>2, <1>12 DEF Points, Squeezing
    <3> QED BY <3>1, <3>2, <2>1, <1>2 DEF Squeezed
  <2>3. CarriedOver'
    BY <2>1, <1>1, <1>2, <1>12 DEF CarriedOver
  <2>4. Types'
    BY <2>1, <1>1, <1>10 DEF Types
  <2>5. PartInv' /\ PositionsAgree'
    BY <2>1, <1>1 DEF PartInv, PositionsAgree
  <2>6. LastInv'
    <3>1. BeginOf(n)' = part.from
      BY <2>1, <1>1 DEF BeginOf
    <3> QED BY <3>1, <2>1, <1>1 DEF LastInv
  <2>7. StoreInv'
    BY <2>1, <2>2, <2>3 DEF StoreInv
  <2> QED BY <2>4, <2>5, <2>6, <2>7, <1>1 DEF StreamStep
<1> QED BY <1>13, <1>14

LEMMA SplitAgainStep ==
  ASSUME IInv, SplitAgain
  PROVE  IInv' /\ StreamStep
<1> USE DEF IInv
<1>1. /\ phase = "again" /\ phase' = "emit" /\ mode.btype = 2 /\ Squeezed /\ n = 0
      /\ UNCHANGED <<insize, final, mode, i, part, bytePoints, lz77, n, stored, buf, read,
                     last>>
  BY DEF SplitAgain, call, PartInv, StoreInv, CarriedOver
<1>2. Len(lz77) \in Nat
  BY DEF Types
<1>3. Points(points', 0, Len(lz77))
  <2>1. CASE points' = points
    BY <2>1, <1>1 DEF Squeezed
  <2>2. CASE points' \in SplitPoints(0, Len(lz77))
    BY <2>2, <1>2, PointsBetweenIn DEF SplitPoints
  <2> QED BY <2>1, <2>2 DEF SplitAgain
<1>4. points' \in Seq(Nat) /\ Len(points') \in Nat
  BY <1>3 DEF Points
<1>5. Squeezed'
  BY <1>1, <1>3, <1>4 DEF Squeezed
<1>6. LastInv'
  <2>1. BeginOf(n)' = part.from
    BY <1>1 DEF BeginOf
  <2> QED BY <2>1, <1>1 DEF LastInv
<1>7. Types'
  BY <1>1, <1>4 DEF Types
<1>8. PartInv' /\ PositionsAgree'
  BY <1>1 DEF PartInv, PositionsAgree
<1>9. StoreInv'
  BY <1>1, <1>5 DEF StoreInv
<1> QED BY <1>1, <1>6, <1>7, <1>8, <1>9 DEF StreamStep

(* A block from where the last one ended, final only at the end of the part. *)
LEMMA BlockAdded ==
  ASSUME IInv, phase \notin {"part", "end"}, UNCHANGED <<insize, final>>,
         NEW to \in Nat, last.to <= to, to <= part.to,
         NEW fin \in BOOLEAN, fin => part.final /\ to = part.to,
         last' = [from |-> last.to, to |-> to, final |-> fin]
  PROVE  /\ StreamStep /\ last' \in [from : Nat, to : Nat, final : BOOLEAN]
         /\ last'.from <= last'.to /\ last'.to = to /\ last'.final = fin
<1> USE DEF IInv
<1>1. /\ insize \in Nat /\ i \in 0 .. insize /\ part.to = i /\ last.to \in Nat
      /\ ~ last.final /\ (part.final <=> final /\ part.to = insize)
  BY DEF Types, PartInv, LastInv
<1>2. to \in last.to .. insize
  BY <1>1
<1>3. fin => final /\ to = insize
  BY <1>1
<1>4. Stream!AddBlock
  BY <1>1, <1>2, <1>3 DEF Stream!AddBlock
<1> QED BY <1>1, <1>4 DEF StreamStep

(* After the last block of a part: the next part, or the end of the stream.  *)
LEMMA PartEnded ==
  ASSUME IInv, phase \notin {"part", "end"},
         UNCHANGED <<insize, final, mode, i, part, points>>,
         phase' = AfterPart, n' \in Nat, n' <= Len(points) + 1,
         last'.from <= last'.to, last'.to = part.to, last'.final <=> part.final
  PROVE  PartInv' /\ StoreInv' /\ LastInv'
<1> USE DEF IInv
<1>1. /\ insize \in Nat /\ i \in 0 .. insize /\ part.to = i
      /\ (part.final <=> final /\ part.to = insize)
  BY DEF Types, PartInv
<1>2. (phase' = "part" /\ i < insize) \/ (phase' = "end" /\ i = insize)
  BY <1>1 DEF AfterPart
<1>3. PartInv'
  BY <1>1, <1>2 DEF PartInv
<1>4. StoreInv'
  BY <1>2 DEF StoreInv
<1>5. LastInv'
  BY <1>1, <1>2 DEF LastInv
<1> QED BY <1>3, <1>4, <1>5

(* After a block of symbols: the next one, or the end of the part.           *)
LEMMA BlockEnded ==
  ASSUME IInv, phase \in {"emit", "stored"}, Squeezed, mode.btype = 2,
         UNCHANGED <<insize, final, mode, i, part, lz77, points>>, NextBlock,
         last'.from <= last'.to, last'.to = EndOf(n),
         last'.final <=> LastBlock /\ part.final
  PROVE  PartInv' /\ StoreInv' /\ LastInv' /\ n' \in Nat
<1> USE DEF IInv
<1>1. /\ Len(points) \in Nat /\ n \in 0 .. Len(points) /\ Len(lz77) \in Nat
      /\ part.to = i /\ part.to \in Nat
  BY DEF Types, Squeezed, PartInv
<1>2. n' = n + 1 /\ n' \in Nat
  BY <1>1 DEF NextBlock
<1>3. CASE LastBlock
  <2>1. phase' = AfterPart /\ last'.to = part.to /\ n' <= Len(points) + 1
    BY <1>1, <1>2, <1>3 DEF NextBlock, LastBlock, EndOf
  <2> QED BY <1>2, <1>3, <2>1, PartEnded
<1>4. CASE ~ LastBlock
  <2>1. phase' = "emit" /\ n < Len(points) /\ n' <= Len(points)
    BY <1>1, <1>2, <1>4 DEF NextBlock, LastBlock
  <2>2. Len(lz77) > 0
    BY <1>1, <1>4, BlockOfNoSymbols
  <2>3. EndOf(n) = BeginOf(n + 1) /\ EndOf(n) <= part.to
    BY <2>1, <2>2, <1>1, BlockOfSymbols
  <2>4. BeginOf(n)' = BeginOf(n + 1)
    BY <1>2 DEF BeginOf
  <2>5. LastInv'
    BY <2>1, <2>3, <2>4, <1>1, <1>4 DEF LastInv
  <2>6. StoreInv'
    BY <2>1 DEF StoreInv, Squeezed
  <2>7. PartInv'
    BY <2>1 DEF PartInv
  <2> QED BY <1>2, <2>5, <2>6, <2>7
<1> QED BY <1>3, <1>4

LEMMA FixedPartStep ==
  ASSUME IInv, FixedPart
  PROVE  IInv' /\ StreamStep
<1> USE DEF IInv
<1>1. /\ phase = "fixed" /\ phase' = AfterPart /\ n = 0 /\ points = << >>
      /\ UNCHANGED <<insize, final, mode, i, part, bytePoints, lz77, points, n, stored>>
  BY DEF FixedPart, call, StoreInv
<1>2. PICK bits \in BodyBits : Compressed(part.from, part.to, part.final, 3 + bits)
  BY DEF FixedPart
<1>3. 3 + bits \in Nat
  BY StreamAssumption
<1>4. /\ buf' \in Buffer /\ BitPos(buf') = BitPos(buf) + (3 + bits) /\ read' = read + (3 + bits)
  BY <1>2, <1>3, BitsAdded DEF Compressed, Types
<1>5. read' \in Nat /\ PositionsAgree'
  BY <1>3, <1>4 DEF Types, PositionsAgree
<1>6. /\ part.from \in Nat /\ part.to \in Nat /\ part.final \in BOOLEAN
      /\ part.from <= part.to /\ last.to = part.from
  BY <1>1 DEF Types, PartInv, LastInv
<1>7. last' = [from |-> last.to, to |-> part.to, final |-> part.final]
  BY <1>2, <1>6 DEF Compressed
<1>8. /\ StreamStep /\ last' \in [from : Nat, to : Nat, final : BOOLEAN]
      /\ last'.from <= last'.to /\ last'.to = part.to /\ last'.final = part.final
  BY <1>1, <1>6, <1>7, BlockAdded
<1>9. n' \in Nat /\ n' <= Len(points) + 1
  BY <1>1
<1>10. PartInv' /\ StoreInv' /\ LastInv'
  BY <1>1, <1>8, <1>9, PartEnded
<1>11. phase' \in {"part", "end"}
  BY <1>1 DEF AfterPart
<1>12. Types'
  BY <1>1, <1>4, <1>5, <1>8, <1>11 DEF Types
<1> QED BY <1>5, <1>8, <1>10, <1>12

(* A block that Compressed writes in the loop over the blocks of a part.     *)
LEMMA BlockWritten ==
  ASSUME IInv, phase = "emit", NextBlock,
         UNCHANGED <<insize, final, mode, i, part, bytePoints, lz77, points, stored>>,
         NEW bits \in Nat,
         Compressed(BeginOf(n), EndOf(n), LastBlock /\ part.final, bits),
         BeginOf(n) <= EndOf(n), EndOf(n) <= part.to, EndOf(n) \in Nat
  PROVE  IInv' /\ StreamStep
<1> USE DEF IInv
<1>1. /\ Squeezed /\ mode.btype = 2 /\ last.to = BeginOf(n) /\ part.final \in BOOLEAN
  BY DEF StoreInv, PartInv, LastInv, Types
<1>2. buf' \in Buffer /\ BitPos(buf') = BitPos(buf) + bits /\ read' = read + bits
  BY BitsAdded DEF Compressed, Types
<1>3. read' \in Nat /\ PositionsAgree'
  BY <1>2 DEF Types, PositionsAgree
<1> DEFINE fin == LastBlock /\ part.final
<1>4. fin \in BOOLEAN /\ (fin => part.final /\ EndOf(n) = part.to)
  BY <1>1 DEF LastBlock, EndOf
<1>5. last' = [from |-> last.to, to |-> EndOf(n), final |-> fin]
  BY <1>1 DEF Compressed
<1> HIDE DEF fin
<1>6. /\ StreamStep /\ last' \in [from : Nat, to : Nat, final : BOOLEAN]
      /\ last'.from <= last'.to /\ last'.to = EndOf(n) /\ last'.final = fin
  BY <1>1, <1>4, <1>5, BlockAdded
<1>7. last'.final <=> LastBlock /\ part.final
  BY <1>6 DEF fin
<1>8. PartInv' /\ StoreInv' /\ LastInv' /\ n' \in Nat
  BY <1>1, <1>6, <1>7, BlockEnded
<1>9. phase' \in {"emit", "part", "end"}
  BY DEF NextBlock, AfterPart
<1>10. Types'
  BY <1>2, <1>3, <1>6, <1>8, <1>9 DEF Types
<1> QED BY <1>3, <1>6, <1>8, <1>10

LEMMA EmptyBlockStep ==
  ASSUME IInv, EmptyBlock
  PROVE  IInv' /\ StreamStep
<1> USE DEF IInv
<1>1. /\ phase = "emit" /\ LStart = LEnd /\ NextBlock
      /\ Compressed(last.to, last.to, LastBlock /\ part.final, 10)
      /\ UNCHANGED <<insize, final, mode, i, part, bytePoints, lz77, points, stored>>
  BY DEF EmptyBlock, call
<1>2. /\ Squeezed /\ Len(lz77) \in Nat /\ last.to = BeginOf(n)
      /\ part.to \in Nat
  BY <1>1 DEF StoreInv, Types, LastInv
<1>3. Len(lz77) = 0
  BY <1>1, <1>2, BlockOfSymbols
<1>4. part.from = part.to /\ Len(points) = 0 /\ n = 0
  BY <1>2, <1>3, BlockOfNoSymbols
<1>5. BeginOf(n) = part.to /\ EndOf(n) = part.to
  BY <1>4 DEF BeginOf, EndOf
<1>6. Compressed(BeginOf(n), EndOf(n), LastBlock /\ part.final, 10)
  BY <1>1, <1>2, <1>5
<1>7. BeginOf(n) <= EndOf(n) /\ EndOf(n) <= part.to /\ EndOf(n) \in Nat
  BY <1>2, <1>5
<1> QED BY <1>1, <1>6, <1>7, BlockWritten

LEMMA CompressedBlockStep ==
  ASSUME IInv, CompressedBlock
  PROVE  IInv' /\ StreamStep
<1> USE DEF IInv
<1>1. /\ phase = "emit" /\ LStart # LEnd /\ NextBlock
      /\ UNCHANGED <<insize, final, mode, i, part, bytePoints, lz77, points, stored>>
  BY DEF CompressedBlock, call
<1>2. PICK body \in BodyBits :
        Compressed(RangeFrom(LStart, LEnd), RangeTo(LStart, LEnd),
                   LastBlock /\ part.final, 3 + body)
  BY DEF CompressedBlock
<1>3. 3 + body \in Nat
  BY StreamAssumption
<1>4. Squeezed /\ Len(lz77) \in Nat
  BY <1>1 DEF StoreInv, Types
<1>5. Len(lz77) > 0
  BY <1>1, <1>4, BlockOfNoSymbols
<1>6. /\ RangeFrom(LStart, LEnd) = BeginOf(n) /\ RangeTo(LStart, LEnd) = EndOf(n)
      /\ BeginOf(n) <= EndOf(n) /\ EndOf(n) <= part.to /\ EndOf(n) \in Nat
  BY <1>4, <1>5, BlockOfSymbols
<1>7. Compressed(BeginOf(n), EndOf(n), LastBlock /\ part.final, 3 + body)
  BY <1>2, <1>6
<1> QED BY <1>1, <1>3, <1>6, <1>7, BlockWritten

LEMMA StoredBlockStep ==
  ASSUME IInv, StoredBlock
  PROVE  IInv' /\ StreamStep
<1> USE DEF IInv
<1>1. /\ phase = "emit" /\ LStart # LEnd /\ phase' = "stored"
      /\ stored' = [from |-> RangeFrom(LStart, LEnd), pos |-> RangeFrom(LStart, LEnd),
                    end |-> RangeTo(LStart, LEnd), final |-> LastBlock /\ part.final,
                    at |-> BitPos(buf)]
      /\ UNCHANGED <<insize, final, mode, i, part, bytePoints, lz77, points, n, buf, read,
                     last>>
  BY DEF StoredBlock, StartStored, call
<1>2. /\ Squeezed /\ Len(lz77) \in Nat /\ mode.btype = 2 /\ last.to = BeginOf(n)
      /\ part.final \in BOOLEAN /\ BitPos(buf) \in Int
  BY <1>1 DEF StoreInv, Types, PartInv, LastInv, PositionsAgree
<1>3. Len(lz77) > 0
  BY <1>1, <1>2, BlockOfNoSymbols
<1>4. /\ RangeFrom(LStart, LEnd) = BeginOf(n) /\ RangeFrom(LStart, LEnd) \in Nat
      /\ RangeTo(LStart, LEnd) = EndOf(n) /\ RangeTo(LStart, LEnd) \in Nat
      /\ BeginOf(n) <= EndOf(n) /\ EndOf(n) <= part.to /\ part.to <= insize
  <2>1. part.to = i /\ i <= insize
    BY DEF Types, PartInv
  <2> QED BY <2>1, <1>2, <1>3, BlockOfSymbols
<1> DEFINE fin == LastBlock /\ part.final
<1>5. fin \in BOOLEAN
  BY <1>2 DEF LastBlock
<1>6. /\ stored'.pos = BeginOf(n) /\ stored'.end = EndOf(n) /\ stored'.pos = stored'.from
      /\ stored'.final <=> LastBlock /\ part.final
  BY <1>1, <1>4
<1>7. stored' \in [from : Nat, pos : Nat, end : Nat, final : BOOLEAN, at : Int]
  BY <1>1, <1>2, <1>4, <1>5
<1>8. Types'
  <2>1. stored'.pos <= stored'.end /\ stored'.end <= insize
    BY <1>4, <1>6 DEF Types
  <2> QED BY <1>1, <1>7, <2>1 DEF Types
<1>9. PartInv' /\ PositionsAgree'
  BY <1>1, <1>2 DEF PartInv, PositionsAgree
<1>10. StoreInv'
  <2>1. /\ Squeezed' /\ EndOf(n)' = EndOf(n) /\ LastBlock' = LastBlock /\ Len(lz77') > 0
    BY <1>1, <1>2, <1>3 DEF Squeezed, EndOf, LastBlock
  <2> QED BY <1>1, <1>2, <1>4, <1>6, <2>1 DEF StoreInv
<1>11. LastInv'
  BY <1>1, <1>2, <1>6 DEF LastInv
<1> QED BY <1>1, <1>8, <1>9, <1>10, <1>11 DEF StreamStep

LEMMA StoredChunkStep ==
  ASSUME IInv, StoredChunk
  PROVE  /\ IInv' /\ StreamStep
         /\ last'.to - last'.from <= MaxStored
         /\ last'.to - last'.from < MaxStored => last'.to = stored.end
         /\ last'.to - last'.from = 0 => stored.from = stored.end
<1> DEFINE to == stored.pos + ChunkSize
<1> USE DEF IInv
<1>1. /\ phase = "stored" /\ mode.btype \in {0, 2} /\ last.to = stored.pos
      /\ UNCHANGED <<insize, final, mode, i, part, bytePoints, lz77, points>>
  BY DEF StoredChunk, call, Types, PartInv, LastInv
<1>2. /\ stored.pos \in Nat /\ stored.end \in Nat /\ stored.pos <= stored.end
      /\ stored.final \in BOOLEAN /\ part.final \in BOOLEAN /\ part.to \in Nat
      /\ n \in Nat /\ Len(lz77) \in Nat /\ MaxStored \in Nat
  BY <1>1, StreamAssumption DEF Types, StoreInv
<1>3. /\ mode.btype = 0 => n = 0 /\ points = << >>
      /\ mode.btype = 2 => Squeezed /\ Len(lz77) > 0
      /\ stored.end = EndOf(n) /\ (stored.final <=> LastBlock /\ part.final)
      /\ stored.pos = stored.from \/ stored.pos < stored.end
  BY <1>1 DEF StoreInv
<1>4. /\ ChunkSize \in Nat /\ ChunkSize <= MaxStored /\ to <= stored.end /\ to \in Nat
      /\ CurrentFinal <=> to = stored.end
  BY <1>2 DEF ChunkSize, CurrentFinal
<1>5. ChunkFinal \in BOOLEAN /\ (ChunkFinal <=> stored.final /\ CurrentFinal)
  BY <1>2 DEF ChunkFinal, CurrentFinal
<1>6. /\ stored.end <= part.to
      /\ LastBlock => stored.end = part.to
      /\ mode.btype = 0 => LastBlock
  <2>1. CASE mode.btype = 0
    BY <2>1, <1>2, <1>3 DEF LastBlock, EndOf
  <2>2. CASE mode.btype = 2
    <3>1. EndOf(n) <= part.to
      BY <2>2, <1>3, BlockOfSymbols
    <3> QED BY <2>2, <3>1, <1>3 DEF LastBlock, EndOf
  <2> QED BY <2>1, <2>2, <1>1
<1>7. /\ buf' = PushBytes(Padded(AddBits(buf, 3)), 4 + ChunkSize)
      /\ read' = (8 * Bytes(read + 3)) + 32 + (8 * ChunkSize)
      /\ last' = [from |-> last.to, to |-> to, final |-> ChunkFinal]
  BY <1>1 DEF StoredChunk
<1>8. buf' \in Buffer /\ PositionsAgree' /\ read' \in Nat
  <2>1. buf \in Buffer /\ BitPos(buf) = read /\ read \in Nat
    BY DEF Types, PositionsAgree
  <2>2. buf' \in Buffer /\ BitPos(buf') = read'
    BY <2>1, <1>4, <1>7, ChunkAdded
  <2>3. Bytes(read + 3) \in Nat
    BY <2>1, BytesOfBits
  <2> QED BY <2>2, <2>3, <1>4, <1>7 DEF PositionsAgree
<1> HIDE DEF to
<1>9. ChunkFinal => part.final /\ to = part.to
  BY <1>3, <1>4, <1>5, <1>6
<1>10. to <= part.to /\ last.to <= to
  <2>1. last.to <= to
    BY <1>1, <1>2, <1>4 DEF to
  <2> QED BY <2>1, <1>2, <1>4, <1>6
<1>11. /\ StreamStep /\ last' \in [from : Nat, to : Nat, final : BOOLEAN]
       /\ last'.from <= last'.to /\ last'.to = to /\ last'.final = ChunkFinal
       /\ last'.from = stored.pos
  BY <1>1, <1>4, <1>5, <1>7, <1>9, <1>10, BlockAdded
<1>12. /\ last'.to - last'.from <= MaxStored
       /\ last'.to - last'.from < MaxStored => last'.to = stored.end
       /\ last'.to - last'.from = 0 => stored.from = stored.end
  <2>1. /\ last'.to - last'.from = ChunkSize
        /\ ChunkSize < MaxStored => last'.to = stored.end
    BY <1>2, <1>4, <1>11 DEF to, ChunkSize
  <2>2. ChunkSize = 0 => stored.pos = stored.end
    BY <1>2, StreamAssumption DEF ChunkSize
  <2> QED  BY <1>2, <1>3, <1>4, <2>1, <2>2
<1>13. CASE CurrentFinal
  <2>1. /\ stored' = NotStored
        /\ mode.btype = 0 => n' = n /\ phase' = AfterPart
        /\ mode.btype = 2 => NextBlock
    BY <1>13, <1>1 DEF StoredChunk
  <2>2. last'.to = EndOf(n) /\ (last'.final <=> LastBlock /\ part.final)
    BY <1>3, <1>4, <1>5, <1>11, <1>13
  <2>3. PartInv' /\ StoreInv' /\ LastInv' /\ n' \in Nat
    <3>1. CASE mode.btype = 0
      <4>1. n' = 0 /\ Len(points) = 0 /\ n' <= Len(points) + 1
        BY <3>1, <2>1, <1>3
      <4>2. last'.to = part.to /\ (last'.final <=> part.final)
        BY <3>1, <2>2, <1>3, <1>6
      <4> QED BY <3>1, <2>1, <4>1, <4>2, <1>1, <1>11, PartEnded
    <3>2. CASE mode.btype = 2
      BY <3>2, <2>1, <2>2, <1>1, <1>3, <1>11, BlockEnded
    <3> QED BY <3>1, <3>2, <1>1
  <2>4. phase' \in {"emit", "part", "end"}
    BY <2>1, <1>1 DEF NextBlock, AfterPart
  <2>5. Types'
    BY <2>1, <2>3, <2>4, <1>1, <1>8, <1>11 DEF Types, NotStored
  <2> QED BY <2>3, <2>5, <1>8, <1>11, <1>12
<1>14. CASE ~ CurrentFinal
  <2>1. stored' = [stored EXCEPT !.pos = to] /\ n' = n /\ phase' = "stored"
    BY <1>14, <1>1 DEF StoredChunk, to
  <2>2. /\ stored'.pos = to /\ stored'.end = stored.end /\ stored'.final = stored.final
        /\ stored' \in [from : Nat, pos : Nat, end : Nat, final : BOOLEAN, at : Int]
        /\ stored'.pos <= stored'.end /\ stored'.end <= insize
    BY <2>1, <1>4 DEF Types
  <2>3. stored'.pos < stored'.end
    BY <2>2, <1>2, <1>4, <1>14
  <2>4. Types'
    BY <2>1, <2>2, <1>1, <1>8, <1>11 DEF Types
  <2>5. PartInv'
    BY <2>1, <1>1 DEF PartInv
  <2>6. StoreInv'
    <3>1. /\ EndOf(n)' = EndOf(n) /\ LastBlock' = LastBlock
          /\ Squeezed => Squeezed'
      BY <2>1, <1>1 DEF EndOf, LastBlock, Squeezed
    <3> QED BY <3>1, <2>1, <2>2, <2>3, <1>1, <1>3, <1>4 DEF StoreInv
  <2>7. LastInv'
    <3>1. to <= i /\ ~ ChunkFinal
      BY <1>5, <1>10, <1>14 DEF PartInv
    <3> QED BY <3>1, <2>1, <2>2, <1>1, <1>11 DEF LastInv
  <2> QED BY <2>4, <2>5, <2>6, <2>7, <1>8, <1>11, <1>12
<1> QED BY <1>13, <1>14

-----------------------------------------------------------------------------
LEMMA Initially == Init => IInv
<1> SUFFICES ASSUME Init PROVE IInv
  OBVIOUS
<1>1. /\ insize \in Nat /\ final \in BOOLEAN /\ mode \in [btype : 0 .. 2, splitting : BOOLEAN]
      /\ i = 0 /\ part = NoPart /\ bytePoints = << >> /\ lz77 = << >> /\ points = << >>
      /\ n = 0 /\ stored = NotStored /\ buf = [size |-> 0, bp |-> 0] /\ read = 0
      /\ last = [from |-> 0, to |-> 0, final |-> FALSE] /\ phase = "part"
  BY StreamAssumption DEF Init
<1>2. Types
  BY <1>1 DEF Types, NoPart, NotStored, Buffer
<1>3. PositionsAgree
  BY <1>1 DEF PositionsAgree, BitPos
<1>4. PartInv /\ StoreInv /\ LastInv
  BY <1>1 DEF PartInv, StoreInv, LastInv, NoPart
<1> QED BY <1>2, <1>3, <1>4 DEF IInv

LEMMA Unchanged ==
  ASSUME IInv, UNCHANGED deflateVars
  PROVE  IInv' /\ StreamStep
<1>1. UNCHANGED <<insize, final, mode, i, part, bytePoints, lz77, points, n, stored, buf,
                  read, last, phase>>
  BY DEF deflateVars, call
<1>2. Types' /\ PositionsAgree' /\ PartInv'
  BY <1>1 DEF IInv, Types, PositionsAgree, PartInv
<1>3. StoreInv' /\ LastInv'
  BY <1>1 DEF IInv, StoreInv, LastInv, Squeezing, Squeezed, CarriedOver, BeginOf, EndOf,
              LastBlock, BlockStart
<1> QED BY <1>1, <1>2, <1>3 DEF IInv, StreamStep

LEMMA EveryStep ==
  ASSUME IInv, [Next]_deflateVars
  PROVE  IInv' /\ StreamStep
<1>1. CASE StartPart
  BY <1>1, StartPartStep
<1>2. CASE Split
  BY <1>2, SplitStep
<1>3. CASE SqueezeBlock
  BY <1>3, SqueezeStep
<1>4. CASE SplitAgain
  BY <1>4, SplitAgainStep
<1>5. CASE FixedPart
  BY <1>5, FixedPartStep
<1>6. CASE EmptyBlock
  BY <1>6, EmptyBlockStep
<1>7. CASE CompressedBlock
  BY <1>7, CompressedBlockStep
<1>8. CASE StoredBlock
  BY <1>8, StoredBlockStep
<1>9. CASE StoredChunk
  BY <1>9, StoredChunkStep
<1>10. CASE UNCHANGED deflateVars
  BY <1>10, Unchanged
<1> QED BY <1>1, <1>2, <1>3, <1>4, <1>5, <1>6, <1>7, <1>8, <1>9, <1>10
       DEF Next, Step, Finished

(* The invariant that the theorems below rest on.                            *)
THEOREM Invariant == Spec => []IInv
<1>1. IInv /\ [Next]_deflateVars => IInv'
  BY EveryStep
<1> QED BY Initially, <1>1, PTL DEF Spec

(* AddBit, AddNonCompressedBlock and the blocks of symbols: for every input, *)
(* split and choice of types, the output is as long as what a reader of its  *)
(* blocks goes through.                                                      *)
THEOREM OutputReadable == Spec => []BitsAgree
<1>1. IInv => BitsAgree
  <2> SUFFICES ASSUME IInv PROVE BitsAgree
    OBVIOUS
  <2>1. /\ i \in 0 .. insize /\ part.from <= part.to /\ part.to <= insize
    BY DEF IInv, Types, PartInv
  <2>2. buf.size \in Nat /\ buf.bp \in 0 .. 7 /\ read \in Nat
    BY DEF IInv, Types, Buffer
  <2>3. n \in 0 .. Len(points) + Len(bytePoints) + 1
    <3>1. n \in Nat /\ Len(points) \in Nat /\ Len(bytePoints) \in Nat
      BY DEF IInv, Types
    <3>2. n <= Len(points) + 1 \/ n <= Len(bytePoints)
      <4>1. CASE phase = "stored" /\ mode.btype = 0
        BY <4>1, <3>1 DEF IInv, StoreInv
      <4>2. CASE phase = "squeeze"
        BY <4>2 DEF IInv, StoreInv, Squeezing
      <4>3. CASE ~ (phase = "stored" /\ mode.btype = 0) /\ phase # "squeeze"
        BY <4>3, <3>1 DEF IInv, Types, StoreInv, Squeezed
      <4> QED BY <4>1, <4>2, <4>3
    <3> QED BY <3>1, <3>2
  <2>4. last.from <= last.to /\ last.to <= insize
    BY DEF IInv, Types, LastInv
  <2>5. stored.pos <= stored.end /\ stored.end <= insize
    BY DEF IInv, Types
  <2> QED BY <2>1, <2>2, <2>3, <2>4, <2>5 DEF BitsAgree, TypeOK, IInv, Types, PositionsAgree
<1> QED BY Invariant, <1>1, PTL

(* ZopfliDeflatePart: the points of the first splitting are at the same      *)
(* bytes of the input when they are carried over to the squeezed symbols.    *)
THEOREM PointsAreCarriedOver == Spec => []PointsCarriedOver
<1>1. IInv => PointsCarriedOver
  <2> SUFFICES ASSUME IInv, phase = "again" PROVE PointsCarriedOver
    BY DEF PointsCarriedOver
  <2>1. CarriedOver /\ points \in Seq(Nat)
    BY DEF IInv, StoreInv, Types
  <2> QED BY <2>1 DEF CarriedOver, PointsCarriedOver
<1> QED BY Invariant, <1>1, PTL

(* AddNonCompressedBlock: no chunk is longer than its length field can say,   *)
(* all but the last of a block are full, and none is empty unless it is the  *)
(* only one of an empty block.                                               *)
THEOREM ChunksAreShort == Spec => ChunksFit
<1>1. IInv /\ [Next]_deflateVars
        => [phase = "stored" =>
              LET size == last'.to - last'.from
              IN  /\ size <= MaxStored
                  /\ size < MaxStored => last'.to = stored.end
                  /\ size = 0 => stored.from = stored.end]_last
  <2> SUFFICES ASSUME IInv, [Next]_deflateVars, phase = "stored", last' # last
               PROVE  /\ last'.to - last'.from <= MaxStored
                      /\ last'.to - last'.from < MaxStored => last'.to = stored.end
                      /\ last'.to - last'.from = 0 => stored.from = stored.end
    OBVIOUS
  <2>1. StoredChunk
    BY DEF Next, Step, Finished, deflateVars, StartPart, Split, SqueezeBlock, SplitAgain,
           FixedPart, EmptyBlock, CompressedBlock, StoredBlock
  <2> QED BY <2>1, StoredChunkStep
<1> QED BY Invariant, <1>1, PTL DEF Spec, ChunksFit

(* The blocks hold the input in order and once, and none follows a final     *)
(* one: deflating implements BlockStream.                                    *)
THEOREM ImplementsBlockStream == Spec => StreamSpec
<1>1. Init => Stream!Init
  BY StreamAssumption DEF Init, Stream!Init
<1>2. IInv /\ [Next]_deflateVars => [Stream!AddBlock]_(Stream!streamVars)
  BY EveryStep DEF StreamStep, Stream!streamVars
<1> QED BY Invariant, <1>1, <1>2, PTL DEF Spec, StreamSpec, Stream!Spec
=============================================================================
