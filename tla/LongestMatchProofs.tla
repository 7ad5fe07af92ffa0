------------------------- MODULE LongestMatchProofs -------------------------
(***************************************************************************)
(* Proofs about the hash chains and the search for the longest match.      *)
(*                                                                         *)
(* The hash (ZopfliHash), for every window size, alphabet, hash function   *)
(* and input length: the tables keep their types, run lengths are exact,   *)
(* and the chains are exact for the hash of three bytes.                   *)
(*                                                                         *)
(* The search: under every caller the hash runs exactly as ZopfliHash      *)
(* specifies, so that all of this holds while it is searched; and from it  *)
(* it follows that the walk over a chain never leaves the window, that     *)
(* what a search returns is the nearest for every length, whether walked   *)
(* for or cached, that the cache keeps to its memory, and that a position  *)
(* answers the same in every pass.                                         *)
(***************************************************************************)
EXTENDS LongestMatch, MatchCacheProofs

(* Positions less than a window apart never share a slot, a whole window    *)
(* apart they always do.                                                    *)
LEMMA SlotType == \A q \in Int : Slot(q) \in Slots
  BY HashAssumption DEF Slot, Slots

(* A remainder is determined by its quotient equation.                      *)
LEMMA QuotientUnique ==
  ASSUME NEW W \in Nat \ {0}, NEW d \in Int, NEW e \in Int,
         NEW r \in 0 .. W - 1, NEW m \in 0 .. W - 1,
         (W * d) + r = (W * e) + m
  PROVE  m = r
<1>1. PICK k \in Int : k = d - e  OBVIOUS
<1>2. W * k = (W * d) - (W * e)  BY <1>1
<1>3. W * d \in Int /\ W * e \in Int  OBVIOUS
<1>4. W * k = m - r  BY <1>2, <1>3
<1>5. CASE k = 0  BY <1>4, <1>5
<1>6. CASE k >= 1
  <2>1. W * k >= W  BY <1>6
  <2> QED  BY <1>4, <2>1
<1>7. CASE k <= -1
  <2>1. W * k <= -W  BY <1>7
  <2> QED  BY <1>4, <2>1
<1> QED  BY <1>5, <1>6, <1>7

LEMMA DivisionOf ==
  ASSUME NEW W \in Nat \ {0}, NEW q \in Int
  PROVE  /\ q \div W \in Int
         /\ q % W \in 0 .. W - 1
         /\ q = (W * (q \div W)) + (q % W)
OBVIOUS

LEMMA RemainderUnique ==
  ASSUME NEW W \in Nat \ {0}, NEW q \in Int, NEW d \in Int,
         NEW r \in 0 .. W - 1, q = (W * d) + r
  PROVE  q % W = r
BY DivisionOf, QuotientUnique

LEMMA SlotWrap ==
  ASSUME NEW q \in Int
  PROVE  Slot(q - WindowSize) = Slot(q)
<1> DEFINE W == WindowSize
<1>1. W \in Nat \ {0}  BY HashAssumption
<1>2. PICK d \in Int : q = (W * d) + (q % W)  BY <1>1, DivisionOf
<1>3. q % W \in 0 .. W - 1  BY <1>1, DivisionOf
<1>4. q - W = (W * (d - 1)) + (q % W)
  <2>1. W * (d - 1) = (W * d) - W /\ W * d \in Int  BY <1>1
  <2> QED  BY <1>1, <1>2, <1>3, <2>1
<1>5. q - W \in Int /\ d - 1 \in Int  BY <1>1
<1>6. (q - W) % W = q % W  BY <1>1, <1>3, <1>4, <1>5, RemainderUnique
<1> QED  BY <1>6 DEF Slot

LEMMA SlotApart ==
  ASSUME NEW p \in Int, NEW q \in Int, p < q, q - p < WindowSize
  PROVE  Slot(p) # Slot(q)
<1> DEFINE W == WindowSize
<1>1. W \in Nat \ {0}  BY HashAssumption
<1>2. p = W * (p \div W) + (p % W) /\ q = W * (q \div W) + (q % W)
  BY <1>1
<1>3. p \div W \in Int /\ q \div W \in Int  BY <1>1
<1>4. SUFFICES ASSUME p % W = q % W PROVE FALSE  BY DEF Slot
<1>5. PICK k \in Int : k = (q \div W) - (p \div W)  BY <1>3
<1>6. q - p = W * k  BY <1>1, <1>2, <1>3, <1>4, <1>5
<1>7. CASE k <= 0  BY <1>1, <1>6, <1>7
<1>8. CASE k >= 1
  <2>1. W * k >= W  BY <1>1, <1>8
  <2> QED  BY <1>1, <1>6, <2>1
<1> QED  BY <1>7, <1>8

-----------------------------------------------------------------------------
(* Entering position n with hash f[n] keeps a table exact.                  *)
LEMMA LinkType ==
  ASSUME NEW c \in ChainType, NEW i \in Slots, NEW v \in HashVals
  PROVE  Link(c, i, v) \in ChainType
BY DEF Link, PrevLink, ChainType

LEMMA LinkKeepsExact ==
  ASSUME NEW s \in Nat, NEW n \in Nat, s <= n, NEW f,
         \A q \in s .. n : f[q] \in HashVals,
         NEW c \in ChainType, ChainExact(c, f, s, n)
  PROVE  ChainExact(Link(c, Slot(n), f[n]), f, s, n + 1)
<1> DEFINE W == WindowSize
           v == f[n]
           h == Slot(n)
           d == Link(c, h, v)
           hv == [c.hashval EXCEPT ![h] = v]
<1>1. W \in Nat \ {0} /\ h \in Slots /\ v \in HashVals
  BY HashAssumption, SlotType
<1>2. \A q \in LiveAt(s, n + 1) : q = n \/ (q \in LiveAt(s, n) /\ Slot(q) \in Slots /\ Slot(q) # h)
  <2> TAKE q \in LiveAt(s, n + 1)
  <2>1. CASE q < n
    <3>1. n - q < W /\ q \in Int /\ q \in LiveAt(s, n)
      BY <1>1, <2>1 DEF LiveAt
    <3>2. Slot(q) # h  BY <2>1, <3>1, SlotApart
    <3> QED  BY <3>1, <3>2, SlotType
  <2> QED  BY <2>1 DEF LiveAt
<1>3. /\ d.hashval = hv
      /\ d.head = [c.head EXCEPT ![v] = h]
      /\ d.prev = [c.prev EXCEPT ![h] =
                     IF c.head[v] # Empty /\ hv[c.head[v]] = v THEN c.head[v] ELSE h]
  BY DEF Link, PrevLink
<1> HIDE DEF d
<1>4. HashvalExact(d, f, s, n + 1)
  <2>1. ASSUME NEW q \in LiveAt(s, n + 1) PROVE d.hashval[Slot(q)] = f[q]
    BY <1>1, <1>2, <1>3, <2>1 DEF ChainExact, HashvalExact, ChainType
  <2>2. ASSUME NEW i \in Slots, \A q \in LiveAt(s, n + 1) : Slot(q) # i
        PROVE  d.hashval[i] = Empty
    <3>1. n \in LiveAt(s, n + 1)  BY <1>1 DEF LiveAt
    <3>2. i # h  BY <2>2, <3>1
    <3>3. ASSUME NEW q \in LiveAt(s, n) PROVE Slot(q) # i
      <4>1. CASE q = n - W  BY <4>1, <3>2, SlotWrap
      <4>2. CASE q # n - W
        <5>1. q \in LiveAt(s, n + 1)  BY <1>1, <4>2 DEF LiveAt
        <5> QED  BY <5>1, <2>2
      <4> QED  BY <4>1, <4>2
    <3>4. c.hashval[i] = Empty  BY <3>3 DEF ChainExact, HashvalExact
    <3> QED  BY <1>1, <1>3, <3>2, <3>4 DEF ChainType
  <2> QED  BY <2>1, <2>2 DEF HashvalExact
<1>5. HeadExact(d, f, s, n + 1)
  <2> SUFFICES ASSUME NEW w \in HashVals
      PROVE  \/ d.head[w] = Empty /\ \A q \in s .. n : f[q] # w
             \/ \E q \in s .. n : /\ f[q] = w /\ d.head[w] = Slot(q)
                                 /\ \A r \in q + 1 .. n : f[r] # w
    BY DEF HeadExact
  <2>1. CASE w = v
    <3>1. d.head[w] = h  BY <1>1, <1>3, <2>1 DEF ChainType
    <3> QED  BY <2>1, <3>1
  <2>2. CASE w # v
    <3>1. d.head[w] = c.head[w]  BY <1>1, <1>3, <2>2 DEF ChainType
    <3>2. CASE c.head[w] = Empty /\ \A q \in s .. n - 1 : f[q] # w
      BY <3>1, <3>2, <2>2
    <3>3. CASE \E q \in s .. n - 1 : /\ f[q] = w /\ c.head[w] = Slot(q)
                                     /\ \A r \in q + 1 .. n - 1 : f[r] # w
      BY <3>1, <3>3, <2>2
    <3> QED  BY <3>2, <3>3 DEF ChainExact, HeadExact
  <2> QED  BY <2>1, <2>2
<1>6. ASSUME NEW q \in LiveAt(s, n + 1) PROVE LinkExact(d, f, s, q)
  <2>1. CASE q # n
    <3>1. d.prev[Slot(q)] = c.prev[Slot(q)]
      BY <1>1, <1>2, <1>3, <2>1 DEF ChainType
    <3>2. LinkExact(c, f, s, q)  BY <1>2, <2>1 DEF ChainExact
    <3> QED  BY <3>1, <3>2 DEF LinkExact
  <2>2. CASE c.head[v] = Empty /\ \A p \in s .. n - 1 : f[p] # v
    <3>1. d.prev[h] = h  BY <1>1, <1>3, <2>2 DEF ChainType
    <3>2. LinkExact(d, f, s, n)  BY <2>2, <3>1 DEF LinkExact
    <3> QED  BY <3>2, <2>1
  <2>3. ASSUME NEW p \in s .. n - 1, f[p] = v, c.head[v] = Slot(p),
               \A r \in p + 1 .. n - 1 : f[r] # v
        PROVE  LinkExact(d, f, s, n)
    <3>0. Slot(p) \in Slots /\ Slot(p) # Empty
      BY SlotType, HashAssumption DEF Slots
    <3>1. CASE n - p < W
      <4>1. p \in LiveAt(s, n) /\ Slot(p) # h
        BY <1>1, <3>1, SlotApart DEF LiveAt
      <4>2. c.hashval[Slot(p)] = v
        BY <4>1, <2>3 DEF ChainExact, HashvalExact
      <4>3. hv[Slot(p)] = v  BY <1>1, <3>0, <4>1, <4>2 DEF ChainType
      <4>4. d.prev[h] = Slot(p)
        BY <1>1, <1>3, <3>0, <4>3, <2>3 DEF ChainType
      <4> QED  BY <2>3, <3>1, <4>4 DEF LinkExact
    <3>2. CASE n - p >= W
      <4>1. d.prev[h] = h
        <5>1. CASE Slot(p) = h  BY <1>1, <1>3, <5>1, <2>3 DEF ChainType
        <5>2. CASE Slot(p) # h
          <6>1. hv[Slot(p)] = c.hashval[Slot(p)]
            BY <1>1, <3>0, <5>2 DEF ChainType
          <6>2. ASSUME NEW r \in LiveAt(s, n), Slot(r) = Slot(p)
                PROVE  c.hashval[Slot(p)] # v
            <7>1. r # p
              <8>1. ASSUME r = p PROVE FALSE
                <9>1. p = n - W  BY <1>1, <3>2, <8>1 DEF LiveAt
                <9> QED  BY <9>1, <5>2, SlotWrap
              <8> QED  BY <8>1
            <7>2. r \in p + 1 .. n - 1  BY <1>1, <3>2, <7>1 DEF LiveAt
            <7>3. f[r] # v  BY <7>2, <2>3
            <7> QED  BY <6>2, <7>3 DEF ChainExact, HashvalExact
          <6>3. ASSUME \A r \in LiveAt(s, n) : Slot(r) # Slot(p)
                PROVE  c.hashval[Slot(p)] # v
            <7>1. c.hashval[Slot(p)] = Empty
              BY <3>0, <6>3 DEF ChainExact, HashvalExact
            <7> QED  BY <7>1, <1>1, HashAssumption
          <6>4. c.hashval[Slot(p)] # v  BY <6>2, <6>3
          <6>5. ~ (c.head[v] # Empty /\ hv[c.head[v]] = v)
            BY <2>3, <6>1, <6>4
          <6> QED  BY <1>1, <1>3, <6>5 DEF ChainType
        <5> QED  BY <5>1, <5>2
      <4>2. \A r \in s .. n - 1 : n - r < W => f[r] # f[n]
        BY <1>1, <3>2, <2>3
      <4> QED  BY <4>1, <4>2 DEF LinkExact
    <3> QED  BY <1>1, <3>1, <3>2
  <2> QED  BY <1>1, <2>1, <2>2, <2>3 DEF ChainExact, HeadExact
<1> QED  BY <1>4, <1>5, <1>6 DEF ChainExact, d

-----------------------------------------------------------------------------
(* Every nonempty set of naturals has a least element.                      *)
LEMMA LeastNat ==
  ASSUME NEW T \in SUBSET Nat, T # {}
  PROVE  \E m \in T : \A n \in T : m <= n
<1> DEFINE R == {nn \in Nat \X Nat : nn[1] < nn[2]}
<1>1. IsWellFoundedOn(R, Nat)
  BY NatLessThanWellFounded DEF OpToRel, IsWellFoundedOn
<1>2. PICK m \in T : \A n \in T : ~ (<<n, m>> \in R)
  BY <1>1, WFMin
<1>3. ASSUME NEW n \in T, n < m PROVE FALSE
  <2>1. <<n, m>> \in Nat \X Nat /\ <<n, m>>[1] < <<n, m>>[2]  BY <1>3
  <2>2. <<n, m>> \in R  BY <2>1
  <2> QED  BY <1>2, <2>2
<1>4. \A n \in T : n \in Nat /\ m \in Nat  OBVIOUS
<1> HIDE DEF R
<1> QED  BY <1>3, <1>4

-----------------------------------------------------------------------------
(* Runs of equal bytes.                                                     *)
LEMMA CountRunExact ==
  ASSUME NEW q \in Nat, end \in Nat, NEW known \in 0 .. SameCap,
         \A k \in 0 .. known - 1 : Repeats(q, k)
  PROVE  /\ CountRun(q, known) \in 0 .. SameCap
         /\ IsRun(q, CountRun(q, known))
<1> DEFINE T == {n \in known .. SameCap : ~ Repeats(q, n)}
           Stop(n) == ~ Repeats(q, n) /\ \A k \in known .. n - 1 : Repeats(q, k)
<1>0. SameCap \in Nat /\ known \in Nat  BY HashAssumption
<1>1. SameCap \in T  BY <1>0 DEF Repeats
<1>2. PICK m \in T : \A n \in T : m <= n
  <2>1. T \in SUBSET Nat /\ T # {}  BY <1>0, <1>1
  <2> HIDE DEF T
  <2> QED  BY <2>1, LeastNat
<1>3. m \in known .. SameCap /\ Stop(m)  BY <1>0, <1>2
<1>4. CountRun(q, known) \in known .. SameCap /\ Stop(CountRun(q, known))
  BY <1>3 DEF CountRun
<1> QED  BY <1>0, <1>4 DEF IsRun

LEMMA RunLengthUnique ==
  ASSUME NEW q \in Nat, NEW n \in 0 .. SameCap, IsRun(q, n)
  PROVE  RunLengthAt(q) = n
<1>1. ASSUME NEW m \in 0 .. SameCap, IsRun(q, m) PROVE m = n
  BY <1>1, HashAssumption DEF IsRun
<1> QED  BY <1>1 DEF RunLengthAt

(* One repetition less is known of the run at the next position.            *)
LEMMA KnownRunSound ==
  ASSUME NEW q \in Nat, end \in Nat, NEW n \in 0 .. SameCap, IsRun(q, n)
  PROVE  /\ KnownRun(n) \in 0 .. SameCap
         /\ \A k \in 0 .. KnownRun(n) - 1 : Repeats(q + 1, k)
<1>0. SameCap \in Nat \ {0}  BY HashAssumption
<1>1. KnownRun(n) \in 0 .. SameCap  BY <1>0 DEF KnownRun
<1>2. ASSUME NEW k \in 0 .. KnownRun(n) - 1 PROVE Repeats(q + 1, k)
  <2>1. n > 1 /\ k + 1 \in 0 .. n - 1 /\ 0 \in 0 .. n - 1
    BY <1>0, <1>2 DEF KnownRun
  <2>2. Repeats(q, k + 1) /\ Repeats(q, 0)  BY <2>1 DEF IsRun
  <2>3. q + 0 + 1 = q + 1 /\ q + (k + 1) + 1 = (q + 1) + k + 1 /\ k < SameCap
    BY <1>0, <2>1
  <2>4. array[q] = array[q + 1] /\ array[q] = array[(q + 1) + k + 1]
        /\ (q + 1) + k + 1 < end
    BY <2>2, <2>3 DEF Repeats
  <2> QED  BY <2>3, <2>4 DEF Repeats
<1> QED  BY <1>1, <1>2

-----------------------------------------------------------------------------
(* What an update finds: an exact run behind it unless the run has just     *)
(* begun, and a rolling hash of the two bytes before the third.             *)
RunBehind ==
  pos = Start => same = [i \in Slots |-> 0]

RollingHash ==
  pos < end =>
    IF end = Start + 1
      THEN val = HashStep(0, array[pos])
      ELSE \E v \in HashVals :
             val = HashStep(HashStep(v, array[pos]), ByteOrZero(pos + 1))

IInv ==
  /\ TypeOK
  /\ RunBehind
  /\ RollingHash
  /\ SameExact
  /\ FirstChainExact
  /\ SecondChainExact

LEMMA StartType ==
  ASSUME NEW i \in 0 .. MaxLen - 1 PROVE WindowStart(i) \in 0 .. i
BY HashAssumption DEF WindowStart

LEMMA ThreeStepsForget ==
  ASSUME NEW v \in HashVals, NEW w \in HashVals,
         NEW a \in Byte, NEW b \in Byte, NEW c \in Byte
  PROVE  HashStep(HashStep(HashStep(v, a), b), c)
           = HashStep(HashStep(HashStep(w, a), b), c)
BY HashForgets

LEMMA EmptyChainType == EmptyChain \in ChainType
BY HashAssumption DEF EmptyChain, ChainType, Slots

LEMMA EmptyChainExact ==
  ASSUME NEW s \in Nat, NEW f PROVE ChainExact(EmptyChain, f, s, s)
<1>1. LiveAt(s, s) = {} /\ s .. s - 1 = {}  BY DEF LiveAt
<1> QED
  BY <1>1 DEF ChainExact, HashvalExact, HeadExact, EmptyChain

(* What is read at and behind a position of the input, 0 past the end.       *)
LEMMA BytesOrZero ==
  ASSUME array \in [0 .. MaxLen - 1 -> Byte], end \in 0 .. MaxLen
  PROVE  \A q \in 0 .. MaxLen - 1 : array[q] \in Byte /\ ByteOrZero(q + 1) \in Byte
                                     /\ ByteOrZero(q + 2) \in Byte
<1> SUFFICES ASSUME NEW q \in 0 .. MaxLen - 1
             PROVE  array[q] \in Byte /\ ByteOrZero(q + 1) \in Byte
                    /\ ByteOrZero(q + 2) \in Byte
  OBVIOUS
<1>1. MaxLen \in Nat /\ 0 \in Byte  BY HashAssumption
<1>2. ASSUME NEW k \in Nat PROVE ByteOrZero(k) \in Byte
  <2>1. CASE k < end  BY <1>1, <2>1 DEF ByteOrZero
  <2>2. CASE ~ (k < end)  BY <1>1, <2>2 DEF ByteOrZero
  <2> QED  BY <2>1, <2>2
<1> QED  BY <1>1, <1>2

(* The state in which every run begins. *)
RunBegun ==
  /\ array \in [0 .. MaxLen - 1 -> Byte]
  /\ instart \in 0 .. MaxLen - 1
  /\ end \in instart + 1 .. MaxLen
  /\ pos = WindowStart(instart)
  /\ val = Warmup(WindowStart(instart), end)
  /\ val2 = 0
  /\ same = [i \in Slots |-> 0]
  /\ chain = EmptyChain
  /\ chain2 = EmptyChain

LEMMA RunBegunIInv == RunBegun => IInv
<1> SUFFICES ASSUME RunBegun PROVE IInv  OBVIOUS
<1> USE HashAssumption, HashClosed DEF RunBegun
<1>1. Start \in 0 .. instart /\ pos = Start /\ end \in Start + 1 .. MaxLen
  BY StartType DEF Start
<1>2. array[Start] \in Byte  BY <1>1
<1>3. HashStep(0, array[Start]) \in HashVals  BY <1>2
<1>4. Start + 1 < end => array[Start + 1] \in Byte  BY <1>1
<1>5. TypeOK
  <2>1. val \in HashVals
    BY <1>1, <1>2, <1>3, <1>4 DEF Warmup, Start
  <2>2. same \in [Slots -> 0 .. SameCap]  OBVIOUS
  <2> QED  BY <1>1, <2>1, <2>2, EmptyChainType DEF TypeOK
<1>6. RollingHash
  <2>1. CASE end = Start + 1
    BY <1>1, <2>1 DEF RollingHash, Warmup, Start
  <2>2. CASE end # Start + 1
    <3>1. val = HashStep(HashStep(0, array[pos]), ByteOrZero(pos + 1))
      BY <1>1, <2>2 DEF Warmup, Start, ByteOrZero
    <3> QED  BY <2>2, <3>1 DEF RollingHash
  <2> QED  BY <2>1, <2>2
<1>7. Live = {}  BY <1>1 DEF Live, LiveAt
<1>8. SameExact  BY <1>7 DEF SameExact
<1>9. FirstChainExact /\ SecondChainExact
  BY <1>1, EmptyChainExact DEF FirstChainExact, SecondChainExact
<1> QED  BY <1>5, <1>6, <1>8, <1>9 DEF IInv, RunBehind

LEMMA UpdateIInv == IInv /\ UpdateHash => IInv'
<1> SUFFICES ASSUME IInv, UpdateHash PROVE IInv'  OBVIOUS
<1> USE HashAssumption, HashClosed
<1> DEFINE hpos == Slot(pos)
           newval == HashStep(val, ThirdByte(pos))
           before == same[Slot(pos - 1)]
           amount == CountRun(pos, KnownRun(before))
           newval2 == HashSame(newval, amount)
<1>1. /\ pos < end
      /\ val' = newval
      /\ chain' = Link(chain, hpos, newval)
      /\ same' = [same EXCEPT ![hpos] = amount]
      /\ val2' = newval2
      /\ chain2' = Link(chain2, hpos, newval2)
      /\ pos' = pos + 1
      /\ UNCHANGED <<array, instart, end>>
  BY DEF UpdateHash
<1> HIDE DEF newval, newval2, amount
<1>2. /\ Start \in Nat /\ Start <= pos /\ pos \in Nat /\ end \in Nat
      /\ end <= MaxLen /\ Start' = Start /\ array[pos] \in Byte
      /\ hpos \in Slots /\ pos \in LiveAt(Start, pos + 1)
  <2>1. Start \in Nat /\ Start' = Start
    BY <1>1, StartType DEF IInv, TypeOK, Start
  <2>2. /\ pos \in Start .. end /\ instart \in Nat /\ end \in Nat
        /\ end <= MaxLen /\ MaxLen \in Nat /\ array \in [0 .. MaxLen - 1 -> Byte]
    BY DEF IInv, TypeOK
  <2>3. pos \in Nat /\ Start <= pos  BY <2>1, <2>2
  <2>4. pos \in 0 .. MaxLen - 1  BY <1>1, <2>2, <2>3
  <2>5. array[pos] \in Byte  BY <2>2, <2>4
  <2>6. hpos \in Slots  BY <2>3, SlotType
  <2>7. pos \in LiveAt(Start, pos + 1)  BY <2>1, <2>3 DEF LiveAt
  <2> QED  BY <2>1, <2>2, <2>3, <2>5, <2>6, <2>7
<1>3. \A q \in 0 .. MaxLen - 1 : array[q] \in Byte /\ ByteOrZero(q + 1) \in Byte
                                /\ ByteOrZero(q + 2) \in Byte
  <2>1. array \in [0 .. MaxLen - 1 -> Byte] /\ end \in 0 .. MaxLen
    BY <1>2 DEF IInv, TypeOK
  <2> QED  BY <2>1, BytesOrZero
<1>4. ThirdByte(pos) = ByteOrZero(pos + 2)
  BY <1>2 DEF ThirdByte, ByteOrZero
<1>5. newval \in HashVals
  BY <1>1, <1>2, <1>3, <1>4 DEF newval, IInv, TypeOK
<1>6. newval = HashAt(pos)
  <2>1. CASE end = Start + 1
    <3>1. pos = Start /\ val = HashStep(0, array[pos])
      BY <1>1, <1>2, <2>1 DEF IInv, RollingHash
    <3>2. ByteOrZero(pos + 2) = 0  BY <1>2, <2>1, <3>1 DEF ByteOrZero
    <3> QED  BY <1>4, <2>1, <3>1, <3>2 DEF newval, HashAt
  <2>2. CASE end # Start + 1
    <3>1. PICK v \in HashVals :
            val = HashStep(HashStep(v, array[pos]), ByteOrZero(pos + 1))
      BY <1>1, <2>2 DEF IInv, RollingHash
    <3>2. newval = HashStep(HashStep(HashStep(v, array[pos]),
                              ByteOrZero(pos + 1)), ByteOrZero(pos + 2))
      BY <1>4, <3>1 DEF newval
    <3>3. ByteOrZero(pos + 1) \in Byte /\ ByteOrZero(pos + 2) \in Byte
      BY <1>1, <1>2, <1>3
    <3>4. newval = HashStep(HashStep(HashStep(0, array[pos]),
                              ByteOrZero(pos + 1)), ByteOrZero(pos + 2))
      <4>1. 0 \in HashVals /\ array[pos] \in Byte  BY <1>2
      <4>2. HashStep(HashStep(HashStep(v, array[pos]),
                     ByteOrZero(pos + 1)), ByteOrZero(pos + 2))
              = HashStep(HashStep(HashStep(0, array[pos]),
                         ByteOrZero(pos + 1)), ByteOrZero(pos + 2))
        <5>1. PICK a \in Byte, b \in Byte, c \in Byte :
                a = array[pos] /\ b = ByteOrZero(pos + 1) /\ c = ByteOrZero(pos + 2)
          BY <4>1, <3>3
        <5>2. HashStep(HashStep(HashStep(v, a), b), c)
                = HashStep(HashStep(HashStep(0, a), b), c)
          BY <4>1, ThreeStepsForget
        <5> QED  BY <5>1, <5>2
      <4> QED  BY <3>2, <4>2
    <3> QED  BY <2>2, <3>4 DEF HashAt
  <2> QED  BY <2>1, <2>2
<1>7. RollingHash'
  <2>1. CASE end = Start + 1  BY <1>1, <1>2, <2>1 DEF RollingHash
  <2>2. CASE end # Start + 1 /\ pos + 1 < end
    <3>1. PICK v \in HashVals :
            val = HashStep(HashStep(v, array[pos]), ByteOrZero(pos + 1))
      BY <1>1, <2>2 DEF IInv, RollingHash
    <3>2. HashStep(v, array[pos]) \in HashVals  BY <1>2, <3>1
    <3>3. ByteOrZero(pos + 1) = array[pos + 1]  BY <2>2 DEF ByteOrZero
    <3>4. newval = HashStep(HashStep(HashStep(v, array[pos]), array[pos + 1]),
                            ByteOrZero((pos + 1) + 1))
      BY <1>2, <1>4, <3>1, <3>3 DEF newval
    <3> QED  BY <1>1, <1>2, <2>2, <3>2, <3>4 DEF RollingHash, ByteOrZero
  <2> QED  BY <1>1, <1>2, <2>1, <2>2 DEF RollingHash
<1>8. amount \in 0 .. SameCap /\ IsRun(pos, amount)
  <2>1. CASE pos = Start
    <3>1. Slot(pos - 1) \in Slots  BY <1>2, SlotType
    <3>2. KnownRun(before) = 0  BY <2>1, <3>1 DEF IInv, RunBehind, KnownRun
    <3> QED  BY <1>2, <3>2, CountRunExact DEF amount
  <2>2. CASE pos > Start
    <3>1. pos - 1 \in Live  BY <1>2, <2>2 DEF Live, LiveAt
    <3>2. IsRun(pos - 1, before)  BY <3>1 DEF IInv, SameExact
    <3>3. before \in 0 .. SameCap  BY <1>2, SlotType DEF IInv, TypeOK
    <3>4. pos - 1 \in Nat /\ (pos - 1) + 1 = pos  BY <1>2, <2>2
    <3>5. /\ KnownRun(before) \in 0 .. SameCap
          /\ \A k \in 0 .. KnownRun(before) - 1 : Repeats(pos, k)
      BY <1>2, <3>2, <3>3, <3>4, KnownRunSound
    <3> QED  BY <1>2, <3>5, CountRunExact DEF amount
  <2> QED  BY <1>2, <2>1, <2>2
<1>9. newval2 \in HashVals  BY <1>5, <1>8 DEF newval2
<1>10. TypeOK'
  <2>1. same' \in [Slots -> 0 .. SameCap]  BY <1>1, <1>8 DEF IInv, TypeOK
  <2>2. chain' \in ChainType /\ chain2' \in ChainType
    BY <1>1, <1>2, <1>5, <1>9, LinkType DEF IInv, TypeOK
  <2>3. pos' \in Start' .. end'  BY <1>1, <1>2
  <2> QED  BY <1>1, <1>5, <1>9, <2>1, <2>2, <2>3 DEF IInv, TypeOK
<1>11. RunBehind'  BY <1>1, <1>2 DEF RunBehind
<1>12. \A q \in LiveAt(Start, pos + 1) :
         q = pos \/ (q \in Live /\ Slot(q) \in Slots /\ Slot(q) # hpos)
  <2> TAKE q \in LiveAt(Start, pos + 1)
  <2>1. CASE q # pos
    <3>1. q \in Live /\ q \in Int /\ q < pos /\ pos - q < WindowSize
      BY <1>2, <2>1 DEF Live, LiveAt
    <3> QED  BY <1>2, <3>1, SlotApart, SlotType
  <2> QED  BY <2>1
<1>13. SameExact'
  <2> SUFFICES ASSUME NEW q \in LiveAt(Start, pos + 1)
               PROVE  IsRun(q, same[Slot(q)])'
    BY <1>1, <1>2 DEF SameExact, Live, IsRun, Repeats, LiveAt
  <2>1. CASE q = pos
    <3>1. same'[Slot(q)] = amount  BY <1>1, <1>2, <2>1 DEF IInv, TypeOK
    <3> QED  BY <1>1, <1>8, <2>1, <3>1 DEF IsRun, Repeats
  <2>2. CASE q # pos
    <3>1. same'[Slot(q)] = same[Slot(q)]
      BY <1>1, <1>12, <2>2 DEF IInv, TypeOK
    <3>2. IsRun(q, same[Slot(q)])  BY <1>12, <2>2 DEF IInv, SameExact
    <3> QED  BY <1>1, <3>1, <3>2 DEF IsRun, Repeats
  <2> QED  BY <2>1, <2>2
<1>14. \A q \in Start .. pos : q \in Start .. end - 1  BY <1>1, <1>2
<1>15. /\ Hashes[pos] = newval
       /\ \A q \in Start .. pos : Hashes[q] \in HashVals
  <2>1. Hashes[pos] = newval
    <3>1. pos \in Start .. end - 1  BY <1>1, <1>2
    <3> QED  BY <1>6, <3>1 DEF Hashes
  <2>2. ASSUME NEW q \in Start .. pos PROVE HashAt(q) \in HashVals
    <3>1. q \in 0 .. MaxLen - 1  BY <1>1, <1>2, <2>2
    <3>2. array[q] \in Byte /\ ByteOrZero(q + 1) \in Byte /\ ByteOrZero(q + 2) \in Byte
      BY <1>3, <3>1
    <3>3. HashStep(0, array[q]) \in HashVals  BY <3>2
    <3>4. HashStep(HashStep(0, array[q]), 0) \in HashVals  BY <3>3
    <3>5. HashStep(HashStep(HashStep(0, array[q]), ByteOrZero(q + 1)), ByteOrZero(q + 2))
            \in HashVals
      BY <3>2, <3>3
    <3> QED  BY <3>4, <3>5 DEF HashAt
  <2> QED  BY <1>14, <2>1, <2>2 DEF Hashes
<1>16. FirstChainExact'
  <2>1. Hashes' = Hashes
    BY <1>1, <1>2 DEF Hashes, HashAt, ByteOrZero
  <2>2. ChainExact(chain', Hashes, Start, pos + 1)
    BY <1>1, <1>2, <1>15, LinkKeepsExact
       DEF IInv, TypeOK, FirstChainExact
  <2>3. FirstChainExact' = ChainExact(chain', Hashes', Start', pos')
    BY DEF FirstChainExact, ChainExact, HashvalExact, HeadExact, LinkExact, LiveAt
  <2> QED  BY <1>1, <1>2, <2>1, <2>2, <2>3
<1>17. /\ SecondHashes[pos] = newval2
       /\ \A q \in Start .. pos : SecondHashes[q] \in HashVals
  <2>1. RunLengthAt(pos) = amount  BY <1>2, <1>8, RunLengthUnique
  <2>2. SecondHashes[pos] = newval2
    <3>1. pos \in Start .. end - 1  BY <1>1, <1>2
    <3> QED  BY <1>6, <2>1, <3>1 DEF SecondHashes, newval2
  <2>3. ASSUME NEW q \in Start .. pos PROVE RunLengthAt(q) \in 0 .. SameCap
    <3>1. q \in Nat /\ 0 \in 0 .. SameCap /\ 0 .. 0 - 1 = {}  BY <1>2
    <3>2. /\ CountRun(q, 0) \in 0 .. SameCap
          /\ IsRun(q, CountRun(q, 0))
      BY <1>2, <3>1, CountRunExact
    <3> QED  BY <3>1, <3>2, RunLengthUnique
  <2>4. ASSUME NEW q \in Start .. pos PROVE HashAt(q) \in HashVals
    BY <1>14, <1>15 DEF Hashes
  <2> QED  BY <1>14, <2>2, <2>3, <2>4 DEF SecondHashes
<1>18. SecondChainExact'
  <2>1. SecondHashes' = SecondHashes
    BY <1>1, <1>2
       DEF SecondHashes, HashAt, ByteOrZero, RunLengthAt, IsRun, Repeats
  <2>2. ChainExact(chain2', SecondHashes, Start, pos + 1)
    BY <1>1, <1>2, <1>17, LinkKeepsExact
       DEF IInv, TypeOK, SecondChainExact
  <2>3. SecondChainExact' = ChainExact(chain2', SecondHashes', Start', pos')
    BY DEF SecondChainExact, ChainExact, HashvalExact, HeadExact, LinkExact, LiveAt
  <2> QED  BY <1>1, <1>2, <2>1, <2>2, <2>3
<1> QED
  BY <1>7, <1>10, <1>11, <1>13, <1>16, <1>18 DEF IInv

-----------------------------------------------------------------------------
(* The inductive invariant holds, and with it each of its parts.            *)
LEMMA Invariant == Spec => []IInv
<1>1. Init => IInv
  <2> SUFFICES ASSUME Init PROVE RunBegun  BY RunBegunIInv
  <2>1. PICK b \in Blocks : instart = b[1] /\ end = b[2]  BY DEF Init
  <2>2. instart \in 0 .. MaxLen - 1 /\ end \in instart + 1 .. MaxLen
    BY <2>1, InputAssumption, HashAssumption
  <2> QED  BY <2>2, InputAssumption DEF Init, RunBegun
<1>2. IInv /\ [Next]_vars => IInv'
  <2> SUFFICES ASSUME IInv, [Next]_vars PROVE IInv'  OBVIOUS
  <2>1. CASE UpdateHash  BY <2>1, UpdateIInv
  <2>2. CASE Restart
    <3>1. PICK b \in Blocks : StartRun(b[1], b[2])  BY <2>2 DEF Restart
    <3>2. instart' \in 0 .. MaxLen - 1 /\ end' \in instart' + 1 .. MaxLen
      BY <3>1, InputAssumption, HashAssumption DEF StartRun
    <3>3. RunBegun'
      BY <3>1, <3>2 DEF StartRun, ResetTables, RunBegun, IInv, TypeOK, Warmup
    <3> QED  BY <3>3, RunBegunIInv, PTL
  <2>3. CASE UNCHANGED vars
    <3> USE <2>3 DEF vars, Start
    <3>1. TypeOK' /\ RunBehind'  BY DEF IInv, TypeOK, RunBehind
    <3>2. RollingHash'  BY DEF IInv, RollingHash, ByteOrZero
    <3>3. SameExact'
      BY DEF IInv, SameExact, Live, LiveAt, IsRun, Repeats
    <3>4. Hashes' = Hashes /\ SecondHashes' = SecondHashes
      BY DEF Hashes, SecondHashes, HashAt, ByteOrZero, RunLengthAt, IsRun, Repeats
    <3>5. FirstChainExact' = ChainExact(chain', Hashes', Start', pos')
      BY DEF FirstChainExact, ChainExact, HashvalExact, HeadExact, LinkExact, LiveAt
    <3>6. SecondChainExact' = ChainExact(chain2', SecondHashes', Start', pos')
      BY DEF SecondChainExact, ChainExact, HashvalExact, HeadExact, LinkExact, LiveAt
    <3>7. FirstChainExact' /\ SecondChainExact'
      BY <3>4, <3>5, <3>6 DEF IInv, FirstChainExact, SecondChainExact
    <3> QED  BY <3>1, <3>2, <3>3, <3>7 DEF IInv
  <2> QED  BY <2>1, <2>2, <2>3 DEF Next
<1> QED  BY <1>1, <1>2, PTL DEF Spec

(* Every table of the hash keeps values its 16-bit elements can hold: slots *)
(* of the ring, masked hash values, capped run lengths (hash.h:30-34).      *)
THEOREM TypeCorrect == Spec => []TypeOK
BY Invariant, PTL DEF IInv

(* The run length stored for a live position is the true one (hash.c:131).  *)
THEOREM SameIsExact == Spec => []SameExact
BY Invariant, PTL DEF IInv

(* Both sets of chains lead from every live position to the nearest earlier *)
(* position of its bucket inside the window, and end where there is none.   *)
THEOREM ChainsAreExact == Spec => [](FirstChainExact /\ SecondChainExact)
BY Invariant, PTL DEF IInv

-----------------------------------------------------------------------------
(* The run goes over one of the blocks.                                     *)
OnABlock == <<instart, end>> \in Blocks

LEMMA BlockIsPair ==
  ASSUME NEW b \in Blocks, instart = b[1], end = b[2]
  PROVE  OnABlock
<1>1. b \in (0 .. MaxLen - 1) \X (1 .. MaxLen)  BY InputAssumption
<1>2. b = <<b[1], b[2]>>  BY <1>1
<1> QED  BY <1>2 DEF OnABlock

LEMMA StaysOnBlock == SearchSpec => []OnABlock
<1>1. InitSearch => OnABlock
  BY BlockIsPair DEF InitSearch, Init
<1>2. OnABlock /\ [NextSearch]_allVars => OnABlock'
  <2> SUFFICES ASSUME OnABlock, [NextSearch]_allVars  PROVE OnABlock'
    OBVIOUS
  <2>1. instart' = instart /\ end' = end
    BY DEF NextSearch, allVars, vars, Advance, UpdateHash, NextPass, StartRun,
           Search, Serve, GiveUpNearEnd, StartWalk, Visit, Finish, Done
  <2> QED  BY <2>1 DEF OnABlock
<1> QED  BY <1>1, <1>2, PTL DEF SearchSpec

(* Whatever a caller does - passes, searches, cached answers - the tables   *)
(* go through a behaviour of the hash alone: one update for each position,  *)
(* or a reset and warm-up at the end of the block (lz77.c:726-789).         *)
THEOREM SearchDrivesHash == SearchSpec => Spec
<1>1. InitSearch => Init  BY DEF InitSearch
<1>2. OnABlock /\ [NextSearch]_allVars => [Next]_vars
  <2> SUFFICES ASSUME OnABlock, [NextSearch]_allVars  PROVE [Next]_vars
    OBVIOUS
  <2>1. CASE Advance  BY <2>1 DEF Advance, Next
  <2>2. CASE NextPass
    <3>1. pos = end /\ StartRun(instart, end)  BY <2>2 DEF NextPass
    <3>2. StartRun(<<instart, end>>[1], <<instart, end>>[2])  BY <3>1
    <3> QED  BY <3>1, <3>2 DEF OnABlock, Next, Restart
  <2>3. CASE Search \/ Visit \/ Finish \/ Done \/ UNCHANGED allVars
    BY <2>3 DEF Search, Serve, GiveUpNearEnd, StartWalk, Visit, Finish, Done, allVars
  <2> QED  BY <2>1, <2>2, <2>3 DEF NextSearch
<1> QED  BY <1>1, <1>2, StaysOnBlock, PTL DEF SearchSpec, Spec

(* The run length read from the ring by a search is the true one, in every  *)
(* pass (lz77.c:643-650).                                                   *)
THEOREM SearchSeesRuns == SearchSpec => []SameExact
BY SearchDrivesHash, SameIsExact, PTL

(* The chains a search may walk are those of the positions in the window,   *)
(* in every pass over the block (lz77.c:669-692).                           *)
THEOREM SearchSeesChains == SearchSpec => []ChainsExact
<1>1. FirstChainExact /\ SecondChainExact => ChainsExact
  BY DEF FirstChainExact, SecondChainExact, ChainsExact
<1> QED  BY <1>1, SearchDrivesHash, ChainsAreExact, PTL

-----------------------------------------------------------------------------
(* What holds while a search goes on, beside the exact chains.              *)

WalkType ==
  [ limit : Nat, second : BOOLEAN, p : Slots, dist : Nat, best : 1 .. MaxMatch,
    bestdist : 0 .. WindowSize - 1, sublen : [1 .. MaxMatch -> 0 .. WindowSize - 1],
    hits : 1 .. maxHits ]

MatchTypes ==
  /\ maxHits \in ChainHits
  /\ pass \in 1 .. Len(Passes)
  /\ phase \in {"between", "walk", "found"}
  /\ phase # "between" => at \in Block
  /\ call \in (MinMatch .. MaxMatch) \X BOOLEAN
  /\ walk \in WalkType
  /\ phase = "walk" => walk.limit \in MinMatch .. MaxMatch /\ walk.best <= walk.limit
  /\ found.length \in 0 .. MaxMatch

(* A cached match is no shorter than a match may be, so that a search that  *)
(* is limited by it still has a length to look for.                         *)
CacheSound ==
  lmc # NoCache =>
    /\ DOMAIN lmc = {"length", "dist", "runOff", "pool", "used", "cap", "alloc", "complete"}
    /\ lmc.length \in [Block -> 0 .. MaxMatch]
    /\ lmc.dist \in [Block -> 0 .. WindowSize - 1]
    /\ \A q \in Block : lmc.dist[q] # 0 => lmc.length[q] >= MinMatch

(* The current hashes are those entered for the last position.              *)
HashesOfLast ==
  pos > Start => val = chain.hashval[Slot(at)] /\ val2 = chain2.hashval[Slot(at)]

SearchInv == MatchTypes /\ CacheSound /\ HashesOfLast /\ WalkInWindow

(* From the slot of one position to that of another less than a window      *)
(* before it: the gap is their distance.                                    *)
LEMMA GapIsDistance ==
  ASSUME NEW p \in Int, NEW q \in Int, p < q, q - p < WindowSize
  PROVE  Gap(Slot(p), Slot(q)) = q - p
<1> DEFINE W == WindowSize
           g == Gap(Slot(p), Slot(q))
<1>1. W \in Nat \ {0}  BY HashAssumption
<1>2. /\ p \div W \in Int /\ q \div W \in Int
      /\ p % W \in 0 .. W - 1 /\ q % W \in 0 .. W - 1
      /\ p = (W * (p \div W)) + (p % W) /\ q = (W * (q \div W)) + (q % W)
  BY <1>1, DivisionOf
<1>3. p % W # q % W  BY SlotApart DEF Slot
<1>4. PICK a \in Int, b \in Int, r \in 0 .. W - 1, s \in 0 .. W - 1 :
        /\ p = (W * a) + r /\ q = (W * b) + s /\ r # s
        /\ r = p % W /\ s = q % W
  BY <1>2, <1>3
<1>5. W * a \in Int /\ W * b \in Int /\ (W * b) - (W * a) = W * (b - a)
      /\ W * ((b - a) - 1) = (W * (b - a)) - W
  BY <1>1, <1>4
<1>6. (W * (b - a)) + s - r = q - p  BY <1>1, <1>4, <1>5
<1>0. g = IF r < s THEN s - r ELSE W - r + s
  BY <1>4 DEF Gap, Slot
<1> HIDE DEF g
<1>7. CASE r < s
  <2>1. g = s - r /\ g \in 0 .. W - 1  BY <1>0, <1>1, <1>4, <1>7
  <2>2. (W * (b - a)) + g = (W * 0) + (q - p)  BY <1>1, <1>4, <1>5, <1>6, <2>1
  <2>3. g = q - p  BY <1>1, <2>1, <2>2, QuotientUnique
  <2> QED  BY <2>3 DEF g
<1>8. CASE ~ (r < s)
  <2>1. g = W - r + s /\ g \in 0 .. W - 1  BY <1>0, <1>1, <1>4, <1>8
  <2>2. (W * ((b - a) - 1)) + g = (W * 0) + (q - p)
    BY <1>1, <1>4, <1>5, <1>6, <2>1
  <2>3. g = q - p  BY <1>1, <2>1, <2>2, QuotientUnique
  <2> QED  BY <2>3 DEF g
<1> QED  BY <1>7, <1>8

(* A link of an exact chain leads to the slot itself or to an earlier       *)
(* position of the same hash, less than a window back.                      *)
LEMMA LinkLeadsBack ==
  ASSUME NEW c, NEW f, NEW s \in Nat, NEW n \in Nat, NEW q \in LiveAt(s, n),
         ChainExact(c, f, s, n), c.prev[Slot(q)] # Slot(q)
  PROVE  \E p \in s .. q - 1 :
           /\ q - p < WindowSize
           /\ c.prev[Slot(q)] = Slot(p)
           /\ Gap(Slot(p), Slot(q)) = q - p
           /\ p \in LiveAt(s, n) => c.hashval[Slot(p)] = c.hashval[Slot(q)]
<1>1. PICK p \in s .. q - 1 :
        /\ q - p < WindowSize /\ c.prev[Slot(q)] = Slot(p) /\ f[p] = f[q]
  BY DEF ChainExact, LinkExact
<1>2. p \in Int /\ q \in Int /\ p < q  BY DEF LiveAt
<1>3. Gap(Slot(p), Slot(q)) = q - p  BY <1>1, <1>2, GapIsDistance
<1>4. p \in LiveAt(s, n) => c.hashval[Slot(p)] = c.hashval[Slot(q)]
  BY <1>1 DEF ChainExact, HashvalExact
<1> QED  BY <1>1, <1>3, <1>4

(* The bucket of the last position's hash begins with that position.        *)
LEMMA HeadIsLast ==
  ASSUME NEW c, NEW f, NEW s \in Nat, NEW n \in Nat, s < n, ChainExact(c, f, s, n),
         NEW v \in HashVals, v = c.hashval[Slot(n - 1)]
  PROVE  c.head[v] = Slot(n - 1)
<1>1. n - 1 \in LiveAt(s, n)  BY HashAssumption DEF LiveAt
<1>2. f[n - 1] = v  BY <1>1 DEF ChainExact, HashvalExact
<1>3. PICK q \in s .. n - 1 : /\ c.head[v] = Slot(q)
                              /\ \A r \in q + 1 .. n - 1 : f[r] # v
  BY <1>2 DEF ChainExact, HeadExact
<1>4. q = n - 1  BY <1>2, <1>3
<1> QED  BY <1>3, <1>4

-----------------------------------------------------------------------------
(* How long a candidate is.                                                 *)

(* Byte j of the match d before q is the right one.                         *)
SameByte(q, d, j) == array[q + j] = array[q - d + j]

(* GetMatch: the first byte from n on that is not right, or the limit.      *)
LEMMA GetMatchExact ==
  ASSUME NEW q, NEW d, NEW lim \in Nat, NEW n \in 0 .. lim
  PROVE  \E m \in n .. lim :
           /\ GetMatch(q, d, n, lim) = m
           /\ m = lim \/ ~ SameByte(q, d, m)
           /\ \A k \in n .. m - 1 : SameByte(q, d, k)
<1> DEFINE Differ(x) == x = lim \/ ~ SameByte(q, d, x)
           T == {x \in n .. lim : Differ(x)}
<1>1. lim \in T  OBVIOUS
<1>2. T \in SUBSET Nat /\ T # {}  BY <1>1
<1>3. PICK x \in T : \A k \in T : x <= k
  <2> HIDE DEF T
  <2> QED  BY <1>2, LeastNat
<1>4. x \in n .. lim /\ Differ(x)  OBVIOUS
<1>5. ASSUME NEW k \in n .. x - 1 PROVE SameByte(q, d, k)
  <2>1. k \in n .. lim /\ k < x /\ k # lim  BY <1>4, <1>5
  <2>2. k \notin T  BY <1>3, <2>1
  <2> QED  BY <2>1, <2>2
<1> QED  BY <1>4, <1>5 DEF GetMatch, SameByte

LEMMA CandidateRange ==
  ASSUME TypeOK, NEW w, w.limit \in Nat, w.dist \in Int
  PROVE  CandidateLength(w) \in 0 .. w.limit
<1>1. KnownEqual(w.dist, w.limit) \in 0 .. w.limit
  <2>1. at \in Int /\ at - w.dist \in Int
    BY StartType, HashAssumption DEF TypeOK, at, Start
  <2>2. same[Slot(at)] \in Nat /\ same[Slot(at - w.dist)] \in Nat
    BY <2>1, SlotType, HashAssumption DEF TypeOK
  <2> QED  BY <2>2 DEF KnownEqual, Lesser
<1>2. CASE array[at + w.best] = array[at - w.dist + w.best]
  <2> DEFINE s == KnownEqual(w.dist, w.limit)
  <2>1. CandidateLength(w) = GetMatch(at, w.dist, s, w.limit)
    BY <1>2 DEF CandidateLength
  <2> HIDE DEF s
  <2>2. GetMatch(at, w.dist, s, w.limit) \in s .. w.limit
    BY <1>1, GetMatchExact DEF s
  <2> QED  BY <1>1, <2>1, <2>2 DEF s
<1>3. CASE array[at + w.best] # array[at - w.dist + w.best]
  BY <1>3 DEF CandidateLength
<1> QED  BY <1>2, <1>3

(* A visit keeps the better of its candidate and the best one so far.       *)
LEMMA ImprovedKeeps ==
  ASSUME TypeOK, MatchTypes, phase = "walk", walk.dist \in 1 .. WindowSize - 1
  PROVE  /\ Improved(walk) \in WalkType
         /\ Improved(walk).best <= walk.limit
         /\ Improved(walk).limit = walk.limit
         /\ Improved(walk).p = walk.p /\ Improved(walk).dist = walk.dist
         /\ Improved(walk).second = walk.second
<1> DEFINE n == CandidateLength(walk)
<1>1. walk \in WalkType /\ walk.limit \in 1 .. MaxMatch /\ walk.best <= walk.limit
      /\ MaxMatch \in Nat
  BY MatchAssumption, CacheAssumption DEF MatchTypes
<1>2. n \in 0 .. walk.limit
  BY <1>1, CandidateRange, HashAssumption
<1>3. CASE n <= walk.best
  BY <1>1, <1>3 DEF Improved
<1>4. CASE ~ (n <= walk.best)
  <2>1. Improved(walk) =
          [walk EXCEPT !.best = n, !.bestdist = walk.dist,
                       !.sublen = [k \in DOMAIN walk.sublen |->
                                     IF walk.best < k /\ k <= n THEN walk.dist
                                     ELSE walk.sublen[k]]]
    BY <1>4 DEF Improved
  <2>2. n \in 1 .. MaxMatch /\ walk.dist \in 0 .. WindowSize - 1
    BY <1>1, <1>2, <1>4, HashAssumption DEF WalkType
  <2>3. [k \in DOMAIN walk.sublen |->
           IF walk.best < k /\ k <= n THEN walk.dist ELSE walk.sublen[k]]
          \in [1 .. MaxMatch -> 0 .. WindowSize - 1]
    BY <1>1, <2>2 DEF WalkType
  <2> DEFINE sublen == [k \in DOMAIN walk.sublen |->
                          IF walk.best < k /\ k <= n THEN walk.dist ELSE walk.sublen[k]]
             w == [walk EXCEPT !.best = n, !.bestdist = walk.dist, !.sublen = sublen]
  <2> HIDE DEF n, sublen
  <2>4. /\ w \in WalkType /\ w.best = n /\ w.limit = walk.limit
        /\ w.p = walk.p /\ w.dist = walk.dist /\ w.second = walk.second
    BY <1>1, <2>2, <2>3 DEF WalkType, sublen
  <2> HIDE DEF w
  <2> QED  BY <1>2, <2>1, <2>4 DEF w, sublen
<1> QED  BY <1>3, <1>4

-----------------------------------------------------------------------------
(* One lemma for each kind of step.                                         *)

(* What the search reads of the hash.                                       *)
LEMMA HashFacts ==
  ASSUME IInv
  PROVE  /\ Start \in 0 .. instart /\ instart \in Nat /\ end \in Nat /\ pos \in Nat
         /\ val \in HashVals /\ val2 \in HashVals
         /\ ChainExact(chain, Hashes, Start, pos)
         /\ ChainExact(chain2, SecondHashes, Start, pos)
         /\ chain.prev \in [Slots -> Slots] /\ chain2.prev \in [Slots -> Slots]
         /\ \A q \in Int : Slot(q) \in Slots
<1>1. TypeOK /\ MaxLen \in Nat
  BY HashAssumption DEF IInv
<1>2. instart \in 0 .. MaxLen - 1 /\ end \in instart + 1 .. MaxLen /\ pos \in Start .. end
  BY <1>1 DEF TypeOK
<1>3. Start \in 0 .. instart
  BY <1>2, StartType DEF Start
<1>4. instart \in Nat /\ end \in Nat /\ pos \in Nat
  BY <1>1, <1>2, <1>3
<1>5. chain.prev \in [Slots -> Slots] /\ chain2.prev \in [Slots -> Slots]
  BY <1>1 DEF TypeOK, ChainType
<1> QED
  BY <1>1, <1>3, <1>4, <1>5, SlotType DEF IInv, TypeOK, FirstChainExact, SecondChainExact

LEMMA NoWalkType ==
  ASSUME maxHits \in ChainHits PROVE NoWalk \in WalkType
<1>1. maxHits \in 1 .. maxHits /\ 1 \in 1 .. MaxMatch /\ 0 \in Slots
      /\ 0 \in 0 .. WindowSize - 1 /\ WindowSize \in Nat
  BY MatchAssumption, CacheAssumption, HashAssumption DEF Slots
<1> QED  BY <1>1 DEF NoWalk, NoSublens, WalkType

LEMMA InitSearchInv == InitSearch => SearchInv
<1> SUFFICES ASSUME InitSearch PROVE SearchInv
  OBVIOUS
<1>1. MaxMatch \in Nat /\ 1 < MinMatch /\ MinMatch \in Nat /\ MinMatch <= MaxMatch
  BY MatchAssumption, CacheAssumption
<1>2. MatchTypes
  <2>1. 1 \in 1 .. Len(Passes)
    BY MatchAssumption
  <2>2. walk \in WalkType
    BY NoWalkType DEF InitSearch
  <2>3. maxHits \in ChainHits /\ pass = 1 /\ phase = "between" /\ found = NotFound
        /\ call = <<MaxMatch, TRUE>>
    BY DEF InitSearch
  <2>4. call \in (MinMatch .. MaxMatch) \X BOOLEAN
    <3>1. MaxMatch \in MinMatch .. MaxMatch
      BY <1>1
    <3> QED  BY <2>3, <3>1, Zenon
  <2>5. found.length \in 0 .. MaxMatch
    BY <1>1, <2>3 DEF NotFound
  <2> QED  BY <2>1, <2>2, <2>3, <2>4, <2>5 DEF MatchTypes
<1>3. CacheSound
  BY <1>1, HashAssumption DEF InitSearch, CacheSound, InitCache
<1>4. HashesOfLast /\ WalkInWindow
  BY HashAssumption DEF InitSearch, Init, HashesOfLast, WalkInWindow, Start, WindowStart
<1> QED  BY <1>2, <1>3, <1>4 DEF SearchInv

(* The caller moves the hash, and no search goes on.                        *)
LEMMA CallerStep ==
  ASSUME IInv, SearchInv, Advance \/ NextPass PROVE SearchInv'
<1>1. /\ phase' = "between" /\ found' = NotFound
      /\ UNCHANGED <<maxHits, lmc, call, walk, instart, end>>
      /\ pass' \in 1 .. Len(Passes)
  BY MatchAssumption DEF Advance, NextPass, SearchInv, MatchTypes, UpdateHash, StartRun
<1>2. MatchTypes'
  BY <1>1, MatchAssumption DEF SearchInv, MatchTypes, WalkType, NotFound
<1>3. CacheSound'
  BY <1>1 DEF SearchInv, CacheSound, Block
<1>4. HashesOfLast'
  <2>1. CASE Advance
    <3>1. /\ chain' = Link(chain, Slot(pos), val') /\ chain2' = Link(chain2, Slot(pos), val2')
          /\ pos' = pos + 1
      BY <2>1 DEF Advance, UpdateHash
    <3>2. at' = pos
      BY <3>1, HashFacts DEF at
    <3>3. Slot(pos) \in Slots /\ chain \in ChainType /\ chain2 \in ChainType
      BY HashFacts DEF IInv, TypeOK
    <3>4. Slot(at)' = Slot(pos)
      BY <3>2 DEF Slot
    <3>5. chain.hashval \in [Slots -> HashVals \cup {Empty}]
          /\ chain2.hashval \in [Slots -> HashVals \cup {Empty}]
      BY <3>3 DEF ChainType
    <3>6. chain'.hashval[Slot(pos)] = val' /\ chain2'.hashval[Slot(pos)] = val2'
      BY <3>1, <3>3, <3>5 DEF Link
    <3> QED  BY <3>4, <3>6 DEF HashesOfLast
  <2>2. CASE NextPass
    <3>1. pos' = Start'
      BY <2>2 DEF NextPass, StartRun, Start
    <3> QED  BY <3>1, HashAssumption DEF HashesOfLast, Start, WindowStart
  <2> QED  BY <2>1, <2>2
<1>5. WalkInWindow'
  BY <1>1 DEF WalkInWindow
<1> QED  BY <1>2, <1>3, <1>4, <1>5 DEF SearchInv

(* A link followed keeps a walk that goes on on a position of its hash.     *)
LEMMA FollowStep ==
  ASSUME IInv, NEW c, NEW f, ChainExact(c, f, Start, pos), c.prev \in [Slots -> Slots],
         NEW d \in 1 .. at, at - d \in Live, NEW p, p = Slot(at - d), c.prev[p] # p
  PROVE  LET e == d + Gap(c.prev[p], p) IN
           /\ e \in Nat /\ e > d
           /\ e < WindowSize => /\ e \in 1 .. at /\ at - e \in Live
                                /\ c.prev[p] = Slot(at - e)
                                /\ c.hashval[c.prev[p]] = c.hashval[p]
<1>1. /\ Start \in Nat /\ pos \in Nat /\ at = pos - 1 /\ WindowSize \in Nat
  BY HashFacts, HashAssumption DEF at
<1>2. PICK q \in Start .. at - d - 1 :
        /\ c.prev[p] = Slot(q) /\ Gap(Slot(q), p) = at - d - q
        /\ q \in LiveAt(Start, pos) => c.hashval[Slot(q)] = c.hashval[p]
  BY <1>1, LinkLeadsBack DEF Live
<1>3. d + Gap(c.prev[p], p) = at - q
  BY <1>1, <1>2
<1>4. at - q < WindowSize => q \in LiveAt(Start, pos)
  BY <1>1, <1>2 DEF LiveAt
<1>5. at - (at - q) = q /\ at - q \in Nat /\ at - q > d /\ at - q \in 1 .. at
  BY <1>1, <1>2
<1> QED  BY <1>2, <1>3, <1>4, <1>5 DEF Live

LEMMA GapType ==
  ASSUME NEW p \in Slots, NEW q \in Slots PROVE Gap(q, p) \in 1 .. WindowSize
BY HashAssumption DEF Gap, Slots

(* The last position of a block has a place in the window.                  *)
LEMMA InBlock ==
  ASSUME IInv, at \in Block
  PROVE  /\ at \in Nat /\ pos = at + 1 /\ Start < pos /\ at \in Live
         /\ end - at \in Nat \ {0}
<1>1. /\ Start \in 0 .. instart /\ instart \in Nat /\ end \in Nat /\ pos \in Nat
      /\ WindowSize \in Nat \ {0}
  BY HashFacts, HashAssumption
<1>2. at = pos - 1 /\ at \in instart .. end - 1
  BY DEF at, Block
<1> QED  BY <1>1, <1>2 DEF Live, LiveAt

(* The limit of a walk is one that a match can reach.                       *)
LEMMA LimitOfWalk ==
  ASSUME SearchInv, IInv, NEW limit, NEW wantsub, <<limit, wantsub>> \in Calls,
         at \in Block, ~ CacheAnswers(limit, wantsub), end - at >= MinMatch
  PROVE  Lesser(UsableLimit(limit, wantsub), end - at) \in MinMatch .. MaxMatch
<1>1. /\ MinMatch \in Nat /\ MaxMatch \in Nat /\ end - at \in Nat
      /\ limit \in MinMatch .. MaxMatch
  BY MatchAssumption, CacheAssumption, InBlock
<1>2. UsableLimit(limit, wantsub) \in MinMatch .. MaxMatch
  <2>1. CASE ~ LimitOkForCache(limit, wantsub)
    BY <1>1, <2>1 DEF UsableLimit
  <2>2. CASE LimitOkForCache(limit, wantsub)
    <3>1. lmc # NoCache /\ Available(lmc, at) /\ ~ (lmc.length[at] <= MaxCachedSublen(lmc, at))
      BY <2>2 DEF LimitOkForCache, CacheKnows, CacheAnswers
    <3>2. lmc.length[at] \in 0 .. MaxMatch /\ (lmc.dist[at] # 0 => lmc.length[at] >= MinMatch)
      BY <3>1 DEF SearchInv, CacheSound
    <3>3. lmc.length[at] # 0
      BY <3>1 DEF MaxCachedSublen
    <3>4. lmc.length[at] >= MinMatch
      BY <3>1, <3>2, <3>3 DEF Available
    <3> QED  BY <1>1, <2>2, <3>2, <3>4 DEF UsableLimit
  <2> QED  BY <2>1, <2>2
<1> QED  BY <1>1, <1>2 DEF Lesser

LEMMA StartWalkStep ==
  ASSUME IInv, SearchInv, NEW limit, NEW wantsub, <<limit, wantsub>> \in Calls,
         StartWalk(limit, wantsub)
  PROVE  SearchInv'
<1> DEFINE pp == chain.head[val]
           p == chain.prev[pp]
           lim == Lesser(UsableLimit(limit, wantsub), end - at)
<1>1. /\ phase = "between" /\ at \in Block /\ call' = <<limit, wantsub>>
      /\ phase' = "walk" /\ lim \in MinMatch .. MaxMatch
      /\ walk' = [NoWalk EXCEPT !.limit = lim, !.p = p, !.dist = Gap(p, pp)]
      /\ UNCHANGED <<vars, pass, maxHits, lmc, found>>
  BY LimitOfWalk DEF StartWalk, CanSearch
<1>2. /\ at \in Nat /\ pos = at + 1 /\ Start < pos /\ at \in Live
      /\ MinMatch \in Nat /\ 1 < MinMatch /\ MaxMatch \in Nat /\ WindowSize \in Nat \ {0}
  BY <1>1, InBlock, CacheAssumption, MatchAssumption, HashAssumption
<1>3. pp = Slot(at) /\ chain.hashval[pp] = val
  <2>1. /\ Start \in Nat /\ pos \in Nat /\ pos - 1 = at /\ val \in HashVals
        /\ ChainExact(chain, Hashes, Start, pos)
    BY <1>2, HashFacts
  <2>2. val = chain.hashval[Slot(at)]
    BY <1>2 DEF SearchInv, HashesOfLast
  <2> QED  BY <1>2, <2>1, <2>2, HeadIsLast
<1>4. pp \in Slots /\ p \in Slots
  BY <1>2, <1>3, HashFacts
<1>5. Gap(p, pp) \in 1 .. WindowSize
  BY <1>4, GapType
<1>6. Gap(p, pp) < WindowSize =>
        /\ Gap(p, pp) \in 1 .. at /\ at - Gap(p, pp) \in Live
        /\ p = Slot(at - Gap(p, pp)) /\ chain.hashval[p] = val
  <2>1. CASE p = pp
    BY <1>2, <1>4, <2>1 DEF Gap, Slots
  <2>2. CASE p # pp
    <3>1. PICK q \in Start .. at - 1 :
            /\ at - q < WindowSize /\ p = Slot(q) /\ Gap(p, pp) = at - q
            /\ q \in LiveAt(Start, pos) => chain.hashval[p] = chain.hashval[pp]
      BY <1>2, <1>3, <2>2, HashFacts, LinkLeadsBack DEF Live
    <3>2. q \in LiveAt(Start, pos) /\ at - q \in 1 .. at /\ at - (at - q) = q
      BY <1>2, <3>1, HashFacts DEF LiveAt
    <3> QED  BY <1>3, <3>1, <3>2 DEF Live
  <2> QED  BY <2>1, <2>2
<1> HIDE DEF p, pp, lim
<1>7. NoWalk \in WalkType
  BY NoWalkType DEF SearchInv, MatchTypes
<1>8. walk' \in WalkType /\ walk'.limit = lim /\ walk'.p = p /\ walk'.dist = Gap(p, pp)
      /\ walk'.best = 1 /\ walk'.second = FALSE
  <2>1. lim \in Nat /\ Gap(p, pp) \in Nat
    BY <1>1, <1>2, <1>5
  <2> QED  BY <1>1, <1>4, <1>7, <2>1 DEF WalkType, NoWalk
<1>9. MatchTypes'
  <2>1. call' \in (MinMatch .. MaxMatch) \X BOOLEAN
    BY <1>1, MatchAssumption
  <2>2. walk' \in WalkType'
    BY <1>1, <1>8 DEF WalkType
  <2>3. at' \in Block'
    BY <1>1 DEF vars, at, Block
  <2> QED  BY <1>1, <1>2, <1>8, <2>1, <2>2, <2>3 DEF SearchInv, MatchTypes
<1>10. CacheSound' /\ HashesOfLast'
  BY <1>1 DEF SearchInv, CacheSound, HashesOfLast, vars, Block, Start, at
<1>11. WalkInWindow'
  <2>1. at' = at /\ Live' = Live /\ chain' = chain /\ val' = val
    BY <1>1 DEF vars, at, Live, Start
  <2>2. 1 < lim
    BY <1>1, <1>2
  <2>3. ChainOf(walk)' = chain
    BY <1>8, <2>1 DEF ChainOf
  <2> QED  BY <1>6, <1>8, <2>1, <2>2, <2>3 DEF WalkInWindow, Slot
<1> QED  BY <1>9, <1>10, <1>11 DEF SearchInv

LEMMA VisitStep ==
  ASSUME IInv, SearchInv, Visit PROVE SearchInv'
<1> DEFINE v == Improved(walk)
           w == ChangeOver(v)
<1>1. /\ phase = "walk" /\ walk.dist < WindowSize
      /\ walk' = IF StopsAt(w) \/ Follow(w).hits <= 0 THEN EndedWalk(w) ELSE Follow(w)
      /\ UNCHANGED <<vars, pass, phase, maxHits, lmc, call, found>>
  BY DEF Visit
<1>2. /\ walk.dist \in 1 .. at /\ at - walk.dist \in Live
      /\ walk.p = Slot(at - walk.dist)
      /\ ChainOf(walk).hashval[walk.p] = IF walk.second THEN val2 ELSE val
  BY <1>1 DEF SearchInv, WalkInWindow
<1>3. /\ at \in Block /\ at \in Nat /\ WindowSize \in Nat \ {0} /\ MaxMatch \in Nat
      /\ walk.limit \in 1 .. MaxMatch /\ MinMatch \in Nat
  BY <1>1, InBlock, HashAssumption, MatchAssumption, CacheAssumption DEF SearchInv, MatchTypes
<1>4. /\ v \in WalkType /\ v.best <= walk.limit /\ v.limit = walk.limit
      /\ v.p = walk.p /\ v.dist = walk.dist /\ v.second = walk.second
  BY <1>1, <1>2, <1>3, ImprovedKeeps DEF SearchInv, IInv
<1> HIDE DEF v
<1>5. /\ w \in WalkType /\ w.best = v.best /\ w.limit = v.limit /\ w.p = v.p
      /\ w.dist = v.dist /\ w.hits = v.hits
      /\ ChainOf(w).hashval[w.p] = IF w.second THEN val2 ELSE val
  <2>1. w = [v EXCEPT !.second = @ \/ (/\ v.best >= same[Slot(at)]
                                       /\ val2 = chain2.hashval[v.p])]
    BY DEF ChangeOver
  <2>2. /\ w \in WalkType /\ w.best = v.best /\ w.limit = v.limit /\ w.p = v.p
        /\ w.dist = v.dist /\ w.hits = v.hits
        /\ w.second = (v.second \/ (/\ v.best >= same[Slot(at)]
                                    /\ val2 = chain2.hashval[v.p]))
    BY <1>4, <2>1 DEF WalkType
  <2> HIDE DEF w
  <2>3. CASE v.second
    BY <1>2, <1>4, <2>2, <2>3 DEF ChainOf
  <2>4. CASE ~ v.second
    BY <1>2, <1>4, <2>2, <2>4 DEF ChainOf
  <2> QED  BY <2>2, <2>3, <2>4
<1> HIDE DEF w
<1>6. CASE StopsAt(w) \/ Follow(w).hits <= 0
  <2>1. walk' = [w EXCEPT !.dist = WindowSize]
    BY <1>1, <1>6 DEF EndedWalk
  <2>2. /\ walk' \in WalkType /\ walk'.best = w.best /\ walk'.limit = w.limit
        /\ walk'.dist = WindowSize
    BY <1>3, <1>5, <2>1 DEF WalkType
  <2>3. MatchTypes' /\ WalkInWindow'
    <3>1. walk' \in WalkType' /\ at' = at /\ Block' = Block
      BY <1>1, <2>2 DEF WalkType, vars, at, Block
    <3>2. MatchTypes'
      BY <1>1, <1>3, <1>4, <1>5, <2>2, <3>1 DEF SearchInv, MatchTypes
    <3> QED  BY <1>3, <2>2, <3>2 DEF WalkInWindow
  <2>4. CacheSound' /\ HashesOfLast'
    BY <1>1 DEF SearchInv, CacheSound, HashesOfLast, vars, Block, Start, at
  <2> QED  BY <2>3, <2>4 DEF SearchInv
<1>7. CASE ~ (StopsAt(w) \/ Follow(w).hits <= 0)
  <2> DEFINE q == NextLink(w)
             e == w.dist + Gap(q, w.p)
  <2>1. walk' = [w EXCEPT !.p = q, !.dist = e, !.hits = w.hits - 1]
        /\ Follow(w) = [w EXCEPT !.p = q, !.dist = e, !.hits = w.hits - 1]
    BY <1>1, <1>5, <1>7 DEF Follow, WalkType
  <2>2. w.best < w.limit /\ q # w.p /\ w.hits - 1 > 0
    <3>1. Follow(w).hits = w.hits - 1
      BY <1>5, <2>1 DEF WalkType
    <3>2. w.best \in Int /\ w.limit \in Int /\ w.hits \in Int
      BY <1>5 DEF WalkType
    <3> HIDE DEF q
    <3>3. ~ (w.best >= w.limit) /\ NextLink(w) # w.p /\ ~ (w.hits - 1 <= 0)
      BY <1>7, <3>1 DEF StopsAt
    <3> QED  BY <3>2, <3>3 DEF q
  <2>3. PICK c, f : /\ c = ChainOf(w) /\ ChainExact(c, f, Start, pos)
                    /\ c.prev \in [Slots -> Slots]
    BY HashFacts DEF ChainOf
  <2>4. /\ e \in Nat
        /\ e < WindowSize => /\ e \in 1 .. at /\ at - e \in Live
                             /\ q = Slot(at - e)
                             /\ c.hashval[q] = c.hashval[w.p]
    BY <1>2, <1>4, <1>5, <2>2, <2>3, FollowStep DEF NextLink
  <2>5. q \in Slots
    BY <1>5, <2>3 DEF NextLink, WalkType
  <2> HIDE DEF q, e
  <2>6. /\ walk' \in WalkType /\ walk'.best = w.best /\ walk'.limit = w.limit
        /\ walk'.dist = e /\ walk'.p = q /\ walk'.second = w.second
    <3>1. w.hits - 1 \in 1 .. maxHits
      <4>1. maxHits \in Nat
        BY MatchAssumption DEF SearchInv, MatchTypes
      <4>2. w.hits \in 1 .. maxHits
        BY <1>5 DEF WalkType
      <4> QED  BY <2>2, <4>1, <4>2
    <3> QED  BY <1>5, <2>1, <2>4, <2>5, <3>1 DEF WalkType
  <2>7. MatchTypes'
    BY <1>1, <1>3, <1>4, <1>5, <2>6
       DEF SearchInv, MatchTypes, WalkType, vars, at, Block
  <2>8. WalkInWindow'
    <3>1. /\ at' = at /\ Live' = Live /\ val' = val /\ val2' = val2
          /\ ChainOf(walk)' = c
      BY <1>1, <2>3, <2>6 DEF vars, at, Live, Start, ChainOf
    <3> QED  BY <1>5, <2>2, <2>3, <2>4, <2>6, <3>1 DEF WalkInWindow, Slot
  <2>9. CacheSound' /\ HashesOfLast'
    BY <1>1 DEF SearchInv, CacheSound, HashesOfLast, vars, Block, Start, at
  <2> QED  BY <2>7, <2>8, <2>9 DEF SearchInv
<1> QED  BY <1>6, <1>7

(* What is put into the cache is a match or none.                           *)
LEMMA StoredIsSound ==
  ASSUME SearchInv, NEW limit, NEW wantsub, NEW sublen,
         NEW length \in 0 .. MaxMatch, NEW dist \in 0 .. WindowSize - 1, at \in Block,
         lmc' = StoredCache(limit, wantsub, sublen, dist, length), UNCHANGED Block
  PROVE  CacheSound'
<1>1. MinMatch \in Nat /\ MaxMatch \in Nat /\ 0 \in 0 .. MaxMatch /\ 0 \in 0 .. WindowSize - 1
  BY CacheAssumption, MatchAssumption, HashAssumption
<1>2. CASE lmc' = lmc
  BY <1>2 DEF SearchInv, CacheSound
<1>3. CASE lmc' # lmc
  <2> DEFINE d == IF length < MinMatch THEN 0 ELSE dist
             n == IF length < MinMatch THEN 0 ELSE length
             c == [lmc EXCEPT !.dist[at] = d, !.length[at] = n]
  <2>1. lmc # NoCache /\ lmc' = SublenToCache(c, at, length, sublen)
    BY <1>3 DEF StoredCache
  <2>2. /\ d \in 0 .. WindowSize - 1 /\ n \in 0 .. MaxMatch
        /\ d # 0 => n >= MinMatch
    BY <1>1
  <2> HIDE DEF d, n
  <2>3. /\ DOMAIN lmc = {"length", "dist", "runOff", "pool", "used", "cap", "alloc", "complete"}
        /\ lmc.length \in [Block -> 0 .. MaxMatch]
        /\ lmc.dist \in [Block -> 0 .. WindowSize - 1]
        /\ \A q \in Block : lmc.dist[q] # 0 => lmc.length[q] >= MinMatch
    BY <2>1 DEF SearchInv, CacheSound
  <2>4. /\ DOMAIN c = DOMAIN lmc
        /\ c.length = [lmc.length EXCEPT ![at] = n]
        /\ c.dist = [lmc.dist EXCEPT ![at] = d]
    BY <2>3
  <2> HIDE DEF c
  <2>5. DOMAIN lmc' = DOMAIN c /\ lmc'.length = c.length /\ lmc'.dist = c.dist
    BY <2>1, <2>3, <2>4 DEF SublenToCache
  <2>6. /\ c.length \in [Block -> 0 .. MaxMatch]
        /\ c.dist \in [Block -> 0 .. WindowSize - 1]
        /\ \A q \in Block : c.dist[q] # 0 => c.length[q] >= MinMatch
    BY <2>2, <2>3, <2>4
  <2> QED  BY <2>3, <2>4, <2>5, <2>6 DEF CacheSound
<1> QED  BY <1>2, <1>3

LEMMA ServeStep ==
  ASSUME IInv, SearchInv, NEW limit, NEW wantsub, <<limit, wantsub>> \in Calls,
         Serve(limit, wantsub) \/ GiveUpNearEnd(limit, wantsub)
  PROVE  SearchInv'
<1>1. /\ at \in Block /\ call' = <<limit, wantsub>> /\ phase' = "found"
      /\ UNCHANGED <<vars, pass, maxHits, walk>>
  BY DEF Serve, GiveUpNearEnd, CanSearch
<1>2. MaxMatch \in Nat /\ MinMatch \in Nat /\ limit \in MinMatch .. MaxMatch
  BY MatchAssumption, CacheAssumption
<1>3. found'.length \in 0 .. MaxMatch /\ CacheSound'
  <2>1. CASE Serve(limit, wantsub)
    <3>1. lmc' = lmc /\ lmc # NoCache /\ found'.length = Lesser(lmc.length[at], limit)
      BY <2>1 DEF Serve, CacheAnswers, LimitOkForCache, CacheKnows, CachedAnswers
    <3>2. lmc.length[at] \in 0 .. MaxMatch
      BY <1>1, <3>1 DEF SearchInv, CacheSound
    <3>3. Lesser(lmc.length[at], limit) \in 0 .. MaxMatch
      BY <1>2, <3>2 DEF Lesser
    <3>4. CacheSound'
      BY <1>1, <3>1 DEF SearchInv, CacheSound, vars, Block
    <3> QED  BY <3>1, <3>3, <3>4
  <2>2. CASE GiveUpNearEnd(limit, wantsub)
    <3>1. found'.length = 0
      BY <2>2 DEF GiveUpNearEnd, NotFound
    <3>2. lmc' = StoredCache(UsableLimit(limit, wantsub), wantsub, NoSublens, 0, 0)
      BY <2>2 DEF GiveUpNearEnd
    <3>3. Block' = Block
      BY <1>1 DEF vars, Block
    <3>4. 0 \in 0 .. MaxMatch /\ 0 \in 0 .. WindowSize - 1
      BY <1>2, HashAssumption
    <3> QED  BY <1>1, <1>2, <3>1, <3>2, <3>3, <3>4, StoredIsSound
  <2> QED  BY <2>1, <2>2
<1>4. MatchTypes'
  <2>1. call' \in (MinMatch .. MaxMatch) \X BOOLEAN
    BY <1>1, MatchAssumption
  <2>2. walk' \in WalkType' /\ at' = at /\ Block' = Block
    BY <1>1 DEF SearchInv, MatchTypes, WalkType, vars, at, Block
  <2> QED  BY <1>1, <1>3, <2>1, <2>2 DEF SearchInv, MatchTypes
<1>5. HashesOfLast' /\ WalkInWindow'
  BY <1>1 DEF SearchInv, HashesOfLast, WalkInWindow, vars, Start, at
<1> QED  BY <1>3, <1>4, <1>5 DEF SearchInv

LEMMA FinishStep ==
  ASSUME IInv, SearchInv, Finish PROVE SearchInv'
<1>1. /\ phase = "walk" /\ phase' = "found" /\ walk' = NoWalk
      /\ UNCHANGED <<vars, pass, maxHits, call>>
      /\ found'.length = walk.best
      /\ lmc' = StoredCache(walk.limit, call[2], IF call[2] THEN walk.sublen ELSE NoSublens,
                            walk.bestdist, walk.best)
  BY DEF Finish
<1>2. /\ at \in Block /\ MaxMatch \in Nat /\ walk.best \in 1 .. MaxMatch
      /\ walk.bestdist \in 0 .. WindowSize - 1
  BY <1>1, MatchAssumption DEF SearchInv, MatchTypes, WalkType
<1>3. Block' = Block /\ at' = at
  BY <1>1 DEF vars, Block, at
<1>4. CacheSound'
  BY <1>1, <1>2, <1>3, StoredIsSound
<1>5. MatchTypes'
  <2>1. walk' \in WalkType'
    BY <1>1, NoWalkType DEF SearchInv, MatchTypes, WalkType
  <2> QED  BY <1>1, <1>2, <1>3, <2>1 DEF SearchInv, MatchTypes
<1>6. HashesOfLast' /\ WalkInWindow'
  BY <1>1 DEF SearchInv, HashesOfLast, WalkInWindow, vars, Start, at
<1> QED  BY <1>4, <1>5, <1>6 DEF SearchInv

LEMMA IdleStep ==
  ASSUME SearchInv, UNCHANGED allVars PROVE SearchInv'
BY DEF allVars, vars, matchVars, SearchInv, MatchTypes, CacheSound, HashesOfLast,
       WalkInWindow, WalkType, at, Block, Start, Live, ChainOf, Slot

-----------------------------------------------------------------------------
(* ZopfliFindLongestMatch (lz77.c:553-703) with its cache: the strengthening *)
(* of the two properties below, whatever calls and passes a caller makes.    *)
THEOREM SearchInvariant == SearchSpec => []SearchInv
<1>1. IInv /\ SearchInv /\ [NextSearch]_allVars => SearchInv'
  <2> SUFFICES ASSUME IInv, SearchInv, [NextSearch]_allVars PROVE SearchInv'
    OBVIOUS
  <2>1. CASE Advance \/ NextPass
    BY <2>1, CallerStep
  <2>2. CASE Search
    <3>1. PICK c \in Calls : \/ Serve(c[1], c[2]) \/ GiveUpNearEnd(c[1], c[2])
                             \/ StartWalk(c[1], c[2])
      BY <2>2 DEF Search
    <3>2. <<c[1], c[2]>> \in Calls
      BY MatchAssumption
    <3> QED  BY <3>1, <3>2, ServeStep, StartWalkStep
  <2>3. CASE Visit
    BY <2>3, VisitStep
  <2>4. CASE Finish
    BY <2>4, FinishStep
  <2>5. CASE Done \/ UNCHANGED allVars
    BY <2>5, IdleStep DEF Done
  <2> QED  BY <2>1, <2>2, <2>3, <2>4, <2>5 DEF NextSearch
<1>2. SearchSpec => []IInv
  BY SearchDrivesHash, Invariant, PTL
<1> QED  BY InitSearchInv, <1>1, <1>2, PTL DEF SearchSpec

(* The walk of a search (lz77.c:630-692): whatever the ring has overwritten, *)
(* its slot is that of a position in the window, at the distance it claims.  *)
THEOREM WalkStaysInWindow == SearchSpec => []WalkInWindow
<1>1. SearchInv => WalkInWindow
  BY DEF SearchInv
<1> QED  BY SearchInvariant, <1>1, PTL

(* The types of a search, the limit that is asserted at lz77.c:589-590       *)
(* included, also when the cache has made it shorter.                        *)
THEOREM SearchTypeCorrect == SearchSpec => []SearchTypeOK
<1>1. IInv /\ SearchInv => SearchTypeOK
  BY DEF IInv, SearchInv, MatchTypes, WalkType, SearchTypeOK
<1>2. SearchSpec => []IInv
  BY SearchDrivesHash, Invariant, PTL
<1> QED  BY SearchInvariant, <1>1, <1>2, PTL

-----------------------------------------------------------------------------
(* The nearest and the longest matches: what the reference is.               *)

(* d is the nearest distance at which q has a match of length k.             *)
IsNearest(q, k, d) ==
  /\ d \in Reaching(q, k)
  /\ \A e \in Reaching(q, k) : d <= e

LEMMA DistsType == \A q : Dists(q) \subseteq 1 .. WindowSize - 1
BY DEF Dists

(* A nearest distance is the one the reference chooses.                      *)
LEMMA NearestIs ==
  ASSUME NEW q, NEW k, NEW d, IsNearest(q, k, d)
  PROVE  Nearest(q, k) = d /\ d \in 1 .. WindowSize - 1
<1>1. /\ d \in Reaching(q, k) /\ \A e \in Reaching(q, k) : d <= e
      /\ \A e \in Reaching(q, k) : e \in 1 .. WindowSize - 1
  BY DistsType DEF IsNearest, Reaching
<1>2. ASSUME NEW e \in Reaching(q, k), \A g \in Reaching(q, k) : e <= g
      PROVE  e = d
  BY <1>1, <1>2, HashAssumption
<1>3. Nearest(q, k) = d
  BY <1>1, <1>2 DEF Nearest
<1> QED  BY <1>1, <1>3

(* What agrees over a length agrees over every shorter one.                 *)
LEMMA ReachingShrinks ==
  ASSUME NEW q \in Nat, end \in Nat, NEW n \in Nat, NEW k \in 0 .. n
  PROVE  Reaching(q, n) \subseteq Reaching(q, k)
<1> SUFFICES ASSUME NEW d \in Reaching(q, n) PROVE d \in Reaching(q, k)
  OBVIOUS
<1>1. d \in Dists(q) /\ q + n <= end /\ \A j \in 0 .. n - 1 : array[q + j] = array[q - d + j]
  BY DEF Reaching, Agree
<1>2. q + k <= end /\ \A j \in 0 .. k - 1 : j \in 0 .. n - 1
  BY <1>1
<1> QED  BY <1>1, <1>2 DEF Reaching, Agree

(* The longest match is a match, and no length beyond it is one.            *)
LEMMA LongestReaches ==
  ASSUME NEW q \in Nat, end \in Nat
  PROVE  /\ Longest(q) \in 0 .. MaxMatch
         /\ \A k \in 1 .. MaxMatch : Reaching(q, k) # {} <=> k <= Longest(q)
<1> DEFINE Stops(n) == n = MaxMatch \/ Reaching(q, n + 1) = {}
           T == {n \in 0 .. MaxMatch : Stops(n)}
           Is(n) == /\ n > 0 => Reaching(q, n) # {}
                    /\ n < MaxMatch => Reaching(q, n + 1) = {}
<1>0. MaxMatch \in Nat
  BY MatchAssumption
<1>1. PICK m \in T : \A n \in T : m <= n
  <2>1. T \in SUBSET Nat /\ MaxMatch \in T
    BY <1>0
  <2> HIDE DEF T
  <2> QED  BY <2>1, LeastNat
<1>2. m \in 0 .. MaxMatch /\ Stops(m)
  OBVIOUS
<1>3. m > 0 => Reaching(q, m) # {}
  <2> SUFFICES ASSUME m > 0 PROVE Reaching(q, m) # {}
    OBVIOUS
  <2>1. m - 1 \in 0 .. MaxMatch /\ ~ (m <= m - 1) /\ (m - 1) + 1 = m
    BY <1>0, <1>2
  <2>2. ~ Stops(m - 1)
    BY <1>1, <2>1
  <2> QED  BY <2>1, <2>2
<1>4. Is(m)
  BY <1>0, <1>2, <1>3
<1>5. Longest(q) \in 0 .. MaxMatch /\ Is(Longest(q))
  BY <1>2, <1>4 DEF Longest
<1> HIDE DEF T, Stops
<1>6. ASSUME NEW k \in 1 .. MaxMatch PROVE Reaching(q, k) # {} <=> k <= Longest(q)
  <2>1. CASE k <= Longest(q)
    <3>1. Longest(q) > 0 /\ Longest(q) \in Nat /\ k \in 0 .. Longest(q)
      BY <1>0, <1>5, <2>1
    <3> QED  BY <1>5, <2>1, <3>1, ReachingShrinks
  <2>2. CASE ~ (k <= Longest(q))
    <3>1. Longest(q) < MaxMatch /\ Longest(q) + 1 \in 0 .. k /\ k \in Nat
      BY <1>0, <1>5, <2>2
    <3> QED  BY <1>5, <2>2, <3>1, ReachingShrinks
  <2> QED  BY <2>1, <2>2
<1> QED  BY <1>5, <1>6

(* Inside the runs of two positions that begin with the same byte nothing   *)
(* differs (lz77.c:643-651).                                                *)
LEMMA KnownEqualAgrees ==
  ASSUME IInv, at \in Block, NEW d \in 1 .. at, at - d \in Live, NEW limit \in Nat
  PROVE  /\ KnownEqual(d, limit) \in 0 .. limit
         /\ \A j \in 0 .. KnownEqual(d, limit) - 1 : SameByte(at, d, j)
<1> DEFINE a == same[Slot(at)]
           b == same[Slot(at - d)]
<1>1. at \in Nat /\ at \in Live /\ at - d \in Nat
  BY InBlock
<1>2. a \in Nat /\ b \in Nat /\ IsRun(at, a) /\ IsRun(at - d, b)
  BY <1>1, SlotType, HashAssumption DEF IInv, TypeOK, SameExact
<1> HIDE DEF a, b
<1>3. CASE a > 2 /\ array[at] = array[at - d]
  <2>1. KnownEqual(d, limit) = Lesser(Lesser(a, limit), b)
    BY <1>3 DEF KnownEqual, a, b
  <2>2. /\ KnownEqual(d, limit) \in 0 .. limit
        /\ KnownEqual(d, limit) <= a /\ KnownEqual(d, limit) <= b
    BY <1>2, <2>1 DEF Lesser
  <2>3. ASSUME NEW j \in 0 .. KnownEqual(d, limit) - 1
        PROVE  SameByte(at, d, j)
    <3>1. CASE j = 0
      BY <1>1, <1>3, <3>1 DEF SameByte
    <3>2. CASE j # 0
      <4>1. /\ j - 1 \in 0 .. a - 1 /\ j - 1 \in 0 .. b - 1
            /\ at + (j - 1) + 1 = at + j /\ at - d + (j - 1) + 1 = at - d + j
        BY <1>1, <1>2, <2>2, <3>2
      <4>2. Repeats(at, j - 1) /\ Repeats(at - d, j - 1)
        BY <1>2, <4>1 DEF IsRun
      <4> QED  BY <1>3, <4>1, <4>2 DEF Repeats, SameByte
    <3> QED  BY <3>1, <3>2
  <2> QED  BY <2>2, <2>3
<1>4. CASE ~ (a > 2 /\ array[at] = array[at - d])
  BY <1>4 DEF KnownEqual, a
<1> QED  BY <1>3, <1>4

(* A candidate's length is how far it agrees, up to the limit; a candidate  *)
(* that would not be longer than the best one may be given up at once.      *)
LEMMA CandidateExact ==
  ASSUME IInv, at \in Block, NEW w, w.dist \in 1 .. at, at - w.dist \in Live,
         w.limit \in Nat, w.best \in Nat, w.best < w.limit,
         NEW n, n = CandidateLength(w)
  PROVE  /\ n \in 0 .. w.limit
         /\ n > w.best => Agree(at, w.dist, n)
         /\ \A k \in w.best + 1 .. w.limit : Agree(at, w.dist, k) => k <= n
<1>1. at \in Nat
  BY InBlock
<1>2. CASE array[at + w.best] = array[at - w.dist + w.best]
  <2> DEFINE s == KnownEqual(w.dist, w.limit)
  <2>1. s \in 0 .. w.limit /\ \A j \in 0 .. s - 1 : SameByte(at, w.dist, j)
    BY KnownEqualAgrees
  <2>2. n = GetMatch(at, w.dist, s, w.limit)
    BY <1>2 DEF CandidateLength
  <2> HIDE DEF s
  <2>3. /\ n \in s .. w.limit
        /\ n = w.limit \/ ~ SameByte(at, w.dist, n)
        /\ \A k \in s .. n - 1 : SameByte(at, w.dist, k)
    BY <2>1, <2>2, GetMatchExact
  <2>4. Agree(at, w.dist, n)
    <3> SUFFICES ASSUME NEW j \in 0 .. n - 1 PROVE SameByte(at, w.dist, j)
      BY DEF Agree, SameByte
    <3>1. j \in 0 .. s - 1 \/ j \in s .. n - 1
      BY <2>1, <2>3
    <3> QED  BY <2>1, <2>3, <3>1
  <2>5. ASSUME NEW k \in w.best + 1 .. w.limit, Agree(at, w.dist, k), ~ (k <= n) PROVE FALSE
    <3>1. n \in 0 .. k - 1 /\ n # w.limit
      BY <2>1, <2>3, <2>5
    <3> QED  BY <2>3, <2>5, <3>1 DEF Agree, SameByte
  <2>6. n \in 0 .. w.limit
    BY <2>1, <2>3
  <2> QED  BY <2>4, <2>5, <2>6
<1>3. CASE array[at + w.best] # array[at - w.dist + w.best]
  <2>1. n = 0
    BY <1>3 DEF CandidateLength
  <2>2. ASSUME NEW k \in w.best + 1 .. w.limit PROVE ~ Agree(at, w.dist, k)
    <3>1. w.best \in 0 .. k - 1
      BY <2>2
    <3> QED  BY <1>3, <3>1 DEF Agree
  <2> QED  BY <2>1, <2>2
<1> QED  BY <1>2, <1>3

-----------------------------------------------------------------------------
(* What a walk has seen: no candidate passed over is better than its best.   *)

(* For every length up to the best, the distance the walk holds is the       *)
(* nearest.                                                                  *)
BestSoFar(w) ==
  /\ \A k \in MinMatch .. w.best : IsNearest(at, k, w.sublen[k])
  /\ w.best >= MinMatch => w.bestdist = w.sublen[w.best]

(* No candidate nearer than dist agrees further than the best.               *)
NoneNearer(w, dist) ==
  \A d \in Dists(at), k \in MinMatch .. w.limit :
    d < dist /\ Agree(at, d, k) => k <= w.best

(* A candidate is at least one position away from the one before it, so that *)
(* a window full of them cannot use up more than a window of hits.           *)
HitsLeft(w) == w.dist < WindowSize => w.hits + w.dist > maxHits

(* What a walk knows; in the second chain it has a match as long as the run  *)
(* of the current byte.                                                      *)
WalkNearest ==
  phase = "walk" =>
    /\ walk.limit <= end - at /\ walk.limit <= call[1]
    /\ maxHits >= WindowSize =>
         \A k \in MinMatch .. call[1] : Reaching(at, k) # {} => k <= walk.limit
    /\ BestSoFar(walk)
    /\ walk.dist < WindowSize \/ maxHits >= WindowSize => NoneNearer(walk, walk.dist)
    /\ HitsLeft(walk)
    /\ walk.second => walk.best >= same[Slot(at)]

(* What is known when a candidate is visited.                               *)
LEMMA VisitFacts ==
  ASSUME IInv, SearchInv, phase = "walk", walk.dist < WindowSize
  PROVE  /\ at \in Block /\ at \in Nat /\ pos = at + 1 /\ Start \in Nat /\ end \in Nat
         /\ MinMatch \in Nat /\ 3 <= MinMatch /\ WindowSize \in Nat
         /\ walk.dist \in 1 .. at /\ walk.dist \in 1 .. WindowSize - 1
         /\ at - walk.dist \in Live /\ walk.p = Slot(at - walk.dist)
         /\ walk.limit \in Nat /\ walk.best \in Nat /\ walk.best < walk.limit
         /\ at \in Live /\ at - walk.dist \in Start .. at - 1
<1>1. at \in Block /\ at \in Nat /\ pos = at + 1 /\ at \in Live
  BY InBlock DEF SearchInv, MatchTypes
<1>2. /\ walk.dist \in 1 .. at /\ at - walk.dist \in Live
      /\ walk.p = Slot(at - walk.dist) /\ walk.best < walk.limit
  BY DEF SearchInv, WalkInWindow
<1>3. walk.limit \in Nat /\ walk.best \in Nat
  BY MatchAssumption, CacheAssumption DEF SearchInv, MatchTypes, WalkType
<1>4. Start \in Nat /\ end \in Nat
  BY HashFacts
<1>5. at - walk.dist \in Start .. at - 1
  BY <1>1, <1>2, <1>4 DEF Live, LiveAt
<1> QED
  BY <1>1, <1>2, <1>3, <1>4, <1>5, MatchAssumption, CacheAssumption, HashAssumption

(* Comparing a candidate keeps the best the best, the candidate included.    *)
LEMMA ImprovedNearest ==
  ASSUME IInv, SearchInv, WalkNearest, phase = "walk", walk.dist < WindowSize,
         NEW v, v = Improved(walk)
  PROVE  /\ BestSoFar(v) /\ NoneNearer(v, walk.dist + 1)
         /\ v.best \in Nat /\ v.best >= walk.best /\ v.hits = walk.hits
<1> DEFINE n == CandidateLength(walk)
           D == walk.dist
<1>1. /\ at \in Block /\ at \in Nat /\ end \in Nat /\ MinMatch \in Nat /\ 3 <= MinMatch
      /\ D \in 1 .. at /\ D \in 1 .. WindowSize - 1 /\ at - D \in Live
      /\ walk.limit \in Nat /\ walk.best \in Nat /\ walk.best < walk.limit
  BY VisitFacts
<1>2. /\ walk.limit <= end - at /\ BestSoFar(walk) /\ NoneNearer(walk, D)
  BY DEF WalkNearest
<1>3. /\ n \in 0 .. walk.limit
      /\ n > walk.best => Agree(at, D, n)
      /\ \A k \in walk.best + 1 .. walk.limit : Agree(at, D, k) => k <= n
  BY <1>1, CandidateExact
<1>4. D \in Dists(at)
  BY <1>1 DEF Dists
<1>5. walk \in WalkType
  BY DEF SearchInv, MatchTypes
<1> HIDE DEF n
<1>6. CASE n <= walk.best
  <2>1. v = walk
    BY <1>6 DEF Improved, n
  <2>2. NoneNearer(walk, D + 1)
    <3> SUFFICES ASSUME NEW d \in Dists(at), NEW k \in MinMatch .. walk.limit,
                        d < D + 1, Agree(at, d, k), ~ (k <= walk.best)
                 PROVE  FALSE
      BY DEF NoneNearer
    <3>1. d \in Nat /\ k \in walk.best + 1 .. walk.limit
      BY <1>1, DistsType
    <3>2. CASE d = D
      BY <1>1, <1>3, <1>6, <3>1, <3>2
    <3>3. CASE d # D
      <4>1. d < D
        BY <1>1, <3>1, <3>3
      <4> QED  BY <1>2, <4>1 DEF NoneNearer
    <3> QED  BY <3>2, <3>3
  <2> QED  BY <1>1, <1>2, <2>1, <2>2
<1>7. CASE ~ (n <= walk.best)
  <2> DEFINE sublen == [k \in DOMAIN walk.sublen |->
                          IF walk.best < k /\ k <= n THEN D ELSE walk.sublen[k]]
  <2>1. v = [walk EXCEPT !.best = n, !.bestdist = D, !.sublen = sublen]
    BY <1>7 DEF Improved, n
  <2>2. n \in Nat /\ walk.best < n /\ n <= walk.limit
    BY <1>1, <1>3, <1>7
  <2>3. /\ walk.sublen \in [1 .. MaxMatch -> 0 .. WindowSize - 1]
        /\ walk.limit <= MaxMatch /\ MaxMatch \in Nat
    <3>1. walk.sublen \in [1 .. MaxMatch -> 0 .. WindowSize - 1]
      BY <1>5 DEF WalkType
    <3>2. walk.limit \in MinMatch .. MaxMatch
      BY DEF SearchInv, MatchTypes
    <3>3. MaxMatch \in Nat /\ walk.limit <= MaxMatch
      BY <1>1, <3>2, MatchAssumption, CacheAssumption
    <3> QED  BY <3>1, <3>3
  <2>4. \A k \in MinMatch .. n : sublen[k] = IF walk.best < k THEN D ELSE walk.sublen[k]
    <3> TAKE k \in MinMatch .. n
    <3>1. k \in DOMAIN walk.sublen /\ k <= n
      BY <1>1, <2>2, <2>3
    <3> QED  BY <3>1
  <2> HIDE DEF sublen
  <2>5. v.best = n /\ v.bestdist = D /\ v.sublen = sublen /\ v.hits = walk.hits
        /\ v.limit = walk.limit
    BY <1>5, <2>1 DEF WalkType
  <2>6. ASSUME NEW k \in MinMatch .. n PROVE IsNearest(at, k, sublen[k])
    <3>1. CASE k <= walk.best
      <4>1. k \in MinMatch .. walk.best /\ sublen[k] = walk.sublen[k]
        BY <1>1, <2>2, <2>4, <3>1
      <4> QED  BY <1>2, <4>1 DEF BestSoFar
    <3>2. CASE walk.best < k
      <4>1. sublen[k] = D
        BY <2>4, <3>2
      <4>2. D \in Reaching(at, k)
        <5>1. at + n <= end /\ k \in 0 .. n
          BY <1>1, <1>2, <2>2
        <5>2. D \in Reaching(at, n)
          BY <1>3, <1>4, <2>2, <5>1 DEF Reaching
        <5> QED  BY <1>1, <2>2, <5>1, <5>2, ReachingShrinks
      <4>3. ASSUME NEW e \in Reaching(at, k), ~ (D <= e) PROVE FALSE
        <5>1. e \in Dists(at) /\ e \in Nat /\ Agree(at, e, k)
          BY DistsType DEF Reaching
        <5>2. e < D /\ k \in MinMatch .. walk.limit
          BY <1>1, <2>2, <4>3, <5>1
        <5>3. k <= walk.best
          BY <1>2, <5>1, <5>2 DEF NoneNearer
        <5> QED  BY <1>1, <2>2, <3>2, <5>3
      <4> QED  BY <4>1, <4>2, <4>3 DEF IsNearest
    <3>3. k <= walk.best \/ walk.best < k
      BY <1>1, <2>2
    <3> QED  BY <3>1, <3>2, <3>3
  <2>7. n >= MinMatch => sublen[n] = D
    BY <1>1, <2>2, <2>4
  <2>8. NoneNearer(v, D + 1)
    <3> SUFFICES ASSUME NEW d \in Dists(at), NEW k \in MinMatch .. walk.limit,
                        d < D + 1, Agree(at, d, k), ~ (k <= n)
                 PROVE  FALSE
      BY <2>5 DEF NoneNearer
    <3>1. d \in Nat /\ k \in walk.best + 1 .. walk.limit
      BY <1>1, <2>2, DistsType
    <3>2. CASE d = D
      BY <1>1, <1>3, <3>1, <3>2
    <3>3. CASE d # D
      <4>1. d < D
        BY <1>1, <3>1, <3>3
      <4>2. k <= walk.best
        BY <1>2, <4>1 DEF NoneNearer
      <4> QED  BY <1>1, <2>2, <3>1, <4>2
    <3> QED  BY <3>2, <3>3
  <2>9. BestSoFar(v)
    BY <2>5, <2>6, <2>7 DEF BestSoFar
  <2> QED  BY <1>1, <2>2, <2>5, <2>8, <2>9
<1> QED  BY <1>6, <1>7

-----------------------------------------------------------------------------
(* What a link passes over.                                                  *)

(* What a link passes over has another key.                                 *)
LEMMA LinkPasses ==
  ASSUME NEW c, NEW f, NEW s \in Nat, NEW q \in Nat, LinkExact(c, f, s, q),
         NEW p \in s .. q - 1, q - p < WindowSize, q - p < Gap(c.prev[Slot(q)], Slot(q))
  PROVE  f[p] # f[q]
<1>1. CASE \A r \in s .. q - 1 : q - r < WindowSize => f[r] # f[q]
  BY <1>1
<1>2. CASE \E r \in s .. q - 1 : /\ q - r < WindowSize
                                 /\ c.prev[Slot(q)] = Slot(r) /\ f[r] = f[q]
                                 /\ \A t \in r + 1 .. q - 1 : f[t] # f[q]
  <2>1. PICK r \in s .. q - 1 : /\ q - r < WindowSize
                                /\ c.prev[Slot(q)] = Slot(r)
                                /\ \A t \in r + 1 .. q - 1 : f[t] # f[q]
    BY <1>2
  <2>2. Gap(Slot(r), Slot(q)) = q - r
    BY <2>1, GapIsDistance
  <2>3. p \in r + 1 .. q - 1
    BY <2>1, <2>2
  <2> QED  BY <2>1, <2>3
<1> QED  BY <1>1, <1>2 DEF LinkExact

(* Positions inside the input that agree over three bytes have the same     *)
(* hash.                                                                    *)
LEMMA AgreeingHash ==
  ASSUME IInv, at \in Block, NEW d \in Dists(at), NEW k \in Nat, 3 <= k, at + k <= end,
         Agree(at, d, k)
  PROVE  /\ d \in 1 .. at /\ d < WindowSize /\ at - d \in Start .. at - 1
         /\ HashAt(at - d) = HashAt(at)
<1>1. /\ at \in Nat /\ pos = at + 1 /\ Start \in Nat /\ instart \in Nat /\ instart <= at
      /\ end \in Nat /\ WindowSize \in Nat \ {0}
      /\ Start = IF instart > WindowSize THEN instart - WindowSize ELSE 0
  BY InBlock, HashFacts, HashAssumption DEF Start, WindowStart, Block
<1>2. d \in 1 .. at /\ d < WindowSize /\ at - d \in Start .. at - 1
  BY <1>1 DEF Dists
<1>3. /\ array[at] = array[at - d] /\ array[at + 1] = array[at - d + 1]
      /\ array[at + 2] = array[at - d + 2]
  <2>1. 0 \in 0 .. k - 1 /\ 1 \in 0 .. k - 1 /\ 2 \in 0 .. k - 1
    OBVIOUS
  <2>2. array[at + 0] = array[at - d + 0]
    BY <2>1 DEF Agree
  <2>3. array[at + 1] = array[at - d + 1]
    BY <2>1 DEF Agree
  <2>4. array[at + 2] = array[at - d + 2]
    BY <2>1 DEF Agree
  <2> QED  BY <1>1, <1>2, <2>2, <2>3, <2>4
<1>4. ByteOrZero(at + 1) = ByteOrZero(at - d + 1) /\ ByteOrZero(at + 2) = ByteOrZero(at - d + 2)
  <2>1. at + 1 < end /\ at + 2 < end /\ at - d + 1 < end /\ at - d + 2 < end
    BY <1>1, <1>2
  <2> QED  BY <1>3, <2>1 DEF ByteOrZero
<1> QED  BY <1>2, <1>3, <1>4 DEF HashAt

(* A position that agrees over more than the whole run of the current byte  *)
(* but has another second hash is inside a longer run; then the position    *)
(* after it agrees as far.                                                  *)
LEMMA AgreeingInRun ==
  ASSUME IInv, at \in Block, NEW d \in Dists(at), NEW k \in Nat, 3 <= k, at + k <= end,
         Agree(at, d, k), same[Slot(at)] < k,
         SecondHashes[at - d] # SecondHashes[at]
  PROVE  Agree(at, d - 1, k)
<1> DEFINE s == same[Slot(at)]
           q == at - d
           r == RunLengthAt(q)
<1>1. /\ at \in Nat /\ at \in Live /\ Start \in Nat /\ end \in Nat /\ SameCap \in Nat \ {0}
      /\ at <= end - 1
  BY InBlock, HashFacts, HashAssumption DEF Block
<1>2. d \in 1 .. at /\ q \in Start .. at - 1 /\ q \in Nat /\ HashAt(q) = HashAt(at)
  BY <1>1, AgreeingHash
<1>3. s \in 0 .. SameCap /\ IsRun(at, s) /\ RunLengthAt(at) = s
  <2>1. s \in 0 .. SameCap /\ IsRun(at, s)
    BY <1>1, SlotType DEF IInv, TypeOK, SameExact
  <2> QED  BY <1>1, <2>1, RunLengthUnique
<1>4. r \in 0 .. SameCap /\ IsRun(q, r)
  <2>1. 0 \in 0 .. SameCap /\ \A j \in 0 .. 0 - 1 : Repeats(q, j)
    BY <1>1
  <2>2. CountRun(q, 0) \in 0 .. SameCap /\ IsRun(q, CountRun(q, 0))
    BY <1>1, <1>2, <2>1, CountRunExact
  <2> QED  BY <1>2, <2>2, RunLengthUnique
<1>5. r # s
  <2>1. at \in Start .. end - 1 /\ q \in Start .. end - 1
    BY <1>1, <1>2
  <2>2. /\ SecondHashes[at] = HashSame(HashAt(at), s)
        /\ SecondHashes[q] = HashSame(HashAt(q), r)
    BY <1>3, <2>1 DEF SecondHashes
  <2> QED  BY <1>2, <2>2
<1> HIDE DEF s, q, r
<1>6. \A j \in 0 .. k - 1 : array[at + j] = array[q + j]
  BY DEF Agree, q
<1>7. array[at] = array[q]
  <2>1. 0 \in 0 .. k - 1 /\ at + 0 = at /\ q + 0 = q
    BY <1>1, <1>2
  <2>2. array[at + 0] = array[q + 0]
    BY <1>6, <2>1
  <2> QED  BY <2>1, <2>2
<1>8. s < k
  BY DEF s
(* A shorter run would end where the current one goes on.                   *)
<1>9. s < r
  <2> SUFFICES ASSUME r < s PROVE FALSE
    BY <1>3, <1>4, <1>5
  <2>1. r + 1 \in 0 .. k - 1 /\ r \in 0 .. s - 1 /\ r < SameCap
    BY <1>1, <1>3, <1>4, <1>8
  <2>2. Repeats(at, r) /\ at + r + 1 = at + (r + 1) /\ q + r + 1 = q + (r + 1)
        /\ q + r + 1 < at + r + 1
    BY <1>1, <1>2, <1>3, <1>4, <2>1 DEF IsRun
  <2>3. array[at + (r + 1)] = array[q + (r + 1)]
    BY <1>6, <2>1
  <2>4. at + r + 1 < end /\ array[at] = array[at + (r + 1)]
    BY <2>2 DEF Repeats
  <2>5. q + r + 1 < end
    BY <1>1, <1>2, <1>4, <2>2, <2>4
  <2>6. Repeats(q, r)
    BY <1>7, <2>1, <2>2, <2>3, <2>4, <2>5 DEF Repeats
  <2> QED  BY <1>4, <2>6 DEF IsRun
(* A longer one goes on where the current one ends, so they agree no longer.*)
<1>10. k = s + 1
  <2> SUFFICES ASSUME s + 1 < k PROVE FALSE
    BY <1>3, <1>8
  <2>1. s + 1 \in 0 .. k - 1 /\ s \in 0 .. r - 1 /\ s < SameCap
    BY <1>1, <1>3, <1>4, <1>9
  <2>2. Repeats(q, s) /\ at + s + 1 = at + (s + 1) /\ q + s + 1 = q + (s + 1)
    BY <1>1, <1>2, <1>3, <1>4, <2>1 DEF IsRun
  <2>3. array[at + (s + 1)] = array[q + (s + 1)]
    BY <1>6, <2>1
  <2>4. at + s + 1 < end
    BY <1>1, <1>3
  <2>5. Repeats(at, s)
    BY <1>7, <2>1, <2>2, <2>3, <2>4 DEF Repeats
  <2> QED  BY <1>3, <2>5 DEF IsRun
<1>11. ASSUME NEW j \in 0 .. k - 1 PROVE array[at + j] = array[at - (d - 1) + j]
  <2>1. j \in 0 .. r - 1 /\ q + j + 1 = at - (d - 1) + j
    BY <1>1, <1>2, <1>3, <1>4, <1>9, <1>10 DEF q
  <2>2. array[q] = array[q + j + 1]
    BY <1>4, <2>1 DEF IsRun, Repeats
  <2>3. array[at + j] = array[q]
    <3>1. CASE j = 0
      BY <1>1, <1>7, <3>1
    <3>2. CASE j # 0
      <4>1. j - 1 \in 0 .. s - 1 /\ at + (j - 1) + 1 = at + j
        BY <1>1, <1>3, <1>10, <3>2
      <4>2. Repeats(at, j - 1)
        BY <1>3, <4>1 DEF IsRun
      <4> QED  BY <1>7, <4>1, <4>2 DEF Repeats
    <3> QED  BY <3>1, <3>2
  <2> QED  BY <2>1, <2>2, <2>3
<1> QED  BY <1>11 DEF Agree

(* Following the link of a candidate passes over nothing better, whichever  *)
(* chain it is in; a candidate that links to itself is the last one.        *)
LEMMA FollowNearest ==
  ASSUME IInv, SearchInv, phase = "walk", walk.dist < WindowSize, walk.limit <= end - at,
         NEW w \in WalkType, w.p = walk.p, w.dist = walk.dist, w.limit = walk.limit,
         ChainOf(w).hashval[w.p] = IF w.second THEN val2 ELSE val,
         w.second => w.best >= same[Slot(at)],
         NoneNearer(w, w.dist + 1)
  PROVE  NoneNearer(w, w.dist + Gap(NextLink(w), w.p))
<1> DEFINE D == w.dist
           next == D + Gap(NextLink(w), w.p)
           Better(d) == d < next /\ \E k \in MinMatch .. w.limit : Agree(at, d, k) /\ ~ (k <= w.best)
           X == {d \in Dists(at) : Better(d)}
           q == at - D
<1>1. /\ at \in Block /\ at \in Nat /\ pos = at + 1 /\ Start \in Nat /\ end \in Nat
      /\ MinMatch \in Nat /\ 3 <= MinMatch /\ WindowSize \in Nat
      /\ D \in 1 .. at /\ D \in 1 .. WindowSize - 1
      /\ q \in Live /\ w.p = Slot(q) /\ w.limit \in Nat
      /\ at \in Live /\ q \in Start .. at - 1 /\ q \in Nat
  BY VisitFacts
<1>2. w.best \in Nat /\ Gap(NextLink(w), w.p) = Gap(ChainOf(w).prev[Slot(q)], Slot(q))
  BY <1>1, MatchAssumption DEF WalkType, NextLink
<1>3. next \in Nat /\ next <= D + WindowSize
  <2>1. w.p \in Slots /\ NextLink(w) \in Slots
    BY HashFacts DEF NextLink, ChainOf, WalkType
  <2>2. Gap(NextLink(w), w.p) \in 1 .. WindowSize
    BY <2>1, GapType
  <2> QED  BY <1>1, <2>2
<1> HIDE DEF next, q
<1> SUFFICES ASSUME X # {} PROVE FALSE
  BY DEF NoneNearer, next
<1>4. PICK d \in X : \A e \in X : d <= e
  <2>1. X \in SUBSET Nat
    BY DistsType
  <2> HIDE DEF X
  <2> QED  BY <2>1, LeastNat
<1>5. PICK k \in MinMatch .. w.limit : Agree(at, d, k) /\ ~ (k <= w.best)
  OBVIOUS
<1>6. d \in Dists(at) /\ d < next /\ d \in Nat
  BY DistsType
<1>7. k \in Nat /\ 3 <= k /\ at + k <= end
  BY <1>1
<1>8. D < d
  <2> SUFFICES ASSUME d <= D PROVE FALSE
    BY <1>1, <1>6
  <2>1. d < D + 1
    BY <1>1, <1>6
  <2> QED  BY <1>5, <1>6, <2>1 DEF NoneNearer
<1>9. /\ d \in 1 .. at /\ d < WindowSize /\ at - d \in Start .. at - 1
      /\ HashAt(at - d) = HashAt(at)
  BY <1>1, <1>5, <1>6, <1>7, AgreeingHash
<1>10. at - d \in Start .. q - 1 /\ q - (at - d) < WindowSize
       /\ q - (at - d) < Gap(ChainOf(w).prev[Slot(q)], Slot(q))
  <2>1. d < D + Gap(NextLink(w), w.p)
    BY <1>6 DEF next
  <2>2. Gap(NextLink(w), w.p) \in Int
    <3>1. w.p \in Slots /\ NextLink(w) \in Slots
      BY HashFacts DEF NextLink, ChainOf, WalkType
    <3> QED  BY <3>1, GapType
  <2>3. q - (at - d) = d - D
    BY <1>1, <1>6 DEF q
  <2>4. d - D < Gap(NextLink(w), w.p)
    BY <1>1, <1>6, <2>1, <2>2
  <2>5. at - d \in Start .. q - 1
    BY <1>1, <1>8, <1>9 DEF q
  <2>6. d - D < WindowSize
    BY <1>1, <1>9
  <2> QED  BY <1>2, <2>3, <2>4, <2>5, <2>6
<1>11. pos > Start
  BY <1>1
<1>12. CASE ~ w.second
  <2>1. ChainOf(w) = chain /\ ChainExact(chain, Hashes, Start, pos)
    BY <1>12, HashFacts DEF ChainOf
  <2>2. Hashes[at - d] # Hashes[q]
    BY <1>1, <1>10, <2>1, LinkPasses DEF ChainExact, Live
  <2>3. Hashes[q] = chain.hashval[w.p] /\ Hashes[at] = chain.hashval[Slot(at)]
    BY <1>1, <2>1 DEF ChainExact, HashvalExact, Live
  <2>4. Hashes[q] = Hashes[at]
    BY <1>11, <1>12, <2>1, <2>3 DEF SearchInv, HashesOfLast
  <2>5. Hashes[at] = HashAt(at) /\ Hashes[at - d] = HashAt(at - d)
    <3>1. at \in Start .. end - 1 /\ at - d \in Start .. end - 1
      BY <1>1, <1>9 DEF Block
    <3> QED  BY <3>1 DEF Hashes
  <2> QED  BY <1>9, <2>2, <2>4, <2>5
<1>13. CASE w.second
  <2>1. ChainOf(w) = chain2 /\ ChainExact(chain2, SecondHashes, Start, pos)
    BY <1>13, HashFacts DEF ChainOf
  <2>2. SecondHashes[at - d] # SecondHashes[q]
    BY <1>1, <1>10, <2>1, LinkPasses DEF ChainExact, Live
  <2>3. SecondHashes[q] = chain2.hashval[w.p] /\ SecondHashes[at] = chain2.hashval[Slot(at)]
    BY <1>1, <2>1 DEF ChainExact, HashvalExact, Live
  <2>4. SecondHashes[q] = SecondHashes[at]
    BY <1>11, <1>13, <2>1, <2>3 DEF SearchInv, HashesOfLast
  <2>5. same[Slot(at)] < k
    <3>1. same[Slot(at)] \in Nat
      BY <1>1, SlotType, HashAssumption DEF IInv, TypeOK
    <3> QED  BY <1>2, <1>5, <1>7, <1>13, <3>1
  <2>6. Agree(at, d - 1, k)
    BY <1>1, <1>5, <1>6, <1>7, <2>2, <2>4, <2>5, AgreeingInRun
  <2>7. d - 1 \in Dists(at) /\ d - 1 < next
    BY <1>1, <1>3, <1>6, <1>8, <1>9 DEF Dists
  <2>8. d - 1 \in X
    BY <1>5, <2>6, <2>7
  <2> HIDE DEF X
  <2>9. d <= d - 1
    BY <1>4, <2>8
  <2> QED  BY <1>6, <2>9
<1> QED  BY <1>12, <1>13

-----------------------------------------------------------------------------
(* What the cache keeps.                                                     *)

(* The pool fits, and what is stored is in it in full or not at all.         *)
PoolSound ==
  lmc # NoCache =>
    /\ PoolFits(lmc)
    /\ DOMAIN lmc.runOff = Block
    /\ \A q \in Block : Available(lmc, q) /\ lmc.length[q] # 0 =>
         \/ lmc.runOff[q] = NoSublen /\ ~ lmc.complete
         \/ lmc.runOff[q] \in 0 .. lmc.used - 1

(* The runs of a position give the nearest distance of every length.         *)
HasRuns(c, q) ==
  \A k \in MinMatch .. c.length[q] :
    \E r \in Nat : FirstRunFor(c, q, k, r) /\ IsNearest(q, k, c.pool[r][2])

(* What is cached is the nearest, and the longest if no walk is cut short by *)
(* the limit on candidates.                                                  *)
CacheNearest ==
  lmc # NoCache =>
    \A q \in Block : Available(lmc, q) =>
      /\ lmc.length[q] # 0 => IsNearest(q, lmc.length[q], lmc.dist[q])
      /\ lmc.length[q] # 0 /\ lmc.runOff[q] # NoSublen => HasRuns(lmc, q)
      /\ maxHits >= WindowSize =>
           \A k \in MinMatch .. MaxMatch : Reaching(q, k) # {} => k <= lmc.length[q]

(* The inductive invariant.                                                  *)
NearestInv == PoolSound /\ CacheNearest /\ WalkNearest /\ MatchIsNearest

(* While the caller goes over the same input the reference stays the same.  *)
LEMMA SameReference ==
  ASSUME UNCHANGED <<array, instart, end>>, NEW q, NEW k, NEW d
  PROVE  /\ Reaching(q, k)' = Reaching(q, k) /\ Dists(q)' = Dists(q)
         /\ Agree(q, d, k)' <=> Agree(q, d, k)
         /\ IsNearest(q, k, d)' <=> IsNearest(q, k, d)
         /\ Block' = Block
<1>1. Reaching(q, k)' = Reaching(q, k) /\ Dists(q)' = Dists(q)
      /\ (Agree(q, d, k)' <=> Agree(q, d, k)) /\ Block' = Block
  BY DEF Reaching, Agree, Dists, Block
<1> QED  BY <1>1 DEF IsNearest

(* Steps that leave the cache alone.                                        *)
LEMMA CacheKept ==
  ASSUME PoolSound, CacheNearest, UNCHANGED <<array, instart, end, maxHits, lmc>>
  PROVE  PoolSound' /\ CacheNearest'
<1>1. Block' = Block
  BY DEF Block
<1>2. PoolSound'
  BY <1>1 DEF PoolSound, PoolFits, Available
<1>3. ASSUME NEW q, NEW k PROVE Reaching(q, k)' = Reaching(q, k)
  BY SameReference
<1>4. ASSUME NEW q, NEW k, NEW d PROVE IsNearest(q, k, d)' <=> IsNearest(q, k, d)
  BY SameReference
<1>5. CacheNearest'
  <2> SUFFICES ASSUME lmc # NoCache, NEW q \in Block, Available(lmc, q)
               PROVE  /\ lmc.length[q] # 0 => IsNearest(q, lmc.length[q], lmc.dist[q])'
                      /\ lmc.length[q] # 0 /\ lmc.runOff[q] # NoSublen => HasRuns(lmc, q)'
                      /\ maxHits >= WindowSize =>
                           \A k \in MinMatch .. MaxMatch : Reaching(q, k)' # {} => k <= lmc.length[q]
    BY <1>1 DEF CacheNearest, Available
  <2>1. lmc.length[q] # 0 => IsNearest(q, lmc.length[q], lmc.dist[q])'
    BY <1>4 DEF CacheNearest
  <2>2. lmc.length[q] # 0 /\ lmc.runOff[q] # NoSublen => HasRuns(lmc, q)'
    BY <1>4 DEF CacheNearest, HasRuns, FirstRunFor
  <2>3. maxHits >= WindowSize =>
           \A k \in MinMatch .. MaxMatch : Reaching(q, k)' # {} => k <= lmc.length[q]
    BY <1>3 DEF CacheNearest
  <2> QED  BY <2>1, <2>2, <2>3
<1> QED  BY <1>2, <1>5

(* StoreInLongestMatchCache keeps the cache right if the answer is.          *)
LEMMA StoredIsNearest ==
  ASSUME IInv, SearchInv, PoolSound, CacheNearest, at \in Block,
         NEW limit \in Nat, NEW wantsub, NEW sublen \in [1 .. MaxMatch -> Nat],
         NEW length \in 0 .. MaxMatch, NEW dist,
         wantsub /\ length >= MinMatch =>
           /\ IsNearest(at, length, dist)
           /\ \A k \in MinMatch .. length : IsNearest(at, k, sublen[k]),
         maxHits >= WindowSize =>
           \A k \in MinMatch .. MaxMatch : k <= limit /\ Reaching(at, k) # {} => k <= length,
         lmc' = StoredCache(limit, wantsub, sublen, dist, length),
         UNCHANGED <<array, instart, end, maxHits>>
  PROVE  PoolSound' /\ CacheNearest'
<1>1. /\ MinMatch \in Nat /\ 3 <= MinMatch /\ MaxMatch \in Nat /\ at \in Nat /\ end \in Nat
      /\ Block' = Block /\ 0 \in 0 .. MaxMatch
  BY MatchAssumption, CacheAssumption, InBlock, HashFacts DEF Block
<1>2. CASE lmc' = lmc
  BY <1>2, CacheKept
<1>3. CASE lmc' # lmc
  <2> DEFINE dd == IF length < MinMatch THEN 0 ELSE dist
             n == IF length < MinMatch THEN 0 ELSE length
             c == [lmc EXCEPT !.dist[at] = dd, !.length[at] = n]
             d == SublenToCache(c, at, length, sublen)
  <2>1. /\ lmc # NoCache /\ lmc' = d /\ wantsub
        /\ limit # MaxMatch => at + limit >= end
    BY <1>1, <1>3 DEF StoredCache
  <2>2. /\ n \in 0 .. MaxMatch
        /\ n # 0 => n = length /\ dd = dist /\ length >= MinMatch
        /\ n = 0 => length < MinMatch
    BY <1>1
  <2> HIDE DEF dd, n
  <2>3. /\ PoolFits(lmc) /\ DOMAIN lmc.runOff = Block
        /\ lmc.length \in [Block -> 0 .. MaxMatch]
        /\ lmc.dist \in [Block -> 0 .. WindowSize - 1]
    BY <2>1 DEF PoolSound, SearchInv, CacheSound
  <2>4. /\ PoolFits(c) /\ c.runOff = lmc.runOff /\ c.pool = lmc.pool /\ c.used = lmc.used
        /\ c.complete = lmc.complete
        /\ c.length = [lmc.length EXCEPT ![at] = n]
        /\ c.dist = [lmc.dist EXCEPT ![at] = dd]
    BY <2>3 DEF PoolFits
  <2> HIDE DEF c
  <2>5. \A k \in 3 .. length : sublen[k] \in Nat
    BY <1>1
  <2>6. at \in DOMAIN c.runOff /\ length \in Nat
    BY <1>1, <2>3, <2>4
  <2>0. d = SublenToCache(c, at, length, sublen)
    OBVIOUS
  <2> HIDE DEF d
  <2>7. /\ PoolFits(d)
        /\ d.length = c.length /\ d.dist = c.dist
        /\ DOMAIN d.runOff = DOMAIN c.runOff
        /\ \A q \in DOMAIN c.runOff : q # at => d.runOff[q] = c.runOff[q]
        /\ ~ c.complete => ~ d.complete
        /\ c.used <= d.used /\ \A r \in 1 .. c.used : d.pool[r] = c.pool[r]
        /\ length >= 3 =>
             \/ d.runOff[at] = NoSublen /\ ~ d.complete
             \/ /\ d.runOff[at] = c.used /\ c.used < d.used
                /\ \A k \in 3 .. length : \E r \in Nat :
                     FirstRunFor(d, at, k, r) /\ d.pool[r][2] = sublen[k]
    <3>1. Committed(c, at, length, sublen, d)
      BY <2>0, <2>4, <2>5, <2>6, SublenToCacheCommits
    <3> QED  BY <3>1 DEF Committed
  <2>8. c.used \in Nat /\ d.used \in Nat /\ NoSublen \notin Nat
    BY <2>4, <2>7, CacheAssumption DEF PoolFits
  (* The position stored.                                                   *)
  <2>9. /\ d.length[at] = n /\ d.dist[at] = dd
        /\ \A q \in Block : q # at =>
             /\ d.length[q] = lmc.length[q] /\ d.dist[q] = lmc.dist[q]
             /\ d.runOff[q] = lmc.runOff[q]
    BY <2>3, <2>4, <2>7
  <2>10. ASSUME n # 0
         PROVE  /\ IsNearest(at, n, dd)
                /\ \/ d.runOff[at] = NoSublen /\ ~ d.complete
                   \/ d.runOff[at] \in 0 .. d.used - 1
                /\ d.runOff[at] # NoSublen => HasRuns(d, at)
    <3>1. n = length /\ dd = dist /\ length >= MinMatch /\ length >= 3
      BY <1>1, <2>2, <2>10
    <3>2. IsNearest(at, n, dd) /\ \A k \in MinMatch .. length : IsNearest(at, k, sublen[k])
      BY <2>1, <3>1
    <3>3. CASE d.runOff[at] = NoSublen /\ ~ d.complete
      BY <3>2, <3>3
    <3>4. CASE /\ d.runOff[at] = c.used /\ c.used < d.used
               /\ \A k \in 3 .. length : \E r \in Nat :
                    FirstRunFor(d, at, k, r) /\ d.pool[r][2] = sublen[k]
      <4>1. d.runOff[at] \in 0 .. d.used - 1
        BY <2>8, <3>4
      <4>2. ASSUME NEW k \in MinMatch .. d.length[at]
            PROVE  \E r \in Nat : FirstRunFor(d, at, k, r) /\ IsNearest(at, k, d.pool[r][2])
        <5>1. k \in 3 .. length /\ k \in MinMatch .. length
          BY <1>1, <2>9, <3>1
        <5> QED  BY <3>2, <3>4, <5>1
      <4> QED  BY <3>2, <4>1, <4>2 DEF HasRuns
    <3> QED  BY <2>7, <3>1, <3>3, <3>4
  <2>11. ASSUME maxHits >= WindowSize, NEW k \in MinMatch .. MaxMatch, Reaching(at, k) # {}
         PROVE  k <= n
    <3>1. at + k <= end /\ k \in Nat
      BY <1>1, <2>11 DEF Reaching
    <3>2. k <= limit
      BY <1>1, <2>1, <3>1
    <3>3. k <= length
      BY <2>11, <3>2
    <3> QED  BY <1>1, <2>2, <3>1, <3>3
  (* The others: what they have in the pool stays.                          *)
  <2>12. ASSUME NEW q \in Block, q # at, Available(d, q)
         PROVE  /\ Available(lmc, q)
                /\ d.length[q] # 0 =>
                     \/ d.runOff[q] = NoSublen /\ ~ d.complete
                     \/ d.runOff[q] \in 0 .. d.used - 1
                /\ d.length[q] # 0 => IsNearest(q, d.length[q], d.dist[q])
                /\ d.length[q] # 0 /\ d.runOff[q] # NoSublen => HasRuns(d, q)
                /\ maxHits >= WindowSize =>
                     \A k \in MinMatch .. MaxMatch : Reaching(q, k) # {} => k <= d.length[q]
    <3>1. /\ d.length[q] = lmc.length[q] /\ d.dist[q] = lmc.dist[q]
          /\ d.runOff[q] = lmc.runOff[q] /\ Available(lmc, q)
      BY <2>9, <2>12 DEF Available
    <3>2. d.length[q] # 0 =>
            \/ lmc.runOff[q] = NoSublen /\ ~ lmc.complete
            \/ lmc.runOff[q] \in 0 .. lmc.used - 1
      BY <2>1, <3>1 DEF PoolSound
    <3>3. d.length[q] # 0 =>
            \/ d.runOff[q] = NoSublen /\ ~ d.complete
            \/ d.runOff[q] \in 0 .. d.used - 1
      BY <2>4, <2>7, <2>8, <3>1, <3>2
    <3>4. /\ d.length[q] # 0 => IsNearest(q, d.length[q], d.dist[q])
          /\ maxHits >= WindowSize =>
               \A k \in MinMatch .. MaxMatch : Reaching(q, k) # {} => k <= d.length[q]
      BY <2>1, <3>1 DEF CacheNearest
    <3>5. ASSUME d.length[q] # 0, d.runOff[q] # NoSublen PROVE HasRuns(d, q)
      <4>1. lmc.runOff[q] \in 0 .. lmc.used - 1 /\ HasRuns(lmc, q)
        BY <2>1, <3>1, <3>2, <3>5 DEF CacheNearest
      <4> SUFFICES ASSUME NEW k \in MinMatch .. lmc.length[q]
                   PROVE  \E r \in Nat : FirstRunFor(d, q, k, r) /\ IsNearest(q, k, d.pool[r][2])
        BY <3>1 DEF HasRuns
      <4>2. PICK r \in Nat : FirstRunFor(lmc, q, k, r) /\ IsNearest(q, k, lmc.pool[r][2])
        BY <4>1 DEF HasRuns
      <4>3. r \in lmc.runOff[q] + 1 .. lmc.used /\ lmc.runOff[q] \in Nat
        BY <2>4, <2>8, <4>1, <4>2 DEF FirstRunFor
      <4>4. ASSUME NEW p \in lmc.runOff[q] + 1 .. r PROVE d.pool[p] = lmc.pool[p]
        <5>1. p \in 1 .. c.used
          BY <2>4, <2>8, <4>3
        <5> QED  BY <2>4, <2>7, <5>1
      <4>5. r \in lmc.runOff[q] + 1 .. r /\ r \in lmc.runOff[q] + 1 .. d.used
        BY <2>4, <2>7, <2>8, <4>3
      <4>6. d.pool[r] = lmc.pool[r]
        BY <4>4, <4>5
      <4>7. \A p \in lmc.runOff[q] + 1 .. r - 1 : d.pool[p][1] < k
        <5> TAKE p \in lmc.runOff[q] + 1 .. r - 1
        <5>1. p \in lmc.runOff[q] + 1 .. r
          BY <4>3
        <5>2. lmc.pool[p][1] < k
          BY <4>2 DEF FirstRunFor
        <5> QED  BY <4>4, <5>1, <5>2
      <4>8. FirstRunFor(d, q, k, r)
        BY <3>1, <4>2, <4>5, <4>6, <4>7 DEF FirstRunFor
      <4> QED  BY <4>2, <4>6, <4>8
    <3> QED  BY <3>1, <3>3, <3>4, <3>5
  <2>13. PoolSound'
    <3>1. \A q \in Block : Available(d, q) /\ d.length[q] # 0 =>
            \/ d.runOff[q] = NoSublen /\ ~ d.complete
            \/ d.runOff[q] \in 0 .. d.used - 1
      BY <2>9, <2>10, <2>12
    <3>2. PoolFits(d) /\ DOMAIN d.runOff = Block
      BY <2>3, <2>4, <2>7
    <3>3. PoolFits(lmc)' /\ (\A q : Available(lmc, q)' <=> Available(d, q))
      BY <2>1, <3>2 DEF PoolFits, Available
    <3> QED  BY <1>1, <2>1, <3>1, <3>2, <3>3 DEF PoolSound
  <2>14. CacheNearest'
    <3>1. ASSUME NEW q, NEW k PROVE Reaching(q, k)' = Reaching(q, k)
      BY SameReference
    <3>2. ASSUME NEW q, NEW k, NEW e PROVE IsNearest(q, k, e)' <=> IsNearest(q, k, e)
      BY SameReference
    <3>3. ASSUME NEW q \in Block, Available(d, q)
          PROVE  /\ d.length[q] # 0 => IsNearest(q, d.length[q], d.dist[q])
                 /\ d.length[q] # 0 /\ d.runOff[q] # NoSublen => HasRuns(d, q)
                 /\ maxHits >= WindowSize =>
                      \A k \in MinMatch .. MaxMatch : Reaching(q, k) # {} => k <= d.length[q]
      <4>1. CASE q = at
        BY <2>9, <2>10, <2>11, <4>1
      <4>2. CASE q # at
        BY <2>12, <3>3, <4>2
      <4> QED  BY <4>1, <4>2
    <3> SUFFICES ASSUME NEW q \in Block, Available(d, q)
                 PROVE  /\ d.length[q] # 0 => IsNearest(q, lmc.length[q], lmc.dist[q])'
                        /\ d.length[q] # 0 /\ d.runOff[q] # NoSublen => HasRuns(lmc, q)'
                        /\ maxHits >= WindowSize =>
                             \A k \in MinMatch .. MaxMatch : Reaching(q, k)' # {} => k <= d.length[q]
      BY <1>1, <2>1 DEF CacheNearest, Available
    <3>4. d.length[q] # 0 => IsNearest(q, lmc.length[q], lmc.dist[q])'
      BY <2>1, <3>2, <3>3
    <3>5. d.length[q] # 0 /\ d.runOff[q] # NoSublen => HasRuns(lmc, q)'
      BY <2>1, <3>2, <3>3 DEF HasRuns, FirstRunFor
    <3> QED  BY <3>1, <3>3, <3>4, <3>5
  <2> QED  BY <2>13, <2>14
<1> QED  BY <1>2, <1>3

-----------------------------------------------------------------------------
(* The steps of a search.                                                    *)

(* What is known of a walk depends on the input and the hash only.           *)
LEMMA SameWalk ==
  ASSUME UNCHANGED <<array, instart, end, pos, same, maxHits>>, NEW w, NEW dist
  PROVE  /\ BestSoFar(w)' <=> BestSoFar(w)
         /\ NoneNearer(w, dist)' <=> NoneNearer(w, dist)
         /\ HitsLeft(w)' <=> HitsLeft(w)
         /\ at' = at /\ same'[Slot(at)] = same[Slot(at)]
<1>1. at' = at
  BY DEF at
<1>2. \A q, k, d : IsNearest(q, k, d)' <=> IsNearest(q, k, d)
  BY SameReference
<1>3. BestSoFar(w)' <=> BestSoFar(w)
  BY <1>1, <1>2 DEF BestSoFar
<1>4. NoneNearer(w, dist)' <=> NoneNearer(w, dist)
  BY DEF NoneNearer, Agree, Dists, at
<1> QED  BY <1>1, <1>3, <1>4 DEF HitsLeft

(* The walk of the next state, told of its record.                          *)
LEMMA WalkNearestOf ==
  ASSUME UNCHANGED <<array, instart, end, pos, same, maxHits>>,
         NEW w, walk' = w, NEW lim, call'[1] = lim,
         w.limit <= end - at, w.limit <= lim,
         maxHits >= WindowSize =>
           \A k \in MinMatch .. lim : Reaching(at, k) # {} => k <= w.limit,
         BestSoFar(w),
         w.dist < WindowSize \/ maxHits >= WindowSize => NoneNearer(w, w.dist),
         HitsLeft(w),
         w.second => w.best >= same[Slot(at)]
  PROVE  WalkNearest'
<1>1. at' = at /\ Slot(at)' = Slot(at)
  BY DEF at, Slot
<1>2. \A q, k : Reaching(q, k)' = Reaching(q, k)
  BY SameReference
<1>3. BestSoFar(w)' /\ HitsLeft(w)'
  BY SameWalk
<1>4. \A dist : NoneNearer(w, dist)' <=> NoneNearer(w, dist)
  BY SameWalk
<1>5. /\ BestSoFar(walk)' <=> BestSoFar(w)'
      /\ HitsLeft(walk)' <=> HitsLeft(w)'
      /\ NoneNearer(walk, walk.dist)' <=> NoneNearer(w, w.dist)'
  BY DEF BestSoFar, HitsLeft, NoneNearer
<1>6. \A k : Reaching(at, k)' = Reaching(at, k)
  BY <1>1 DEF Reaching, Dists, Agree
<1> QED
  BY <1>1, <1>3, <1>4, <1>5, <1>6 DEF WalkNearest

(* Another candidate is looked at; the walk may end.                         *)
LEMMA VisitNearest ==
  ASSUME IInv, SearchInv, NearestInv, Visit PROVE NearestInv'
<1> DEFINE v == Improved(walk)
           w == ChangeOver(v)
           next == w.dist + Gap(NextLink(w), w.p)
<1>1. /\ phase = "walk" /\ walk.dist < WindowSize /\ phase' = "walk"
      /\ walk' = IF StopsAt(w) \/ Follow(w).hits <= 0 THEN EndedWalk(w) ELSE Follow(w)
      /\ UNCHANGED <<vars, maxHits, lmc, call>>
  BY DEF Visit
<1>2. PoolSound' /\ CacheNearest'
  BY <1>1, CacheKept DEF NearestInv, vars
<1>3. MatchIsNearest'
  BY <1>1 DEF MatchIsNearest
<1>4. /\ at \in Block /\ at \in Nat /\ WindowSize \in Nat /\ walk.dist \in 1 .. WindowSize - 1
      /\ walk.limit \in Nat /\ MinMatch \in Nat /\ end \in Nat
      /\ ChainOf(walk).hashval[walk.p] = IF walk.second THEN val2 ELSE val
  BY <1>1, VisitFacts DEF SearchInv, WalkInWindow
<1>5. /\ v \in WalkType /\ v.limit = walk.limit
      /\ v.p = walk.p /\ v.dist = walk.dist /\ v.second = walk.second
  BY <1>1, <1>4, ImprovedKeeps DEF SearchInv, IInv
<1>6. /\ BestSoFar(v) /\ NoneNearer(v, walk.dist + 1)
      /\ v.best \in Nat /\ v.best >= walk.best /\ v.hits = walk.hits
  BY <1>1, ImprovedNearest DEF NearestInv
<1>7. /\ walk.limit <= end - at /\ walk.limit <= call[1]
      /\ maxHits >= WindowSize =>
           \A k \in MinMatch .. call[1] : Reaching(at, k) # {} => k <= walk.limit
      /\ HitsLeft(walk)
      /\ walk.second => walk.best >= same[Slot(at)]
      /\ same[Slot(at)] \in Nat /\ walk.best \in Nat /\ walk.hits \in Nat /\ maxHits \in Nat
  <2>1. same[Slot(at)] \in Nat
    BY <1>4, SlotType, HashAssumption DEF IInv, TypeOK
  <2>2. maxHits \in Nat
    BY MatchAssumption DEF SearchInv, MatchTypes
  <2>3. walk.best \in Nat /\ walk.hits \in Nat
    BY <2>2 DEF SearchInv, MatchTypes, WalkType
  <2> QED  BY <1>1, <2>1, <2>2, <2>3 DEF NearestInv, WalkNearest
<1> HIDE DEF v
<1>8. w = [v EXCEPT !.second = @ \/ (/\ v.best >= same[Slot(at)]
                                     /\ val2 = chain2.hashval[v.p])]
  BY DEF ChangeOver
<1>9. /\ w \in WalkType /\ w.best = v.best /\ w.limit = v.limit /\ w.p = v.p
      /\ w.dist = v.dist /\ w.hits = v.hits /\ w.sublen = v.sublen /\ w.bestdist = v.bestdist
      /\ w.second = (v.second \/ (/\ v.best >= same[Slot(at)]
                                  /\ val2 = chain2.hashval[v.p]))
  BY <1>5, <1>8 DEF WalkType
<1> HIDE DEF w
<1>10. ChainOf(w).hashval[w.p] = IF w.second THEN val2 ELSE val
  <2>1. CASE v.second
    BY <1>4, <1>5, <1>9, <2>1 DEF ChainOf
  <2>2. CASE ~ v.second
    BY <1>4, <1>5, <1>9, <2>2 DEF ChainOf
  <2> QED  BY <2>1, <2>2
<1>11. w.second => w.best >= same[Slot(at)]
  <2>1. CASE v.second
    BY <1>5, <1>6, <1>7, <1>9, <2>1
  <2>2. CASE ~ v.second
    BY <1>9, <2>2
  <2> QED  BY <2>1, <2>2
<1>12. BestSoFar(w) /\ NoneNearer(w, w.dist + 1)
  BY <1>5, <1>6, <1>9 DEF BestSoFar, NoneNearer
<1>13. NoneNearer(w, next)
  BY <1>1, <1>5, <1>7, <1>9, <1>10, <1>11, <1>12, FollowNearest
<1>14. /\ Gap(NextLink(w), w.p) \in 1 .. WindowSize
       /\ NextLink(w) = w.p => Gap(NextLink(w), w.p) = WindowSize
       /\ w.dist \in Nat /\ w.hits \in Nat /\ NextLink(w) \in Slots /\ w.best \in Nat
  <2>1. w.p \in Slots /\ NextLink(w) \in Slots /\ w.dist \in Nat
    BY <1>9, HashFacts DEF NextLink, ChainOf, WalkType
  <2>2. NextLink(w) = w.p => Gap(NextLink(w), w.p) = WindowSize
    BY <1>4, <2>1 DEF Gap, Slots
  <2> QED  BY <1>6, <1>7, <1>9, <2>1, <2>2, GapType
<1>15. w.hits + w.dist > maxHits
  BY <1>1, <1>5, <1>6, <1>7, <1>9 DEF HitsLeft
<1>16. Follow(w) = [w EXCEPT !.p = NextLink(w), !.dist = next, !.hits = w.hits - 1]
  BY <1>9 DEF Follow, WalkType
<1>17. next \in Nat /\ next > w.dist
  BY <1>14
<1>18. UNCHANGED <<array, instart, end, pos, same, maxHits>> /\ call' = call
  BY <1>1 DEF vars
<1> HIDE DEF next
<1>19. Follow(w).hits = w.hits - 1
  BY <1>9, <1>16 DEF WalkType
<1>20. CASE StopsAt(w) \/ Follow(w).hits <= 0
  <2> DEFINE e == EndedWalk(w)
  <2>1. /\ e.limit = walk.limit /\ e.best = w.best /\ e.dist = WindowSize
        /\ e.second = w.second /\ e.sublen = w.sublen /\ e.bestdist = w.bestdist
        /\ walk' = e
    BY <1>1, <1>5, <1>9, <1>20 DEF EndedWalk, WalkType
  <2> HIDE DEF e
  <2>2. BestSoFar(e)
    BY <1>12, <2>1 DEF BestSoFar
  <2>3. maxHits >= WindowSize => NoneNearer(e, e.dist)
    <3> SUFFICES ASSUME maxHits >= WindowSize,
                        NEW d \in Dists(at), NEW k \in MinMatch .. walk.limit,
                        d < WindowSize, Agree(at, d, k), ~ (k <= w.best)
                 PROVE  FALSE
      BY <2>1 DEF NoneNearer
    <3>1. d \in Nat /\ k \in Nat
      BY <1>4, DistsType
    <3>2. CASE w.best >= w.limit
      BY <1>4, <1>5, <1>9, <1>14, <3>1, <3>2
    <3>3. CASE NextLink(w) = w.p
      <4>1. next = w.dist + WindowSize
        BY <1>14, <3>3 DEF next
      <4>2. d < next
        BY <1>4, <1>14, <3>1, <4>1
      <4> QED  BY <1>5, <1>9, <1>13, <4>2 DEF NoneNearer
    <3>4. CASE Follow(w).hits <= 0
      <4>1. w.hits <= 1
        BY <1>14, <1>19, <3>4
      <4> QED  BY <1>4, <1>5, <1>7, <1>9, <1>14, <1>15, <4>1
    <3> QED  BY <1>20, <3>2, <3>3, <3>4 DEF StopsAt
  <2>4. HitsLeft(e)
    BY <1>4, <2>1 DEF HitsLeft
  <2>5. e.dist < WindowSize \/ maxHits >= WindowSize => NoneNearer(e, e.dist)
    BY <1>4, <2>1, <2>3
  <2>6. WalkNearest'
    <3>1. PICK lim : call'[1] = lim
      OBVIOUS
    <3> QED
      BY <1>7, <1>11, <1>18, <2>1, <2>2, <2>4, <2>5, <3>1, WalkNearestOf
  <2> QED  BY <1>2, <1>3, <2>6 DEF NearestInv
<1>21. CASE ~ (StopsAt(w) \/ Follow(w).hits <= 0)
  <2> DEFINE e == Follow(w)
  <2>1. /\ e.limit = walk.limit /\ e.best = w.best /\ e.dist = next
        /\ e.second = w.second /\ e.sublen = w.sublen /\ e.bestdist = w.bestdist
        /\ e.hits = w.hits - 1 /\ walk' = e
    BY <1>1, <1>5, <1>9, <1>16, <1>21 DEF WalkType
  <2> HIDE DEF e
  <2>2. BestSoFar(e)
    BY <1>12, <2>1 DEF BestSoFar
  <2>3. NoneNearer(e, e.dist)
    BY <1>5, <1>9, <1>13, <2>1 DEF NoneNearer
  <2>4. HitsLeft(e)
    BY <1>7, <1>14, <1>15, <1>17, <2>1 DEF HitsLeft
  <2>6. WalkNearest'
    <3>1. PICK lim : call'[1] = lim
      OBVIOUS
    <3> QED
      BY <1>7, <1>11, <1>18, <2>1, <2>2, <2>3, <2>4, <3>1, WalkNearestOf
  <2> QED  BY <1>2, <1>3, <2>6 DEF NearestInv
<1> QED  BY <1>20, <1>21

(* A cached length limits a search without its sublen to what is there.     *)
LEMMA UsableLimitKeeps ==
  ASSUME IInv, SearchInv, CacheNearest, NEW limit, NEW wantsub, <<limit, wantsub>> \in Calls,
         at \in Block, ~ CacheAnswers(limit, wantsub)
  PROVE  /\ UsableLimit(limit, wantsub) \in Nat /\ UsableLimit(limit, wantsub) <= limit
         /\ maxHits >= WindowSize =>
              \A k \in MinMatch .. limit : Reaching(at, k) # {} => k <= UsableLimit(limit, wantsub)
<1>1. MinMatch \in Nat /\ MaxMatch \in Nat /\ limit \in MinMatch .. MaxMatch
  BY MatchAssumption, CacheAssumption
<1>2. CASE ~ LimitOkForCache(limit, wantsub)
  BY <1>1, <1>2 DEF UsableLimit
<1>3. CASE LimitOkForCache(limit, wantsub)
  <2>1. /\ lmc # NoCache /\ Available(lmc, at)
        /\ ~ (lmc.length[at] <= MaxCachedSublen(lmc, at))
        /\ \/ limit = MaxMatch \/ lmc.length[at] <= limit \/ MaxCachedSublen(lmc, at) >= limit
    BY <1>3 DEF LimitOkForCache, CacheKnows, CacheAnswers
  <2>2. lmc.length[at] \in 0 .. MaxMatch
    BY <2>1 DEF SearchInv, CacheSound
  <2>3. MaxCachedSublen(lmc, at) = 0
    BY <2>1, <2>2 DEF MaxCachedSublen
  <2>4. lmc.length[at] <= limit
    <3>1. PICK n \in 0 .. MaxMatch : n = lmc.length[at]
      BY <2>2
    <3>2. limit \in Nat /\ limit <= MaxMatch /\ MinMatch <= limit /\ 0 < MinMatch
      BY <1>1, CacheAssumption
    <3>3. ~ (MaxCachedSublen(lmc, at) >= limit)
      BY <1>1, <2>3, <3>2
    <3>4. limit = MaxMatch \/ n <= limit
      BY <2>1, <3>1, <3>3
    <3>5. n <= limit
      BY <1>1, <3>1, <3>2, <3>4
    <3> QED  BY <3>1, <3>5
  <2>5. maxHits >= WindowSize =>
          \A k \in MinMatch .. MaxMatch : Reaching(at, k) # {} => k <= lmc.length[at]
    BY <2>1 DEF CacheNearest
  <2>6. \A k \in MinMatch .. limit : k \in MinMatch .. MaxMatch
    BY <1>1
  <2>7. UsableLimit(limit, wantsub) = lmc.length[at]
    BY <1>3 DEF UsableLimit
  <2> QED  BY <2>2, <2>4, <2>5, <2>6, <2>7
<1> QED  BY <1>2, <1>3

(* Nothing has been passed over when a walk begins.                          *)
LEMMA StartWalkNearest ==
  ASSUME IInv, SearchInv, NearestInv, NEW limit, NEW wantsub, <<limit, wantsub>> \in Calls,
         StartWalk(limit, wantsub)
  PROVE  NearestInv'
<1> DEFINE pp == chain.head[val]
           p == chain.prev[pp]
           use == UsableLimit(limit, wantsub)
           lim == Lesser(use, end - at)
           w == [NoWalk EXCEPT !.limit = lim, !.p = p, !.dist = Gap(p, pp)]
<1>1. /\ at \in Block /\ call' = <<limit, wantsub>> /\ phase' = "walk"
      /\ walk' = w /\ ~ CacheAnswers(limit, wantsub) /\ end - at >= MinMatch
      /\ UNCHANGED <<vars, maxHits, lmc>>
  BY DEF StartWalk, CanSearch
<1>2. /\ at \in Nat /\ pos = at + 1 /\ Start < pos /\ at \in Live /\ end - at \in Nat
      /\ MinMatch \in Nat /\ 3 <= MinMatch /\ WindowSize \in Nat \ {0}
      /\ Start \in Nat /\ end \in Nat
  BY <1>1, InBlock, CacheAssumption, MatchAssumption, HashAssumption, HashFacts
<1>3. use \in Nat /\ use <= limit /\ limit \in Nat
      /\ (maxHits >= WindowSize =>
            \A k \in MinMatch .. limit : Reaching(at, k) # {} => k <= use)
  <2>1. limit \in Nat
    BY MatchAssumption, CacheAssumption
  <2> QED  BY <1>1, <2>1, UsableLimitKeeps DEF NearestInv
<1> HIDE DEF use
<1>4. lim \in Nat /\ lim <= limit /\ lim <= end - at
      /\ (maxHits >= WindowSize =>
            \A k \in MinMatch .. limit : Reaching(at, k) # {} => k <= lim)
  <2>1. lim \in Nat /\ lim <= limit /\ lim <= end - at
    BY <1>2, <1>3 DEF Lesser
  <2>2. ASSUME maxHits >= WindowSize, NEW k \in MinMatch .. limit, Reaching(at, k) # {}
        PROVE  k <= lim
    <3>1. k <= use /\ at + k <= end /\ k \in Nat
      BY <1>2, <1>3, <2>2 DEF Reaching
    <3> QED  BY <1>2, <1>3, <3>1 DEF Lesser
  <2> QED  BY <2>1, <2>2
<1>5. pp = Slot(at)
  <2>1. /\ Start \in Nat /\ pos \in Nat /\ pos - 1 = at /\ val \in HashVals
        /\ ChainExact(chain, Hashes, Start, pos)
    BY <1>2, HashFacts
  <2>2. val = chain.hashval[Slot(at)]
    BY <1>2 DEF SearchInv, HashesOfLast
  <2> QED  BY <1>2, <2>1, <2>2, HeadIsLast
<1>6. Gap(p, pp) \in 1 .. WindowSize
  <2>1. pp \in Slots /\ p \in Slots
    BY <1>2, <1>5, HashFacts
  <2> QED  BY <2>1, GapType
<1>7. maxHits \in Nat
  BY MatchAssumption DEF SearchInv, MatchTypes
<1> HIDE DEF lim, pp
(* The first candidate is the nearest position of the same hash.            *)
<1>8. ASSUME NEW d \in Dists(at), NEW k \in MinMatch .. lim, d < Gap(p, pp), Agree(at, d, k)
      PROVE  FALSE
  <2>1. k \in Nat /\ 3 <= k /\ at + k <= end /\ d \in Nat
    BY <1>2, <1>4, DistsType
  <2>2. /\ at - d \in Start .. at - 1 /\ d < WindowSize /\ HashAt(at - d) = HashAt(at)
    BY <1>1, <1>8, <2>1, AgreeingHash
  <2>3. at - (at - d) = d /\ Gap(p, pp) = Gap(chain.prev[Slot(at)], Slot(at))
    BY <1>2, <1>5, <2>1
  <2>4. LinkExact(chain, Hashes, Start, at)
    BY <1>2, HashFacts DEF ChainExact, Live
  <2>5. Hashes[at - d] # Hashes[at]
    BY <1>2, <1>8, <2>2, <2>3, <2>4, LinkPasses
  <2>6. at \in Start .. end - 1 /\ at - d \in Start .. end - 1
    BY <1>1, <1>2, <2>2 DEF Block
  <2> QED  BY <2>2, <2>5, <2>6 DEF Hashes
<1> HIDE DEF p
<1>9. /\ w.limit = lim /\ w.dist = Gap(p, pp) /\ w.best = 1 /\ w.second = FALSE
      /\ w.hits = maxHits
  BY DEF NoWalk
<1> HIDE DEF w
<1>10. BestSoFar(w)
  <2>1. MinMatch .. 1 = {} /\ ~ (1 >= MinMatch)
    BY <1>2
  <2> QED  BY <1>9, <2>1 DEF BestSoFar
<1>11. NoneNearer(w, w.dist)
  BY <1>8, <1>9 DEF NoneNearer
<1>12. HitsLeft(w)
  BY <1>6, <1>7, <1>9 DEF HitsLeft
<1>13. WalkNearest'
  <2>1. UNCHANGED <<array, instart, end, pos, same, maxHits>> /\ call'[1] = limit
    BY <1>1 DEF vars
  <2> QED  BY <1>1, <1>4, <1>9, <1>10, <1>11, <1>12, <2>1, WalkNearestOf
<1>14. PoolSound' /\ CacheNearest' /\ MatchIsNearest'
  BY <1>1, CacheKept DEF NearestInv, vars, MatchIsNearest
<1> QED  BY <1>13, <1>14 DEF NearestInv

(* What MatchIsNearest asks of an answer f to a search with limit lim.      *)
AnswerNearest(f, wantsub, lim) ==
  /\ f.length >= MinMatch =>
       /\ f.length <= lim
       /\ f.dist = Nearest(at, f.length)
       /\ wantsub => \A k \in MinMatch .. f.length : f.sublen[k] = Nearest(at, k)
  /\ maxHits >= WindowSize /\ Lesser(Longest(at), lim) >= MinMatch =>
       f.length = Lesser(Longest(at), lim)

LEMMA AnswerNearestNext ==
  ASSUME UNCHANGED <<array, instart, end, pos, maxHits>>,
         AnswerNearest(found', call'[2], call'[1])
  PROVE  MatchIsNearest'
<1>1. at' = at
  BY DEF at
<1>2. \A q : Longest(q)' = Longest(q)
  BY DEF Longest, Reaching, Dists, Agree
<1>3. \A q, k : Nearest(q, k)' = Nearest(q, k)
  BY DEF Nearest, Reaching, Dists, Agree
<1>4. Longest(at)' = Longest(at)
  BY <1>1 DEF Longest, Reaching, Dists, Agree
<1>5. \A k : Nearest(at, k)' = Nearest(at, k)
  BY <1>1 DEF Nearest, Reaching, Dists, Agree
<1>6. Nearest(at, found.length)' = Nearest(at, found'.length)
  BY <1>1 DEF Nearest, Reaching, Dists, Agree
<1> QED  BY <1>4, <1>5, <1>6 DEF MatchIsNearest, AnswerNearest, Lesser

(* An answer whose distances are the nearest, and which no longer match     *)
(* denies, is one as the property asks.                                     *)
LEMMA AnswerIs ==
  ASSUME IInv, at \in Block, NEW f, NEW wantsub, NEW lim \in MinMatch .. MaxMatch,
         f.length \in 0 .. MaxMatch, f.length <= lim \/ f.length < MinMatch,
         f.length >= MinMatch =>
           /\ IsNearest(at, f.length, f.dist)
           /\ wantsub => \A k \in MinMatch .. f.length : IsNearest(at, k, f.sublen[k]),
         maxHits >= WindowSize =>
           \A k \in MinMatch .. lim : Reaching(at, k) # {} => k <= f.length
  PROVE  AnswerNearest(f, wantsub, lim)
<1>1. /\ at \in Nat /\ end \in Nat /\ MinMatch \in Nat /\ 3 <= MinMatch /\ MaxMatch \in Nat
      /\ lim \in Nat
  BY InBlock, HashFacts, MatchAssumption, CacheAssumption
<1>2. /\ Longest(at) \in 0 .. MaxMatch
      /\ \A k \in 1 .. MaxMatch : Reaching(at, k) # {} <=> k <= Longest(at)
  BY <1>1, LongestReaches
<1>3. ASSUME f.length >= MinMatch
      PROVE  /\ f.length <= lim /\ f.dist = Nearest(at, f.length)
             /\ wantsub => \A k \in MinMatch .. f.length : f.sublen[k] = Nearest(at, k)
  <2>1. f.length <= lim
    BY <1>1, <1>3
  <2>2. f.dist = Nearest(at, f.length)
    BY <1>3, NearestIs
  <2>3. ASSUME wantsub, NEW k \in MinMatch .. f.length PROVE f.sublen[k] = Nearest(at, k)
    BY <1>3, <2>3, NearestIs
  <2> QED  BY <2>1, <2>2, <2>3
<1>4. ASSUME maxHits >= WindowSize, Lesser(Longest(at), lim) >= MinMatch
      PROVE  f.length = Lesser(Longest(at), lim)
  <2> DEFINE n == Lesser(Longest(at), lim)
  <2>1. n \in MinMatch .. lim /\ n \in 1 .. MaxMatch /\ n <= Longest(at)
        /\ (n = lim \/ n = Longest(at))
    BY <1>1, <1>2, <1>4 DEF Lesser
  <2> HIDE DEF n
  <2>2. n <= f.length
    BY <1>2, <1>4, <2>1
  <2>3. f.length \in 1 .. MaxMatch /\ f.length >= MinMatch
    BY <1>1, <2>1, <2>2
  <2>4. Reaching(at, f.length) # {} /\ f.length <= lim
    BY <1>1, <2>3 DEF IsNearest
  <2>5. f.length <= Longest(at)
    BY <1>2, <2>3, <2>4
  <2>6. f.length = n
    BY <1>1, <1>2, <2>1, <2>2, <2>3, <2>4, <2>5
  <2> QED  BY <2>6 DEF n
<1> QED  BY <1>3, <1>4 DEF AnswerNearest

(* Steps that end a search with the cache as it was.                        *)
LEMMA FoundNearest ==
  ASSUME PoolSound', CacheNearest', phase' = "found",
         UNCHANGED <<array, instart, end, pos, maxHits>>,
         AnswerNearest(found', call'[2], call'[1])
  PROVE  NearestInv'
<1>1. MatchIsNearest'
  BY AnswerNearestNext
<1>2. WalkNearest'
  BY DEF WalkNearest
<1> QED  BY <1>1, <1>2 DEF NearestInv

(* What the cache answers: its runs are those of a sublen of the nearest.   *)
LEMMA ServedIsNearest ==
  ASSUME IInv, SearchInv, NearestInv, NEW limit \in MinMatch .. MaxMatch, NEW wantsub,
         at \in Block, CacheAnswers(limit, wantsub),
         NEW f \in CachedAnswers(limit, wantsub)
  PROVE  AnswerNearest(f, wantsub, limit)
<1>1. /\ MinMatch \in Nat /\ 3 <= MinMatch /\ MaxMatch \in Nat /\ limit \in Nat
  BY MatchAssumption, CacheAssumption
<1>2. /\ lmc # NoCache /\ Available(lmc, at)
      /\ wantsub => lmc.length[at] <= MaxCachedSublen(lmc, at)
      /\ \/ limit = MaxMatch \/ lmc.length[at] <= limit \/ wantsub
  BY DEF CacheAnswers, LimitOkForCache, CacheKnows
<1>3. PICK L \in 0 .. MaxMatch : L = lmc.length[at]
  BY <1>2 DEF SearchInv, CacheSound
<1>4. PICK m \in 0 .. MaxMatch : /\ m = Lesser(L, limit) /\ m <= L /\ m <= limit
                                 /\ m = L \/ m = limit
  BY <1>1, <1>3 DEF Lesser
<1> DEFINE sublen == IF wantsub THEN CacheToSublen(lmc, at, m, NoSublens) ELSE NoSublens
<1>5. /\ f.length = m /\ f.sublen = sublen
      /\ ~ wantsub => f.dist = lmc.dist[at]
      /\ wantsub /\ m # 0 => f.dist = sublen[m]
  BY <1>3, <1>4 DEF CachedAnswers
<1> HIDE DEF sublen
<1>6. /\ L # 0 => IsNearest(at, L, lmc.dist[at])
      /\ L # 0 /\ lmc.runOff[at] # NoSublen => HasRuns(lmc, at)
      /\ maxHits >= WindowSize =>
           \A k \in MinMatch .. MaxMatch : Reaching(at, k) # {} => k <= L
  BY <1>2, <1>3 DEF NearestInv, CacheNearest
<1>7. maxHits >= WindowSize =>
        \A k \in MinMatch .. limit : Reaching(at, k) # {} => k <= m
  <2> SUFFICES ASSUME maxHits >= WindowSize, NEW k \in MinMatch .. limit, Reaching(at, k) # {}
               PROVE  k <= m
    OBVIOUS
  <2>1. k \in MinMatch .. MaxMatch
    BY <1>1
  <2>2. k <= L
    BY <1>6, <2>1
  <2> QED  BY <1>1, <1>4, <2>1, <2>2
<1>8. ASSUME m >= MinMatch
      PROVE  /\ IsNearest(at, m, f.dist)
             /\ wantsub => \A k \in MinMatch .. m : IsNearest(at, k, f.sublen[k])
  <2>1. L # 0 /\ m # 0 /\ m \in MinMatch .. m /\ m >= 3
    BY <1>1, <1>4, <1>8
  <2>2. CASE ~ wantsub
    <3>1. m = L
      BY <1>1, <1>2, <1>3, <1>4, <2>2
    <3> QED  BY <1>5, <1>6, <2>1, <2>2, <3>1
  <2>3. CASE wantsub
    <3>1. lmc.runOff[at] # NoSublen
      <4>1. ~ (L <= 0)
        BY <1>3, <2>1
      <4> QED  BY <1>2, <1>3, <2>3, <4>1 DEF MaxCachedSublen
    <3>2. HasRuns(lmc, at) /\ lmc.runOff[at] \in Nat /\ PoolFits(lmc)
      <4>1. lmc.runOff[at] \in 0 .. lmc.used - 1
        BY <1>2, <1>3, <2>1, <3>1 DEF NearestInv, PoolSound
      <4> QED  BY <1>2, <1>6, <2>1, <3>1, <4>1 DEF NearestInv, PoolSound
    <3>3. ASSUME NEW k \in MinMatch .. m PROVE IsNearest(at, k, sublen[k])
      <4>1. k \in MinMatch .. L /\ k \in Nat /\ k \in 1 .. MaxMatch /\ k <= m /\ ~ (m < 3)
        BY <1>1, <1>4, <2>1
      <4>2. PICK r \in Nat : FirstRunFor(lmc, at, k, r) /\ IsNearest(at, k, lmc.pool[r][2])
        BY <1>3, <3>2, <4>1 DEF HasRuns
      <4>3. CachedDist(lmc, at, k) = lmc.pool[r][2]
        BY <3>2, <4>1, <4>2, CachedDistIs
      <4>4. sublen[k] = CachedDist(lmc, at, k)
        BY <2>3, <4>1 DEF sublen, CacheToSublen, NoSublens
      <4> QED  BY <4>2, <4>3, <4>4
    <3> QED  BY <1>5, <2>1, <2>3, <3>3
  <2> QED  BY <2>2, <2>3
<1>9. f.length \in 0 .. MaxMatch /\ (f.length <= limit \/ f.length < MinMatch)
  BY <1>4, <1>5
<1>10. f.length >= MinMatch =>
         /\ IsNearest(at, f.length, f.dist)
         /\ wantsub => \A k \in MinMatch .. f.length : IsNearest(at, k, f.sublen[k])
  BY <1>5, <1>8
<1>11. maxHits >= WindowSize =>
         \A k \in MinMatch .. limit : Reaching(at, k) # {} => k <= f.length
  BY <1>5, <1>7
<1> QED  BY <1>9, <1>10, <1>11, AnswerIs

(* The cache answers.                                                        *)
LEMMA ServeNearest ==
  ASSUME IInv, SearchInv, NearestInv, NEW limit, NEW wantsub, <<limit, wantsub>> \in Calls,
         Serve(limit, wantsub)
  PROVE  NearestInv'
<1>1. /\ at \in Block /\ call' = <<limit, wantsub>> /\ phase' = "found"
      /\ CacheAnswers(limit, wantsub) /\ found' \in CachedAnswers(limit, wantsub)
      /\ UNCHANGED <<vars, maxHits, lmc>>
  BY DEF Serve, CanSearch
<1>2. limit \in MinMatch .. MaxMatch
  BY MatchAssumption
<1>3. UNCHANGED <<array, instart, end, pos, maxHits>>
  BY <1>1 DEF vars
<1>4. PoolSound' /\ CacheNearest'
  BY <1>1, <1>3, CacheKept DEF NearestInv
<1>5. PICK f : f = found'
  OBVIOUS
<1>6. AnswerNearest(f, wantsub, limit)
  BY <1>1, <1>2, <1>5, ServedIsNearest
<1>7. AnswerNearest(found', call'[2], call'[1])
  BY <1>1, <1>5, <1>6
<1> QED  BY <1>1, <1>3, <1>4, <1>7, FoundNearest

(* Too near to the end of the block for a match.                            *)
LEMMA GiveUpNearest ==
  ASSUME IInv, SearchInv, NearestInv, NEW limit, NEW wantsub, <<limit, wantsub>> \in Calls,
         GiveUpNearEnd(limit, wantsub)
  PROVE  NearestInv'
<1> DEFINE use == UsableLimit(limit, wantsub)
<1>1. /\ at \in Block /\ call' = <<limit, wantsub>> /\ phase' = "found"
      /\ ~ CacheAnswers(limit, wantsub) /\ end - at < MinMatch /\ found' = NotFound
      /\ lmc' = StoredCache(use, wantsub, NoSublens, 0, 0)
      /\ UNCHANGED <<vars, maxHits>>
  BY DEF GiveUpNearEnd, CanSearch
<1>2. /\ limit \in MinMatch .. MaxMatch /\ MinMatch \in Nat /\ 3 <= MinMatch /\ MaxMatch \in Nat
      /\ at \in Nat /\ end \in Nat
  BY <1>1, MatchAssumption, CacheAssumption, InBlock, HashFacts
<1>3. UNCHANGED <<array, instart, end, pos, maxHits>>
  BY <1>1 DEF vars
<1>4. use \in Nat
  BY <1>1, UsableLimitKeeps DEF NearestInv
<1>5. ASSUME NEW k \in MinMatch .. MaxMatch, Reaching(at, k) # {} PROVE FALSE
  <2>1. at + k <= end /\ k \in Nat /\ k >= MinMatch
    BY <1>2, <1>5 DEF Reaching
  <2> QED  BY <1>1, <1>2, <2>1
<1> HIDE DEF use
<1>6. PoolSound' /\ CacheNearest'
  <2>1. NoSublens \in [1 .. MaxMatch -> Nat]
    BY DEF NoSublens
  <2>2. 0 \in 0 .. MaxMatch /\ ~ (0 >= MinMatch)
    BY <1>2
  <2>3. PoolSound /\ CacheNearest
    BY DEF NearestInv
  <2> QED
    BY <1>1, <1>3, <1>4, <1>5, <2>1, <2>2, <2>3, StoredIsNearest
<1>7. AnswerNearest(NotFound, wantsub, limit)
  <2>1. NotFound.length = 0 /\ NotFound.length \in 0 .. MaxMatch
        /\ NotFound.length < MinMatch /\ ~ (NotFound.length >= MinMatch)
    BY <1>2 DEF NotFound
  <2>2. \A k \in MinMatch .. limit : k \in MinMatch .. MaxMatch
    BY <1>2
  <2> HIDE DEF NotFound
  <2> QED  BY <1>1, <1>2, <1>5, <2>1, <2>2, AnswerIs
<1>8. AnswerNearest(found', call'[2], call'[1])
  BY <1>1, <1>7
<1> QED  BY <1>1, <1>3, <1>6, <1>8, FoundNearest

(* The end of a walk: no candidate of the window is nearer than the best.   *)
LEMMA FinishNearest ==
  ASSUME IInv, SearchInv, NearestInv, Finish PROVE NearestInv'
<1>1. /\ phase = "walk" /\ walk.dist >= WindowSize /\ phase' = "found"
      /\ UNCHANGED <<vars, maxHits, call>>
      /\ found' = [length |-> walk.best, dist |-> walk.bestdist,
                   sublen |-> IF call[2] THEN walk.sublen ELSE NoSublens]
      /\ lmc' = StoredCache(walk.limit, call[2], IF call[2] THEN walk.sublen ELSE NoSublens,
                            walk.bestdist, walk.best)
  BY DEF Finish
<1>2. /\ at \in Block /\ walk \in WalkType /\ walk.best <= walk.limit
      /\ walk.limit \in MinMatch .. MaxMatch
      /\ call \in (MinMatch .. MaxMatch) \X BOOLEAN
  BY <1>1 DEF SearchInv, MatchTypes
<1>3. PICK lim \in MinMatch .. MaxMatch, wantsub \in BOOLEAN :
        call[1] = lim /\ call[2] = wantsub
  BY <1>2
<1>4. PICK sublen : sublen = IF wantsub THEN walk.sublen ELSE NoSublens
  OBVIOUS
<1>5. PICK f : f = [length |-> walk.best, dist |-> walk.bestdist, sublen |-> sublen]
  OBVIOUS
<1>6. /\ MinMatch \in Nat /\ 3 <= MinMatch /\ MaxMatch \in Nat /\ WindowSize \in Nat
      /\ at \in Nat /\ end \in Nat
  BY <1>2, MatchAssumption, CacheAssumption, HashAssumption, InBlock, HashFacts
<1>7. /\ walk.best \in 1 .. MaxMatch /\ walk.limit \in Nat /\ walk.dist \in Nat
      /\ walk.bestdist \in Nat /\ walk.sublen \in [1 .. MaxMatch -> 0 .. WindowSize - 1]
  BY <1>2, <1>6 DEF WalkType
<1>8. /\ walk.limit <= lim /\ BestSoFar(walk)
      /\ maxHits >= WindowSize =>
           \A k \in MinMatch .. lim : Reaching(at, k) # {} => k <= walk.limit
      /\ maxHits >= WindowSize => NoneNearer(walk, walk.dist)
  BY <1>1, <1>3 DEF NearestInv, WalkNearest
<1>9. /\ \A k \in MinMatch .. walk.best : IsNearest(at, k, walk.sublen[k])
      /\ walk.best >= MinMatch => IsNearest(at, walk.best, walk.bestdist)
  <2>1. walk.best >= MinMatch => walk.best \in MinMatch .. walk.best
    BY <1>6, <1>7
  <2> QED  BY <1>8, <2>1 DEF BestSoFar
<1>10. ASSUME maxHits >= WindowSize, NEW k \in MinMatch .. walk.limit, Reaching(at, k) # {}
       PROVE  k <= walk.best
  <2>1. PICK d : d \in Dists(at) /\ Agree(at, d, k)
    BY <1>10 DEF Reaching
  <2>2. d < walk.dist
    BY <1>1, <1>6, <1>7, <2>1, DistsType
  <2> QED  BY <1>8, <1>10, <2>1, <2>2 DEF NoneNearer
<1>11. UNCHANGED <<array, instart, end, pos, maxHits>>
  BY <1>1 DEF vars
<1>12. PoolSound' /\ CacheNearest'
  <2>1. sublen \in [1 .. MaxMatch -> Nat]
    BY <1>4, <1>7 DEF NoSublens
  <2>2. wantsub /\ walk.best >= MinMatch =>
          /\ IsNearest(at, walk.best, walk.bestdist)
          /\ \A k \in MinMatch .. walk.best : IsNearest(at, k, sublen[k])
    BY <1>4, <1>9
  <2>3. maxHits >= WindowSize =>
          \A k \in MinMatch .. MaxMatch : k <= walk.limit /\ Reaching(at, k) # {} => k <= walk.best
    <3> SUFFICES ASSUME maxHits >= WindowSize, NEW k \in MinMatch .. MaxMatch,
                        k <= walk.limit, Reaching(at, k) # {}
                 PROVE  k <= walk.best
      OBVIOUS
    <3>1. k \in MinMatch .. walk.limit
      BY <1>6, <1>7
    <3> QED  BY <1>10, <3>1
  <2>4. PoolSound /\ CacheNearest
    BY DEF NearestInv
  <2>5. PICK n \in 0 .. MaxMatch, g \in Nat, l \in Nat :
          n = walk.best /\ g = walk.bestdist /\ l = walk.limit
    BY <1>6, <1>7
  <2>6. lmc' = StoredCache(l, wantsub, sublen, g, n)
    BY <1>1, <1>3, <1>4, <2>5
  <2> QED
    BY <1>2, <1>11, <2>1, <2>2, <2>3, <2>4, <2>5, <2>6, StoredIsNearest
<1>13. AnswerNearest(f, wantsub, lim)
  <2>1. f.length = walk.best /\ f.dist = walk.bestdist /\ f.sublen = sublen
    BY <1>5
  <2>2. f.length \in 0 .. MaxMatch /\ f.length <= lim
    <3>1. PICK l \in Nat : l = walk.limit
      BY <1>7
    <3>2. PICK n \in 1 .. MaxMatch : n = walk.best
      BY <1>7
    <3>3. n <= l /\ l <= lim /\ n \in Nat /\ lim \in Nat /\ n \in 0 .. MaxMatch
      BY <1>2, <1>6, <1>8, <3>1, <3>2
    <3> QED  BY <2>1, <3>2, <3>3
  <2>3. f.length >= MinMatch =>
          /\ IsNearest(at, f.length, f.dist)
          /\ wantsub => \A k \in MinMatch .. f.length : IsNearest(at, k, f.sublen[k])
    BY <1>4, <1>9, <2>1
  <2>4. maxHits >= WindowSize =>
          \A k \in MinMatch .. lim : Reaching(at, k) # {} => k <= f.length
    <3> SUFFICES ASSUME maxHits >= WindowSize, NEW k \in MinMatch .. lim, Reaching(at, k) # {}
                 PROVE  k <= walk.best
      BY <2>1
    <3>1. k <= walk.limit
      BY <1>8
    <3>2. k \in MinMatch .. walk.limit
      BY <1>6, <1>7, <3>1
    <3> QED  BY <1>10, <3>2
  <2> QED  BY <1>2, <2>2, <2>3, <2>4, AnswerIs
<1>14. AnswerNearest(found', call'[2], call'[1])
  BY <1>1, <1>3, <1>4, <1>5, <1>13
<1> QED  BY <1>1, <1>11, <1>12, <1>14, FoundNearest

(* The caller moves the hash; the block and the cache are as they were.     *)
LEMMA CallerNearest ==
  ASSUME NearestInv, Advance \/ NextPass PROVE NearestInv'
<1>1. phase' = "between" /\ UNCHANGED <<array, instart, end, maxHits, lmc>>
  BY DEF Advance, NextPass, UpdateHash, StartRun
<1>2. PoolSound' /\ CacheNearest'
  BY <1>1, CacheKept DEF NearestInv
<1> QED  BY <1>1, <1>2 DEF NearestInv, WalkNearest, MatchIsNearest

LEMMA IdleNearest ==
  ASSUME NearestInv, UNCHANGED allVars PROVE NearestInv'
<1>1. /\ UNCHANGED <<array, instart, end, pos, same, maxHits, lmc, phase, call, walk, found>>
      /\ UNCHANGED vars
  BY DEF allVars, vars, matchVars
<1>2. PoolSound' /\ CacheNearest'
  BY <1>1, CacheKept DEF NearestInv
<1>3. MatchIsNearest'
  <2> SUFFICES ASSUME phase = "found" PROVE MatchIsNearest'
    BY <1>1 DEF MatchIsNearest
  <2>1. PICK f, w, lim : found = f /\ call[2] = w /\ call[1] = lim
    OBVIOUS
  <2>2. AnswerNearest(f, w, lim)
    BY <2>1 DEF NearestInv, MatchIsNearest, AnswerNearest
  <2>3. AnswerNearest(found', call'[2], call'[1])
    BY <1>1, <2>1, <2>2
  <2> QED  BY <1>1, <2>3, AnswerNearestNext
<1>4. WalkNearest'
  <2> SUFFICES ASSUME phase = "walk" PROVE WalkNearest'
    BY <1>1 DEF WalkNearest
  <2>1. PICK lim, w : call[1] = lim /\ walk = w
    OBVIOUS
  <2>2. call'[1] = lim /\ walk' = w
    BY <1>1, <2>1
  <2>3. /\ w.limit <= end - at /\ w.limit <= lim
        /\ maxHits >= WindowSize =>
             \A k \in MinMatch .. lim : Reaching(at, k) # {} => k <= w.limit
        /\ BestSoFar(w)
        /\ w.dist < WindowSize \/ maxHits >= WindowSize => NoneNearer(w, w.dist)
        /\ HitsLeft(w)
        /\ w.second => w.best >= same[Slot(at)]
    BY <2>1 DEF NearestInv, WalkNearest
  <2> QED  BY <1>1, <2>2, <2>3, WalkNearestOf
<1> QED  BY <1>2, <1>3, <1>4 DEF NearestInv

(* The cache is empty and no search has been made.                           *)
LEMMA InitNearest == InitSearch => NearestInv
<1> SUFFICES ASSUME InitSearch PROVE NearestInv
  OBVIOUS
<1>1. phase = "between" /\ lmc \in {InitCache(Block), NoCache}
  BY DEF InitSearch
<1>2. WalkNearest /\ MatchIsNearest
  BY <1>1 DEF WalkNearest, MatchIsNearest
<1>3. ASSUME lmc # NoCache
      PROVE  PoolFits(lmc) /\ DOMAIN lmc.runOff = Block /\ \A q \in Block : ~ Available(lmc, q)
  <2>1. lmc = InitCache(Block)
    BY <1>1, <1>3
  <2>2. Cardinality(Block) = end - instart /\ PoolCap(end - instart) \in Nat
    <3>1. PICK b \in Blocks : instart = b[1] /\ end = b[2]
      BY DEF InitSearch, Init
    <3>2. instart \in Nat /\ end \in Nat /\ instart < end
      BY <3>1, InputAssumption
    <3>3. PoolCap(end - instart) \in Nat
      BY <3>1, MatchAssumption
    <3>4. Cardinality(instart .. end - 1) = end - instart
      <4>1. instart \in Int /\ end - 1 \in Int /\ ~ (instart > end - 1)
        BY <3>2
      <4>2. Cardinality(instart .. end - 1) = (end - 1) - instart + 1
        BY <4>1, FS_Interval
      <4> QED  BY <3>2, <4>2
    <3> QED  BY <3>3, <3>4 DEF Block
  <2> DEFINE cap == PoolCap(Cardinality(Block))
             alloc == Lesser(cap, FirstAlloc)
  <2>3. cap \in Nat /\ alloc \in Nat /\ alloc <= cap
    <3>1. cap \in Nat
      BY <2>2
    <3> HIDE DEF cap
    <3> QED  BY <3>1, CacheAssumption DEF Lesser
  <2>4. /\ lmc.length = [i \in Block |-> 1] /\ lmc.dist = [i \in Block |-> 0]
        /\ lmc.runOff = [i \in Block |-> Unwritten] /\ lmc.pool = << >>
        /\ lmc.used = 0 /\ lmc.cap = cap /\ lmc.alloc = alloc
        /\ DOMAIN lmc = {"length", "dist", "runOff", "pool", "used", "cap", "alloc", "complete"}
    BY <2>1 DEF InitCache
  <2> HIDE DEF cap, alloc
  <2>5. \A q \in Block : ~ Available(lmc, q)
    BY <2>4 DEF Available
  <2>6. PoolFits(lmc)
    BY <2>3, <2>4 DEF PoolFits
  <2> QED  BY <2>4, <2>5, <2>6
<1>4. PoolSound /\ CacheNearest
  BY <1>3 DEF PoolSound, CacheNearest
<1> QED  BY <1>2, <1>4 DEF NearestInv

(* The inductive strengthening of the two properties below.                 *)
THEOREM NearestInvariant == SearchSpec => []NearestInv
<1>1. IInv /\ SearchInv /\ NearestInv /\ [NextSearch]_allVars => NearestInv'
  <2> SUFFICES ASSUME IInv, SearchInv, NearestInv, [NextSearch]_allVars PROVE NearestInv'
    OBVIOUS
  <2>1. CASE Advance \/ NextPass
    BY <2>1, CallerNearest
  <2>2. CASE Search
    <3>1. PICK c \in Calls : \/ Serve(c[1], c[2]) \/ GiveUpNearEnd(c[1], c[2])
                             \/ StartWalk(c[1], c[2])
      BY <2>2 DEF Search
    <3>2. <<c[1], c[2]>> \in Calls
      BY MatchAssumption
    <3> QED  BY <3>1, <3>2, ServeNearest, GiveUpNearest, StartWalkNearest
  <2>3. CASE Visit
    BY <2>3, VisitNearest
  <2>4. CASE Finish
    BY <2>4, FinishNearest
  <2>5. CASE Done \/ UNCHANGED allVars
    BY <2>5, IdleNearest DEF Done
  <2> QED  BY <2>1, <2>2, <2>3, <2>4, <2>5 DEF NextSearch
<1>2. SearchSpec => []IInv
  BY SearchDrivesHash, Invariant, PTL
<1> QED  BY InitNearest, SearchInvariant, <1>1, <1>2, PTL DEF SearchSpec

(* What a search returns (lz77.c:553-703, lz77.h:157-158): for every length  *)
(* the smallest distance in the whole window, walked for or cached, although *)
(* the walk leaves out most of the window after the change of chains; and    *)
(* the longest match there is unless the limit on candidates cuts the walk   *)
(* short.                                                                    *)
THEOREM MatchesAreNearest == SearchSpec => []MatchIsNearest
<1>1. NearestInv => MatchIsNearest
  BY DEF NearestInv
<1> QED  BY NearestInvariant, <1>1, PTL

(* The pool of the cache (cache.c:67-115): it is never written outside what  *)
(* is allocated, the allocation keeps to the budget, and the run offset of a *)
(* cached match is written before it is read.                                *)
THEOREM PoolStaysInBounds == SearchSpec => []PoolInBounds
<1>1. NearestInv => PoolInBounds
  BY DEF NearestInv, PoolSound, PoolFits, PoolInBounds
<1> QED  BY NearestInvariant, <1>1, PTL
-----------------------------------------------------------------------------
(* A walk as the input tells it, whatever the tables look like: it goes from *)
(* one candidate to the next of the same key.                                *)

Keys(second) == IF second THEN SecondHashes ELSE Hashes

(* The position d before q has the same key.                                *)
SameKey(f, q, d) == d <= q - Start /\ f[q - d] = f[q]

(* e is the nearest distance beyond d of the same key; a window away if      *)
(* there is none inside the window.                                          *)
NextDist(f, q, d, e) ==
  /\ e \in d + 1 .. WindowSize
  /\ \A r \in d + 1 .. e - 1 : ~ SameKey(f, q, r)
  /\ e < WindowSize => SameKey(f, q, e)

(* A candidate makes the best length b an n.                                 *)
Improves(q, d, lim, b, n) ==
  /\ n \in b .. lim
  /\ n > b => Agree(q, d, n)
  /\ \A k \in b + 1 .. lim : Agree(q, d, k) => k <= n

WalkStates == [best : Nat, second : BOOLEAN, dist : 1 .. WindowSize, hits : Int]

FirstOfWalk(q, s) ==
  /\ s \in WalkStates
  /\ s.best = 1 /\ s.second = FALSE /\ s.hits = maxHits
  /\ NextDist(Hashes, q, 0, s.dist)

StepOfWalk(q, lim, s, t) ==
  /\ s \in WalkStates /\ t \in WalkStates
  /\ s.dist < WindowSize
  /\ Improves(q, s.dist, lim, s.best, t.best)
  /\ t.second = (s.second \/ (/\ t.best >= RunLengthAt(q)
                              /\ SecondHashes[q - s.dist] = SecondHashes[q]))
  /\ t.hits = s.hits - 1
  /\ IF t.best >= lim \/ t.hits <= 0 THEN t.dist = WindowSize
     ELSE NextDist(Keys(t.second), q, s.dist, t.dist)

(* Some steps of a walk lead from s to t.                                    *)
ClosedUnder(q, lim, S) == \A x \in S, y \in WalkStates : StepOfWalk(q, lim, x, y) => y \in S
LeadsTo(q, lim, s, t) ==
  \A S \in SUBSET WalkStates : s \in S /\ ClosedUnder(q, lim, S) => t \in S

(* The walk ends with the length n.                                          *)
WalkEnds(q, lim, n) ==
  \E s, t \in WalkStates :
    FirstOfWalk(q, s) /\ LeadsTo(q, lim, s, t) /\ t.dist = WindowSize /\ t.best = n

LEMMA NextDistUnique ==
  ASSUME NEW f, NEW q, NEW d \in Nat, NEW e, NEW g,
         NextDist(f, q, d, e), NextDist(f, q, d, g)
  PROVE  e = g
<1>0. WindowSize \in Nat
  BY HashAssumption
<1>1. e \in d + 1 .. WindowSize /\ g \in d + 1 .. WindowSize
  BY DEF NextDist
<1>2. CASE e < g
  <2>1. e \in d + 1 .. g - 1 /\ e < WindowSize
    BY <1>0, <1>1, <1>2
  <2> QED  BY <2>1 DEF NextDist
<1>3. CASE g < e
  <2>1. g \in d + 1 .. e - 1 /\ g < WindowSize
    BY <1>0, <1>1, <1>3
  <2> QED  BY <2>1 DEF NextDist
<1> QED  BY <1>0, <1>1, <1>2, <1>3

LEMMA ImprovesUnique ==
  ASSUME NEW q, NEW d, NEW lim \in Nat, NEW b \in Nat, NEW n, NEW m,
         Improves(q, d, lim, b, n), Improves(q, d, lim, b, m)
  PROVE  n = m
<1>1. n \in b .. lim /\ m \in b .. lim
  BY DEF Improves
<1>2. CASE n < m
  <2>1. m \in b + 1 .. lim /\ m > b
    BY <1>1, <1>2
  <2> QED  BY <1>1, <1>2, <2>1 DEF Improves
<1>3. CASE m < n
  <2>1. n \in b + 1 .. lim /\ n > b
    BY <1>1, <1>3
  <2> QED  BY <1>1, <1>3, <2>1 DEF Improves
<1> QED  BY <1>1, <1>2, <1>3

LEMMA FirstUnique ==
  ASSUME NEW q, NEW s, NEW t, FirstOfWalk(q, s), FirstOfWalk(q, t)
  PROVE  s = t
<1>1. s.dist = t.dist
  BY NextDistUnique DEF FirstOfWalk
<1> QED  BY <1>1 DEF FirstOfWalk, WalkStates

LEMMA StepUnique ==
  ASSUME NEW q, NEW lim \in Nat, NEW s, NEW t, NEW u,
         StepOfWalk(q, lim, s, t), StepOfWalk(q, lim, s, u)
  PROVE  t = u
<1>1. /\ s \in WalkStates /\ t \in WalkStates /\ u \in WalkStates
      /\ s.best \in Nat /\ s.dist \in Nat
  BY HashAssumption DEF StepOfWalk, WalkStates
<1>2. t.best = u.best
  BY <1>1, ImprovesUnique DEF StepOfWalk
<1>3. t.second = u.second /\ t.hits = u.hits
  BY <1>2 DEF StepOfWalk
<1>4. t.dist = u.dist
  <2>1. CASE t.best >= lim \/ t.hits <= 0
    BY <1>2, <1>3, <2>1 DEF StepOfWalk
  <2>2. CASE ~ (t.best >= lim \/ t.hits <= 0)
    <3>1. NextDist(Keys(t.second), q, s.dist, t.dist) /\ NextDist(Keys(t.second), q, s.dist, u.dist)
      BY <1>2, <1>3, <2>2 DEF StepOfWalk
    <3> QED  BY <1>1, <3>1, NextDistUnique
  <2> QED  BY <2>1, <2>2
<1> QED  BY <1>1, <1>2, <1>3, <1>4 DEF WalkStates

LEMMA LeadsToItself == \A q, lim, s : LeadsTo(q, lim, s, s)
BY DEF LeadsTo

LEMMA LeadsFurther ==
  ASSUME NEW q, NEW lim, NEW s, NEW t, NEW u,
         LeadsTo(q, lim, s, t), StepOfWalk(q, lim, t, u)
  PROVE  LeadsTo(q, lim, s, u)
<1> SUFFICES ASSUME NEW S \in SUBSET WalkStates, s \in S, ClosedUnder(q, lim, S)
             PROVE  u \in S
  BY DEF LeadsTo
<1>1. t \in S /\ u \in WalkStates
  BY DEF LeadsTo, StepOfWalk
<1> QED  BY <1>1 DEF ClosedUnder

(* What leads to something else begins with a step.                          *)
LEMMA LeadsByStep ==
  ASSUME NEW q, NEW lim \in Nat, NEW s \in WalkStates, NEW t \in WalkStates,
         LeadsTo(q, lim, s, t), s # t
  PROVE  \E u \in WalkStates : StepOfWalk(q, lim, s, u) /\ LeadsTo(q, lim, u, t)
<1> DEFINE S == {x \in WalkStates : x = s \/ \E u \in WalkStates :
                                              StepOfWalk(q, lim, s, u) /\ LeadsTo(q, lim, u, x)}
<1>1. ASSUME NEW x \in S, NEW y \in WalkStates, StepOfWalk(q, lim, x, y) PROVE y \in S
  <2>1. CASE x = s
    <3>1. LeadsTo(q, lim, y, y)
      BY LeadsToItself
    <3> QED  BY <1>1, <2>1, <3>1
  <2>2. CASE \E u \in WalkStates : StepOfWalk(q, lim, s, u) /\ LeadsTo(q, lim, u, x)
    BY <1>1, <2>2, LeadsFurther
  <2> QED  BY <2>1, <2>2
<1>2. s \in S /\ S \in SUBSET WalkStates
  OBVIOUS
<1>3. ClosedUnder(q, lim, S)
  <2> HIDE DEF S
  <2> QED  BY <1>1 DEF ClosedUnder
<1>4. t \in S
  <2> HIDE DEF S
  <2> QED  BY <1>2, <1>3 DEF LeadsTo
<1> QED  BY <1>4

(* The best only grows on the way.                                           *)
LEMMA BestGrows ==
  ASSUME NEW q, NEW lim \in Nat, NEW s \in WalkStates, NEW t, LeadsTo(q, lim, s, t)
  PROVE  s.best <= t.best
<1> DEFINE S == {x \in WalkStates : s.best <= x.best}
<1>1. ASSUME NEW x \in S, NEW y \in WalkStates, StepOfWalk(q, lim, x, y) PROVE y \in S
  <2>1. y.best \in x.best .. lim /\ x.best \in Nat /\ s.best \in Nat
    BY <1>1 DEF StepOfWalk, Improves, WalkStates
  <2> QED  BY <2>1
<1>2. s \in S /\ S \in SUBSET WalkStates
  BY DEF WalkStates
<1>3. ClosedUnder(q, lim, S)
  <2> HIDE DEF S
  <2> QED  BY <1>1 DEF ClosedUnder
<1>4. t \in S
  <2> HIDE DEF S
  <2> QED  BY <1>2, <1>3 DEF LeadsTo
<1> QED  BY <1>4

(* A walk that is limited to the length that a longer one has found finds   *)
(* it too: they take the same steps until then.                              *)
LEMMA LimitedWalkAgrees ==
  ASSUME NEW q, NEW lim \in Nat, NEW L \in Nat, NEW n, 1 < L, L <= lim,
         WalkEnds(q, lim, L), WalkEnds(q, L, n)
  PROVE  n = L
<1>1. PICK s, a \in WalkStates :
        FirstOfWalk(q, s) /\ LeadsTo(q, lim, s, a) /\ a.dist = WindowSize /\ a.best = L
  BY DEF WalkEnds
<1>2. PICK b \in WalkStates :
        LeadsTo(q, L, s, b) /\ b.dist = WindowSize /\ b.best = n
  <2>1. PICK t, b \in WalkStates :
          FirstOfWalk(q, t) /\ LeadsTo(q, L, t, b) /\ b.dist = WindowSize /\ b.best = n
    BY DEF WalkEnds
  <2>2. t = s
    BY <1>1, <2>1, FirstUnique
  <2> QED  BY <2>1, <2>2
<1> DEFINE S == {x \in WalkStates : \/ x.best = L /\ x.dist = WindowSize
                                    \/ LeadsTo(q, lim, x, a)}
<1>3. ASSUME NEW x \in S, NEW y \in WalkStates, StepOfWalk(q, L, x, y) PROVE y \in S
  <2>1. x.dist < WindowSize /\ x \in WalkStates /\ WindowSize \in Nat
    BY <1>3, HashAssumption DEF StepOfWalk
  <2>2. LeadsTo(q, lim, x, a) /\ x # a
    BY <1>1, <2>1
  <2>3. PICK u \in WalkStates : StepOfWalk(q, lim, x, u) /\ LeadsTo(q, lim, u, a)
    BY <2>1, <2>2, LeadsByStep
  <2>4. u.best <= L
    BY <1>1, <2>3, BestGrows
  <2>5. /\ u.best \in x.best .. lim /\ u.best \in Nat /\ x.best \in Nat
        /\ Improves(q, x.dist, lim, x.best, u.best) /\ Improves(q, x.dist, L, x.best, y.best)
    BY <1>3, <2>3 DEF StepOfWalk, Improves, WalkStates
  <2>6. Improves(q, x.dist, L, x.best, u.best)
    <3>1. u.best \in x.best .. L /\ \A k \in x.best + 1 .. L : k \in x.best + 1 .. lim
      BY <2>4, <2>5
    <3> QED  BY <2>5, <3>1 DEF Improves
  <2>7. y.best = u.best
    BY <2>5, <2>6, ImprovesUnique
  <2>8. CASE y.best = L
    <3>1. y.dist = WindowSize
      BY <1>3, <2>8 DEF StepOfWalk
    <3> QED  BY <2>8, <3>1
  <2>9. CASE y.best # L
    <3>1. ~ (y.best >= L) /\ ~ (u.best >= lim)
      BY <2>4, <2>5, <2>7, <2>9
    <3>2. StepOfWalk(q, lim, x, y)
      BY <1>3, <2>3, <2>5, <2>7, <3>1 DEF StepOfWalk
    <3>3. y = u
      BY <2>3, <3>2, StepUnique
    <3> QED  BY <2>3, <3>3
  <2> QED  BY <2>8, <2>9
<1>4. s \in S /\ S \in SUBSET WalkStates
  BY <1>1
<1>5. ClosedUnder(q, L, S)
  <2> HIDE DEF S
  <2> QED  BY <1>3 DEF ClosedUnder
<1>6. b \in S
  <2> HIDE DEF S
  <2> QED  BY <1>2, <1>4, <1>5 DEF LeadsTo
<1>7. CASE LeadsTo(q, lim, b, a)
  <2>1. b = a
    <3> SUFFICES ASSUME b # a PROVE FALSE
      OBVIOUS
    <3>1. PICK u \in WalkStates : StepOfWalk(q, lim, b, u)
      BY <1>7, LeadsByStep
    <3>2. b.dist < WindowSize /\ b.dist = WindowSize /\ WindowSize \in Nat
      BY <1>2, <3>1, HashAssumption DEF StepOfWalk
    <3> QED  BY <3>2
  <2> QED  BY <1>1, <1>2, <2>1
<1> QED  BY <1>2, <1>6, <1>7

-----------------------------------------------------------------------------
(* The walk that the tables direct is that one.                             *)

(* The link of a position leads to the next one of the same key.            *)
LEMMA LinkIsNext ==
  ASSUME NEW c, NEW f, NEW q \in Nat, Start \in Nat, NEW d \in 0 .. q,
         d < WindowSize, q - d >= Start,
         LinkExact(c, f, Start, q - d), f[q - d] = f[q]
  PROVE  NextDist(f, q, d, Lesser(d + Gap(c.prev[Slot(q - d)], Slot(q - d)), WindowSize))
<1> DEFINE g == Gap(c.prev[Slot(q - d)], Slot(q - d))
<1>1. WindowSize \in Nat \ {0} /\ q - d \in Nat
  BY HashAssumption
<1>2. CASE /\ c.prev[Slot(q - d)] = Slot(q - d)
           /\ \A p \in Start .. q - d - 1 : q - d - p < WindowSize => f[p] # f[q - d]
  <2>1. Slot(q - d) \in Slots
    BY <1>1, SlotType
  <2>2. g = WindowSize
    BY <1>1, <1>2, <2>1 DEF Gap, Slots
  <2>3. Lesser(d + g, WindowSize) = WindowSize
    BY <1>1, <2>2 DEF Lesser
  <2>4. ASSUME NEW r \in d + 1 .. WindowSize - 1, SameKey(f, q, r) PROVE FALSE
    <3>1. q - r \in Start .. q - d - 1 /\ q - d - (q - r) < WindowSize
      BY <1>1, <2>4 DEF SameKey
    <3> QED  BY <1>2, <2>4, <3>1 DEF SameKey
  <2>5. WindowSize \in d + 1 .. WindowSize
    BY <1>1
  <2> QED  BY <1>1, <2>3, <2>4, <2>5 DEF NextDist
<1>3. ASSUME NEW p \in Start .. q - d - 1, q - d - p < WindowSize,
             c.prev[Slot(q - d)] = Slot(p), f[p] = f[q - d],
             \A r \in p + 1 .. q - d - 1 : f[r] # f[q - d]
      PROVE  NextDist(f, q, d, Lesser(d + g, WindowSize))
  <2>1. g = q - d - p
    <3>1. p \in Int /\ q - d \in Int /\ p < q - d
      BY <1>1
    <3> QED  BY <1>3, <3>1, GapIsDistance
  <2>2. PICK e \in Nat : e = Lesser(q - p, WindowSize) /\ e \in d + 1 .. WindowSize
                         /\ e <= q - p /\ (e < WindowSize => e = q - p)
    <3>1. PICK n \in Nat : n = q - p /\ n >= d + 1
      BY <1>1
    <3>2. CASE n < WindowSize
      BY <1>1, <3>1, <3>2 DEF Lesser
    <3>3. CASE ~ (n < WindowSize)
      BY <1>1, <3>1, <3>3 DEF Lesser
    <3> QED  BY <3>2, <3>3
  <2>3. Lesser(d + g, WindowSize) = e
    <3>1. d + g = q - p
      BY <2>1
    <3> QED  BY <2>2, <3>1
  <2>4. ASSUME NEW r \in d + 1 .. e - 1, SameKey(f, q, r) PROVE FALSE
    <3>1. q - r \in p + 1 .. q - d - 1
      BY <1>1, <2>2
    <3> QED  BY <1>3, <2>4, <3>1 DEF SameKey
  <2>5. e < WindowSize => SameKey(f, q, e)
    <3> SUFFICES ASSUME e < WindowSize PROVE SameKey(f, q, e)
      OBVIOUS
    <3>1. q - e = p /\ e <= q - Start
      BY <2>2
    <3> QED  BY <1>3, <3>1 DEF SameKey
  <2> QED  BY <2>2, <2>3, <2>4, <2>5 DEF NextDist
<1> QED  BY <1>2, <1>3 DEF LinkExact

(* What is seen of the local variables w in the state s.                    *)
Sees(w, s) ==
  /\ s.best = w.best /\ s.second = w.second
  /\ s.dist = Lesser(w.dist, WindowSize)
  /\ w.dist < WindowSize => s.hits = w.hits

Walked(q, w) ==
  \E s, t \in WalkStates : FirstOfWalk(q, s) /\ LeadsTo(q, w.limit, s, t) /\ Sees(w, t)

(* A walk depends on the input and the block only.                          *)
LEMMA SameWalks ==
  ASSUME UNCHANGED <<array, instart, end, maxHits>>, NEW q
  PROVE  /\ \A w : Walked(q, w)' <=> Walked(q, w)
         /\ \A lim, n : WalkEnds(q, lim, n)' <=> WalkEnds(q, lim, n)
<1>1. /\ Start' = Start /\ Hashes' = Hashes /\ SecondHashes' = SecondHashes
      /\ RunLengthAt(q)' = RunLengthAt(q)
  BY DEF Start, Hashes, SecondHashes, HashAt, ByteOrZero, RunLengthAt, IsRun, Repeats
<1>2. ASSUME NEW s PROVE FirstOfWalk(q, s)' <=> FirstOfWalk(q, s)
  BY <1>1 DEF FirstOfWalk, NextDist, SameKey, WalkStates
<1>3. ASSUME NEW lim, NEW s, NEW t PROVE StepOfWalk(q, lim, s, t)' <=> StepOfWalk(q, lim, s, t)
  <2>1. ASSUME NEW d, NEW b, NEW n PROVE Improves(q, d, lim, b, n)' <=> Improves(q, d, lim, b, n)
    BY DEF Improves, Agree
  <2>2. ASSUME NEW second, NEW d, NEW e
        PROVE  NextDist(Keys(second), q, d, e)' <=> NextDist(Keys(second), q, d, e)
    BY <1>1 DEF NextDist, SameKey, Keys
  <2> QED  BY <1>1, <2>1, <2>2 DEF StepOfWalk, WalkStates
<1>4. ASSUME NEW lim, NEW s, NEW t PROVE LeadsTo(q, lim, s, t)' <=> LeadsTo(q, lim, s, t)
  BY <1>3 DEF LeadsTo, ClosedUnder, WalkStates
<1>5. ASSUME NEW w PROVE Walked(q, w)' <=> Walked(q, w)
  BY <1>2, <1>4 DEF Walked, Sees, WalkStates
<1>6. ASSUME NEW lim, NEW n PROVE WalkEnds(q, lim, n)' <=> WalkEnds(q, lim, n)
  BY <1>2, <1>4 DEF WalkEnds, WalkStates
<1> QED  BY <1>5, <1>6

(* The keys of the last position, and of the slots of live ones.            *)
LEMMA KeysInTables ==
  ASSUME IInv, SearchInv, at \in Block, NEW d \in 0 .. at, at - d \in Live
  PROVE  /\ Hashes[at - d] = chain.hashval[Slot(at - d)]
         /\ SecondHashes[at - d] = chain2.hashval[Slot(at - d)]
         /\ Hashes[at] = val /\ SecondHashes[at] = val2
<1>1. /\ ChainExact(chain, Hashes, Start, pos) /\ ChainExact(chain2, SecondHashes, Start, pos)
      /\ at \in Live /\ Start < pos /\ pos \in Nat /\ Start \in Nat
  BY HashFacts, InBlock
<1>2. \A q \in Live : /\ Hashes[q] = chain.hashval[Slot(q)]
                      /\ SecondHashes[q] = chain2.hashval[Slot(q)]
  BY <1>1 DEF ChainExact, HashvalExact, Live
<1>3. val = chain.hashval[Slot(at)] /\ val2 = chain2.hashval[Slot(at)]
  BY <1>1 DEF SearchInv, HashesOfLast
<1> QED  BY <1>1, <1>2, <1>3

(* The walk begins where it should.                                         *)
LEMMA StartIsFirst ==
  ASSUME IInv, SearchInv, NEW limit, NEW wantsub, <<limit, wantsub>> \in Calls,
         StartWalk(limit, wantsub)
  PROVE  Walked(at, walk')
<1> DEFINE pp == chain.head[val]
           p == chain.prev[pp]
           e == Lesser(Gap(p, pp), WindowSize)
           s == [best |-> 1, second |-> FALSE, dist |-> e, hits |-> maxHits]
<1>1. /\ at \in Block
      /\ walk' = [NoWalk EXCEPT !.limit = Lesser(UsableLimit(limit, wantsub), end - at),
                                !.p = p, !.dist = Gap(p, pp)]
  BY DEF StartWalk, CanSearch
<1>2. /\ at \in Nat /\ pos = at + 1 /\ Start < pos /\ at \in Live
      /\ WindowSize \in Nat \ {0} /\ Start \in Nat
  BY <1>1, InBlock, HashAssumption, HashFacts
<1>3. pp = Slot(at)
  <2>1. /\ Start \in Nat /\ pos \in Nat /\ pos - 1 = at /\ val \in HashVals
        /\ ChainExact(chain, Hashes, Start, pos)
    BY <1>2, HashFacts
  <2>2. val = chain.hashval[Slot(at)]
    BY <1>2 DEF SearchInv, HashesOfLast
  <2> QED  BY <1>2, <2>1, <2>2, HeadIsLast
<1>4. Gap(p, pp) \in 1 .. WindowSize
  <2>1. pp \in Slots /\ p \in Slots
    BY <1>2, <1>3, HashFacts
  <2> QED  BY <2>1, GapType
<1>5. LinkExact(chain, Hashes, Start, at)
  BY <1>2, HashFacts DEF ChainExact, Live
<1>6. NextDist(Hashes, at, 0, e)
  <2>1. at - 0 = at /\ 0 \in 0 .. at /\ 0 < WindowSize /\ at >= Start
        /\ 0 + Gap(p, pp) = Gap(p, pp)
    BY <1>2, <1>4
  <2>2. Hashes[at - 0] = Hashes[at] /\ LinkExact(chain, Hashes, Start, at - 0)
    BY <1>5, <2>1
  <2>3. NextDist(Hashes, at, 0, Lesser(0 + Gap(chain.prev[Slot(at - 0)], Slot(at - 0)), WindowSize))
    BY <1>2, <2>1, <2>2, LinkIsNext
  <2> QED  BY <1>3, <2>1, <2>3
<1>7. e \in 1 .. WindowSize /\ maxHits \in Int
  BY <1>2, <1>4, MatchAssumption DEF Lesser, SearchInv, MatchTypes
<1> HIDE DEF pp, p
<1>8. /\ walk'.best = 1 /\ walk'.second = FALSE /\ walk'.dist = Gap(p, pp)
      /\ walk'.hits = maxHits
  BY <1>1 DEF NoWalk
<1>9. s \in WalkStates /\ FirstOfWalk(at, s)
  <2> HIDE DEF e
  <2>1. s \in WalkStates
    BY <1>7 DEF WalkStates
  <2> QED  BY <1>6, <2>1 DEF FirstOfWalk
<1>10. Sees(walk', s)
  BY <1>8 DEF Sees
<1> HIDE DEF s
<1> QED  BY <1>9, <1>10, LeadsToItself DEF Walked

(* A visit is a step.                                                        *)
LEMMA VisitIsStep ==
  ASSUME IInv, SearchInv, Visit, Walked(at, walk)
  PROVE  Walked(at, walk')
<1> DEFINE v == Improved(walk)
           w == ChangeOver(v)
           next == w.dist + Gap(NextLink(w), w.p)
           D == walk.dist
<1>1. /\ phase = "walk" /\ walk.dist < WindowSize
      /\ walk' = IF StopsAt(w) \/ Follow(w).hits <= 0 THEN EndedWalk(w) ELSE Follow(w)
  BY DEF Visit
<1>2. /\ at \in Block /\ at \in Nat /\ pos = at + 1 /\ Start \in Nat /\ end \in Nat
      /\ WindowSize \in Nat /\ D \in 1 .. at /\ D \in 1 .. WindowSize - 1
      /\ at - D \in Live /\ walk.p = Slot(at - D)
      /\ walk.limit \in Nat /\ walk.best \in Nat /\ walk.best < walk.limit
      /\ at \in Live /\ at - D \in Start .. at - 1
  BY <1>1, VisitFacts
<1>3. ChainOf(walk).hashval[walk.p] = IF walk.second THEN val2 ELSE val
  BY <1>1 DEF SearchInv, WalkInWindow
<1>4. /\ v \in WalkType /\ v.limit = walk.limit
      /\ v.p = walk.p /\ v.dist = D /\ v.second = walk.second
  BY <1>1, <1>2, ImprovedKeeps DEF SearchInv, IInv
<1>5. walk \in WalkType /\ maxHits \in Nat
  BY MatchAssumption DEF SearchInv, MatchTypes
<1>6. Improves(at, D, walk.limit, walk.best, v.best) /\ v.hits = walk.hits
  <2> DEFINE n == CandidateLength(walk)
  <2>1. /\ n \in 0 .. walk.limit
        /\ n > walk.best => Agree(at, D, n)
        /\ \A k \in walk.best + 1 .. walk.limit : Agree(at, D, k) => k <= n
    BY <1>2, CandidateExact
  <2>2. IF n <= walk.best THEN v = walk
        ELSE v = [walk EXCEPT !.best = n, !.bestdist = walk.dist,
                              !.sublen = [k \in DOMAIN @ |->
                                 IF walk.best < k /\ k <= n THEN walk.dist ELSE @[k]]]
    BY DEF Improved
  <2> HIDE DEF n
  <2>3. v.hits = walk.hits /\ v.best = IF n <= walk.best THEN walk.best ELSE n
    BY <1>5, <2>2 DEF WalkType
  <2> HIDE DEF v
  <2>4. CASE n <= walk.best
    BY <1>2, <2>1, <2>3, <2>4 DEF Improves
  <2>5. CASE ~ (n <= walk.best)
    BY <1>2, <2>1, <2>3, <2>5 DEF Improves
  <2> QED  BY <2>3, <2>4, <2>5
<1> HIDE DEF v
<1>7. w = [v EXCEPT !.second = @ \/ (/\ v.best >= same[Slot(at)]
                                     /\ val2 = chain2.hashval[v.p])]
  BY DEF ChangeOver
<1>8. /\ w \in WalkType /\ w.best = v.best /\ w.limit = walk.limit /\ w.p = walk.p
      /\ w.dist = D /\ w.hits = walk.hits
      /\ w.second = (walk.second \/ (/\ v.best >= same[Slot(at)]
                                     /\ val2 = chain2.hashval[walk.p]))
  BY <1>4, <1>6, <1>7 DEF WalkType
<1> HIDE DEF w
<1>9. /\ same[Slot(at)] = RunLengthAt(at)
      /\ Hashes[at - D] = chain.hashval[walk.p] /\ SecondHashes[at - D] = chain2.hashval[walk.p]
      /\ Hashes[at] = val /\ SecondHashes[at] = val2
  <2>1. D \in 0 .. at
    BY <1>2
  <2>2. same[Slot(at)] \in 0 .. SameCap /\ IsRun(at, same[Slot(at)])
    BY <1>2, SlotType DEF IInv, TypeOK, SameExact
  <2> QED  BY <1>2, <2>1, <2>2, KeysInTables, RunLengthUnique
<1>10. /\ w.second \in BOOLEAN /\ w.best \in Nat /\ w.hits \in Int
       /\ w.p \in Slots /\ NextLink(w) \in Slots
  BY <1>5, <1>8, HashFacts, MatchAssumption, CacheAssumption DEF NextLink, ChainOf, WalkType
<1>11. Keys(w.second)[at - D] = Keys(w.second)[at]
  <2>1. CASE walk.second
    BY <1>3, <1>8, <1>9, <2>1 DEF ChainOf, Keys
  <2>2. CASE ~ walk.second
    BY <1>3, <1>8, <1>9, <2>2 DEF ChainOf, Keys
  <2> QED  BY <2>1, <2>2
<1>12. NextDist(Keys(w.second), at, D, Lesser(next, WindowSize))
  <2>1. LinkExact(ChainOf(w), Keys(w.second), Start, at - D)
    <3>1. ChainExact(ChainOf(w), Keys(w.second), Start, pos)
      BY HashFacts DEF ChainOf, Keys
    <3> QED  BY <1>2, <3>1 DEF ChainExact, Live
  <2>2. D \in 0 .. at /\ D < WindowSize /\ at - D >= Start
    BY <1>2
  <2>3. next = D + Gap(ChainOf(w).prev[Slot(at - D)], Slot(at - D))
    BY <1>2, <1>8 DEF NextLink
  <2> QED  BY <1>2, <1>11, <2>1, <2>2, <2>3, LinkIsNext
<1>13. Gap(NextLink(w), w.p) \in 1 .. WindowSize
       /\ (NextLink(w) = w.p => Gap(NextLink(w), w.p) = WindowSize)
  BY <1>2, <1>10, GapType DEF Gap, Slots
<1>14. next \in Nat /\ next >= 1 /\ (NextLink(w) = w.p => next >= WindowSize)
  BY <1>2, <1>8, <1>13
<1>15. Follow(w) = [w EXCEPT !.p = NextLink(w), !.dist = next, !.hits = w.hits - 1]
  BY <1>8 DEF Follow, WalkType
<1> HIDE DEF next
<1>16. Follow(w).hits = w.hits - 1
  BY <1>8, <1>15 DEF WalkType
<1>17. PICK s, t \in WalkStates :
         FirstOfWalk(at, s) /\ LeadsTo(at, walk.limit, s, t) /\ Sees(walk, t)
  BY DEF Walked
<1>18. t.best = walk.best /\ t.second = walk.second /\ t.dist = D /\ t.hits = walk.hits
  BY <1>1, <1>2, <1>17 DEF Sees, Lesser
<1> DEFINE stops == w.best >= walk.limit \/ w.hits - 1 <= 0
           u == [best |-> w.best, second |-> w.second, hits |-> w.hits - 1,
                 dist |-> IF stops THEN WindowSize ELSE Lesser(next, WindowSize)]
<1>19. u \in WalkStates
  <2>1. (IF stops THEN WindowSize ELSE Lesser(next, WindowSize)) \in 1 .. WindowSize
    BY <1>2, <1>14 DEF Lesser
  <2> HIDE DEF stops
  <2> QED  BY <1>10, <2>1 DEF WalkStates
<1>20. /\ u.best = w.best /\ u.second = w.second /\ u.hits = w.hits - 1
       /\ u.dist = IF stops THEN WindowSize ELSE Lesser(next, WindowSize)
  OBVIOUS
<1> HIDE DEF u
<1>21. StepOfWalk(at, walk.limit, t, u)
  <2>1. Improves(at, t.dist, walk.limit, t.best, u.best)
    BY <1>6, <1>8, <1>18, <1>20
  <2>2. u.second = (t.second \/ (/\ u.best >= RunLengthAt(at)
                                 /\ SecondHashes[at - t.dist] = SecondHashes[at]))
    BY <1>8, <1>9, <1>18, <1>20
  <2>3. u.hits = t.hits - 1
    BY <1>8, <1>18, <1>20
  <2>4. IF u.best >= walk.limit \/ u.hits <= 0 THEN u.dist = WindowSize
        ELSE NextDist(Keys(u.second), at, t.dist, u.dist)
    BY <1>12, <1>18, <1>20
  <2> QED  BY <1>1, <1>17, <1>18, <1>19, <2>1, <2>2, <2>3, <2>4 DEF StepOfWalk
<1>22. walk'.limit = walk.limit /\ Sees(walk', u)
  <2>1. CASE StopsAt(w) \/ Follow(w).hits <= 0
    <3>1. walk' = [w EXCEPT !.dist = WindowSize]
      BY <1>1, <2>1 DEF EndedWalk
    <3>2. /\ walk'.limit = walk.limit /\ walk'.best = w.best /\ walk'.second = w.second
          /\ walk'.dist = WindowSize
      BY <1>8, <3>1 DEF WalkType
    <3>3. u.dist = WindowSize
      <4>1. CASE stops
        BY <1>20, <4>1
      <4>2. CASE ~ stops
        <5>1. NextLink(w) = w.p
          BY <1>8, <1>16, <2>1, <4>2 DEF StopsAt
        <5> QED  BY <1>2, <1>14, <1>20, <4>2, <5>1 DEF Lesser
      <4> QED  BY <4>1, <4>2
    <3> QED  BY <1>2, <1>20, <3>2, <3>3 DEF Sees, Lesser
  <2>2. CASE ~ (StopsAt(w) \/ Follow(w).hits <= 0)
    <3>1. walk' = [w EXCEPT !.p = NextLink(w), !.dist = next, !.hits = w.hits - 1]
      BY <1>1, <1>15, <2>2
    <3>2. /\ walk'.limit = walk.limit /\ walk'.best = w.best /\ walk'.second = w.second
          /\ walk'.dist = next /\ walk'.hits = w.hits - 1
      BY <1>8, <3>1 DEF WalkType
    <3>3. ~ stops
      BY <1>8, <1>16, <2>2 DEF StopsAt
    <3> QED  BY <1>20, <3>2, <3>3 DEF Sees
  <2> QED  BY <2>1, <2>2
<1>23. LeadsTo(at, walk'.limit, s, u)
  BY <1>17, <1>21, <1>22, LeadsFurther
<1> QED  BY <1>17, <1>19, <1>22, <1>23 DEF Walked

-----------------------------------------------------------------------------
(* What the walks of all passes have in common.                             *)

(* The limit of a walk is that of the call, or what the cache tells.        *)
LimitedTo(limit, wantsub, n) ==
  /\ ~ CacheAnswers(limit, wantsub)
  /\ n = Lesser(UsableLimit(limit, wantsub), end - at)

WalkTraced ==
  phase = "walk" => Walked(at, walk) /\ LimitedTo(call[1], call[2], walk.limit)

(* What is cached was found by a walk with no other limit than the longest  *)
(* match there may be.                                                       *)
CacheTraced ==
  lmc # NoCache =>
    \A q \in Block : Available(lmc, q) /\ lmc.length[q] # 0 =>
      WalkEnds(q, Lesser(MaxMatch, end - q), lmc.length[q])

LengthAgrees ==
  phase = "found" /\ CacheKnows /\ call[1] = MaxMatch =>
    IF lmc.length[at] = 0 THEN found.length < MinMatch
    ELSE found.length = lmc.length[at]

AgreeInv == WalkTraced /\ CacheTraced /\ LengthAgrees

LEMMA SameLimited ==
  ASSUME UNCHANGED <<lmc, pos, end>>, NEW limit, NEW wantsub, NEW n
  PROVE  LimitedTo(limit, wantsub, n)' <=> LimitedTo(limit, wantsub, n)
BY DEF LimitedTo, CacheAnswers, LimitOkForCache, CacheKnows, Available, MaxCachedSublen,
       UsableLimit, at

LEMMA WalkTracedNext ==
  ASSUME UNCHANGED <<array, instart, end, pos, maxHits, lmc>>,
         Walked(at, walk'), LimitedTo(call'[1], call'[2], walk'.limit)
  PROVE  WalkTraced'
<1>1. PICK q, w, l, b, n : at = q /\ walk' = w /\ call'[1] = l /\ call'[2] = b /\ walk'.limit = n
  OBVIOUS
<1>2. at' = q
  BY <1>1 DEF at
<1>3. Walked(q, w)' /\ LimitedTo(l, b, n)'
  BY <1>1, SameWalks, SameLimited
<1>4. Walked(at, walk)'
  BY <1>1, <1>2, <1>3 DEF Walked
<1>5. LimitedTo(call[1], call[2], walk.limit)'
  BY <1>1, <1>3 DEF LimitedTo, CacheAnswers, LimitOkForCache, UsableLimit
<1> QED  BY <1>4, <1>5 DEF WalkTraced

LEMMA CacheTracedKept ==
  ASSUME CacheTraced, UNCHANGED <<array, instart, end, maxHits, lmc>>
  PROVE  CacheTraced'
<1>1. Block' = Block
  BY DEF Block
<1>2. \A q, lim, n : WalkEnds(q, lim, n)' <=> WalkEnds(q, lim, n)
  BY SameWalks
<1> SUFFICES ASSUME lmc # NoCache, NEW q \in Block, Available(lmc, q), lmc.length[q] # 0
             PROVE  WalkEnds(q, Lesser(MaxMatch, end - q), lmc.length[q])'
  BY <1>1 DEF CacheTraced, Available
<1>3. PICK lim, n : lim = Lesser(MaxMatch, end - q) /\ n = lmc.length[q]
  OBVIOUS
<1>4. WalkEnds(q, lim, n)'
  BY <1>2, <1>3 DEF CacheTraced
<1>5. Lesser(MaxMatch, end - q)' = lim /\ lmc'.length[q] = n
  BY <1>3 DEF Lesser
<1> QED  BY <1>4, <1>5 DEF WalkEnds, LeadsTo, ClosedUnder, StepOfWalk

(* What is stored is traced if it is stored at all.                         *)
LEMMA StoredIsTraced ==
  ASSUME SearchInv, CacheTraced, at \in Block, NEW limit, NEW wantsub, NEW sublen, NEW dist,
         NEW length \in 0 .. MaxMatch,
         lmc' = StoredCache(limit, wantsub, sublen, dist, length),
         UNCHANGED <<array, instart, end, pos, maxHits>>,
         lmc # NoCache /\ ~ Available(lmc, at) /\ length >= MinMatch
           /\ (limit = MaxMatch \/ ~ (at + limit < end)) =>
           WalkEnds(at, Lesser(MaxMatch, end - at), length)
  PROVE  /\ CacheTraced'
         /\ \/ lmc' = lmc
            \/ /\ lmc # NoCache /\ ~ Available(lmc, at)
               /\ lmc'.length[at] = IF length < MinMatch THEN 0 ELSE length
<1>1. CASE lmc' = lmc
  BY <1>1, CacheTracedKept
<1>2. CASE lmc' # lmc
  <2> DEFINE d == IF length < MinMatch THEN 0 ELSE dist
             n == IF length < MinMatch THEN 0 ELSE length
             c == [lmc EXCEPT !.dist[at] = d, !.length[at] = n]
  <2>1. /\ lmc # NoCache /\ ~ Available(lmc, at) /\ lmc' = SublenToCache(c, at, length, sublen)
        /\ limit = MaxMatch \/ ~ (at + limit < end)
    BY <1>2 DEF StoredCache
  <2>2. MinMatch \in Nat /\ MaxMatch \in Nat /\ (n # 0 => n = length /\ length >= MinMatch)
    BY CacheAssumption, MatchAssumption
  <2> HIDE DEF d, n
  <2>3. /\ DOMAIN lmc = {"length", "dist", "runOff", "pool", "used", "cap", "alloc", "complete"}
        /\ lmc.length \in [Block -> 0 .. MaxMatch] /\ lmc.dist \in [Block -> 0 .. WindowSize - 1]
    BY <2>1 DEF SearchInv, CacheSound
  <2>4. /\ DOMAIN c = DOMAIN lmc
        /\ c.length = [lmc.length EXCEPT ![at] = n] /\ c.dist = [lmc.dist EXCEPT ![at] = d]
    BY <2>3
  <2> HIDE DEF c
  <2>5. lmc'.length = c.length /\ lmc'.dist = c.dist
    BY <2>1, <2>3, <2>4 DEF SublenToCache
  <2>6. /\ lmc'.length[at] = n
        /\ \A q \in Block : q # at => lmc'.length[q] = lmc.length[q] /\ lmc'.dist[q] = lmc.dist[q]
    BY <2>3, <2>4, <2>5
  <2>7. ASSUME NEW q \in Block, Available(lmc, q)', lmc'.length[q] # 0
        PROVE  WalkEnds(q, Lesser(MaxMatch, end - q), lmc'.length[q])
    <3>1. CASE q = at
      <4>1. n = length /\ length >= MinMatch
        BY <2>2, <2>6, <2>7, <3>1
      <4> QED  BY <2>1, <2>6, <3>1, <4>1
    <3>2. CASE q # at
      <4>1. Available(lmc, q) /\ lmc.length[q] # 0
        BY <2>6, <2>7, <3>2 DEF Available
      <4> QED  BY <2>1, <2>6, <3>2, <4>1 DEF CacheTraced
    <3> QED  BY <3>1, <3>2
  <2>8. CacheTraced'
    <3>1. Block' = Block
      BY DEF Block
    <3> SUFFICES ASSUME NEW q \in Block, Available(lmc, q)', lmc'.length[q] # 0
                 PROVE  WalkEnds(q, Lesser(MaxMatch, end - q), lmc.length[q])'
      BY <3>1 DEF CacheTraced
    <3>2. PICK lim, m : lim = Lesser(MaxMatch, end - q) /\ m = lmc'.length[q]
      OBVIOUS
    <3>3. WalkEnds(q, lim, m)'
      BY <2>7, <3>2, SameWalks
    <3>4. Lesser(MaxMatch, end - q)' = lim
      BY <3>2 DEF Lesser
    <3> QED  BY <3>2, <3>3, <3>4 DEF WalkEnds, LeadsTo, ClosedUnder, StepOfWalk
  <2> QED  BY <2>1, <2>6, <2>8 DEF n
<1> QED  BY <1>1, <1>2

(* A cached match fits into the block and is no shorter than a match may be. *)
LEMMA CachedMatch ==
  ASSUME IInv, SearchInv, NearestInv, at \in Block, CacheKnows, lmc.length[at] # 0
  PROVE  /\ lmc.length[at] \in MinMatch .. MaxMatch /\ lmc.length[at] <= end - at
         /\ IsNearest(at, lmc.length[at], lmc.dist[at])
<1>1. /\ lmc # NoCache /\ Available(lmc, at)
      /\ MinMatch \in Nat /\ MaxMatch \in Nat /\ at \in Nat /\ end \in Nat
  BY CacheAssumption, MatchAssumption, InBlock, HashFacts DEF CacheKnows
<1>2. PICK L \in 0 .. MaxMatch : L = lmc.length[at]
  BY <1>1 DEF SearchInv, CacheSound
<1>3. lmc.dist[at] # 0
  BY <1>1 DEF Available
<1>4. L >= MinMatch
  BY <1>1, <1>2, <1>3 DEF SearchInv, CacheSound
<1>5. IsNearest(at, L, lmc.dist[at])
  BY <1>1, <1>2 DEF NearestInv, CacheNearest
<1>6. at + L <= end
  BY <1>5 DEF IsNearest, Reaching
<1> QED  BY <1>1, <1>2, <1>4, <1>5, <1>6

(* A cached 0 answers every search without a limit.                         *)
LEMMA ZeroAnswers ==
  ASSUME CacheKnows, lmc.length[at] = 0, NEW wantsub
  PROVE  CacheAnswers(MaxMatch, wantsub)
BY DEF CacheAnswers, LimitOkForCache, MaxCachedSublen

(* Answers that agree in length agree in everything.                        *)
LEMMA AgreeIs ==
  ASSUME IInv, SearchInv, NearestInv, LengthAgrees PROVE AnswersAgree
<1> SUFFICES ASSUME phase = "found", CacheKnows, call[1] = MaxMatch, lmc.length[at] # 0
             PROVE  /\ found.length = lmc.length[at]
                    /\ found.dist = lmc.dist[at]
                    /\ call[2] /\ lmc.runOff[at] # NoSublen =>
                         \A k \in MinMatch .. found.length :
                           found.sublen[k] = CachedDist(lmc, at, k)
  BY DEF LengthAgrees, AnswersAgree
<1>1. /\ at \in Block /\ lmc # NoCache /\ Available(lmc, at)
      /\ MinMatch \in Nat /\ MaxMatch \in Nat
  BY CacheAssumption, MatchAssumption DEF SearchInv, MatchTypes, CacheKnows
<1>2. PICK L \in MinMatch .. MaxMatch :
        L = lmc.length[at] /\ found.length = L /\ IsNearest(at, L, lmc.dist[at])
  BY <1>1, CachedMatch DEF LengthAgrees
<1>3. /\ found.dist = Nearest(at, L)
      /\ call[2] => \A k \in MinMatch .. L : found.sublen[k] = Nearest(at, k)
  <2>1. found.length >= MinMatch
    BY <1>1, <1>2
  <2> QED  BY <1>2, <2>1 DEF NearestInv, MatchIsNearest
<1>4. found.dist = lmc.dist[at]
  BY <1>2, <1>3, NearestIs
<1>5. ASSUME call[2], lmc.runOff[at] # NoSublen, NEW k \in MinMatch .. L
      PROVE  found.sublen[k] = CachedDist(lmc, at, k)
  <2>1. PoolFits(lmc) /\ lmc.runOff[at] \in Nat /\ HasRuns(lmc, at)
    <3>1. lmc.runOff[at] \in 0 .. lmc.used - 1
      BY <1>1, <1>5 DEF NearestInv, PoolSound
    <3> QED  BY <1>1, <1>5, <3>1 DEF NearestInv, PoolSound, CacheNearest
  <2>2. PICK r \in Nat : FirstRunFor(lmc, at, k, r) /\ IsNearest(at, k, lmc.pool[r][2])
    BY <1>2, <2>1 DEF HasRuns
  <2>3. k \in Nat
    BY <1>1
  <2>4. CachedDist(lmc, at, k) = lmc.pool[r][2]
    BY <2>1, <2>2, <2>3, CachedDistIs
  <2> QED  BY <1>3, <1>5, <2>2, <2>4, NearestIs
<1> QED  BY <1>2, <1>4, <1>5

-----------------------------------------------------------------------------
(* The steps.                                                                *)

LEMMA StartWalkTraced ==
  ASSUME IInv, SearchInv, AgreeInv, NEW limit, NEW wantsub, <<limit, wantsub>> \in Calls,
         StartWalk(limit, wantsub)
  PROVE  AgreeInv'
<1>1. /\ ~ CacheAnswers(limit, wantsub) /\ call' = <<limit, wantsub>>
      /\ walk'.limit = Lesser(UsableLimit(limit, wantsub), end - at)
      /\ phase' = "walk" /\ UNCHANGED <<array, instart, end, pos, maxHits, lmc>>
  BY DEF StartWalk, CanSearch, NoWalk, vars
<1>2. Walked(at, walk')
  BY StartIsFirst
<1>3. LimitedTo(call'[1], call'[2], walk'.limit)
  BY <1>1 DEF LimitedTo
<1>4. WalkTraced' /\ CacheTraced'
  BY <1>1, <1>2, <1>3, WalkTracedNext, CacheTracedKept DEF AgreeInv
<1>5. LengthAgrees'
  BY <1>1 DEF LengthAgrees
<1> QED  BY <1>4, <1>5 DEF AgreeInv

LEMMA VisitTraced ==
  ASSUME IInv, SearchInv, AgreeInv, Visit PROVE AgreeInv'
<1>1. /\ phase = "walk" /\ phase' = "walk" /\ call' = call
      /\ UNCHANGED <<array, instart, end, pos, maxHits, lmc>>
  BY DEF Visit, vars
<1>2. Walked(at, walk')
  BY <1>1, VisitIsStep DEF AgreeInv, WalkTraced
<1>3. walk'.limit = walk.limit
  <2>1. /\ walk.dist < WindowSize
        /\ walk' = IF \/ StopsAt(ChangeOver(Improved(walk)))
                      \/ Follow(ChangeOver(Improved(walk))).hits <= 0
                     THEN EndedWalk(ChangeOver(Improved(walk)))
                     ELSE Follow(ChangeOver(Improved(walk)))
    BY DEF Visit
  <2>2. PICK v : v = Improved(walk)
    OBVIOUS
  <2>3. v.limit = walk.limit /\ v \in WalkType
    BY <1>1, <2>1, <2>2, VisitFacts, ImprovedKeeps DEF SearchInv, IInv
  <2>4. PICK w : w = ChangeOver(v)
    OBVIOUS
  <2>5. w.limit = v.limit /\ w \in WalkType
    BY <2>3, <2>4 DEF ChangeOver, WalkType
  <2>6. EndedWalk(w).limit = w.limit /\ Follow(w).limit = w.limit
    BY <2>5 DEF EndedWalk, Follow, WalkType
  <2> QED  BY <2>1, <2>2, <2>3, <2>4, <2>5, <2>6
<1>4. LimitedTo(call'[1], call'[2], walk'.limit)
  BY <1>1, <1>3 DEF AgreeInv, WalkTraced
<1>5. WalkTraced' /\ CacheTraced'
  BY <1>1, <1>2, <1>4, WalkTracedNext, CacheTracedKept DEF AgreeInv
<1>6. LengthAgrees'
  BY <1>1 DEF LengthAgrees
<1> QED  BY <1>5, <1>6 DEF AgreeInv

LEMMA FinishTraced ==
  ASSUME IInv, SearchInv, NearestInv, AgreeInv, Finish PROVE AgreeInv'
<1>1. /\ phase = "walk" /\ walk.dist >= WindowSize /\ phase' = "found"
      /\ UNCHANGED <<array, instart, end, pos, maxHits, call>>
      /\ found'.length = walk.best
      /\ lmc' = StoredCache(walk.limit, call[2], IF call[2] THEN walk.sublen ELSE NoSublens,
                            walk.bestdist, walk.best)
  BY DEF Finish, vars
<1>2. /\ at \in Block /\ walk \in WalkType /\ walk.limit \in Nat
      /\ call[1] \in MinMatch .. MaxMatch
      /\ MinMatch \in Nat /\ 3 <= MinMatch /\ MaxMatch \in Nat /\ WindowSize \in Nat
      /\ at \in Nat /\ end \in Nat /\ end - at \in Nat
  BY <1>1, InBlock, HashFacts, MatchAssumption, CacheAssumption, HashAssumption
     DEF SearchInv, MatchTypes
<1>3. walk.best \in 1 .. MaxMatch /\ walk.best \in 0 .. MaxMatch /\ walk.dist \in Nat
  BY <1>2 DEF WalkType
<1>4. LimitedTo(call[1], call[2], walk.limit)
  BY <1>1 DEF AgreeInv, WalkTraced
<1>5. WalkEnds(at, walk.limit, walk.best)
  <2>1. PICK s, t \in WalkStates :
          FirstOfWalk(at, s) /\ LeadsTo(at, walk.limit, s, t) /\ Sees(walk, t)
    BY <1>1 DEF AgreeInv, WalkTraced, Walked
  <2>2. t.best = walk.best /\ t.dist = WindowSize
    BY <1>1, <1>2, <1>3, <2>1 DEF Sees, Lesser
  <2> QED  BY <2>1, <2>2 DEF WalkEnds
<1>6. ASSUME ~ CacheKnows, walk.limit = MaxMatch \/ ~ (at + walk.limit < end)
      PROVE  walk.limit = Lesser(MaxMatch, end - at)
  <2>1. walk.limit = Lesser(call[1], end - at)
    BY <1>4, <1>6 DEF LimitedTo, UsableLimit, LimitOkForCache
  <2>2. PICK c \in MinMatch .. MaxMatch : c = call[1]
    BY <1>2
  <2>3. PICK l, n \in Nat : l = walk.limit /\ n = end - at
    BY <1>2
  <2>4. l = MaxMatch \/ l >= n
    BY <1>2, <1>6, <2>3
  <2>5. c \in Nat /\ c <= MaxMatch /\ l = Lesser(c, n)
    BY <1>2, <2>1, <2>2, <2>3
  <2>6. l = Lesser(MaxMatch, n)
    BY <1>2, <2>4, <2>5 DEF Lesser
  <2> QED  BY <2>3, <2>6
<1>7. /\ CacheTraced'
      /\ \/ lmc' = lmc
         \/ /\ lmc # NoCache /\ ~ Available(lmc, at)
            /\ lmc'.length[at] = IF walk.best < MinMatch THEN 0 ELSE walk.best
  <2>1. lmc # NoCache /\ ~ Available(lmc, at) /\ walk.best >= MinMatch
           /\ (walk.limit = MaxMatch \/ ~ (at + walk.limit < end)) =>
           WalkEnds(at, Lesser(MaxMatch, end - at), walk.best)
    BY <1>5, <1>6 DEF CacheKnows
  <2>2. CacheTraced
    BY DEF AgreeInv
  <2>3. PICK n \in 0 .. MaxMatch : n = walk.best
    BY <1>3
  <2>4. PICK limit, wantsub, sublen, dist :
          /\ limit = walk.limit /\ wantsub = call[2] /\ dist = walk.bestdist
          /\ sublen = IF call[2] THEN walk.sublen ELSE NoSublens
    OBVIOUS
  <2>5. lmc' = StoredCache(limit, wantsub, sublen, dist, n)
    BY <1>1, <2>3, <2>4
  <2> QED  BY <1>1, <1>2, <2>1, <2>2, <2>3, <2>4, <2>5, StoredIsTraced
<1>8. LengthAgrees'
  <2> SUFFICES ASSUME CacheKnows', call[1] = MaxMatch
               PROVE  IF lmc'.length[at] = 0 THEN walk.best < MinMatch
                      ELSE walk.best = lmc'.length[at]
    BY <1>1 DEF LengthAgrees, at
  <2>1. CASE lmc' = lmc
    <3>1. CacheKnows
      BY <1>1, <2>1 DEF CacheKnows, Available, at
    <3>2. lmc.length[at] # 0
      BY <1>4, <3>1, ZeroAnswers DEF LimitedTo
    <3>3. PICK L \in MinMatch .. MaxMatch : L = lmc.length[at] /\ L <= end - at
      BY <1>2, <3>1, <3>2, CachedMatch
    <3>4. walk.limit = L
      <4>1. UsableLimit(call[1], call[2]) = L
        BY <3>1, <3>3 DEF UsableLimit, LimitOkForCache
      <4> QED  BY <1>2, <1>4, <3>3, <4>1 DEF LimitedTo, Lesser
    <3>5. WalkEnds(at, Lesser(MaxMatch, end - at), L)
      BY <1>2, <3>1, <3>2, <3>3 DEF AgreeInv, CacheTraced, CacheKnows
    <3>6. L \in Nat /\ 1 < L /\ Lesser(MaxMatch, end - at) \in Nat
          /\ L <= Lesser(MaxMatch, end - at)
      BY <1>2, <3>3 DEF Lesser
    <3>7. walk.best = L
      BY <1>5, <3>4, <3>5, <3>6, LimitedWalkAgrees
    <3> QED  BY <2>1, <3>2, <3>3, <3>7
  <2>2. CASE lmc'.length[at] = IF walk.best < MinMatch THEN 0 ELSE walk.best
    BY <1>2, <1>3, <2>2
  <2> QED  BY <1>7, <2>1, <2>2
<1>9. WalkTraced'
  BY <1>1 DEF WalkTraced
<1> QED  BY <1>7, <1>8, <1>9 DEF AgreeInv

LEMMA ServeTraced ==
  ASSUME IInv, SearchInv, AgreeInv, NEW limit, NEW wantsub, <<limit, wantsub>> \in Calls,
         Serve(limit, wantsub)
  PROVE  AgreeInv'
<1>1. /\ at \in Block /\ call' = <<limit, wantsub>> /\ phase' = "found"
      /\ CacheAnswers(limit, wantsub) /\ found' \in CachedAnswers(limit, wantsub)
      /\ UNCHANGED <<array, instart, end, pos, maxHits, lmc>>
  BY DEF Serve, CanSearch, vars
<1>2. CacheTraced' /\ WalkTraced'
  BY <1>1, CacheTracedKept DEF AgreeInv, WalkTraced
<1>3. LengthAgrees'
  <2> SUFFICES ASSUME limit = MaxMatch
               PROVE  IF lmc.length[at] = 0 THEN found'.length < MinMatch
                      ELSE found'.length = lmc.length[at]
    BY <1>1 DEF LengthAgrees, at
  <2>1. found'.length = Lesser(lmc.length[at], limit)
    BY <1>1 DEF CachedAnswers
  <2>2. lmc.length[at] \in 0 .. MaxMatch /\ MaxMatch \in Nat /\ MinMatch \in Nat \ {0}
    BY <1>1, MatchAssumption, CacheAssumption
       DEF CacheAnswers, LimitOkForCache, CacheKnows, SearchInv, CacheSound
  <2> QED  BY <2>1, <2>2 DEF Lesser
<1> QED  BY <1>2, <1>3 DEF AgreeInv

LEMMA GiveUpTraced ==
  ASSUME IInv, SearchInv, NearestInv, AgreeInv, NEW limit, NEW wantsub,
         <<limit, wantsub>> \in Calls, GiveUpNearEnd(limit, wantsub)
  PROVE  AgreeInv'
<1>1. /\ at \in Block /\ call' = <<limit, wantsub>> /\ phase' = "found"
      /\ end - at < MinMatch /\ found'.length = 0
      /\ lmc' = StoredCache(UsableLimit(limit, wantsub), wantsub, NoSublens, 0, 0)
      /\ UNCHANGED <<array, instart, end, pos, maxHits>>
  BY DEF GiveUpNearEnd, CanSearch, NotFound, vars
<1>2. MinMatch \in Nat \ {0} /\ MaxMatch \in Nat /\ 0 \in 0 .. MaxMatch /\ end - at \in Nat
  BY <1>1, CacheAssumption, MatchAssumption, InBlock
<1>3. /\ CacheTraced'
      /\ \/ lmc' = lmc
         \/ lmc'.length[at] = 0
  <2>1. CacheTraced /\ 0 < MinMatch /\ ~ (0 >= MinMatch)
    BY <1>2 DEF AgreeInv
  <2>2. PICK use : use = UsableLimit(limit, wantsub)
    OBVIOUS
  <2>3. PICK none \in 0 .. MaxMatch : none = 0
    BY <1>2
  <2>4. PICK g, sublen : g = 0 /\ sublen = NoSublens
    OBVIOUS
  <2>5. lmc' = StoredCache(use, wantsub, sublen, g, none) /\ ~ (none >= MinMatch)
    BY <1>1, <2>1, <2>2, <2>3, <2>4
  <2>6. /\ CacheTraced'
        /\ \/ lmc' = lmc
           \/ /\ lmc # NoCache /\ ~ Available(lmc, at)
              /\ lmc'.length[at] = IF none < MinMatch THEN 0 ELSE none
    BY <1>1, <2>1, <2>5, StoredIsTraced
  <2> QED  BY <2>3, <2>6
<1>4. LengthAgrees'
  <2> SUFFICES ASSUME CacheKnows', lmc'.length[at] # 0 PROVE FALSE
    BY <1>1, <1>2 DEF LengthAgrees, at
  <2>1. lmc' = lmc
    BY <1>3
  <2>2. CacheKnows
    BY <1>1, <2>1 DEF CacheKnows, Available, at
  <2>3. lmc.length[at] \in MinMatch .. MaxMatch /\ lmc.length[at] <= end - at
    BY <1>1, <2>1, <2>2, CachedMatch
  <2> QED  BY <1>1, <1>2, <2>3
<1>5. WalkTraced'
  BY <1>1 DEF WalkTraced
<1> QED  BY <1>3, <1>4, <1>5 DEF AgreeInv

LEMMA CallerTraced ==
  ASSUME AgreeInv, Advance \/ NextPass PROVE AgreeInv'
<1>1. phase' = "between" /\ UNCHANGED <<array, instart, end, maxHits, lmc>>
  BY DEF Advance, NextPass, UpdateHash, StartRun
<1>2. CacheTraced'
  BY <1>1, CacheTracedKept DEF AgreeInv
<1> QED  BY <1>1, <1>2 DEF AgreeInv, WalkTraced, LengthAgrees

LEMMA IdleTraced ==
  ASSUME AgreeInv, UNCHANGED allVars PROVE AgreeInv'
<1>1. UNCHANGED <<array, instart, end, pos, maxHits, lmc, phase, call, walk, found>>
  BY DEF allVars, vars, matchVars
<1>2. CacheTraced'
  BY <1>1, CacheTracedKept DEF AgreeInv
<1>3. LengthAgrees'
  BY <1>1 DEF AgreeInv, LengthAgrees, CacheKnows, Available, at
<1>4. WalkTraced'
  <2>1. phase = "walk" => Walked(at, walk') /\ LimitedTo(call'[1], call'[2], walk'.limit)
    BY <1>1 DEF AgreeInv, WalkTraced
  <2>2. CASE phase = "walk"
    BY <1>1, <2>1, <2>2, WalkTracedNext
  <2>3. CASE phase # "walk"
    BY <1>1, <2>3 DEF WalkTraced
  <2> QED  BY <2>2, <2>3
<1> QED  BY <1>2, <1>3, <1>4 DEF AgreeInv

LEMMA InitTraced == InitSearch => AgreeInv
<1> SUFFICES ASSUME InitSearch PROVE AgreeInv
  OBVIOUS
<1>1. phase = "between" /\ lmc \in {InitCache(Block), NoCache}
  BY DEF InitSearch
<1>2. ASSUME lmc # NoCache, NEW q \in Block PROVE ~ Available(lmc, q)
  BY <1>1, <1>2 DEF InitCache, Available
<1> QED  BY <1>1, <1>2 DEF AgreeInv, WalkTraced, CacheTraced, LengthAgrees

(* What the cache keeps of a pass and what the next passes find             *)
(* (lz77.c:488-551, 553-703): a position answers the same in every pass,    *)
(* served or walked for again with the cached length as its limit, however  *)
(* few candidates the walks are allowed.                                    *)
THEOREM AnswersStayTheSame == SearchSpec => []AnswersAgree
<1>1. IInv /\ SearchInv /\ NearestInv /\ AgreeInv /\ [NextSearch]_allVars => AgreeInv'
  <2> SUFFICES ASSUME IInv, SearchInv, NearestInv, AgreeInv, [NextSearch]_allVars
               PROVE  AgreeInv'
    OBVIOUS
  <2>1. CASE Advance \/ NextPass
    BY <2>1, CallerTraced
  <2>2. CASE Search
    <3>1. PICK c \in Calls : \/ Serve(c[1], c[2]) \/ GiveUpNearEnd(c[1], c[2])
                             \/ StartWalk(c[1], c[2])
      BY <2>2 DEF Search
    <3>2. <<c[1], c[2]>> \in Calls
      BY MatchAssumption
    <3> QED  BY <3>1, <3>2, ServeTraced, GiveUpTraced, StartWalkTraced
  <2>3. CASE Visit
    BY <2>3, VisitTraced
  <2>4. CASE Finish
    BY <2>4, FinishTraced
  <2>5. CASE Done \/ UNCHANGED allVars
    BY <2>5, IdleTraced DEF Done
  <2> QED  BY <2>1, <2>2, <2>3, <2>4, <2>5 DEF NextSearch
<1>2. IInv /\ SearchInv /\ NearestInv /\ AgreeInv => AnswersAgree
  BY AgreeIs DEF AgreeInv
<1>3. SearchSpec => []IInv
  BY SearchDrivesHash, Invariant, PTL
<1> QED  BY InitTraced, SearchInvariant, NearestInvariant, <1>1, <1>2, <1>3, PTL DEF SearchSpec
=============================================================================
