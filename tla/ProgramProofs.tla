---------------------------- MODULE ProgramProofs ----------------------------
(***************************************************************************)
(* Proofs about the two command-line programs.                             *)
(*                                                                         *)
(* zopfli: the checksum does not depend on where the sums are reduced,     *)
(* what is written whole reads back as the whole input, and the exit       *)
(* status tells whether something failed, whatever sizes files are said to *)
(* have, however their bytes come, and whatever fails.                     *)
(*                                                                         *)
(* zopflipng: whatever the encoder makes of the images, whatever fails,    *)
(* and however many files there are, none is lost and none grows; the      *)
(* chunks to be kept are in the new file where they were in the old; the   *)
(* lines of an image come back from their filters as they were; and a file *)
(* that is written, with chunks put into it, is read as what was written.  *)
(***************************************************************************)
EXTENDS ZopfliProgram, ZopfliPNG, PngOptimize, NumberLemmas, FiniteSetTheorems,
        SequenceTheorems

-----------------------------------------------------------------------------
(* Remainders.                                                               *)
LEMMA RemainderIs ==
  ASSUME NEW n \in Nat \ {0}, NEW a, NEW q \in Nat, NEW r \in 0 .. n - 1, a = n * q + r
  PROVE  a % n = r
BY DivOf

LEMMA SumOfRemainders ==
  ASSUME NEW n \in Nat \ {0}, NEW a \in Nat, NEW b \in Nat
  PROVE  /\ (a + b) % n = ((a % n) + (b % n)) % n
         /\ (a % n) % n = a % n
<1>1. PICK q1 \in Nat, r1 \in 0 .. n - 1 : a = n * q1 + r1 /\ r1 = a % n
  BY DivIs
<1>2. PICK q2 \in Nat, r2 \in 0 .. n - 1 : b = n * q2 + r2 /\ r2 = b % n
  BY DivIs
<1>3. PICK q3 \in Nat, r3 \in 0 .. n - 1 : r1 + r2 = n * q3 + r3 /\ r3 = (r1 + r2) % n
  <2>1. r1 + r2 \in Nat
    OBVIOUS
  <2> QED  BY <2>1, DivIs
<1>4. PICK q \in Nat : q = q1 + q2 + q3
  OBVIOUS
<1>5. (a + b) % n = r3
  <2>1. n * q = n * q1 + n * q2 + n * q3
    BY <1>4
  <2>2. n * q \in Nat /\ n * q1 \in Nat /\ n * q2 \in Nat /\ n * q3 \in Nat
    OBVIOUS
  <2>3. PICK p \in Nat, p1 \in Nat, p2 \in Nat, p3 \in Nat :
          p = n * q /\ p1 = n * q1 /\ p2 = n * q2 /\ p3 = n * q3
    BY <2>2
  <2>4. a = p1 + r1 /\ b = p2 + r2 /\ r1 + r2 = p3 + r3 /\ p = p1 + p2 + p3
    BY <1>1, <1>2, <1>3, <2>1, <2>3
  <2>5. a + b = p + r3
    BY <2>4
  <2>6. a + b = n * q + r3
    BY <2>3, <2>5
  <2> QED  BY <2>6, RemainderIs
<1>6. r1 = n * 0 + r1
  OBVIOUS
<1>7. r1 % n = r1
  BY <1>6, RemainderIs
<1> QED  BY <1>1, <1>2, <1>3, <1>5, <1>7

LEMMA AddedTo ==
  ASSUME NEW n \in Nat \ {0}, NEW a \in Nat, NEW b \in Nat, NEW c \in Nat, NEW d \in Nat,
         a % n = c % n, b % n = d % n
  PROVE  (a + b) % n = (c + d) % n
<1>1. (a + b) % n = ((a % n) + (b % n)) % n
  BY SumOfRemainders
<1>2. (c + d) % n = ((c % n) + (d % n)) % n
  BY SumOfRemainders
<1> QED  BY <1>1, <1>2

LEMMA NextRemainder ==
  ASSUME NEW n \in Nat \ {0}, NEW a \in Nat, (a + 1) % n # 0
  PROVE  (a + 1) % n = (a % n) + 1
<1>1. PICK q \in Nat, r \in 0 .. n - 1 : a = n * q + r /\ r = a % n
  BY DivIs
<1>2. CASE r + 1 = n
  <2>1. n * (q + 1) = n * q + n /\ n * q \in Nat /\ q + 1 \in Nat /\ 0 \in 0 .. n - 1
    OBVIOUS
  <2>2. a + 1 = n * (q + 1) + 0
    BY <1>1, <1>2, <2>1
  <2>3. (a + 1) % n = 0
    BY <2>1, <2>2, RemainderIs
  <2> QED  BY <2>3
<1>3. CASE r + 1 # n
  <2>1. a + 1 = n * q + (r + 1) /\ r + 1 \in 0 .. n - 1
    BY <1>1, <1>3
  <2>2. (a + 1) % n = r + 1
    BY <2>1, RemainderIs
  <2> QED  BY <2>2, <1>1
<1> QED  BY <1>2, <1>3

-----------------------------------------------------------------------------
(* The sums.                                                                 *)
Sums == [s1 : Nat, s2 : Nat]
Bytes == Seq(0 .. ByteMax)

AdlerStep(bytes, amount, x, n) ==
  IF n % amount = 0 \/ n = Len(bytes) THEN Reduced(Summed(x, bytes[n])) ELSE Summed(x, bytes[n])

LEMMA Limits ==
  /\ AdlerBase \in Nat \ {0, 1} /\ ByteMax \in Nat /\ SumLimit \in Nat \ {0}
  /\ AdlerAmount \in Nat \ {0} /\ LodepngAmount \in Nat \ {0}
<1>1. AdlerBase \in Nat \ {0, 1} /\ ByteMax \in Nat /\ SumLimit \in Nat
      /\ AdlerAmount \in Nat \ {0} /\ LodepngAmount \in Nat \ {0} /\ SumsFit(AdlerAmount)
  BY ContainersAssumption
<1>2. 2 * (AdlerBase - 1) * (AdlerAmount + 1) \in Nat
      /\ ByteMax * AdlerAmount * (AdlerAmount + 1) \in Nat
  <2>1. (AdlerBase - 1) * (AdlerAmount + 1) \in Nat
    BY <1>1
  <2>2. ByteMax * AdlerAmount \in Nat
    BY <1>1
  <2>3. (ByteMax * AdlerAmount) * (AdlerAmount + 1) \in Nat
    BY <1>1, <2>2
  <2> QED  BY <1>1, <2>1, <2>3
<1>3. SumLimit # 0
  BY <1>1, <1>2 DEF SumsFit
<1> QED  BY <1>1, <1>3

LEMMA BytesAre ==
  ASSUME NEW bytes \in Bytes
  PROVE  Len(bytes) \in Nat /\ \A n \in 1 .. Len(bytes) : bytes[n] \in 0 .. ByteMax
<1>1. \A S : \A s \in Seq(S) : Len(s) \in Nat /\ \A n \in 1 .. Len(s) : s[n] \in S
  OBVIOUS
<1> QED  BY <1>1 DEF Bytes

LEMMA SummedType ==
  ASSUME NEW x \in Sums, NEW byte \in 0 .. ByteMax
  PROVE  /\ Summed(x, byte) \in Sums /\ Reduced(x) \in Sums /\ Reduced(Summed(x, byte)) \in Sums
<1>1. \A y \in Sums : Reduced(y) \in Sums
  BY Limits DEF Reduced, Sums
<1>2. (x.s1 + byte) % SumLimit \in Nat
  BY Limits DEF Sums
<1>3. (x.s2 + ((x.s1 + byte) % SumLimit)) % SumLimit \in Nat
  BY <1>2, Limits DEF Sums
<1>4. Summed(x, byte) \in Sums
  BY <1>2, <1>3 DEF Summed, Sums
<1> QED  BY <1>1, <1>4

LEMMA AdlerSumsAre ==
  ASSUME NEW bytes \in Bytes, NEW amount \in Nat \ {0}
  PROVE  /\ AdlerSums(bytes, amount)[0] = [s1 |-> 1, s2 |-> 0]
         /\ \A n \in 0 .. Len(bytes) : AdlerSums(bytes, amount)[n] \in Sums
         /\ \A n \in 1 .. Len(bytes) :
              AdlerSums(bytes, amount)[n] = AdlerStep(bytes, amount, AdlerSums(bytes, amount)[n - 1], n)
<1> DEFINE m == Len(bytes)
           base == [s1 |-> 1, s2 |-> 0]
           P == [n \in 0 .. m |-> Sums]
           step == [z \in (1 .. m) \X Sums |-> AdlerStep(bytes, amount, z[2], z[1])]
           Is(f) == f = [n \in 0 .. m |-> IF n = 0 THEN base
                                          ELSE AdlerStep(bytes, amount, f[n - 1], n)]
           sums == CHOOSE f : Is(f)
<1>1. m \in Nat /\ \A n \in 1 .. m : bytes[n] \in 0 .. ByteMax
  BY BytesAre
<1>2. base \in Sums
  BY DEF Sums
<1> HIDE DEF m, base
<1>3. \E f : Is(f) /\ \A n \in 0 .. m : f[n] \in Sums
  <2>1. base \in P[0]
    <3>1. 0 \in 0 .. m
      BY <1>1
    <3> QED  BY <1>2, <3>1
  <2>2. ASSUME NEW n \in 1 .. m, NEW x \in P[n - 1]
        PROVE  step[<<n, x>>] \in P[n] /\ step[<<n, x>>] = AdlerStep(bytes, amount, x, n)
    <3>1. n \in 0 .. m /\ n - 1 \in 0 .. m
      BY <1>1
    <3>2. x \in Sums
      BY <3>1
    <3>3. step[<<n, x>>] = AdlerStep(bytes, amount, x, n)
      BY <3>2
    <3>4. AdlerStep(bytes, amount, x, n) \in Sums
      BY <1>1, <3>2, SummedType DEF AdlerStep
    <3> HIDE DEF step
    <3> QED  BY <3>1, <3>3, <3>4
  <2>3. \A n \in 0 .. m : P[n] = Sums
    OBVIOUS
  <2> HIDE DEF P, step
  <2>4. Leads(step, P, m)
    BY <2>2 DEF Leads
  <2>5. PICK f : /\ f = [n \in 0 .. m |-> IF n = 0 THEN base ELSE step[<<n, f[n - 1]>>]]
                 /\ \A n \in 0 .. m : f[n] \in P[n]
    BY <1>1, <2>1, <2>4, StepsExist
  <2>6. ASSUME NEW n \in 0 .. m
        PROVE  (IF n = 0 THEN base ELSE step[<<n, f[n - 1]>>])
                 = IF n = 0 THEN base ELSE AdlerStep(bytes, amount, f[n - 1], n)
    <3>1. CASE n = 0
      BY <3>1
    <3>2. CASE n # 0
      <4>1. n \in 1 .. m /\ n - 1 \in 0 .. m
        BY <1>1, <3>2
      <4>2. f[n - 1] \in P[n - 1]
        BY <2>5, <4>1
      <4> QED  BY <2>2, <3>2, <4>1, <4>2
    <3> QED  BY <3>1, <3>2
  <2>7. Is(f)
    BY <2>5, <2>6
  <2>8. \A n \in 0 .. m : f[n] \in Sums
    BY <2>3, <2>5
  <2> HIDE DEF Is
  <2> QED  BY <2>7, <2>8
<1>4. AdlerSums(bytes, amount) = sums
  BY DEF AdlerSums, AdlerStep, m, base
<1>5. Is(sums)
  BY <1>3
<1> HIDE DEF sums
<1>6. sums[0] = base /\ \A n \in 1 .. m : sums[n] = AdlerStep(bytes, amount, sums[n - 1], n)
  BY <1>1, <1>5
<1> DEFINE T == {n \in 0 .. m : sums[n] \in Sums}
<1>7. 0 \in T
  BY <1>1, <1>2, <1>6
<1>8. ASSUME NEW n \in 0 .. m - 1, n \in T PROVE n + 1 \in T
  <2>1. n + 1 \in 1 .. m /\ (n + 1) - 1 = n /\ n + 1 \in 0 .. m
    BY <1>1
  <2>2. sums[n + 1] = AdlerStep(bytes, amount, sums[n], n + 1) /\ sums[n] \in Sums
    BY <1>6, <1>8, <2>1
  <2>3. sums[n + 1] \in Sums
    BY <1>1, <2>1, <2>2, SummedType DEF AdlerStep
  <2> QED  BY <2>1, <2>3
<1> HIDE DEF T
<1>9. \A n \in 0 .. m : n \in T
  BY <1>1, <1>7, <1>8, UpTo
<1> QED  BY <1>4, <1>6, <1>9 DEF m, base, T
-----------------------------------------------------------------------------
(* As long as a stretch, nothing wraps.                                      *)
SameRemainders(x, y) == x.s1 % AdlerBase = y.s1 % AdlerBase /\ x.s2 % AdlerBase = y.s2 % AdlerBase

Reach1(j) == (AdlerBase - 1) + ByteMax * j
Reach2(j) == 2 * ((AdlerBase - 1) * (j + 1)) + ByteMax * (j * (j + 1))
InReach(x, j) == x.s1 <= Reach1(j) /\ 2 * x.s2 <= Reach2(j)

LEMMA ReachGrows ==
  ASSUME NEW j \in Nat
  PROVE  /\ Reach1(j) \in Nat /\ Reach2(j) \in Nat
         /\ Reach1(j + 1) = Reach1(j) + ByteMax
         /\ Reach2(j + 1) = Reach2(j) + 2 * Reach1(j + 1)
<1>1. PICK b \in Nat : b = AdlerBase - 1
  BY Limits
<1>2. PICK m \in Nat : m = ByteMax
  BY Limits
<1>3. m * j \in Nat /\ m * (j + 1) = m * j + m
  OBVIOUS
<1>4. b * (j + 1) \in Nat /\ b * ((j + 1) + 1) = b * (j + 1) + b
  OBVIOUS
<1>5. (j + 1) * ((j + 1) + 1) = j * (j + 1) + 2 * (j + 1) /\ j * (j + 1) \in Nat
  OBVIOUS
<1>6. PICK t \in Nat : t = j * (j + 1)
  BY <1>5
<1>7. m * (t + 2 * (j + 1)) = m * t + 2 * (m * (j + 1)) /\ m * t \in Nat
  OBVIOUS
<1>8. m * ((j + 1) * ((j + 1) + 1)) = m * t + 2 * (m * (j + 1))
  BY <1>5, <1>6, <1>7
<1>9. PICK mj \in Nat, bj \in Nat, mt \in Nat : mj = m * j /\ bj = b * (j + 1) /\ mt = m * t
  BY <1>3, <1>4, <1>7
<1>10. /\ Reach1(j) = b + mj /\ Reach1(j + 1) = b + (mj + m)
       /\ Reach2(j) = 2 * bj + mt /\ Reach2(j + 1) = 2 * (bj + b) + (mt + 2 * (mj + m))
  BY <1>1, <1>2, <1>3, <1>4, <1>6, <1>8, <1>9 DEF Reach1, Reach2
<1> HIDE <1>3, <1>4, <1>5, <1>6, <1>7, <1>8
<1> QED  BY <1>2, <1>9, <1>10

LEMMA ReachIsLimited ==
  ASSUME NEW amount \in Nat \ {0}, SumsFit(amount), NEW j \in 0 .. amount
  PROVE  Reach2(j) < 2 * SumLimit
<1>1. Reach2(amount) < 2 * SumLimit
  <2>1. PICK b \in Nat, m \in Nat : b = AdlerBase - 1 /\ m = ByteMax
    BY Limits
  <2>2. 2 * b * (amount + 1) = 2 * (b * (amount + 1))
        /\ m * amount * (amount + 1) = m * (amount * (amount + 1))
    OBVIOUS
  <2> QED  BY <2>1, <2>2 DEF SumsFit, Reach2
<1> DEFINE T == {k \in 0 .. amount : Reach2(amount - k) <= Reach2(amount)}
<1>2. 0 \in T
  BY ReachGrows
<1>3. ASSUME NEW k \in 0 .. amount - 1, k \in T PROVE k + 1 \in T
  <2>1. PICK l \in Nat : l = amount - (k + 1)
    OBVIOUS
  <2>2. l + 1 = amount - k
    BY <2>1
  <2>3. Reach2(l + 1) <= Reach2(amount)
    BY <1>3, <2>2
  <2>4. /\ Reach2(l) \in Nat /\ Reach2(amount) \in Nat /\ Reach1(l + 1) \in Nat
        /\ Reach2(l + 1) = Reach2(l) + 2 * Reach1(l + 1)
    BY ReachGrows
  <2>5. Reach2(l) <= Reach2(amount)
    BY <2>3, <2>4
  <2> QED  BY <2>1, <2>5
<1> HIDE DEF T
<1>4. \A k \in 0 .. amount : k \in T
  BY <1>2, <1>3, UpTo
<1>5. amount - j \in 0 .. amount /\ amount - (amount - j) = j
  OBVIOUS
<1>6. Reach2(j) <= Reach2(amount)
  BY <1>4, <1>5 DEF T
<1>7. Reach2(j) \in Nat /\ Reach2(amount) \in Nat /\ SumLimit \in Nat
  BY ReachGrows, Limits
<1> QED  BY <1>1, <1>6, <1>7

LEMMA NothingWraps ==
  ASSUME NEW amount \in Nat \ {0}, SumsFit(amount), NEW j \in 0 .. amount - 1,
         NEW x \in Sums, InReach(x, j), NEW byte \in 0 .. ByteMax
  PROVE  /\ Summed(x, byte).s1 = x.s1 + byte
         /\ Summed(x, byte).s2 = x.s2 + (x.s1 + byte)
         /\ InReach(Summed(x, byte), j + 1)
<1>1. x.s1 \in Nat /\ x.s2 \in Nat /\ byte \in Nat /\ byte <= ByteMax /\ ByteMax \in Nat
      /\ SumLimit \in Nat \ {0}
  BY Limits DEF Sums
<1>2. /\ Reach1(j) \in Nat /\ Reach2(j) \in Nat /\ Reach1(j + 1) \in Nat /\ Reach2(j + 1) \in Nat
      /\ Reach1(j + 1) = Reach1(j) + ByteMax
      /\ Reach2(j + 1) = Reach2(j) + 2 * Reach1(j + 1)
  BY ReachGrows
<1>3. Reach2(j + 1) < 2 * SumLimit
  <2>1. j + 1 \in 0 .. amount
    OBVIOUS
  <2> QED  BY <2>1, ReachIsLimited
<1>4. x.s1 <= Reach1(j) /\ 2 * x.s2 <= Reach2(j)
  BY DEF InReach
<1>5. PICK s1 \in Nat, s2 \in Nat : s1 = x.s1 + byte /\ s2 = x.s2 + s1
  BY <1>1
<1>6. s1 <= Reach1(j + 1) /\ 2 * s2 <= Reach2(j + 1) /\ s1 <= s2
  BY <1>1, <1>2, <1>4, <1>5
<1>7. s1 < SumLimit /\ s2 < SumLimit
  BY <1>1, <1>2, <1>3, <1>6
<1>8. \A a \in Nat : a < SumLimit => a % SumLimit = a
  <2> SUFFICES ASSUME NEW a \in Nat, a < SumLimit PROVE a % SumLimit = a
    OBVIOUS
  <2>1. a = SumLimit * 0 + a /\ a \in 0 .. SumLimit - 1
    BY <1>1
  <2> QED  BY <1>1, <2>1, RemainderIs
<1>9. s1 % SumLimit = s1 /\ s2 % SumLimit = s2
  BY <1>7, <1>8
<1>10. Summed(x, byte) = [s1 |-> s1, s2 |-> s2]
  BY <1>5, <1>9 DEF Summed
<1> QED  BY <1>5, <1>6, <1>10 DEF InReach

-----------------------------------------------------------------------------
(* The sums that are reduced after a stretch are those that are reduced after *)
(* every byte.                                                               *)
LEMMA RemaindersKept ==
  ASSUME NEW x \in Sums, NEW y \in Sums, SameRemainders(x, y), NEW byte \in 0 .. ByteMax,
         NEW s \in Sums, s.s1 = x.s1 + byte, s.s2 = x.s2 + (x.s1 + byte),
         NEW t \in Sums, t.s1 = y.s1 + byte, t.s2 = y.s2 + (y.s1 + byte)
  PROVE  SameRemainders(s, t)
<1>1. /\ x.s1 \in Nat /\ x.s2 \in Nat /\ y.s1 \in Nat /\ y.s2 \in Nat /\ byte \in Nat
      /\ AdlerBase \in Nat \ {0}
      /\ x.s1 % AdlerBase = y.s1 % AdlerBase /\ x.s2 % AdlerBase = y.s2 % AdlerBase
  BY Limits DEF Sums, SameRemainders
<1>2. (x.s1 + byte) % AdlerBase = (y.s1 + byte) % AdlerBase
  BY <1>1, AddedTo
<1>3. PICK a \in Nat, b \in Nat : a = x.s1 + byte /\ b = y.s1 + byte
  BY <1>1
<1>4. (x.s2 + a) % AdlerBase = (y.s2 + b) % AdlerBase
  <2>1. a % AdlerBase = b % AdlerBase
    BY <1>2, <1>3
  <2>2. ASSUME NEW u \in Nat, NEW v \in Nat, u % AdlerBase = v % AdlerBase
        PROVE  (u + a) % AdlerBase = (v + b) % AdlerBase
    <3>1. (u + a) % AdlerBase = ((u % AdlerBase) + (a % AdlerBase)) % AdlerBase
      BY <1>1, SumOfRemainders
    <3>2. (v + b) % AdlerBase = ((v % AdlerBase) + (b % AdlerBase)) % AdlerBase
      BY <1>1, SumOfRemainders
    <3> QED  BY <2>1, <2>2, <3>1, <3>2
  <2> QED  BY <1>1, <2>2
<1> QED  BY <1>2, <1>3, <1>4 DEF SameRemainders

LEMMA ReducedIs ==
  ASSUME NEW x \in Sums
  PROVE  /\ SameRemainders(Reduced(x), x)
         /\ Reduced(x).s1 \in 0 .. AdlerBase - 1 /\ Reduced(x).s2 \in 0 .. AdlerBase - 1
         /\ InReach(Reduced(x), 0)
<1>1. x.s1 \in Nat /\ x.s2 \in Nat /\ AdlerBase \in Nat \ {0}
  BY Limits DEF Sums
<1>2. SameRemainders(Reduced(x), x)
  BY <1>1, SumOfRemainders DEF SameRemainders, Reduced
<1>3. x.s1 % AdlerBase \in 0 .. AdlerBase - 1 /\ x.s2 % AdlerBase \in 0 .. AdlerBase - 1
  BY <1>1, DivIs
<1>4. PICK a \in 0 .. AdlerBase - 1, b \in 0 .. AdlerBase - 1 : Reduced(x) = [s1 |-> a, s2 |-> b]
  BY <1>3 DEF Reduced
<1>5. Reach1(0) = AdlerBase - 1 /\ Reach2(0) = 2 * (AdlerBase - 1)
  BY <1>1, Limits DEF Reach1, Reach2
<1>6. InReach(Reduced(x), 0)
  BY <1>1, <1>4, <1>5 DEF InReach
<1> QED  BY <1>2, <1>4, <1>6

(* One byte: with the sums in reach before, they are so after it.            *)
LEMMA AdlerStepIs ==
  ASSUME NEW bytes \in Bytes, NEW amount \in Nat \ {0}, SumsFit(amount),
         NEW n \in 1 .. Len(bytes), NEW x \in Sums, InReach(x, (n - 1) % amount),
         NEW y \in Sums, InReach(y, 0), SameRemainders(x, y), SumsFit(1)
  PROVE  /\ SameRemainders(AdlerStep(bytes, amount, x, n), AdlerStep(bytes, 1, y, n))
         /\ n < Len(bytes) => InReach(AdlerStep(bytes, amount, x, n), n % amount)
         /\ InReach(AdlerStep(bytes, 1, y, n), 0)
<1>1. n \in Nat /\ n - 1 \in Nat /\ (n - 1) + 1 = n /\ Len(bytes) \in Nat
      /\ bytes[n] \in 0 .. ByteMax
  BY BytesAre
<1>2. PICK j \in 0 .. amount - 1 : j = (n - 1) % amount
  BY <1>1, DivIs
<1> DEFINE s == Summed(x, bytes[n])
           t == Summed(y, bytes[n])
<1>3. s.s1 = x.s1 + bytes[n] /\ s.s2 = x.s2 + (x.s1 + bytes[n]) /\ InReach(s, j + 1)
  BY <1>1, <1>2, NothingWraps
<1>4. t.s1 = y.s1 + bytes[n] /\ t.s2 = y.s2 + (y.s1 + bytes[n])
  <2>1. 0 \in 0 .. 1 - 1 /\ 1 \in Nat \ {0}
    OBVIOUS
  <2> QED  BY <1>1, <2>1, NothingWraps
<1>5. s \in Sums /\ t \in Sums
  BY <1>1, SummedType
<1>6. SameRemainders(s, t)
  BY <1>1, <1>3, <1>4, <1>5, RemaindersKept
<1> HIDE DEF s, t
<1>7. n % 1 = 0
  <2>1. n = 1 * n + 0 /\ 0 \in 0 .. 1 - 1 /\ 1 \in Nat \ {0}
    BY <1>1
  <2> QED  BY <1>1, <2>1, RemainderIs
<1>8. AdlerStep(bytes, 1, y, n) = Reduced(t)
  BY <1>7 DEF AdlerStep, t
<1>9. /\ SameRemainders(Reduced(s), s) /\ SameRemainders(Reduced(t), t)
      /\ InReach(Reduced(s), 0) /\ InReach(Reduced(t), 0)
  BY <1>5, ReducedIs
<1>10. CASE n % amount = 0 \/ n = Len(bytes)
  <2>1. AdlerStep(bytes, amount, x, n) = Reduced(s)
    BY <1>10 DEF AdlerStep, s
  <2>2. n < Len(bytes) => n % amount = 0
    BY <1>1, <1>10
  <2> QED  BY <1>6, <1>8, <1>9, <2>1, <2>2 DEF SameRemainders
<1>11. CASE ~ (n % amount = 0 \/ n = Len(bytes))
  <2>1. AdlerStep(bytes, amount, x, n) = s
    BY <1>11 DEF AdlerStep, s
  <2>2. n % amount = j + 1
    BY <1>1, <1>2, <1>11, NextRemainder
  <2> QED  BY <1>3, <1>6, <1>8, <1>9, <2>1, <2>2 DEF SameRemainders
<1> QED  BY <1>10, <1>11

LEMMA StretchesDoNotMatter ==
  ASSUME NEW bytes \in Bytes, NEW amount \in Nat \ {0}, SumsFit(amount)
  PROVE  UpdateAdler32(bytes, amount) = UpdateAdler32(bytes, 1)
<1> DEFINE m == Len(bytes)
           X == AdlerSums(bytes, amount)
           Y == AdlerSums(bytes, 1)
           first == [s1 |-> 1, s2 |-> 0]
           T == {n \in 0 .. m : /\ SameRemainders(X[n], Y[n]) /\ InReach(Y[n], 0)
                                /\ n < m => InReach(X[n], n % amount)}
<1>1. m \in Nat
  BY BytesAre
<1>2. /\ X[0] = first /\ \A n \in 0 .. m : X[n] \in Sums
      /\ \A n \in 1 .. m : X[n] = AdlerStep(bytes, amount, X[n - 1], n)
  BY AdlerSumsAre
<1>3. /\ Y[0] = first /\ \A n \in 0 .. m : Y[n] \in Sums
      /\ \A n \in 1 .. m : Y[n] = AdlerStep(bytes, 1, Y[n - 1], n)
  <2>1. 1 \in Nat \ {0}
    OBVIOUS
  <2> QED  BY <2>1, AdlerSumsAre
<1>4. SumsFit(1)
  <2>1. Reach2(1) < 2 * SumLimit
    <3>1. 1 \in 0 .. amount
      OBVIOUS
    <3> QED  BY <3>1, ReachIsLimited
  <2>2. Reach2(1) = 2 * (AdlerBase - 1) * (1 + 1) + ByteMax * 1 * (1 + 1)
    BY Limits DEF Reach2
  <2> QED  BY <2>1, <2>2 DEF SumsFit
<1>5. first \in Sums /\ InReach(first, 0) /\ first.s1 = 1 /\ first.s2 = 0
  <2>1. Reach1(0) = AdlerBase - 1 /\ Reach2(0) = 2 * (AdlerBase - 1) /\ AdlerBase \in Nat \ {0, 1}
    BY Limits DEF Reach1, Reach2
  <2> QED  BY <2>1 DEF InReach, Sums
<1>6. 0 \in T
  <2>1. 0 = amount * 0 + 0 /\ 0 \in 0 .. amount - 1
    OBVIOUS
  <2>2. 0 % amount = 0
    BY <2>1, RemainderIs
  <2> HIDE DEF first, X, Y, m
  <2> QED  BY <1>1, <1>2, <1>3, <1>5, <2>2 DEF SameRemainders
<1>7. ASSUME NEW n \in 0 .. m - 1, n \in T PROVE n + 1 \in T
  <2>1. n + 1 \in 1 .. m /\ (n + 1) - 1 = n /\ n < m /\ n \in 0 .. m /\ n + 1 \in 0 .. m
    BY <1>1
  <2>2. X[n] \in Sums /\ Y[n] \in Sums /\ SameRemainders(X[n], Y[n]) /\ InReach(Y[n], 0)
        /\ InReach(X[n], n % amount)
    BY <1>2, <1>3, <1>7, <2>1
  <2>3. X[n + 1] = AdlerStep(bytes, amount, X[n], n + 1) /\ Y[n + 1] = AdlerStep(bytes, 1, Y[n], n + 1)
    BY <1>2, <1>3, <2>1
  <2> HIDE DEF X, Y
  <2>4. /\ SameRemainders(X[n + 1], Y[n + 1]) /\ InReach(Y[n + 1], 0)
        /\ n + 1 < m => InReach(X[n + 1], (n + 1) % amount)
    BY <1>4, <2>1, <2>2, <2>3, AdlerStepIs
  <2> QED  BY <2>1, <2>4
<1> HIDE DEF T
<1>8. m \in T
  <2>1. \A n \in 0 .. m : n \in T
    BY <1>1, <1>6, <1>7, UpTo
  <2> QED  BY <1>1, <2>1
<1>9. SameRemainders(X[m], Y[m])
  BY <1>8 DEF T
<1> HIDE DEF first
<1>11. /\ X[m].s1 \in 0 .. AdlerBase - 1 /\ X[m].s2 \in 0 .. AdlerBase - 1
       /\ Y[m].s1 \in 0 .. AdlerBase - 1 /\ Y[m].s2 \in 0 .. AdlerBase - 1
  <2>1. CASE m = 0
    <3>1. 0 \in 0 .. AdlerBase - 1 /\ 1 \in 0 .. AdlerBase - 1
      BY Limits
    <3> QED  BY <1>2, <1>3, <1>5, <2>1, <3>1
  <2>2. CASE m # 0
    <3>1. m \in 1 .. m /\ m - 1 \in 0 .. m
      BY <1>1, <2>2
    <3>2. bytes[m] \in 0 .. ByteMax
      BY <3>1, BytesAre
    <3>3. \E s \in Sums : X[m] = Reduced(s)
      <4>1. X[m] = Reduced(Summed(X[m - 1], bytes[m]))
        BY <1>2, <3>1 DEF AdlerStep
      <4>2. X[m - 1] \in Sums
        BY <1>2, <3>1
      <4> QED  BY <3>2, <4>1, <4>2, SummedType
    <3>4. \E s \in Sums : Y[m] = Reduced(s)
      <4>1. Y[m] = Reduced(Summed(Y[m - 1], bytes[m]))
        BY <1>3, <3>1 DEF AdlerStep
      <4>2. Y[m - 1] \in Sums
        BY <1>3, <3>1
      <4> QED  BY <3>2, <4>1, <4>2, SummedType
    <3> HIDE DEF X, Y, m
    <3> QED  BY <3>3, <3>4, ReducedIs
  <2> QED  BY <2>1, <2>2
<1>12. \A a, b \in 0 .. AdlerBase - 1 : a % AdlerBase = b % AdlerBase => a = b
  <2>1. \A a \in 0 .. AdlerBase - 1 : a % AdlerBase = a
    <3> SUFFICES ASSUME NEW a \in 0 .. AdlerBase - 1 PROVE a % AdlerBase = a
      OBVIOUS
    <3>1. a = AdlerBase * 0 + a
      BY Limits
    <3> QED  BY <3>1, Limits, RemainderIs
  <2> QED  BY <2>1
<1>13. X[m].s1 = Y[m].s1 /\ X[m].s2 = Y[m].s2
  BY <1>9, <1>11, <1>12 DEF SameRemainders
<1> QED  BY <1>13 DEF UpdateAdler32

(* The checksum that zopfli writes is the one that lodepng, and any reader    *)
(* that reduces its sums in other stretches or after every byte, computes.   *)
THEOREM ChecksumsAgree ==
  \A bytes \in Bytes : /\ Adler32(bytes) = LodepngAdler32(bytes)
                      /\ Adler32(bytes) = UpdateAdler32(bytes, 1)
<1> TAKE bytes \in Bytes
<1>1. /\ AdlerAmount \in Nat \ {0} /\ SumsFit(AdlerAmount)
      /\ LodepngAmount \in Nat \ {0} /\ SumsFit(LodepngAmount)
  BY ContainersAssumption
<1> QED  BY <1>1, StretchesDoNotMatter DEF Adler32, LodepngAdler32

(***************************************************************************)
(* zopfli.                                                                 *)
(***************************************************************************)
(* What is written reads back.                                               *)
LEMMA CompressedReads ==
  ASSUME NEW bytes \in Bytes, NEW format \in FormatNames
  PROVE  /\ ZopfliCompress(format, bytes).stream = bytes
         /\ ReadsAs(ZopfliCompress(format, bytes), format, bytes)
<1>1. CASE format = "gzip"
  <2>1. ZopfliCompress(format, bytes) = ZopfliGzipCompress(bytes)
    BY <1>1 DEF ZopfliCompress
  <2>2. Len(GzipHeader) = 10 /\ SubSeq(GzipHeader, 1, 4) = <<31, 139, 8, 0>>
    <3>1. GzipHeader \in Seq(Nat) /\ Len(GzipHeader) = 10
      BY DEF GzipHeader
    <3>2. /\ GzipHeader[1] = 31 /\ GzipHeader[2] = 139 /\ GzipHeader[3] = 8 /\ GzipHeader[4] = 0
      BY DEF GzipHeader
    <3> DEFINE start == SubSeq(GzipHeader, 1, 4)
               four == <<31, 139, 8, 0>>
    <3>3. start \in Seq(Nat) /\ Len(start) = 4 /\ \A k \in 1 .. 4 : start[k] = GzipHeader[k]
      <4>1. \A k \in 1 .. 4 : GzipHeader[k] \in Nat
        <5>1. \A k \in 1 .. 4 : k = 1 \/ k = 2 \/ k = 3 \/ k = 4
          OBVIOUS
        <5> QED  BY <3>2, <5>1
      <4> HIDE DEF four
      <4> QED  BY <4>1, SubSeqProperties
    <3>4. four \in Seq(Nat) /\ Len(four) = 4
          /\ four[1] = 31 /\ four[2] = 139 /\ four[3] = 8 /\ four[4] = 0
      OBVIOUS
    <3> HIDE DEF start, four
    <3>5. \A k \in 1 .. 4 : start[k] = four[k]
      <4>1. \A k \in 1 .. 4 : k = 1 \/ k = 2 \/ k = 3 \/ k = 4
        OBVIOUS
      <4> QED  BY <4>1, <3>2, <3>3, <3>4
    <3>6. start = four
      <4>1. Len(start) = Len(four) /\ \A k \in 1 .. Len(start) : start[k] = four[k]
        BY <3>3, <3>4, <3>5
      <4> QED  BY <3>3, <3>4, <4>1, SeqEqual
    <3> QED  BY <3>1, <3>6 DEF start, four
  <2>3. GzipReads(ZopfliGzipCompress(bytes))
    BY <2>2 DEF ZopfliGzipCompress, Container, GzipReads
  <2>4. ZopfliGzipCompress(bytes).stream = bytes
    BY DEF ZopfliGzipCompress, Container
  <2> QED  BY <1>1, <2>1, <2>3, <2>4 DEF ReadsAs
<1>2. CASE format = "zlib"
  <2>1. ZopfliCompress(format, bytes) = ZopfliZlibCompress(bytes)
    BY <1>2 DEF ZopfliCompress
  <2>2. ZlibHeader(3) = <<120, 218>>
    BY DEF ZlibHeader
  <2>3. LodepngZlibError(ZopfliZlibCompress(bytes)) = 0
    <3>1. /\ ZopfliZlibCompress(bytes).header = <<120, 218>>
          /\ ZopfliZlibCompress(bytes).stream = bytes
          /\ ZopfliZlibCompress(bytes).trailer = BigEndian(Adler32(bytes))
      BY <2>2 DEF ZopfliZlibCompress, Container
    <3>2. /\ (120 * 256 + 218) % 31 = 0 /\ 120 % 16 = 8 /\ 120 \div 16 = 7
          /\ (218 \div 32) % 2 = 0
      OBVIOUS
    <3>3. BigEndian(LodepngAdler32(bytes)) = BigEndian(Adler32(bytes))
      BY ChecksumsAgree DEF Bytes
    <3> QED  BY <3>1, <3>2, <3>3 DEF LodepngZlibError
  <2> QED  BY <1>2, <2>1, <2>3 DEF ZopfliZlibCompress, Container, ReadsAs
<1>3. CASE format = "deflate"
  <2>1. ZopfliCompress(format, bytes) = ZopfliDeflateOnly(bytes)
    BY <1>3 DEF ZopfliCompress
  <2> QED  BY <1>3, <2>1 DEF ZopfliDeflateOnly, Container, ReadsAs
<1> QED  BY <1>1, <1>2, <1>3 DEF FormatNames

-----------------------------------------------------------------------------
AtWork == {"files", "loading", "loaded"}
Done == {k \in Named : k < i}
Outputs ==
  [whole : BOOLEAN,
   container : {ZopfliCompress(format, Content[name]) : format \in FormatNames, name \in Files}]

ProgramTypes ==
  /\ argv \in ArgLists /\ i \in 1 .. Len(argv) + 1
  /\ output_type \in FormatNames /\ output_to_stdout \in BOOLEAN /\ filename \in BOOLEAN
  /\ exit_status \in {"success", "failure"}
  /\ phase \in AtWork \cup {"options", "exited"}
  /\ ferror \in BOOLEAN /\ stdout \in Seq(Outputs)

(* No file is touched before all options have been looked at, and then there *)
(* is none that stops the program.                                           *)
Stops(arg) == arg \in {"-h", "bad"}
OptionsFirst ==
  /\ phase = "options" =>
       /\ \A k \in DOMAIN argv : k < i => ~ Stops(argv[k])
       /\ ~ filename /\ written = << >> /\ stdout = << >> /\ trouble = {}
       /\ exit_status = "success"
  /\ phase \in AtWork => \A k \in DOMAIN argv : ~ Stops(argv[k])

(* What has been read is the beginning of the file, or all of it; there is   *)
(* room for more.                                                            *)
LoadedSoFar ==
  phase \in {"loading", "loaded"} =>
    /\ i \in Named /\ argv[i] \in Files /\ filename
    /\ Len(data) \in 0 .. Len(Content[argv[i]])
    /\ data = SubSeq(Content[argv[i]], 1, Len(data))
    /\ phase = "loading" => cap \in Nat /\ Len(data) < cap /\ cap <= SizeMax
    /\ phase = "loaded" => data = Content[argv[i]]

(* Every output is that of a file that was named, read to its end; those on  *)
(* standard output are of files that are done with, in their order.          *)
IsOutputOf(output, n) ==
  argv[n] \in Files /\ output.container = ZopfliCompress(output_type, Content[argv[n]])
ComeFrom(from) ==
  /\ from \in [DOMAIN stdout -> Done]
  /\ \A m, n \in DOMAIN stdout : m < n => from[m] < from[n]
  /\ \A n \in DOMAIN stdout : IsOutputOf(stdout[n], from[n])
OutputsOfFiles ==
  /\ \A f \in DOMAIN written :
       \E n \in Named : f = OutputName(argv[n], output_type) /\ IsOutputOf(written[f], n)
  /\ \E from : ComeFrom(from)

(* The files that are done with have been written whole, or are known to     *)
(* have failed; as long as none has, each has its place on standard output.  *)
Accounted ==
  phase \in AtWork =>
    /\ filename => Done # {} \/ phase # "files"
    /\ Done # {} => filename
    /\ exit_status = "success" <=> trouble = {}
    /\ \A k \in Done : argv[k] \notin trouble => WrittenWhole(k)
    /\ output_to_stdout /\ trouble = {} =>
         /\ Len(stdout) = Cardinality(Done)
         /\ \A k \in Done : PutWhole(Cardinality(NamedUpTo(k)), k)

ProgramInv ==
  ProgramTypes /\ OptionsFirst /\ LoadedSoFar /\ OutputsOfFiles /\ Accounted /\ StatusTellsFailures

-----------------------------------------------------------------------------
LEMMA NothingYet == [f \in {} |-> NoOutput] = << >> /\ << >> \in Seq(Outputs) /\ Len(<< >>) = 0
                    /\ DOMAIN << >> = {}
OBVIOUS

LEMMA Arguments ==
  ASSUME ProgramTypes
  PROVE  /\ argv \in Seq(STRING) /\ Len(argv) \in Nat /\ DOMAIN argv = 1 .. Len(argv)
         /\ i \in Nat /\ i <= Len(argv) + 1
         /\ Named \subseteq 1 .. Len(argv) /\ Done \subseteq Named
         /\ IsFiniteSet(Named) /\ IsFiniteSet(Done)
<1>1. argv \in Seq(STRING)
  BY OutputNamesAssumption DEF ProgramTypes
<1>2. Len(argv) \in Nat /\ DOMAIN argv = 1 .. Len(argv)
  BY <1>1
<1>3. Named \subseteq 1 .. Len(argv) /\ Done \subseteq Named
  BY <1>2 DEF Named, Done
<1>4. IsFiniteSet(1 .. Len(argv))
  BY <1>2, FS_Interval
<1>5. IsFiniteSet(Named)
  BY <1>3, <1>4, FS_Subset
<1>6. IsFiniteSet(Done)
  BY <1>3, <1>5, FS_Subset
<1> QED  BY <1>1, <1>2, <1>3, <1>5, <1>6 DEF ProgramTypes

(* The next argument is taken: one more file is done with if it was a file.  *)
LEMMA OneMoreDone ==
  ASSUME ProgramTypes, i <= Len(argv), i' = i + 1, argv' = argv
  PROVE  /\ Named' = Named /\ i \in DOMAIN argv /\ i' \in 1 .. Len(argv) + 1
         /\ i \notin Named => Done' = Done
         /\ i \in Named => Done' = Done \cup {i} /\ Cardinality(Done') = Cardinality(Done) + 1
<1>1. /\ Len(argv) \in Nat /\ DOMAIN argv = 1 .. Len(argv) /\ i \in 1 .. Len(argv)
      /\ Named \subseteq 1 .. Len(argv) /\ IsFiniteSet(Done)
  BY Arguments DEF ProgramTypes
<1>2. Named' = Named
  BY DEF Named
<1>3. Done' = {k \in Named : k < i + 1}
  BY <1>2 DEF Done
<1>4. ASSUME NEW k \in Named PROVE k < i + 1 <=> k < i \/ k = i
  BY <1>1
<1>5. i \notin Named => Done' = Done
  BY <1>3, <1>4 DEF Done
<1>6. i \in Named => Done' = Done \cup {i}
  BY <1>3, <1>4 DEF Done
<1>7. i \notin Done
  BY <1>1 DEF Done
<1>8. Cardinality(Done \cup {i}) = Cardinality(Done) + 1
  BY <1>1, <1>7, FS_AddElement
<1>9. i' \in 1 .. Len(argv) + 1 /\ i \in DOMAIN argv
  BY <1>1
<1>10. i \in Named => Done' = Done \cup {i} /\ Cardinality(Done') = Cardinality(Done) + 1
  BY <1>6, <1>8
<1> QED  BY <1>2, <1>5, <1>9, <1>10

(* Files that are done with stay so while arguments are taken.               *)
LEMMA DoneGrows ==
  ASSUME ProgramTypes, argv' = argv, i' = i \/ i' = i + 1
  PROVE  Done \subseteq Done'
<1>1. i \in Nat /\ Named \subseteq Nat
  BY Arguments
<1> QED  BY <1>1 DEF Done, Named

LEMMA NextTypes ==
  ASSUME ProgramInv, phase \in AtWork, i <= Len(argv), i' = i + 1, phase' = "files",
         UNCHANGED <<argv, output_type, output_to_stdout>>,
         filename' \in BOOLEAN, ferror' \in BOOLEAN, exit_status' \in {"success", "failure"},
         stdout' \in Seq(Outputs)
  PROVE  ProgramTypes' /\ OptionsFirst' /\ LoadedSoFar' /\ StatusTellsFailures'
<1>1. i' \in 1 .. Len(argv) + 1
  BY OneMoreDone DEF ProgramInv
<1>2. ProgramTypes'
  BY <1>1 DEF ProgramInv, ProgramTypes, AtWork
<1>3. OptionsFirst'
  BY DEF ProgramInv, OptionsFirst, AtWork, Stops
<1> QED  BY <1>2, <1>3 DEF LoadedSoFar, StatusTellsFailures

(* A file was written whole.                                                 *)
LEMMA FileSucceeds ==
  ASSUME ProgramInv, phase \in AtWork, NEW n \in Named, n = i, i' = i + 1, phase' = "files",
         UNCHANGED <<argv, output_type, output_to_stdout, filename, exit_status, trouble>>,
         filename, ferror' \in BOOLEAN,
         stdout' \in Seq(Outputs), OutputsOfFiles',
         output_to_stdout => Len(stdout') = Len(stdout) + 1 /\ PutWhole(Len(stdout), n)',
         \A m, k : PutWhole(m, k) => PutWhole(m, k)',
         WrittenWhole(n)', \A k \in Done : WrittenWhole(k) => WrittenWhole(k)'
  PROVE  ProgramInv'
<1>1. i <= Len(argv)
  BY Arguments DEF ProgramInv
<1>2. /\ Named' = Named /\ Done' = Done \cup {i} /\ Cardinality(Done') = Cardinality(Done) + 1
  BY <1>1, OneMoreDone DEF ProgramInv
<1>3. ProgramTypes' /\ OptionsFirst' /\ LoadedSoFar' /\ StatusTellsFailures'
  BY <1>1, NextTypes DEF ProgramInv, ProgramTypes
<1>4. Accounted'
  <2>1. /\ exit_status = "success" <=> trouble = {}
        /\ \A k \in Done : argv[k] \notin trouble => WrittenWhole(k)
        /\ output_to_stdout /\ trouble = {} =>
             /\ Len(stdout) = Cardinality(Done)
             /\ \A k \in Done : PutWhole(Cardinality(NamedUpTo(k)), k)
    BY DEF ProgramInv, Accounted
  <2>2. \A k \in Done' : argv'[k] \notin trouble' => WrittenWhole(k)'
    <3> SUFFICES ASSUME NEW k \in Done', argv'[k] \notin trouble' PROVE WrittenWhole(k)'
      OBVIOUS
    <3>1. CASE k = i
      BY <3>1
    <3>2. CASE k \in Done
      BY <2>1, <3>2
    <3> QED  BY <1>2, <3>1, <3>2
  <2>3. Done' # {} /\ filename'
    BY <1>2
  <2>4. output_to_stdout' /\ trouble' = {} => Len(stdout') = Cardinality(Done')
    BY <1>2, <2>1
  <2>5. ASSUME output_to_stdout', trouble' = {}, NEW k \in Done'
        PROVE  PutWhole(Cardinality(NamedUpTo(k)), k)'
    <3>1. NamedUpTo(k)' = NamedUpTo(k)
      BY <1>2 DEF NamedUpTo
    <3>2. CASE k = i
      <4>1. NamedUpTo(i) = Done'
        <5>1. i \in Nat /\ Named \subseteq Nat
          BY Arguments DEF ProgramInv
        <5> QED  BY <1>2, <5>1 DEF NamedUpTo, Done
      <4>2. Cardinality(NamedUpTo(k)) = Len(stdout')
        BY <2>4, <2>5, <3>2, <4>1
      <4>3. PutWhole(Len(stdout), k)'
        BY <2>5, <3>2
      <4> QED  BY <3>1, <4>2, <4>3 DEF PutWhole
    <3>3. CASE k \in Done
      <4>1. PutWhole(Cardinality(NamedUpTo(k)), k)
        BY <2>1, <2>5, <3>3
      <4>2. PICK c : c = Cardinality(NamedUpTo(k))
        OBVIOUS
      <4>3. PutWhole(c, k)'
        BY <4>1, <4>2
      <4> QED  BY <3>1, <4>2, <4>3 DEF PutWhole
    <3> QED  BY <1>2, <3>2, <3>3
  <2>6. exit_status' = "success" <=> trouble' = {}
    BY <2>1
  <2> HIDE DEF WrittenWhole, PutWhole
  <2> QED  BY <2>2, <2>3, <2>4, <2>5, <2>6 DEF Accounted
<1> QED  BY <1>3, <1>4 DEF ProgramInv

(* A file failed; what has been written of others stays.                     *)
LEMMA FileFailsStep ==
  ASSUME ProgramInv, phase \in AtWork, i \in Named, FileFails,
         UNCHANGED <<argv, output_type, output_to_stdout>>,
         filename', filename' \in BOOLEAN, ferror' \in BOOLEAN,
         stdout' \in Seq(Outputs), OutputsOfFiles',
         \A k \in Done : argv[k] # argv[i] /\ WrittenWhole(k) => WrittenWhole(k)'
  PROVE  ProgramInv'
<1>1. i <= Len(argv) /\ i' = i + 1 /\ phase' = "files" /\ exit_status' = "failure"
      /\ trouble' = trouble \cup {argv[i]}
  BY Arguments DEF ProgramInv, FileFails
<1>2. Named' = Named /\ Done' = Done \cup {i}
  BY <1>1, OneMoreDone DEF ProgramInv
<1>3. ProgramTypes' /\ OptionsFirst' /\ LoadedSoFar' /\ StatusTellsFailures'
  BY <1>1, NextTypes DEF ProgramInv
<1>4. Accounted'
  <2>1. \A k \in Done : argv[k] \notin trouble => WrittenWhole(k)
    BY DEF ProgramInv, Accounted
  <2>2. \A k \in Done' : argv'[k] \notin trouble' => WrittenWhole(k)'
    <3> SUFFICES ASSUME NEW k \in Done', argv'[k] \notin trouble' PROVE WrittenWhole(k)'
      OBVIOUS
    <3>1. argv[k] \notin trouble /\ argv[k] # argv[i]
      BY <1>1
    <3>2. k \in Done
      BY <1>2, <3>1
    <3> QED  BY <2>1, <3>1, <3>2
  <2>3. trouble' # {} /\ exit_status' # "success" /\ Done' # {}
    BY <1>1, <1>2
  <2> HIDE DEF WrittenWhole
  <2> QED  BY <2>2, <2>3 DEF Accounted
<1> QED  BY <1>3, <1>4 DEF ProgramInv

LEMMA NoOutputs ==
  /\ written = << >> /\ stdout = << >> => OutputsOfFiles
  /\ written' = << >> /\ stdout' = << >> => OutputsOfFiles'
<1>1. written = << >> /\ stdout = << >> => OutputsOfFiles
  <2> SUFFICES ASSUME written = << >>, stdout = << >> PROVE OutputsOfFiles
    OBVIOUS
  <2>1. DOMAIN written = {} /\ DOMAIN stdout = {}
    BY NothingYet
  <2>2. ComeFrom([n \in {} |-> 0])
    BY <2>1 DEF ComeFrom
  <2> QED  BY <2>1, <2>2 DEF OutputsOfFiles
<1>2. written' = << >> /\ stdout' = << >> => OutputsOfFiles'
  <2> SUFFICES ASSUME written' = << >>, stdout' = << >> PROVE OutputsOfFiles'
    OBVIOUS
  <2>1. DOMAIN written' = {} /\ DOMAIN stdout' = {}
    BY NothingYet
  <2>2. ComeFrom([n \in {} |-> 0])'
    BY <2>1 DEF ComeFrom
  <2> QED  BY <2>1, <2>2 DEF OutputsOfFiles
<1> QED  BY <1>1, <1>2

LEMMA StdoutStays ==
  ASSUME OutputsOfFiles, UNCHANGED <<argv, output_type, stdout>>, Done \subseteq Done'
  PROVE  \E from : ComeFrom(from)'
<1>1. PICK from : ComeFrom(from)
  BY DEF OutputsOfFiles
<1>2. from \in [DOMAIN stdout' -> Done']
  BY <1>1 DEF ComeFrom
<1>3. \A n \in DOMAIN stdout' : IsOutputOf(stdout[n], from[n])'
  BY <1>1 DEF ComeFrom, IsOutputOf
<1>4. ComeFrom(from)'
  BY <1>1, <1>2, <1>3 DEF ComeFrom
<1> QED  BY <1>4

LEMMA OutputsStay ==
  ASSUME OutputsOfFiles, UNCHANGED <<argv, output_type, output_to_stdout, outputVars>>,
         Done \subseteq Done'
  PROVE  /\ OutputsOfFiles' /\ \A k : WrittenWhole(k) => WrittenWhole(k)'
         /\ \A m, k : PutWhole(m, k) => PutWhole(m, k)'
         /\ \A k : NamedUpTo(k)' = NamedUpTo(k)
<1>1. \E from : ComeFrom(from)'
  BY StdoutStays DEF outputVars
<1>2. OutputsOfFiles'
  BY <1>1 DEF OutputsOfFiles, IsOutputOf, outputVars, Named
<1>3. \A m, k : PutWhole(m, k) => PutWhole(m, k)'
  BY DEF PutWhole, outputVars
<1>4. \A k : WrittenWhole(k) => WrittenWhole(k)'
  BY <1>3 DEF WrittenWhole, outputVars
<1>5. \A k : NamedUpTo(k)' = NamedUpTo(k)
  BY DEF NamedUpTo, Named
<1> QED  BY <1>2, <1>3, <1>4, <1>5

(* What is on standard output is of files named, and in order.               *)
LEMMA StdoutNamed ==
  ASSUME OutputsOfFiles, NEW k \in DOMAIN stdout
  PROVE  \E n \in Named : IsOutputOf(stdout[k], n)
<1>1. PICK from : ComeFrom(from)
  BY DEF OutputsOfFiles
<1>2. from[k] \in Named /\ IsOutputOf(stdout[k], from[k])
  BY <1>1 DEF ComeFrom, Done
<1> QED  BY <1>2

LEMMA OrderIsKept ==
  ASSUME ProgramTypes', OutputsOfFiles'
  PROVE  PutInOrder'
<1>1. PICK from : ComeFrom(from)'
  BY DEF OutputsOfFiles
<1>2. from \in [DOMAIN stdout' -> Named']
  BY <1>1 DEF ComeFrom, Done
<1>3. ASSUME NEW n \in DOMAIN stdout'
      PROVE  /\ argv'[from[n]] \in Files
             /\ stdout'[n].container.stream = Content[argv'[from[n]]]
  <2>1. /\ argv'[from[n]] \in Files /\ output_type' \in FormatNames
        /\ stdout'[n].container = ZopfliCompress(output_type', Content[argv'[from[n]]])
    BY <1>1, <1>3 DEF ComeFrom, IsOutputOf, ProgramTypes
  <2>2. Content[argv'[from[n]]] \in Bytes
    BY <2>1, ProgramAssumption DEF Files, Bytes
  <2> QED  BY <2>1, <2>2, CompressedReads
<1>4. \A m, n \in DOMAIN stdout' : m < n => from[m] < from[n]
  BY <1>1 DEF ComeFrom
<1> QED  BY <1>2, <1>3, <1>4 DEF PutInOrder

(* Nothing is written, and no file is done with or fails.                    *)
LEMMA AccountStays ==
  ASSUME ProgramInv, phase \in AtWork, Done' = Done, Named' = Named,
         UNCHANGED <<argv, output_to_stdout, exit_status, stdout, trouble>>,
         \/ filename' = filename /\ phase' = phase
         \/ filename' /\ phase' # "files",
         \A k : WrittenWhole(k) => WrittenWhole(k)',
         \A m, k : PutWhole(m, k) => PutWhole(m, k)',
         \A k : NamedUpTo(k)' = NamedUpTo(k)
  PROVE  Accounted'
<1>1. /\ filename => Done # {} \/ phase # "files"
      /\ Done # {} => filename
      /\ exit_status = "success" <=> trouble = {}
      /\ \A k \in Done : argv[k] \notin trouble => WrittenWhole(k)
      /\ output_to_stdout /\ trouble = {} =>
           /\ Len(stdout) = Cardinality(Done)
           /\ \A k \in Done : PutWhole(Cardinality(NamedUpTo(k)), k)
  BY DEF ProgramInv, Accounted
<1>2. \A k \in Done' : argv'[k] \notin trouble' => WrittenWhole(k)'
  <2> HIDE DEF WrittenWhole
  <2> QED  BY <1>1
<1>3. ASSUME output_to_stdout, trouble = {}, NEW k \in Done
      PROVE  PutWhole(Cardinality(NamedUpTo(k)), k)'
  <2>1. PutWhole(Cardinality(NamedUpTo(k)), k)
    BY <1>1, <1>3
  <2>2. PICK c : c = Cardinality(NamedUpTo(k))
    OBVIOUS
  <2>3. PutWhole(c, k)' /\ NamedUpTo(k)' = NamedUpTo(k)
    BY <2>1, <2>2
  <2> QED  BY <2>2, <2>3 DEF PutWhole
<1> HIDE DEF WrittenWhole, PutWhole
<1> QED  BY <1>1, <1>2, <1>3 DEF Accounted

LEMMA ProgramInitially ==
  ASSUME InitProgram
  PROVE  ProgramInv
<1>1. argv \in Seq(STRING) /\ Len(argv) \in Nat /\ DOMAIN argv = 1 .. Len(argv)
  BY OutputNamesAssumption DEF InitProgram
<1>2. written = << >> /\ stdout = << >>
  BY NothingYet DEF InitProgram
<1>3. ProgramTypes
  <2>1. i \in 1 .. Len(argv) + 1
    BY <1>1 DEF InitProgram
  <2>2. stdout \in Seq(Outputs) /\ "gzip" \in FormatNames
    BY <1>2, NothingYet DEF FormatNames
  <2> QED  BY <2>1, <2>2 DEF InitProgram, ProgramTypes
<1>4. OptionsFirst
  BY <1>1, <1>2 DEF InitProgram, OptionsFirst, AtWork
<1>5. OutputsOfFiles
  BY <1>2, NoOutputs
<1> QED  BY <1>3, <1>4, <1>5
         DEF ProgramInv, InitProgram, LoadedSoFar, Accounted, StatusTellsFailures, AtWork

LEMMA TakeOptionStep ==
  ASSUME ProgramInv, TakeOption
  PROVE  ProgramInv'
<1>1. /\ phase = "options" /\ phase' = "options" /\ i <= Len(argv) /\ ~ Stops(argv[i])
      /\ i' = i + 1 /\ argv' = argv /\ ferror' = ferror /\ filename' = filename
      /\ exit_status' = exit_status /\ trouble' = trouble
      /\ written' = written /\ stdout' = stdout
  BY DEF TakeOption, Stops, loadVars, outputVars
<1>2. i' \in 1 .. Len(argv) + 1
  BY <1>1, OneMoreDone DEF ProgramInv
<1>3. output_type' \in FormatNames /\ output_to_stdout' \in BOOLEAN
  BY ProgramAssumption DEF TakeOption, ProgramInv, ProgramTypes
<1>4. ProgramTypes'
  BY <1>1, <1>2, <1>3 DEF ProgramInv, ProgramTypes
<1>5. \A k \in DOMAIN argv : k < i + 1 => ~ Stops(argv[k])
  <2> SUFFICES ASSUME NEW k \in DOMAIN argv, k < i + 1 PROVE ~ Stops(argv[k])
    OBVIOUS
  <2>1. k < i \/ k = i
    BY Arguments DEF ProgramInv
  <2> QED  BY <1>1, <2>1 DEF ProgramInv, OptionsFirst
<1>6. OptionsFirst'
  <2>1. ~ filename /\ written = << >> /\ stdout = << >> /\ trouble = {} /\ exit_status = "success"
    BY <1>1 DEF ProgramInv, OptionsFirst
  <2> QED  BY <1>1, <1>5, <2>1 DEF OptionsFirst, AtWork, Stops
<1>7. OutputsOfFiles'
  BY <1>1, NoOutputs DEF ProgramInv, OptionsFirst
<1> QED  BY <1>1, <1>4, <1>6, <1>7
         DEF ProgramInv, LoadedSoFar, Accounted, StatusTellsFailures, AtWork

(* The program stops at an option.                                           *)
LEMMA StopsAtOption ==
  ASSUME ProgramInv, Help \/ RejectOption
  PROVE  ProgramInv'
<1>1. /\ phase = "options" /\ phase' = "exited" /\ i <= Len(argv)
      /\ \/ exit_status' = "success" /\ argv[i] = "-h"
         \/ exit_status' = "failure" /\ argv[i] = "bad"
      /\ UNCHANGED <<argv, i, output_type, output_to_stdout, filename, ferror, written, stdout, trouble>>
  BY DEF Help, RejectOption, Exit, optionVars, loadVars, outputVars
<1>2. ProgramTypes'
  BY <1>1 DEF ProgramInv, ProgramTypes
<1>3. ~ filename /\ written = << >> /\ stdout = << >>
  BY <1>1 DEF ProgramInv, OptionsFirst
<1>4. OutputsOfFiles'
  BY <1>1, <1>3, NoOutputs
<1>5. argv[i] \in Range(argv)
  <2>1. i \in DOMAIN argv
    BY <1>1, Arguments DEF ProgramInv, ProgramTypes
  <2> QED  BY <2>1 DEF Range
<1>6. StatusTellsFailures'
  <2>1. exit_status' = "success" => Helped'
    BY <1>1, <1>5 DEF Helped
  <2>2. exit_status' = "failure" => "bad" \in Range(argv')
    BY <1>1, <1>5
  <2>3. PutInOrder'
    BY <1>2, <1>4, OrderIsKept
  <2> QED  BY <1>1, <1>3, <2>1, <2>2, <2>3 DEF StatusTellsFailures
<1> QED  BY <1>1, <1>2, <1>4, <1>6
         DEF ProgramInv, OptionsFirst, LoadedSoFar, Accounted, AtWork

LEMMA OptionsReadStep ==
  ASSUME ProgramInv, OptionsRead
  PROVE  ProgramInv'
<1>1. /\ phase = "options" /\ phase' = "files" /\ i > Len(argv) /\ i' = 1
      /\ UNCHANGED <<argv, output_type, output_to_stdout, filename, exit_status, ferror, written, stdout, trouble>>
  BY DEF OptionsRead, optionVars, loadVars, outputVars
<1>2. Len(argv) \in Nat /\ DOMAIN argv = 1 .. Len(argv) /\ i \in Nat
  BY Arguments DEF ProgramInv
<1>3. /\ ~ filename /\ written = << >> /\ stdout = << >> /\ trouble = {} /\ exit_status = "success"
      /\ \A k \in DOMAIN argv : k < i => ~ Stops(argv[k])
  BY <1>1 DEF ProgramInv, OptionsFirst
<1>4. ProgramTypes'
  BY <1>1, <1>2 DEF ProgramInv, ProgramTypes, AtWork
<1>5. OptionsFirst'
  <2>1. \A k \in DOMAIN argv : ~ Stops(argv[k])
    BY <1>1, <1>2, <1>3
  <2> QED  BY <1>1, <2>1 DEF OptionsFirst, Stops
<1>6. OutputsOfFiles'
  BY <1>1, <1>3, NoOutputs
<1>7. Accounted'
  <2>1. Done' = {}
    BY <1>1, <1>2 DEF Done, Named
  <2>2. Cardinality({}) = 0 /\ Len(stdout) = 0
    BY <1>3, FS_EmptySet, NothingYet
  <2> QED  BY <1>1, <1>3, <2>1, <2>2 DEF Accounted
<1> QED  BY <1>1, <1>4, <1>5, <1>6, <1>7 DEF ProgramInv, LoadedSoFar, StatusTellsFailures

LEMMA SkipOptionStep ==
  ASSUME ProgramInv, SkipOption
  PROVE  ProgramInv'
<1>1. /\ phase = "files" /\ phase' = "files" /\ i <= Len(argv) /\ i \notin Named /\ i' = i + 1
      /\ UNCHANGED <<argv, output_type, output_to_stdout, filename, exit_status, ferror, written, stdout, trouble>>
  BY DEF SkipOption, Named, optionVars, loadVars, outputVars
<1>2. ProgramTypes' /\ OptionsFirst' /\ LoadedSoFar' /\ StatusTellsFailures'
  <2>1. phase \in AtWork
    BY <1>1 DEF AtWork
  <2> QED  BY <1>1, <2>1, NextTypes DEF ProgramInv, ProgramTypes
<1>3. Done' = Done /\ Named' = Named /\ phase \in AtWork
  BY <1>1, OneMoreDone DEF ProgramInv, AtWork
<1>4. /\ OutputsOfFiles' /\ \A k : WrittenWhole(k) => WrittenWhole(k)'
      /\ \A m, k : PutWhole(m, k) => PutWhole(m, k)'
      /\ \A k : NamedUpTo(k)' = NamedUpTo(k)
  BY <1>1, <1>3, OutputsStay DEF ProgramInv, outputVars
<1>5. Accounted'
  BY <1>1, <1>3, <1>4, AccountStays
<1> QED  BY <1>2, <1>4, <1>5 DEF ProgramInv

LEMMA LoadRefusedStep ==
  ASSUME ProgramInv, LoadRefused
  PROVE  ProgramInv'
<1>1. /\ phase \in AtWork /\ i \in Named /\ FileFails /\ filename'
      /\ UNCHANGED <<argv, output_type, output_to_stdout, ferror, written, stdout>>
  <2>1. i \in Named
    BY Arguments DEF LoadRefused, Named, ProgramInv, ProgramTypes
  <2> QED  BY <2>1 DEF LoadRefused, AtWork, loadVars, outputVars
<1>2. OutputsOfFiles' /\ \A k : WrittenWhole(k) => WrittenWhole(k)'
  BY <1>1, OutputsStay, DoneGrows DEF ProgramInv, FileFails, outputVars
<1>3. filename' \in BOOLEAN /\ ferror' \in BOOLEAN /\ stdout' \in Seq(Outputs)
  BY <1>1 DEF ProgramInv, ProgramTypes, LoadRefused
<1> QED  BY <1>1, <1>2, <1>3, FileFailsStep

LEMMA StartLoadStep ==
  ASSUME ProgramInv, NEW size \in Sizes, StartLoad(size)
  PROVE  ProgramInv'
<1>1. /\ phase = "files" /\ phase' = "loading" /\ i \in Named /\ argv[i] \in Files
      /\ size < SizeMax /\ filename' = TRUE /\ ferror' = FALSE
      /\ data' = << >> /\ cap' = FirstCapFor(size)
      /\ UNCHANGED <<argv, i, output_type, output_to_stdout, exit_status, trouble, written, stdout>>
  <2>1. i \in Named
    BY Arguments DEF StartLoad, Named, ProgramInv, ProgramTypes
  <2> QED  BY <2>1 DEF StartLoad, outputVars
<1>2. ProgramTypes' /\ OptionsFirst'
  BY <1>1 DEF ProgramInv, ProgramTypes, OptionsFirst, AtWork, Stops
<1>3. cap' \in Nat /\ 0 < cap' /\ cap' <= SizeMax
  BY <1>1, ProgramAssumption DEF FirstCapFor
<1>4. LoadedSoFar'
  <2>1. Content[argv[i]] \in Seq(0 .. ByteMax)
    BY <1>1, ProgramAssumption DEF Files
  <2>2. Len(Content[argv[i]]) \in Nat
    BY <2>1
  <2>3. SubSeq(Content[argv[i]], 1, 0) = << >>
    BY SubSeqEmpty
  <2>4. Len(data') = 0 /\ Named' = Named
    BY <1>1 DEF Named
  <2> QED  BY <1>1, <1>3, <2>2, <2>3, <2>4 DEF LoadedSoFar
<1>5. Done' = Done /\ Named' = Named /\ phase \in AtWork
  BY <1>1 DEF Done, Named, AtWork
<1>6. OutputsOfFiles' /\ Accounted'
  <2>1. /\ OutputsOfFiles' /\ \A k : WrittenWhole(k) => WrittenWhole(k)'
        /\ \A m, k : PutWhole(m, k) => PutWhole(m, k)'
        /\ \A k : NamedUpTo(k)' = NamedUpTo(k)
    BY <1>1, <1>5, OutputsStay DEF ProgramInv, outputVars
  <2> QED  BY <1>1, <1>5, <2>1, AccountStays
<1> QED  BY <1>1, <1>2, <1>4, <1>6 DEF ProgramInv, StatusTellsFailures

(* No arguments that stop the program are left once files are looked at.     *)
LEMMA NoneStops ==
  ASSUME ProgramInv, phase \in AtWork
  PROVE  "bad" \notin Range(argv) /\ ~ Helped
BY DEF ProgramInv, OptionsFirst, Stops, Range, Helped

LEMMA OutOfMemoryStep ==
  ASSUME ProgramInv, OutOfMemory
  PROVE  ProgramInv'
<1>1. /\ phase \in {"loading", "loaded"} /\ phase' = "exited" /\ exit_status' = "failure"
      /\ trouble' = trouble \cup {argv[i]}
      /\ UNCHANGED <<argv, i, output_type, output_to_stdout, filename, ferror, written, stdout>>
  BY DEF OutOfMemory, Exit, optionVars, loadVars, outputVars
<1>2. phase \in AtWork /\ i \in Named
  BY <1>1 DEF ProgramInv, LoadedSoFar, AtWork
<1>3. "bad" \notin Range(argv) /\ ~ Helped /\ ~ Helped'
  BY <1>1, <1>2, NoneStops DEF Helped
<1>4. ProgramTypes' /\ OptionsFirst' /\ LoadedSoFar' /\ Accounted'
  BY <1>1 DEF ProgramInv, ProgramTypes, OptionsFirst, LoadedSoFar, Accounted, AtWork
<1>5. OutputsOfFiles'
  BY <1>1, OutputsStay, DoneGrows DEF ProgramInv, outputVars
<1>6. StatusTellsFailures'
  <2>1. trouble' # {} /\ ~ (i' > Len(argv'))
    BY <1>1, <1>2, Arguments DEF ProgramInv
  <2>2. PutInOrder'
    BY <1>4, <1>5, OrderIsKept
  <2> QED  BY <1>1, <1>3, <2>1, <2>2 DEF StatusTellsFailures
<1> QED  BY <1>4, <1>5, <1>6 DEF ProgramInv

LEMMA LeastOfTwo ==
  ASSUME NEW a \in Nat, NEW b \in Nat
  PROVE  Min({a, b}) \in {a, b} /\ Min({a, b}) <= a /\ Min({a, b}) <= b
<1>1. \E x \in {a, b} : \A y \in {a, b} : x <= y
  <2>1. CASE a <= b
    BY <2>1
  <2>2. CASE ~ (a <= b)
    BY <2>2
  <2> QED  BY <2>1, <2>2
<1> QED  BY <1>1 DEF Min

(* What fread adds to what has been read.                                    *)
LEMMA ReadOn ==
  ASSUME ProgramInv, phase = "loading", NEW got, NEW fails \in BOOLEAN,
         got \in Gets(Len(Content[argv[i]]) - Len(data), fails)
  PROVE  LET whole == Content[argv[i]]
             read == data \o SubSeq(whole, Len(data) + 1, Len(data) + got)
         IN  /\ whole \in Bytes /\ got \in Nat /\ Len(data) + got <= cap
             /\ Len(read) = Len(data) + got /\ Len(read) <= Len(whole)
             /\ read = SubSeq(whole, 1, Len(read))
             /\ got = 0 /\ ~ fails => read = whole
<1> DEFINE whole == Content[argv[i]]
           l == Len(data)
           read == data \o SubSeq(whole, l + 1, l + got)
           left == Len(whole) - l
<1>1. /\ argv[i] \in Files /\ l \in 0 .. Len(whole) /\ data = SubSeq(whole, 1, l)
      /\ cap \in Nat /\ l < cap
  BY DEF ProgramInv, LoadedSoFar
<1>2. whole \in Seq(0 .. ByteMax) /\ Len(whole) \in Nat
  <2>1. whole \in Seq(0 .. ByteMax)
    BY <1>1, ProgramAssumption DEF Files
  <2> QED  BY <2>1
<1> HIDE DEF whole, l
<1>3. PICK n \in Nat : n = l
  BY <1>1, <1>2
<1>4. PICK most \in Nat : /\ most = Min({cap - l, left})
                          /\ most <= cap - l /\ most <= left
                          /\ most = cap - l \/ most = left
  <2>1. cap - l \in Nat /\ left \in Nat
    BY <1>1, <1>2, <1>3
  <2> HIDE DEF left
  <2>2. /\ Min({cap - l, left}) \in {cap - l, left}
        /\ Min({cap - l, left}) <= cap - l /\ Min({cap - l, left}) <= left
    BY <2>1, LeastOfTwo
  <2> QED  BY <2>1, <2>2
<1>5. got \in Nat /\ got <= most /\ (~ fails => got = most)
  <2>1. got \in IF fails THEN 0 .. most ELSE {most}
    BY <1>4 DEF Gets, whole, l
  <2> QED  BY <2>1
<1>6. l + got <= cap /\ n + got \in n .. Len(whole)
  BY <1>1, <1>2, <1>3, <1>4, <1>5
<1>7. read = SubSeq(whole, 1, n + got)
  <2>1. 1 \in 1 .. Len(whole) + 1 /\ n \in 1 - 1 .. Len(whole)
    BY <1>1, <1>2, <1>3
  <2>2. SubSeq(whole, 1, n) \o SubSeq(whole, n + 1, n + got) = SubSeq(whole, 1, n + got)
    BY <1>2, <1>6, <2>1, ConcatAdjacentSubSeq
  <2> QED  BY <1>1, <1>3, <2>2
<1>8. Len(read) = n + got
  <2>1. \A k \in 1 .. n + got : whole[k] \in 0 .. ByteMax
    <3>1. \A k \in 1 .. Len(whole) : whole[k] \in 0 .. ByteMax
      <4>1. \A S : \A s \in Seq(S) : \A k \in 1 .. Len(s) : s[k] \in S
        OBVIOUS
      <4> QED  BY <1>2, <4>1
    <3>2. \A k \in 1 .. n + got : k \in 1 .. Len(whole)
      BY <1>2, <1>6
    <3> QED  BY <3>1, <3>2
  <2>2. n + got \in Nat
    BY <1>5
  <2>3. PICK z \in Int : z = n + got
    BY <2>2
  <2>4. Len(SubSeq(whole, 1, z)) = IF 1 <= z THEN z - 1 + 1 ELSE 0
    <3>1. \A k \in 1 .. z : whole[k] \in 0 .. ByteMax
      BY <2>1, <2>3
    <3> QED  BY <3>1, SubSeqProperties
  <2>5. Len(SubSeq(whole, 1, z)) = z
    BY <2>2, <2>3, <2>4
  <2>6. read = SubSeq(whole, 1, z)
    BY <1>7, <2>3
  <2> HIDE DEF read
  <2> QED  BY <2>3, <2>5, <2>6
<1>9. got = 0 /\ ~ fails => read = whole
  <2> SUFFICES ASSUME got = 0, ~ fails PROVE read = whole
    OBVIOUS
  <2>1. most = 0
    BY <1>5
  <2>2. n + got = Len(whole)
    BY <1>1, <1>2, <1>3, <1>4, <2>1
  <2> QED  BY <1>2, <1>7, <2>2, SubSeqFull
<1>10. Len(read) = l + got /\ Len(read) <= Len(whole) /\ read = SubSeq(whole, 1, Len(read))
  <2> HIDE DEF read, left
  <2>1. read = SubSeq(whole, 1, Len(read))
    BY <1>7, <1>8
  <2> QED  BY <1>2, <1>3, <1>6, <1>8, <2>1
<1> QED  BY <1>2, <1>5, <1>6, <1>9, <1>10 DEF whole, l, Bytes

LEMMA ReadStep ==
  ASSUME ProgramInv, NEW got, NEW fails \in BOOLEAN, Read(got, fails)
  PROVE  ProgramInv'
<1> DEFINE whole == Content[argv[i]]
           read == data \o SubSeq(whole, Len(data) + 1, Len(data) + got)
           full == ~ AtEnd(got) /\ Len(read) = cap
<1>1. /\ phase = "loading" /\ got \in Gets(Len(whole) - Len(data), fails)
      /\ ferror' = (ferror \/ fails) /\ data' = read
      /\ UNCHANGED <<argv, output_type, output_to_stdout, filename, written, stdout>>
  BY DEF Read, optionVars, outputVars
<1>2. /\ whole \in Bytes /\ got \in Nat /\ Len(data) + got <= cap
      /\ Len(read) = Len(data) + got /\ Len(read) <= Len(whole)
      /\ read = SubSeq(whole, 1, Len(read))
      /\ got = 0 /\ ~ fails => read = whole
  BY <1>1, ReadOn
<1>3. /\ i \in Named /\ argv[i] \in Files /\ filename /\ Len(data) \in Nat
      /\ cap \in Nat /\ Len(data) < cap /\ cap <= SizeMax
  <2>1. Len(whole) \in Nat
    BY <1>2 DEF Bytes
  <2> QED  BY <1>1, <2>1 DEF ProgramInv, LoadedSoFar
<1>4. phase \in AtWork /\ ferror' \in BOOLEAN /\ stdout' \in Seq(Outputs)
      /\ filename' /\ filename' \in BOOLEAN
  BY <1>1, <1>3 DEF AtWork, ProgramInv, ProgramTypes
<1>5. ASSUME i' = i \/ i' = i + 1
      PROVE  /\ OutputsOfFiles' /\ \A k : WrittenWhole(k) => WrittenWhole(k)'
             /\ \A m, k : PutWhole(m, k) => PutWhole(m, k)'
             /\ \A k : NamedUpTo(k)' = NamedUpTo(k)
  BY <1>1, <1>5, OutputsStay, DoneGrows DEF ProgramInv, outputVars
<1>6. \/ /\ ~ AtEnd(got) /\ (full => GrowCap > cap)
         /\ cap' = IF full THEN GrowCap ELSE cap
         /\ UNCHANGED <<i, exit_status, phase, trouble>>
      \/ /\ AtEnd(got) /\ ~ ferror'
         /\ phase' = "loaded"
         /\ UNCHANGED <<i, exit_status, cap, trouble>>
      \/ FileFails
  BY DEF Read
<1> HIDE DEF read, full, whole
<1>7. ASSUME phase' \in {"loading", "loaded"}, UNCHANGED <<i, exit_status, trouble>>, LoadedSoFar'
      PROVE  ProgramInv'
  <2>1. ProgramTypes' /\ OptionsFirst'
    BY <1>1, <1>4, <1>7 DEF ProgramInv, ProgramTypes, OptionsFirst, AtWork, Stops
  <2>2. Done' = Done /\ Named' = Named
    BY <1>1, <1>7 DEF Done, Named
  <2>3. Accounted'
    BY <1>1, <1>3, <1>4, <1>5, <1>7, <2>2, AccountStays
  <2> QED  BY <1>5, <1>7, <2>1, <2>3 DEF ProgramInv, StatusTellsFailures
<1>8. /\ Len(data') \in 0 .. Len(whole) /\ data' = SubSeq(whole, 1, Len(data'))
      /\ (i' = i => Named' = Named /\ Content[argv'[i']] = whole)
  <2>1. Len(whole) \in Nat
    BY <1>2 DEF Bytes
  <2> QED  BY <1>1, <1>2, <1>3, <2>1 DEF Named, whole
<1>9. CASE /\ ~ AtEnd(got) /\ (full => GrowCap > cap)
           /\ cap' = IF full THEN GrowCap ELSE cap
           /\ UNCHANGED <<i, exit_status, phase, trouble>>
  <2>1. cap' \in Nat /\ Len(data') < cap' /\ cap' <= SizeMax
    <3>1. CASE full
      <4>1. Len(data') = cap /\ cap' = GrowCap /\ GrowCap > cap
        BY <1>1, <1>9, <3>1 DEF full
      <4>2. GrowCap \in 0 .. SizeMax
        <5>1. PICK c \in Nat : c = cap + (cap \div 2) + (cap \div 8) + 1
          BY <1>3
        <5>2. SizeMax + 1 \in Nat \ {0}
          BY ProgramAssumption
        <5>3. c % (SizeMax + 1) \in 0 .. (SizeMax + 1) - 1
          BY <5>2
        <5> QED  BY <5>1, <5>3, ProgramAssumption DEF GrowCap
      <4> QED  BY <1>3, <4>1, <4>2, ProgramAssumption
    <3>2. CASE ~ full
      <4>1. Len(data') # cap /\ cap' = cap
        BY <1>1, <1>9, <3>2 DEF full
      <4> QED  BY <1>1, <1>2, <1>3, <4>1
    <3> QED  BY <3>1, <3>2
  <2>2. LoadedSoFar'
    BY <1>1, <1>3, <1>8, <1>9, <2>1 DEF LoadedSoFar
  <2> QED  BY <1>1, <1>7, <1>9, <2>2
<1>10. CASE /\ AtEnd(got) /\ ~ ferror'
            /\ phase' = "loaded"
            /\ UNCHANGED <<i, exit_status, cap, trouble>>
  <2>1. data' = whole
    BY <1>1, <1>2, <1>10 DEF AtEnd
  <2>2. LoadedSoFar'
    BY <1>1, <1>3, <1>8, <1>10, <2>1 DEF LoadedSoFar
  <2> QED  BY <1>7, <1>10, <2>2
<1>11. CASE FileFails
  <2>1. i' = i + 1
    BY <1>11 DEF FileFails
  <2> QED  BY <1>1, <1>3, <1>4, <1>5, <1>11, <2>1, FileFailsStep
<1> QED  BY <1>6, <1>9, <1>10, <1>11

-----------------------------------------------------------------------------
(* What is written, to a file or to standard output.                         *)
LEMMA LoadedFacts ==
  ASSUME ProgramInv, phase = "loaded", NEW w \in BOOLEAN
  PROVE  /\ phase \in AtWork /\ i \in Named /\ i \in Nat /\ filename
         /\ argv[i] \in Files /\ data = Content[argv[i]]
         /\ output_type \in FormatNames
         /\ Written(w).whole = w /\ IsOutputOf(Written(w), i) /\ Written(w) \in Outputs
<1>1. /\ i \in Named /\ filename /\ argv[i] \in Files /\ data = Content[argv[i]]
      /\ output_type \in FormatNames
  BY DEF ProgramInv, LoadedSoFar, ProgramTypes
<1>2. phase \in AtWork /\ i \in Nat
  BY Arguments DEF ProgramInv, AtWork
<1>3. Written(w) = [whole |-> w, container |-> ZopfliCompress(output_type, Content[argv[i]])]
  BY <1>1 DEF Written
<1>4. Written(w).whole = w /\ IsOutputOf(Written(w), i)
  BY <1>1, <1>3 DEF IsOutputOf
<1>5. Written(w) \in Outputs
  BY <1>1, <1>3 DEF Outputs
<1> QED  BY <1>1, <1>2, <1>4, <1>5

LEMMA SavedIs ==
  ASSUME NEW output
  PROVE  LET name == OutputName(argv[i], output_type)
         IN  /\ DOMAIN Saved(output) = DOMAIN written \cup {name}
             /\ Saved(output)[name] = output
             /\ \A f \in DOMAIN written : f # name => Saved(output)[f] = written[f]
BY DEF Saved

(* A file saved, whole or in part, is the output of the file worked on, and  *)
(* no other output is touched.                                               *)
LEMMA SavedOutputs ==
  ASSUME ProgramInv, phase = "loaded", NEW w \in BOOLEAN, written' = Saved(Written(w)),
         UNCHANGED <<argv, output_type, output_to_stdout, stdout>>, i' = i + 1
  PROVE  /\ OutputsOfFiles'
         /\ ~ output_to_stdout =>
              \A k \in Named : (argv[k] # argv[i] \/ w) /\ WrittenWhole(k) => WrittenWhole(k)'
         /\ ~ output_to_stdout /\ w => \A k \in Named : argv[k] = argv[i] => WrittenWhole(k)'
<1> DEFINE name == OutputName(argv[i], output_type)
<1>1. /\ DOMAIN written' = DOMAIN written \cup {name} /\ written'[name] = Written(w)
      /\ \A f \in DOMAIN written : f # name => written'[f] = written[f]
  BY SavedIs
<1>2. PICK n \in Named : n = i
  BY LoadedFacts
<1>3. /\ output_type \in FormatNames
      /\ Written(w).whole = w /\ IsOutputOf(Written(w), n) /\ name = OutputName(argv[n], output_type)
      /\ Named' = Named
  BY <1>2, LoadedFacts DEF Named
<1>4. \A k : \A output : IsOutputOf(output, k) => IsOutputOf(output, k)'
  BY DEF IsOutputOf
<1>5. OutputsOfFiles'
  <2>1. ASSUME NEW f \in DOMAIN written'
        PROVE  \E k \in Named : f = OutputName(argv[k], output_type) /\ IsOutputOf(written'[f], k)
    <3>1. CASE f = name
      BY <1>1, <1>3, <3>1
    <3>2. CASE f # name
      <4>1. f \in DOMAIN written /\ written'[f] = written[f]
        BY <1>1, <3>2
      <4> QED  BY <4>1 DEF ProgramInv, OutputsOfFiles
    <3> QED  BY <3>1, <3>2
  <2>2. \E from : ComeFrom(from)'
    BY StdoutStays, DoneGrows DEF ProgramInv
  <2> QED  BY <1>3, <2>1, <2>2 DEF OutputsOfFiles, IsOutputOf
<1>6. ASSUME NEW k \in Named, argv[k] # argv[i] PROVE OutputName(argv[k], output_type) # name
  <2>1. k \in DOMAIN argv /\ n \in DOMAIN argv /\ argv \in ArgLists /\ argv[k] # argv[n]
    BY <1>2, <1>6 DEF Named, ProgramInv, ProgramTypes
  <2> QED  BY <1>3, <2>1, OutputNamesAssumption
<1>7. ASSUME ~ output_to_stdout, NEW k \in Named, argv[k] # argv[i] \/ w, WrittenWhole(k)
      PROVE  WrittenWhole(k)'
  <2> DEFINE f == OutputName(argv[k], output_type)
  <2>1. f \in DOMAIN written /\ written[f].whole
    BY <1>7 DEF WrittenWhole
  <2>2. f \in DOMAIN written' /\ written'[f].whole
    <3>1. CASE f = name
      BY <1>1, <1>3, <1>6, <1>7, <3>1
    <3>2. CASE f # name
      BY <1>1, <2>1, <3>2
    <3> QED  BY <3>1, <3>2
  <2> QED  BY <1>7, <2>2 DEF WrittenWhole
<1>8. ASSUME ~ output_to_stdout, w, NEW k \in Named, argv[k] = argv[i] PROVE WrittenWhole(k)'
  <2>1. OutputName(argv[k], output_type) = name
    BY <1>8
  <2>2. name \in DOMAIN written' /\ written'[name].whole
    BY <1>1, <1>3, <1>8
  <2> HIDE DEF name
  <2> QED  BY <1>8, <2>1, <2>2 DEF WrittenWhole
<1> QED  BY <1>5, <1>7, <1>8

LEMMA SaveFileStep ==
  ASSUME ProgramInv, SaveFile
  PROVE  ProgramInv'
<1>1. /\ phase = "loaded" /\ ~ output_to_stdout
      /\ UNCHANGED <<argv, output_type, output_to_stdout, filename, ferror, stdout>>
  BY DEF SaveFile, optionVars, loadVars
<1>2. PICK n \in Named : n = i
  BY <1>1, LoadedFacts
<1>3. phase \in AtWork /\ filename /\ filename' \in BOOLEAN /\ ferror' \in BOOLEAN
      /\ stdout' \in Seq(Outputs)
  BY <1>1, LoadedFacts DEF ProgramInv, ProgramTypes
<1>4. Done \subseteq Named
  BY DEF Done
<1>5. \/ /\ phase' = "files" /\ i' = i + 1
         /\ written' = Saved(Written(TRUE))
         /\ UNCHANGED <<exit_status, trouble>>
      \/ FileFails /\ (written' = written \/ written' = Saved(Written(FALSE)))
  BY DEF SaveFile
<1>6. CASE /\ phase' = "files" /\ i' = i + 1
           /\ written' = Saved(Written(TRUE))
           /\ UNCHANGED <<exit_status, trouble>>
  <2>1. /\ OutputsOfFiles' /\ \A k \in Named : WrittenWhole(k) => WrittenWhole(k)'
        /\ \A k \in Named : argv[k] = argv[i] => WrittenWhole(k)'
    BY <1>1, <1>6, SavedOutputs
  <2>2. WrittenWhole(n)'
    BY <1>2, <2>1
  <2>3. \A m, k : PutWhole(m, k) => PutWhole(m, k)'
    BY <1>1 DEF PutWhole
  <2> QED  BY <1>1, <1>2, <1>3, <1>4, <1>6, <2>1, <2>2, <2>3, FileSucceeds
<1>7. CASE FileFails /\ written' = written
  <2>1. OutputsOfFiles' /\ \A k : WrittenWhole(k) => WrittenWhole(k)'
    BY <1>1, <1>7, OutputsStay, DoneGrows DEF ProgramInv, FileFails, outputVars
  <2> QED  BY <1>1, <1>2, <1>3, <1>7, <2>1, FileFailsStep
<1>8. CASE FileFails /\ written' = Saved(Written(FALSE))
  <2>1. /\ OutputsOfFiles'
        /\ \A k \in Named : argv[k] # argv[i] /\ WrittenWhole(k) => WrittenWhole(k)'
    BY <1>1, <1>8, SavedOutputs DEF FileFails
  <2> QED  BY <1>1, <1>2, <1>3, <1>4, <1>8, <2>1, FileFailsStep
<1> QED  BY <1>5, <1>6, <1>7, <1>8

(* One more output comes from the file worked on, which follows those done.  *)
LEMMA StdoutGrows ==
  ASSUME ProgramTypes, OutputsOfFiles, NEW n \in Named, n = i, i' = i + 1,
         UNCHANGED <<argv, output_type>>,
         Len(stdout) \in Nat, DOMAIN stdout = 1 .. Len(stdout),
         DOMAIN stdout' = 1 .. Len(stdout) + 1,
         \A k \in 1 .. Len(stdout) : stdout'[k] = stdout[k],
         IsOutputOf(stdout'[Len(stdout) + 1], n)
  PROVE  \E from : ComeFrom(from)'
<1> DEFINE top == Len(stdout) + 1
<1>1. PICK from : ComeFrom(from)
  BY DEF OutputsOfFiles
<1>2. PICK longer : longer = [k \in 1 .. top |-> IF k = top THEN n ELSE from[k]]
  OBVIOUS
<1>3. n \in Nat /\ Named \subseteq Nat /\ Done \subseteq Done' /\ n \in Done'
  BY Arguments, DoneGrows DEF Done, Named
<1>4. \A k \in 1 .. Len(stdout) : from[k] \in Done /\ from[k] \in Nat /\ from[k] < n
  BY <1>1, <1>3 DEF ComeFrom, Done
<1>5. /\ longer[top] = n
      /\ \A k \in 1 .. Len(stdout) : longer[k] = from[k]
  BY <1>2
<1>6. longer \in [DOMAIN stdout' -> Done']
  BY <1>2, <1>3, <1>4
<1>7. ASSUME NEW l \in DOMAIN stdout', NEW m \in DOMAIN stdout', l < m
      PROVE  longer[l] < longer[m]
  <2>1. l \in 1 .. Len(stdout)
    BY <1>7
  <2>2. CASE m = top
    BY <1>4, <1>5, <2>1, <2>2
  <2>3. CASE m \in 1 .. Len(stdout)
    BY <1>1, <1>5, <1>7, <2>1, <2>3 DEF ComeFrom
  <2> QED  BY <2>2, <2>3
<1>8. ASSUME NEW k \in DOMAIN stdout' PROVE IsOutputOf(stdout[k], longer[k])'
  <2>1. CASE k = top
    BY <1>5, <2>1 DEF IsOutputOf
  <2>2. CASE k \in 1 .. Len(stdout)
    BY <1>1, <1>5, <2>2 DEF ComeFrom, IsOutputOf
  <2> QED  BY <2>1, <2>2
<1>9. ComeFrom(longer)'
  BY <1>6, <1>7, <1>8 DEF ComeFrom
<1> QED  BY <1>9

LEMMA WriteStdoutStep ==
  ASSUME ProgramInv, WriteStdout
  PROVE  ProgramInv'
<1>1. /\ phase = "loaded" /\ output_to_stdout
      /\ UNCHANGED <<argv, output_type, output_to_stdout, filename, ferror, written>>
  BY DEF WriteStdout, optionVars, loadVars
<1>2. PICK w \in BOOLEAN :
        /\ stdout' = Append(stdout, Written(w))
        /\ \/ w /\ phase' = "files" /\ i' = i + 1 /\ UNCHANGED <<exit_status, trouble>>
           \/ FileFails
  BY DEF WriteStdout
<1>3. PICK n \in Named : n = i
  BY <1>1, LoadedFacts
<1>4. /\ phase \in AtWork /\ filename /\ argv[i] \in Files /\ output_type \in FormatNames
      /\ Written(w).whole = w /\ IsOutputOf(Written(w), n) /\ Written(w) \in Outputs
  BY <1>1, <1>3, LoadedFacts
<1>5. filename' \in BOOLEAN /\ ferror' \in BOOLEAN /\ stdout \in Seq(Outputs)
  BY <1>1 DEF ProgramInv, ProgramTypes
<1>6. /\ stdout' \in Seq(Outputs) /\ Len(stdout) \in Nat /\ Len(stdout') = Len(stdout) + 1
      /\ DOMAIN stdout = 1 .. Len(stdout) /\ DOMAIN stdout' = 1 .. Len(stdout) + 1
      /\ \A k \in 1 .. Len(stdout) : stdout'[k] = stdout[k]
      /\ stdout'[Len(stdout) + 1] = Written(w)
  BY <1>2, <1>4, <1>5, AppendProperties
<1>7. Named' = Named
  BY <1>1 DEF Named
<1>8. OutputsOfFiles'
  <2>1. \E from : ComeFrom(from)'
    BY <1>1, <1>2, <1>3, <1>4, <1>6, StdoutGrows DEF ProgramInv, FileFails
  <2>2. \A f \in DOMAIN written :
          \E m \in Named : f = OutputName(argv[m], output_type) /\ IsOutputOf(written[f], m)
    BY DEF ProgramInv, OutputsOfFiles
  <2> QED  BY <1>1, <1>7, <2>1, <2>2 DEF OutputsOfFiles, IsOutputOf
<1>9. /\ \A m, k : PutWhole(m, k) => PutWhole(m, k)'
      /\ \A k : WrittenWhole(k) => WrittenWhole(k)'
  <2>1. \A m \in DOMAIN stdout : m \in DOMAIN stdout' /\ stdout'[m] = stdout[m]
    BY <1>6
  <2>2. \A m, k : PutWhole(m, k) => PutWhole(m, k)'
    BY <1>1, <2>1 DEF PutWhole
  <2>3. \A m, k : PutWhole(m, k) => m \in DOMAIN stdout /\ m \in DOMAIN stdout'
    BY <2>1 DEF PutWhole
  <2> QED  BY <1>1, <2>2, <2>3 DEF WrittenWhole
<1>10. CASE w /\ phase' = "files" /\ i' = i + 1 /\ UNCHANGED <<exit_status, trouble>>
  <2>1. Written(w).container.stream = Content[argv[n]]
    <3>1. Content[argv[n]] \in Bytes
      BY <1>3, <1>4, ProgramAssumption DEF Files, Bytes
    <3> QED  BY <1>4, <3>1, CompressedReads DEF IsOutputOf
  <2>2. Len(stdout) + 1 \in DOMAIN stdout'
    BY <1>6
  <2>3. PutWhole(Len(stdout), n)' /\ WrittenWhole(n)'
    BY <1>1, <1>4, <1>6, <1>10, <2>1, <2>2 DEF WrittenWhole, PutWhole
  <2> QED  BY <1>1, <1>3, <1>4, <1>5, <1>6, <1>8, <1>9, <1>10, <2>3, FileSucceeds
<1>11. CASE FileFails
  BY <1>1, <1>3, <1>4, <1>5, <1>6, <1>8, <1>9, <1>11, FileFailsStep
<1> QED  BY <1>2, <1>10, <1>11

LEMMA ReturnStep ==
  ASSUME ProgramInv, Return
  PROVE  ProgramInv'
<1>1. /\ phase = "files" /\ i > Len(argv) /\ phase' = "exited" /\ exit_status' = StatusAtEnd
      /\ UNCHANGED <<argv, i, output_type, output_to_stdout, filename, ferror, written, stdout, trouble>>
  BY DEF Return, Exit, optionVars, loadVars, outputVars
<1>2. phase \in AtWork /\ exit_status \in {"success", "failure"} /\ filename \in BOOLEAN
  BY <1>1 DEF AtWork, ProgramInv, ProgramTypes
<1>3. "bad" \notin Range(argv') /\ ~ Helped'
  BY <1>1, <1>2, NoneStops DEF Helped
<1>4. Done = Named /\ Named' = Named
  <2>1. \A k \in Named : k < i
    BY <1>1, Arguments DEF ProgramInv
  <2> QED  BY <1>1, <2>1 DEF Done, Named
<1>5. /\ OutputsOfFiles' /\ \A k : WrittenWhole(k) => WrittenWhole(k)'
      /\ \A m, k : PutWhole(m, k) => PutWhole(m, k)'
      /\ \A k : NamedUpTo(k)' = NamedUpTo(k)
  BY <1>1, OutputsStay, DoneGrows DEF ProgramInv, outputVars
<1>6. ProgramTypes' /\ OptionsFirst' /\ LoadedSoFar' /\ Accounted'
  BY <1>1, <1>2 DEF ProgramInv, ProgramTypes, OptionsFirst, LoadedSoFar, Accounted, AtWork, StatusAtEnd
<1>7. /\ filename => Named # {}
      /\ Named # {} => filename
      /\ exit_status = "success" <=> trouble = {}
      /\ \A k \in Named : argv[k] \notin trouble => WrittenWhole(k)
      /\ output_to_stdout /\ trouble = {} =>
           /\ Len(stdout) = Cardinality(Named)
           /\ \A k \in Named : PutWhole(Cardinality(NamedUpTo(k)), k)
  BY <1>1, <1>2, <1>4 DEF ProgramInv, Accounted
<1>8. StatusTellsFailures'
  <2>1. \A k \in Named : argv[k] \notin trouble => WrittenWhole(k)'
    BY <1>5, <1>7
  <2>2. ASSUME exit_status' = "success" PROVE filename /\ trouble = {}
    BY <1>1, <1>2, <1>7, <2>2 DEF StatusAtEnd
  <2>3. ASSUME exit_status' = "failure" PROVE Named = {} \/ trouble # {}
    BY <1>1, <1>2, <1>7, <2>3 DEF StatusAtEnd
  <2>4. PutInOrder'
    BY <1>5, <1>6, OrderIsKept
  <2>5. ASSUME output_to_stdout, trouble = {}, NEW k \in Named
        PROVE  PutWhole(Cardinality(NamedUpTo(k)), k)'
    <3>1. PutWhole(Cardinality(NamedUpTo(k)), k)
      BY <1>7, <2>5
    <3>2. PICK c : c = Cardinality(NamedUpTo(k))
      OBVIOUS
    <3>3. PutWhole(c, k)' /\ NamedUpTo(k)' = NamedUpTo(k)
      BY <1>5, <3>1, <3>2
    <3> QED  BY <3>2, <3>3 DEF PutWhole
  <2> HIDE DEF WrittenWhole, PutWhole, PutInOrder
  <2> QED  BY <1>1, <1>3, <1>4, <1>7, <2>1, <2>2, <2>3, <2>4, <2>5 DEF StatusTellsFailures
<1> QED  BY <1>5, <1>6, <1>8 DEF ProgramInv

-----------------------------------------------------------------------------
(* The invariant that the theorems of this part rest on.                     *)
LEMMA ProgramStep == ProgramInv /\ [ProgramNext]_programVars => ProgramInv'
<1> SUFFICES ASSUME ProgramInv, [ProgramNext]_programVars PROVE ProgramInv'
  OBVIOUS
<1>1. CASE UNCHANGED programVars
  <2>1. UNCHANGED <<argv, i, output_type, output_to_stdout, filename, exit_status, phase,
                    cap, data, ferror, written, stdout, trouble>>
    BY <1>1 DEF programVars, optionVars, loadVars, outputVars
  <2>2. ProgramTypes' /\ OptionsFirst' /\ LoadedSoFar'
    BY <2>1 DEF ProgramInv, ProgramTypes, OptionsFirst, LoadedSoFar, Named
  <2>3. Done' = Done /\ Named' = Named
    BY <2>1 DEF Done, Named
  <2>4. /\ OutputsOfFiles' /\ \A k : WrittenWhole(k) => WrittenWhole(k)'
        /\ \A m, k : PutWhole(m, k) => PutWhole(m, k)'
        /\ \A k : NamedUpTo(k)' = NamedUpTo(k)
    BY <2>1, <2>3, OutputsStay DEF ProgramInv, outputVars
  <2>5. Accounted'
    <3>1. CASE phase \in AtWork
      BY <2>1, <2>3, <2>4, <3>1, AccountStays
    <3>2. CASE phase \notin AtWork
      BY <2>1, <3>2 DEF Accounted
    <3> QED  BY <3>1, <3>2
  <2>6. StatusTellsFailures'
    BY <2>1 DEF ProgramInv, StatusTellsFailures, Named, WrittenWhole, PutWhole, PutInOrder,
                NamedUpTo, Helped
  <2> QED  BY <2>2, <2>4, <2>5, <2>6 DEF ProgramInv
<1>2. CASE TakeOption
  BY <1>2, TakeOptionStep
<1>3. CASE Help \/ RejectOption
  BY <1>3, StopsAtOption
<1>4. CASE OptionsRead
  BY <1>4, OptionsReadStep
<1>5. CASE SkipOption
  BY <1>5, SkipOptionStep
<1>6. CASE LoadRefused
  BY <1>6, LoadRefusedStep
<1>7. ASSUME NEW size \in Sizes, StartLoad(size) PROVE ProgramInv'
  BY <1>7, StartLoadStep
<1>8. CASE OutOfMemory
  BY <1>8, OutOfMemoryStep
<1>9. ASSUME NEW got \in 0 .. SizeMax, NEW fails \in BOOLEAN, Read(got, fails) PROVE ProgramInv'
  BY <1>9, ReadStep
<1>10. CASE SaveFile
  BY <1>10, SaveFileStep
<1>11. CASE WriteStdout
  BY <1>11, WriteStdoutStep
<1>12. CASE Return
  BY <1>12, ReturnStep
<1>13. CASE Exited
  BY <1>1, <1>13 DEF Exited
<1> QED  BY <1>1, <1>2, <1>3, <1>4, <1>5, <1>6, <1>7, <1>8, <1>9, <1>10, <1>11, <1>12, <1>13
         DEF ProgramNext

LEMMA ProgramHolds == ProgramSpec => []ProgramInv
<1>1. InitProgram => ProgramInv
  BY ProgramInitially
<1> QED  BY <1>1, ProgramStep, PTL DEF ProgramSpec

(* main of zopfli_bin.c: the exit status is success only if all files were    *)
(* written whole, each in its place if to standard output, failure only if   *)
(* something failed; a file that fails keeps no other from being written,    *)
(* and none changes the order of what is on standard output.                 *)
THEOREM StatusTells == ProgramSpec => []StatusTellsFailures
<1>1. ProgramInv => StatusTellsFailures
  BY DEF ProgramInv
<1> QED  BY <1>1, ProgramHolds, PTL

LEMMA SavedAsPromised == ProgramInv => SavedReadsBack
<1> SUFFICES ASSUME ProgramInv PROVE SavedReadsBack
  OBVIOUS
<1>1. phase = "loading" => Len(data) < cap /\ cap <= SizeMax
  BY DEF ProgramInv, LoadedSoFar
<1>2. ASSUME NEW n \in Named, NEW output, IsOutputOf(output, n)
      PROVE  argv[n] \in Files /\ ReadsAs(output.container, output_type, Content[argv[n]])
  <2>1. argv[n] \in Files /\ output_type \in FormatNames
    BY <1>2 DEF IsOutputOf, ProgramInv, ProgramTypes
  <2>2. Content[argv[n]] \in Bytes
    BY <2>1, ProgramAssumption DEF Files, Bytes
  <2> QED  BY <1>2, <2>1, <2>2, CompressedReads DEF IsOutputOf
<1>3. ASSUME NEW k \in Named, OutputName(argv[k], output_type) \in DOMAIN written
      PROVE  ReadsAs(written[OutputName(argv[k], output_type)].container, output_type, Content[argv[k]])
  <2> DEFINE f == OutputName(argv[k], output_type)
  <2>1. PICK n \in Named : f = OutputName(argv[n], output_type) /\ IsOutputOf(written[f], n)
    BY <1>3 DEF ProgramInv, OutputsOfFiles
  <2>2. argv[n] = argv[k]
    <3>1. k \in DOMAIN argv /\ n \in DOMAIN argv /\ argv \in ArgLists /\ output_type \in FormatNames
      BY DEF Named, ProgramInv, ProgramTypes
    <3> QED  BY <2>1, <3>1, OutputNamesAssumption
  <2> HIDE DEF f
  <2>3. ReadsAs(written[f].container, output_type, Content[argv[n]])
    BY <1>2, <2>1
  <2> QED  BY <2>2, <2>3 DEF f
<1>4. ASSUME NEW k \in DOMAIN stdout
      PROVE  \E n \in Named : /\ argv[n] \in Files
                              /\ ReadsAs(stdout[k].container, output_type, Content[argv[n]])
  <2>1. PICK n \in Named : IsOutputOf(stdout[k], n)
    BY StdoutNamed DEF ProgramInv
  <2> QED  BY <1>2, <2>1
<1> HIDE DEF ReadsAs
<1> QED  BY <1>1, <1>3, <1>4 DEF SavedReadsBack

(* LoadFile and ZopfliCompress: fread always has room, the whole file is      *)
(* read, and a reader of the container gets it back.                         *)
THEOREM WhatIsSavedReadsBack == ProgramSpec => []SavedReadsBack
BY ProgramHolds, SavedAsPromised, PTL

(***************************************************************************)
(* zopflipng.                                                              *)
(***************************************************************************)
ImageFile == [valid : BOOLEAN, shown : Nat, hidden : Nat, size : Int]

Types ==
  /\ origpng \in ImageFile /\ result \in ImageFile
  /\ \A f \in DOMAIN disk : disk[f] \in ImageFile
  /\ nth \in Nat \ {0}

(* Files with a prefix are among the inputs, but not worked on if there are  *)
(* others; without a prefix there is one input.                              *)
Inputs ==
  /\ inputs # << >> => settings.stop = "no"
  /\ DOMAIN inputs = 1 .. Len(inputs) /\ Len(inputs) \in Nat
  /\ Len(inputs) > 1 => settings.use_prefix /\ \A k \in DOMAIN inputs : inputs[k][1] \in Nat

(* A file was there before, or was made from an input that is done with.     *)
Kept ==
  \A f \in DOMAIN disk :
    \/ f \in DOMAIN Disk /\ disk[f] = Disk[f]
    \/ /\ settings.stop = "no" /\ ~ settings.dryrun
       /\ \E k \in DOMAIN inputs :
            /\ k < nth /\ f \in OutputsOf(inputs[k])
            /\ disk[f].valid => MadeFrom(disk[f], inputs[k])

(* The image that is worked on is that of the file from before the run.      *)
Working ==
  /\ png_step \in {"choose", "encode", "verify", "save"} =>
       nth \in DOMAIN inputs /\ MadeFrom(origpng, inputs[nth]) /\ origpng.valid
  /\ png_step = "save" => result.valid /\ MadeFrom(result, inputs[nth])

IInv == Types /\ Inputs /\ Kept /\ Working

-----------------------------------------------------------------------------
(* No file that a name to be loaded stands for has been written before.      *)
LEMMA InputIsUntouched ==
  ASSUME IInv, nth \in DOMAIN inputs, ~ AlreadyPrefixed, inputs[nth] \in DOMAIN disk
  PROVE  inputs[nth] \in DOMAIN Disk /\ disk[inputs[nth]] = Disk[inputs[nth]]
<1> DEFINE f == inputs[nth]
<1> SUFFICES ASSUME ~ (f \in DOMAIN Disk /\ disk[f] = Disk[f]) PROVE FALSE
  OBVIOUS
<1>1. PICK k \in DOMAIN inputs : k < nth /\ f \in OutputsOf(inputs[k])
  BY DEF IInv, Kept
<1>2. Len(inputs) > 1 /\ nth \in Nat
  BY <1>1 DEF IInv, Inputs, Types
<1>3. settings.use_prefix /\ f[1] \in Nat /\ inputs[k][1] \in Nat
  BY <1>1, <1>2 DEF IInv, Inputs
<1>4. f[1] = inputs[k][1] + 1
  BY <1>1, <1>3 DEF OutputsOf
<1>5. ~ (f[1] > 0)
  BY <1>2, <1>3 DEF AlreadyPrefixed
<1> QED BY <1>3, <1>4, <1>5

(* A step that writes no file and goes on with the same one.                 *)
LEMMA SameFile ==
  ASSUME IInv, UNCHANGED <<settings, inputs, disk>>, nth' \in Nat \ {0}, nth <= nth',
         origpng' \in ImageFile, result' \in ImageFile
  PROVE  Types' /\ Inputs' /\ Kept'
<1>1. Types'
  BY DEF IInv, Types
<1>2. Inputs'
  BY DEF IInv, Inputs
<1>3. Kept'
  <2> SUFFICES ASSUME NEW f \in DOMAIN disk, ~ (f \in DOMAIN Disk /\ disk[f] = Disk[f])
               PROVE  /\ settings.stop = "no" /\ ~ settings.dryrun
                      /\ \E k \in DOMAIN inputs :
                           /\ k < nth' /\ f \in OutputsOf(inputs[k])
                           /\ disk[f].valid => MadeFrom(disk[f], inputs[k])
    BY DEF Kept, OutputsOf, MadeFrom
  <2>1. /\ settings.stop = "no" /\ ~ settings.dryrun
    BY DEF IInv, Kept
  <2>2. PICK k \in DOMAIN inputs : /\ k < nth /\ f \in OutputsOf(inputs[k])
                                   /\ disk[f].valid => MadeFrom(disk[f], inputs[k])
    BY DEF IInv, Kept
  <2>3. k < nth'
    BY <2>2 DEF IInv, Types, Inputs
  <2> QED BY <2>1, <2>2, <2>3
<1> QED BY <1>1, <1>2, <1>3

(* A step that ends the work on a file without writing one.                  *)
LEMMA NextIsLoaded ==
  ASSUME IInv, NextFile, UNCHANGED <<settings, inputs, disk, origpng>>, result' = result
  PROVE  IInv'
<1>1. nth \in Nat \ {0} /\ nth' = nth + 1 /\ png_step' = "next"
  BY DEF NextFile, IInv, Types
<1>2. Types' /\ Inputs' /\ Kept'
  BY <1>1, SameFile DEF IInv, Types
<1> QED BY <1>1, <1>2 DEF IInv, Working

(* A step of the work on a file that neither ends nor starts it.             *)
LEMMA StillWorking ==
  ASSUME IInv, png_step \in {"choose", "encode", "verify"},
         png_step' \in {"choose", "encode", "verify", "save"},
         UNCHANGED <<settings, inputs, disk, nth, origpng>>, result' \in ImageFile,
         png_step' = "save" => result'.valid /\ MadeFrom(result', inputs[nth])
  PROVE  IInv'
<1>1. nth' \in Nat \ {0} /\ nth <= nth' /\ origpng' \in ImageFile
  BY DEF IInv, Types
<1>2. Types' /\ Inputs' /\ Kept'
  BY <1>1, SameFile
<1>3. Working'
  BY DEF IInv, Working, MadeFrom
<1> QED BY <1>2, <1>3 DEF IInv

LEMMA LoadStep ==
  ASSUME IInv, LoadAndDecode
  PROVE  IInv'
<1>1. /\ nth <= Len(inputs) /\ ~ AlreadyPrefixed /\ inputs[nth] \in DOMAIN disk
      /\ disk[inputs[nth]].valid
      /\ origpng' = disk[inputs[nth]] /\ result' = NoFile
      /\ UNCHANGED <<settings, inputs, disk, nth>>
      /\ png_step' \in {"choose", "encode"}
  BY DEF LoadAndDecode
<1>2. nth \in DOMAIN inputs
  BY <1>1 DEF IInv, Types, Inputs
<1>3. inputs[nth] \in DOMAIN Disk /\ disk[inputs[nth]] = Disk[inputs[nth]]
  BY <1>1, <1>2, InputIsUntouched
<1>4. origpng' \in ImageFile /\ result' \in ImageFile /\ nth \in Nat \ {0}
  BY <1>1 DEF IInv, Types, NoFile, Undecodable, Png, ImageFile
<1>5. Types' /\ Inputs' /\ Kept'
  BY <1>1, <1>4, SameFile
<1>6. Working'
  BY <1>1, <1>2, <1>3 DEF Working, MadeFrom
<1> QED BY <1>5, <1>6 DEF IInv

LEMMA TryStep ==
  ASSUME IInv, NEW e \in 0 .. 1, NEW p \in Pictures, NEW size \in PngSizes,
         TryStrategy(e, Png(p, size))
  PROVE  IInv'
<1>1. /\ png_step = "encode" /\ png_step' = "encode"
      /\ UNCHANGED <<settings, inputs, disk, nth, origpng>>
      /\ result' = result \/ result' = Png(p, size)
  BY DEF TryStrategy
<1>2. Png(p, size) \in ImageFile
  BY ZopfliPNGAssumption DEF Png, ImageFile
<1>3. result' \in ImageFile
  BY <1>1, <1>2 DEF IInv, Types
<1> QED BY <1>1, <1>3, StillWorking

LEMMA AfterStrategiesStep ==
  ASSUME IInv, AfterStrategies
  PROVE  IInv'
<1>1. /\ png_step = "encode" /\ UNCHANGED <<settings, inputs, disk, origpng>>
  BY DEF AfterStrategies
<1>2. CASE error # 0
  <2>1. NextFile /\ result' = result
    BY <1>2 DEF AfterStrategies, FileHasError
  <2> QED BY <1>1, <2>1, NextIsLoaded
<1>3. CASE error = 0
  <2>1. /\ png_step' = "verify" /\ nth' = nth
        /\ \/ result' = result
           \/ result' = [result EXCEPT !.size = @ + ChunksSize]
    BY <1>3 DEF AfterStrategies
  <2>2. result \in ImageFile /\ ChunksSize \in Nat
    BY ZopfliPNGAssumption DEF IInv, Types
  <2>3. result' \in ImageFile
    BY <2>1, <2>2 DEF ImageFile
  <2> QED BY <1>1, <2>1, <2>3, StillWorking
<1> QED BY <1>2, <1>3

LEMMA VerifyStep ==
  ASSUME IInv, VerifyResult
  PROVE  IInv'
<1>1. /\ png_step = "verify" /\ png_step' = "save"
      /\ UNCHANGED <<settings, inputs, disk, nth, origpng>>
      /\ result' = IF Verified(result) THEN result ELSE origpng
  BY DEF VerifyResult
<1>2. MadeFrom(origpng, inputs[nth]) /\ origpng.valid
  BY <1>1 DEF IInv, Working
<1>3. result'.valid /\ MadeFrom(result', inputs[nth])
  BY <1>1, <1>2 DEF Verified, MadeFrom
<1>4. result' \in ImageFile
  BY <1>1 DEF IInv, Types
<1> QED BY <1>1, <1>3, <1>4, StillWorking

(* What is written is the original or the result that was compared with it,  *)
(* or does not decode; and its size is below what it must be.                *)
LEMMA SaveStep ==
  ASSUME IInv, NEW torn \in BOOLEAN, SaveResult(torn)
  PROVE  /\ IInv'
         /\ ~ settings.always_zopflify =>
              /\ disk'[OutFilename].size <= origpng.size
              /\ (OutFilename \in DOMAIN disk
                   /\ (settings.use_prefix \/ OutFilename = inputs[nth])) =>
                   disk'[OutFilename].size < disk[OutFilename].size
<1> DEFINE out == OutFilename
           png == Output(result)
           file == IF torn THEN Undecodable(png.size - 1) ELSE png
<1>1. /\ png_step = "save" /\ ~ KeepEarlierOutput(png) /\ ~ settings.dryrun
      /\ disk' = [f \in DOMAIN disk \cup {out} |-> IF f = out THEN file ELSE disk[f]]
      /\ NextFile
      /\ UNCHANGED <<settings, inputs, origpng, result>>
  BY DEF SaveResult, fileVars
<1>2. /\ nth \in DOMAIN inputs /\ MadeFrom(origpng, inputs[nth]) /\ origpng.valid
      /\ result.valid /\ MadeFrom(result, inputs[nth])
      /\ origpng \in ImageFile /\ result \in ImageFile
  BY <1>1 DEF IInv, Working, Types
<1>3. png \in ImageFile /\ png.valid /\ MadeFrom(png, inputs[nth])
  BY <1>2 DEF Output
<1>4. ~ settings.always_zopflify => png.size <= origpng.size
  BY <1>2 DEF Output, ImageFile
<1>5. ~ settings.always_zopflify /\ out \in DOMAIN disk
        /\ (settings.use_prefix \/ out = inputs[nth]) => png.size < disk[out].size
  <2>1. out \in DOMAIN disk => disk[out] \in ImageFile
    BY DEF IInv, Types
  <2> HIDE DEF out, png
  <2>2. out \in DOMAIN disk => disk[out].size \in Int
    BY <2>1 DEF ImageFile
  <2>3. png.size \in Int
    BY <1>3 DEF ImageFile
  <2>4. ~ KeepEarlierOutput(png) /\ out = OutFilename
    BY <1>1 DEF out
  <2> QED BY <2>2, <2>3, <2>4 DEF KeepEarlierOutput
<1>6. file \in ImageFile /\ file.size <= png.size /\ (file.valid => file = png)
  <2> HIDE DEF png
  <2>1. CASE torn
    BY <2>1, <1>3 DEF ImageFile, Undecodable, Png
  <2>2. CASE ~ torn
    BY <2>2, <1>3 DEF ImageFile
  <2> QED BY <2>1, <2>2
<1> HIDE DEF out, png, file
<1>7. /\ DOMAIN disk' = DOMAIN disk \cup {out} /\ disk'[out] = file
      /\ \A f \in DOMAIN disk : f # out => disk'[f] = disk[f]
  BY <1>1
<1>8. nth \in Nat \ {0} /\ nth' = nth + 1 /\ png_step' = "next"
  BY <1>1 DEF NextFile, IInv, Types
<1>9. Types'
  BY <1>1, <1>6, <1>7, <1>8 DEF IInv, Types
<1>10. Inputs'
  BY <1>1 DEF IInv, Inputs
<1>11. Working'
  BY <1>8 DEF Working
<1>12. settings.stop = "no" /\ out \in OutputsOf(inputs[nth])
  <2>1. inputs # << >>
    BY <1>2
  <2> QED BY <2>1 DEF IInv, Inputs, OutputsOf, OutFilename, out
<1>13. Kept'
  <2> SUFFICES ASSUME NEW f \in DOMAIN disk', ~ (f \in DOMAIN Disk /\ disk'[f] = Disk[f])
               PROVE  /\ settings.stop = "no" /\ ~ settings.dryrun
                      /\ \E k \in DOMAIN inputs :
                           /\ k < nth' /\ f \in OutputsOf(inputs[k])
                           /\ disk'[f].valid => MadeFrom(disk'[f], inputs[k])
    BY <1>1 DEF Kept, OutputsOf, MadeFrom
  <2>1. CASE f = out
    <3>1. nth < nth'
      BY <1>8
    <3>2. disk'[f].valid => MadeFrom(disk'[f], inputs[nth])
      BY <2>1, <1>3, <1>6, <1>7
    <3> QED BY <2>1, <3>1, <3>2, <1>1, <1>2, <1>12
  <2>2. CASE f # out
    <3>1. f \in DOMAIN disk /\ disk'[f] = disk[f]
      BY <2>2, <1>7
    <3>2. PICK k \in DOMAIN inputs : /\ k < nth /\ f \in OutputsOf(inputs[k])
                                     /\ disk[f].valid => MadeFrom(disk[f], inputs[k])
      BY <3>1 DEF IInv, Kept
    <3>3. k < nth'
      BY <3>2, <1>8 DEF IInv, Inputs
    <3> QED BY <3>1, <3>2, <3>3, <1>1, <1>12
  <2> QED BY <2>1, <2>2
<1>14. ASSUME ~ settings.always_zopflify
       PROVE  /\ disk'[out].size <= origpng.size
              /\ (out \in DOMAIN disk /\ (settings.use_prefix \/ out = inputs[nth])) =>
                   disk'[out].size < disk[out].size
  <2>1. file.size \in Int /\ png.size \in Int /\ origpng.size \in Int
    BY <1>2, <1>3, <1>6 DEF ImageFile
  <2>2. out \in DOMAIN disk => disk[out].size \in Int
    BY DEF IInv, Types, ImageFile
  <2> QED BY <2>1, <2>2, <1>4, <1>5, <1>6, <1>7, <1>14
<1> QED BY <1>9, <1>10, <1>11, <1>13, <1>14 DEF IInv, out

-----------------------------------------------------------------------------
LEMMA Initially == InitZopfliPNG => IInv
<1> SUFFICES ASSUME InitZopfliPNG PROVE IInv
  OBVIOUS
<1>1. /\ command \in Commands /\ settings = Parsed(command) /\ disk = Disk /\ nth = 1
      /\ origpng = NoFile /\ result = NoFile /\ png_step \in {"next", "exited"}
  BY DEF InitZopfliPNG
<1>2. inputs = CASE settings.stop # "no" -> << >>
                 [] settings.stop = "no" /\ settings.use_prefix -> settings.files
                 [] OTHER -> <<settings.files[1]>>
  BY DEF InitZopfliPNG
<1>3. settings.files \in Seq(Nat \X STRING)
  BY <1>1, NamesAssumption
<1>4. Types
  <2>1. NoFile \in ImageFile
    BY DEF NoFile, Undecodable, Png, ImageFile
  <2>2. \A f \in DOMAIN Disk : Disk[f] \in ImageFile
    BY ZopfliPNGAssumption DEF ImageFile
  <2> QED BY <1>1, <2>1, <2>2 DEF Types
<1>5. Inputs
  <2>1. CASE settings.stop # "no"
    BY <2>1, <1>2 DEF Inputs
  <2>2. CASE settings.stop = "no" /\ settings.use_prefix
    <3>1. inputs = settings.files
      BY <2>2, <1>2
    <3>2. DOMAIN inputs = 1 .. Len(inputs) /\ Len(inputs) \in Nat
      BY <3>1, <1>3
    <3>3. ASSUME NEW k \in DOMAIN inputs PROVE inputs[k][1] \in Nat
      <4>1. inputs[k] \in Nat \X STRING
        BY <3>1, <3>2, <1>3
      <4> QED BY <4>1
    <3> QED BY <2>2, <3>2, <3>3 DEF Inputs
  <2>3. CASE settings.stop = "no" /\ ~ settings.use_prefix
    <3>1. inputs = <<settings.files[1]>>
      BY <2>3, <1>2
    <3> QED BY <3>1, <2>3 DEF Inputs
  <2> QED BY <2>1, <2>2, <2>3
<1>6. Kept /\ Working
  BY <1>1 DEF Kept, Working
<1> QED BY <1>4, <1>5, <1>6 DEF IInv

LEMMA OtherSteps ==
  ASSUME IInv,
         \/ SkipFile \/ LoadError \/ (\E size \in PngSizes : TryQuickly(size))
         \/ QuickTryFails \/ ChooseFilter \/ NotSaved \/ ReturnErrors
         \/ UNCHANGED zopflipngVars
  PROVE  IInv' /\ disk' = disk
<1>1. CASE LoadError \/ QuickTryFails \/ NotSaved
  BY <1>1, NextIsLoaded DEF LoadError, QuickTryFails, NotSaved, FileHasError, fileVars
<1>2. CASE SkipFile
  <2>1. /\ UNCHANGED <<settings, inputs, disk, origpng, result>> /\ nth' = nth + 1
        /\ png_step' = "next"
    BY <1>2 DEF SkipFile, fileVars
  <2> QED BY <2>1, NextIsLoaded DEF NextFile
<1>3. CASE (\E size \in PngSizes : TryQuickly(size)) \/ ChooseFilter
  <2>1. /\ UNCHANGED <<settings, inputs, disk, nth, origpng, result>>
        /\ png_step = "choose" /\ png_step' \in {"choose", "encode"}
    BY <1>3 DEF TryQuickly, ChooseFilter, fileVars
  <2> QED BY <2>1, StillWorking DEF IInv, Types
<1>4. CASE ReturnErrors \/ UNCHANGED zopflipngVars
  <2>1. UNCHANGED <<settings, inputs, disk, nth, origpng, result>>
    BY <1>4 DEF ReturnErrors, fileVars, zopflipngVars
  <2>2. png_step' = "exited" \/ png_step' = png_step
    BY <1>4 DEF ReturnErrors, zopflipngVars
  <2>3. Types' /\ Inputs' /\ Kept'
    BY <2>1, SameFile DEF IInv, Types
  <2>4. Working'
    BY <2>1, <2>2 DEF IInv, Working, MadeFrom
  <2> QED BY <2>1, <2>3, <2>4 DEF IInv
<1> QED BY <1>1, <1>2, <1>3, <1>4

(* The invariant that the theorems below rest on.                            *)
THEOREM Invariant == ZopfliPNGSpec => []IInv
<1>1. IInv /\ [ZopfliPNGNext]_zopflipngVars => IInv'
  BY LoadStep, TryStep, AfterStrategiesStep, VerifyStep, SaveStep, OtherSteps
     DEF ZopfliPNGNext, ZopfliPNGEnded
<1> QED BY Initially, <1>1, PTL DEF ZopfliPNGSpec

(* main of zopflipng_bin.cc: whatever the encoder gives and whatever fails,  *)
(* a file that decodes shows what it did, or what its input showed.          *)
THEOREM NoFileIsLost == ZopfliPNGSpec => []FilesKept
<1>1. IInv => FilesKept
  BY DEF IInv, Kept, FilesKept
<1> QED BY Invariant, <1>1, PTL

(* main of zopflipng_bin.cc: nothing is written that is larger than its      *)
(* input, or not smaller than the earlier output it replaces.                *)
THEOREM NoFileGrows == ZopfliPNGSpec => NeverLarger
<1> DEFINE Smaller ==
      disk' # disk /\ ~ settings.always_zopflify =>
        /\ disk'[OutFilename].size <= origpng.size
        /\ OutFilename \in DOMAIN disk /\ (settings.use_prefix \/ OutFilename = inputs[nth]) =>
             disk'[OutFilename].size < disk[OutFilename].size
<1>1. IInv /\ [ZopfliPNGNext]_zopflipngVars => [Smaller]_disk
  <2> SUFFICES ASSUME IInv, [ZopfliPNGNext]_zopflipngVars, disk' # disk PROVE Smaller
    OBVIOUS
  <2>1. PICK torn \in BOOLEAN : SaveResult(torn)
    BY OtherSteps DEF ZopfliPNGNext, ZopfliPNGEnded, LoadAndDecode, TryStrategy,
                      AfterStrategies, VerifyResult
  <2> QED BY <2>1, SaveStep
<1> QED BY Invariant, <1>1, PTL DEF ZopfliPNGSpec, NeverLarger
(***************************************************************************)
(* The encoder behind it: the chunks that are taken over.                  *)
(***************************************************************************)

(* The marked members of a sequence, as steps that begin with no member.     *)
MarkedBy(f, s, marks) ==
  f = [n \in 0 .. Len(s) |->
         IF n = 0 THEN << >> ELSE IF marks[n] THEN Append(f[n - 1], s[n]) ELSE f[n - 1]]

LEMMA MarkedIs ==
  ASSUME NEW T, NEW s \in Seq(T), NEW marks
  PROVE  \E f : /\ MarkedBy(f, s, marks) /\ Marked(s, marks) = f[Len(s)]
                /\ \A n \in 0 .. Len(s) : f[n] \in Seq(T)
<1> DEFINE m == Len(s)
           kept == CHOOSE f : MarkedBy(f, s, marks)
           step == [z \in (1 .. m) \X Seq(T) |->
                      IF marks[z[1]] THEN Append(z[2], s[z[1]]) ELSE z[2]]
           P == [n \in 0 .. m |-> Seq(T)]
           R == {n \in 0 .. m : kept[n] \in Seq(T)}
<1>1. m \in Nat /\ << >> \in P[0] /\ \A n \in 1 .. m : s[n] \in T
  OBVIOUS
<1>2. ASSUME NEW n \in 1 .. m, NEW x \in Seq(T)
      PROVE  /\ step[<<n, x>>] = (IF marks[n] THEN Append(x, s[n]) ELSE x)
             /\ step[<<n, x>>] \in Seq(T)
  BY <1>1
<1>3. \A n \in 0 .. m : P[n] = Seq(T)
  OBVIOUS
<1>3a. Marked(s, marks) = kept[m]
  BY DEF Marked, MarkedBy
<1> HIDE DEF step, P, kept
<1>4. Leads(step, P, m)
  <2> SUFFICES ASSUME NEW n \in 1 .. m, NEW x \in P[n - 1] PROVE step[<<n, x>>] \in P[n]
    BY DEF Leads
  <2>1. P[n - 1] = Seq(T) /\ P[n] = Seq(T)
    BY <1>1, <1>3
  <2> QED  BY <2>1, <1>2
<1>5. PICK f : StepsWithin(f, << >>, step, P, m)
  BY <1>1, <1>4, StepsAreThere
<1>6. MarkedBy(f, s, marks)
  <2>1. ASSUME NEW n \in 0 .. m, n # 0
        PROVE  step[<<n, f[n - 1]>>] = (IF marks[n] THEN Append(f[n - 1], s[n]) ELSE f[n - 1])
    <3>1. n \in 1 .. m /\ n - 1 \in 0 .. m
      BY <1>1, <2>1
    <3>2. f[n - 1] \in Seq(T)
      BY <3>1, <1>3, <1>5 DEF StepsWithin
    <3> QED  BY <3>1, <3>2, <1>2
  <2> QED  BY <2>1, <1>5 DEF StepsWithin, MarkedBy
<1>7. MarkedBy(kept, s, marks)
  BY <1>6 DEF kept
<1>8. 0 \in R
  BY <1>1, <1>7 DEF MarkedBy
<1>9. ASSUME NEW n \in 0 .. m - 1, n \in R PROVE n + 1 \in R
  <2>1. n + 1 \in 0 .. m /\ n + 1 \in 1 .. m /\ (n + 1) - 1 = n
    BY <1>1
  <2>2. kept[n + 1] = Append(kept[n], s[n + 1]) \/ kept[n + 1] = kept[n]
    <3>1. ASSUME NEW k \in 1 .. m
          PROVE  kept[k] = Append(kept[k - 1], s[k]) \/ kept[k] = kept[k - 1]
      <4>1. k \in 0 .. Len(s) /\ k # 0
        BY <1>1
      <4>2. kept[k] = IF k = 0 THEN << >>
                     ELSE IF marks[k] THEN Append(kept[k - 1], s[k]) ELSE kept[k - 1]
        BY ONLY <4>1, <1>7, Zenon DEF MarkedBy
      <4> QED  BY ONLY <4>1, <4>2
    <3> QED  BY ONLY <2>1, <3>1
  <2>3. kept[n] \in Seq(T) /\ s[n + 1] \in T
    BY <1>1, <1>9, <2>1
  <2>4. kept[n + 1] \in Seq(T)
    <3>1. \A x \in Seq(T), y \in T : Append(x, y) \in Seq(T)
      OBVIOUS
    <3> QED  BY ONLY <2>2, <2>3, <3>1, Zenon
  <2> QED  BY <2>1, <2>4
<1>10. \A n \in 0 .. m : n \in R
  <2> HIDE DEF R
  <2> QED  BY <1>1, <1>8, <1>9, UpTo
<1> QED  BY <1>3a, <1>7, <1>10

(* Members of a sequence that are in a set.                                  *)
Within(s, M) == Marked(s, [k \in DOMAIN s |-> s[k] \in M])

LEMMA WithinNothing == ASSUME NEW M PROVE Within(<< >>, M) = << >>
<1>1. << >> \in Seq({}) /\ Len(<< >>) = 0
  OBVIOUS
<1>2. PICK f : /\ MarkedBy(f, << >>, [k \in DOMAIN << >> |-> << >>[k] \in M])
               /\ Within(<< >>, M) = f[0]
  BY <1>1, MarkedIs DEF Within
<1> QED  BY <1>1, <1>2 DEF MarkedBy

LEMMA WithinAppend ==
  ASSUME NEW T, NEW s \in Seq(T), NEW x \in T, NEW M
  PROVE  /\ Within(s, M) \in Seq(T)
         /\ x \in M => Within(Append(s, x), M) = Append(Within(s, M), x)
         /\ x \notin M => Within(Append(s, x), M) = Within(s, M)
<1> DEFINE t == Append(s, x)
           m == Len(s)
<1>1. /\ m \in Nat /\ t \in Seq(T) /\ Len(t) = m + 1 /\ t[m + 1] = x
      /\ \A n \in 1 .. m : t[n] = s[n]
  OBVIOUS
<1> HIDE DEF t
<1>2. PICK f : /\ MarkedBy(f, s, [k \in DOMAIN s |-> s[k] \in M]) /\ Within(s, M) = f[m]
               /\ \A n \in 0 .. m : f[n] \in Seq(T)
  BY MarkedIs DEF Within
<1>3. PICK g : MarkedBy(g, t, [k \in DOMAIN t |-> t[k] \in M]) /\ Within(t, M) = g[m + 1]
  <2>1. PICK g : MarkedBy(g, t, [k \in DOMAIN t |-> t[k] \in M]) /\ Within(t, M) = g[Len(t)]
    BY <1>1, MarkedIs DEF Within
  <2> QED  BY <1>1, <2>1
<1> DEFINE Same == {n \in 0 .. m : g[n] = f[n]}
<1>4. 0 \in Same
  BY <1>1, <1>2, <1>3 DEF MarkedBy
<1>5. ASSUME NEW n \in 0 .. m, (n + 1 \in 1 .. Len(s)) \/ n = m
      PROVE  g[n + 1] = IF t[n + 1] \in M THEN Append(g[n], t[n + 1]) ELSE g[n]
  <2>1. n + 1 \in 0 .. Len(t) /\ n + 1 # 0 /\ (n + 1) - 1 = n /\ n + 1 \in DOMAIN t
    BY <1>1
  <2> QED  BY <2>1, <1>3 DEF MarkedBy
<1>6. ASSUME NEW n \in 0 .. m - 1, n \in Same PROVE n + 1 \in Same
  <2>1. n + 1 \in 0 .. m /\ n + 1 # 0 /\ (n + 1) - 1 = n /\ n + 1 \in DOMAIN s /\ n \in 0 .. m
    BY <1>1
  <2>2. f[n + 1] = IF s[n + 1] \in M THEN Append(f[n], s[n + 1]) ELSE f[n]
    BY <2>1, <1>2 DEF MarkedBy
  <2>3. g[n + 1] = IF t[n + 1] \in M THEN Append(g[n], t[n + 1]) ELSE g[n]
    BY <1>5, <2>1
  <2>4. t[n + 1] = s[n + 1] /\ g[n] = f[n]
    BY <1>1, <1>6, <2>1
  <2> QED  BY <2>1, <2>2, <2>3, <2>4
<1>7. \A n \in 0 .. m : n \in Same
  <2> HIDE DEF Same
  <2> QED  BY <1>1, <1>4, <1>6, UpTo
<1>8. g[m] = f[m] /\ g[m + 1] = IF x \in M THEN Append(g[m], x) ELSE g[m]
  BY <1>1, <1>5, <1>7
<1> QED  BY <1>1, <1>2, <1>3, <1>8 DEF t

(* The first members of a sequence.                                          *)
First(s, n) == SubSeq(s, 1, n)

LEMMA FirstIs ==
  ASSUME NEW T, NEW s \in Seq(T)
  PROVE  /\ First(s, 0) = << >> /\ First(s, Len(s)) = s
         /\ \A n \in 0 .. Len(s) : /\ First(s, n) \in Seq(T) /\ Len(First(s, n)) = n
                                   /\ \A k \in 1 .. n : First(s, n)[k] = s[k]
         /\ \A n \in 0 .. Len(s) - 1 : First(s, n + 1) = Append(First(s, n), s[n + 1])
                                       /\ s[n + 1] \in T
<1>1. First(s, 0) = << >> /\ First(s, Len(s)) = s
  BY DEF First
<1>2. \A n \in 0 .. Len(s) : /\ First(s, n) \in Seq(T) /\ Len(First(s, n)) = n
                             /\ \A k \in 1 .. n : First(s, n)[k] = s[k]
  BY DEF First
<1>3. ASSUME NEW n \in 0 .. Len(s) - 1
      PROVE  First(s, n + 1) = Append(First(s, n), s[n + 1]) /\ s[n + 1] \in T
  <2>1. n \in Nat /\ n + 1 \in 0 .. Len(s) /\ n \in 0 .. Len(s) /\ n + 1 \in 1 .. Len(s)
    OBVIOUS
  <2>2. s[n + 1] \in T
    BY <2>1
  <2> DEFINE a == First(s, n + 1)
             b == Append(First(s, n), s[n + 1])
  <2>3. a \in Seq(T) /\ Len(a) = n + 1 /\ \A k \in 1 .. n + 1 : a[k] = s[k]
    BY <1>2, <2>1
  <2>4. First(s, n) \in Seq(T) /\ Len(First(s, n)) = n /\ \A k \in 1 .. n : First(s, n)[k] = s[k]
    BY <1>2, <2>1
  <2>5. b \in Seq(T) /\ Len(b) = n + 1 /\ b[n + 1] = s[n + 1] /\ \A k \in 1 .. n : b[k] = s[k]
    BY <2>1, <2>2, <2>4
  <2> HIDE DEF a, b
  <2>6. \A k \in 1 .. n + 1 : a[k] = b[k]
    <3>1. \A k \in 1 .. n + 1 : k \in 1 .. n \/ k = n + 1
      BY ONLY <2>1
    <3>2. n + 1 \in 1 .. n + 1
      BY ONLY <2>1
    <3>3. \A k \in 1 .. n : a[k] = b[k]
      BY ONLY <2>3, <2>5, <2>1
    <3> QED  BY ONLY <2>3, <2>5, <3>1, <3>2, <3>3
  <2>7. a = b
    BY <2>3, <2>5, <2>6, SeqEqual
  <2> QED  BY <2>2, <2>7 DEF a, b
<1> QED  BY <1>1, <1>2, <1>3

LEMMA AppendIsSeq == \A T : \A x \in Seq(T), y \in T : Append(x, y) \in Seq(T)
OBVIOUS

LEMMA ConcatAppend ==
  \A T : \A x \in Seq(T), y \in Seq(T), z \in T : x \o Append(y, z) = Append(x \o y, z)
OBVIOUS

LEMMA ConcatIsSeq == \A T : \A x \in Seq(T), y \in Seq(T) : x \o y \in Seq(T)
OBVIOUS

Three(T, x, y, z) == x \in Seq(T) /\ y \in Seq(T) /\ z \in Seq(T)
LEMMA Associate == \A T, x, y, z : Three(T, x, y, z) => (x \o y) \o z = x \o (y \o z)
BY DEF Three

WithinBoth(T, s, t, M) ==
  Within(s \o t, M) = Within(s, M) \o Within(t, M) /\ Within(s, M) \in Seq(T)
LEMMA WithinConcat ==
  ASSUME NEW T, NEW s \in Seq(T), NEW t \in Seq(T), NEW M
  PROVE  WithinBoth(T, s, t, M)
<1> DEFINE m == Len(t)
           Split == {n \in 0 .. m : /\ Within(s \o First(t, n), M)
                                         = Within(s, M) \o Within(First(t, n), M)
                                    /\ Within(First(t, n), M) \in Seq(T)}
<1>1. m \in Nat
  OBVIOUS
<1>2. ASSUME NEW r \in Seq(T) PROVE Within(r, M) \in Seq(T)
  <2>1. CASE T = {}
    <3>1. r = << >>
      BY <2>1
    <3> QED  BY <3>1, WithinNothing
  <2>2. CASE T # {}
    BY <2>2, WithinAppend
  <2> QED  BY <2>1, <2>2
<1> HIDE DEF Split
<1>2a. \A r \in Seq(T), x \in T : /\ x \in M => Within(Append(r, x), M) = Append(Within(r, M), x)
                                  /\ x \notin M => Within(Append(r, x), M) = Within(r, M)
  <2> SUFFICES ASSUME NEW r \in Seq(T), NEW x \in T
               PROVE  /\ x \in M => Within(Append(r, x), M) = Append(Within(r, M), x)
                      /\ x \notin M => Within(Append(r, x), M) = Within(r, M)
    OBVIOUS
  <2>1. ASSUME x \in M PROVE Within(Append(r, x), M) = Append(Within(r, M), x)
    BY <2>1, WithinAppend
  <2>2. ASSUME x \notin M PROVE Within(Append(r, x), M) = Within(r, M)
    BY <2>2, WithinAppend
  <2> QED  BY <2>1, <2>2
<1>3. 0 \in Split
  <2>1. First(t, 0) = << >> /\ s \o << >> = s
    BY FirstIs
  <2>2. Within(s, M) \o << >> = Within(s, M)
    BY <1>2
  <2>3. Within(s \o First(t, 0), M) = Within(s, M) \o Within(First(t, 0), M)
    <3>1. Within(s \o << >>, M) = Within(s, M) /\ Within(<< >>, M) = << >>
      BY <2>1, WithinNothing
    <3> QED  BY ONLY <2>1, <2>2, <3>1
  <2>4. Within(First(t, 0), M) \in Seq(T)
    <3>1. << >> \in Seq(T) /\ Within(<< >>, M) = << >>
      BY WithinNothing
    <3> QED  BY ONLY <2>1, <3>1
  <2> QED  BY <1>1, <2>3, <2>4 DEF Split
<1>4. ASSUME NEW n \in 0 .. m - 1, n \in Split PROVE n + 1 \in Split
  <2> DEFINE a == First(t, n)
             x == t[n + 1]
  <2>1. n + 1 \in 0 .. m /\ n \in 0 .. m
    BY <1>1
  <2>2. First(t, n + 1) = Append(a, x) /\ x \in T /\ a \in Seq(T)
    BY <2>1, FirstIs
  <2>3. Within(s \o a, M) = Within(s, M) \o Within(a, M)
    BY <1>4 DEF Split
  <2> HIDE DEF a, x
  <2>4. s \o Append(a, x) = Append(s \o a, x) /\ s \o a \in Seq(T)
    BY <2>2
  <2>5. Within(s, M) \in Seq(T) /\ Within(a, M) \in Seq(T)
    BY <1>2, <2>2
  <2>6. Within(s \o Append(a, x), M) = Within(s, M) \o Within(Append(a, x), M)
    <3>1. CASE x \in M
      <4>1. Within(Append(s \o a, x), M) = Append(Within(s \o a, M), x)
        BY ONLY <1>2a, <2>2, <2>4, <3>1
      <4>2. Within(Append(a, x), M) = Append(Within(a, M), x)
        BY <2>2, <3>1, WithinAppend
      <4>3. Within(s, M) \o Append(Within(a, M), x) = Append(Within(s, M) \o Within(a, M), x)
        BY <2>2, <2>5, ConcatAppend
      <4> QED  BY <2>3, <2>4, <4>1, <4>2, <4>3
    <3>2. CASE x \notin M
      <4>1. Within(Append(s \o a, x), M) = Within(s \o a, M)
        BY ONLY <1>2a, <2>2, <2>4, <3>2
      <4>2. Within(Append(a, x), M) = Within(a, M)
        BY <2>2, <3>2, WithinAppend
      <4> QED  BY <2>3, <2>4, <4>1, <4>2
    <3> QED  BY <3>1, <3>2
  <2>7. Within(Append(a, x), M) \in Seq(T)
    <3>1. Append(a, x) \in Seq(T)
      BY <2>2
    <3> QED  BY <1>2, <3>1
  <2> QED  BY <2>1, <2>2, <2>6, <2>7 DEF Split
<1> HIDE DEF m
<1>5. m \in Split
  <2>1. \A n \in 0 .. m : n \in Split
    BY <1>1, <1>3, <1>4, UpTo
  <2> QED  BY <1>1, <2>1
<1>6. First(t, m) = t
  BY FirstIs DEF m
<1> QED  BY <1>2, <1>5, <1>6 DEF Split, WithinBoth

LEMMA WithinAll == ASSUME NEW M, NEW s \in Seq(M) PROVE Within(s, M) = s
<1> DEFINE m == Len(s)
           done == {n \in 0 .. m : Within(First(s, n), M) = First(s, n)}
<1>1. m \in Nat
  OBVIOUS
<1> HIDE DEF m
<1>2. 0 \in done
  <2>1. First(s, 0) = << >>
    BY FirstIs
  <2> QED  BY <1>1, <2>1, WithinNothing
<1>3. ASSUME NEW n \in 0 .. m - 1, n \in done PROVE n + 1 \in done
  <2> DEFINE a == First(s, n)
             x == s[n + 1]
  <2>1. First(s, n + 1) = Append(a, x) /\ x \in M
    BY FirstIs DEF m
  <2>2. a \in Seq(M) /\ Within(a, M) = a /\ n + 1 \in 0 .. m
    BY <1>1, <1>3, FirstIs DEF m
  <2> HIDE DEF a, x, done
  <2>3. Within(Append(a, x), M) = Append(Within(a, M), x)
    BY <2>1, <2>2, WithinAppend
  <2>4. Within(First(s, n + 1), M) = First(s, n + 1)
    BY ONLY <2>1, <2>2, <2>3
  <2> QED  BY <2>2, <2>4 DEF done
<1> HIDE DEF done
<1>4. \A n \in 0 .. m : n \in done
  BY <1>1, <1>2, <1>3, UpTo
<1>5. m \in done /\ First(s, m) = s
  BY <1>1, <1>4, FirstIs DEF m
<1> QED  BY <1>5 DEF done

LEMMA WithinNone ==
  ASSUME NEW T, NEW s \in Seq(T), NEW M, T \cap M = {} PROVE Within(s, M) = << >>
<1> DEFINE m == Len(s)
           done == {n \in 0 .. m : Within(First(s, n), M) = << >>}
<1>1. m \in Nat
  OBVIOUS
<1> HIDE DEF m
<1>2. 0 \in done
  <2>1. First(s, 0) = << >>
    BY FirstIs
  <2> QED  BY <1>1, <2>1, WithinNothing
<1>3. ASSUME NEW n \in 0 .. m - 1, n \in done PROVE n + 1 \in done
  <2> DEFINE a == First(s, n)
             x == s[n + 1]
  <2>1. First(s, n + 1) = Append(a, x) /\ x \in T
    BY FirstIs DEF m
  <2>2. a \in Seq(T) /\ Within(a, M) = << >> /\ n + 1 \in 0 .. m
    BY <1>1, <1>3, FirstIs DEF m
  <2> HIDE DEF a, x, done
  <2>3. x \notin M
    BY <2>1
  <2>4. Within(Append(a, x), M) = Within(a, M)
    BY <2>1, <2>2, <2>3, WithinAppend
  <2>5. Within(First(s, n + 1), M) = << >>
    BY ONLY <2>1, <2>2, <2>4
  <2> QED  BY <2>2, <2>5 DEF done
<1> HIDE DEF done
<1>4. \A n \in 0 .. m : n \in done
  BY <1>1, <1>2, <1>3, UpTo
<1>5. m \in done /\ First(s, m) = s
  BY <1>1, <1>4, FirstIs DEF m
<1> QED  BY <1>5 DEF done

LEMMA WithinIs == ASSUME NEW T, NEW s \in Seq(T), NEW M PROVE Within(s, M) \in Seq(T \cap M)
<1> DEFINE m == Len(s)
           done == {n \in 0 .. m : Within(First(s, n), M) \in Seq(T \cap M)}
<1>1. m \in Nat
  OBVIOUS
<1> HIDE DEF m
<1>2. 0 \in done
  <2>1. First(s, 0) = << >>
    BY FirstIs
  <2>2. Within(<< >>, M) = << >> /\ << >> \in Seq(T \cap M)
    BY WithinNothing
  <2>3. Within(First(s, 0), M) \in Seq(T \cap M)
    BY ONLY <2>1, <2>2
  <2> QED  BY <1>1, <2>3
<1>3. ASSUME NEW n \in 0 .. m - 1, n \in done PROVE n + 1 \in done
  <2> DEFINE a == First(s, n)
             x == s[n + 1]
  <2>1. First(s, n + 1) = Append(a, x) /\ x \in T
    BY FirstIs DEF m
  <2>2. a \in Seq(T) /\ n + 1 \in 0 .. m
    BY <1>1, FirstIs DEF m
  <2>2a. Within(a, M) \in Seq(T \cap M)
    BY <1>3
  <2> HIDE DEF a, x, done
  <2>3. CASE x \in M
    <3>1. Within(Append(a, x), M) = Append(Within(a, M), x) /\ x \in T \cap M
      BY <2>1, <2>2, <2>3, WithinAppend
    <3>2. Append(Within(a, M), x) \in Seq(T \cap M)
      BY <2>2a, <3>1, AppendIsSeq
    <3> QED  BY <2>1, <2>2, <3>1, <3>2 DEF done
  <2>4. CASE x \notin M
    <3>1. Within(Append(a, x), M) = Within(a, M)
      BY <2>1, <2>2, <2>4, WithinAppend
    <3> QED  BY <2>1, <2>2, <2>2a, <3>1 DEF done
  <2> QED  BY <2>3, <2>4
<1> HIDE DEF done
<1>4. \A n \in 0 .. m : n \in done
  BY <1>1, <1>2, <1>3, UpTo
<1>5. m \in done /\ First(s, m) = s
  BY <1>1, <1>4, FirstIs DEF m
<1> QED  BY <1>5 DEF done

-----------------------------------------------------------------------------
(* Where chunks are found.                                                   *)
Located(T) == [chunks : [1 .. 3 -> Seq(T)], location : 1 .. 3, ended : BOOLEAN]

LEMMA AddChunkIs ==
  ASSUME NEW T, NEW s \in Located(T), NEW c \in T
  PROVE  /\ AddChunk(s, c) \in Located(T)
         /\ s.ended => AddChunk(s, c) = s
         /\ ~ s.ended /\ c.name = "IEND" =>
              AddChunk(s, c).ended /\ AddChunk(s, c).chunks = s.chunks
         /\ ~ s.ended /\ c.name \in {"IHDR", "PLTE", "IDAT"} =>
              /\ ~ AddChunk(s, c).ended /\ AddChunk(s, c).chunks = s.chunks
              /\ AddChunk(s, c).location = LocationAfter(s.location, c.name)
         /\ ~ s.ended /\ c.name \notin {"IHDR", "PLTE", "IDAT", "IEND"} =>
              /\ ~ AddChunk(s, c).ended /\ AddChunk(s, c).location = s.location
              /\ AddChunk(s, c).chunks[s.location] = Append(s.chunks[s.location], c)
              /\ \A l \in 1 .. 3 : l # s.location => AddChunk(s, c).chunks[l] = s.chunks[l]
<1> DEFINE new == AddChunk(s, c)
<1>1. /\ s.chunks \in [1 .. 3 -> Seq(T)] /\ s.location \in 1 .. 3 /\ s.ended \in BOOLEAN
      /\ s = [chunks |-> s.chunks, location |-> s.location, ended |-> s.ended]
  BY DEF Located
<1>2. CASE s.ended
  BY <1>2 DEF AddChunk
<1>3. CASE ~ s.ended /\ c.name = "IEND"
  <2>1. new = [s EXCEPT !.ended = TRUE]
    BY <1>3 DEF AddChunk
  <2>2. new = [chunks |-> s.chunks, location |-> s.location, ended |-> TRUE]
    BY <1>1, <2>1
  <2> HIDE DEF new
  <2>3. new \in Located(T)
    BY <1>1, <2>2 DEF Located
  <2> QED  BY <1>3, <2>2, <2>3 DEF new
<1>4. CASE ~ s.ended /\ c.name \in {"IHDR", "PLTE", "IDAT"}
  <2>1. new = [s EXCEPT !.location = LocationAfter(@, c.name)]
    BY <1>4 DEF AddChunk
  <2>2. new = [chunks |-> s.chunks, location |-> LocationAfter(s.location, c.name), ended |-> FALSE]
    BY <1>1, <1>4, <2>1
  <2>3. LocationAfter(s.location, c.name) \in 1 .. 3
    BY <1>4 DEF LocationAfter
  <2> HIDE DEF new
  <2>4. new \in Located(T)
    BY <1>1, <2>2, <2>3 DEF Located
  <2> QED  BY <1>4, <2>2, <2>4 DEF new
<1>5. CASE ~ s.ended /\ c.name \notin {"IHDR", "PLTE", "IDAT", "IEND"}
  <2> DEFINE chunks == [s.chunks EXCEPT ![s.location] = Append(@, c)]
  <2>1. new = [s EXCEPT !.chunks[s.location] = Append(@, c)]
    BY <1>5 DEF AddChunk
  <2>2. new = [chunks |-> chunks, location |-> s.location, ended |-> FALSE]
    BY <1>1, <1>5, <2>1
  <2>3. Append(s.chunks[s.location], c) \in Seq(T)
    BY <1>1, AppendIsSeq
  <2>4. /\ chunks \in [1 .. 3 -> Seq(T)]
        /\ chunks[s.location] = Append(s.chunks[s.location], c)
        /\ \A l \in 1 .. 3 : l # s.location => chunks[l] = s.chunks[l]
    BY <1>1, <2>3
  <2> HIDE DEF new, chunks
  <2>5. new \in Located(T)
    BY <1>1, <2>2, <2>4 DEF Located
  <2> QED  BY <1>5, <2>2, <2>4, <2>5 DEF new
<1> QED  BY <1>1, <1>2, <1>3, <1>4, <1>5

LocatedBy(g, file) ==
  g = [n \in 0 .. Len(file) |-> IF n = 0 THEN NoChunks ELSE AddChunk(g[n - 1], file[n])]

LEMMA GetChunksIs ==
  ASSUME NEW T, NEW file \in Seq(T)
  PROVE  \E g : /\ LocatedBy(g, file) /\ GetChunks(file) = g[Len(file)].chunks
                /\ \A n \in 0 .. Len(file) : g[n] \in Located(T)
<1> DEFINE m == Len(file)
           found == CHOOSE g : LocatedBy(g, file)
           step == [z \in (1 .. m) \X Located(T) |-> AddChunk(z[2], file[z[1]])]
           P == [n \in 0 .. m |-> Located(T)]
           R == {n \in 0 .. m : found[n] \in Located(T)}
<1>1. m \in Nat /\ \A n \in 1 .. m : file[n] \in T
  OBVIOUS
<1>1a. NoChunks \in Located(T)
  <2>1. <<<< >>, << >>, << >>>> \in [1 .. 3 -> Seq(T)]
    <3>1. << >> \in Seq(T)
      OBVIOUS
    <3>2. \A x \in Seq(T) : <<x, x, x>> \in [1 .. 3 -> Seq(T)]
      OBVIOUS
    <3> QED  BY <3>1, <3>2
  <2> QED  BY <2>1 DEF NoChunks, Located
<1>2. ASSUME NEW n \in 1 .. m, NEW x \in Located(T)
      PROVE  step[<<n, x>>] = AddChunk(x, file[n]) /\ step[<<n, x>>] \in Located(T)
  <2>1. step[<<n, x>>] = AddChunk(x, file[n])
    OBVIOUS
  <2> HIDE DEF step
  <2> QED  BY <1>1, <2>1, AddChunkIs
<1>3. \A n \in 0 .. m : P[n] = Located(T)
  OBVIOUS
<1>3a. GetChunks(file) = found[m].chunks
  BY DEF GetChunks, LocatedBy
<1> HIDE DEF step, P, found
<1>4. Leads(step, P, m)
  <2> SUFFICES ASSUME NEW n \in 1 .. m, NEW x \in P[n - 1] PROVE step[<<n, x>>] \in P[n]
    BY DEF Leads
  <2>1. P[n - 1] = Located(T) /\ P[n] = Located(T)
    BY <1>1, <1>3
  <2> QED  BY <2>1, <1>2
<1>5. PICK g : StepsWithin(g, NoChunks, step, P, m)
  <2>1. NoChunks \in P[0]
    BY <1>1, <1>1a, <1>3
  <2> QED  BY <1>1, <2>1, <1>4, StepsAreThere
<1>6. LocatedBy(g, file)
  <2>1. ASSUME NEW n \in 0 .. m, n # 0 PROVE step[<<n, g[n - 1]>>] = AddChunk(g[n - 1], file[n])
    <3>1. n \in 1 .. m /\ n - 1 \in 0 .. m
      BY <1>1, <2>1
    <3>2. g[n - 1] \in Located(T)
      BY <3>1, <1>3, <1>5 DEF StepsWithin
    <3> QED  BY <3>1, <3>2, <1>2
  <2> QED  BY <2>1, <1>5 DEF StepsWithin, LocatedBy
<1>7. LocatedBy(found, file)
  BY <1>6 DEF found
<1>8. 0 \in R
  BY <1>1, <1>1a, <1>7 DEF LocatedBy
<1>9. ASSUME NEW n \in 0 .. m - 1, n \in R PROVE n + 1 \in R
  <2>1. n + 1 \in 0 .. m /\ n + 1 \in 1 .. m /\ (n + 1) - 1 = n /\ n + 1 # 0
    BY <1>1
  <2>2. found[n + 1] = AddChunk(found[n], file[n + 1])
    BY <2>1, <1>7 DEF LocatedBy
  <2>3. found[n] \in Located(T) /\ file[n + 1] \in T
    BY <1>1, <1>9, <2>1
  <2>4. found[n + 1] \in Located(T)
    BY <2>2, <2>3, AddChunkIs
  <2> QED  BY <2>1, <2>4
<1>10. \A n \in 0 .. m : n \in R
  <2> HIDE DEF R
  <2> QED  BY <1>1, <1>8, <1>9, UpTo
<1> QED  BY <1>3a, <1>7, <1>10

(* The chunks of a file up to a place, sorted by the chunks that divide them.*)
Has(file, n, name) == \E k \in 1 .. n : file[k].name = name
Kind(s, M, l) == Within(s.chunks[l], M)
Divided(file) ==
  /\ \A k \in 2 .. Len(file) : file[k].name # "IHDR"
  /\ \A k, n \in 1 .. Len(file) :
       k < n /\ file[n].name = "PLTE" => file[k].name \notin {"PLTE", "IDAT"}
PlaceAt(file, n) == IF Has(file, n, "IDAT") THEN 3 ELSE IF Has(file, n, "PLTE") THEN 2 ELSE 1
SortedTo(s, file, M, n) ==
  /\ Kind(s, M, 1) \o Kind(s, M, 2) \o Kind(s, M, 3) = Within(First(file, n), M)
  /\ s.location < 2 => Kind(s, M, 2) = << >>
  /\ s.location < 3 => Kind(s, M, 3) = << >>
  /\ \A p \in 1 .. n : file[p].name = "PLTE" => Kind(s, M, 1) = Within(First(file, p - 1), M)
  /\ \A d \in 1 .. n : file[d].name = "IDAT" /\ ~ Has(file, d - 1, "IDAT") =>
       Kind(s, M, 1) \o Kind(s, M, 2) = Within(First(file, d - 1), M)
PlacedTo(s, file, M, n) ==
  ~ s.ended /\ s.location = PlaceAt(file, n) /\ SortedTo(s, file, M, n)

LEMMA KindIs ==
  ASSUME NEW T, NEW s \in Located(T), NEW M, NEW l \in 1 .. 3
  PROVE  Kind(s, M, l) \in Seq(T)
<1>1. s.chunks[l] \in Seq(T)
  BY DEF Located
<1>2. WithinBoth(T, s.chunks[l], s.chunks[l], M)
  BY <1>1, WithinConcat
<1> QED  BY <1>2 DEF Kind, WithinBoth

(* A chunk that divides.                                                     *)
LEMMA PlacedAfterDivider ==
  ASSUME NEW T, NEW file \in Seq(T), Divided(file), NEW M, NEW n \in 0 .. Len(file) - 1,
         NEW s \in Located(T), PlacedTo(s, file, M, n), file[n + 1] \notin M,
         file[n + 1].name \in {"IHDR", "PLTE", "IDAT"}
  PROVE  PlacedTo(AddChunk(s, file[n + 1]), file, M, n + 1)
<1> DEFINE c == file[n + 1]
           t == AddChunk(s, c)
           K == Within(First(file, n), M)
<1>1. n \in Nat /\ n + 1 \in 1 .. Len(file) /\ (n + 1) - 1 = n /\ c \in T
      /\ Len(file) \in Nat
  OBVIOUS
<1>2. ~ t.ended /\ t.chunks = s.chunks /\ t.location = LocationAfter(s.location, c.name)
  BY <1>1, AddChunkIs DEF PlacedTo
<1>3. Within(First(file, n + 1), M) = K
  <2>0. n \in 0 .. Len(file) - 1 /\ n \in 0 .. Len(file)
    BY ONLY <1>1
  <2>1. First(file, n + 1) = Append(First(file, n), c) /\ First(file, n) \in Seq(T)
    BY <2>0, FirstIs
  <2>2. c \in T /\ c \notin M
    BY <1>1
  <2>3. \A q \in Seq(T) : Within(Append(q, c), M) = Within(q, M)
    <3> HIDE DEF c
    <3> QED  BY <2>2, WithinAppend
  <2> HIDE DEF c
  <2> QED  BY ONLY <2>1, <2>3, Zenon DEF K
<1>4. \A l : Kind(t, M, l) = Kind(s, M, l)
  BY <1>2 DEF Kind
<1>5. \A name : Has(file, n + 1, name) <=> Has(file, n, name) \/ c.name = name
  <2>1. 1 .. n + 1 = (1 .. n) \cup {n + 1}
    BY <1>1
  <2> QED  BY <2>1 DEF Has
<1>6. s.location = PlaceAt(file, n) /\ SortedTo(s, file, M, n)
  BY DEF PlacedTo
<1> HIDE DEF t, K
<1>7. CASE c.name = "IHDR"
  <2>1. n = 0
    BY <1>1, <1>7 DEF Divided
  <2>2. ~ Has(file, n, "IDAT") /\ ~ Has(file, n, "PLTE")
    BY <2>1 DEF Has
  <2>3. s.location = 1 /\ PlaceAt(file, n + 1) = 1 /\ t.location = 1
    BY <1>2, <1>5, <1>6, <1>7, <2>2 DEF PlaceAt, LocationAfter
  <2>4. \A p \in 1 .. n + 1 : p = 1 /\ file[p] = c
    BY <2>1
  <2>5. Kind(s, M, 1) \o Kind(s, M, 2) \o Kind(s, M, 3) = K
        /\ Kind(s, M, 2) = << >> /\ Kind(s, M, 3) = << >>
    BY <1>6, <2>3 DEF SortedTo, K
  <2>6. SortedTo(t, file, M, n + 1)
    BY <1>3, <1>4, <1>7, <2>4, <2>5 DEF SortedTo
  <2> QED  BY <1>2, <2>3, <2>6 DEF PlacedTo, t
<1>8. CASE c.name = "PLTE"
  <2>1. ~ Has(file, n, "IDAT") /\ ~ Has(file, n, "PLTE")
    BY <1>1, <1>8 DEF Divided, Has
  <2>2. s.location = 1 /\ PlaceAt(file, n + 1) = 2 /\ t.location = 2
    BY <1>2, <1>5, <1>6, <1>8, <2>1 DEF PlaceAt, LocationAfter
  <2>3. Kind(s, M, 1) \o Kind(s, M, 2) \o Kind(s, M, 3) = K
        /\ Kind(s, M, 2) = << >> /\ Kind(s, M, 3) = << >>
    BY <1>6, <2>2 DEF SortedTo, K
  <2>4. Kind(s, M, 1) \in Seq(T)
    BY KindIs
  <2>5. Kind(s, M, 1) = K
    BY <2>3, <2>4
  <2>6. ASSUME NEW p \in 1 .. n + 1, file[p].name = "PLTE"
        PROVE  Kind(s, M, 1) = Within(First(file, p - 1), M)
    <3>1. p = n + 1
      BY <2>1, <2>6, <1>1 DEF Has
    <3> QED  BY <3>1, <2>5, <1>1 DEF K
  <2>7. ASSUME NEW p \in 1 .. n + 1, file[p].name = "IDAT" PROVE FALSE
    <3>1. CASE p = n + 1
      BY <3>1, <2>7, <1>8
    <3>2. CASE p # n + 1
      BY <3>2, <2>7, <2>1, <1>1 DEF Has
    <3> QED  BY <3>1, <3>2
  <2>8. SortedTo(t, file, M, n + 1)
    BY <1>3, <1>4, <2>3, <2>6, <2>7, <2>2 DEF SortedTo
  <2> QED  BY <1>2, <2>2, <2>8 DEF PlacedTo, t
<1>9. CASE c.name = "IDAT"
  <2>1. PlaceAt(file, n + 1) = 3 /\ t.location = 3
    BY <1>2, <1>5, <1>9 DEF PlaceAt, LocationAfter
  <2>2. Kind(s, M, 1) \o Kind(s, M, 2) \o Kind(s, M, 3) = K
    BY <1>6 DEF SortedTo, K
  <2>3. ASSUME NEW p \in 1 .. n + 1, file[p].name = "PLTE"
        PROVE  Kind(s, M, 1) = Within(First(file, p - 1), M)
    <3>1. p \in 1 .. n
      BY <1>1, <1>9, <2>3
    <3> QED  BY <3>1, <2>3, <1>6 DEF SortedTo
  <2>4. ASSUME NEW d \in 1 .. n + 1, file[d].name = "IDAT", ~ Has(file, d - 1, "IDAT")
        PROVE  Kind(s, M, 1) \o Kind(s, M, 2) = Within(First(file, d - 1), M)
    <3>1. CASE d \in 1 .. n
      BY <3>1, <2>4, <1>6 DEF SortedTo
    <3>2. CASE d = n + 1
      <4>1. s.location < 3
        BY <3>2, <2>4, <1>1, <1>6 DEF PlaceAt
      <4>2. Kind(s, M, 3) = << >>
        BY <4>1, <1>6 DEF SortedTo
      <4>3. Kind(s, M, 1) \in Seq(T) /\ Kind(s, M, 2) \in Seq(T)
        BY KindIs
      <4>4. Kind(s, M, 1) \o Kind(s, M, 2) = K
        <5>1. PICK x \in Seq(T) : x = Kind(s, M, 1) \o Kind(s, M, 2)
          BY <4>3, ConcatIsSeq
        <5>2. x \o << >> = x
          OBVIOUS
        <5> QED  BY ONLY <2>2, <4>2, <5>1, <5>2
      <4> QED  BY <3>2, <4>4, <1>1 DEF K
    <3> QED  BY <3>1, <3>2, <1>1
  <2>5. SortedTo(t, file, M, n + 1)
    <3>1. ~ (t.location < 2) /\ ~ (t.location < 3)
      BY <2>1
    <3> QED  BY ONLY <1>3, <1>4, <3>1, <2>2, <2>3, <2>4 DEF SortedTo
  <2> QED  BY <1>2, <2>1, <2>5 DEF PlacedTo, t
<1> QED  BY <1>7, <1>8, <1>9

(* A chunk that is sorted.                                                   *)
LEMMA PlacedAfterChunk ==
  ASSUME NEW T, NEW file \in Seq(T), NEW M, NEW n \in 0 .. Len(file) - 1,
         NEW s \in Located(T), PlacedTo(s, file, M, n),
         file[n + 1].name \notin {"IHDR", "PLTE", "IDAT", "IEND"}
  PROVE  PlacedTo(AddChunk(s, file[n + 1]), file, M, n + 1)
<1> DEFINE c == file[n + 1]
           t == AddChunk(s, c)
           L == s.location
           K == Within(First(file, n), M)
           a == Kind(s, M, 1)
           b == Kind(s, M, 2)
           e == Kind(s, M, 3)
<1>1. n \in Nat /\ n + 1 \in 1 .. Len(file) /\ (n + 1) - 1 = n /\ c \in T
      /\ Len(file) \in Nat
  OBVIOUS
<1>2. /\ ~ t.ended /\ t.location = L
      /\ t.chunks[L] = Append(s.chunks[L], c)
      /\ \A l \in 1 .. 3 : l # L => t.chunks[l] = s.chunks[l]
  BY <1>1, AddChunkIs DEF PlacedTo
<1>2a. L \in 1 .. 3 /\ \A l \in 1 .. 3 : s.chunks[l] \in Seq(T)
  BY DEF Located
<1>3. First(file, n + 1) = Append(First(file, n), c) /\ First(file, n) \in Seq(T)
  BY <1>1, FirstIs
<1>4. \A l \in 1 .. 3 : l # L => Kind(t, M, l) = Kind(s, M, l)
  BY <1>2 DEF Kind
<1>5. \A name \in {"PLTE", "IDAT"} : Has(file, n + 1, name) <=> Has(file, n, name)
  <2>1. 1 .. n + 1 = (1 .. n) \cup {n + 1}
    BY <1>1
  <2> QED  BY <2>1 DEF Has
<1>6. L = PlaceAt(file, n) /\ SortedTo(s, file, M, n)
  BY DEF PlacedTo
<1>7. a \in Seq(T) /\ b \in Seq(T) /\ e \in Seq(T)
  BY KindIs
<1>8. a \o b \o e = K /\ (L < 2 => b = << >>) /\ (L < 3 => e = << >>)
  BY <1>6 DEF SortedTo
<1>9. PlaceAt(file, n + 1) = L
  BY <1>5, <1>6 DEF PlaceAt
<1> HIDE DEF t, K, a, b, e, L, c
<1>10. Kind(t, M, 1) \o Kind(t, M, 2) \o Kind(t, M, 3) = Within(Append(First(file, n), c), M)
  <2>1. CASE c \in M
    <3>1. Within(Append(First(file, n), c), M) = Append(K, c)
      BY <1>1, <1>3, <2>1, WithinAppend DEF K
    <3>2. Kind(t, M, L) = Append(Kind(s, M, L), c)
      <4>1. Within(Append(s.chunks[L], c), M) = Append(Within(s.chunks[L], M), c)
        <5>1. PICK x \in Seq(T) : x = s.chunks[L]
          BY <1>2a
        <5>2. Within(Append(x, c), M) = Append(Within(x, M), c)
          BY <1>1, <2>1, WithinAppend
        <5> QED  BY ONLY <5>1, <5>2
      <4> QED  BY ONLY <4>1, <1>2 DEF Kind
    <3>3. CASE L = 1
      <4>1. Kind(t, M, 1) = Append(a, c) /\ Kind(t, M, 2) = << >> /\ Kind(t, M, 3) = << >>
            /\ b = << >> /\ e = << >>
        BY <1>4, <1>8, <3>2, <3>3 DEF a, b, e
      <4>2. K = a /\ Append(a, c) \in Seq(T)
        BY <1>1, <1>7, <1>8, <4>1
      <4>3. Append(a, c) \o << >> \o << >> = Append(a, c)
        BY <4>2
      <4> QED  BY ONLY <4>1, <4>2, <4>3, <3>1
    <3>4. CASE L = 2
      <4>1. Kind(t, M, 1) = a /\ Kind(t, M, 2) = Append(b, c) /\ Kind(t, M, 3) = << >> /\ e = << >>
        BY <1>4, <1>8, <3>2, <3>4 DEF a, b, e
      <4>2. K = a \o b
        BY <1>7, <1>8, <4>1
      <4>3. a \o Append(b, c) = Append(a \o b, c) /\ a \o Append(b, c) \in Seq(T)
        BY <1>1, <1>7
      <4>4. (a \o Append(b, c)) \o << >> = a \o Append(b, c)
        BY <4>3
      <4> QED  BY ONLY <4>1, <4>2, <4>3, <4>4, <3>1
    <3>5. CASE L = 3
      <4>1. Kind(t, M, 1) = a /\ Kind(t, M, 2) = b /\ Kind(t, M, 3) = Append(e, c)
        BY <1>4, <3>2, <3>5 DEF a, b, e
      <4>2. a \o b \in Seq(T)
        BY <1>7
      <4>3. (a \o b) \o Append(e, c) = Append((a \o b) \o e, c)
        BY <1>1, <1>7, <4>2, ConcatAppend
      <4> QED  BY ONLY <4>1, <4>3, <1>8, <3>1
    <3> QED  BY <1>2a, <3>3, <3>4, <3>5 DEF L
  <2>2. CASE c \notin M
    <3>1. Within(Append(First(file, n), c), M) = K
      BY <1>1, <1>3, <2>2, WithinAppend DEF K
    <3>2. Kind(t, M, L) = Kind(s, M, L)
      <4>1. Within(Append(s.chunks[L], c), M) = Within(s.chunks[L], M)
        <5>1. PICK x \in Seq(T) : x = s.chunks[L]
          BY <1>2a
        <5>2. Within(Append(x, c), M) = Within(x, M)
          BY <1>1, <2>2, WithinAppend
        <5> QED  BY ONLY <5>1, <5>2
      <4> QED  BY ONLY <4>1, <1>2 DEF Kind
    <3>3. Kind(t, M, 1) = a /\ Kind(t, M, 2) = b /\ Kind(t, M, 3) = e
      BY <1>4, <3>2 DEF a, b, e
    <3> QED  BY ONLY <3>1, <3>3, <1>8
  <2> QED  BY <2>1, <2>2
<1>11. (L < 2 => Kind(t, M, 2) = << >>) /\ (L < 3 => Kind(t, M, 3) = << >>)
  BY <1>2a, <1>4, <1>8 DEF b, e, L
<1>12. ASSUME NEW p \in 1 .. n + 1, file[p].name = "PLTE"
       PROVE  Kind(t, M, 1) = Within(First(file, p - 1), M)
  <2>1. p \in 1 .. n
    BY <1>1, <1>12 DEF c
  <2>2. L # 1
    BY <1>6, <1>12, <2>1 DEF PlaceAt, Has
  <2> QED  BY <1>4, <1>6, <1>12, <2>1, <2>2 DEF SortedTo
<1>13. ASSUME NEW d \in 1 .. n + 1, file[d].name = "IDAT", ~ Has(file, d - 1, "IDAT")
       PROVE  Kind(t, M, 1) \o Kind(t, M, 2) = Within(First(file, d - 1), M)
  <2>1. d \in 1 .. n
    BY <1>1, <1>13 DEF c
  <2>2. L = 3
    BY <1>6, <1>13, <2>1 DEF PlaceAt, Has
  <2>3. Kind(t, M, 1) = a /\ Kind(t, M, 2) = b
    BY <1>4, <2>2 DEF a, b
  <2>4. a \o b = Within(First(file, d - 1), M)
    BY <1>6, <1>13, <2>1 DEF SortedTo, a, b
  <2> QED  BY ONLY <2>3, <2>4
<1>14. SortedTo(t, file, M, n + 1)
  <2>1. t.location = L
    BY <1>2
  <2>2. Kind(t, M, 1) \o Kind(t, M, 2) \o Kind(t, M, 3) = Within(First(file, n + 1), M)
    BY ONLY <1>3, <1>10
  <2> QED  BY ONLY <2>1, <2>2, <1>11, <1>12, <1>13 DEF SortedTo
<1> QED  BY <1>2, <1>9, <1>14 DEF PlacedTo, t, c

LEMMA ChunksSorted ==
  ASSUME NEW T, NEW file \in Seq(T), Divided(file), NEW M, \A c \in M : c.name \notin Essential,
         NEW m \in 0 .. Len(file), \A k \in 1 .. m : file[k].name # "IEND",
         m < Len(file) => file[m + 1].name = "IEND"
  PROVE  \E s \in Located(T) : s.chunks = GetChunks(file) /\ PlacedTo(s, file, M, m)
<1> DEFINE e == Len(file)
<1>1. PICK g : /\ LocatedBy(g, file) /\ GetChunks(file) = g[e].chunks
               /\ \A n \in 0 .. e : g[n] \in Located(T)
  BY GetChunksIs
<1>2. e \in Nat /\ m \in Nat /\ \A n \in 1 .. e : file[n] \in T
  OBVIOUS
<1> HIDE DEF e
<1>3. g[0] = NoChunks
  BY <1>1, <1>2 DEF LocatedBy, e
<1>4. ASSUME NEW n \in 0 .. e - 1 PROVE g[n + 1] = AddChunk(g[n], file[n + 1])
  <2>1. n + 1 \in 0 .. Len(file) /\ n + 1 # 0 /\ (n + 1) - 1 = n
    BY <1>2 DEF e
  <2> QED  BY <1>1, <2>1 DEF LocatedBy
<1> DEFINE Placed == {n \in 0 .. m : PlacedTo(g[n], file, M, n)}
           Stays == {n \in 0 .. e - m : g[m + n].chunks = g[m].chunks /\ (n > 0 => g[m + n].ended)}
<1>5. 0 \in Placed
  <2>1. NoChunks.chunks = <<<< >>, << >>, << >>>> /\ NoChunks.location = 1 /\ ~ NoChunks.ended
    BY DEF NoChunks
  <2>2. \A l \in 1 .. 3 : Kind(NoChunks, M, l) = << >>
    BY <2>1, WithinNothing DEF Kind
  <2>3. First(file, 0) = << >> /\ Within(<< >>, M) = << >> /\ 1 .. 0 = {}
    BY FirstIs, WithinNothing
  <2>4. PlaceAt(file, 0) = 1
    BY <2>3 DEF PlaceAt, Has
  <2>5. Kind(NoChunks, M, 1) \o Kind(NoChunks, M, 2) \o Kind(NoChunks, M, 3)
          = Within(First(file, 0), M)
    <3>1. << >> \o << >> \o << >> = << >>
      OBVIOUS
    <3>2. /\ Kind(NoChunks, M, 1) = << >> /\ Kind(NoChunks, M, 2) = << >>
          /\ Kind(NoChunks, M, 3) = << >>
      BY <2>2
    <3>3. Within(First(file, 0), M) = << >>
      BY <2>3
    <3> QED  BY ONLY <3>1, <3>2, <3>3
  <2>6. SortedTo(NoChunks, file, M, 0)
    BY <2>2, <2>3, <2>5 DEF SortedTo
  <2> QED  BY <1>2, <1>3, <2>1, <2>4, <2>6 DEF PlacedTo
<1>6. ASSUME NEW n \in 0 .. m - 1, n \in Placed PROVE n + 1 \in Placed
  <2>1. n \in 0 .. e - 1 /\ n \in 0 .. Len(file) - 1 /\ n + 1 \in 1 .. m /\ n \in 0 .. e
        /\ n + 1 \in 0 .. m /\ n + 1 \in 1 .. e
    BY <1>2 DEF e
  <2> DEFINE s == g[n]
             c == file[n + 1]
  <2>2. s \in Located(T) /\ PlacedTo(s, file, M, n) /\ c.name # "IEND" /\ c \in T
    BY <1>1, <1>2, <1>6, <2>1
  <2>3. g[n + 1] = AddChunk(s, c)
    BY <1>4, <2>1
  <2> HIDE DEF s, Placed
  <2>4. PlacedTo(AddChunk(s, c), file, M, n + 1)
    <3>1. CASE c.name \in {"IHDR", "PLTE", "IDAT"}
      <4>1. c \notin M
        <5>1. Essential = {"IHDR", "PLTE", "tRNS", "IDAT", "IEND"}
          BY DEF Essential
        <5> QED  BY <3>1, <5>1
      <4> QED  BY <2>1, <2>2, <3>1, <4>1, PlacedAfterDivider
    <3>2. CASE c.name \notin {"IHDR", "PLTE", "IDAT"}
      BY <2>1, <2>2, <3>2, PlacedAfterChunk
    <3> QED  BY <3>1, <3>2
  <2>5. PlacedTo(g[n + 1], file, M, n + 1)
    BY ONLY <2>3, <2>4
  <2> QED  BY <2>1, <2>5 DEF Placed
<1>7. \A n \in 0 .. m : n \in Placed
  <2> HIDE DEF Placed
  <2> QED  BY <1>2, <1>5, <1>6, UpTo
<1>8. PlacedTo(g[m], file, M, m)
  BY <1>2, <1>7
<1>9. 0 \in Stays
  BY <1>2 DEF e
<1>10. ASSUME NEW n \in 0 .. (e - m) - 1, n \in Stays PROVE n + 1 \in Stays
  <2>1. m + n \in 0 .. e - 1 /\ m + (n + 1) = (m + n) + 1 /\ m + n \in 0 .. e /\ n + 1 \in 0 .. e - m
        /\ (m + n) + 1 \in 1 .. e
    BY <1>2 DEF e
  <2> DEFINE s == g[m + n]
             c == file[(m + n) + 1]
  <2>2. g[m + (n + 1)] = AddChunk(s, c)
    BY <1>4, <2>1
  <2>3. s \in Located(T) /\ c \in T /\ s.chunks = g[m].chunks /\ (n > 0 => s.ended)
    BY <1>1, <1>2, <1>10, <2>1
  <2>4. n = 0 => ~ s.ended /\ c.name = "IEND"
    BY <1>2, <1>8, <2>1 DEF PlacedTo, e
  <2> HIDE DEF s, c, Stays
  <2>5. AddChunk(s, c).chunks = s.chunks /\ AddChunk(s, c).ended
    <3>1. CASE n = 0
      BY <2>3, <2>4, <3>1, AddChunkIs
    <3>2. CASE n > 0
      BY <2>3, <3>2, AddChunkIs
    <3> QED  BY <3>1, <3>2
  <2> QED  BY <2>1, <2>2, <2>3, <2>5 DEF Stays
<1>11. g[e].chunks = g[m].chunks
  <2>1. e - m \in Nat /\ m + (e - m) = e /\ e - m \in 0 .. e - m
    BY <1>2 DEF e
  <2>2. \A n \in 0 .. e - m : n \in Stays
    <3> HIDE DEF Stays
    <3> QED  BY <1>9, <1>10, <2>1, UpTo
  <2>3. e - m \in Stays
    BY <2>1, <2>2
  <2> QED  BY <2>1, <2>3
<1>12. g[m] \in Located(T)
  BY <1>1, <1>2 DEF e
<1> QED  BY <1>1, <1>8, <1>11, <1>12

-----------------------------------------------------------------------------
(* The first place that is in a set, and the part of a file before a name.   *)
LEMMA MinIs ==
  ASSUME NEW S, S \subseteq Nat, S # {}
  PROVE  Min(S) \in S /\ \A y \in S : Min(S) <= y
<1> DEFINE R == {nn \in Nat \X Nat : nn[1] < nn[2]}
<1>1. PICK x \in S : \A y \in S : ~ (<<y, x>> \in R)
  <2>1. IsWellFoundedOn(R, Nat)
    BY NatLessThanWellFounded DEF OpToRel, IsWellFoundedOn
  <2> HIDE DEF R
  <2> QED  BY <2>1, WFMin
<1>2. ASSUME NEW y \in S PROVE x <= y
  <2>1. x \in Nat /\ y \in Nat
    OBVIOUS
  <2>2. y < x => <<y, x>> \in R
    BY <2>1
  <2> QED  BY <1>1, <2>1, <2>2
<1> QED  BY <1>2 DEF Min

LEMMA UntilIs ==
  ASSUME NEW T, NEW file \in Seq(T), NEW name
  PROVE  \E u \in 0 .. Len(file) :
           /\ Until(file, name) = First(file, u)
           /\ \A k \in 1 .. u : file[k].name # name
           /\ u < Len(file) => file[u + 1].name = name
<1> DEFINE at == {k \in DOMAIN file : file[k].name = name}
<1>1. DOMAIN file = 1 .. Len(file) /\ Len(file) \in Nat
  OBVIOUS
<1>2. CASE at = {}
  <2>1. Until(file, name) = First(file, Len(file))
    BY <1>2, FirstIs DEF Until
  <2> QED  BY <1>1, <1>2, <2>1
<1>3. CASE at # {}
  <2>1. Min(at) \in at /\ \A y \in at : Min(at) <= y
    <3>1. at \subseteq Nat
      BY <1>1
    <3> HIDE DEF at
    <3> QED  BY <1>3, <3>1, MinIs
  <2>2. Until(file, name) = First(file, Min(at) - 1)
    BY <1>3 DEF Until, First
  <2>3. Min(at) - 1 \in 0 .. Len(file) /\ (Min(at) - 1) + 1 = Min(at)
    BY <1>1, <2>1
  <2>4. ASSUME NEW k \in 1 .. Min(at) - 1, file[k].name = name PROVE FALSE
    <3>1. k \in Nat /\ k < Min(at) /\ k \in DOMAIN file
      BY <1>1, <2>3
    <3>2. k \in at
      BY <2>4, <3>1
    <3> HIDE DEF at
    <3>3. Min(at) <= k
      BY <2>1, <3>2
    <3> QED  BY <2>3, <3>1, <3>3
  <2> QED  BY <2>1, <2>2, <2>3, <2>4
<1> QED  BY <1>2, <1>3

(* What is before the only chunk of a name.                                  *)
LEMMA UntilIn ==
  ASSUME NEW T, NEW s \in Seq(T), NEW x \in T, NEW t \in Seq(T), NEW name, x.name = name,
         \A k \in 1 .. Len(s) : s[k].name # name
  PROVE  Until(s \o <<x>> \o t, name) = s
<1> DEFINE f == s \o <<x>> \o t
           m == Len(s)
<1>1. /\ f \in Seq(T) /\ m \in Nat /\ Len(f) = m + 1 + Len(t) /\ Len(t) \in Nat
      /\ f[m + 1] = x /\ \A k \in 1 .. m : f[k] = s[k]
  OBVIOUS
<1> HIDE DEF f
<1>2. PICK u \in 0 .. Len(f) : /\ Until(f, name) = First(f, u)
                               /\ \A k \in 1 .. u : f[k].name # name
                               /\ u < Len(f) => f[u + 1].name = name
  BY <1>1, UntilIs
<1>3. u = m
  <2>1. ~ u > m
    BY <1>1, <1>2
  <2>2. ~ u < m
    BY <1>1, <1>2
  <2> QED  BY <1>1, <1>2, <2>1, <2>2
<1>4. First(f, m) = s
  <2> DEFINE a == First(f, m)
  <2>1. a \in Seq(T) /\ Len(a) = m /\ \A k \in 1 .. m : a[k] = f[k]
    BY <1>1, FirstIs
  <2> HIDE DEF a
  <2>2. a = s
    BY <1>1, <2>1, SeqEqual
  <2> QED  BY <2>2 DEF a
<1> QED  BY <1>2, <1>3, <1>4 DEF f

LEMMA UntilFree ==
  ASSUME NEW T, NEW name, NEW s \in Seq({c \in T : c.name # name}), NEW x \in T, x.name = name,
         NEW t \in Seq(T)
  PROVE  Until(s \o <<x>> \o t, name) = s
<1>1. s \in Seq(T) /\ \A k \in 1 .. Len(s) : s[k].name # name
  OBVIOUS
<1> QED  BY <1>1, UntilIn

-----------------------------------------------------------------------------
(* A file as the encoder writes it, with chunks put in.                      *)
AsWritten(file) ==
  /\ Len(file) \in 3 .. 5 /\ file = [k \in 1 .. Len(file) |-> file[k]]
  /\ file[1].name = "IHDR" /\ file[2].name \in {"PLTE", "tRNS", "IDAT"}
  /\ \A k \in 3 .. Len(file) - 2 : file[k].name = "tRNS"
  /\ Len(file) > 3 => file[2].name # "IDAT"
  /\ file[Len(file) - 1].name = "IDAT" /\ file[Len(file)].name = "IEND"

(* A part of a sequence.                                                     *)
LEMMA PartIs ==
  ASSUME NEW T, NEW s \in Seq(T), NEW a \in 1 .. Len(s) + 1, NEW b \in a - 1 .. Len(s)
  PROVE  /\ SubSeq(s, a, b) \in Seq(T) /\ Len(SubSeq(s, a, b)) = b - a + 1
         /\ \A k \in 1 .. b - a + 1 : SubSeq(s, a, b)[k] = s[a + k - 1]
OBVIOUS

LEMMA PartIn ==
  ASSUME NEW T, NEW s \in Seq(T), NEW a \in 1 .. Len(s) + 1, NEW b \in a - 1 .. Len(s),
         NEW U, \A k \in a .. b : s[k] \in U
  PROVE  SubSeq(s, a, b) \in Seq(U)
<1> DEFINE r == SubSeq(s, a, b)
<1>1. r \in Seq(T) /\ Len(r) = b - a + 1 /\ \A k \in 1 .. b - a + 1 : r[k] = s[a + k - 1]
  BY PartIs
<1>2. Len(s) \in Nat /\ b - a + 1 \in Nat
  OBVIOUS
<1> HIDE DEF r
<1>3. ASSUME NEW k \in 1 .. b - a + 1 PROVE r[k] \in U
  <2>1. a + k - 1 \in a .. b
    BY <1>2
  <2>2. r[k] = s[a + k - 1]
    BY <1>1
  <2> QED  BY <2>1, <2>2
<1>4. r \in Seq(U)
  BY <1>1, <1>3, <1>2
<1> QED  BY <1>4 DEF r

LEMMA PartOfOne == ASSUME NEW T, NEW s \in Seq(T), NEW a \in 1 .. Len(s) PROVE SubSeq(s, a, a) = <<s[a]>>
<1> DEFINE r == SubSeq(s, a, a)
<1>1. a \in 1 .. Len(s) + 1 /\ a \in a - 1 .. Len(s) /\ a - a + 1 = 1 /\ a + 1 - 1 = a
  OBVIOUS
<1>2. r \in Seq(T) /\ Len(r) = 1 /\ \A k \in 1 .. 1 : r[k] = s[a + k - 1]
  BY <1>1, PartIs
<1> HIDE DEF r
<1>3. r[1] = s[a]
  BY <1>1, <1>2
<1>4. r = <<s[a]>>
  BY <1>2, <1>3
<1> QED  BY <1>4 DEF r

LEMMA PartFromFirst ==
  ASSUME NEW T, NEW s \in Seq(T), NEW a \in 1 .. Len(s), NEW b \in a .. Len(s)
  PROVE  SubSeq(s, a, b) = <<s[a]>> \o SubSeq(s, a + 1, b)
<1> DEFINE r == SubSeq(s, a + 1, b)
           q == SubSeq(s, a, b)
<1>1. /\ a \in 1 .. Len(s) + 1 /\ b \in a - 1 .. Len(s)
      /\ a + 1 \in 1 .. Len(s) + 1 /\ b \in (a + 1) - 1 .. Len(s) /\ s[a] \in T
      /\ b - (a + 1) + 1 = b - a
  OBVIOUS
<1>2. r \in Seq(T) /\ Len(r) = b - a /\ \A k \in 1 .. b - a : r[k] = s[a + 1 + k - 1]
  BY <1>1, PartIs
<1>3. q \in Seq(T) /\ Len(q) = b - a + 1 /\ \A k \in 1 .. b - a + 1 : q[k] = s[a + k - 1]
  BY <1>1, PartIs
<1> HIDE DEF r, q
<1> DEFINE x == s[a]
           p == <<x>> \o r
<1>4. /\ p \in Seq(T) /\ Len(p) = 1 + Len(r) /\ p[1] = x
      /\ \A k \in 2 .. 1 + Len(r) : p[k] = r[k - 1]
  <2>1. x \in T
    BY <1>1
  <2> HIDE DEF x
  <2> QED  BY <1>2, <2>1
<1> HIDE DEF p
<1>5. ASSUME NEW k \in 1 .. b - a + 1 PROVE p[k] = q[k]
  <2>1. CASE k = 1
    <3>1. a + k - 1 = a
      BY <2>1
    <3> QED  BY <1>3, <1>4, <2>1, <3>1
  <2>2. CASE k # 1
    <3>1. k \in 2 .. 1 + Len(r) /\ k - 1 \in 1 .. b - a /\ a + 1 + (k - 1) - 1 = a + k - 1
      BY <1>2, <2>2
    <3>2. p[k] = r[k - 1] /\ r[k - 1] = s[a + 1 + (k - 1) - 1]
      BY <1>2, <1>4, <3>1
    <3> QED  BY <1>3, <3>1, <3>2
  <2> QED  BY <2>1, <2>2
<1>6. p = q
  <2>1. Len(p) = Len(q) /\ Len(p) = b - a + 1
    BY <1>2, <1>3, <1>4
  <2> QED  BY <1>3, <1>4, <1>5, <2>1, SeqEqual
<1> QED  BY <1>6 DEF p, r, q

LEMMA OnlyMin == ASSUME NEW S, NEW n \in Nat, n \in S, \A k \in S : k \in Nat /\ n <= k PROVE Min(S) = n
<1>1. S \subseteq Nat /\ S # {}
  OBVIOUS
<1>2. Min(S) \in S /\ \A y \in S : Min(S) <= y
  BY <1>1, MinIs
<1>3. Min(S) <= n /\ n <= Min(S) /\ Min(S) \in Nat
  BY <1>2
<1> QED  BY <1>3

SplitAs(B, C, D, E, T) ==
  /\ B \in Seq({c \in T : c.name \in {"IHDR", "tRNS"}}) /\ C \in Seq(T) /\ D \in T /\ E \in T
  /\ D.name = "IDAT" /\ E.name = "IEND"
  /\ C # << >> => \E x \in T, R \in Seq({c \in T : c.name = "tRNS"}) : C = <<x>> \o R /\ x.name = "PLTE"
Rejoined(B, a, C, b, D, e, E) == B \o a \o C \o b \o <<D>> \o e \o <<E>>

LEMMA InsertInWritten ==
  ASSUME NEW T, NEW file \in Seq(T), AsWritten(file), NEW chunks \in [1 .. 3 -> Seq(T)]
  PROVE  \E B, C, D, E :
           /\ SplitAs(B, C, D, E, T)
           /\ InsertChunks(file, chunks) = Rejoined(B, chunks[1], C, chunks[2], D, chunks[3], E)
<1> DEFINE n == Len(file)
           l0 == FirstOf(file, {"PLTE", "IDAT"})
           l1 == FirstOf(file, {"IDAT"})
           l2 == FirstOf(file, {"IEND"})
           B == SubSeq(file, 1, l0 - 1)
           C == SubSeq(file, l0, l1 - 1)
<1>1. /\ n \in 3 .. 5 /\ DOMAIN file = 1 .. n /\ \A k \in 1 .. n : file[k] \in T
      /\ file[1].name = "IHDR" /\ file[2].name \in {"PLTE", "tRNS", "IDAT"}
      /\ \A k \in 3 .. n - 2 : file[k].name = "tRNS"
      /\ (n > 3 => file[2].name # "IDAT") /\ file[n - 1].name = "IDAT" /\ file[n].name = "IEND"
  BY DEF AsWritten
<1> HIDE DEF n
<1>1a. \A k \in 1 .. n : k = 1 \/ k = n \/ k = n - 1 \/ (k = 2 /\ n > 3) \/ k \in 3 .. n - 2
  <2>1. n \in 3 .. 5
    BY <1>1
  <2> QED  BY ONLY <2>1
<1>1b. n \in Nat /\ 1 \in 1 .. n /\ 2 \in 1 .. n /\ n - 1 \in 1 .. n /\ n \in 1 .. n /\ n = Len(file)
  BY <1>1 DEF n
<1>2. l2 = n
  <2> DEFINE S == {k \in DOMAIN file : file[k].name \in {"IEND"}}
  <2>1. \A k \in S : k = n
    BY <1>1, <1>1a
  <2>2. n \in S /\ n \in Nat
    BY <1>1
  <2>3. n \in S /\ n \in Nat /\ \A k \in S : k \in Nat /\ n <= k
    <3> HIDE DEF S
    <3> QED  BY <2>1, <2>2
  <2> HIDE DEF S
  <2>4. Min(S) = n
    BY <2>3, OnlyMin
  <2> QED  BY <2>4 DEF FirstOf, S
<1>3. l1 = n - 1
  <2> DEFINE S == {k \in DOMAIN file : file[k].name \in {"IDAT"}}
  <2>1. \A k \in S : k = n - 1
    BY <1>1, <1>1a
  <2>2. n - 1 \in S /\ n - 1 \in Nat
    BY <1>1
  <2>3. n - 1 \in S /\ n - 1 \in Nat /\ \A k \in S : k \in Nat /\ n - 1 <= k
    <3> HIDE DEF S
    <3> QED  BY <2>1, <2>2
  <2> HIDE DEF S
  <2>4. Min(S) = n - 1
    BY <2>3, OnlyMin
  <2> QED  BY <2>4 DEF FirstOf, S
<1>4. l0 = IF file[2].name = "PLTE" THEN 2 ELSE n - 1
  <2> DEFINE S == {k \in DOMAIN file : file[k].name \in {"PLTE", "IDAT"}}
             p == IF file[2].name = "PLTE" THEN 2 ELSE n - 1
  <2>1. p \in S /\ p \in Nat /\ \A k \in S : k \in Nat /\ p <= k
    <3>1. p \in S /\ p \in Nat
      BY <1>1
    <3>2. ASSUME NEW k \in S PROVE k \in Nat /\ p <= k
      BY <1>1, <1>1a
    <3> HIDE DEF S, p
    <3> QED  BY <3>1, <3>2
  <2> HIDE DEF S, p
  <2>2. Min(S) = p
    BY <2>1, OnlyMin
  <2> QED  BY <2>2 DEF FirstOf, S, p
<1>5. l0 \in 2 .. n - 1 /\ (l0 = 2 \/ l0 = n - 1)
  BY <1>1, <1>4
<1>6. SubSeq(file, l1, l2 - 1) = <<file[n - 1]>>
  <2>1. SubSeq(file, n - 1, n - 1) = <<file[n - 1]>>
    BY <1>1b, PartOfOne
  <2> QED  BY <1>1, <1>2, <1>3, <2>1
<1>7. SubSeq(file, l2, Len(file)) = <<file[n]>>
  <2>1. SubSeq(file, n, n) = <<file[n]>>
    BY <1>1b, PartOfOne
  <2> QED  BY <1>1, <1>2, <2>1 DEF n
<1> HIDE DEF l0, l1, l2
<1>8. B \in Seq({c \in T : c.name \in {"IHDR", "tRNS"}})
  <2>1. ASSUME NEW k \in 1 .. l0 - 1 PROVE file[k] \in {c \in T : c.name \in {"IHDR", "tRNS"}}
    <3>1. CASE k = 1
      BY <1>1, <3>1
    <3>2. CASE k # 1
      <4>1. file[2].name # "PLTE" /\ l0 = n - 1 /\ k \in 2 .. n - 2 /\ n > 3
        BY <1>1, <1>4, <1>5, <2>1, <3>2
      <4>2. CASE k = 2
        BY <1>1, <4>1, <4>2
      <4>3. CASE k # 2
        BY <1>1, <4>1, <4>3
      <4> QED  BY <4>2, <4>3
    <3> QED  BY <3>1, <3>2
  <2>2. l0 - 1 \in 0 .. Len(file) /\ 1 \in 1 .. Len(file) + 1 /\ l0 - 1 \in 1 - 1 .. Len(file)
    BY <1>1b, <1>5
  <2> QED  BY <2>1, <2>2, PartIn
<1>9. C \in Seq(T)
  <2>0. n \in 3 .. 5 /\ n = Len(file) /\ l1 = n - 1 /\ l0 \in 2 .. n - 1
    BY <1>1, <1>1b, <1>3, <1>5
  <2>1. l0 \in 1 .. n + 1 /\ l1 - 1 \in l0 - 1 .. n
    BY ONLY <2>0
  <2> QED  BY <2>0, <2>1, PartIs
<1>10. C # << >> => \E x \in T, R \in Seq({c \in T : c.name = "tRNS"}) :
                       C = <<x>> \o R /\ x.name = "PLTE"
  <2>1. CASE file[2].name # "PLTE"
    BY <1>1, <1>3, <1>4, <2>1
  <2>2. CASE file[2].name = "PLTE"
    <3> DEFINE R == SubSeq(file, 3, n - 2)
               U == {c \in T : c.name = "tRNS"}
    <3>1. C = SubSeq(file, 2, n - 2)
      BY <1>3, <1>4, <1>1, <2>2
    <3>2. n > 3
      BY <1>1, <2>2
    <3>3. /\ 2 \in 1 .. Len(file) /\ n - 2 \in 2 .. Len(file) /\ 2 + 1 = 3
          /\ 3 \in 1 .. Len(file) + 1 /\ n - 2 \in 3 - 1 .. Len(file)
      BY <1>1b, <3>2, <1>1
    <3>4. \A k \in 3 .. n - 2 : file[k] \in U
      BY <1>1
    <3> HIDE DEF U
    <3>5. R \in Seq(U)
      BY <3>3, <3>4, PartIn
    <3>6. SubSeq(file, 2, n - 2) = <<file[2]>> \o R
      BY <3>3, PartFromFirst
    <3>7. file[2] \in T /\ C = <<file[2]>> \o R
      BY <1>1, <1>1b, <3>1, <3>6
    <3> HIDE DEF C, R
    <3> QED  BY <2>2, <3>5, <3>7 DEF U
  <2> QED  BY <2>1, <2>2
<1>11. SplitAs(B, C, file[n - 1], file[n], T)
  <2> HIDE DEF B, C
  <2>1. /\ file[n - 1] \in T /\ file[n] \in T
        /\ file[n - 1].name = "IDAT" /\ file[n].name = "IEND"
    BY <1>1, <1>1b
  <2> QED  BY ONLY <2>1, <1>8, <1>9, <1>10 DEF SplitAs
<1>12. InsertChunks(file, chunks)
         = Rejoined(B, chunks[1], C, chunks[2], file[n - 1], chunks[3], file[n])
  BY <1>6, <1>7 DEF InsertChunks, Rejoined, l0, l1, l2
<1> QED  BY <1>11, <1>12

Plain(T, name) == {c \in T : c.name # name}
ChunksNamed(T, N) == {c \in T : c.name \in N}
Other(T) == {c \in T : c.name \notin Essential}

LEMMA SeqIn == ASSUME NEW U, NEW V, U \subseteq V, NEW s \in Seq(U) PROVE s \in Seq(V)
OBVIOUS

LEMMA OfName ==
  ASSUME NEW T, NEW q \in Seq(T), NEW N
  PROVE  Marked(q, [k \in DOMAIN q |-> q[k].name \in N]) = Within(q, ChunksNamed(T, N))
<1>1. DOMAIN q = 1 .. Len(q) /\ \A k \in DOMAIN q : q[k] \in T
  OBVIOUS
<1>2. \A k \in DOMAIN q : (q[k].name \in N) = (q[k] \in ChunksNamed(T, N))
  BY <1>1 DEF ChunksNamed
<1>3. [k \in DOMAIN q |-> q[k].name \in N] = [k \in DOMAIN q |-> q[k] \in ChunksNamed(T, N)]
  BY <1>2, Zenon
<1> QED  BY ONLY <1>3 DEF Within

LEMMA OfOthers ==
  ASSUME NEW T, NEW q \in Seq(T)
  PROVE  Ancillary(q) = Within(q, Other(T))
<1>1. DOMAIN q = 1 .. Len(q) /\ \A k \in DOMAIN q : q[k] \in T
  OBVIOUS
<1>2. \A k \in DOMAIN q : (q[k].name \notin Essential) = (q[k] \in Other(T))
  BY <1>1 DEF Other
<1>3. [k \in DOMAIN q |-> q[k].name \notin Essential] = [k \in DOMAIN q |-> q[k] \in Other(T)]
  BY <1>2, Zenon
<1> QED  BY ONLY <1>3 DEF Within, Ancillary

(* Where the chunks end that were put in.                                    *)
Sides(r, a, b, e) ==
  /\ Ancillary(Until(r, "IEND")) = a \o b \o e
  /\ Ancillary(Until(r, "IDAT")) = a \o b
  /\ HasPalette(r) => Ancillary(Until(r, "PLTE")) = a

LEMMA OthersIn ==
  ASSUME NEW T, NEW s \in Seq(T), NEW t \in Seq(T)
  PROVE  Within(s \o t, Other(T)) = Within(s, Other(T)) \o Within(t, Other(T))
<1>1. WithinBoth(T, s, t, Other(T))
  BY WithinConcat
<1> QED  BY <1>1 DEF WithinBoth

LEMMA OthersOnly == ASSUME NEW T, NEW s \in Seq(Other(T)) PROVE Within(s, Other(T)) = s
BY WithinAll

LEMMA NoOthers ==
  ASSUME NEW T, NEW s \in Seq(ChunksNamed(T, Essential)) PROVE Within(s, Other(T)) = << >>
<1>1. ChunksNamed(T, Essential) \cap Other(T) = {}
  BY DEF ChunksNamed, Other
<1> QED  BY <1>1, WithinNone

LEMMA RejoinedSides ==
  ASSUME NEW T, NEW B, NEW C, NEW D, NEW E, SplitAs(B, C, D, E, T),
         NEW a \in Seq(Other(T)), NEW b \in Seq(Other(T)), NEW e \in Seq(Other(T))
  PROVE  Sides(Rejoined(B, a, C, b, D, e, E), a, b, e)
<1> DEFINE r == Rejoined(B, a, C, b, D, e, E)
           O == Other(T)
           V == ChunksNamed(T, Essential)
           x1 == B \o a
           x2 == x1 \o C
           x3 == x2 \o b
           x4 == x3 \o <<D>>
           x5 == x4 \o e
<1>1. /\ B \in Seq(ChunksNamed(T, {"IHDR", "tRNS"})) /\ C \in Seq(T) /\ D \in T /\ E \in T
      /\ D.name = "IDAT" /\ E.name = "IEND"
  BY DEF SplitAs, ChunksNamed
<1>2. Essential = {"IHDR", "PLTE", "tRNS", "IDAT", "IEND"}
  BY DEF Essential
<1>3. /\ \A name \in {"PLTE", "IDAT", "IEND"} : /\ ChunksNamed(T, {"IHDR", "tRNS"}) \subseteq Plain(T, name)
                                             /\ O \subseteq Plain(T, name)
                                             /\ Plain(T, name) \subseteq T
      /\ ChunksNamed(T, {"IHDR", "tRNS"}) \subseteq V /\ O \subseteq T /\ V \subseteq T
      /\ D \in V /\ D \in Plain(T, "IEND")
  BY <1>1, <1>2 DEF ChunksNamed, Plain, Other
<1>4. /\ C \in Seq(Plain(T, "IDAT")) /\ C \in Seq(Plain(T, "IEND")) /\ C \in Seq(V)
  <2>1. CASE C = << >>
    BY <2>1
  <2>2. CASE C # << >>
    <3>1. PICK x \in T, R \in Seq({c \in T : c.name = "tRNS"}) : C = <<x>> \o R /\ x.name = "PLTE"
      BY <2>2 DEF SplitAs
    <3>2. ASSUME NEW U, x \in U, {c \in T : c.name = "tRNS"} \subseteq U PROVE C \in Seq(U)
      <4>1. R \in Seq(U) /\ <<x>> \in Seq(U)
        BY <3>2, SeqIn
      <4> QED  BY <3>1, <4>1, ConcatIsSeq
    <3>3. \A U \in {Plain(T, "IDAT"), Plain(T, "IEND"), V} :
            x \in U /\ {c \in T : c.name = "tRNS"} \subseteq U
      BY <3>1, <1>2 DEF Plain, ChunksNamed
    <3> HIDE DEF V
    <3> QED  BY <3>2, <3>3
  <2> QED  BY <2>1, <2>2
<1> HIDE DEF O, V
<1>5. ASSUME NEW U, ChunksNamed(T, {"IHDR", "tRNS"}) \subseteq U, O \subseteq U
      PROVE  /\ x1 \in Seq(U)
             /\ C \in Seq(U) => x2 \in Seq(U) /\ x3 \in Seq(U)
             /\ C \in Seq(U) /\ D \in U => x4 \in Seq(U) /\ x5 \in Seq(U)
  <2>1. B \in Seq(U) /\ a \in Seq(U) /\ b \in Seq(U) /\ e \in Seq(U)
    BY <1>1, <1>5, SeqIn DEF O
  <2>2. D \in U => <<D>> \in Seq(U)
    OBVIOUS
  <2>3. x1 \in Seq(U)
    BY <2>1, ConcatIsSeq
  <2>4. ASSUME C \in Seq(U) PROVE x2 \in Seq(U) /\ x3 \in Seq(U)
    <3>1. x2 \in Seq(U)
      BY <2>3, <2>4, ConcatIsSeq
    <3> QED  BY <2>1, <3>1, ConcatIsSeq
  <2>5. ASSUME C \in Seq(U), D \in U PROVE x4 \in Seq(U) /\ x5 \in Seq(U)
    <3>1. x3 \in Seq(U) /\ <<D>> \in Seq(U)
      BY <2>2, <2>4, <2>5
    <3>2. x4 \in Seq(U)
      BY <3>1, ConcatIsSeq
    <3> QED  BY <2>1, <3>2, ConcatIsSeq
  <2> QED  BY <2>3, <2>4, <2>5
<1>6. /\ x1 \in Seq(Plain(T, "PLTE")) /\ x3 \in Seq(Plain(T, "IDAT"))
      /\ x5 \in Seq(Plain(T, "IEND"))
  BY <1>3, <1>4, <1>5
<1>7. x1 \in Seq(T) /\ x2 \in Seq(T) /\ x3 \in Seq(T) /\ x4 \in Seq(T) /\ x5 \in Seq(T)
      /\ B \in Seq(T) /\ a \in Seq(T) /\ b \in Seq(T) /\ e \in Seq(T) /\ <<D>> \in Seq(T)
      /\ <<E>> \in Seq(T)
  <2>1. ChunksNamed(T, {"IHDR", "tRNS"}) \subseteq T
    BY DEF ChunksNamed
  <2>2. B \in Seq(T) /\ a \in Seq(T) /\ b \in Seq(T) /\ e \in Seq(T)
    BY <1>1, <1>3, <2>1, SeqIn DEF O
  <2>3. <<D>> \in Seq(T) /\ <<E>> \in Seq(T)
    BY <1>1
  <2> QED  BY <1>1, <1>3, <1>5, <2>1, <2>2, <2>3
<1>8. r = x5 \o <<E>>
  BY DEF Rejoined
<1> HIDE DEF r
<1>9. /\ Within(B, O) = << >> /\ Within(C, O) = << >> /\ Within(<<D>>, O) = << >>
      /\ Within(a, O) = a /\ Within(b, O) = b /\ Within(e, O) = e
  <2>1. B \in Seq(V) /\ <<D>> \in Seq(V)
    BY <1>1, <1>3, SeqIn
  <2> QED  BY <2>1, <1>4, NoOthers, OthersOnly DEF O, V
<1>10. Within(x1, O) = a
  <2>1. Within(x1, O) = Within(B, O) \o Within(a, O)
    BY <1>7, OthersIn DEF O
  <2>2. << >> \o a = a
    BY <1>7
  <2> QED  BY ONLY <1>9, <2>1, <2>2
<1>11. Within(x3, O) = a \o b
  <2>1. Within(x2, O) = a \o << >>
    BY <1>7, <1>9, <1>10, <1>1, OthersIn DEF O
  <2>2. a \o << >> = a
    BY <1>7
  <2>3. Within(x3, O) = Within(x2, O) \o Within(b, O)
    BY <1>7, OthersIn DEF O
  <2> QED  BY ONLY <1>9, <2>1, <2>2, <2>3
<1>12. Within(x5, O) = a \o b \o e
  <2>1. Within(x4, O) = Within(x3, O) \o Within(<<D>>, O)
    BY <1>7, OthersIn DEF O
  <2>2. a \o b \in Seq(T) /\ (a \o b) \o << >> = a \o b
    BY <1>7
  <2>3. Within(x4, O) = a \o b
    BY ONLY <1>9, <1>11, <2>1, <2>2
  <2>4. Within(x5, O) = Within(x4, O) \o Within(e, O)
    BY <1>7, OthersIn DEF O
  <2> QED  BY ONLY <1>9, <2>3, <2>4
<1> HIDE DEF x1, x2, x3, x4, x5
<1>13. Until(r, "IEND") = x5
  <2>1. x5 \o <<E>> \o << >> = x5 \o <<E>>
    BY <1>7
  <2>2. Until(x5 \o <<E>> \o << >>, "IEND") = x5
    <3>1. << >> \in Seq(T)
      OBVIOUS
    <3>2. \A t \in Seq(T) : Until(x5 \o <<E>> \o t, "IEND") = x5
      BY <1>1, <1>6, UntilFree DEF Plain
    <3> QED  BY ONLY <3>1, <3>2
  <2> QED  BY ONLY <1>8, <2>1, <2>2
<1>14. Until(r, "IDAT") = x3
  <2>1. e \o <<E>> \in Seq(T)
    BY <1>7, ConcatIsSeq
  <2>2. r = x3 \o <<D>> \o (e \o <<E>>)
    <3>1. r = (x4 \o e) \o <<E>> /\ x4 = x3 \o <<D>>
      BY <1>8 DEF x4, x5
    <3>2. (x4 \o e) \o <<E>> = x4 \o (e \o <<E>>)
      <4>1. Three(T, x4, e, <<E>>)
        BY <1>7 DEF Three
      <4> QED  BY ONLY <4>1, Associate
    <3> QED  BY ONLY <3>1, <3>2
  <2>3. Until(x3 \o <<D>> \o (e \o <<E>>), "IDAT") = x3
    BY <1>1, <1>6, <2>1, UntilFree DEF Plain
  <2> QED  BY ONLY <2>2, <2>3
<1>15. ASSUME HasPalette(r) PROVE Until(r, "PLTE") = x1
  <2>1. C # << >>
    <3> SUFFICES ASSUME C = << >> PROVE FALSE
      OBVIOUS
    <3>1. C \in Seq(Plain(T, "PLTE")) /\ D \in Plain(T, "PLTE") /\ E \in Plain(T, "PLTE")
      BY <1>1 DEF Plain
    <3>2. x5 \in Seq(Plain(T, "PLTE")) /\ <<E>> \in Seq(Plain(T, "PLTE"))
      BY <1>3, <1>5, <3>1 DEF x5
    <3>3. r \in Seq(Plain(T, "PLTE"))
      BY <1>8, <3>2, ConcatIsSeq
    <3>4. \A k \in DOMAIN r : r[k].name # "PLTE"
      BY <3>3 DEF Plain
    <3> QED  BY <1>15, <3>4 DEF HasPalette
  <2>2. PICK x \in T, R \in Seq({c \in T : c.name = "tRNS"}) : C = <<x>> \o R /\ x.name = "PLTE"
    BY <2>1 DEF SplitAs
  <2>3. R \in Seq(T) /\ <<x>> \in Seq(T)
    <3>1. {c \in T : c.name = "tRNS"} \subseteq T
      OBVIOUS
    <3> QED  BY <3>1, SeqIn
  <2> DEFINE y2 == R \o b
             y3 == y2 \o <<D>>
             y4 == y3 \o e
             y5 == y4 \o <<E>>
  <2>4. y2 \in Seq(T) /\ y3 \in Seq(T) /\ y4 \in Seq(T) /\ y5 \in Seq(T)
    BY <1>7, <2>3, ConcatIsSeq
  <2> DEFINE h == x1 \o <<x>>
  <2>5. h \in Seq(T)
    BY <1>7, <2>3, ConcatIsSeq
  <2>6. x2 = h \o R
    <3>1. (x1 \o <<x>>) \o R = x1 \o (<<x>> \o R)
      <4>1. Three(T, x1, <<x>>, R)
        BY <1>7, <2>3 DEF Three
      <4> QED  BY ONLY <4>1, Associate
    <3> QED  BY ONLY <2>2, <3>1 DEF x2
  <2>7. x3 = h \o y2
    <3>1. (h \o R) \o b = h \o (R \o b)
      <4> HIDE DEF h
      <4>1. Three(T, h, R, b)
        BY <1>7, <2>3, <2>5 DEF Three
      <4> QED  BY ONLY <4>1, Associate
    <3> QED  BY ONLY <2>6, <3>1 DEF x3
  <2>8. x4 = h \o y3
    <3>1. (h \o y2) \o <<D>> = h \o (y2 \o <<D>>)
      <4> HIDE DEF h, y2
      <4>1. Three(T, h, y2, <<D>>)
        BY <1>7, <2>4, <2>5 DEF Three
      <4> QED  BY ONLY <4>1, Associate
    <3> QED  BY ONLY <2>7, <3>1 DEF x4
  <2>9. x5 = h \o y4
    <3>1. (h \o y3) \o e = h \o (y3 \o e)
      <4> HIDE DEF h, y3
      <4>1. Three(T, h, y3, e)
        BY <1>7, <2>4, <2>5 DEF Three
      <4> QED  BY ONLY <4>1, Associate
    <3> QED  BY ONLY <2>8, <3>1 DEF x5
  <2>10. r = h \o y5
    <3>1. (h \o y4) \o <<E>> = h \o (y4 \o <<E>>)
      <4> HIDE DEF h, y4
      <4>1. Three(T, h, y4, <<E>>)
        BY <1>7, <2>4, <2>5 DEF Three
      <4> QED  BY ONLY <4>1, Associate
    <3> QED  BY ONLY <1>8, <2>9, <3>1
  <2> HIDE DEF y5
  <2>11. Until(x1 \o <<x>> \o y5, "PLTE") = x1
    BY <1>6, <2>2, <2>4, UntilFree DEF Plain
  <2> QED  BY ONLY <2>10, <2>11
<1>16. Ancillary(x1) = a /\ Ancillary(x3) = a \o b /\ Ancillary(x5) = a \o b \o e
  BY <1>7, <1>10, <1>11, <1>12, OfOthers DEF O
<1> QED  BY <1>13, <1>14, <1>15, <1>16 DEF Sides, r

(* The chunks that are kept of a file: those of the part before its end.     *)
KeptOf(file, N) == Marked(file, [k \in DOMAIN file |-> file[k].name \in N \ Essential])
SamePlaces(old, now, N) ==
  \A name \in {"IEND", "IDAT", "PLTE"} :
    (name = "PLTE" => HasPalette(old) /\ HasPalette(now))
      => Ancillary(Until(now, name)) = KeptOf(Until(old, name), N)

LEMMA KeptOfIs ==
  ASSUME NEW T, NEW q \in Seq(T), NEW N, N \cap Essential = {}
  PROVE  KeptOf(q, N) = Within(q, ChunksNamed(T, N))
<1>1. N \ Essential = N
  OBVIOUS
<1> QED  BY <1>1, OfName DEF KeptOf

LEMMA FirstOfFirst ==
  ASSUME NEW T, NEW file \in Seq(T), NEW m \in 0 .. Len(file), NEW u \in 0 .. m
  PROVE  First(First(file, m), u) = First(file, u)
<1> DEFINE f == First(file, m)
           a == First(f, u)
           b == First(file, u)
<1>1. f \in Seq(T) /\ Len(f) = m /\ \A k \in 1 .. m : f[k] = file[k]
  BY FirstIs
<1> HIDE DEF f
<1>2. a \in Seq(T) /\ Len(a) = u /\ \A k \in 1 .. u : a[k] = f[k]
  BY <1>1, FirstIs
<1>3. b \in Seq(T) /\ Len(b) = u /\ \A k \in 1 .. u : b[k] = file[k]
  <2>1. u \in 0 .. Len(file)
    OBVIOUS
  <2> QED  BY <2>1, FirstIs
<1> HIDE DEF a, b
<1>4. \A k \in 1 .. u : a[k] = b[k]
  BY <1>1, <1>2, <1>3
<1>5. a = b
  BY <1>2, <1>3, <1>4, SeqEqual
<1> QED  BY <1>5 DEF a, b, f

LEMMA KeptChunks ==
  ASSUME NEW T, NEW original \in Seq(T), Divided(original), NEW N, N \cap Essential = {},
         NEW new \in Seq(T), AsWritten(new)
  PROVE  SamePlaces(Until(original, "IEND"), KeepChunks(original, N, new), N)
<1> DEFINE M == ChunksNamed(T, N)
           r == KeepChunks(original, N, new)
           old == Until(original, "IEND")
<1>1. PICK m \in 0 .. Len(original) :
        /\ old = First(original, m)
        /\ \A k \in 1 .. m : original[k].name # "IEND"
        /\ m < Len(original) => original[m + 1].name = "IEND"
  BY UntilIs
<1>2. /\ old \in Seq(T) /\ Len(old) = m /\ m \in Nat
      /\ \A k \in 1 .. m : old[k] = original[k]
  BY <1>1, FirstIs
<1> HIDE DEF old
<1>3. /\ \A c \in M : c.name \notin Essential
      /\ T \cap M \subseteq Other(T)
  BY DEF ChunksNamed, Other
<1> HIDE DEF M
<1>4. PICK s \in Located(T) : s.chunks = GetChunks(original) /\ PlacedTo(s, original, M, m)
  BY <1>1, <1>3, ChunksSorted
<1> DEFINE a == Kind(s, M, 1)
           b == Kind(s, M, 2)
           e == Kind(s, M, 3)
           kept == [l \in 1 .. 3 |-> Kind(s, M, l)]
<1>5. \A l \in 1 .. 3 : Kind(s, M, l) \in Seq(Other(T)) /\ Kind(s, M, l) \in Seq(T)
  <2> SUFFICES ASSUME NEW l \in 1 .. 3
               PROVE  Kind(s, M, l) \in Seq(Other(T)) /\ Kind(s, M, l) \in Seq(T)
    OBVIOUS
  <2>1. s.chunks[l] \in Seq(T)
    BY DEF Located
  <2>2. Kind(s, M, l) \in Seq(T \cap M)
    BY <2>1, WithinIs DEF Kind
  <2>3. T \cap M \subseteq T
    OBVIOUS
  <2> QED  BY <1>3, <2>2, <2>3, SeqIn
<1>6. r = InsertChunks(new, kept)
  <2>1. ASSUME NEW l \in 1 .. 3
        PROVE  Marked(GetChunks(original)[l],
                      [k \in DOMAIN GetChunks(original)[l] |-> GetChunks(original)[l][k].name \in N])
                 = Kind(s, M, l)
    <3>1. PICK q \in Seq(T) : q = GetChunks(original)[l] /\ q = s.chunks[l]
      BY <1>4 DEF Located
    <3>2. Marked(q, [k \in DOMAIN q |-> q[k].name \in N]) = Within(q, M)
      BY OfName DEF M
    <3> QED  BY ONLY <3>1, <3>2 DEF Kind
  <2>2. [l \in 1 .. 3 |-> Marked(GetChunks(original)[l],
           [k \in DOMAIN GetChunks(original)[l] |-> GetChunks(original)[l][k].name \in N])] = kept
    BY <2>1, Zenon
  <2> HIDE DEF kept
  <2> QED  BY ONLY <2>2 DEF KeepChunks, r
<1>7. kept \in [1 .. 3 -> Seq(T)] /\ kept[1] = a /\ kept[2] = b /\ kept[3] = e
  BY <1>5
<1>8. PICK B, C, D, E : SplitAs(B, C, D, E, T) /\ r = Rejoined(B, a, C, b, D, e, E)
  <2>1. PICK B, C, D, E :
          /\ SplitAs(B, C, D, E, T)
          /\ InsertChunks(new, kept) = Rejoined(B, kept[1], C, kept[2], D, kept[3], E)
    <3> HIDE DEF kept, r
    <3> QED  BY <1>7, InsertInWritten
  <2> QED  BY <1>6, <1>7, <2>1
<1> HIDE DEF r, kept
<1>9. Sides(r, a, b, e)
  <2>1. a \in Seq(Other(T)) /\ b \in Seq(Other(T)) /\ e \in Seq(Other(T))
    BY <1>5
  <2> HIDE DEF a, b, e
  <2> QED  BY <1>8, <2>1, RejoinedSides
<1>10. SortedTo(s, original, M, m) /\ s.location = PlaceAt(original, m)
  BY <1>4 DEF PlacedTo
<1>11. ASSUME NEW u \in 0 .. m PROVE KeptOf(First(old, u), N) = Within(First(original, u), M)
  <2>1. First(old, u) = First(original, u)
    BY <1>1, FirstOfFirst
  <2>2. First(original, u) \in Seq(T)
    BY <1>1, FirstIs
  <2> QED  BY <2>1, <2>2, KeptOfIs DEF M
<1>12. KeptOf(Until(old, "IEND"), N) = a \o b \o e
  <2>1. PICK u \in 0 .. m : /\ Until(old, "IEND") = First(old, u)
                            /\ u < m => old[u + 1].name = "IEND"
    BY <1>2, UntilIs
  <2>2. u = m
    BY <1>1, <1>2, <2>1
  <2>3. KeptOf(Until(old, "IEND"), N) = Within(First(original, m), M)
    BY <1>11, <2>1, <2>2
  <2> QED  BY <1>10, <2>3 DEF SortedTo
<1>13. KeptOf(Until(old, "IDAT"), N) = a \o b
  <2>1. PICK u \in 0 .. m : /\ Until(old, "IDAT") = First(old, u)
                            /\ \A k \in 1 .. u : old[k].name # "IDAT"
                            /\ u < m => old[u + 1].name = "IDAT"
    BY <1>2, UntilIs
  <2>2. KeptOf(Until(old, "IDAT"), N) = Within(First(original, u), M)
    BY <1>11, <2>1
  <2>3. \A k \in 1 .. u : original[k].name # "IDAT"
    BY <1>2, <2>1
  <2>4. CASE u < m
    <3>1. u + 1 \in 1 .. m /\ (u + 1) - 1 = u
      BY <1>2, <2>4
    <3>2. original[u + 1].name = "IDAT" /\ ~ Has(original, u, "IDAT")
      BY <1>2, <2>1, <2>3, <2>4, <3>1 DEF Has
    <3> QED  BY <1>10, <2>2, <3>1, <3>2 DEF SortedTo
  <2>5. CASE u = m
    <3>1. s.location < 3
      BY <1>10, <2>3, <2>5 DEF PlaceAt, Has
    <3>2. e = << >> /\ a \o b \o e = Within(First(original, m), M)
      BY <1>10, <3>1 DEF SortedTo
    <3>3. a \o b \in Seq(T)
      BY <1>5, ConcatIsSeq
    <3>4. a \o b \o << >> = a \o b
      BY <3>3
    <3> QED  BY ONLY <2>2, <2>5, <3>2, <3>4
  <2> QED  BY <1>2, <2>4, <2>5
<1>14. ASSUME HasPalette(old) PROVE KeptOf(Until(old, "PLTE"), N) = a
  <2>1. PICK u \in 0 .. m : /\ Until(old, "PLTE") = First(old, u)
                            /\ \A k \in 1 .. u : old[k].name # "PLTE"
                            /\ u < m => old[u + 1].name = "PLTE"
    BY <1>2, UntilIs
  <2>2. KeptOf(Until(old, "PLTE"), N) = Within(First(original, u), M)
    BY <1>11, <2>1
  <2>3. u < m
    BY <1>2, <1>14, <2>1 DEF HasPalette
  <2>4. u + 1 \in 1 .. m /\ (u + 1) - 1 = u /\ original[u + 1].name = "PLTE"
    BY <1>2, <2>1, <2>3
  <2> QED  BY <1>10, <2>2, <2>4 DEF SortedTo
<1> QED  BY <1>9, <1>12, <1>13, <1>14 DEF SamePlaces, Sides, r, old

-----------------------------------------------------------------------------
(* What the encoder writes has that form, so that each step keeps the chunks.*)
PngInv ==
  /\ job \in Jobs
  /\ png_stage \in {"again", "keep"} => AsWritten(resultpng)
  /\ ChunksKept

OneMore(s, p, q, T) ==
  /\ q \in Seq(T) /\ Len(q) = Len(s) + 1 /\ q[Len(s) + 1] = p
  /\ \A k \in 1 .. Len(s) : q[k] = s[k]
LEMMA OneMoreIs == ASSUME NEW T, NEW s \in Seq(T), NEW p \in T PROVE OneMore(s, p, s \o <<p>>, T)
BY DEF OneMore

LEMMA WriteFileIsWritten ==
  ASSUME NEW w, NEW h, NEW mode, NEW interlace, NEW bytes
  PROVE  AsWritten(WriteFile(w, h, mode, interlace, bytes))
<1> DEFINE x == Header(w, h, mode, interlace)
           y == Chunk("IDAT", bytes)
           z == Chunk("IEND", << >>)
<1>1. x.name = "IHDR" /\ y.name = "IDAT" /\ z.name = "IEND"
  BY DEF Header, Chunk
<1>1a. \A d : Chunk("PLTE", d).name = "PLTE" /\ Chunk("tRNS", d).name = "tRNS"
  BY DEF Chunk
<1>2. AddPLTE(mode) = << >> \/ \E p : AddPLTE(mode) = <<p>> /\ p.name = "PLTE"
  BY <1>1a, Zenon DEF AddPLTE
<1>3. AddTRNS(mode) = << >> \/ \E t : AddTRNS(mode) = <<t>> /\ t.name = "tRNS"
  BY <1>1a, Zenon DEF AddTRNS
<1>4. WriteFile(w, h, mode, interlace, bytes) = <<x>> \o AddPLTE(mode) \o AddTRNS(mode) \o <<y, z>>
  BY DEF WriteFile
<1> HIDE DEF x, y, z
<1>5. PICK T : /\ x \in T /\ y \in T /\ z \in T
               /\ AddPLTE(mode) # << >> => AddPLTE(mode)[1] \in T
               /\ AddTRNS(mode) # << >> => AddTRNS(mode)[1] \in T
  <2>1. \A a, b, c, d, e : \E T : a \in T /\ b \in T /\ c \in T /\ d \in T /\ e \in T
    <3> SUFFICES ASSUME NEW a, NEW b, NEW c, NEW d, NEW e
                 PROVE  \E T : a \in T /\ b \in T /\ c \in T /\ d \in T /\ e \in T
      OBVIOUS
    <3>1. /\ a \in {a, b, c, d, e} /\ b \in {a, b, c, d, e} /\ c \in {a, b, c, d, e}
          /\ d \in {a, b, c, d, e} /\ e \in {a, b, c, d, e}
      OBVIOUS
    <3> QED  BY <3>1
  <2> QED  BY <2>1
<1> DEFINE s == <<x>> \o AddPLTE(mode)
           q == s \o AddTRNS(mode)
           f == q \o <<y, z>>
<1>6. /\ s \in Seq(T) /\ Len(s) \in 1 .. 2 /\ s[1] = x /\ (Len(s) = 2 => s[2].name = "PLTE")
  <2>1. CASE AddPLTE(mode) = << >>
    BY <1>5, <2>1
  <2>2. CASE AddPLTE(mode) # << >>
    <3>1. PICK p : AddPLTE(mode) = <<p>> /\ p.name = "PLTE"
      BY <1>2, <2>2
    <3>2. p \in T
      BY <1>5, <2>2, <3>1
    <3>3. OneMore(<<x>>, p, s, T)
      <4>1. <<x>> \in Seq(T)
        BY <1>5
      <4> QED  BY <3>1, <3>2, <4>1, OneMoreIs
    <3> HIDE DEF s
    <3> QED  BY <1>5, <3>1, <3>3 DEF OneMore
  <2> QED  BY <2>1, <2>2
<1>7. /\ q \in Seq(T) /\ Len(q) \in Len(s) .. Len(s) + 1 /\ \A k \in 1 .. Len(s) : q[k] = s[k]
      /\ (Len(q) = Len(s) + 1 => q[Len(s) + 1].name = "tRNS")
  <2> HIDE DEF s
  <2>1. CASE AddTRNS(mode) = << >>
    BY <1>6, <2>1
  <2>2. CASE AddTRNS(mode) # << >>
    <3>1. PICK t : AddTRNS(mode) = <<t>> /\ t.name = "tRNS"
      BY <1>3, <2>2
    <3>2. t \in T
      BY <1>5, <2>2, <3>1
    <3>3. OneMore(s, t, q, T)
      BY <1>6, <3>1, <3>2, OneMoreIs
    <3> HIDE DEF q
    <3> QED  BY <1>6, <3>1, <3>3 DEF OneMore
  <2> QED  BY <2>1, <2>2
<1> HIDE DEF q
<1>8. /\ f \in Seq(T) /\ Len(f) = Len(q) + 2 /\ \A k \in 1 .. Len(q) : f[k] = q[k]
      /\ f[Len(q) + 1] = y /\ f[Len(q) + 2] = z
  <2>1. q \in Seq(T) /\ y \in T /\ z \in T
    BY <1>5, <1>7
  <2> QED  BY ONLY <2>1
<1> HIDE DEF s, f
<1>9. Len(s) \in 1 .. 2 /\ Len(q) \in 1 .. 3 /\ Len(f) \in 3 .. 5
  <2>1. Len(s) \in 1 .. 2 /\ Len(q) \in Len(s) .. Len(s) + 1 /\ Len(f) = Len(q) + 2
    BY <1>6, <1>7, <1>8
  <2>2. \A a \in 1 .. 2 : \A b \in a .. a + 1 : b \in 1 .. 3 /\ b + 2 \in 3 .. 5
    OBVIOUS
  <2>3. Len(q) \in 1 .. 3 /\ Len(q) + 2 \in 3 .. 5
    BY ONLY <2>1, <2>2, Zenon
  <2> QED  BY <2>1, <2>3
<1>10. f[1] = x /\ f = [k \in 1 .. Len(f) |-> f[k]]
  BY <1>6, <1>7, <1>8, <1>9
<1>11. f[Len(f) - 1] = y /\ f[Len(f)] = z
  <2>1. Len(f) - 1 = Len(q) + 1 /\ Len(f) = Len(q) + 2
    BY <1>8, <1>9
  <2> QED  BY <1>8, <2>1
<1>12. f[2].name \in {"PLTE", "tRNS", "IDAT"} /\ (Len(f) > 3 => f[2].name # "IDAT")
  <2>1. CASE Len(s) = 2
    <3>1. 2 \in 1 .. Len(q) /\ 2 \in 1 .. Len(s)
      BY <1>7, <2>1
    <3>2. f[2] = s[2]
      BY <1>7, <1>8, <3>1
    <3> QED  BY <1>6, <2>1, <3>2
  <2>2. CASE Len(s) = 1 /\ Len(q) = 2
    <3>1. 2 \in 1 .. Len(q) /\ Len(s) + 1 = 2
      BY <2>2
    <3>2. f[2] = q[2]
      BY <1>8, <3>1
    <3> QED  BY <1>7, <2>2, <3>1, <3>2
  <2>3. CASE Len(q) = 1
    <3>1. Len(q) + 1 = 2 /\ Len(f) = 3
      BY <1>8, <2>3
    <3>2. f[2] = y
      BY <1>8, <3>1
    <3> QED  BY <1>1, <3>1, <3>2
  <2>4. Len(s) \in 1 .. 2 /\ Len(q) \in Len(s) .. Len(s) + 1
    BY <1>6, <1>7
  <2>6. \A a \in 1 .. 2 : \A b \in a .. a + 1 : a = 2 \/ (a = 1 /\ b = 2) \/ b = 1
    OBVIOUS
  <2>5. Len(s) = 2 \/ (Len(s) = 1 /\ Len(q) = 2) \/ Len(q) = 1
    BY ONLY <2>4, <2>6, Zenon
  <2> QED  BY <2>1, <2>2, <2>3, <2>5
<1>13. ASSUME NEW k \in 3 .. Len(f) - 2 PROVE f[k].name = "tRNS"
  <2>1. k \in 3 .. Len(q)
    BY <1>8, <1>9
  <2>2. Len(q) = Len(s) + 1 /\ k = Len(s) + 1 /\ k \in 1 .. Len(q)
    BY <1>7, <1>9, <2>1
  <2>3. f[k] = q[k]
    BY <1>8, <2>2
  <2> QED  BY <1>7, <2>2, <2>3
<1>14. AsWritten(f)
  BY <1>1, <1>9, <1>10, <1>11, <1>12, <1>13 DEF AsWritten
<1> QED  BY <1>4, <1>14 DEF f, q, s

LEMMA EncodedIsWritten ==
  ASSUME NEW mode, NEW filters, EncodeIn(mode, filters).error = 0
  PROVE  AsWritten(EncodeIn(mode, filters).file)
<1>1. ASSUME NEW e, NEW f PROVE Encoded(e, f).error = e /\ Encoded(e, f).file = f
  BY DEF Encoded
<1> DEFINE raw == RawOf(picture.pixels, InfoRaw, wide)
           to == Convert(raw, mode, InfoRaw, picture.w * picture.h)
           bytes == PreProcessScanlines(to.raw, picture.w, picture.h, Bpp(mode), 0, job.strategy, filters)
           file == WriteFile(picture.w, picture.h, mode, 0, bytes)
<1>2. \/ EncodeIn(mode, filters) = Encoded(68, << >>)
      \/ EncodeIn(mode, filters) = Encoded(37, << >>)
      \/ EncodeIn(mode, filters) = IF to.error # 0 THEN Encoded(to.error, << >>) ELSE Encoded(0, file)
  <2>1. EncodeIn(mode, filters)
          = CASE mode.colortype = "PALETTE" /\ Len(mode.palette) \notin 1 .. MaxPalette -> Encoded(68, << >>)
              [] ~ ColorValid(mode) -> Encoded(37, << >>)
              [] OTHER -> IF to.error # 0 THEN Encoded(to.error, << >>) ELSE Encoded(0, file)
    BY DEF EncodeIn, Encode
  <2> HIDE DEF to, file
  <2> QED  BY ONLY <2>1, Zenon
<1> HIDE DEF to, file
<1>3. EncodeIn(mode, filters) = Encoded(0, file)
  BY <1>1, <1>2
<1>4. AsWritten(file)
  BY WriteFileIsWritten DEF file
<1> QED  BY <1>1, <1>3, <1>4

LEMMA OldFile ==
  ASSUME NEW file, IsPng(file)
  PROVE  /\ file \in Seq({file[k] : k \in 1 .. Len(file)}) /\ Divided(file)
<1>1. Len(file) \in Nat \ {0} /\ file = [k \in 1 .. Len(file) |-> file[k]]
  BY DEF IsPng
<1>2. DOMAIN file = 1 .. Len(file)
  BY <1>1
<1>3. file \in Seq({file[k] : k \in 1 .. Len(file)})
  <2> DEFINE n == Len(file)
             S == {file[k] : k \in 1 .. n}
  <2>1. \A k \in 1 .. n : file[k] \in S
    OBVIOUS
  <2>2. file = [k \in 1 .. n |-> file[k]] /\ n \in Nat
    BY <1>1
  <2> HIDE DEF n, S
  <2>3. [k \in 1 .. n |-> file[k]] \in [1 .. n -> S]
    BY <2>1
  <2>4. file \in Seq(S)
    BY ONLY <2>2, <2>3, SeqDef
  <2> QED  BY <2>4 DEF n, S
<1>4. \A k \in 2 .. Len(file) : file[k].name # "IHDR"
  BY Zenon DEF IsPng
<1>5. \A k, n \in 1 .. Len(file) :
        k < n /\ file[n].name = "PLTE" => file[k].name \notin {"PLTE", "IDAT"}
  BY <1>2 DEF IsPng
<1> QED  BY <1>3, <1>4, <1>5 DEF Divided

LEMMA ToKeepIs == ASSUME NEW file PROVE ToKeep(file) = KeptOf(file, job.keepchunks)
BY DEF ToKeep, KeptOf

LEMMA InsertKeeps ==
  ASSUME PngInv, InsertKeptChunks
  PROVE  ChunksKept'
<1> DEFINE old == job.file
           S == {old[k] : k \in 1 .. Len(old)}
           U == {resultpng[k] : k \in 1 .. Len(resultpng)}
           T == S \cup U
<1>1. IsPng(old) /\ job.keepchunks \cap Essential = {}
  BY JobsAssumption DEF PngInv
<1>2. AsWritten(resultpng) /\ resultpng' = KeepChunks(old, job.keepchunks, resultpng) /\ job' = job
  BY DEF PngInv, InsertKeptChunks
<1>3. old \in Seq(S) /\ Divided(old)
  BY <1>1, OldFile
<1>4. resultpng \in Seq(U)
  <2> DEFINE n == Len(resultpng)
  <2>1. \A k \in 1 .. n : resultpng[k] \in U
    OBVIOUS
  <2>2. resultpng = [k \in 1 .. n |-> resultpng[k]] /\ n \in Nat
    BY <1>2 DEF AsWritten
  <2> HIDE DEF n, U
  <2>3. [k \in 1 .. n |-> resultpng[k]] \in [1 .. n -> U]
    BY <2>1
  <2> QED  BY ONLY <2>2, <2>3, SeqDef
<1>5. S \subseteq T /\ U \subseteq T
  OBVIOUS
<1> HIDE DEF S, U, T
<1>6. old \in Seq(T) /\ resultpng \in Seq(T)
  BY <1>3, <1>4, <1>5, SeqIn
<1>7. SamePlaces(Until(old, "IEND"), resultpng', job.keepchunks)
  BY <1>1, <1>2, <1>3, <1>6, KeptChunks
<1>8. \A file : ToKeep(file)' = KeptOf(file, job.keepchunks)
  BY <1>2 DEF ToKeep, KeptOf
<1> HIDE DEF old
<1> QED  BY <1>2, <1>7, <1>8 DEF ChunksKept, SamePlaces, old

LEMMA PngInitially == InitPng => PngInv
BY DEF InitPng, PngInv, ChunksKept

LEMMA PngStep == PngInv /\ [PngNext]_pngVars => PngInv'
<1> SUFFICES ASSUME PngInv, [PngNext]_pngVars PROVE PngInv'
  OBVIOUS
<1>1. job \in Jobs /\ (png_stage \in {"again", "keep"} => AsWritten(resultpng)) /\ ChunksKept
  BY DEF PngInv
<1>2. CASE DecodeInput
  <2>1. /\ job' = job /\ (png_stage' = "hide" \/ png_stage' = "done")
        /\ (png_stage' = "done" => png_error' # 0)
    BY <1>2 DEF DecodeInput
  <2> QED  BY <1>1, <2>1 DEF PngInv, ChunksKept
<1>3. CASE LossyOptimizeTransparent
  <2>1. job' = job /\ png_stage' = "encode"
    BY <1>3 DEF LossyOptimizeTransparent
  <2> QED  BY <1>1, <2>1 DEF PngInv, ChunksKept
<1>4. CASE TryOptimize
  <2>1. /\ job' = job /\ png_stage' = IF png_error' = 0 THEN "again" ELSE "done"
        /\ \/ png_error' = 1
           \/ /\ png_error' = EncodeIn(ChosenMode, Filters).error
              /\ resultpng' = EncodeIn(ChosenMode, Filters).file
    BY <1>4 DEF TryOptimize
  <2>2. CASE png_error' = 0
    <3>1. AsWritten(resultpng')
      BY <2>1, <2>2, EncodedIsWritten
    <3> QED  BY <1>1, <2>1, <2>2, <3>1 DEF PngInv, ChunksKept
  <2>3. CASE png_error' # 0
    BY <1>1, <2>1, <2>3 DEF PngInv, ChunksKept
  <2> QED  BY <2>2, <2>3
<1>5. CASE RetryWithoutPalette
  <2>1. /\ job' = job /\ png_stage' = (IF png_error' = 0 THEN "keep" ELSE "done")
        /\ png_stage = "again"
        /\ png_error' = EncodeIn(WithoutPalette(ImageStats), Filters).error
        /\ resultpng' \in {resultpng, EncodeIn(WithoutPalette(ImageStats), Filters).file}
    BY <1>5 DEF RetryWithoutPalette
  <2>2. CASE png_error' = 0
    <3>1. AsWritten(resultpng')
      BY <1>1, <2>1, <2>2, EncodedIsWritten
    <3> QED  BY <1>1, <2>1, <2>2, <3>1 DEF PngInv, ChunksKept
  <2>3. CASE png_error' # 0
    BY <1>1, <2>1, <2>3 DEF PngInv, ChunksKept
  <2> QED  BY <2>2, <2>3
<1>6. CASE NoRetry
  <2>1. job' = job /\ png_stage = "again" /\ png_stage' = "keep" /\ resultpng' = resultpng
    BY <1>6 DEF NoRetry
  <2> QED  BY <1>1, <2>1 DEF PngInv, ChunksKept
<1>7. CASE InsertKeptChunks
  <2>1. job' = job /\ png_stage' = "done"
    BY <1>7 DEF InsertKeptChunks
  <2>2. ChunksKept'
    BY <1>7, InsertKeeps
  <2> QED  BY <1>1, <2>1, <2>2 DEF PngInv
<1>8. CASE UNCHANGED pngVars
  BY <1>1, <1>8 DEF PngInv, pngVars, ChunksKept, ToKeep
<1> QED  BY <1>2, <1>3, <1>4, <1>5, <1>6, <1>7, <1>8 DEF PngNext, PngDone

(* KeepChunks, AddChunksToPNG (zopflipng_lib.cc, lodepng_util.cpp): whatever *)
(* the image, the settings and the strategy, and wherever the chunks stood,  *)
(* a file that zopflipng finishes holds the chunks that were to be kept, in  *)
(* their order and on their side of the palette and of the image data, and   *)
(* no other ancillary ones.                                                  *)
THEOREM KeptChunksInPlace == PngSpec => []ChunksKept
<1>1. PngInv => ChunksKept
  BY DEF PngInv
<1> QED  BY PngInitially, PngStep, <1>1, PTL DEF PngSpec

-----------------------------------------------------------------------------
(* zopflipng: the lines of an image, filtered and restored.  First the places *)
(* of the bytes of a line in what all lines make together.                    *)
LEMMA FunctionIsSeq ==
  ASSUME NEW T, NEW n \in Nat, NEW f, DOMAIN f = 1 .. n, f = [k \in 1 .. n |-> f[k]],
         \A k \in 1 .. n : f[k] \in T
  PROVE  f \in Seq(T) /\ Len(f) = n
<1>1. f \in [1 .. n -> T]
  OBVIOUS
<1>2. f \in Seq(T)
  BY <1>1, SeqDef
<1>3. DOMAIN f = 1 .. Len(f) /\ Len(f) \in Nat
  BY <1>2
<1>4. \A a, b \in Nat : (1 .. a) = (1 .. b) => a = b
  <2> SUFFICES ASSUME NEW a \in Nat, NEW b \in Nat, (1 .. a) = (1 .. b) PROVE a = b
    OBVIOUS
  <2>1. a > 0 => a \in 1 .. b
    OBVIOUS
  <2>2. b > 0 => b \in 1 .. a
    OBVIOUS
  <2> QED  BY <2>1, <2>2
<1>5. Len(f) = n
  BY <1>3, <1>4
<1> QED  BY <1>2, <1>5

(* Rows: where a member is, and what is there.                               *)
Place(length, y, x) == (y - 1) * length + x
LEMMA PlaceIs ==
  ASSUME NEW n \in Nat, NEW length \in Nat \ {0}, NEW y \in 1 .. n, NEW x \in 1 .. length
  PROVE  /\ Place(length, y, x) \in 1 .. n * length
         /\ (Place(length, y, x) - 1) \div length = y - 1
         /\ (Place(length, y, x) - 1) % length = x - 1
<1>1. Place(length, y, x) - 1 = length * (y - 1) + (x - 1)
  BY DEF Place
<1>2. y - 1 \in Nat /\ x - 1 \in 0 .. length - 1 /\ y - 1 < n
  OBVIOUS
<1>3. /\ (length * (y - 1) + (x - 1)) \div length = y - 1
      /\ (length * (y - 1) + (x - 1)) % length = x - 1
  BY <1>2, DivOf
<1>4. length * (y - 1) + length <= length * n
  BY <1>2, Further
<1>5. length * (y - 1) \in Nat /\ length * n = n * length
  BY <1>2, Product
<1>6. Place(length, y, x) = length * (y - 1) + x
  BY DEF Place
<1> HIDE DEF Place
<1>7. Place(length, y, x) \in 1 .. n * length
  <2> DEFINE a == length * (y - 1)
             b == length * n
  <2>1. a \in Nat /\ a + length <= b /\ Place(length, y, x) = a + x /\ b = n * length
    BY <1>4, <1>5, <1>6
  <2>2. b \in Nat
    BY Product
  <2> HIDE DEF a, b
  <2>3. a + x \in 1 .. b
    BY ONLY <2>1, <2>2, length \in Nat \ {0}, x \in 1 .. length
  <2> QED  BY ONLY <2>1, <2>3
<1> QED  BY <1>1, <1>3, <1>7

LEMMA PlaceOf ==
  ASSUME NEW n \in Nat, NEW length \in Nat \ {0}, NEW k \in 1 .. n * length
  PROVE  /\ (k - 1) \div length + 1 \in 1 .. n /\ ((k - 1) % length) + 1 \in 1 .. length
         /\ k = Place(length, (k - 1) \div length + 1, ((k - 1) % length) + 1)
<1>1. n * length \in Nat
  BY Product
<1>2. k - 1 \in Nat
  BY <1>1
<1>3. PICK q \in Nat, r \in 0 .. length - 1 :
        q = (k - 1) \div length /\ r = (k - 1) % length /\ k - 1 = length * q + r
  BY <1>2, DivIs
<1>4. q < n
  <2>1. SUFFICES ASSUME ~ q < n PROVE FALSE
    OBVIOUS
  <2>2. n <= q
    BY <2>1, <1>3
  <2>3. length * n <= length * q
    <3>1. CASE n = q
      BY <3>1, Product, <1>3
    <3>2. CASE n < q
      <4>1. length * n + length <= length * q
        BY <1>3, <3>2, Further
      <4>2. length * n \in Nat /\ length * q \in Nat
        BY Product, <1>3
      <4> QED  BY ONLY <4>1, <4>2, length \in Nat \ {0}
    <3> QED  BY <2>2, <3>1, <3>2, <1>3
  <2>4. n * length = length * n /\ length * q \in Nat
    BY Product, <1>3
  <2> QED  BY ONLY <2>3, <2>4, <1>1, <1>3, k \in 1 .. n * length
<1>5. q + 1 \in 1 .. n /\ r + 1 \in 1 .. length
  BY <1>3, <1>4
<1>6. k = Place(length, q + 1, r + 1)
  <2>1. (q + 1) - 1 = q /\ q * length = length * q /\ length * q \in Nat
    BY <1>3, Product
  <2> QED  BY <1>2, <1>3, <2>1 DEF Place
<1> QED  BY <1>3, <1>5, <1>6

IsInRows(s, rows, n, length, T) ==
  /\ s \in Seq(T) /\ Len(s) = n * length
  /\ \A y \in 1 .. n : \A x \in 1 .. length : s[Place(length, y, x)] = rows[y][x]
LEMMA InRowsIs ==
  ASSUME NEW T, NEW n \in Nat, NEW length \in Nat \ {0}, NEW rows, Len(rows) = n,
         \A y \in 1 .. n : \A x \in 1 .. length : rows[y][x] \in T
  PROVE  IsInRows(InRows(rows, length), rows, n, length, T)
<1> DEFINE e(k) == rows[((k - 1) \div length) + 1][((k - 1) % length) + 1]
           m == n * length
           f == [k \in 1 .. m |-> e(k)]
<1>1. m \in Nat
  BY Product
<1>2. \A k \in 1 .. m : e(k) \in T
  BY PlaceOf
<1>3. InRows(rows, length) = f \o << >>
  BY DEF InRows
<1>4. f \in Seq(T) /\ Len(f) = m
  <2>1. DOMAIN f = 1 .. m /\ f = [k \in 1 .. m |-> f[k]] /\ \A k \in 1 .. m : f[k] \in T
    BY <1>2
  <2> HIDE DEF f, m
  <2> QED  BY <1>1, <2>1, FunctionIsSeq
<1>5. InRows(rows, length) = f
  <2> HIDE DEF f
  <2> QED  BY <1>3, <1>4, ConcatEmptySeq
<1>6. ASSUME NEW y \in 1 .. n, NEW x \in 1 .. length
      PROVE  f[Place(length, y, x)] = rows[y][x]
  <2>1. /\ Place(length, y, x) \in 1 .. m
        /\ (Place(length, y, x) - 1) \div length = y - 1 /\ (Place(length, y, x) - 1) % length = x - 1
    BY PlaceIs
  <2>2. f[Place(length, y, x)] = e(Place(length, y, x))
    BY <2>1
  <2>3. (y - 1) + 1 = y /\ (x - 1) + 1 = x
    OBVIOUS
  <2> QED  BY <2>1, <2>2, <2>3
<1> HIDE DEF f
<1> QED  BY <1>4, <1>5, <1>6 DEF IsInRows

LEMMA RowsEqual ==
  ASSUME NEW T, NEW n \in Nat, NEW length \in Nat \ {0}, NEW s \in Seq(T), NEW t \in Seq(T),
         Len(s) = n * length, Len(t) = n * length,
         \A y \in 1 .. n : \A x \in 1 .. length : s[Place(length, y, x)] = t[Place(length, y, x)]
  PROVE  s = t
<1>1. ASSUME NEW k \in 1 .. n * length PROVE s[k] = t[k]
  <2> DEFINE y == (k - 1) \div length + 1
             x == ((k - 1) % length) + 1
  <2>1. y \in 1 .. n /\ x \in 1 .. length /\ k = Place(length, y, x)
    BY PlaceOf
  <2> HIDE DEF y, x
  <2> QED  BY <2>1
<1> QED  BY <1>1, SeqEqual

-----------------------------------------------------------------------------
(* Powers of two.                                                            *)
LEMMA PowersAre ==
  ASSUME NEW n \in 0 .. 15
  PROVE  Power(n) \in Nat \ {0} /\ Power(n + 1) = 2 * Power(n) /\ Power(0) = 1
<1>1. /\ Power(0) = 1 /\ Power(1) = 2 /\ Power(2) = 4 /\ Power(3) = 8 /\ Power(4) = 16
      /\ Power(5) = 32 /\ Power(6) = 64 /\ Power(7) = 128 /\ Power(8) = 256
      /\ Power(9) = 512 /\ Power(10) = 1024 /\ Power(11) = 2048 /\ Power(12) = 4096
      /\ Power(13) = 8192 /\ Power(14) = 16384 /\ Power(15) = 32768 /\ Power(16) = 65536
  BY DEF Power, Powers
<1> QED  BY ONLY <1>1, n \in 0 .. 15

LEMMA PowersIn == \A n \in 0 .. 16 : Power(n) \in Nat \ {0}
<1>1. Power(16) = 65536
  BY DEF Power, Powers
<1>2. ASSUME NEW n \in 0 .. 16 PROVE Power(n) \in Nat \ {0}
  <2>1. CASE n = 16
    BY <1>1, <2>1
  <2>2. CASE n # 16
    <3>1. n \in 0 .. 15
      BY <2>2
    <3> QED  BY <3>1, PowersAre
  <2> QED  BY <2>1, <2>2
<1> QED  BY <1>2

(* Dividing by twice a number.                                               *)
LEMMA DivTwice ==
  ASSUME NEW v \in Nat, NEW p \in Nat \ {0}
  PROVE  v \div (2 * p) = (v \div p) \div 2 /\ v \div (2 * p) = (v \div 2) \div p
<1>1. PICK q \in Nat, r \in 0 .. p - 1 : q = v \div p /\ v = p * q + r
  BY DivIs
<1>2. PICK a \in Nat, b \in 0 .. 1 : a = q \div 2 /\ q = 2 * a + b
  BY DivIs
<1>3. v = (2 * p) * a + (p * b + r)
  <2>1. p * (2 * a + b) = (2 * p) * a + p * b /\ (2 * p) * a \in Nat /\ p * b \in Nat
    <3>1. /\ p * (2 * a + b) = p * (2 * a) + p * b /\ p * (2 * a) = (2 * p) * a
          /\ p * b \in Nat /\ (2 * p) \in Nat
      OBVIOUS
    <3>2. (2 * p) * a \in Nat
      BY <3>1, Product
    <3> QED  BY ONLY <3>1, <3>2
  <2> DEFINE A == (2 * p) * a
             B == p * b
  <2>2. p * (2 * a + b) = A + B /\ A \in Nat /\ B \in Nat
    BY <2>1
  <2>3. v = p * (2 * a + b) + r
    BY <1>1, <1>2
  <2> HIDE DEF A, B
  <2>4. v = A + (B + r)
    BY ONLY <2>2, <2>3, r \in 0 .. p - 1, p \in Nat
  <2> QED  BY <2>4 DEF A, B
<1>4. p * b + r \in 0 .. 2 * p - 1
  <2>1. p * b = 0 \/ p * b = p
    BY <1>2
  <2> QED  BY <2>1
<1>5. v \div (2 * p) = a
  BY <1>3, <1>4, DivOf
<1>6. PICK c \in Nat, d \in 0 .. 1 : c = v \div 2 /\ v = 2 * c + d
  BY DivIs
<1>7. PICK e \in Nat, f \in 0 .. p - 1 : e = c \div p /\ c = p * e + f
  BY DivIs
<1>8. v = (2 * p) * e + (2 * f + d)
  <2> DEFINE A == p * e
  <2>1. A \in Nat /\ (2 * p) * e = 2 * A
    BY Product
  <2>2. v = 2 * (A + f) + d
    BY <1>6, <1>7
  <2> HIDE DEF A
  <2>3. v = 2 * A + (2 * f + d)
    BY ONLY <2>1, <2>2, f \in 0 .. p - 1, d \in 0 .. 1, p \in Nat
  <2> QED  BY ONLY <2>1, <2>3
<1>9. 2 * f + d \in 0 .. 2 * p - 1
  BY <1>6, <1>7
<1>10. v \div (2 * p) = e
  BY <1>8, <1>9, DivOf
<1> QED  BY <1>1, <1>2, <1>5, <1>6, <1>7, <1>10

(* The number that bits stand for, by the number of bits that have been      *)
(* read.                                                                     *)
ValueBy(f, bits) ==
  f = [n \in 0 .. Len(bits) |-> IF n = 0 THEN 0 ELSE 2 * f[n - 1] + bits[n]]
ValueSteps(f, bits) ==
  /\ ValueOf(bits) = f[Len(bits)] /\ f[0] = 0
  /\ \A n \in 0 .. Len(bits) : f[n] \in Nat
  /\ \A n \in 1 .. Len(bits) : f[n] = 2 * f[n - 1] + bits[n]
LEMMA ValueIs ==
  ASSUME NEW bits \in Seq({0, 1})
  PROVE  \E f : ValueSteps(f, bits)
<1> DEFINE m == Len(bits)
           value == CHOOSE f : ValueBy(f, bits)
           step == [z \in (1 .. m) \X Nat |-> 2 * z[2] + bits[z[1]]]
           P == [n \in 0 .. m |-> Nat]
<1>1. m \in Nat /\ \A n \in 1 .. m : bits[n] \in {0, 1}
  OBVIOUS
<1>2. ASSUME NEW n \in 1 .. m, NEW x \in Nat
      PROVE  step[<<n, x>>] = 2 * x + bits[n] /\ step[<<n, x>>] \in Nat
  BY <1>1
<1>3. \A n \in 0 .. m : P[n] = Nat
  OBVIOUS
<1>3a. ValueOf(bits) = value[m]
  BY DEF ValueOf, ValueBy
<1> HIDE DEF step, P, value, m
<1>4. Leads(step, P, m) /\ 0 \in P[0]
  <2>1. ASSUME NEW n \in 1 .. m, NEW x \in P[n - 1] PROVE step[<<n, x>>] \in P[n]
    <3>1. P[n - 1] = Nat /\ P[n] = Nat
      BY <1>1, <1>3
    <3> QED  BY <3>1, <1>2
  <2>2. 0 \in P[0]
    BY <1>1, <1>3
  <2> QED  BY <2>1, <2>2 DEF Leads
<1>5. PICK f : StepsWithin(f, 0, step, P, m)
  BY <1>1, <1>4, StepsAreThere
<1>5a. /\ f = [n \in 0 .. m |-> IF n = 0 THEN 0 ELSE step[<<n, f[n - 1]>>]]
       /\ \A n \in 0 .. m : f[n] \in Nat
  BY <1>3, <1>5 DEF StepsWithin
<1>6. \A n \in 0 .. m : n # 0 => step[<<n, f[n - 1]>>] = 2 * f[n - 1] + bits[n]
  <2>1. ASSUME NEW n \in 0 .. m, n # 0 PROVE step[<<n, f[n - 1]>>] = 2 * f[n - 1] + bits[n]
    <3>1. n \in 1 .. m /\ n - 1 \in 0 .. m
      BY <1>1, <2>1
    <3> QED  BY <3>1, <1>2, <1>5a
  <2> QED  BY <2>1
<1>7. f = [n \in 0 .. m |-> IF n = 0 THEN 0 ELSE 2 * f[n - 1] + bits[n]]
  BY <1>5a, <1>6
<1>8. ValueBy(value, bits)
  BY <1>7 DEF value, ValueBy, m
<1>9. value = [n \in 0 .. m |-> IF n = 0 THEN 0 ELSE 2 * value[n - 1] + bits[n]]
  BY <1>8 DEF ValueBy, m
<1>10. value[0] = 0 /\ \A n \in 1 .. m : value[n] = 2 * value[n - 1] + bits[n]
  BY <1>1, <1>9
<1>11. \A n \in 0 .. m : n \in {k \in 0 .. m : value[k] \in Nat}
  <2> DEFINE R == {k \in 0 .. m : value[k] \in Nat}
  <2>1. 0 \in R
    BY <1>1, <1>10
  <2>2. ASSUME NEW n \in 0 .. m - 1, n \in R PROVE n + 1 \in R
    <3>1. n + 1 \in 1 .. m /\ (n + 1) - 1 = n /\ n + 1 \in 0 .. m
      BY <1>1
    <3>2. value[n + 1] = 2 * value[n] + bits[n + 1] /\ value[n] \in Nat
      BY <2>2, <3>1, <1>10
    <3> QED  BY <3>1, <3>2, <1>1
  <2> HIDE DEF R
  <2>3. \A n \in 0 .. m : n \in R
    BY <1>1, <2>1, <2>2, UpTo
  <2> QED  BY <2>3 DEF R
<1>12. \A n \in 0 .. m : value[n] \in Nat
  BY <1>11
<1> QED  BY <1>3a, <1>10, <1>12 DEF ValueSteps, m

(* A number of n bits, and n bits as a number.                               *)
LEMMA BitsAre ==
  ASSUME NEW n \in 0 .. 16, NEW v \in Nat
  PROVE  /\ BitsOf(v, n) \in Seq({0, 1}) /\ Len(BitsOf(v, n)) = n
         /\ \A k \in 1 .. n : BitsOf(v, n)[k] = (v \div Power(n - k)) % 2
<1> DEFINE bits == BitsOf(v, n)
<1>1. \A k \in 1 .. n : bits[k] = (v \div Power(n - k)) % 2 /\ bits[k] \in {0, 1}
  <2> SUFFICES ASSUME NEW k \in 1 .. n
               PROVE  bits[k] = (v \div Power(n - k)) % 2 /\ bits[k] \in {0, 1}
    OBVIOUS
  <2>1. bits[k] = (v \div Power(n - k)) % 2
    BY DEF BitsOf
  <2>2. Power(n - k) \in Nat \ {0}
    BY PowersIn
  <2>3. v \div Power(n - k) \in Nat
    BY <2>2, DivIs
  <2>4. (v \div Power(n - k)) % 2 \in 0 .. 2 - 1
    BY <2>3, DivIs
  <2> QED  BY <2>1, <2>4
<1>2. DOMAIN bits = 1 .. n /\ bits = [k \in 1 .. n |-> bits[k]] /\ n \in Nat
  BY DEF BitsOf
<1> HIDE DEF bits
<1>3. bits \in Seq({0, 1}) /\ Len(bits) = n
  BY <1>1, <1>2, FunctionIsSeq
<1> QED  BY <1>1, <1>3 DEF bits

LEMMA ValueOfBits ==
  ASSUME NEW n \in 0 .. 16, NEW v \in 0 .. Power(n) - 1
  PROVE  ValueOf(BitsOf(v, n)) = v
<1> DEFINE bits == BitsOf(v, n)
<1>0. Power(n) \in Nat \ {0} /\ v \in Nat
  BY PowersIn
<1>1. /\ bits \in Seq({0, 1}) /\ Len(bits) = n
      /\ \A k \in 1 .. n : bits[k] = (v \div Power(n - k)) % 2
  BY <1>0, BitsAre
<1> HIDE DEF bits
<1>2. PICK f : ValueSteps(f, bits)
  BY <1>1, ValueIs
<1>3. /\ ValueOf(bits) = f[n] /\ f[0] = 0 /\ \A k \in 0 .. n : f[k] \in Nat
      /\ \A k \in 1 .. n : f[k] = 2 * f[k - 1] + bits[k]
  BY <1>1, <1>2 DEF ValueSteps
<1> DEFINE T == {k \in 0 .. n : f[k] = v \div Power(n - k)}
<1>4. 0 \in T
  <2>1. v = Power(n) * 0 + v
    BY <1>0
  <2>2. v \div Power(n) = 0
    BY <1>0, <2>1, DivOf
  <2>3. n - 0 = n
    OBVIOUS
  <2> QED  BY <1>3, <2>2, <2>3
<1>5. ASSUME NEW k \in 0 .. n - 1, k \in T PROVE k + 1 \in T
  <2> DEFINE p == Power(n - (k + 1))
             x == v \div p
  <2>1. n - (k + 1) \in 0 .. 15 /\ (n - (k + 1)) + 1 = n - k /\ k + 1 \in 1 .. n /\ (k + 1) - 1 = k
    OBVIOUS
  <2>2. p \in Nat \ {0} /\ Power(n - k) = 2 * p
    BY <2>1, PowersAre
  <2>3. x \in Nat /\ v \div (2 * p) = x \div 2
    <3> HIDE DEF p
    <3> QED  BY <1>0, <2>2, DivIs, DivTwice
  <2>4. f[k] = x \div 2
    BY <1>5, <2>2, <2>3
  <2>5. f[k + 1] = 2 * f[k] + bits[k + 1] /\ bits[k + 1] = x % 2
    BY <1>1, <1>3, <2>1
  <2> HIDE DEF x
  <2>6. f[k + 1] = x
    BY ONLY <2>3, <2>4, <2>5
  <2> QED  BY <2>1, <2>6 DEF x
<1> HIDE DEF T
<1>6. n \in T
  <2>1. \A k \in 0 .. n : k \in T
    BY <1>4, <1>5, UpTo
  <2> QED  BY <2>1
<1>7. f[n] = v
  <2>1. f[n] = v \div Power(0) /\ Power(0) = 1
    <3>1. n - n = 0
      OBVIOUS
    <3> QED  BY <1>6, <3>1, PowersAre DEF T
  <2>2. v \div 1 = v
    BY <1>0
  <2> QED  BY <2>1, <2>2
<1> QED  BY <1>3, <1>7 DEF bits

LEMMA BitsOfValue ==
  ASSUME NEW n \in 0 .. 16, NEW bits \in Seq({0, 1}), Len(bits) = n
  PROVE  ValueOf(bits) \in 0 .. Power(n) - 1 /\ BitsOf(ValueOf(bits), n) = bits
<1>2. PICK f : ValueSteps(f, bits)
  BY ValueIs
<1>3. /\ ValueOf(bits) = f[n] /\ f[0] = 0 /\ \A k \in 0 .. n : f[k] \in Nat
      /\ \A k \in 1 .. n : f[k] = 2 * f[k - 1] + bits[k]
      /\ \A k \in 1 .. n : bits[k] \in {0, 1}
  BY <1>2 DEF ValueSteps
<1>4. f[n] < Power(n)
  <2> DEFINE T == {k \in 0 .. n : f[k] < Power(k)}
  <2>1. 0 \in T
    <3>1. Power(0) = 1
      BY DEF Power, Powers
    <3> QED  BY <1>3, <3>1
  <2>2. ASSUME NEW k \in 0 .. n - 1, k \in T PROVE k + 1 \in T
    <3>1. k \in 0 .. 15 /\ k + 1 \in 1 .. n /\ (k + 1) - 1 = k
      OBVIOUS
    <3>2. Power(k) \in Nat /\ Power(k + 1) = 2 * Power(k)
      BY <3>1, PowersAre
    <3>3. f[k + 1] = 2 * f[k] + bits[k + 1] /\ f[k] \in Nat /\ bits[k + 1] \in {0, 1} /\ f[k] < Power(k)
      BY <1>3, <2>2, <3>1
    <3>4. f[k + 1] < Power(k + 1)
      BY ONLY <3>2, <3>3
    <3> QED  BY <3>1, <3>4
  <2> HIDE DEF T
  <2>3. \A k \in 0 .. n : k \in T
    BY <2>1, <2>2, UpTo
  <2> QED  BY <2>3 DEF T
<1>5. \A j \in 0 .. n : \A k \in 0 .. n - j : f[k + j] \div Power(j) = f[k]
  <2> DEFINE T == {j \in 0 .. n : \A k \in 0 .. n - j : f[k + j] \div Power(j) = f[k]}
  <2>1. 0 \in T
    <3>1. \A k \in 0 .. n : f[k] \div 1 = f[k]
      BY <1>3
    <3>2. ASSUME NEW k \in 0 .. n PROVE k + 0 = k
      OBVIOUS
    <3>3. n - 0 = n /\ Power(0) = 1
      BY PowersAre
    <3> QED  BY <3>1, <3>2, <3>3
  <2>2. ASSUME NEW j \in 0 .. n - 1, j \in T PROVE j + 1 \in T
    <3>1. j \in 0 .. 15 /\ j + 1 \in 0 .. n
      OBVIOUS
    <3>2. Power(j) \in Nat \ {0} /\ Power(j + 1) = 2 * Power(j)
      BY <3>1, PowersAre
    <3>3. ASSUME NEW k \in 0 .. n - (j + 1) PROVE f[k + (j + 1)] \div Power(j + 1) = f[k]
      <4>1. k + (j + 1) \in 1 .. n /\ (k + (j + 1)) - 1 = k + j /\ k \in 0 .. n - j /\ k + j \in 0 .. n
        OBVIOUS
      <4>2. PICK a \in Nat, b \in {0, 1}, c \in Nat : a = f[k + j] /\ b = bits[k + (j + 1)]
                                       /\ c = f[k + (j + 1)] /\ c = 2 * a + b
        BY <1>3, <4>1
      <4>3. c \div 2 = a
        <5>1. b \in 0 .. 2 - 1
          BY <4>2
        <5>2. (2 * a + b) \div 2 = a
          BY <5>1, DivOf
        <5> QED  BY <4>2, <5>2
      <4>4. c \div (2 * Power(j)) = (c \div 2) \div Power(j)
        BY <3>2, DivTwice
      <4>5. a \div Power(j) = f[k]
        BY <2>2, <4>1, <4>2
      <4> QED  BY <3>2, <4>2, <4>3, <4>4, <4>5
    <3> QED  BY <3>1, <3>3
  <2> HIDE DEF T
  <2>3. \A k \in 0 .. n : k \in T
    BY <2>1, <2>2, UpTo
  <2> QED  BY <2>3 DEF T
<1> DEFINE v == ValueOf(bits)
           all == BitsOf(v, n)
<1>6. v \in Nat /\ v = f[n]
  BY <1>3
<1> HIDE DEF v
<1>7. /\ all \in Seq({0, 1}) /\ Len(all) = n
      /\ \A k \in 1 .. n : all[k] = (v \div Power(n - k)) % 2
  BY <1>6, BitsAre
<1>8. ASSUME NEW k \in 1 .. n PROVE all[k] = bits[k]
  <2>1. n - k \in 0 .. n /\ k \in 0 .. n - (n - k) /\ k + (n - k) = n /\ k - 1 \in 0 .. n /\ k \in 0 .. n
    OBVIOUS
  <2>2. f[n] \div Power(n - k) = f[k]
    BY <1>5, <2>1
  <2>3. PICK a \in Nat, b \in {0, 1}, c \in Nat : a = f[k - 1] /\ b = bits[k] /\ c = f[k] /\ c = 2 * a + b
    BY <1>3, <2>1
  <2>4. c % 2 = b
    BY <2>3
  <2> QED  BY <1>6, <1>7, <2>2, <2>3, <2>4
<1> HIDE DEF all
<1>9. all = bits
  BY <1>7, <1>8, SeqEqual
<1>10. v \in 0 .. Power(n) - 1
  <2>1. Power(n) \in Nat
    BY PowersIn
  <2> QED  BY <1>4, <1>6, <2>1
<1> QED  BY <1>9, <1>10 DEF v, all

-----------------------------------------------------------------------------
(* Bytes of bits.                                                            *)
IsLine(line, s, y, length, T) ==
  /\ line \in Seq(T) /\ Len(line) = length
  /\ \A x \in 1 .. length : line[x] = s[Place(length, y, x)]
LEMMA LineIs ==
  ASSUME NEW T, NEW s \in Seq(T), NEW m \in Nat, NEW length \in Nat \ {0}, Len(s) = m * length,
         NEW y \in 1 .. m
  PROVE  IsLine(Line(s, y, length), s, y, length, T)
<1> DEFINE a == (y - 1) * length
           b == y * length
<1>1. a \in Nat /\ b = a + length /\ b \in Nat
  <2>1. y - 1 \in Nat /\ y \in Nat
    OBVIOUS
  <2>2. a \in Nat /\ b \in Nat
    BY <2>1, Product
  <2>3. y * length = (y - 1) * length + length
    OBVIOUS
  <2> QED  BY <2>2, <2>3
<1>2. \A x \in 1 .. length : Place(length, y, x) = a + x
  BY DEF Place
<1>3. Line(s, y, length) = SubSeq(s, a + 1, b)
  BY DEF Line
<1>4. \A x \in 1 .. length : Place(length, y, x) \in 1 .. m * length
  BY PlaceIs
<1> HIDE DEF a, b
<1>5. \A k \in a + 1 .. b : s[k] \in T
  <2> SUFFICES ASSUME NEW k \in a + 1 .. b PROVE s[k] \in T
    OBVIOUS
  <2>1. k - a \in 1 .. length /\ a + (k - a) = k
    BY <1>1
  <2>2. k \in 1 .. Len(s)
    BY <1>2, <1>4, <2>1
  <2> QED  BY <2>2
<1>6. /\ SubSeq(s, a + 1, b) \in Seq(T) /\ Len(SubSeq(s, a + 1, b)) = IF a + 1 <= b THEN b - (a + 1) + 1 ELSE 0
      /\ \A x \in 1 .. b - (a + 1) + 1 : SubSeq(s, a + 1, b)[x] = s[(a + 1) + x - 1]
  <2>1. a + 1 \in Int /\ b \in Int
    BY <1>1
  <2> QED  BY <1>5, <2>1, SubSeqProperties
<1>7. a + 1 <= b /\ b - (a + 1) + 1 = length /\ \A x \in 1 .. length : (a + 1) + x - 1 = a + x
  BY <1>1
<1> QED  BY <1>2, <1>3, <1>6, <1>7 DEF IsLine

ByteBits == 8
LEMMA BytesOfBits ==
  ASSUME NEW m \in Nat, NEW bits \in Seq({0, 1}), Len(bits) = m * ByteBits
  PROVE  /\ ToBytes(bits) \in Seq(Octets) /\ Len(ToBytes(bits)) = m
         /\ ToBits(ToBytes(bits)) = bits
<1> DEFINE B == {0, 1}
           e == ByteBits
           part(k) == Line(bits, k, e)
           bytes == ToBytes(bits)
<1>0. e \in Nat \ {0} /\ e \in 0 .. 16 /\ Len(bits) = m * e /\ bits \in Seq(B)
  BY DEF ByteBits
<1>e. e = 8
  BY DEF ByteBits
<1> HIDE DEF e, B
<1>0a. ASSUME NEW k \in 1 .. m
       PROVE  /\ part(k) \in Seq(B) /\ Len(part(k)) = e
              /\ \A x \in 1 .. e : part(k)[x] = bits[Place(e, k, x)]
  <2>1. IsLine(Line(bits, k, e), bits, k, e, B)
    BY ONLY <1>0, m \in Nat, k \in 1 .. m, LineIs
  <2> QED  BY <2>1 DEF IsLine
<1> HIDE DEF part
<1>1. \A k \in 1 .. m : part(k) \in Seq(B) /\ Len(part(k)) = e
  BY <1>0a
<1>2. \A k \in 1 .. m : \A x \in 1 .. e : part(k)[x] = bits[Place(e, k, x)]
  BY <1>0a
<1>3. Power(e) - 1 = 255
  BY <1>e DEF Power, Powers
<1>4. bytes = [k \in 1 .. m |-> ValueOf(part(k))]
  <2>1. Len(bits) \div 8 = m
    <3>1. Len(bits) = 8 * m + 0
      BY <1>0, <1>e
    <3> QED  BY <3>1, DivOf
  <2>2. \A k \in 1 .. m : 8 * k - 7 = (k - 1) * 8 + 1 /\ 8 * k = k * 8
    OBVIOUS
  <2>3. \A k \in 1 .. m : SubSeq(bits, 8 * k - 7, 8 * k) = part(k)
    BY <1>e, <2>2 DEF Line, part
  <2>4. bytes = [k \in 1 .. m |-> ValueOf(SubSeq(bits, 8 * k - 7, 8 * k))]
    BY <2>1 DEF ToBytes
  <2> HIDE DEF bytes, part
  <2> QED  BY <2>3, <2>4
<1> HIDE DEF part, bytes
<1>5. \A k \in 1 .. m : ValueOf(part(k)) \in Octets /\ BitsOf(ValueOf(part(k)), e) = part(k)
  <2> SUFFICES ASSUME NEW k \in 1 .. m
               PROVE  ValueOf(part(k)) \in Octets /\ BitsOf(ValueOf(part(k)), e) = part(k)
    OBVIOUS
  <2>1. part(k) \in Seq(B) /\ Len(part(k)) = e
    BY <1>1
  <2>2. ValueOf(part(k)) \in 0 .. Power(e) - 1 /\ BitsOf(ValueOf(part(k)), e) = part(k)
    BY <1>0, <2>1, BitsOfValue DEF B
  <2> QED  BY <1>3, <2>2 DEF Octets
<1>6. bytes \in Seq(Octets) /\ Len(bytes) = m
  <2>1. DOMAIN bytes = 1 .. m /\ bytes = [k \in 1 .. m |-> bytes[k]] /\ \A k \in 1 .. m : bytes[k] \in Octets
    BY <1>4, <1>5
  <2> QED  BY <2>1, FunctionIsSeq
<1> DEFINE rows == [k \in DOMAIN bytes |-> BitsOf(bytes[k], e)]
<1>7. Len(rows) = m /\ \A k \in 1 .. m : rows[k] = part(k)
  <2>1. DOMAIN bytes = 1 .. m
    BY <1>4
  <2>2. DOMAIN rows = 1 .. m /\ rows = [k \in 1 .. m |-> rows[k]] /\ \A k \in 1 .. m : rows[k] = part(k)
    BY <1>4, <1>5, <2>1
  <2>3. \A k \in 1 .. m : rows[k] \in {part(j) : j \in 1 .. m}
    BY <2>2
  <2> HIDE DEF rows
  <2>4. Len(rows) = m
    BY <2>2, <2>3, FunctionIsSeq
  <2> QED  BY <2>2, <2>4
<1>8. ToBits(bytes) = InRows(rows, e)
  BY <1>e DEF ToBits
<1> HIDE DEF rows
<1>9. IsInRows(InRows(rows, e), rows, m, e, B)
  <2>1. \A y \in 1 .. m : \A x \in 1 .. e : rows[y][x] \in B
    BY <1>1, <1>7
  <2> QED  BY <1>0, <1>7, <2>1, InRowsIs
<1>10. InRows(rows, e) = bits
  <2> DEFINE r == InRows(rows, e)
  <2>1. r \in Seq(B) /\ Len(r) = m * e
        /\ \A y \in 1 .. m : \A x \in 1 .. e : r[Place(e, y, x)] = rows[y][x]
    BY <1>9 DEF IsInRows
  <2> HIDE DEF r
  <2>1a. ASSUME NEW y \in 1 .. m, NEW x \in 1 .. e PROVE r[Place(e, y, x)] = bits[Place(e, y, x)]
    BY <1>2, <1>7, <2>1
  <2>2. r = bits
    BY <1>0, <2>1, <2>1a, RowsEqual
  <2> QED  BY <2>2 DEF r
<1> QED  BY <1>6, <1>8, <1>10 DEF bytes

-----------------------------------------------------------------------------
(* A line, filtered and restored.                                            *)
LEMMA PredictionIs ==
  ASSUME NEW type \in 0 .. 4, NEW a \in Octets, NEW b \in Octets, NEW c \in Octets
  PROVE  Prediction(type, a, b, c) \in Octets
<1>1. PaethPredictor(a, b, c) \in {a, b, c}
  BY DEF PaethPredictor
<1>2. 0 \in Octets /\ (a + b) \div 2 \in Octets
  BY DEF Octets
<1> DEFINE p == PaethPredictor(a, b, c)
<1>3. p \in Octets
  BY <1>1
<1> HIDE DEF p
<1>4. /\ type = 0 => Prediction(type, a, b, c) = 0
      /\ type = 1 => Prediction(type, a, b, c) = a
      /\ type = 2 => Prediction(type, a, b, c) = b
      /\ type = 3 => Prediction(type, a, b, c) = (a + b) \div 2
      /\ type = 4 => Prediction(type, a, b, c) = p
  BY DEF Prediction, p
<1>5. type = 0 \/ type = 1 \/ type = 2 \/ type = 3 \/ type = 4
  OBVIOUS
<1> QED  BY <1>2, <1>3, <1>4, <1>5

LEMMA AtIs == ASSUME NEW line \in Seq(Octets), NEW k PROVE At(line, k) \in Octets
<1>1. 0 \in Octets
  BY DEF Octets
<1>2. k \in DOMAIN line => line[k] \in Octets
  OBVIOUS
<1> QED  BY <1>1, <1>2 DEF At

(* What is predicted for a place from a line and the line above.             *)
Predicted(line, prev, bytewidth, type, k) ==
  Prediction(type, At(line, k - bytewidth), At(prev, k), At(prev, k - bytewidth))
LEMMA PredictedIs ==
  ASSUME NEW line \in Seq(Octets), NEW prev \in Seq(Octets), NEW type \in 0 .. 4,
         NEW bytewidth, NEW k
  PROVE  Predicted(line, prev, bytewidth, type, k) \in Octets
<1>1. /\ At(line, k - bytewidth) \in Octets /\ At(prev, k) \in Octets
      /\ At(prev, k - bytewidth) \in Octets
  BY AtIs
<1> QED  BY <1>1, PredictionIs DEF Predicted

LEMMA FilteredIs ==
  ASSUME NEW line \in Seq(Octets), NEW prev \in Seq(Octets), NEW type \in 0 .. 4, NEW bytewidth
  PROVE  /\ FilterScanline(line, prev, bytewidth, type) \in Seq(Octets)
         /\ Len(FilterScanline(line, prev, bytewidth, type)) = Len(line)
         /\ \A k \in 1 .. Len(line) : FilterScanline(line, prev, bytewidth, type)[k]
                                        = (line[k] - Predicted(line, prev, bytewidth, type, k)) % 256
<1> DEFINE f == FilterScanline(line, prev, bytewidth, type)
           m == Len(line)
<1>1. m \in Nat /\ DOMAIN line = 1 .. m /\ \A k \in 1 .. m : line[k] \in Octets
  OBVIOUS
<1>2. f = [k \in 1 .. m |-> (line[k] - Predicted(line, prev, bytewidth, type, k)) % 256]
  BY <1>1 DEF FilterScanline, Predicted
<1> HIDE DEF f, m
<1>3. ASSUME NEW k \in 1 .. m
      PROVE  /\ f[k] = (line[k] - Predicted(line, prev, bytewidth, type, k)) % 256
             /\ f[k] \in Octets
  <2>1. f[k] = (line[k] - Predicted(line, prev, bytewidth, type, k)) % 256
    BY <1>2
  <2>2. line[k] \in Octets /\ Predicted(line, prev, bytewidth, type, k) \in Octets
    BY <1>1, PredictedIs
  <2>3. \A a, b \in Octets : (a - b) % 256 \in Octets
    BY DEF Octets
  <2> QED  BY <2>1, <2>2, <2>3
<1>4. DOMAIN f = 1 .. m /\ f = [k \in 1 .. m |-> f[k]]
  BY <1>2
<1>5. f \in Seq(Octets) /\ Len(f) = m
  BY <1>1, <1>3, <1>4, FunctionIsSeq
<1> QED  BY <1>3, <1>5 DEF f, m

(* Restoring, by the number of bytes that have been restored.                *)
UnfilterBy(f, line, prev, bytewidth, type) ==
  f = [n \in 0 .. Len(line) |->
         IF n = 0 THEN << >>
         ELSE Append(f[n - 1], Restored(f[n - 1], line[n], prev, bytewidth, type))]
UnfilterSteps(f, line, prev, bytewidth, type) ==
  /\ UnfilterScanline(line, prev, bytewidth, type) = f[Len(line)] /\ f[0] = << >>
  /\ \A n \in 1 .. Len(line) :
       f[n] = Append(f[n - 1], Restored(f[n - 1], line[n], prev, bytewidth, type))
LEMMA UnfilterIs ==
  ASSUME NEW line \in Seq(Octets), NEW prev \in Seq(Octets), NEW type \in 0 .. 4, NEW bytewidth
  PROVE  \E f : UnfilterSteps(f, line, prev, bytewidth, type)
<1> DEFINE m == Len(line)
           R(x, n) == Append(x, Restored(x, line[n], prev, bytewidth, type))
           recon == CHOOSE f : UnfilterBy(f, line, prev, bytewidth, type)
           step == [z \in (1 .. m) \X Seq(Octets) |-> R(z[2], z[1])]
           P == [n \in 0 .. m |-> Seq(Octets)]
<1>1. m \in Nat /\ \A n \in 1 .. m : line[n] \in Octets
  OBVIOUS
<1>1a. << >> \in Seq(Octets)
  OBVIOUS
<1>2. ASSUME NEW n \in 1 .. m, NEW x \in Seq(Octets)
      PROVE  step[<<n, x>>] = R(x, n) /\ step[<<n, x>>] \in Seq(Octets)
  <2>1. Restored(x, line[n], prev, bytewidth, type) \in Octets
    <3>1. Restored(x, line[n], prev, bytewidth, type)
            = (line[n] + Predicted(x, prev, bytewidth, type, Len(x) + 1)) % 256
      BY DEF Restored, Predicted
    <3>2. Predicted(x, prev, bytewidth, type, Len(x) + 1) \in Octets
      BY PredictedIs
    <3>3. \A a, b \in Octets : (a + b) % 256 \in Octets
      BY DEF Octets
    <3> QED  BY <1>1, <3>1, <3>2, <3>3
  <2>2. R(x, n) \in Seq(Octets)
    BY <2>1, AppendIsSeq, Zenon
  <2>3. step[<<n, x>>] = R(x, n)
    OBVIOUS
  <2> QED  BY <2>2, <2>3
<1>3. \A n \in 0 .. m : P[n] = Seq(Octets)
  OBVIOUS
<1>3a. UnfilterScanline(line, prev, bytewidth, type) = recon[m]
  BY DEF UnfilterScanline, UnfilterBy
<1> HIDE DEF step, P, recon, m
<1>4. Leads(step, P, m) /\ << >> \in P[0]
  <2>1. ASSUME NEW n \in 1 .. m, NEW x \in P[n - 1] PROVE step[<<n, x>>] \in P[n]
    <3>1. P[n - 1] = Seq(Octets) /\ P[n] = Seq(Octets)
      BY <1>1, <1>3
    <3> QED  BY <3>1, <1>2
  <2>2. << >> \in P[0]
    <3>1. 0 \in 0 .. m
      BY <1>1
    <3>2. P[0] = Seq(Octets)
      BY <1>3, <3>1
    <3> QED  BY <3>2, <1>1a
  <2> QED  BY <2>1, <2>2 DEF Leads
<1>5. PICK f : StepsWithin(f, << >>, step, P, m)
  BY <1>1, <1>4, StepsAreThere
<1>5a. /\ f = [n \in 0 .. m |-> IF n = 0 THEN << >> ELSE step[<<n, f[n - 1]>>]]
       /\ \A n \in 0 .. m : f[n] \in Seq(Octets)
  BY <1>3, <1>5 DEF StepsWithin
<1>6. \A n \in 0 .. m : n # 0 => step[<<n, f[n - 1]>>] = R(f[n - 1], n)
  <2>1. ASSUME NEW n \in 0 .. m, n # 0 PROVE step[<<n, f[n - 1]>>] = R(f[n - 1], n)
    <3>1. n \in 1 .. m /\ n - 1 \in 0 .. m
      BY <1>1, <2>1
    <3> QED  BY <3>1, <1>2, <1>5a
  <2> QED  BY <2>1
<1> HIDE DEF R
<1>7. f = [n \in 0 .. m |-> IF n = 0 THEN << >> ELSE R(f[n - 1], n)]
  BY <1>5a, <1>6
<1>8. UnfilterBy(recon, line, prev, bytewidth, type)
  BY <1>7 DEF recon, UnfilterBy, m, R
<1>9. recon = [n \in 0 .. m |-> IF n = 0 THEN << >> ELSE R(recon[n - 1], n)]
  BY <1>8 DEF UnfilterBy, m, R
<1>10. recon[0] = << >> /\ \A n \in 1 .. m : recon[n] = R(recon[n - 1], n)
  BY <1>1, <1>9
<1> QED  BY <1>3a, <1>10 DEF UnfilterSteps, m, R

LEMMA LineRestored ==
  ASSUME NEW line \in Seq(Octets), NEW prev \in Seq(Octets), NEW type \in 0 .. 4,
         NEW bytewidth \in Nat \ {0}
  PROVE  UnfilterScanline(FilterScanline(line, prev, bytewidth, type), prev, bytewidth, type) = line
<1> DEFINE m == Len(line)
           g == FilterScanline(line, prev, bytewidth, type)
           p(k) == Predicted(line, prev, bytewidth, type, k)
<1>1. /\ g \in Seq(Octets) /\ Len(g) = m
      /\ \A k \in 1 .. m : g[k] = (line[k] - p(k)) % 256
  BY FilteredIs
<1>2. \A k \in 1 .. m : line[k] \in Octets /\ p(k) \in Octets
  BY PredictedIs
<1> HIDE DEF g
<1>3. PICK f : UnfilterSteps(f, g, prev, bytewidth, type)
  BY <1>1, UnfilterIs
<1>4. /\ UnfilterScanline(g, prev, bytewidth, type) = f[m] /\ f[0] = << >>
      /\ \A n \in 1 .. m : f[n] = Append(f[n - 1], Restored(f[n - 1], g[n], prev, bytewidth, type))
  BY <1>1, <1>3 DEF UnfilterSteps
<1>5. /\ First(line, 0) = << >> /\ First(line, m) = line
      /\ \A n \in 0 .. m : First(line, n) \in Seq(Octets) /\ Len(First(line, n)) = n
      /\ \A n \in 0 .. m : \A k \in 1 .. n : First(line, n)[k] = line[k]
      /\ \A n \in 0 .. m - 1 : First(line, n + 1) = Append(First(line, n), line[n + 1])
  BY FirstIs
<1>6. m \in Nat
  OBVIOUS
<1> HIDE DEF m
<1> DEFINE T == {n \in 0 .. m : f[n] = First(line, n)}
<1>7. 0 \in T
  BY <1>4, <1>5, <1>6
<1>8. ASSUME NEW n \in 0 .. m - 1, n \in T PROVE n + 1 \in T
  <2>1. n + 1 \in 1 .. m /\ (n + 1) - 1 = n /\ n \in 0 .. m /\ n + 1 \in 0 .. m
    BY <1>6
  <2> DEFINE x == First(line, n)
  <2>2. x \in Seq(Octets) /\ Len(x) = n /\ \A k \in 1 .. n : x[k] = line[k]
    BY <1>5, <2>1
  <2>3. f[n + 1] = Append(x, Restored(x, g[n + 1], prev, bytewidth, type))
    BY <1>4, <1>8, <2>1
  <2> HIDE DEF x
  <2>4. At(x, (n + 1) - bytewidth) = At(line, (n + 1) - bytewidth)
    <3> DEFINE k == (n + 1) - bytewidth
    <3>1. k \in Int /\ k <= n
      BY <2>1
    <3>2. DOMAIN x = 1 .. n /\ DOMAIN line = 1 .. m
      BY <2>2, <1>6 DEF m
    <3> HIDE DEF k
    <3>3. k \in 1 .. n <=> k \in 1 .. m
      <4>1. n <= m /\ n \in Nat
        BY <2>1, <1>6
      <4>2. k \in 1 .. m => k \in 1 .. n
        BY ONLY <3>1, <4>1
      <4>3. k \in 1 .. n => k \in 1 .. m
        BY ONLY <3>1, <4>1, <1>6
      <4> QED  BY <4>2, <4>3
    <3>4. k \in 1 .. n => x[k] = line[k]
      BY <2>2
    <3>5. At(x, k) = At(line, k)
      BY ONLY <3>2, <3>3, <3>4 DEF At
    <3> QED  BY <3>5 DEF k
  <2>5. Restored(x, g[n + 1], prev, bytewidth, type) = (g[n + 1] + p(n + 1)) % 256
    BY <2>2, <2>4 DEF Restored, Predicted
  <2> HIDE DEF p
  <2>6. (g[n + 1] + p(n + 1)) % 256 = line[n + 1]
    <3>1. ASSUME NEW a \in Octets, NEW b \in Octets PROVE (((a - b) % 256) + b) % 256 = a
      <4>1. a \in Int /\ b \in Int /\ 0 <= a /\ a <= 255 /\ 0 <= b /\ b <= 255
        BY DEF Octets
      <4>2. CASE b <= a
        <5>1. (a - b) % 256 = a - b /\ (a - b) + b = a /\ a % 256 = a
          BY ONLY <4>1, <4>2
        <5> QED  BY ONLY <5>1
      <4>3. CASE ~ b <= a
        <5>1. (a - b) % 256 = (a - b) + 256
          BY ONLY <4>1, <4>3
        <5>2. ((a - b) + 256) + b = a + 256 /\ (a + 256) % 256 = a
          BY ONLY <4>1
        <5> QED  BY ONLY <5>1, <5>2
      <4> QED  BY <4>2, <4>3
    <3>2. g[n + 1] = (line[n + 1] - p(n + 1)) % 256 /\ line[n + 1] \in Octets /\ p(n + 1) \in Octets
      BY <1>1, <1>2, <2>1
    <3> QED  BY <3>1, <3>2
  <2>7. First(line, n + 1) = Append(x, line[n + 1])
    BY <1>5, <2>1 DEF x
  <2>8. f[n + 1] = First(line, n + 1)
    BY ONLY <2>3, <2>5, <2>6, <2>7
  <2> QED  BY <2>1, <2>8
<1> HIDE DEF T
<1>9. m \in T
  <2>1. \A n \in 0 .. m : n \in T
    BY <1>6, <1>7, <1>8, UpTo
  <2> QED  BY <2>1, <1>6
<1> QED  BY <1>4, <1>5, <1>9 DEF T, g

-----------------------------------------------------------------------------
(* The lines of an image, filtered and restored.                             *)
BestBy(f, score) == f = [t \in 0 .. 4 |-> IF t = 0 THEN 0 ELSE TheLess(score, f[t - 1], t)]
LEMMA BestTypeIn == \A score : BestType(score) \in 0 .. 4
<1> SUFFICES ASSUME NEW score PROVE BestType(score) \in 0 .. 4
  OBVIOUS
<1> DEFINE best == CHOOSE f : BestBy(f, score)
           step == [z \in (1 .. 4) \X (0 .. 4) |-> TheLess(score, z[2], z[1])]
           P == [n \in 0 .. 4 |-> 0 .. 4]
<1>1. ASSUME NEW n \in 1 .. 4, NEW x \in 0 .. 4
      PROVE  step[<<n, x>>] = TheLess(score, x, n) /\ step[<<n, x>>] \in 0 .. 4
  <2>1. TheLess(score, x, n) = n \/ TheLess(score, x, n) = x
    BY DEF TheLess
  <2> QED  BY <2>1
<1>2. \A n \in 0 .. 4 : P[n] = 0 .. 4
  OBVIOUS
<1>3. BestType(score) = best[4]
  BY DEF BestType, BestBy
<1> HIDE DEF step, P, best
<1>4. Leads(step, P, 4) /\ 0 \in P[0]
  <2>1. ASSUME NEW n \in 1 .. 4, NEW x \in P[n - 1] PROVE step[<<n, x>>] \in P[n]
    <3>1. n - 1 \in 0 .. 4 /\ n \in 0 .. 4
      OBVIOUS
    <3>2. P[n - 1] = 0 .. 4 /\ P[n] = 0 .. 4
      BY <1>2, <3>1
    <3> QED  BY <3>2, <1>1
  <2>2. 0 \in P[0]
    BY <1>2
  <2> QED  BY <2>1, <2>2 DEF Leads
<1>5. PICK f : StepsWithin(f, 0, step, P, 4)
  BY <1>4, StepsAreThere
<1>6. /\ f = [n \in 0 .. 4 |-> IF n = 0 THEN 0 ELSE step[<<n, f[n - 1]>>]]
      /\ \A n \in 0 .. 4 : f[n] \in 0 .. 4
  BY <1>2, <1>5 DEF StepsWithin
<1>7. \A n \in 0 .. 4 : n # 0 => step[<<n, f[n - 1]>>] = TheLess(score, f[n - 1], n)
  <2>1. ASSUME NEW n \in 0 .. 4, n # 0 PROVE step[<<n, f[n - 1]>>] = TheLess(score, f[n - 1], n)
    <3>1. n \in 1 .. 4 /\ n - 1 \in 0 .. 4
      BY <2>1
    <3> QED  BY <3>1, <1>1, <1>6
  <2> QED  BY <2>1
<1>8. BestBy(f, score)
  <2>1. f = [n \in 0 .. 4 |-> IF n = 0 THEN 0 ELSE TheLess(score, f[n - 1], n)]
    BY <1>6, <1>7
  <2> QED  BY <2>1 DEF BestBy
<1>9. BestBy(best, score)
  BY <1>8 DEF best
<1>10. best[0] = 0 /\ \A n \in 1 .. 4 : best[n] = TheLess(score, best[n - 1], n)
  <2>1. best = [n \in 0 .. 4 |-> IF n = 0 THEN 0 ELSE TheLess(score, best[n - 1], n)]
    BY <1>9 DEF BestBy
  <2> QED  BY <2>1
<1>11. \A n \in 1 .. 4 : best[n] = n \/ best[n] = best[n - 1]
  BY <1>10 DEF TheLess
<1>12. best[4] \in 0 .. 4
  <2>1. /\ best[1] = 1 \/ best[1] = best[0]
        /\ best[2] = 2 \/ best[2] = best[1]
        /\ best[3] = 3 \/ best[3] = best[2]
        /\ best[4] = 4 \/ best[4] = best[3]
    <3>1. /\ best[1] = 1 \/ best[1] = best[1 - 1]
          /\ best[2] = 2 \/ best[2] = best[2 - 1]
          /\ best[3] = 3 \/ best[3] = best[3 - 1]
          /\ best[4] = 4 \/ best[4] = best[4 - 1]
      BY <1>11
    <3> QED  BY <3>1
  <2> QED  BY <2>1, <1>10
<1> QED  BY <1>3, <1>12

(* The strategies and, where they are given, the types of the lines.         *)
Prescribes(rule, predefined, h) ==
  /\ rule \in 0 .. PREDEFINED
  /\ rule = PREDEFINED => \A y \in 1 .. h : predefined[y] \in 0 .. 4
LEMMA FilterTypeIn ==
  ASSUME NEW h, NEW y \in 1 .. h, NEW rule, NEW predefined,
         Prescribes(rule, predefined, h), NEW line, NEW prev, NEW bytewidth
  PROVE  FilterType(rule, predefined, y, line, prev, bytewidth) \in 0 .. 4
<1>1. \/ FilterType(rule, predefined, y, line, prev, bytewidth) = rule /\ rule \in 0 .. 4
      \/ /\ FilterType(rule, predefined, y, line, prev, bytewidth) = predefined[y]
         /\ rule = PREDEFINED
      \/ \E s : FilterType(rule, predefined, y, line, prev, bytewidth) = BestType(s)
  BY DEF FilterType
<1> QED  BY <1>1, BestTypeIn DEF Prescribes

Above(bytes, y, lb) == IF y = 1 THEN << >> ELSE Line(bytes, y - 1, lb)
TypeAt(bytes, y, lb, bytewidth, rule, predefined) ==
  FilterType(rule, predefined, y, Line(bytes, y, lb), Above(bytes, y, lb), bytewidth)
RowAt(bytes, y, lb, bytewidth, rule, predefined) ==
  <<TypeAt(bytes, y, lb, bytewidth, rule, predefined)>>
  \o FilterScanline(Line(bytes, y, lb), Above(bytes, y, lb), bytewidth,
                    TypeAt(bytes, y, lb, bytewidth, rule, predefined))

LEMMA LinesAre ==
  ASSUME NEW h \in Nat, NEW lb \in Nat \ {0}, NEW bytes \in Seq(Octets), Len(bytes) = h * lb,
         NEW y \in 1 .. h
  PROVE  /\ Line(bytes, y, lb) \in Seq(Octets) /\ Len(Line(bytes, y, lb)) = lb
         /\ Above(bytes, y, lb) \in Seq(Octets)
<1>1. IsLine(Line(bytes, y, lb), bytes, y, lb, Octets)
  BY LineIs
<1>2. CASE y = 1
  <2>1. Above(bytes, y, lb) = << >> /\ << >> \in Seq(Octets)
    BY <1>2 DEF Above
  <2> QED  BY <1>1, <2>1 DEF IsLine
<1>3. CASE y # 1
  <2>1. y - 1 \in 1 .. h /\ Above(bytes, y, lb) = Line(bytes, y - 1, lb)
    BY <1>3 DEF Above
  <2>2. IsLine(Line(bytes, y - 1, lb), bytes, y - 1, lb, Octets)
    BY <2>1, LineIs
  <2> QED  BY <1>1, <2>1, <2>2 DEF IsLine
<1> QED  BY <1>2, <1>3

IsRow(row, bytes, y, lb, bytewidth, type) ==
  /\ row \in Seq(Octets) /\ Len(row) = 1 + lb /\ row[1] = type /\ type \in 0 .. 4
  /\ Tail(row) = FilterScanline(Line(bytes, y, lb), Above(bytes, y, lb), bytewidth, type)
LEMMA RowIs ==
  ASSUME NEW h \in Nat, NEW lb \in Nat \ {0}, NEW bytes \in Seq(Octets), Len(bytes) = h * lb,
         NEW y \in 1 .. h, NEW bytewidth, NEW rule, NEW predefined,
         Prescribes(rule, predefined, h)
  PROVE  IsRow(RowAt(bytes, y, lb, bytewidth, rule, predefined), bytes, y, lb, bytewidth,
               TypeAt(bytes, y, lb, bytewidth, rule, predefined))
<1> DEFINE type == TypeAt(bytes, y, lb, bytewidth, rule, predefined)
           line == Line(bytes, y, lb)
           prev == Above(bytes, y, lb)
           f == FilterScanline(line, prev, bytewidth, type)
           row == <<type>> \o f
<1>1. type \in 0 .. 4
  BY FilterTypeIn DEF TypeAt
<1>2. line \in Seq(Octets) /\ Len(line) = lb /\ prev \in Seq(Octets)
  BY LinesAre
<1> HIDE DEF type, line, prev
<1>3. f \in Seq(Octets) /\ Len(f) = lb
  BY <1>1, <1>2, FilteredIs
<1> HIDE DEF f
<1>4. type \in Octets
  BY <1>1 DEF Octets
<1>5. row \in Seq(Octets) /\ Len(row) = 1 + lb /\ row[1] = type /\ Tail(row) = f
  <2>1. /\ <<type>> \in Seq(Octets) /\ Len(<<type>>) = 1 /\ <<type>>[1] = type
    BY <1>4
  <2>2. /\ row \in Seq(Octets) /\ Len(row) = 1 + lb
        /\ \A k \in 1 .. 1 + lb : row[k] = IF k <= 1 THEN <<type>>[k] ELSE f[k - 1]
    BY <1>3, <2>1, ConcatProperties
  <2> HIDE DEF row
  <2>3. row[1] = type
    BY <2>1, <2>2
  <2>4. row # << >>
    BY <2>2
  <2>5. /\ Tail(row) \in Seq(Octets) /\ Len(Tail(row)) = lb
        /\ \A k \in 1 .. lb : Tail(row)[k] = row[k + 1]
    BY <2>2, <2>4
  <2>6. \A k \in 1 .. lb : Tail(row)[k] = f[k]
    <3> SUFFICES ASSUME NEW k \in 1 .. lb PROVE Tail(row)[k] = f[k]
      OBVIOUS
    <3>1. k + 1 \in 1 .. 1 + lb /\ ~ k + 1 <= 1 /\ (k + 1) - 1 = k
      OBVIOUS
    <3> QED  BY <2>2, <2>5, <3>1
  <2>7. Tail(row) = f
    BY <1>3, <2>5, <2>6, SeqEqual
  <2> QED  BY <2>2, <2>3, <2>7
<1> QED  BY <1>1, <1>5 DEF IsRow, RowAt, type, line, prev, f, row

(* The filtered image: one row for each line, a type and what is left of it. *)
AreRows(s, bytes, h, lb, bytewidth, rule, predefined) ==
  /\ s \in Seq(Octets) /\ Len(s) = h * (1 + lb)
  /\ \A y \in 1 .. h : Line(s, y, 1 + lb) = RowAt(bytes, y, lb, bytewidth, rule, predefined)
LEMMA FilterIs ==
  ASSUME NEW w, NEW bpp, LineBytes(w, bpp) \in Nat \ {0}, NEW h \in Nat,
         NEW bytes \in Seq(Octets), Len(bytes) = h * LineBytes(w, bpp),
         NEW rule, NEW predefined, Prescribes(rule, predefined, h)
  PROVE  AreRows(Filter(bytes, w, h, bpp, rule, predefined), bytes, h, LineBytes(w, bpp),
                 ByteWidth(bpp), rule, predefined)
<1> DEFINE lb == LineBytes(w, bpp)
           bw == ByteWidth(bpp)
           R(y) == RowAt(bytes, y, lb, bw, rule, predefined)
           rows == [y \in 1 .. h |-> R(y)]
           n == 1 + lb
           s == InRows(rows, n)
<1>1. Filter(bytes, w, h, bpp, rule, predefined) = s
  BY DEF Filter, RowAt, TypeAt, Above
<1>2. lb \in Nat \ {0} /\ Len(bytes) = h * lb
  OBVIOUS
<1> HIDE DEF lb, bw
<1>3. ASSUME NEW y \in 1 .. h PROVE R(y) \in Seq(Octets) /\ Len(R(y)) = n
  <2>1. IsRow(R(y), bytes, y, lb, bw, TypeAt(bytes, y, lb, bw, rule, predefined))
    BY <1>2, RowIs
  <2> QED  BY <2>1 DEF IsRow
<1> HIDE DEF R
<1>4. n \in Nat \ {0}
  BY <1>2
<1> HIDE DEF n
<1>5. Len(rows) = h /\ \A y \in 1 .. h : rows[y] = R(y)
  <2>1. DOMAIN rows = 1 .. h /\ rows = [y \in 1 .. h |-> rows[y]] /\ \A y \in 1 .. h : rows[y] \in Seq(Octets)
    BY <1>3
  <2>2. \A y \in 1 .. h : rows[y] = R(y)
    OBVIOUS
  <2> HIDE DEF rows
  <2>3. Len(rows) = h
    BY <2>1, FunctionIsSeq
  <2> QED  BY <2>2, <2>3
<1> HIDE DEF rows
<1>6. \A y \in 1 .. h : \A x \in 1 .. n : rows[y][x] \in Octets
  BY <1>3, <1>4, <1>5
<1>7. IsInRows(s, rows, h, n, Octets)
  BY <1>4, <1>5, <1>6, InRowsIs
<1> HIDE DEF s
<1>8. s \in Seq(Octets) /\ Len(s) = h * n
  BY <1>7 DEF IsInRows
<1>9. ASSUME NEW y \in 1 .. h PROVE Line(s, y, n) = R(y)
  <2>1. IsLine(Line(s, y, n), s, y, n, Octets)
    BY <1>4, <1>8, LineIs
  <2>2. Line(s, y, n) \in Seq(Octets) /\ Len(Line(s, y, n)) = n
        /\ \A x \in 1 .. n : Line(s, y, n)[x] = s[Place(n, y, x)]
    BY <2>1 DEF IsLine
  <2>3. \A x \in 1 .. n : s[Place(n, y, x)] = R(y)[x]
    BY <1>5, <1>7 DEF IsInRows
  <2> QED  BY <1>3, <2>2, <2>3, SeqEqual
<1> QED  BY <1>1, <1>8, <1>9 DEF AreRows, lb, bw, R, n

(* Lines of the first lines.                                                 *)
LEMMA FirstLines ==
  ASSUME NEW h \in Nat, NEW lb \in Nat \ {0}, NEW bytes \in Seq(Octets), Len(bytes) = h * lb,
         NEW y \in 1 .. h
  PROVE  /\ Above(First(bytes, (y - 1) * lb), y, lb) = Above(bytes, y, lb)
         /\ First(bytes, (y - 1) * lb) \o Line(bytes, y, lb) = First(bytes, y * lb)
<1> DEFINE a == (y - 1) * lb
           b == y * lb
           s == First(bytes, a)
<1>1. a \in Nat /\ b \in Nat /\ b = a + lb
  <2>1. y - 1 \in Nat /\ y \in Nat
    OBVIOUS
  <2>2. y * lb = (y - 1) * lb + lb
    OBVIOUS
  <2> QED  BY <2>1, <2>2, Product
<1>2. b <= Len(bytes)
  <2>1. CASE y = h
    BY <1>1, <2>1
  <2>2. CASE y # h
    <3>1. y < h /\ y \in Nat
      BY <2>2
    <3>2. lb * y + lb <= lb * h
      BY <3>1, Further
    <3>3. lb * y = b /\ lb * h = Len(bytes) /\ Len(bytes) \in Nat
      OBVIOUS
    <3> HIDE DEF b
    <3> QED  BY ONLY <1>1, <3>2, <3>3, lb \in Nat \ {0}
  <2> QED  BY <2>1, <2>2
<1>3. Line(bytes, y, lb) = SubSeq(bytes, a + 1, b) /\ s = SubSeq(bytes, 1, a)
      /\ First(bytes, b) = SubSeq(bytes, 1, b)
  BY DEF Line, First
<1>a. Len(s) = (y - 1) * lb => Len(s) = a
  OBVIOUS
<1>4. s \in Seq(Octets) /\ Len(s) = a /\ \A k \in 1 .. a : s[k] = bytes[k]
  <2>1. a \in 0 .. Len(bytes)
    <3> HIDE DEF a, b
    <3> QED  BY <1>1, <1>2
  <2> HIDE DEF a
  <2> QED  BY <2>1, FirstIs
<1>5. s \o Line(bytes, y, lb) = First(bytes, b)
  <2> HIDE DEF a, b, s
  <2>1. /\ 1 \in 1 .. Len(bytes) + 1 /\ a \in 1 - 1 .. Len(bytes) /\ b \in a .. Len(bytes)
    BY <1>1, <1>2
  <2>2. SubSeq(bytes, 1, a) \o SubSeq(bytes, a + 1, b) = SubSeq(bytes, 1, b)
    BY <2>1, ConcatAdjacentSubSeq
  <2> QED  BY <1>3, <2>2
<1>6. Above(s, y, lb) = Above(bytes, y, lb)
  <2>1. CASE y = 1
    BY <2>1 DEF Above
  <2>2. CASE y # 1
    <3> DEFINE m == y - 1
    <3>1. m \in Nat /\ m \in 1 .. m /\ m \in 1 .. h /\ a = m * lb
      BY <2>2
    <3>2. Above(s, y, lb) = Line(s, m, lb) /\ Above(bytes, y, lb) = Line(bytes, m, lb)
      BY <2>2 DEF Above
    <3> HIDE DEF m, s, a
    <3>3. IsLine(Line(s, m, lb), s, m, lb, Octets) /\ IsLine(Line(bytes, m, lb), bytes, m, lb, Octets)
      BY <1>4, <3>1, LineIs
    <3>4. \A x \in 1 .. lb : Place(lb, m, x) \in 1 .. m * lb
      BY <3>1, PlaceIs
    <3>5. \A x \in 1 .. lb : Line(s, m, lb)[x] = Line(bytes, m, lb)[x]
      BY <1>4, <3>1, <3>3, <3>4 DEF IsLine
    <3>6. /\ Line(s, m, lb) \in Seq(Octets) /\ Line(bytes, m, lb) \in Seq(Octets)
          /\ Len(Line(s, m, lb)) = lb /\ Len(Line(bytes, m, lb)) = lb
      BY <3>3 DEF IsLine
    <3>7. Line(s, m, lb) = Line(bytes, m, lb)
      BY <3>5, <3>6, SeqEqual
    <3> QED  BY <3>2, <3>7
  <2> QED  BY <2>1, <2>2
<1> QED  BY <1>5, <1>6 DEF a, b, s

(* Restoring line by line.                                                   *)
UnfilterRowsBy(f, bytes, h, lb, bytewidth) ==
  f = [y \in 0 .. h |-> IF y = 0 THEN << >>
                        ELSE f[y - 1] \o UnfilteredLine(f[y - 1], bytes, y, lb, bytewidth)]
LEMMA UnfilterOfFilter ==
  ASSUME NEW w, NEW bpp, LineBytes(w, bpp) \in Nat \ {0}, ByteWidth(bpp) \in Nat \ {0}, NEW h \in Nat,
         NEW bytes \in Seq(Octets), Len(bytes) = h * LineBytes(w, bpp),
         NEW rule, NEW predefined, Prescribes(rule, predefined, h)
  PROVE  /\ Unfilter(Filter(bytes, w, h, bpp, rule, predefined), w, h, bpp) = bytes
         /\ ~ BadFilterType(Filter(bytes, w, h, bpp, rule, predefined), w, h, bpp)
<1> DEFINE lb == LineBytes(w, bpp)
           bw == ByteWidth(bpp)
           F == Filter(bytes, w, h, bpp, rule, predefined)
           T(y) == TypeAt(bytes, y, lb, bw, rule, predefined)
           R(y) == RowAt(bytes, y, lb, bw, rule, predefined)
           E(x, y) == x \o UnfilteredLine(x, F, y, lb, bw)
           out == CHOOSE f : UnfilterRowsBy(f, F, h, lb, bw)
           G(y) == First(bytes, y * lb)
<1>1. Unfilter(F, w, h, bpp) = out[h]
  BY DEF Unfilter, UnfilterRowsBy
<1>2. AreRows(F, bytes, h, lb, bw, rule, predefined)
  BY FilterIs
<1>3. lb \in Nat \ {0} /\ bw \in Nat \ {0} /\ Len(bytes) = h * lb
  OBVIOUS
<1>b. BadFilterType(F, w, h, bpp) = \E y \in 1 .. h : F[(y - 1) * (1 + lb) + 1] > 4
  BY DEF BadFilterType
<1> HIDE DEF lb, bw, F, out
<1>4. F \in Seq(Octets) /\ Len(F) = h * (1 + lb) /\ \A y \in 1 .. h : Line(F, y, 1 + lb) = R(y)
  BY <1>2 DEF AreRows
<1>5. \A y \in 1 .. h : IsRow(R(y), bytes, y, lb, bw, T(y))
  BY <1>3, RowIs
<1> HIDE DEF R, T
<1>6. ASSUME NEW y \in 1 .. h PROVE E(G(y - 1), y) = G(y)
  <2> DEFINE x == First(bytes, (y - 1) * lb)
  <2>1. Above(x, y, lb) = Above(bytes, y, lb) /\ x \o Line(bytes, y, lb) = First(bytes, y * lb)
    BY <1>3, FirstLines
  <2>2. G(y - 1) = x /\ G(y) = First(bytes, y * lb)
    OBVIOUS
  <2> HIDE DEF x
  <2>3. UnfilteredLine(x, F, y, lb, bw) = UnfilterScanline(Tail(R(y)), Above(x, y, lb), bw, R(y)[1])
    BY <1>4 DEF UnfilteredLine, Above
  <2>4. /\ Tail(R(y)) = FilterScanline(Line(bytes, y, lb), Above(bytes, y, lb), bw, T(y))
        /\ R(y)[1] = T(y) /\ T(y) \in 0 .. 4
    BY <1>5 DEF IsRow
  <2>5. Line(bytes, y, lb) \in Seq(Octets) /\ Above(bytes, y, lb) \in Seq(Octets)
    BY <1>3, LinesAre
  <2>6. UnfilterScanline(FilterScanline(Line(bytes, y, lb), Above(bytes, y, lb), bw, T(y)),
                         Above(bytes, y, lb), bw, T(y)) = Line(bytes, y, lb)
    BY <1>3, <2>4, <2>5, LineRestored
  <2>7. UnfilteredLine(x, F, y, lb, bw) = Line(bytes, y, lb)
    BY ONLY <2>1, <2>3, <2>4, <2>6
  <2> HIDE DEF G
  <2> QED  BY ONLY <2>1, <2>2, <2>7
<1>7. G(0) = << >> /\ G(h) = bytes
  <2>1. 0 * lb = 0
    BY <1>3
  <2> QED  BY <1>3, <2>1, FirstIs
<1> HIDE DEF E, G
<1> DEFINE g == [y \in 0 .. h |-> G(y)]
<1>8. g = [y \in 0 .. h |-> IF y = 0 THEN << >> ELSE E(g[y - 1], y)]
  <2>1. ASSUME NEW y \in 0 .. h PROVE G(y) = IF y = 0 THEN << >> ELSE E(g[y - 1], y)
    <3>1. CASE y = 0
      BY <1>7, <3>1
    <3>2. CASE y # 0
      <4>1. y \in 1 .. h /\ y - 1 \in 0 .. h
        BY <3>2
      <4> QED  BY <1>6, <3>2, <4>1
    <3> QED  BY <3>1, <3>2
  <2>2. \A y \in 0 .. h : G(y) = IF y = 0 THEN << >> ELSE E(g[y - 1], y)
    BY <2>1
  <2> DEFINE k == [y \in 0 .. h |-> IF y = 0 THEN << >> ELSE E(g[y - 1], y)]
  <2>3. g = k
    BY <2>2
  <2> QED  BY <2>3
<1> HIDE DEF g
<1>9. UnfilterRowsBy(out, F, h, lb, bw)
  <2>1. UnfilterRowsBy(g, F, h, lb, bw)
    BY <1>8 DEF UnfilterRowsBy, E
  <2> QED  BY <2>1 DEF out
<1>10. out = [y \in 0 .. h |-> IF y = 0 THEN << >> ELSE E(out[y - 1], y)]
  BY <1>9 DEF UnfilterRowsBy, E
<1>11. out[0] = << >> /\ \A y \in 1 .. h : out[y] = E(out[y - 1], y)
  BY <1>10
<1> DEFINE S == {y \in 0 .. h : out[y] = G(y)}
<1>12. 0 \in S
  BY <1>7, <1>11
<1>13. ASSUME NEW y \in 0 .. h - 1, y \in S PROVE y + 1 \in S
  <2>1. y + 1 \in 1 .. h /\ (y + 1) - 1 = y /\ y + 1 \in 0 .. h
    OBVIOUS
  <2>2. out[y + 1] = E(out[y], y + 1) /\ E(G(y), y + 1) = G(y + 1) /\ out[y] = G(y)
    BY <1>6, <1>11, <1>13, <2>1
  <2> QED  BY <2>1, <2>2
<1> HIDE DEF S
<1>14. out[h] = bytes
  <2>1. \A y \in 0 .. h : y \in S
    BY <1>12, <1>13, UpTo
  <2>2. h \in S
    BY <2>1
  <2> QED  BY <1>7, <2>2 DEF S
<1>15. ASSUME NEW y \in 1 .. h PROVE ~ F[(y - 1) * (1 + lb) + 1] > 4
  <2> DEFINE n == 1 + lb
  <2>1. n \in Nat \ {0} /\ 1 \in 1 .. n
    BY <1>3
  <2>2. IsLine(Line(F, y, n), F, y, n, Octets)
    <3>1. Len(F) = h * n
      BY <1>4
    <3> HIDE DEF n
    <3> QED  BY <1>4, <2>1, <3>1, LineIs
  <2>3. Line(F, y, n)[1] = F[Place(n, y, 1)]
    BY <2>1, <2>2 DEF IsLine
  <2>4. Line(F, y, n)[1] \in 0 .. 4
    BY <1>4, <1>5 DEF IsRow
  <2>5. F[(y - 1) * n + 1] \in 0 .. 4
    BY <2>3, <2>4 DEF Place
  <2> QED  BY <2>5
<1> QED  BY <1>1, <1>14, <1>b, <1>15 DEF F

-----------------------------------------------------------------------------
(* Lines padded to bytes.                                                    *)
LEMMA PaddedAndBack ==
  ASSUME NEW T, 0 \in T, NEW h \in Nat, NEW short \in Nat \ {0}, NEW long \in Nat, short <= long,
         NEW raw \in Seq(T), Len(raw) = h * short
  PROVE  /\ AddPaddingBits(raw, long, short, h) \in Seq(T)
         /\ Len(AddPaddingBits(raw, long, short, h)) = h * long
         /\ RemovePaddingBits(AddPaddingBits(raw, long, short, h), short, long, h) = raw
<1> DEFINE pad == [x \in 1 .. long - short |-> 0]
           R(y) == Line(raw, y, short) \o pad
           rows == [y \in 1 .. h |-> R(y)]
           s == InRows(rows, long)
<1>1. AddPaddingBits(raw, long, short, h) = s
  BY DEF AddPaddingBits, Line
<1>2. pad \in Seq(T) /\ Len(pad) = long - short
  <2>1. DOMAIN pad = 1 .. long - short /\ pad = [x \in 1 .. long - short |-> pad[x]]
        /\ \A x \in 1 .. long - short : pad[x] \in T
    OBVIOUS
  <2>2. long - short \in Nat
    OBVIOUS
  <2> HIDE DEF pad
  <2> QED  BY <2>1, <2>2, FunctionIsSeq
<1> HIDE DEF pad
<1>3. ASSUME NEW y \in 1 .. h
      PROVE  /\ R(y) \in Seq(T) /\ Len(R(y)) = long
             /\ \A x \in 1 .. short : R(y)[x] = raw[Place(short, y, x)]
  <2> DEFINE l == Line(raw, y, short)
  <2>1. IsLine(l, raw, y, short, T)
    BY LineIs
  <2>2. l \in Seq(T) /\ Len(l) = short /\ \A x \in 1 .. short : l[x] = raw[Place(short, y, x)]
    BY <2>1 DEF IsLine
  <2> HIDE DEF l
  <2>3. /\ l \o pad \in Seq(T) /\ Len(l \o pad) = short + (long - short)
        /\ \A x \in 1 .. short + (long - short) :
             (l \o pad)[x] = IF x <= short THEN l[x] ELSE pad[x - short]
    <3>1. l \in Seq(T) /\ pad \in Seq(T)
      BY <1>2, <2>2
    <3>2. /\ l \o pad \in Seq(T) /\ Len(l \o pad) = Len(l) + Len(pad)
          /\ \A x \in 1 .. Len(l) + Len(pad) :
               (l \o pad)[x] = IF x <= Len(l) THEN l[x] ELSE pad[x - Len(l)]
      BY ONLY <3>1, ConcatProperties
    <3>3. Len(l) = short /\ Len(pad) = long - short
      BY <1>2, <2>2
    <3> QED  BY ONLY <3>2, <3>3
  <2>4. short + (long - short) = long /\ \A x \in 1 .. short : x \in 1 .. long /\ x <= short
    OBVIOUS
  <2>5. R(y) = l \o pad
    BY DEF l
  <2> HIDE DEF R
  <2> QED  BY <2>2, <2>3, <2>4, <2>5
<1> HIDE DEF R
<1>4. Len(rows) = h /\ \A y \in 1 .. h : rows[y] = R(y)
  <2>1. DOMAIN rows = 1 .. h /\ rows = [y \in 1 .. h |-> rows[y]] /\ \A y \in 1 .. h : rows[y] \in Seq(T)
    BY <1>3
  <2>2. \A y \in 1 .. h : rows[y] = R(y)
    OBVIOUS
  <2> HIDE DEF rows
  <2>3. Len(rows) = h
    BY <2>1, FunctionIsSeq
  <2> QED  BY <2>2, <2>3
<1> HIDE DEF rows
<1>5. long \in Nat \ {0}
  OBVIOUS
<1>6. IsInRows(s, rows, h, long, T)
  <2>1. \A y \in 1 .. h : \A x \in 1 .. long : rows[y][x] \in T
    BY <1>3, <1>4
  <2> QED  BY <1>4, <1>5, <2>1, InRowsIs
<1> HIDE DEF s
<1>7. s \in Seq(T) /\ Len(s) = h * long
  BY <1>6 DEF IsInRows
<1>8. ASSUME NEW y \in 1 .. h, NEW x \in 1 .. short
      PROVE  s[Place(long, y, x)] = raw[Place(short, y, x)]
  <2>1. x \in 1 .. long
    OBVIOUS
  <2>2. s[Place(long, y, x)] = rows[y][x]
    BY <1>6, <2>1 DEF IsInRows
  <2> QED  BY <1>3, <1>4, <2>2
<1> DEFINE C(y) == SubSeq(s, (y - 1) * long + 1, (y - 1) * long + short)
           cut == [y \in 1 .. h |-> C(y)]
           t == InRows(cut, short)
<1>9. ASSUME NEW y \in 1 .. h
      PROVE  C(y) \in Seq(T) /\ \A x \in 1 .. short : C(y)[x] = s[Place(long, y, x)]
  <2> DEFINE a == (y - 1) * long
             b == a + short
  <2>1. a \in Nat /\ b \in Nat
    <3>1. y - 1 \in Nat
      OBVIOUS
    <3>2. a \in Nat
      BY <3>1, Product
    <3> QED  BY <3>2
  <2>2. \A x \in 1 .. short : Place(long, y, x) = a + x
    BY DEF Place
  <2>3. C(y) = SubSeq(s, a + 1, b)
    OBVIOUS
  <2> HIDE DEF a
  <2>4. \A x \in 1 .. short : a + x \in 1 .. Len(s)
    <3> SUFFICES ASSUME NEW x \in 1 .. short PROVE a + x \in 1 .. Len(s)
      OBVIOUS
    <3>1. x \in 1 .. long
      OBVIOUS
    <3>2. Place(long, y, x) \in 1 .. h * long
      BY <1>5, <3>1, PlaceIs
    <3> QED  BY <1>7, <2>2, <3>2
  <2>5. \A k \in a + 1 .. b : s[k] \in T
    <3> SUFFICES ASSUME NEW k \in a + 1 .. b PROVE s[k] \in T
      OBVIOUS
    <3>1. k - a \in 1 .. short /\ a + (k - a) = k
      BY <2>1
    <3>2. k \in 1 .. Len(s)
      BY <2>4, <3>1
    <3> QED  BY <1>7, <3>2
  <2>6. /\ SubSeq(s, a + 1, b) \in Seq(T)
        /\ \A x \in 1 .. b - (a + 1) + 1 : SubSeq(s, a + 1, b)[x] = s[(a + 1) + x - 1]
    <3>1. a + 1 \in Int /\ b \in Int
      BY <2>1
    <3> HIDE DEF b
    <3> QED  BY <2>5, <3>1, SubSeqProperties
  <2>7. b - (a + 1) + 1 = short /\ \A x \in 1 .. short : (a + 1) + x - 1 = a + x
    BY <2>1
  <2> HIDE DEF C, b
  <2> QED  BY <2>2, <2>3, <2>6, <2>7
<1>10. RemovePaddingBits(s, short, long, h) = t
  BY DEF RemovePaddingBits
<1> HIDE DEF C
<1>11. Len(cut) = h /\ \A y \in 1 .. h : cut[y] = C(y)
  <2>1. DOMAIN cut = 1 .. h /\ cut = [y \in 1 .. h |-> cut[y]] /\ \A y \in 1 .. h : cut[y] \in Seq(T)
    BY <1>9
  <2>2. \A y \in 1 .. h : cut[y] = C(y)
    OBVIOUS
  <2> HIDE DEF cut
  <2>3. Len(cut) = h
    BY <2>1, FunctionIsSeq
  <2> QED  BY <2>2, <2>3
<1> HIDE DEF cut
<1>12. ASSUME NEW y \in 1 .. h, NEW x \in 1 .. short
       PROVE  cut[y][x] = raw[Place(short, y, x)] /\ cut[y][x] \in T
  <2>1. cut[y][x] = raw[Place(short, y, x)]
    BY <1>8, <1>9, <1>11
  <2>2. Place(short, y, x) \in 1 .. h * short
    BY PlaceIs
  <2> QED  BY <2>1, <2>2
<1>13. IsInRows(t, cut, h, short, T)
  BY <1>11, <1>12, InRowsIs
<1> HIDE DEF t
<1>14. t \in Seq(T) /\ Len(t) = h * short
       /\ \A y \in 1 .. h : \A x \in 1 .. short : t[Place(short, y, x)] = raw[Place(short, y, x)]
  BY <1>12, <1>13 DEF IsInRows
<1>15. t = raw
  BY <1>14, RowsEqual
<1> QED  BY <1>1, <1>7, <1>10, <1>15

LEMMA SizesAre ==
  ASSUME NEW w \in Nat \ {0}, NEW bpp \in Nat \ {0}
  PROVE  /\ LineBytes(w, bpp) \in Nat \ {0} /\ ByteWidth(bpp) \in Nat \ {0}
         /\ w * bpp \in Nat \ {0} /\ w * bpp <= 8 * LineBytes(w, bpp)
<1> DEFINE n == w * bpp
<1>1. n \in Nat \ {0}
  <2>1. w >= 1 /\ bpp >= 1
    OBVIOUS
  <2>2. n \in Nat
    BY Product
  <2>3. n # 0
    OBVIOUS
  <2> QED  BY <2>2, <2>3
<1>2. \A k \in Nat \ {0} : (k + 7) \div 8 \in Nat \ {0} /\ k <= 8 * ((k + 7) \div 8)
  OBVIOUS
<1>3. LineBytes(w, bpp) = (n + 7) \div 8
  BY DEF LineBytes
<1> HIDE DEF n
<1>4. LineBytes(w, bpp) \in Nat \ {0} /\ n <= 8 * LineBytes(w, bpp)
  BY <1>1, <1>2, <1>3
<1>5. ByteWidth(bpp) \in Nat \ {0}
  BY <1>2 DEF ByteWidth
<1> QED  BY <1>1, <1>4, <1>5 DEF n

(* preProcessScanlines, postProcessScanlines (lodepng.cpp): whatever the     *)
(* size, the bits per pixel, the strategy and the types that it chooses for  *)
(* the lines, the decoder gets back the raw image that the encoder had.      *)
THEOREM ScanlinesReadBack ==
  ASSUME NEW w \in Nat \ {0}, NEW h \in Nat \ {0}, NEW bpp \in Nat \ {0},
         NEW raw \in Seq({0, 1}), Len(raw) = h * (w * bpp),
         NEW rule, NEW predefined, Prescribes(rule, predefined, h)
  PROVE  LET bytes == PreProcessScanlines(raw, w, h, bpp, 0, rule, predefined)
         IN  /\ bytes \in Seq(Octets) /\ Len(bytes) = ExpectedSize(w, h, bpp, 0)
             /\ PostProcessScanlines(bytes, w, h, bpp, 0) = Converted(0, raw)
<1> DEFINE lb == LineBytes(w, bpp)
           n == w * bpp
           padded == AddPaddingBits(raw, 8 * lb, n, h)
           octets == ToBytes(padded)
           bytes == Filter(octets, w, h, bpp, rule, predefined)
           m == h * lb
<1>1. PreProcessScanlines(raw, w, h, bpp, 0, rule, predefined) = bytes
  BY DEF PreProcessScanlines, PadAndFilter
<1>2. /\ lb \in Nat \ {0} /\ ByteWidth(bpp) \in Nat \ {0}
      /\ n \in Nat \ {0} /\ n <= 8 * lb
  BY SizesAre
<1> HIDE DEF n
<1>3. /\ padded \in Seq({0, 1}) /\ Len(padded) = h * (8 * lb)
      /\ RemovePaddingBits(padded, n, 8 * lb, h) = raw
  <2> DEFINE T == {0, 1}
             long == 8 * lb
  <2>1. 0 \in T /\ raw \in Seq(T) /\ long \in Nat /\ n <= long /\ Len(raw) = h * n
    BY <1>2 DEF n
  <2> HIDE DEF T, long
  <2>2. /\ AddPaddingBits(raw, long, n, h) \in Seq(T)
        /\ Len(AddPaddingBits(raw, long, n, h)) = h * long
        /\ RemovePaddingBits(AddPaddingBits(raw, long, n, h), n, long, h) = raw
    BY <1>2, <2>1, PaddedAndBack
  <2> QED  BY <2>2 DEF T, long
<1>4. m \in Nat /\ h * (8 * lb) = m * ByteBits
  <2>1. m \in Nat
    BY <1>2, Product
  <2> QED  BY <1>2, <2>1 DEF ByteBits
<1> HIDE DEF padded, m
<1>5. octets \in Seq(Octets) /\ Len(octets) = m /\ ToBits(octets) = padded
  BY <1>3, <1>4, BytesOfBits
<1> HIDE DEF octets
<1>6. /\ Unfilter(bytes, w, h, bpp) = octets
      /\ ~ BadFilterType(bytes, w, h, bpp)
  BY <1>2, <1>5, UnfilterOfFilter DEF m
<1>7. AreRows(bytes, octets, h, lb, ByteWidth(bpp), rule, predefined)
  BY <1>2, <1>5, FilterIs DEF m
<1> HIDE DEF bytes, lb
<1>8. bytes \in Seq(Octets) /\ Len(bytes) = ExpectedSize(w, h, bpp, 0)
  BY <1>7 DEF AreRows, ExpectedSize, IdatSize, lb
<1>9. UnfilterAndUnpad(bytes, w, h, bpp) = raw
  BY <1>3, <1>5, <1>6 DEF UnfilterAndUnpad, lb, n
<1>10. PostProcessScanlines(bytes, w, h, bpp, 0) = Converted(0, raw)
  BY <1>6, <1>9 DEF PostProcessScanlines
<1> QED  BY <1>1, <1>8, <1>10

-----------------------------------------------------------------------------
(* Reading chunks, as triples: from a state in A, the chunks lead to one in  *)
(* B.                                                                        *)
ReadsTo(P, chunks) ==
  \A n \in 1 .. Len(chunks) : \A x \in P[n - 1] : ReadChunk(x, chunks[n]) \in P[n]
Reads(A, chunks, B) ==
  \E P : A \subseteq P[0] /\ ReadsTo(P, chunks) /\ P[Len(chunks)] \subseteq B

ReadBy(f, first, chunks) ==
  f = [n \in 0 .. Len(chunks) |-> IF n = 0 THEN first ELSE ReadChunk(f[n - 1], chunks[n])]
LEMMA ReadsIs ==
  ASSUME NEW T, NEW chunks \in Seq(T), NEW A, NEW B, Reads(A, chunks, B), NEW first \in A
  PROVE  ReadChunks(first, chunks) \in B
<1> DEFINE m == Len(chunks)
           read == CHOOSE f : ReadBy(f, first, chunks)
<1>1. m \in Nat
  OBVIOUS
<1>2. PICK P : A \subseteq P[0] /\ ReadsTo(P, chunks) /\ P[m] \subseteq B
  BY DEF Reads
<1> DEFINE S == UNION {P[n] : n \in 0 .. m}
           R(x, n) == ReadChunk(x, chunks[n])
           step == [z \in (1 .. m) \X S |-> R(z[2], z[1])]
<1>3. \A n \in 0 .. m : \A x \in P[n] : x \in S
  OBVIOUS
<1>4. ASSUME NEW n \in 1 .. m, NEW x \in S PROVE step[<<n, x>>] = R(x, n)
  OBVIOUS
<1>5. \A n \in 1 .. m : \A x \in P[n - 1] : R(x, n) \in P[n]
  BY <1>2 DEF ReadsTo
<1>6. ReadChunks(first, chunks) = read[m]
  BY DEF ReadChunks, ReadBy
<1> HIDE DEF step, S, read, m, R
<1>7. Leads(step, P, m) /\ first \in P[0]
  <2>1. ASSUME NEW n \in 1 .. m, NEW x \in P[n - 1] PROVE step[<<n, x>>] \in P[n]
    <3>1. n - 1 \in 0 .. m
      BY <1>1
    <3>2. x \in S
      BY <1>3, <3>1
    <3> QED  BY <1>4, <1>5, <3>2
  <2> QED  BY <1>2, <2>1 DEF Leads
<1>8. PICK f : StepsWithin(f, first, step, P, m)
  BY <1>1, <1>7, StepsAreThere
<1>9. /\ f = [n \in 0 .. m |-> IF n = 0 THEN first ELSE step[<<n, f[n - 1]>>]]
      /\ \A n \in 0 .. m : f[n] \in P[n]
  BY <1>8 DEF StepsWithin
<1>10. \A n \in 0 .. m : n # 0 => step[<<n, f[n - 1]>>] = R(f[n - 1], n)
  <2>1. ASSUME NEW n \in 0 .. m, n # 0 PROVE step[<<n, f[n - 1]>>] = R(f[n - 1], n)
    <3>1. n \in 1 .. m /\ n - 1 \in 0 .. m
      BY <1>1, <2>1
    <3>2. f[n - 1] \in S
      BY <1>3, <1>9, <3>1
    <3> QED  BY <3>1, <3>2, <1>4
  <2> QED  BY <2>1
<1>11. f = [n \in 0 .. m |-> IF n = 0 THEN first ELSE R(f[n - 1], n)]
  BY <1>9, <1>10
<1>12. ReadBy(f, first, chunks)
  BY <1>11 DEF ReadBy, m, R
<1>13. read = [n \in 0 .. m |-> IF n = 0 THEN first ELSE R(read[n - 1], n)]
  <2>1. ReadBy(read, first, chunks)
    BY <1>12 DEF read
  <2> QED  BY <2>1 DEF ReadBy, m, R
<1>14. read[0] = first /\ \A n \in 1 .. m : read[n] = R(read[n - 1], n)
  BY <1>1, <1>13
<1>15. \A n \in 0 .. m : read[n] \in P[n]
  <2> DEFINE U == {n \in 0 .. m : read[n] \in P[n]}
  <2>1. 0 \in U
    BY <1>1, <1>2, <1>14
  <2>2. ASSUME NEW n \in 0 .. m - 1, n \in U PROVE n + 1 \in U
    <3>1. n + 1 \in 1 .. m /\ (n + 1) - 1 = n
      BY <1>1, <2>2
    <3>2. read[n + 1] = R(read[n], n + 1)
      BY <1>14, <3>1
    <3>3. read[n + 1] \in P[n + 1]
      BY <1>5, <2>2, <3>1, <3>2
    <3> QED  BY <3>1, <3>3
  <2> HIDE DEF U
  <2>4. \A n \in 0 .. m : n \in U
    BY <1>1, <2>1, <2>2, UpTo
  <2> QED  BY <2>4 DEF U
<1>16. read[m] \in B
  BY <1>1, <1>2, <1>15
<1> QED  BY <1>6, <1>16

LEMMA ReadsNone == ASSUME NEW A, NEW B, A \subseteq B PROVE Reads(A, << >>, B)
<1> DEFINE P == [n \in {0} |-> A]
<1>1. P[0] = A /\ Len(<< >>) = 0
  OBVIOUS
<1>2. ReadsTo(P, << >>)
  BY DEF ReadsTo
<1> QED  BY <1>1, <1>2 DEF Reads

LEMMA ReadsOne ==
  ASSUME NEW A, NEW B, NEW c, \A x \in A : ReadChunk(x, c) \in B
  PROVE  Reads(A, <<c>>, B)
<1> DEFINE P == [n \in 0 .. 1 |-> IF n = 0 THEN A ELSE B]
<1>1. P[0] = A /\ P[1] = B /\ Len(<<c>>) = 1 /\ <<c>>[1] = c
  OBVIOUS
<1> HIDE DEF P
<1>2. ASSUME NEW n \in 1 .. 1, NEW x \in P[n - 1] PROVE ReadChunk(x, <<c>>[n]) \in P[n]
  <2>1. n = 1 /\ n - 1 = 0
    OBVIOUS
  <2> QED  BY <1>1, <2>1
<1>3. ReadsTo(P, <<c>>)
  BY <1>1, <1>2 DEF ReadsTo
<1> QED  BY <1>1, <1>3 DEF Reads

LEMMA ReadsAll ==
  ASSUME NEW T, NEW chunks \in Seq(T), NEW A,
         \A k \in 1 .. Len(chunks) : \A x \in A : ReadChunk(x, chunks[k]) \in A
  PROVE  Reads(A, chunks, A)
<1> DEFINE P == [n \in 0 .. Len(chunks) |-> A]
<1>1. Len(chunks) \in Nat
  OBVIOUS
<1>2. \A n \in 0 .. Len(chunks) : P[n] = A
  OBVIOUS
<1> HIDE DEF P
<1>3. ASSUME NEW n \in 1 .. Len(chunks), NEW x \in P[n - 1] PROVE ReadChunk(x, chunks[n]) \in P[n]
  <2>1. n - 1 \in 0 .. Len(chunks) /\ n \in 0 .. Len(chunks)
    BY <1>1
  <2> QED  BY <1>1, <1>2, <2>1
<1>4. ReadsTo(P, chunks)
  BY <1>3 DEF ReadsTo
<1>5. P[0] = A /\ P[Len(chunks)] = A
  BY <1>1, <1>2
<1> QED  BY <1>4, <1>5 DEF Reads

LEMMA ReadsBoth ==
  ASSUME NEW T, NEW a \in Seq(T), NEW b \in Seq(T), NEW A, NEW B, NEW C,
         Reads(A, a, B), Reads(B, b, C)
  PROVE  Reads(A, a \o b, C)
<1> DEFINE m == Len(a)
           n == Len(b)
           s == a \o b
<1>1. m \in Nat /\ n \in Nat
  OBVIOUS
<1>2. /\ Len(s) = m + n
      /\ \A k \in 1 .. m + n : s[k] = IF k <= m THEN a[k] ELSE b[k - m]
  BY ConcatProperties
<1>3. PICK P : A \subseteq P[0] /\ ReadsTo(P, a) /\ P[m] \subseteq B
  BY DEF Reads
<1>4. PICK Q : B \subseteq Q[0] /\ ReadsTo(Q, b) /\ Q[n] \subseteq C
  BY DEF Reads
<1>5. /\ \A k \in 1 .. m : \A x \in P[k - 1] : ReadChunk(x, a[k]) \in P[k]
      /\ \A k \in 1 .. n : \A x \in Q[k - 1] : ReadChunk(x, b[k]) \in Q[k]
  BY <1>3, <1>4 DEF ReadsTo
<1> HIDE DEF m, n, s
<1> DEFINE R == [k \in 0 .. m + n |-> IF k < m THEN P[k] ELSE IF k = m THEN P[m] \cup Q[0] ELSE Q[k - m]]
<1>6. \A k \in 0 .. m + n : /\ k < m => R[k] = P[k]
                            /\ k = m => R[k] = P[m] \cup Q[0]
                            /\ k > m => R[k] = Q[k - m]
  BY <1>1
<1> HIDE DEF R
<1>7. ASSUME NEW k \in 1 .. m + n, NEW x \in R[k - 1] PROVE ReadChunk(x, s[k]) \in R[k]
  <2>0. k - 1 \in 0 .. m + n /\ k \in 0 .. m + n
    BY <1>1
  <2>1. CASE k <= m
    <3>1. k \in 1 .. m /\ k - 1 < m /\ s[k] = a[k]
      BY <1>1, <1>2, <2>1
    <3>2. x \in P[k - 1]
      BY <1>6, <2>0, <3>1
    <3>3. ReadChunk(x, s[k]) \in P[k]
      BY <1>5, <3>1, <3>2
    <3>4. k < m \/ k = m
      BY <1>1, <2>1
    <3> QED  BY <1>6, <2>0, <3>3, <3>4
  <2>2. CASE k > m
    <3>1. k - m \in 1 .. n /\ s[k] = b[k - m] /\ (k - 1) - m = (k - m) - 1
      BY <1>1, <1>2, <2>2
    <3>2. x \in Q[(k - m) - 1]
      <4>1. CASE k - 1 > m
        BY <1>6, <2>0, <3>1, <4>1
      <4>2. CASE k - 1 = m
        <5>1. x \in P[m] \cup Q[0] /\ (k - m) - 1 = 0
          BY <1>1, <1>6, <2>0, <4>2
        <5> QED  BY <1>3, <1>4, <5>1
      <4> QED  BY <1>1, <2>2, <4>1, <4>2
    <3>3. ReadChunk(x, s[k]) \in Q[k - m]
      BY <1>5, <3>1, <3>2
    <3> QED  BY <1>6, <2>0, <2>2, <3>3
  <2> QED  BY <1>1, <2>1, <2>2
<1>8. ReadsTo(R, s)
  BY <1>2, <1>7 DEF ReadsTo
<1>9. A \subseteq R[0]
  <2>1. 0 \in 0 .. m + n /\ (0 < m \/ 0 = m)
    BY <1>1
  <2> QED  BY <1>3, <1>6, <2>1
<1>10. R[m + n] \subseteq C
  <2>1. m + n \in 0 .. m + n
    BY <1>1
  <2>2. CASE n = 0
    <3>1. R[m + n] = P[m] \cup Q[0] /\ Q[0] \subseteq C
      BY <1>1, <1>4, <1>6, <2>1, <2>2
    <3> QED  BY <1>3, <1>4, <3>1
  <2>3. CASE n > 0
    <3>1. m + n > m /\ (m + n) - m = n
      BY <1>1, <2>3
    <3> QED  BY <1>4, <1>6, <2>1, <3>1
  <2> QED  BY <1>1, <2>2, <2>3
<1> QED  BY <1>2, <1>8, <1>9, <1>10 DEF Reads, s

LEMMA SameSeq ==
  ASSUME NEW T, NEW a \in Seq(T), NEW b \in Seq(T), Len(a) = Len(b),
         \A k \in 1 .. Len(a) : a[k] = b[k]
  PROVE  a = b
OBVIOUS

(* Where chunks are inserted in a file.                                      *)
FourParts(f, B, C, D, E, T) ==
  /\ f \in Seq(T) /\ Len(f) = Len(B) + Len(C) + 2
  /\ \A k \in 1 .. Len(B) : f[k] = B[k]
  /\ \A k \in 1 .. Len(C) : f[Len(B) + k] = C[k]
  /\ f[Len(B) + Len(C) + 1] = D /\ f[Len(B) + Len(C) + 2] = E
LEMMA FourPartsIs ==
  ASSUME NEW T, NEW B \in Seq(T), NEW C \in Seq(T), NEW D \in T, NEW E \in T
  PROVE  FourParts(B \o C \o <<D, E>>, B, C, D, E, T)
<1> DEFINE p == B \o C
           f == p \o <<D, E>>
<1>1. /\ p \in Seq(T) /\ Len(p) = Len(B) + Len(C) /\ Len(B) \in Nat /\ Len(C) \in Nat
      /\ \A k \in 1 .. Len(B) : p[k] = B[k]
      /\ \A k \in 1 .. Len(C) : p[Len(B) + k] = C[k]
  OBVIOUS
<1> HIDE DEF p
<1>2. /\ f \in Seq(T) /\ Len(f) = Len(p) + 2
      /\ \A k \in 1 .. Len(p) : f[k] = p[k]
      /\ f[Len(p) + 1] = D /\ f[Len(p) + 2] = E
  BY <1>1
<1> HIDE DEF f
<1>3. \A k \in 1 .. Len(B) : k \in 1 .. Len(p)
  BY <1>1
<1>4. \A k \in 1 .. Len(C) : Len(B) + k \in 1 .. Len(p)
  BY <1>1
<1> QED  BY <1>1, <1>2, <1>3, <1>4 DEF FourParts, f, p

(* What the places are found by.                                             *)
CutAs(B, C, D, E) ==
  /\ D.name = "IDAT" /\ E.name = "IEND"
  /\ \A k \in 1 .. Len(B) : B[k].name \notin {"PLTE", "IDAT", "IEND"}
  /\ \A k \in 1 .. Len(C) : C[k].name \notin {"IDAT", "IEND"}
  /\ C = << >> \/ C[1].name = "PLTE"
LEMMA ChunksInserted ==
  ASSUME NEW T, NEW B \in Seq(T), NEW C \in Seq(T), NEW D \in T, NEW E \in T, NEW chunks,
         NEW f, FourParts(f, B, C, D, E, T), CutAs(B, C, D, E)
  PROVE  InsertChunks(f, chunks) = Rejoined(B, chunks[1], C, chunks[2], D, chunks[3], E)
<1>0. /\ D.name = "IDAT" /\ E.name = "IEND"
      /\ \A k \in 1 .. Len(B) : B[k].name \notin {"PLTE", "IDAT", "IEND"}
      /\ \A k \in 1 .. Len(C) : C[k].name \notin {"IDAT", "IEND"}
      /\ C = << >> \/ C[1].name = "PLTE"
  BY DEF CutAs
<1> DEFINE b == Len(B)
           c == Len(C)
<1>2. /\ b \in Nat /\ c \in Nat /\ f \in Seq(T) /\ Len(f) = b + c + 2
      /\ \A k \in 1 .. b : f[k] = B[k]
      /\ \A k \in 1 .. c : f[b + k] = C[k]
      /\ f[b + c + 1] = D /\ f[b + c + 2] = E
  BY DEF FourParts
<1>2a. b = Len(B) /\ c = Len(C)
  OBVIOUS
<1> HIDE DEF b, c
<1>3. \A k \in DOMAIN f : \/ k \in 1 .. b /\ f[k].name \notin {"PLTE", "IDAT", "IEND"}
                          \/ k \in b + 1 .. b + c /\ f[k].name \notin {"IDAT", "IEND"}
                          \/ k = b + c + 1
                          \/ k = b + c + 2
  <2> SUFFICES ASSUME NEW k \in 1 .. b + c + 2
               PROVE  \/ k \in 1 .. b /\ f[k].name \notin {"PLTE", "IDAT", "IEND"}
                      \/ k \in b + 1 .. b + c /\ f[k].name \notin {"IDAT", "IEND"}
                      \/ k = b + c + 1
                      \/ k = b + c + 2
    BY <1>2
  <2>1. CASE k \in 1 .. b
    BY <1>0, <1>2, <1>2a, <2>1
  <2>2. CASE k \in b + 1 .. b + c
    <3>1. k - b \in 1 .. c /\ b + (k - b) = k
      BY <1>2, <2>2
    <3>2. f[k] = C[k - b]
      BY <1>2, <3>1
    <3> QED  BY <1>0, <1>2a, <2>2, <3>1, <3>2
  <2> QED  BY <1>2, <2>1, <2>2
<1>4. FirstOf(f, {"IEND"}) = b + c + 2
  <2> DEFINE S == {k \in DOMAIN f : f[k].name \in {"IEND"}}
             l == b + c + 2
  <2>1. l \in S /\ l \in Nat
    BY <1>0, <1>2
  <2>2. ASSUME NEW k \in S PROVE k \in Nat /\ l <= k
    <3>1. k \in DOMAIN f /\ f[k].name = "IEND"
      OBVIOUS
    <3> QED  BY <1>0, <1>2, <1>3, <3>1
  <2> HIDE DEF S, l
  <2>3. Min(S) = l
    BY <2>1, <2>2, OnlyMin
  <2> QED  BY <2>3 DEF FirstOf, S, l
<1>5. FirstOf(f, {"IDAT"}) = b + c + 1
  <2> DEFINE S == {k \in DOMAIN f : f[k].name \in {"IDAT"}}
             l == b + c + 1
  <2>1. l \in S /\ l \in Nat
    BY <1>0, <1>2
  <2>2. ASSUME NEW k \in S PROVE k \in Nat /\ l <= k
    <3>1. k \in DOMAIN f /\ f[k].name = "IDAT"
      OBVIOUS
    <3> QED  BY <1>0, <1>2, <1>3, <3>1
  <2> HIDE DEF S, l
  <2>3. Min(S) = l
    BY <2>1, <2>2, OnlyMin
  <2> QED  BY <2>3 DEF FirstOf, S, l
<1>6. FirstOf(f, {"PLTE", "IDAT"}) = b + 1
  <2> DEFINE S == {k \in DOMAIN f : f[k].name \in {"PLTE", "IDAT"}}
             l == b + 1
  <2>1. l \in S /\ l \in Nat
    <3>1. CASE c = 0
      BY <1>0, <1>2, <3>1
    <3>2. CASE c # 0
      <4>1. C # << >> /\ 1 \in 1 .. c /\ b + 1 \in DOMAIN f
        BY <1>2, <1>2a, <3>2
      <4>2. f[b + 1].name = "PLTE"
        BY <1>0, <1>2, <4>1
      <4> QED  BY <1>2, <4>1, <4>2
    <3> QED  BY <3>1, <3>2
  <2>2. ASSUME NEW k \in S PROVE k \in Nat /\ l <= k
    <3>1. k \in DOMAIN f /\ f[k].name \in {"PLTE", "IDAT"}
      OBVIOUS
    <3> QED  BY <1>0, <1>2, <1>3, <3>1
  <2> HIDE DEF S, l
  <2>3. Min(S) = l
    BY <2>1, <2>2, OnlyMin
  <2> QED  BY <2>3 DEF FirstOf, S, l
<1>7. SubSeq(f, 1, (b + 1) - 1) = B
  <2> DEFINE r == SubSeq(f, 1, b)
  <2>0. 1 \in 1 .. Len(f) + 1 /\ b \in 1 - 1 .. Len(f)
    BY <1>2
  <2>1. r \in Seq(T) /\ Len(r) = b - 1 + 1 /\ \A k \in 1 .. b - 1 + 1 : r[k] = f[1 + k - 1]
    BY <1>2, <2>0, PartIs
  <2>2. b - 1 + 1 = b /\ (b + 1) - 1 = b /\ \A k \in 1 .. b : 1 + k - 1 = k
    BY <1>2
  <2>3. Len(r) = Len(B) /\ \A k \in 1 .. Len(r) : r[k] = B[k]
    BY <1>2, <1>2a, <2>1, <2>2
  <2> HIDE DEF r
  <2>4. r = B
    BY <2>1, <2>3, SameSeq
  <2> QED  BY <2>2, <2>4 DEF r
<1>8. SubSeq(f, b + 1, (b + c + 1) - 1) = C
  <2> DEFINE r == SubSeq(f, b + 1, b + c)
  <2>0. b + 1 \in 1 .. Len(f) + 1 /\ b + c \in (b + 1) - 1 .. Len(f)
    BY <1>2
  <2>1. /\ r \in Seq(T) /\ Len(r) = (b + c) - (b + 1) + 1
        /\ \A k \in 1 .. (b + c) - (b + 1) + 1 : r[k] = f[(b + 1) + k - 1]
    BY <1>2, <2>0, PartIs
  <2>2. /\ (b + c) - (b + 1) + 1 = c /\ (b + c + 1) - 1 = b + c
        /\ \A k \in 1 .. c : (b + 1) + k - 1 = b + k
    BY <1>2
  <2>3. Len(r) = Len(C) /\ \A k \in 1 .. Len(r) : r[k] = C[k]
    BY <1>2, <1>2a, <2>1, <2>2
  <2> HIDE DEF r
  <2>4. r = C
    BY <2>1, <2>3, SameSeq
  <2> QED  BY <2>2, <2>4 DEF r
<1>9. SubSeq(f, b + c + 1, (b + c + 2) - 1) = <<D>>
  <2>1. b + c + 1 \in 1 .. Len(f) /\ (b + c + 2) - 1 = b + c + 1
    BY <1>2
  <2> QED  BY <1>2, <2>1, PartOfOne
<1>10. SubSeq(f, b + c + 2, Len(f)) = <<E>>
  <2>1. b + c + 2 \in 1 .. Len(f)
    BY <1>2
  <2> QED  BY <1>2, <2>1, PartOfOne
<1>11. InsertChunks(f, chunks)
         = SubSeq(f, 1, (b + 1) - 1) \o chunks[1] \o SubSeq(f, b + 1, (b + c + 1) - 1)
           \o chunks[2] \o SubSeq(f, b + c + 1, (b + c + 2) - 1) \o chunks[3]
           \o SubSeq(f, b + c + 2, Len(f))
  BY ONLY <1>4, <1>5, <1>6, Zenon DEF InsertChunks
<1>12. InsertChunks(f, chunks) = Rejoined(B, chunks[1], C, chunks[2], D, chunks[3], E)
  BY ONLY <1>7, <1>8, <1>9, <1>10, <1>11, Zenon DEF Rejoined
<1> QED  BY <1>12

-----------------------------------------------------------------------------
LEMMA MaxIs ==
  ASSUME NEW n \in Nat, NEW S, S \subseteq 0 .. n, S # {}
  PROVE  Max(S) \in S /\ \A y \in S : y <= Max(S)
<1> DEFINE R == {n - k : k \in S}
           m == n - Min(R)
<1>1. R \subseteq Nat /\ R # {}
  <2>1. ASSUME NEW x \in R PROVE x \in Nat
    <3>1. PICK k \in S : x = n - k
      OBVIOUS
    <3>2. k \in 0 .. n
      OBVIOUS
    <3> QED  BY <3>1, <3>2
  <2>2. PICK k : k \in S
    OBVIOUS
  <2>3. n - k \in R
    BY <2>2
  <2> HIDE DEF R
  <2> QED  BY <2>1, <2>3
<1>2. Min(R) \in R /\ \A y \in R : Min(R) <= y
  <2> HIDE DEF R
  <2> QED  BY <1>1, MinIs
<1>3. m \in S /\ \A y \in S : y <= m
  <2>1. PICK k \in S : Min(R) = n - k
    BY <1>2
  <2>2. m = k
    BY <2>1
  <2>3. ASSUME NEW y \in S PROVE y <= m
    <3>1. n - y \in R /\ y \in 0 .. n /\ k \in 0 .. n
      OBVIOUS
    <3>2. n - k <= n - y
      BY <1>2, <2>1, <3>1
    <3> QED  BY <2>2, <3>1, <3>2
  <2> QED  BY <2>2, <2>3
<1> HIDE DEF m
<1>4. \A y \in S : m >= y
  BY <1>3
<1>5. Max(S) \in S /\ \A y \in S : Max(S) >= y
  BY <1>3, <1>4 DEF Max
<1> QED  BY <1>5

(* Colors: the alpha of a pixel after its other channels.                    *)
Colors == [1 .. 4 -> Octets]
FirstThree(b, c, d, e, T) ==
  /\ Rgb(<<b, c, d, e>>) = <<b, c, d>> /\ <<b, c, d>> \in Seq(T) /\ Len(<<b, c, d>>) = 3
  /\ \A a \in T : Append(<<b, c, d>>, a) = <<b, c, d, a>>
LEMMA FirstThreeIs ==
  ASSUME NEW T, NEW b \in T, NEW c \in T, NEW d \in T, NEW e \in T
  PROVE  FirstThree(b, c, d, e, T)
<1> DEFINE s == <<b, c, d, e>>
           t == <<b, c, d>>
           r == SubSeq(s, 1, 3)
<1>1. s \in Seq(T) /\ Len(s) = 4 /\ s[1] = b /\ s[2] = c /\ s[3] = d
  OBVIOUS
<1>2. t \in Seq(T) /\ Len(t) = 3 /\ t[1] = b /\ t[2] = c /\ t[3] = d
  OBVIOUS
<1> HIDE DEF s, t
<1>3. r \in Seq(T) /\ Len(r) = 3 /\ r[1] = s[1] /\ r[2] = s[2] /\ r[3] = s[3]
  <2>1. 1 \in 1 .. Len(s) + 1 /\ 3 \in 1 - 1 .. Len(s)
    BY <1>1
  <2>2. r \in Seq(T) /\ Len(r) = 3 - 1 + 1 /\ \A k \in 1 .. 3 - 1 + 1 : r[k] = s[1 + k - 1]
    BY <1>1, <2>1, PartIs
  <2> HIDE DEF r
  <2> QED  BY <2>2
<1> HIDE DEF r
<1>4. r = t
  <2>1. Len(r) = Len(t) /\ \A k \in 1 .. Len(r) : r[k] = t[k]
    BY <1>1, <1>2, <1>3
  <2> QED  BY <1>2, <1>3, <2>1, SameSeq
<1>5. ASSUME NEW a \in T PROVE Append(t, a) = <<b, c, d, a>>
  <2> DEFINE q == Append(t, a)
             u == <<b, c, d, a>>
  <2>1. q \in Seq(T) /\ Len(q) = Len(t) + 1 /\ q[Len(t) + 1] = a /\ \A k \in 1 .. Len(t) : q[k] = t[k]
    <3>1. t \in Seq(T) /\ a \in T
      BY <1>2
    <3> QED  BY ONLY <3>1, AppendProperties
  <2>2. u \in Seq(T) /\ Len(u) = 4 /\ u[1] = b /\ u[2] = c /\ u[3] = d /\ u[4] = a
    OBVIOUS
  <2> HIDE DEF q, u
  <2>3. q[1] = b /\ q[2] = c /\ q[3] = d /\ q[4] = a /\ Len(q) = 4
    BY <1>2, <2>1
  <2>4. Len(q) = Len(u) /\ \A k \in 1 .. Len(q) : q[k] = u[k]
    BY <2>2, <2>3
  <2>5. q = u
    BY <2>1, <2>2, <2>4, SameSeq
  <2> QED  BY <2>5 DEF q, u
<1>6. /\ Rgb(s) = t /\ t \in Seq(T) /\ Len(t) = 3
      /\ \A a \in T : Append(t, a) = <<b, c, d, a>>
  BY <1>2, <1>4, <1>5 DEF r, Rgb
<1> QED  BY <1>6 DEF FirstThree, s, t

ColorOf(p) ==
  /\ Rgb(p) \in Seq(Octets) /\ Len(Rgb(p)) = 3 /\ Rgb(p) = <<p[1], p[2], p[3]>>
  /\ Append(Rgb(p), p[4]) = p
  /\ \A a \in Octets : Append(Rgb(p), a) = <<p[1], p[2], p[3], a>>
LEMMA ColorIs == ASSUME NEW p \in Colors PROVE ColorOf(p)
<1>1. /\ p = <<p[1], p[2], p[3], p[4]>>
      /\ p[1] \in Octets /\ p[2] \in Octets /\ p[3] \in Octets /\ p[4] \in Octets
  BY DEF Colors
<1>2. PICK b \in Octets, c \in Octets, d \in Octets, e \in Octets :
        b = p[1] /\ c = p[2] /\ d = p[3] /\ e = p[4] /\ p = <<b, c, d, e>>
  BY <1>1
<1>3. FirstThree(b, c, d, e, Octets)
  BY FirstThreeIs
<1> QED  BY ONLY <1>2, <1>3, e \in Octets DEF FirstThree, ColorOf

(* The mode of an image that can be written.                                 *)
Shades(key, type) ==
  \/ key = << >>
  \/ type = "GREY" /\ \E v : key = <<v, v, v>>
  \/ type = "RGB" /\ \E u, v, x : key = <<u, v, x>>
IsMode(mode) ==
  /\ mode = ColorMode(mode.colortype, mode.bitdepth, mode.palette, mode.key)
  /\ mode.colortype \in {"GREY", "RGB", "PALETTE", "GREY_ALPHA", "RGBA"}
  /\ ColorValid(mode)
  /\ mode.colortype = "PALETTE" => mode.palette \in Seq(Colors) /\ Len(mode.palette) \in 1 .. MaxPalette
  /\ Shades(mode.key, mode.colortype)
(* A palette is written for nothing else.                                    *)
AsRead(mode) ==
  ColorMode(mode.colortype, mode.bitdepth,
            IF mode.colortype = "PALETTE" THEN mode.palette ELSE << >>, mode.key)

LEMMA AmountIs ==
  ASSUME NEW palette \in Seq(Colors)
  PROVE  /\ AlphaAmount(palette) \in 0 .. Len(palette)
         /\ \A k \in AlphaAmount(palette) + 1 .. Len(palette) : palette[k][4] = 255
<1> DEFINE seen == {k \in DOMAIN palette : palette[k][4] # 255}
           n == Len(palette)
<1>1. n \in Nat /\ DOMAIN palette = 1 .. n
  OBVIOUS
<1>2. \A k \in 1 .. n : k \notin seen => palette[k][4] = 255
  BY <1>1
<1>3. seen \subseteq 1 .. n
  BY <1>1
<1>4. AlphaAmount(palette) = IF seen = {} THEN 0 ELSE Max(seen)
  BY DEF AlphaAmount
<1> HIDE DEF seen, n
<1>5. CASE seen = {}
  <2>1. AlphaAmount(palette) = 0
    BY <1>4, <1>5
  <2> QED  BY <1>1, <1>2, <1>5, <2>1 DEF n
<1>6. CASE seen # {}
  <2>1. seen \subseteq 0 .. n
    BY <1>1, <1>3
  <2>2. Max(seen) \in seen /\ \A y \in seen : y <= Max(seen)
    BY <1>1, <1>6, <2>1, MaxIs
  <2> DEFINE m == Max(seen)
  <2>3. AlphaAmount(palette) = m
    BY <1>4, <1>6
  <2>3a. m \in seen /\ \A y \in seen : y <= m
    BY <2>2
  <2> HIDE DEF m
  <2>3b. m \in 1 .. n
    BY <1>3, <2>3a
  <2>4. ASSUME NEW k \in m + 1 .. n PROVE k \in 1 .. n /\ k \notin seen
    <3>1. k \in 1 .. n /\ ~ (k <= m)
      BY <1>1, <2>3b
    <3> QED  BY <2>3a, <3>1
  <2>5. m \in 0 .. n
    BY <1>1, <2>3b
  <2> QED  BY <1>2, <2>3, <2>4, <2>5 DEF n
<1> QED  BY <1>5, <1>6

-----------------------------------------------------------------------------
(* What is known of the image while its file is read.                        *)
NotYet == FALSE
Empty == << >>
Being(w, h, mode, got) ==
  [ error |-> 0, w |-> w, h |-> h, mode |-> mode, interlace |-> 0, data |-> got, ended |-> NotYet,
    raw |-> Empty ]
Bare(mode) == ColorMode(mode.colortype, mode.bitdepth, << >>, << >>)
Opaque(palette) == [k \in 1 .. Len(palette) |-> Append(Rgb(palette[k]), 255)]
WithOpaque(mode) == ColorMode(mode.colortype, mode.bitdepth, Opaque(mode.palette), << >>)

LEMMA BadStays == ASSUME NEW x, x.error # 0, NEW c PROVE ReadChunk(x, c) = x
BY DEF ReadChunk

WithFirstMode(s, n) == [s EXCEPT !.error = 0, !.mode = n]
WithMode(s, n) == [s EXCEPT !.mode = n]
WithData(s, d) == [s EXCEPT !.data = d]
LEMMA NewMode ==
  ASSUME NEW w, NEW h, NEW m, NEW n, NEW got, NEW s, s = Being(w, h, m, got)
  PROVE  /\ WithFirstMode(s, n) = Being(w, h, n, got)
         /\ WithMode(s, n) = Being(w, h, n, got)
<1> DEFINE F == {"error", "w", "h", "mode", "interlace", "data", "ended", "raw"}
<1>1. DOMAIN s = F /\ s = [k \in F |-> s[k]]
  BY DEF Being
<1>2. [s EXCEPT !.error = 0, !.mode = n] = Being(w, h, n, got)
  <2> DEFINE t == [s EXCEPT !.error = 0, !.mode = n]
             u == Being(w, h, n, got)
  <2>1. DOMAIN u = F /\ u = [k \in F |-> u[k]]
    BY DEF Being
  <2>2. t = [k \in F |-> IF k = "error" THEN 0 ELSE IF k = "mode" THEN n ELSE s[k]]
    BY <1>1
  <2>3. \A k \in F : u[k] = IF k = "error" THEN 0 ELSE IF k = "mode" THEN n ELSE s[k]
    BY DEF Being
  <2> HIDE DEF t, u, F
  <2>4. t = u
    BY <2>1, <2>2, <2>3
  <2> QED  BY <2>4 DEF t, u
<1>3. [s EXCEPT !.mode = n] = Being(w, h, n, got)
  <2> DEFINE t == [s EXCEPT !.mode = n]
             u == Being(w, h, n, got)
  <2>1. DOMAIN u = F /\ u = [k \in F |-> u[k]]
    BY DEF Being
  <2>2. t = [k \in F |-> IF k = "mode" THEN n ELSE s[k]]
    BY <1>1
  <2>3. \A k \in F : u[k] = IF k = "mode" THEN n ELSE s[k]
    BY DEF Being
  <2> HIDE DEF t, u, F
  <2>4. t = u
    BY <2>1, <2>2, <2>3
  <2> QED  BY <2>4 DEF t, u
<1> QED  BY <1>2, <1>3 DEF WithFirstMode, WithMode

LEMMA NewData ==
  ASSUME NEW w, NEW h, NEW m, NEW got, NEW d, NEW s, s = Being(w, h, m, got)
  PROVE  WithData(s, d) = Being(w, h, m, d)
<1> DEFINE F == {"error", "w", "h", "mode", "interlace", "data", "ended", "raw"}
<1>1. DOMAIN s = F /\ s = [k \in F |-> s[k]]
  BY DEF Being
<1>2. [s EXCEPT !.data = d] = Being(w, h, m, d)
  <2> DEFINE t == [s EXCEPT !.data = d]
             u == Being(w, h, m, d)
  <2>1. DOMAIN u = F /\ u = [k \in F |-> u[k]]
    BY DEF Being
  <2>2. t = [k \in F |-> IF k = "data" THEN d ELSE s[k]]
    BY <1>1
  <2>3. \A k \in F : u[k] = IF k = "data" THEN d ELSE s[k]
    BY DEF Being
  <2> HIDE DEF t, u, F
  <2>4. t = u
    BY <2>1, <2>2, <2>3
  <2> QED  BY <2>4 DEF t, u
<1> QED  BY <1>2 DEF WithData

LEMMA HeaderRead ==
  ASSUME NEW w \in Nat \ {0}, NEW h \in Nat \ {0}, NEW mode, IsMode(mode)
  PROVE  /\ Header(w, h, mode, 0).name = "IHDR"
         /\ ReadIHDR(NothingRead, Header(w, h, mode, 0).data) = Being(w, h, Bare(mode), Empty)
<1> DEFINE d == Header(w, h, mode, 0).data
<1>1. /\ Header(w, h, mode, 0).name = "IHDR"
      /\ d[1] = w /\ d[2] = h /\ d[3] = mode.colortype /\ d[4] = mode.bitdepth /\ d[5] = 0
  BY DEF Header, Chunk
<1> HIDE DEF d
<1>2. ColorValid(Bare(mode))
  <2>1. Bare(mode).colortype = mode.colortype /\ Bare(mode).bitdepth = mode.bitdepth
    BY DEF Bare, ColorMode
  <2> QED  BY <2>1 DEF IsMode, ColorValid
<1>3. ColorMode(d[3], d[4], << >>, << >>) = Bare(mode)
  BY <1>1 DEF Bare
<1>4. w # 0 /\ h # 0
  OBVIOUS
<1>5. ReadIHDR(NothingRead, d) = [NothingRead EXCEPT !.w = w, !.h = h, !.mode = Bare(mode),
                                                    !.interlace = 0, !.error = 0]
  BY <1>1, <1>2, <1>3, <1>4 DEF ReadIHDR
<1>6. ReadIHDR(NothingRead, d) = Being(w, h, Bare(mode), Empty)
  BY <1>5 DEF NothingRead, Being, NotYet, Empty
<1> QED  BY <1>1, <1>6 DEF d

LEMMA PaletteRead ==
  ASSUME NEW w, NEW h, NEW mode, IsMode(mode), mode.colortype = "PALETTE"
  PROVE  \E p : /\ AddPLTE(mode) = <<p>> /\ p.name = "PLTE"
                /\ ReadChunk(Being(w, h, Bare(mode), Empty), p)
                     = Being(w, h, WithOpaque(mode), Empty)
<1> DEFINE palette == mode.palette
           n == Len(palette)
           d == [k \in DOMAIN palette |-> Rgb(palette[k])]
           p == Chunk("PLTE", d)
           s == Being(w, h, Bare(mode), Empty)
           T == Seq(Octets)
<1>1. palette \in Seq(Colors) /\ n \in 1 .. MaxPalette /\ DOMAIN palette = 1 .. n /\ n \in Nat
  BY DEF IsMode
<1>2. AddPLTE(mode) = <<p>> /\ p.name = "PLTE" /\ p.data = d
  BY DEF AddPLTE, Chunk
<1>3. \A k \in 1 .. n : Rgb(palette[k]) \in T
  <2>1. ASSUME NEW k \in 1 .. n PROVE Rgb(palette[k]) \in T
    <3>1. palette[k] \in Colors
      BY <1>1
    <3> QED  BY <3>1, ColorIs DEF ColorOf
  <2> QED  BY <2>1
<1>4. /\ DOMAIN d = 1 .. n /\ d = [k \in 1 .. n |-> d[k]]
      /\ \A k \in 1 .. n : d[k] \in T /\ d[k] = Rgb(palette[k])
  BY <1>1, <1>3
<1> HIDE DEF d, T, p
<1>5. Len(d) = n
  BY <1>1, <1>4, FunctionIsSeq
<1>6. [k \in DOMAIN d |-> Append(d[k], 255)] = Opaque(palette)
  BY <1>4 DEF Opaque
<1>7. s.error = 0 /\ ~ s.ended
  BY DEF Being, NotYet
<1>8. ReadChunk(s, p) = ReadPLTE(s, d)
  BY <1>2, <1>7 DEF ReadChunk
<1>9. ReadPLTE(s, d) = [s EXCEPT !.error = 0, !.mode.palette = Opaque(palette)]
  BY <1>1, <1>5, <1>6 DEF ReadPLTE
<1>10. [s EXCEPT !.error = 0, !.mode.palette = Opaque(palette)]
         = Being(w, h, WithOpaque(mode), Empty)
  <2> DEFINE o == Opaque(palette)
             m == WithOpaque(mode)
  <2>1. [Bare(mode) EXCEPT !.palette = o] = m
    BY DEF Bare, WithOpaque, ColorMode
  <2>2. s.mode = Bare(mode)
    BY DEF Being
  <2> HIDE DEF o, m
  <2>3. [s EXCEPT !.error = 0, !.mode.palette = o] = WithFirstMode(s, m)
    BY ONLY <2>1, <2>2 DEF WithFirstMode
  <2>3a. s = Being(w, h, Bare(mode), Empty)
    OBVIOUS
  <2> HIDE DEF s
  <2>4. WithFirstMode(s, m) = Being(w, h, m, Empty)
    BY ONLY <2>3a, NewMode
  <2> QED  BY <2>3, <2>4 DEF o, m
<1> QED  BY <1>2, <1>8, <1>9, <1>10

(* What tRNS adds.                                                           *)
LEMMA OpaqueIs ==
  ASSUME NEW palette \in Seq(Colors)
  PROVE  /\ Len(Opaque(palette)) = Len(palette) /\ DOMAIN Opaque(palette) = 1 .. Len(palette)
         /\ \A k \in 1 .. Len(palette) :
              /\ palette[k][4] = 255 => Opaque(palette)[k] = palette[k]
              /\ Append(Rgb(Opaque(palette)[k]), palette[k][4]) = palette[k]
<1> DEFINE n == Len(palette)
           o == Opaque(palette)
<1>1. n \in Nat
  OBVIOUS
<1>2. /\ DOMAIN o = 1 .. n /\ o = [k \in 1 .. n |-> o[k]]
      /\ \A k \in 1 .. n : o[k] = Append(Rgb(palette[k]), 255)
  BY DEF Opaque
<1> HIDE DEF o
<1>3. ASSUME NEW k \in 1 .. n
      PROVE  /\ o[k] \in Colors
             /\ palette[k][4] = 255 => o[k] = palette[k]
             /\ Append(Rgb(o[k]), palette[k][4]) = palette[k]
  <2> DEFINE p == palette[k]
  <2>1. p \in Colors
    OBVIOUS
  <2>2. o[k] = Append(Rgb(p), 255)
    BY <1>2
  <2> HIDE DEF p
  <2>3. ColorOf(p) /\ 255 \in Octets
    BY <2>1, ColorIs DEF Octets
  <2>4. o[k] = <<p[1], p[2], p[3], 255>>
    BY <2>2, <2>3 DEF ColorOf
  <2>5. o[k] \in Colors /\ o[k][1] = p[1] /\ o[k][2] = p[2] /\ o[k][3] = p[3]
    <3>1. p[1] \in Octets /\ p[2] \in Octets /\ p[3] \in Octets
      BY <2>1 DEF Colors
    <3> QED  BY <2>3, <2>4, <3>1 DEF Colors
  <2>6. Rgb(o[k]) = Rgb(p)
    <3>1. ColorOf(o[k])
      BY <2>5, ColorIs
    <3> QED  BY <2>3, <2>5, <3>1 DEF ColorOf
  <2>7. Append(Rgb(o[k]), p[4]) = p
    BY <2>3, <2>6 DEF ColorOf
  <2>8. p[4] = 255 => o[k] = p
    BY <2>2, <2>3 DEF ColorOf
  <2> QED  BY <2>5, <2>7, <2>8 DEF p
<1>4. Len(o) = n
  BY <1>1, <1>2, <1>3, FunctionIsSeq
<1> QED  BY <1>2, <1>3, <1>4 DEF o

Before(mode) == IF mode.colortype = "PALETTE" THEN WithOpaque(mode) ELSE Bare(mode)
MetaRead(w, h, mode) ==
  \/ AddTRNS(mode) = << >> /\ Before(mode) = AsRead(mode)
  \/ \E t : /\ AddTRNS(mode) = <<t>> /\ t.name = "tRNS"
            /\ ReadChunk(Being(w, h, Before(mode), Empty), t) = Being(w, h, AsRead(mode), Empty)

LEMMA PaletteMetaRead ==
  ASSUME NEW w, NEW h, NEW mode, IsMode(mode), mode.colortype = "PALETTE"
  PROVE  MetaRead(w, h, mode)
<1> DEFINE palette == mode.palette
           n == AlphaAmount(palette)
           m == Len(palette)
           d == [k \in 1 .. n |-> palette[k][4]]
           o == Opaque(palette)
           t == Chunk("tRNS", d)
           s == Being(w, h, WithOpaque(mode), Empty)
<1>1. palette \in Seq(Colors) /\ m \in Nat /\ DOMAIN palette = 1 .. m /\ palette = [k \in 1 .. m |-> palette[k]]
  BY DEF IsMode
<1>2. n \in 0 .. m /\ \A k \in n + 1 .. m : palette[k][4] = 255
  BY <1>1, AmountIs
<1>3. /\ Len(o) = m /\ DOMAIN o = 1 .. m /\ o = [k \in 1 .. m |-> o[k]]
      /\ \A k \in 1 .. m : /\ palette[k][4] = 255 => o[k] = palette[k]
                           /\ Append(Rgb(o[k]), palette[k][4]) = palette[k]
  <2>1. o = [k \in 1 .. m |-> o[k]]
    BY DEF Opaque
  <2> QED  BY <1>1, <2>1, OpaqueIs
<1>4. mode.key = << >>
  BY DEF IsMode, Shades
<1>5. Before(mode) = WithOpaque(mode)
  BY DEF Before
<1>6. AsRead(mode) = ColorMode("PALETTE", mode.bitdepth, palette, << >>)
  BY <1>4 DEF AsRead
<1>7. /\ DOMAIN d = 1 .. n /\ d = [k \in 1 .. n |-> d[k]]
      /\ \A k \in 1 .. n : d[k] = palette[k][4] /\ d[k] \in Octets
  <2>1. ASSUME NEW k \in 1 .. n PROVE palette[k][4] \in Octets
    <3>1. palette[k] \in Colors
      BY <1>1, <1>2
    <3> QED  BY <3>1 DEF Colors
  <2> QED  BY <2>1
<1>8. AddTRNS(mode) = IF d # << >> THEN <<t>> ELSE << >>
  BY DEF AddTRNS
<1> HIDE DEF n, m, d, o
<1>9. Len(d) = n
  BY <1>2, <1>7, FunctionIsSeq
<1>10. CASE n = 0
  <2>1. AddTRNS(mode) = << >>
    <3>1. d \in Seq(Octets)
      BY <1>2, <1>7, FunctionIsSeq
    <3>2. d = << >>
      BY <1>9, <1>10, <3>1
    <3> QED  BY <1>8, <3>2
  <2>2. o = palette
    <3>1. \A k \in 1 .. m : o[k] = palette[k]
      BY <1>1, <1>2, <1>3, <1>10
    <3> HIDE DEF palette
    <3> QED  BY <1>1, <1>3, <3>1
  <2>3. WithOpaque(mode) = AsRead(mode)
    BY <1>6, <2>2 DEF WithOpaque, o
  <2> QED  BY <1>5, <2>1, <2>3 DEF MetaRead
<1>11. CASE n # 0
  <2>1. AddTRNS(mode) = <<t>> /\ t.name = "tRNS" /\ t.data = d
    <3>1. d # << >>
      BY <1>9, <1>11
    <3> HIDE DEF t
    <3>2. AddTRNS(mode) = <<t>>
      BY <1>8, <3>1
    <3> QED  BY <3>2 DEF t, Chunk
  <2>2. /\ s.error = 0 /\ ~ s.ended /\ s.mode = WithOpaque(mode) /\ s.mode.palette = o
        /\ s.mode.colortype = "PALETTE"
    BY DEF Being, NotYet, WithOpaque, ColorMode, o
  <2> DEFINE both == [k \in DOMAIN o |-> IF k \in DOMAIN d THEN Append(Rgb(o[k]), d[k]) ELSE o[k]]
  <2>3. both = palette
    <3>1. ASSUME NEW k \in 1 .. m PROVE both[k] = palette[k]
      <4>1. CASE k \in 1 .. n
        <5>1. both[k] = Append(Rgb(o[k]), d[k])
          BY <1>3, <1>7, <4>1
        <5> QED  BY <1>3, <1>7, <4>1, <5>1
      <4>2. CASE k \notin 1 .. n
        <5>1. both[k] = o[k] /\ k \in n + 1 .. m
          BY <1>1, <1>2, <1>3, <1>7, <4>2
        <5> QED  BY <1>2, <1>3, <5>1
      <4> QED  BY <4>1, <4>2
    <3>2. DOMAIN both = 1 .. m /\ both = [k \in 1 .. m |-> both[k]]
      BY <1>3
    <3> HIDE DEF both, palette
    <3> QED  BY <1>1, <3>1, <3>2
  <2>4. ReadTRNS(s, d) = [s EXCEPT !.mode.palette = both]
    <3>1. Len(d) <= Len(o)
      BY <1>1, <1>2, <1>3, <1>9
    <3> HIDE DEF s, both, palette
    <3>2. ReadTRNS(s, d)
            = [s EXCEPT !.mode.palette =
                 [k \in DOMAIN o |-> IF k \in DOMAIN d THEN Append(Rgb(o[k]), d[k]) ELSE o[k]]]
      BY ONLY <2>2, <3>1 DEF ReadTRNS
    <3> QED  BY ONLY <3>2 DEF both
  <2>5. ReadChunk(s, t) = ReadTRNS(s, d)
    <3> HIDE DEF s, t
    <3> QED  BY ONLY <2>1, <2>2 DEF ReadChunk
  <2>6. [WithOpaque(mode) EXCEPT !.palette = palette] = AsRead(mode)
    BY <1>6 DEF WithOpaque, ColorMode
  <2> HIDE DEF s, both, t, palette
  <2>7. ReadChunk(s, t) = WithMode(s, AsRead(mode))
    <3>1. ReadChunk(s, t) = [s EXCEPT !.mode.palette = palette]
      BY ONLY <2>3, <2>4, <2>5
    <3>2. [s EXCEPT !.mode.palette = palette] = [s EXCEPT !.mode = AsRead(mode)]
      BY ONLY <2>2, <2>6
    <3> QED  BY ONLY <3>1, <3>2 DEF WithMode
  <2>8. WithMode(s, AsRead(mode)) = Being(w, h, AsRead(mode), Empty)
    <3>1. s = Being(w, h, WithOpaque(mode), Empty)
      BY DEF s
    <3> QED  BY ONLY <3>1, NewMode
  <2>9. ReadChunk(Being(w, h, Before(mode), Empty), t) = Being(w, h, AsRead(mode), Empty)
    BY <1>5, <2>7, <2>8 DEF s
  <2> QED  BY <2>1, <2>9 DEF MetaRead
<1> QED  BY <1>10, <1>11

LEMMA KeyMetaRead ==
  ASSUME NEW w, NEW h, NEW mode, IsMode(mode), mode.colortype # "PALETTE"
  PROVE  MetaRead(w, h, mode)
<1> DEFINE type == mode.colortype
           key == mode.key
           s == Being(w, h, Bare(mode), Empty)
<1>1. Before(mode) = Bare(mode)
  BY DEF Before
<1>2. AsRead(mode) = ColorMode(type, mode.bitdepth, << >>, key)
  BY DEF AsRead
<1>3. CASE key = << >>
  <2>1. AddTRNS(mode) = << >>
    BY <1>3 DEF AddTRNS
  <2>2. Bare(mode) = AsRead(mode)
    BY <1>2, <1>3 DEF Bare
  <2> QED  BY <1>1, <2>1, <2>2 DEF MetaRead
<1>4. CASE key # << >>
  <2>1. PICK d : /\ AddTRNS(mode) = <<Chunk("tRNS", d)>>
                 /\ ReadTRNS(s, d) = [s EXCEPT !.mode.key = key]
    <3> DEFINE b == Bare(mode)
    <3>0. s.mode = b /\ b.colortype = type
      BY DEF Being, Bare, ColorMode
    <3>1. CASE type = "GREY"
      <4>1. PICK v : key = <<v, v, v>>
        BY <1>4, <3>1 DEF IsMode, Shades
      <4> DEFINE d == SubSeq(key, 1, 1)
      <4>2. d = <<v>>
        <5>1. <<v, v, v>> \in Seq({v}) /\ Len(<<v, v, v>>) = 3 /\ <<v, v, v>>[1] = v
          OBVIOUS
        <5>2. 1 \in 1 .. 3
          OBVIOUS
        <5>3. SubSeq(<<v, v, v>>, 1, 1) = <<(<<v, v, v>>[1])>>
          BY ONLY <5>1, <5>2, PartOfOne
        <5> QED  BY ONLY <4>1, <5>1, <5>3 DEF d
      <4>3. AddTRNS(mode) = <<Chunk("tRNS", d)>>
        BY <1>4, <3>1 DEF AddTRNS
      <4> HIDE DEF d, s
      <4>4. Len(d) = 1 /\ d[1] = v
        BY <4>2
      <4>5. ReadTRNS(s, d) = [s EXCEPT !.mode.key = <<d[1], d[1], d[1]>>]
        BY <3>0, <3>1, <4>4 DEF ReadTRNS
      <4> QED  BY <4>1, <4>3, <4>4, <4>5
    <3>2. CASE type = "RGB"
      <4>1. PICK u, v, x : key = <<u, v, x>>
        BY <1>4, <3>2 DEF IsMode, Shades
      <4>2. AddTRNS(mode) = <<Chunk("tRNS", key)>>
        BY <1>4, <3>2 DEF AddTRNS
      <4>3. Len(key) = 3
        BY <4>1
      <4> HIDE DEF s
      <4>4. ReadTRNS(s, key) = [s EXCEPT !.mode.key = key]
        BY <3>0, <3>2, <4>3 DEF ReadTRNS
      <4> QED  BY <4>2, <4>4
    <3> QED  BY <1>4, <3>1, <3>2 DEF IsMode, Shades
  <2> DEFINE t == Chunk("tRNS", d)
  <2>2. t.name = "tRNS" /\ t.data = d
    BY DEF Chunk
  <2>3. s.error = 0 /\ ~ s.ended /\ s.mode = Bare(mode)
    BY DEF Being, NotYet
  <2>4. AddTRNS(mode) = <<t>>
    BY <2>1
  <2> HIDE DEF t, s
  <2>5. ReadChunk(s, t) = ReadTRNS(s, d)
    BY ONLY <2>2, <2>3 DEF ReadChunk
  <2>6. [Bare(mode) EXCEPT !.key = key] = AsRead(mode)
    BY <1>2 DEF Bare, ColorMode
  <2> HIDE DEF key
  <2>7. ReadChunk(s, t) = WithMode(s, AsRead(mode))
    <3>1. ReadChunk(s, t) = [s EXCEPT !.mode.key = key]
      BY ONLY <2>1, <2>5
    <3>2. [s EXCEPT !.mode.key = key] = [s EXCEPT !.mode = AsRead(mode)]
      BY ONLY <2>3, <2>6
    <3> QED  BY ONLY <3>1, <3>2 DEF WithMode
  <2>8. WithMode(s, AsRead(mode)) = Being(w, h, AsRead(mode), Empty)
    <3>1. s = Being(w, h, Bare(mode), Empty)
      BY DEF s
    <3> QED  BY ONLY <3>1, NewMode
  <2>9. ReadChunk(Being(w, h, Before(mode), Empty), t) = Being(w, h, AsRead(mode), Empty)
    BY <1>1, <2>7, <2>8 DEF s
  <2> QED  BY <2>2, <2>4, <2>9 DEF MetaRead
<1> QED  BY <1>3, <1>4

(* A file is its first chunk and what is put after it.                       *)
After(f, x, T) == f \in Seq(T) /\ f # << >> /\ f[1] = x /\ Tail(f) \in Seq(T)
LEMMA AfterOne == ASSUME NEW T, NEW x \in T PROVE After(<<x>>, x, T) /\ Tail(<<x>>) = << >>
BY DEF After
LEMMA AfterBoth ==
  ASSUME NEW T, NEW f, NEW x, After(f, x, T), NEW g \in Seq(T)
  PROVE  After(f \o g, x, T) /\ Tail(f \o g) = Tail(f) \o g
<1> DEFINE m == Len(f)
           n == Len(g)
           s == f \o g
           a == Tail(f)
           l == Tail(s)
           r == a \o g
<1>1. f \in Seq(T) /\ m \in Nat \ {0} /\ n \in Nat /\ f[1] = x
  BY DEF After
<1>2. /\ s \in Seq(T) /\ Len(s) = m + n
      /\ \A k \in 1 .. m + n : s[k] = IF k <= m THEN f[k] ELSE g[k - m]
  BY <1>1, ConcatProperties
<1>3. s # << >> /\ s[1] = x
  <2> HIDE DEF s
  <2> QED  BY <1>1, <1>2
<1>4. a \in Seq(T) /\ Len(a) = m - 1 /\ \A k \in 1 .. m - 1 : a[k] = f[k + 1]
  <2>1. f # << >>
    BY DEF After
  <2>2. a \in Seq(T) /\ Len(a) = m - 1 /\ \A k \in 1 .. Len(a) : a[k] = f[k + 1]
    BY <1>1, <2>1, HeadTailProperties
  <2> HIDE DEF a, m
  <2> QED  BY <2>2
<1> HIDE DEF s
<1>5. l \in Seq(T) /\ Len(l) = m + n - 1 /\ \A k \in 1 .. m + n - 1 : l[k] = s[k + 1]
  <2>1. l \in Seq(T) /\ Len(l) = Len(s) - 1 /\ \A k \in 1 .. Len(l) : l[k] = s[k + 1]
    BY <1>2, <1>3, HeadTailProperties
  <2> HIDE DEF l
  <2> QED  BY <1>1, <1>2, <2>1
<1> HIDE DEF a
<1>6. /\ r \in Seq(T) /\ Len(r) = m - 1 + n
      /\ \A k \in 1 .. m - 1 + n : r[k] = IF k <= m - 1 THEN a[k] ELSE g[k - (m - 1)]
  <2>1. a \in Seq(T) /\ g \in Seq(T)
    BY <1>4
  <2>2. /\ r \in Seq(T) /\ Len(r) = Len(a) + Len(g)
        /\ \A k \in 1 .. Len(a) + Len(g) : r[k] = IF k <= Len(a) THEN a[k] ELSE g[k - Len(a)]
    BY ONLY <2>1, ConcatProperties DEF r
  <2> QED  BY ONLY <1>4, <2>2 DEF n
<1> HIDE DEF l, r, m, n
<1>7. ASSUME NEW k \in 1 .. m + n - 1 PROVE l[k] = r[k]
  <2>1. k + 1 \in 1 .. m + n /\ k \in 1 .. m - 1 + n
    BY <1>1
  <2>2. CASE k <= m - 1
    <3>1. k + 1 <= m /\ k \in 1 .. m - 1
      BY <1>1, <2>2
    <3>2. l[k] = f[k + 1] /\ r[k] = f[k + 1]
      BY <1>2, <1>4, <1>5, <1>6, <2>1, <2>2, <3>1
    <3> QED  BY <3>2
  <2>3. CASE ~ (k <= m - 1)
    <3>1. ~ (k + 1 <= m) /\ (k + 1) - m = k - (m - 1)
      BY <1>1, <2>3
    <3>2. l[k] = g[(k + 1) - m] /\ r[k] = g[k - (m - 1)]
      BY <1>2, <1>5, <1>6, <2>1, <2>3, <3>1
    <3> QED  BY <3>1, <3>2
  <2> QED  BY <2>2, <2>3
<1>8. Len(l) = Len(r) /\ \A k \in 1 .. Len(l) : l[k] = r[k]
  BY <1>1, <1>5, <1>6, <1>7
<1>9. l = r
  BY <1>5, <1>6, <1>8, SameSeq
<1> QED  BY <1>2, <1>3, <1>5, <1>9 DEF After, s, l, r, a

LEMMA AfterReads ==
  ASSUME NEW T, NEW f, NEW x, After(f, x, T), NEW g \in Seq(T), NEW A, NEW B, NEW C,
         Reads(A, Tail(f), B), Reads(B, g, C)
  PROVE  After(f \o g, x, T) /\ Reads(A, Tail(f \o g), C)
<1>1. Tail(f) \in Seq(T)
  BY DEF After
<1>2. After(f \o g, x, T) /\ Tail(f \o g) = Tail(f) \o g
  BY AfterBoth
<1> DEFINE a == Tail(f)
<1>3. a \in Seq(T) /\ Reads(A, a, B)
  BY <1>1
<1> HIDE DEF a
<1>4. Reads(A, a \o g, C)
  BY ONLY <1>3, g \in Seq(T), Reads(B, g, C), ReadsBoth
<1> QED  BY <1>2, <1>4 DEF a

LEMMA RejoinedReads ==
  ASSUME NEW T, NEW x \in T, NEW t \in Seq(T), NEW a \in Seq(T), NEW C \in Seq(T), NEW b \in Seq(T),
         NEW D \in T, NEW e \in Seq(T), NEW E \in T,
         NEW A0, NEW A1, NEW A2, NEW A3, NEW A4, NEW A5, NEW A6, NEW A7,
         Reads(A0, t, A1), Reads(A1, a, A2), Reads(A2, C, A3), Reads(A3, b, A4),
         Reads(A4, <<D>>, A5), Reads(A5, e, A6), Reads(A6, <<E>>, A7)
  PROVE  LET f == Rejoined(<<x>> \o t, a, C, b, D, e, E)
         IN  After(f, x, T) /\ Reads(A0, Tail(f), A7)
<1> DEFINE f0 == <<x>>
           f1 == f0 \o t
           f2 == f1 \o a
           f3 == f2 \o C
           f4 == f3 \o b
           f5 == f4 \o <<D>>
           f6 == f5 \o e
           f7 == f6 \o <<E>>
<1>0. <<D>> \in Seq(T) /\ <<E>> \in Seq(T)
  OBVIOUS
<1>1. After(f0, x, T) /\ Reads(A0, Tail(f0), A0)
  BY AfterOne, ReadsNone
<1> HIDE DEF f0
<1>2. After(f1, x, T) /\ Reads(A0, Tail(f1), A1)
  BY <1>1, AfterReads
<1> HIDE DEF f1
<1>3. After(f2, x, T) /\ Reads(A0, Tail(f2), A2)
  BY <1>2, AfterReads
<1> HIDE DEF f2
<1>4. After(f3, x, T) /\ Reads(A0, Tail(f3), A3)
  BY <1>3, AfterReads
<1> HIDE DEF f3
<1>5. After(f4, x, T) /\ Reads(A0, Tail(f4), A4)
  BY <1>4, AfterReads
<1> HIDE DEF f4
<1>6. After(f5, x, T) /\ Reads(A0, Tail(f5), A5)
  BY <1>0, <1>5, AfterReads
<1> HIDE DEF f5
<1>7. After(f6, x, T) /\ Reads(A0, Tail(f6), A6)
  BY <1>6, AfterReads
<1> HIDE DEF f6
<1>8. After(f7, x, T) /\ Reads(A0, Tail(f7), A7)
  BY <1>0, <1>7, AfterReads
<1>9. Rejoined(<<x>> \o t, a, C, b, D, e, E) = f7
  BY DEF Rejoined, f0, f1, f2, f3, f4, f5, f6, f7
<1> QED  BY <1>8, <1>9

(* What is known when the chunks are met that are put in at three places.    *)
MetAt(w, h, mode, bytes) ==
  <<Being(w, h, IF mode.colortype = "PALETTE" THEN Bare(mode) ELSE AsRead(mode), Empty),
    Being(w, h, AsRead(mode), Empty), Being(w, h, AsRead(mode), bytes)>>
(* They change nothing, or make the file a bad one.                          *)
Passed(chunks, s, Bad) == \A k \in 1 .. Len(chunks) : ReadChunk(s, chunks[k]) \in {s} \cup Bad
Ended(s) == [s EXCEPT !.ended = TRUE]

LEMMA PassedIs ==
  ASSUME NEW T, NEW chunks \in Seq(T), NEW s, NEW Bad, \A x \in Bad : x.error # 0,
         Passed(chunks, s, Bad)
  PROVE  Reads({s} \cup Bad, chunks, {s} \cup Bad)
<1>1. ASSUME NEW k \in 1 .. Len(chunks), NEW x \in {s} \cup Bad
      PROVE  ReadChunk(x, chunks[k]) \in {s} \cup Bad
  <2>1. CASE x = s
    BY <2>1 DEF Passed
  <2>2. CASE x \in Bad
    BY <2>2, BadStays
  <2> QED  BY <2>1, <2>2
<1> DEFINE A == {s} \cup Bad
<1>2. \A k \in 1 .. Len(chunks) : \A x \in A : ReadChunk(x, chunks[k]) \in A
  BY <1>1
<1> HIDE DEF A
<1>3. Reads(A, chunks, A)
  BY ONLY <1>2, chunks \in Seq(T), ReadsAll
<1> QED  BY <1>3 DEF A

LEMMA OneRead ==
  ASSUME NEW s, NEW u, NEW c, NEW Bad, \A x \in Bad : x.error # 0, ReadChunk(s, c) = u
  PROVE  Reads({s} \cup Bad, <<c>>, {u} \cup Bad)
<1>1. ASSUME NEW x \in {s} \cup Bad PROVE ReadChunk(x, c) \in {u} \cup Bad
  <2>1. CASE x = s
    BY <2>1
  <2>2. CASE x \in Bad
    BY <2>2, BadStays
  <2> QED  BY <2>1, <2>2
<1> QED  BY <1>1, ReadsOne

(* Writing the file, in parts.                                               *)
LEMMA MetaIs ==
  ASSUME NEW w, NEW h, NEW mode, IsMode(mode), NEW Bad, \A x \in Bad : x.error # 0
  PROVE  \E K : /\ AddTRNS(mode) \in Seq(K) /\ \A c \in K : c.name = "tRNS"
                /\ Reads({Being(w, h, Before(mode), Empty)} \cup Bad, AddTRNS(mode),
                         {Being(w, h, AsRead(mode), Empty)} \cup Bad)
<1>1. MetaRead(w, h, mode)
  BY PaletteMetaRead, KeyMetaRead
<1>2. CASE AddTRNS(mode) = << >> /\ Before(mode) = AsRead(mode)
  <2>1. Reads({Being(w, h, Before(mode), Empty)} \cup Bad, << >>,
              {Being(w, h, AsRead(mode), Empty)} \cup Bad)
    BY <1>2, ReadsNone
  <2>2. << >> \in Seq({})
    OBVIOUS
  <2>3. AddTRNS(mode) \in Seq({}) /\ \A c \in {} : c.name = "tRNS"
    BY <1>2, <2>2
  <2> QED  BY <1>2, <2>1, <2>3
<1>3. ASSUME NEW t, AddTRNS(mode) = <<t>>, t.name = "tRNS",
             ReadChunk(Being(w, h, Before(mode), Empty), t) = Being(w, h, AsRead(mode), Empty)
      PROVE  /\ AddTRNS(mode) \in Seq({t}) /\ \A c \in {t} : c.name = "tRNS"
             /\ Reads({Being(w, h, Before(mode), Empty)} \cup Bad, AddTRNS(mode),
                      {Being(w, h, AsRead(mode), Empty)} \cup Bad)
  <2>1. <<t>> \in Seq({t})
    OBVIOUS
  <2>2. Reads({Being(w, h, Before(mode), Empty)} \cup Bad, <<t>>,
              {Being(w, h, AsRead(mode), Empty)} \cup Bad)
    BY <1>3, OneRead
  <2> QED  BY <1>3, <2>1, <2>2
<1>4. CASE ~ (AddTRNS(mode) = << >> /\ Before(mode) = AsRead(mode))
  <2>1. PICK t : /\ AddTRNS(mode) = <<t>> /\ t.name = "tRNS"
                 /\ ReadChunk(Being(w, h, Before(mode), Empty), t) = Being(w, h, AsRead(mode), Empty)
    BY <1>1, <1>4 DEF MetaRead
  <2> DEFINE K == {t}
  <2>2. /\ AddTRNS(mode) \in Seq(K) /\ \A c \in K : c.name = "tRNS"
        /\ Reads({Being(w, h, Before(mode), Empty)} \cup Bad, AddTRNS(mode),
                 {Being(w, h, AsRead(mode), Empty)} \cup Bad)
    BY <1>3, <2>1
  <2> HIDE DEF K
  <2> QED  BY <2>2
<1> QED  BY <1>2, <1>4

LEMMA WrittenReads ==
  ASSUME NEW w \in Nat \ {0}, NEW h \in Nat \ {0}, NEW mode, IsMode(mode),
         NEW U, NEW bytes \in Seq(U), NEW K, NEW chunks \in [1 .. 3 -> Seq(K)],
         NEW Bad, \A x \in Bad : x.error # 0,
         \A l \in 1 .. 3 : Passed(chunks[l], MetAt(w, h, mode, bytes)[l], Bad)
  PROVE  ReadFile(InsertChunks(WriteFile(w, h, mode, 0, bytes), chunks))
           \in {Ended(Being(w, h, AsRead(mode), bytes))} \cup Bad
<1> DEFINE x == Header(w, h, mode, 0)
           D == Chunk("IDAT", bytes)
           E == Chunk("IEND", << >>)
           p == AddPLTE(mode)
           t == AddTRNS(mode)
           B0 == Being(w, h, Bare(mode), Empty)
           B1 == Being(w, h, Before(mode), Empty)
           B2 == Being(w, h, AsRead(mode), Empty)
           B3 == Being(w, h, AsRead(mode), bytes)
           Or(s) == {s} \cup Bad
           file == InsertChunks(WriteFile(w, h, mode, 0, bytes), chunks)
<1>1. x.name = "IHDR" /\ ReadIHDR(NothingRead, x.data) = B0
  BY HeaderRead
<1>2. D.name = "IDAT" /\ D.data = bytes /\ E.name = "IEND"
  BY DEF Chunk
<1>3. WriteFile(w, h, mode, 0, bytes) = <<x>> \o p \o t \o <<D, E>>
  BY DEF WriteFile
<1>4. PICK M : t \in Seq(M) /\ (\A c \in M : c.name = "tRNS") /\ Reads(Or(B1), t, Or(B2))
  BY MetaIs
<1>5. ReadChunk(B2, D) = B3
  <2>1. B2.error = 0 /\ ~ B2.ended /\ B2.data = << >>
    BY DEF Being, NotYet, Empty
  <2>2. << >> \o bytes = bytes
    BY ConcatEmptySeq
  <2>3. WithData(B2, bytes) = B3
    BY NewData
  <2> HIDE DEF B2, D, B3
  <2>4. ReadChunk(B2, D) = [B2 EXCEPT !.data = @ \o bytes]
    BY ONLY <1>2, <2>1 DEF ReadChunk
  <2>5. ReadChunk(B2, D) = WithData(B2, bytes)
    BY ONLY <2>1, <2>2, <2>4 DEF WithData
  <2> QED  BY <2>3, <2>5
<1>6. ReadChunk(B3, E) = Ended(B3)
  <2>1. B3.error = 0 /\ ~ B3.ended
    BY DEF Being, NotYet
  <2> HIDE DEF B3, E
  <2> QED  BY ONLY <1>2, <2>1 DEF ReadChunk, Ended
<1>7. Reads(Or(B2), <<D>>, Or(B3)) /\ Reads(Or(B3), <<E>>, Or(Ended(B3)))
  BY <1>5, <1>6, OneRead
<1>8. /\ Reads(Or(B2), chunks[2], Or(B2)) /\ Reads(Or(B3), chunks[3], Or(B3))
      /\ mode.colortype = "PALETTE" => Reads(Or(B0), chunks[1], Or(B0))
      /\ mode.colortype # "PALETTE" => Reads(Or(B2), chunks[1], Or(B2))
  <2>1. /\ MetAt(w, h, mode, bytes)[2] = B2 /\ MetAt(w, h, mode, bytes)[3] = B3
        /\ mode.colortype = "PALETTE" => MetAt(w, h, mode, bytes)[1] = B0
        /\ mode.colortype # "PALETTE" => MetAt(w, h, mode, bytes)[1] = B2
    BY DEF MetAt
  <2>2. chunks[1] \in Seq(K) /\ chunks[2] \in Seq(K) /\ chunks[3] \in Seq(K)
    OBVIOUS
  <2>3. \A l \in 1 .. 3 : Reads(Or(MetAt(w, h, mode, bytes)[l]), chunks[l], Or(MetAt(w, h, mode, bytes)[l]))
    BY <2>2, PassedIs
  <2> HIDE DEF B0, B2, B3, Or
  <2> QED  BY <2>1, <2>3
<1> HIDE DEF x, D, E, t, B0, B1, B2, B3
<1>9. ASSUME NEW T, NEW b \in Seq(T), NEW C \in Seq(T), x \in T, D \in T, E \in T,
             chunks[1] \in Seq(T), chunks[2] \in Seq(T), chunks[3] \in Seq(T),
             NEW A1, Reads({B0}, b, A1), NEW A2, Reads(A1, chunks[1], A2), Reads(A2, C, Or(B2)),
             file = Rejoined(<<x>> \o b, chunks[1], C, chunks[2], D, chunks[3], E)
      PROVE  ReadFile(file) \in Or(Ended(B3))
  <2>1. /\ Reads(Or(B2), chunks[2], Or(B2)) /\ Reads(Or(B3), chunks[3], Or(B3))
        /\ Reads(Or(B2), <<D>>, Or(B3)) /\ Reads(Or(B3), <<E>>, Or(Ended(B3)))
    BY <1>7, <1>8
  <2> HIDE DEF file, Or
  <2>2. After(file, x, T) /\ Reads({B0}, Tail(file), Or(Ended(B3)))
    BY <1>9, <2>1, RejoinedReads
  <2>3. ReadFile(file) = ReadChunks(B0, Tail(file))
    BY <1>1, <2>2 DEF ReadFile, After
  <2> DEFINE rest == Tail(file)
  <2>4. rest \in Seq(T) /\ Reads({B0}, rest, Or(Ended(B3)))
    BY <2>2 DEF After
  <2> HIDE DEF rest
  <2>5. ReadChunks(B0, rest) \in Or(Ended(B3))
    <3>1. B0 \in {B0}
      OBVIOUS
    <3> QED  BY ONLY <2>4, <3>1, ReadsIs
  <2> QED  BY <2>3, <2>5 DEF rest
<1>10. CASE mode.colortype = "PALETTE"
  <2>1. PICK q : /\ p = <<q>> /\ q.name = "PLTE"
                 /\ ReadChunk(B0, q) = Being(w, h, WithOpaque(mode), Empty)
    BY <1>10, PaletteRead DEF B0
  <2>2. ReadChunk(B0, q) = B1
    BY <1>10, <2>1 DEF B1, Before
  <2> DEFINE T == {x, D, E, q} \cup M \cup K
             C == <<q>> \o t
  <2>3. x \in T /\ D \in T /\ E \in T /\ q \in T
    OBVIOUS
  <2>4. t \in Seq(T)
    BY <1>4, SeqIn
  <2>5. chunks[1] \in Seq(T) /\ chunks[2] \in Seq(T) /\ chunks[3] \in Seq(T)
    <3>1. K \subseteq T
      OBVIOUS
    <3> HIDE DEF T
    <3> QED  BY <3>1, SeqIn
  <2> HIDE DEF T
  <2>6. <<x>> \in Seq(T) /\ <<q>> \in Seq(T) /\ << >> \in Seq(T) /\ <<D, E>> \in Seq(T)
    BY <2>3
  <2>7. /\ C \in Seq(T) /\ C # << >> /\ C[1] = q
        /\ \A k \in 1 .. Len(C) : C[k].name \notin {"IDAT", "IEND"}
    <3>1. /\ C \in Seq(T) /\ Len(C) = Len(t) + 1 /\ C[1] = q
          /\ \A k \in 2 .. Len(t) + 1 : C[k] = t[k - 1]
      BY <2>3, <2>4
    <3>2. \A k \in 1 .. Len(t) : t[k].name = "tRNS"
      BY <1>4
    <3> HIDE DEF C
    <3>3. ASSUME NEW k \in 1 .. Len(C) PROVE C[k].name \notin {"IDAT", "IEND"}
      <4>1. CASE k = 1
        BY <2>1, <3>1, <4>1
      <4>2. CASE k # 1
        <5>1. k \in 2 .. Len(t) + 1 /\ k - 1 \in 1 .. Len(t)
          BY <2>4, <3>1, <4>2
        <5> QED  BY <3>1, <3>2, <5>1
      <4> QED  BY <4>1, <4>2
    <3> QED  BY <2>4, <3>1, <3>3
  <2>8. <<x>> \o p \o t \o <<D, E>> = <<x>> \o C \o <<D, E>>
    <3>1. (<<x>> \o <<q>>) \o t = <<x>> \o (<<q>> \o t)
      BY <2>4, <2>6, ConcatAssociative
    <3> QED  BY <2>1, <3>1
  <2> HIDE DEF C
  <2>9. file = Rejoined(<<x>>, chunks[1], C, chunks[2], D, chunks[3], E)
    <3>1. \A k \in 1 .. Len(<<x>>) : <<x>>[k].name \notin {"PLTE", "IDAT", "IEND"}
      BY <1>1
    <3>2. C = << >> \/ C[1].name = "PLTE"
      BY <2>1, <2>7
    <3> DEFINE b == <<x>>
    <3>3. b \in Seq(T) /\ \A k \in 1 .. Len(b) : b[k].name \notin {"PLTE", "IDAT", "IEND"}
      BY <2>6, <3>1
    <3> HIDE DEF b
    <3>4. InsertChunks(b \o C \o <<D, E>>, chunks) = Rejoined(b, chunks[1], C, chunks[2], D, chunks[3], E)
      <4> DEFINE f == b \o C \o <<D, E>>
      <4>1. FourParts(f, b, C, D, E, T)
        BY <2>3, <2>7, <3>3, FourPartsIs
      <4> HIDE DEF f
      <4>2. InsertChunks(f, chunks) = Rejoined(b, chunks[1], C, chunks[2], D, chunks[3], E)
        <5>1. /\ b \in Seq(T) /\ C \in Seq(T) /\ D \in T /\ E \in T
              /\ D.name = "IDAT" /\ E.name = "IEND"
              /\ \A k \in 1 .. Len(b) : b[k].name \notin {"PLTE", "IDAT", "IEND"}
              /\ \A k \in 1 .. Len(C) : C[k].name \notin {"IDAT", "IEND"}
              /\ C = << >> \/ C[1].name = "PLTE"
          BY <1>2, <2>3, <2>7, <3>2, <3>3
        <5>2. CutAs(b, C, D, E)
          BY <5>1 DEF CutAs
        <5> QED  BY ONLY <4>1, <5>1, <5>2, ChunksInserted
      <4> QED  BY <4>2 DEF f
    <3> QED  BY <1>3, <2>8, <3>4 DEF b
  <2>10. file = Rejoined(<<x>> \o << >>, chunks[1], C, chunks[2], D, chunks[3], E)
    <3>1. <<x>> \o << >> = <<x>>
      BY <2>6, ConcatEmptySeq
    <3> QED  BY <2>9, <3>1
  <2>11. Reads({B0}, << >>, Or(B0))
    BY ReadsNone
  <2>12. Reads(Or(B0), C, Or(B2))
    <3>1. Reads(Or(B0), <<q>>, Or(B1))
      BY <2>2, OneRead
    <3> HIDE DEF Or
    <3>2. Reads(Or(B0), <<q>> \o t, Or(B2))
      BY <1>4, <2>4, <2>6, <3>1, ReadsBoth DEF Or
    <3> QED  BY <3>2 DEF C
  <2>13. Reads(Or(B0), chunks[1], Or(B0))
    BY <1>8, <1>10
  <2> HIDE DEF file, Or
  <2>14. ReadFile(file) \in Or(Ended(B3))
    BY <1>9, <2>3, <2>5, <2>6, <2>7, <2>10, <2>11, <2>12, <2>13
  <2> QED  BY <2>14 DEF file, Or, B3
<1>11. CASE mode.colortype # "PALETTE"
  <2>1. p = << >>
    BY <1>11 DEF AddPLTE
  <2>2. B0 = B1
    BY <1>11 DEF B0, B1, Before
  <2> DEFINE T == {x, D, E} \cup M \cup K
             b == <<x>> \o t
  <2>3. x \in T /\ D \in T /\ E \in T
    OBVIOUS
  <2>4. t \in Seq(T)
    BY <1>4, SeqIn
  <2>5. chunks[1] \in Seq(T) /\ chunks[2] \in Seq(T) /\ chunks[3] \in Seq(T)
    <3>1. K \subseteq T
      OBVIOUS
    <3> HIDE DEF T
    <3> QED  BY <3>1, SeqIn
  <2> HIDE DEF T
  <2>6. <<x>> \in Seq(T) /\ << >> \in Seq(T) /\ <<D, E>> \in Seq(T)
    BY <2>3
  <2>7. /\ b \in Seq(T)
        /\ \A k \in 1 .. Len(b) : b[k].name \notin {"PLTE", "IDAT", "IEND"}
    <3>1. /\ b \in Seq(T) /\ Len(b) = Len(t) + 1 /\ b[1] = x
          /\ \A k \in 2 .. Len(t) + 1 : b[k] = t[k - 1]
      BY <2>3, <2>4
    <3>2. \A k \in 1 .. Len(t) : t[k].name = "tRNS"
      BY <1>4
    <3> HIDE DEF b
    <3>3. ASSUME NEW k \in 1 .. Len(b) PROVE b[k].name \notin {"PLTE", "IDAT", "IEND"}
      <4>1. CASE k = 1
        BY <1>1, <3>1, <4>1
      <4>2. CASE k # 1
        <5>1. k \in 2 .. Len(t) + 1 /\ k - 1 \in 1 .. Len(t)
          BY <2>4, <3>1, <4>2
        <5> QED  BY <3>1, <3>2, <5>1
      <4> QED  BY <4>1, <4>2
    <3> QED  BY <3>1, <3>3
  <2>8. <<x>> \o p \o t \o <<D, E>> = b \o << >> \o <<D, E>>
    <3>1. <<x>> \o << >> = <<x>> /\ b \o << >> = b
      BY <2>6, <2>7, ConcatEmptySeq
    <3> QED  BY <2>1, <3>1
  <2> HIDE DEF b
  <2>9. file = Rejoined(b, chunks[1], << >>, chunks[2], D, chunks[3], E)
    <3> DEFINE C == << >>
    <3>1. C \in Seq(T) /\ (\A k \in 1 .. Len(C) : C[k].name \notin {"IDAT", "IEND"}) /\ C = << >>
      BY <2>6
    <3>2. InsertChunks(b \o C \o <<D, E>>, chunks) = Rejoined(b, chunks[1], C, chunks[2], D, chunks[3], E)
      <4> HIDE DEF C
      <4> DEFINE f == b \o C \o <<D, E>>
      <4>1. FourParts(f, b, C, D, E, T)
        BY <2>3, <2>7, <3>1, FourPartsIs
      <4> HIDE DEF f
      <4>2. InsertChunks(f, chunks) = Rejoined(b, chunks[1], C, chunks[2], D, chunks[3], E)
        <5>1. /\ b \in Seq(T) /\ C \in Seq(T) /\ D \in T /\ E \in T
              /\ D.name = "IDAT" /\ E.name = "IEND"
              /\ \A k \in 1 .. Len(b) : b[k].name \notin {"PLTE", "IDAT", "IEND"}
              /\ \A k \in 1 .. Len(C) : C[k].name \notin {"IDAT", "IEND"}
              /\ C = << >> \/ C[1].name = "PLTE"
          BY <1>2, <2>3, <2>7, <3>1
        <5>2. CutAs(b, C, D, E)
          BY <5>1 DEF CutAs
        <5> QED  BY ONLY <4>1, <5>1, <5>2, ChunksInserted
      <4> QED  BY <4>2 DEF f
    <3> QED  BY <1>3, <2>8, <3>2
  <2>11. Reads({B0}, t, Or(B2))
    <3>1. Reads({B0}, << >>, Or(B1))
      BY <2>2, ReadsNone
    <3> HIDE DEF Or
    <3>2. Reads({B0}, << >> \o t, Or(B2))
      BY <1>4, <2>4, <2>6, <3>1, ReadsBoth DEF Or
    <3>3. << >> \o t = t
      BY <2>4, ConcatEmptySeq
    <3> QED  BY <3>2, <3>3
  <2>12. Reads(Or(B2), << >>, Or(B2))
    BY ReadsNone
  <2>13. Reads(Or(B2), chunks[1], Or(B2))
    BY <1>8, <1>11
  <2>14. file = Rejoined(<<x>> \o t, chunks[1], << >>, chunks[2], D, chunks[3], E)
    BY <2>9 DEF b
  <2> HIDE DEF file, Or
  <2>15. ReadFile(file) \in Or(Ended(B3))
    BY <1>9, <2>3, <2>4, <2>5, <2>6, <2>11, <2>12, <2>13, <2>14
  <2> QED  BY <2>15 DEF file, Or, B3
<1> QED  BY <1>10, <1>11

(* A chunk that is kept: only a background that the palette does not have    *)
(* makes a difference.                                                       *)
FitsIn(chunks, n) == \A k \in 1 .. Len(chunks) : chunks[k].name = "bKGD" => ~ (chunks[k].data[1] >= n)
BackgroundFits(chunks, mode) ==
  mode.colortype = "PALETTE" =>
    FitsIn(chunks[1], 0) /\ FitsIn(chunks[2], Len(mode.palette)) /\ FitsIn(chunks[3], Len(mode.palette))
LEMMA KeptIsRead ==
  ASSUME NEW s, s.error = 0, ~ s.ended, NEW c, c.name \notin Essential
  PROVE  \/ ReadChunk(s, c) = s
         \/ /\ ReadChunk(s, c) = [s EXCEPT !.error = 103]
            /\ s.mode.colortype = "PALETTE" /\ c.name = "bKGD" /\ c.data[1] >= Len(s.mode.palette)
<1>1. c.name \notin {"IHDR", "PLTE", "tRNS", "IDAT", "IEND"}
  BY DEF Essential
<1>2. ReadChunk(s, c) = IF c.name = "bKGD" THEN ReadBKGD(s, c.data) ELSE s
  BY <1>1 DEF ReadChunk
<1>3. \/ ReadBKGD(s, c.data) = s
      \/ /\ ReadBKGD(s, c.data) = [s EXCEPT !.error = 103]
         /\ s.mode.colortype = "PALETTE" /\ c.data[1] >= Len(s.mode.palette)
  BY DEF ReadBKGD
<1> QED  BY <1>2, <1>3

LEMMA KeptArePassed ==
  ASSUME NEW K, \A c \in K : c.name \notin Essential, NEW chunks \in Seq(K),
         NEW s, s.error = 0, ~ s.ended, NEW Bad,
         \/ [s EXCEPT !.error = 103] \in Bad
         \/ s.mode.colortype # "PALETTE"
         \/ FitsIn(chunks, Len(s.mode.palette))
  PROVE  Passed(chunks, s, Bad)
<1>1. ASSUME NEW k \in 1 .. Len(chunks) PROVE ReadChunk(s, chunks[k]) \in {s} \cup Bad
  <2>1. chunks[k].name \notin Essential
    OBVIOUS
  <2> DEFINE c == chunks[k]
             fits == ~ (c.name = "bKGD" /\ c.data[1] >= Len(s.mode.palette))
  <2>2. FitsIn(chunks, Len(s.mode.palette)) => fits
    BY DEF FitsIn
  <2> HIDE DEF c
  <2>3. \/ ReadChunk(s, c) = s
        \/ ReadChunk(s, c) = [s EXCEPT !.error = 103] /\ s.mode.colortype = "PALETTE" /\ ~ fits
    BY <2>1, KeptIsRead DEF c
  <2> HIDE DEF fits
  <2> QED  BY <2>2, <2>3 DEF c
<1> QED  BY <1>1 DEF Passed

IsRead(s, w, h, m, bytes) ==
  /\ s.error = 0 /\ s.w = w /\ s.h = h /\ s.mode = m /\ s.interlace = 0 /\ s.data = bytes
  /\ s.ended = TRUE
WithImage(s, e, r) == [s EXCEPT !.error = e, !.raw = r]
IsImage(s, e, w, h, m, r) == s.error = e /\ s.w = w /\ s.h = h /\ s.mode = m /\ s.raw = r
LEMMA EndedIs ==
  ASSUME NEW w, NEW h, NEW m, NEW bytes
  PROVE  IsRead(Ended(Being(w, h, m, bytes)), w, h, m, bytes)
BY DEF Ended, Being, IsRead
LEMMA ImageIs ==
  ASSUME NEW w, NEW h, NEW m, NEW bytes, NEW e, NEW r
  PROVE  IsImage(WithImage(Ended(Being(w, h, m, bytes)), e, r), e, w, h, m, r)
BY DEF Ended, Being, WithImage, IsImage

LEMMA BppIs ==
  ASSUME NEW mode, IsMode(mode)
  PROVE  Bpp(mode) \in Nat \ {0} /\ Bpp(AsRead(mode)) = Bpp(mode)
<1>1. NumColorChannels(mode) \in 1 .. 4
  BY DEF IsMode, NumColorChannels
<1>2. mode.bitdepth \in 1 .. 16
  BY DEF IsMode, ColorValid
<1>3. NumColorChannels(AsRead(mode)) = NumColorChannels(mode) /\ AsRead(mode).bitdepth = mode.bitdepth
  BY DEF AsRead, ColorMode, NumColorChannels
<1>4. \A a \in 1 .. 4, b \in 1 .. 16 : a * b \in Nat \ {0}
  OBVIOUS
<1> QED  BY <1>1, <1>2, <1>3, <1>4 DEF Bpp

(* lodepng_encode, insertChunks, decodeGeneric: whatever is written of an    *)
(* image and whatever chunks are put into it, reading gives the mode and the *)
(* raw image that were written, unless a background is not in the palette.   *)
THEOREM FilesReadBack ==
  ASSUME NEW w \in Nat \ {0}, NEW h \in Nat \ {0}, NEW mode, IsMode(mode),
         NEW raw \in Seq({0, 1}), Len(raw) = h * (w * Bpp(mode)),
         NEW rule, NEW predefined, Prescribes(rule, predefined, h),
         NEW K, \A c \in K : c.name \notin Essential, NEW chunks \in [1 .. 3 -> Seq(K)]
  PROVE  LET bytes == PreProcessScanlines(raw, w, h, Bpp(mode), 0, rule, predefined)
             s == DecodeGeneric(InsertChunks(WriteFile(w, h, mode, 0, bytes), chunks))
         IN  /\ s.error = 0 \/ (s.error = 103 /\ ~ BackgroundFits(chunks, mode))
             /\ s.error = 0 => s.w = w /\ s.h = h /\ s.mode = AsRead(mode) /\ s.raw = raw
<1> DEFINE bpp == Bpp(mode)
           bytes == PreProcessScanlines(raw, w, h, bpp, 0, rule, predefined)
           file == InsertChunks(WriteFile(w, h, mode, 0, bytes), chunks)
           at == MetAt(w, h, mode, bytes)
           Broken(s) == [s EXCEPT !.error = 103]
           Bad == IF BackgroundFits(chunks, mode) THEN {} ELSE {Broken(at[1]), Broken(at[2]), Broken(at[3])}
           m == AsRead(mode)
           last == Ended(Being(w, h, m, bytes))
           read == ReadFile(file)
           s == DecodeGeneric(file)
<1>1. bpp \in Nat \ {0} /\ Bpp(m) = bpp
  BY BppIs
<1>2. /\ bytes \in Seq(Octets) /\ Len(bytes) = ExpectedSize(w, h, bpp, 0)
      /\ PostProcessScanlines(bytes, w, h, bpp, 0) = Converted(0, raw)
  <2> HIDE DEF bpp
  <2> QED  BY <1>1, ScanlinesReadBack DEF bpp
<1> HIDE DEF bpp, bytes
<1>3. \A l \in 1 .. 3 : at[l].error = 0 /\ ~ at[l].ended
  BY DEF MetAt, Being, NotYet
<1>4. ASSUME NEW x \in Bad PROVE x.error = 103 /\ ~ BackgroundFits(chunks, mode)
  <2>1. \A l \in 1 .. 3 : Broken(at[l]).error = 103
    BY DEF MetAt, Being
  <2> HIDE DEF Broken, at
  <2> QED  BY <2>1
<1>5. /\ at[1].mode.colortype = mode.colortype /\ at[2].mode.colortype = mode.colortype
      /\ at[3].mode.colortype = mode.colortype
      /\ mode.colortype = "PALETTE" => /\ Len(at[1].mode.palette) = 0
                                       /\ Len(at[2].mode.palette) = Len(mode.palette)
                                       /\ Len(at[3].mode.palette) = Len(mode.palette)
  BY DEF MetAt, Being, AsRead, Bare, ColorMode
<1>6. ASSUME NEW l \in 1 .. 3 PROVE Passed(chunks[l], at[l], Bad)
  <2>1. \/ [at[l] EXCEPT !.error = 103] \in Bad
        \/ at[l].mode.colortype # "PALETTE"
        \/ FitsIn(chunks[l], Len(at[l].mode.palette))
    <3>1. CASE BackgroundFits(chunks, mode)
      <4> HIDE DEF at, Bad
      <4>1. mode.colortype = "PALETTE" =>
              /\ FitsIn(chunks[1], Len(at[1].mode.palette))
              /\ FitsIn(chunks[2], Len(at[2].mode.palette))
              /\ FitsIn(chunks[3], Len(at[3].mode.palette))
        BY <1>5, <3>1 DEF BackgroundFits
      <4>2. l = 1 \/ l = 2 \/ l = 3
        OBVIOUS
      <4> QED  BY <1>5, <4>1, <4>2
    <3>2. CASE ~ BackgroundFits(chunks, mode)
      <4>1. Bad = {Broken(at[1]), Broken(at[2]), Broken(at[3])}
        BY <3>2
      <4> HIDE DEF at, Bad
      <4>2. l = 1 \/ l = 2 \/ l = 3
        OBVIOUS
      <4> QED  BY <4>1, <4>2
    <3> QED  BY <3>1, <3>2
  <2> HIDE DEF at, Bad
  <2>2. chunks[l] \in Seq(K) /\ at[l].error = 0 /\ ~ at[l].ended
    BY <1>3
  <2> DEFINE a == at[l]
             c == chunks[l]
  <2>3. /\ c \in Seq(K) /\ a.error = 0 /\ ~ a.ended
        /\ \/ [a EXCEPT !.error = 103] \in Bad
           \/ a.mode.colortype # "PALETTE"
           \/ FitsIn(c, Len(a.mode.palette))
    BY <2>1, <2>2
  <2> HIDE DEF a, c
  <2>4. Passed(c, a, Bad)
    BY <2>3, KeptArePassed
  <2> QED  BY <2>4 DEF a, c
<1>7. read \in {last} \cup Bad
  <2>1. \A x \in Bad : x.error # 0
    BY <1>4
  <2>2. \A l \in 1 .. 3 : Passed(chunks[l], MetAt(w, h, mode, bytes)[l], Bad)
    BY <1>6
  <2> HIDE DEF Bad
  <2> QED  BY <1>2, <2>1, <2>2, WrittenReads
<1>8. CASE read = last
  <2>1. IsRead(last, w, h, m, bytes) /\ IsImage(WithImage(last, 0, raw), 0, w, h, m, raw)
    <3> HIDE DEF m
    <3> QED  BY EndedIs, ImageIs
  <2>2. m.colortype = "PALETTE" => m.palette # << >>
    BY DEF IsMode, AsRead, ColorMode
  <2> HIDE DEF last, m
  <2>3. ReadError(last) = 0
    BY <1>1, <1>2, <2>1, <2>2 DEF ReadError, IsRead
  <2>4. PostProcessScanlines(last.data, last.w, last.h, Bpp(last.mode), last.interlace) = Converted(0, raw)
    BY <1>1, <1>2, <2>1 DEF IsRead
  <2>5. s = [last EXCEPT !.error = Converted(0, raw).error, !.raw = Converted(0, raw).raw]
    BY <1>8, <2>3, <2>4 DEF DecodeGeneric
  <2>6. Converted(0, raw).error = 0 /\ Converted(0, raw).raw = raw
    BY DEF Converted
  <2>7. s = WithImage(last, 0, raw)
    <3> HIDE DEF s
    <3> QED  BY <2>5, <2>6 DEF WithImage
  <2> HIDE DEF s
  <2>8. s.error = 0 /\ s.w = w /\ s.h = h /\ s.mode = m /\ s.raw = raw
    BY <2>1, <2>7 DEF IsImage
  <2> QED  BY <2>8 DEF s, file, m, bytes, bpp
<1>9. CASE read \in Bad
  <2>1. read.error = 103 /\ ~ BackgroundFits(chunks, mode)
    BY <1>4, <1>9
  <2> HIDE DEF read, Bad
  <2>2. ReadError(read) = 103
    BY <2>1 DEF ReadError
  <2>3. s = [read EXCEPT !.error = 103]
    BY <2>2 DEF DecodeGeneric, read
  <2>4. s.error = 103
    <3>1. "error" \in DOMAIN read
      BY <1>9 DEF Bad, MetAt, Being
    <3> HIDE DEF s
    <3> QED  BY <2>3, <3>1
  <2> QED  BY <2>1, <2>4 DEF bytes, bpp
<1> QED  BY <1>7, <1>8, <1>9
=============================================================================
