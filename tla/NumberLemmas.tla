---------------------------- MODULE NumberLemmas -----------------------------
(***************************************************************************)
(* What the proofs about several components need of numbers: induction up  *)
(* to a number, that recursive functions on numbers exist, and division.   *)
(***************************************************************************)
EXTENDS Integers, WellFoundedInduction, TLAPS

(* Induction up to a number, and recursive functions up to a number.         *)
LEMMA UpTo ==
  ASSUME NEW m \in Nat, NEW T, 0 \in T, \A n \in 0 .. m - 1 : n \in T => n + 1 \in T
  PROVE  \A n \in 0 .. m : n \in T
<1> DEFINE B == (0 .. m) \ T
           R == {nn \in Nat \X Nat : nn[1] < nn[2]}
<1> SUFFICES ASSUME B # {} PROVE FALSE
  OBVIOUS
<1>1. PICK x \in B : \A y \in B : ~ (<<y, x>> \in R)
  <2>1. IsWellFoundedOn(R, Nat)
    BY NatLessThanWellFounded DEF OpToRel, IsWellFoundedOn
  <2>2. B \in SUBSET Nat
    OBVIOUS
  <2> HIDE DEF B, R
  <2> QED  BY <2>1, <2>2, WFMin
<1>2. x # 0 /\ x \in 0 .. m /\ x \notin T
  OBVIOUS
<1>3. x - 1 \in 0 .. m - 1 /\ (x - 1) + 1 = x /\ x - 1 \in Nat /\ x - 1 < x
  BY <1>2
<1>4. x - 1 \notin T
  BY <1>2, <1>3
<1>5. x - 1 \in B
  BY <1>3, <1>4
<1>6. <<x - 1, x>> \in R
  BY <1>2, <1>3
<1> QED  BY <1>1, <1>5, <1>6

Leads(step, P, m) == \A n \in 1 .. m : \A x \in P[n - 1] : step[<<n, x>>] \in P[n]

LEMMA StepsExist ==
  ASSUME NEW m \in Nat, NEW P, NEW base \in P[0], NEW step, Leads(step, P, m)
  PROVE  \E f : /\ f = [n \in 0 .. m |-> IF n = 0 THEN base ELSE step[<<n, f[n - 1]>>]]
                /\ \A n \in 0 .. m : f[n] \in P[n]
<1> DEFINE Is(f, n) == /\ f = [k \in 0 .. n |-> IF k = 0 THEN base ELSE step[<<k, f[k - 1]>>]]
                       /\ \A k \in 0 .. n : f[k] \in P[k]
           T == {n \in Nat : \E f : Is(f, n)}
<1>1. 0 \in T
  <2> DEFINE g == [k \in 0 .. 0 |-> base]
  <2>1. \A k \in 0 .. 0 : k = 0
    OBVIOUS
  <2>2. g = [k \in 0 .. 0 |-> IF k = 0 THEN base ELSE step[<<k, g[k - 1]>>]]
    BY <2>1
  <2>3. \A k \in 0 .. 0 : g[k] \in P[k]
    BY <2>1
  <2> HIDE DEF g
  <2>4. Is(g, 0)
    BY <2>2, <2>3
  <2> QED  BY <2>4
<1>2. ASSUME NEW n \in 0 .. m - 1, n \in T PROVE n + 1 \in T
  <2>1. PICK f : Is(f, n)
    BY <1>2
  <2> DEFINE g == [k \in 0 .. n + 1 |-> IF k = n + 1 THEN step[<<n + 1, f[n]>>] ELSE f[k]]
  <2>2. \A k \in 0 .. n : g[k] = f[k]
    OBVIOUS
  <2>3. g[n + 1] = step[<<n + 1, f[n]>>]
    OBVIOUS
  <2>4. g = [k \in 0 .. n + 1 |-> g[k]]
    OBVIOUS
  <2> HIDE DEF g
  <2>5. ASSUME NEW k \in 0 .. n + 1
        PROVE  /\ g[k] = IF k = 0 THEN base ELSE step[<<k, g[k - 1]>>]
               /\ g[k] \in P[k]
    <3>1. CASE k = n + 1
      <4>1. n \in 0 .. n /\ k # 0 /\ k - 1 = n
        BY <3>1
      <4>2. g[k] = step[<<k, g[k - 1]>>]
        BY <2>2, <2>3, <3>1, <4>1
      <4>3. f[n] \in P[n]
        BY <2>1, <4>1
      <4>4. n + 1 \in 1 .. m /\ (n + 1) - 1 = n
        OBVIOUS
      <4>5. step[<<n + 1, f[n]>>] \in P[n + 1]
        BY <4>3, <4>4 DEF Leads
      <4> QED  BY <2>3, <3>1, <4>1, <4>2, <4>5
    <3>2. CASE k # n + 1
      <4>1. k \in 0 .. n /\ (k # 0 => k - 1 \in 0 .. n)
        BY <3>2
      <4>2. f[k] = IF k = 0 THEN base ELSE step[<<k, f[k - 1]>>]
        BY <2>1, <4>1
      <4> QED  BY <2>1, <2>2, <4>1, <4>2
    <3> QED  BY <3>1, <3>2
  <2>6. Is(g, n + 1)
    BY <2>4, <2>5
  <2>7. n + 1 \in Nat
    OBVIOUS
  <2> HIDE DEF Is
  <2> QED  BY <2>6, <2>7
<1> HIDE DEF T
<1>3. m \in T
  BY <1>1, <1>2, UpTo
<1> QED  BY <1>3 DEF T

(* The same, for who cites it among many other facts.                        *)
StepsWithin(f, base, step, P, m) ==
  /\ f = [n \in 0 .. m |-> IF n = 0 THEN base ELSE step[<<n, f[n - 1]>>]]
  /\ \A n \in 0 .. m : f[n] \in P[n]

LEMMA StepsAreThere ==
  ASSUME NEW m \in Nat, NEW P, NEW base \in P[0], NEW step, Leads(step, P, m)
  PROVE  \E f : StepsWithin(f, base, step, P, m)
BY StepsExist DEF StepsWithin

(* A recursive function on all numbers.                                      *)
LEMMA StepsOnAll ==
  ASSUME NEW S, NEW base \in S, NEW step, \A n \in Nat \ {0}, x \in S : step[<<n, x>>] \in S
  PROVE  \E f : /\ f = [n \in Nat |-> IF n = 0 THEN base ELSE step[<<n, f[n - 1]>>]]
                /\ \A n \in Nat : f[n] \in S
<1> DEFINE P == [n \in Nat |-> S]
           Is(f, m) == /\ f = [n \in 0 .. m |-> IF n = 0 THEN base ELSE step[<<n, f[n - 1]>>]]
                       /\ \A n \in 0 .. m : f[n] \in S
           upTo == [m \in Nat |-> CHOOSE f : Is(f, m)]
           all == [m \in Nat |-> upTo[m][m]]
<1>1. ASSUME NEW m \in Nat PROVE \E f : Is(f, m)
  <2>1. base \in P[0] /\ \A n \in Nat : P[n] = S
    OBVIOUS
  <2> HIDE DEF P
  <2>2. ASSUME NEW n \in 1 .. m, NEW x \in P[n - 1] PROVE step[<<n, x>>] \in P[n]
    <3>1. n \in Nat \ {0} /\ n - 1 \in Nat
      OBVIOUS
    <3>2. P[n - 1] = S /\ P[n] = S
      BY <2>1, <3>1
    <3> QED  BY <3>1, <3>2
  <2>2a. Leads(step, P, m)
    BY <2>2 DEF Leads
  <2>3. \E f : /\ f = [n \in 0 .. m |-> IF n = 0 THEN base ELSE step[<<n, f[n - 1]>>]]
              /\ \A n \in 0 .. m : f[n] \in P[n]
    BY <2>1, <2>2a, StepsExist
  <2>4. \A n \in 0 .. m : P[n] = S
    BY <2>1
  <2>5. PICK f : /\ f = [n \in 0 .. m |-> IF n = 0 THEN base ELSE step[<<n, f[n - 1]>>]]
                 /\ \A n \in 0 .. m : f[n] \in P[n]
    BY <2>3
  <2>6. \A n \in 0 .. m : f[n] \in S
    BY <2>4, <2>5
  <2>7. Is(f, m)
    BY <2>5, <2>6
  <2> HIDE DEF Is
  <2> QED  BY <2>7
<1>2. ASSUME NEW m \in Nat PROVE Is(upTo[m], m)
  BY <1>1
<1> HIDE DEF upTo
<1>3. ASSUME NEW m \in Nat, NEW n \in 0 .. m
      PROVE  /\ upTo[m][n] = IF n = 0 THEN base ELSE step[<<n, upTo[m][n - 1]>>]
             /\ upTo[m][n] \in S
  BY <1>2
<1>4. ASSUME NEW m \in Nat PROVE \A n \in 0 .. m : upTo[m + 1][n] = upTo[m][n]
  <2> DEFINE T == {n \in 0 .. m : upTo[m + 1][n] = upTo[m][n]}
  <2>1. 0 \in T
    <3>1. 0 \in 0 .. m /\ 0 \in 0 .. m + 1 /\ m + 1 \in Nat
      OBVIOUS
    <3>2. upTo[m][0] = base /\ upTo[m + 1][0] = base
      BY <1>3, <3>1
    <3> QED  BY <3>1, <3>2
  <2>2. ASSUME NEW n \in 0 .. m - 1, n \in T PROVE n + 1 \in T
    <3>1. n + 1 \in 0 .. m /\ n + 1 \in 0 .. m + 1 /\ n + 1 # 0 /\ (n + 1) - 1 = n
          /\ m + 1 \in Nat
      OBVIOUS
    <3>2. upTo[m + 1][n + 1] = step[<<n + 1, upTo[m + 1][n]>>]
      BY <1>3, <3>1
    <3>3. upTo[m][n + 1] = step[<<n + 1, upTo[m][n]>>]
      BY <1>3, <3>1
    <3> QED  BY <2>2, <3>1, <3>2, <3>3
  <2> HIDE DEF T
  <2>3. \A n \in 0 .. m : n \in T
    BY <2>1, <2>2, UpTo
  <2> QED  BY <2>3 DEF T
<1>5. ASSUME NEW n \in Nat PROVE all[n] = IF n = 0 THEN base ELSE step[<<n, all[n - 1]>>]
  <2>1. all[n] = IF n = 0 THEN base ELSE step[<<n, upTo[n][n - 1]>>]
    <3>1. n \in 0 .. n
      OBVIOUS
    <3> QED  BY <1>3, <3>1
  <2>2. CASE n # 0
    <3>1. n - 1 \in Nat /\ (n - 1) + 1 = n /\ n - 1 \in 0 .. n - 1
      BY <2>2
    <3>2. upTo[n][n - 1] = upTo[n - 1][n - 1]
      BY <1>4, <3>1
    <3> QED  BY <2>1, <2>2, <3>1, <3>2
  <2> QED  BY <2>1, <2>2
<1>6. ASSUME NEW n \in Nat PROVE all[n] \in S
  <2>1. n \in 0 .. n
    OBVIOUS
  <2> QED  BY <1>3, <2>1
<1>7. all = [n \in Nat |-> all[n]]
  OBVIOUS
<1> HIDE DEF all
<1>8. all = [n \in Nat |-> IF n = 0 THEN base ELSE step[<<n, all[n - 1]>>]]
  BY <1>5, <1>7
<1> QED  BY <1>6, <1>8

-----------------------------------------------------------------------------
(* Division.                                                                 *)
LEMMA DivIs ==
  ASSUME NEW n \in Nat \ {0}, NEW a \in Nat
  PROVE  /\ a \div n \in Nat /\ a % n \in 0 .. n - 1
         /\ a = n * (a \div n) + (a % n)
<1>1. n \in Int /\ n > 0 /\ a \in Int
  OBVIOUS
<1>2. a % n \in 0 .. n - 1 /\ a \div n \in Int /\ a = n * (a \div n) + (a % n)
  BY <1>1
<1>3. PICK q \in Int, r \in 0 .. n - 1 : q = a \div n /\ r = a % n /\ a = n * q + r
  BY <1>2
<1>4. ASSUME q < 0 PROVE FALSE
  <2>1. PICK p \in Nat : q = - 1 - p
    <3>1. - 1 - q \in Nat
      BY <1>4
    <3>2. q = - 1 - (- 1 - q)
      OBVIOUS
    <3> QED  BY <3>1, <3>2
  <2>2. n * q = - n - n * p /\ n * p \in Nat
    BY <2>1
  <2>3. n * q + r < 0
    BY <2>2
  <2> QED  BY <1>3, <2>3
<1> QED BY <1>2, <1>3, <1>4

LEMMA DivOf ==
  ASSUME NEW n \in Nat \ {0}, NEW q \in Nat, NEW r \in 0 .. n - 1
  PROVE  /\ (n * q + r) \div n = q /\ (n * q + r) % n = r
OBVIOUS

LEMMA Further ==
  ASSUME NEW n \in Nat \ {0}, NEW p \in Nat, NEW q \in Nat, p < q
  PROVE  n * p + n <= n * q
OBVIOUS

LEMMA Product == \A n, c \in Nat : n * c \in Nat
OBVIOUS
=============================================================================
