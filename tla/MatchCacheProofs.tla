-------------------------- MODULE MatchCacheProofs --------------------------
(***************************************************************************)
(* What the operators of the match cache do, for every budget, first       *)
(* allocation and sublen: a sublen is committed as a whole or not at all,  *)
(* what was in the pool before stays where it was, the pool keeps to its   *)
(* allocation, and what is read back for a length is what was committed.   *)
(***************************************************************************)
EXTENDS MatchCache, FiniteSetTheorems, WellFoundedInduction, TLAPS

(* Every nonempty set of naturals has a least element.                      *)
LEMMA SmallestNumber ==
  ASSUME NEW T \in SUBSET Nat, T # {}
  PROVE  \E m \in T : \A n \in T : m <= n
<1> DEFINE R == {nn \in Nat \X Nat : nn[1] < nn[2]}
<1>1. IsWellFoundedOn(R, Nat)
  BY NatLessThanWellFounded DEF OpToRel, IsWellFoundedOn
<1>2. PICK m \in T : \A n \in T : ~ (<<n, m>> \in R)
  BY <1>1, WFMin
<1>3. ASSUME NEW n \in T, n < m PROVE FALSE
  <2>1. <<n, m>> \in Nat \X Nat /\ <<n, m>>[1] < <<n, m>>[2]  BY <1>3
  <2>2. <<n, m>> \in R  BY <2>1
  <2> QED  BY <1>2, <2>2
<1>4. \A n \in T : n \in Nat /\ m \in Nat  OBVIOUS
<1> HIDE DEF R
<1> QED  BY <1>3, <1>4

(* A set of naturals that has 0 and with each number the next has them all.  *)
LEMMA NaturalsByStep ==
  ASSUME NEW T \in SUBSET Nat, 0 \in T, \A n \in T : n + 1 \in T
  PROVE  T = Nat
<1> SUFFICES ASSUME Nat \ T # {} PROVE FALSE
  OBVIOUS
<1>1. PICK m \in Nat \ T : \A k \in Nat \ T : m <= k
  <2>1. Nat \ T \in SUBSET Nat
    OBVIOUS
  <2> QED  BY <2>1, SmallestNumber
<1>2. m # 0 /\ m - 1 \in Nat
  OBVIOUS
<1>3. m - 1 \in T
  BY <1>1, <1>2
<1>4. (m - 1) + 1 \in T
  BY <1>3
<1> QED  BY <1>2, <1>4

(* Every set of lengths can be put in order.                                *)
LEMMA InOrderExists ==
  ASSUME NEW n \in Nat, NEW S \in SUBSET (1 .. n)
  PROVE  /\ IsFiniteSet(S) /\ Cardinality(S) \in Nat
         /\ InOrder(S) \in Bijection(1 .. Cardinality(S), S)
         /\ \A p, r \in 1 .. Cardinality(S) : p < r => InOrder(S)[p] < InOrder(S)[r]
<1> DEFINE Card(X) == Cardinality(X)
           Ordered(X, f) == \A p, r \in 1 .. Cardinality(X) : p < r => f[p] < f[r]
           CanOrder(X) == \E f \in Bijection(1 .. Cardinality(X), X) : Ordered(X, f)
           T == {m \in Nat : \A X \in SUBSET (1 .. m) : CanOrder(X)}
<1>1. ASSUME NEW m \in Nat, NEW X \in SUBSET (1 .. m)
      PROVE  IsFiniteSet(X) /\ Cardinality(X) \in Nat
  <2>1. IsFiniteSet(1 .. m)
    BY FS_Interval
  <2> QED  BY <2>1, FS_Subset, FS_CardinalityType
<1>2. 0 \in T
  <2> SUFFICES ASSUME NEW X \in SUBSET (1 .. 0) PROVE CanOrder(X)
    OBVIOUS
  <2>0. X = {}
    <3>1. 1 .. 0 = {}
      OBVIOUS
    <3> QED  BY <3>1
  <2>1. X = {} /\ Cardinality(X) = 0
    BY <2>0, FS_EmptySet
  <2>2. 1 .. Cardinality(X) = {}
    BY <2>1
  <2> DEFINE f == [p \in {} |-> 0]
  <2>3. f \in Bijection(1 .. Cardinality(X), X)
    BY <2>1, <2>2 DEF Bijection, Injection, Surjection, IsInjective
  <2>4. Ordered(X, f)
    BY <2>2
  <2> QED  BY <2>3, <2>4
<1>3. ASSUME NEW m \in T PROVE m + 1 \in T
  <2> SUFFICES ASSUME NEW X \in SUBSET (1 .. m + 1) PROVE CanOrder(X)
    OBVIOUS
  <2>0. m \in Nat /\ \A Y \in SUBSET (1 .. m) : CanOrder(Y)
    OBVIOUS
  <2>1. CASE m + 1 \notin X
    <3>1. X \in SUBSET (1 .. m)
      BY <2>1, <2>0
    <3> QED  BY <2>0, <3>1
  <2>2. CASE m + 1 \in X
    <3> DEFINE Y == X \ {m + 1}
               c == Cardinality(Y)
    <3>1. Y \in SUBSET (1 .. m)
      BY <2>0
    <3>2. IsFiniteSet(Y) /\ c \in Nat /\ X = Y \cup {m + 1} /\ m + 1 \notin Y
      BY <1>1, <2>0, <2>2, <3>1
    <3> HIDE DEF Y
    <3>3. Cardinality(X) = c + 1
      BY <3>2, FS_AddElement
    <3>4. PICK f \in Bijection(1 .. c, Y) : Ordered(Y, f)
      BY <2>0, <3>1
    <3> DEFINE g == [p \in 1 .. c + 1 |-> IF p = c + 1 THEN m + 1 ELSE f[p]]
    <3> HIDE DEF c
    <3>5. /\ f \in [1 .. c -> Y]
          /\ \A p, r \in 1 .. c : f[p] = f[r] => p = r
          /\ \A y \in Y : \E p \in 1 .. c : f[p] = y
      BY <3>4 DEF Bijection, Injection, Surjection, IsInjective, c
    <3>6. \A p \in 1 .. c + 1 : p = c + 1 \/ p \in 1 .. c
      BY <3>2 DEF c
    <3>7. g \in [1 .. c + 1 -> X] /\ g[c + 1] = m + 1 /\ \A p \in 1 .. c : g[p] = f[p]
      <4>1. c + 1 \in 1 .. c + 1 /\ \A p \in 1 .. c : p \in 1 .. c + 1 /\ p # c + 1
        BY <3>2 DEF c
      <4> QED  BY <3>2, <3>5, <3>6, <4>1
    <3> HIDE DEF g
    <3>8. \A p, r \in 1 .. c + 1 : g[p] = g[r] => p = r
      BY <3>2, <3>5, <3>6, <3>7
    <3>9. \A x \in X : \E p \in 1 .. c + 1 : g[p] = x
      <4> TAKE x \in X
      <4>1. CASE x = m + 1
        <5>1. c + 1 \in 1 .. c + 1
          BY <3>2 DEF c
        <5> QED  BY <3>7, <4>1, <5>1
      <4>2. CASE x \in Y
        <5>1. PICK p \in 1 .. c : f[p] = x
          BY <3>5, <4>2
        <5>2. p \in 1 .. c + 1
          BY <3>2 DEF c
        <5> QED  BY <3>7, <5>1, <5>2
      <4> QED  BY <3>2, <4>1, <4>2
    <3>10. g \in Bijection(1 .. Cardinality(X), X)
      BY <3>3, <3>7, <3>8, <3>9 DEF Bijection, Injection, Surjection, IsInjective
    <3>11. Ordered(X, g)
      <4> SUFFICES ASSUME NEW p \in 1 .. c + 1, NEW r \in 1 .. c + 1, p < r
                   PROVE  g[p] < g[r]
        BY <3>3
      <4>1. p \in 1 .. c /\ f[p] \in Y
        BY <3>2, <3>5, <3>6 DEF c
      <4>2. f[p] \in 1 .. m
        BY <3>1, <4>1
      <4>3. CASE r = c + 1
        BY <2>0, <3>7, <4>1, <4>2, <4>3
      <4>4. CASE r \in 1 .. c
        BY <3>4, <3>7, <4>1, <4>4 DEF c
      <4> QED  BY <3>6, <4>3, <4>4
    <3> QED  BY <3>10, <3>11
  <2> QED  BY <2>1, <2>2
<1>4. T \in SUBSET Nat
  OBVIOUS
<1>5. CanOrder(S)
  <2> HIDE DEF CanOrder
  <2>1. T = Nat
    <3> HIDE DEF T
    <3> QED  BY <1>2, <1>3, <1>4, NaturalsByStep
  <2> QED  BY <2>1
<1> QED  BY <1>1, <1>5 DEF InOrder

-----------------------------------------------------------------------------
(* The allocation of the pool.                                               *)

(* A pool below its budget gets at least one run more, never beyond it.      *)
LEMMA GrowCapGrows ==
  ASSUME NEW n \in Nat, NEW cap \in Nat, n < cap
  PROVE  GrowCap(n, cap) \in n + 1 .. cap
BY DEF GrowCap, Lesser

(* After any runs that the budget has room for, all of them are in what is   *)
(* allocated: the pool is grown before the run that would be written past it *)
(* (cache.c:97-105).                                                         *)
LEMMA AllocForFits ==
  ASSUME NEW c, c.used \in Nat, c.alloc \in Nat, c.cap \in Nat,
         c.used <= c.alloc, c.alloc <= c.cap,
         NEW n \in Nat, c.used + n <= c.cap
  PROVE  AllocFor(c, n) \in c.used + n .. c.cap
<1> DEFINE u == c.used
           a == c.alloc
           cap == c.cap
           Grown(k, old) == IF u + k - 1 = old THEN GrowCap(old, cap) ELSE old
           IsAfter(f, m) == f = [j \in 0 .. m |-> IF j = 0 THEN a ELSE Grown(j, f[j - 1])]
           T == {m \in Nat : \E f : IsAfter(f, m)}
<1>1. 0 \in T
  <2> DEFINE g == [j \in 0 .. 0 |-> a]
  <2>1. \A j \in 0 .. 0 : j = 0
    OBVIOUS
  <2> HIDE DEF Grown
  <2>2. IsAfter(g, 0)
    BY <2>1
  <2> QED  BY <2>2
<1>2. ASSUME NEW m \in T PROVE m + 1 \in T
  <2>1. m \in Nat
    OBVIOUS
  <2>2. PICK f : IsAfter(f, m)
    OBVIOUS
  <2> DEFINE g == [j \in 0 .. m + 1 |-> IF j = m + 1 THEN Grown(m + 1, f[m]) ELSE f[j]]
  <2> HIDE DEF T
  <2>3. g[m + 1] = Grown(m + 1, f[m]) /\ \A j \in 0 .. m : g[j] = f[j]
    <3>1. m + 1 \in 0 .. m + 1 /\ \A j \in 0 .. m : j \in 0 .. m + 1 /\ j # m + 1
      BY <2>1
    <3> HIDE DEF Grown
    <3> QED  BY <3>1
  <2>4. \A j \in 0 .. m + 1 : g[j] = IF j = 0 THEN a ELSE Grown(j, g[j - 1])
    <3> TAKE j \in 0 .. m + 1
    <3> HIDE DEF g, Grown
    <3>1. CASE j = m + 1
      <4>1. j # 0 /\ j - 1 = m /\ m \in 0 .. m
        BY <2>1, <3>1
      <4> QED  BY <2>3, <3>1, <4>1
    <3>2. CASE j = 0
      <4>1. 0 \in 0 .. m /\ g[0] = f[0]
        BY <2>1, <2>3
      <4>2. f[0] = a
        BY <2>2, <4>1
      <4> QED  BY <3>2, <4>1, <4>2
    <3>3. CASE j # 0 /\ j # m + 1
      <4>1. j \in 0 .. m /\ j - 1 \in 0 .. m
        BY <2>1, <3>3
      <4>2. f[j] = Grown(j, f[j - 1])
        BY <2>2, <3>3, <4>1
      <4>3. g[j] = f[j] /\ g[j - 1] = f[j - 1]
        BY <2>3, <4>1
      <4> QED  BY <3>3, <4>2, <4>3
    <3> QED  BY <3>1, <3>2, <3>3
  <2>5. g = [j \in 0 .. m + 1 |-> g[j]]
    OBVIOUS
  <2>6. IsAfter(g, m + 1)
    <3> HIDE DEF g, Grown
    <3> QED  BY <2>4, <2>5
  <2>7. m + 1 \in Nat
    BY <2>1
  <2> HIDE DEF IsAfter, g
  <2> QED  BY <2>6, <2>7 DEF T
<1>3. T \in SUBSET Nat
  OBVIOUS
<1>4. n \in T
  <2> HIDE DEF T
  <2>1. T = Nat
    BY <1>1, <1>2, <1>3, NaturalsByStep
  <2> QED  BY <2>1
<1> DEFINE after == CHOOSE f : IsAfter(f, n)
<1>5. AllocFor(c, n) = after[n]
  BY DEF AllocFor
<1>6. IsAfter(after, n)
  <2>1. \E f : IsAfter(f, n)
    BY <1>4
  <2> HIDE DEF IsAfter
  <2> QED  BY <2>1
<1> HIDE DEF after
<1> DEFINE I == {j \in Nat : j <= n => after[j] \in u + j .. cap}
<1>7. 0 \in I
  <2>1. 0 \in 0 .. n
    OBVIOUS
  <2>2. after[0] = a
    BY <1>6, <2>1
  <2> QED  BY <2>2
<1>8. ASSUME NEW j \in I PROVE j + 1 \in I
  <2> SUFFICES ASSUME j + 1 <= n PROVE after[j + 1] \in u + (j + 1) .. cap
    OBVIOUS
  <2>1. j \in Nat /\ after[j] \in u + j .. cap
    OBVIOUS
  <2>2. after[j + 1] = Grown(j + 1, after[j])
    <3>1. j + 1 \in 0 .. n /\ j + 1 # 0 /\ (j + 1) - 1 = j
      BY <2>1
    <3> HIDE DEF Grown
    <3> QED  BY <1>6, <3>1
  <2>3. CASE u + (j + 1) - 1 = after[j]
    <3>1. after[j] \in Nat /\ after[j] < cap
      BY <2>1, <2>3
    <3>2. GrowCap(after[j], cap) \in after[j] + 1 .. cap
      BY <3>1, GrowCapGrows
    <3> QED  BY <2>1, <2>2, <2>3, <3>2
  <2>4. CASE u + (j + 1) - 1 # after[j]
    BY <2>1, <2>2, <2>4
  <2> QED  BY <2>3, <2>4
<1>9. I \in SUBSET Nat
  OBVIOUS
<1>10. n \in I
  <2> HIDE DEF I
  <2>1. I = Nat
    BY <1>7, <1>8, <1>9, NaturalsByStep
  <2> QED  BY <2>1
<1> QED  BY <1>5, <1>10

-----------------------------------------------------------------------------
(* Committing a sublen and reading it back.                                  *)

(* The runs of a sublen: for every length the first that reaches it has its  *)
(* distance.                                                                 *)
LEMMA RunsOfSublen ==
  ASSUME NEW length \in Nat, 3 <= length, NEW sublen,
         \A k \in 3 .. length : sublen[k] \in Nat
  PROVE  /\ Cardinality(RunEnds(sublen, length)) \in Nat \ {0}
         /\ RunsOf(sublen, length) \in Seq(Nat \X Nat)
         /\ Len(RunsOf(sublen, length)) = Cardinality(RunEnds(sublen, length))
         /\ \A k \in 3 .. length : \E r \in 1 .. Len(RunsOf(sublen, length)) :
              /\ RunsOf(sublen, length)[r][1] >= k
              /\ RunsOf(sublen, length)[r][2] = sublen[k]
              /\ \A p \in 1 .. r - 1 : RunsOf(sublen, length)[p][1] < k
<1> DEFINE E == RunEnds(sublen, length)
           ends == InOrder(E)
           n == Cardinality(E)
           runs == RunsOf(sublen, length)
<1>1. /\ E \in SUBSET (1 .. length) /\ E \subseteq 3 .. length /\ length \in E
      /\ \A k \in 3 .. length : k \in E <=> (k = length \/ sublen[k] # sublen[k + 1])
      /\ \A e \in E : e \in 3 .. length
  BY DEF RunEnds
<1> HIDE DEF E
<1>2. /\ IsFiniteSet(E) /\ n \in Nat /\ ends \in Bijection(1 .. n, E)
      /\ \A p, r \in 1 .. n : p < r => ends[p] < ends[r]
  BY <1>1, InOrderExists
<1>3. n # 0
  BY <1>1, <1>2, FS_EmptySet
<1> HIDE DEF n, ends
<1>4. ends \in [1 .. n -> E] /\ \A e \in E : \E r \in 1 .. n : ends[r] = e
  BY <1>2 DEF Bijection, Injection, Surjection
<1>5. runs = [r \in 1 .. n |-> <<ends[r], sublen[ends[r]]>>]
  BY <1>4 DEF RunsOf, ends, E
<1> HIDE DEF runs
<1>6. \A r \in 1 .. n : ends[r] \in Nat /\ sublen[ends[r]] \in Nat
  <2> TAKE r \in 1 .. n
  <2>1. ends[r] \in E
    BY <1>4
  <2>2. ends[r] \in 3 .. length
    BY <1>1, <2>1
  <2> QED  BY <2>2
<1>7. runs \in Seq(Nat \X Nat) /\ Len(runs) = n
  <2>1. runs \in [1 .. n -> Nat \X Nat]
    BY <1>5, <1>6
  <2> QED  BY <1>2, <2>1
<1>8. ASSUME NEW k \in 3 .. length
      PROVE  \E r \in 1 .. n : /\ runs[r][1] >= k /\ runs[r][2] = sublen[k]
                               /\ \A p \in 1 .. r - 1 : runs[p][1] < k
  <2> DEFINE Reach == {e \in E : e >= k}
  <2>1. PICK e \in Reach : \A f \in Reach : e <= f
    <3>1. Reach \in SUBSET Nat /\ length \in Reach
      <4>1. \A e \in E : e \in Nat
        BY <1>1
      <4>2. length >= k
        OBVIOUS
      <4> QED  BY <1>1, <4>1, <4>2
    <3> HIDE DEF Reach
    <3> QED  BY <3>1, SmallestNumber
  <2>2. e \in E /\ e \in 3 .. length /\ k <= e /\ \A f \in E : f >= k => e <= f
    BY <1>1, <2>1
  <2>3. sublen[e] = sublen[k]
    <3> SUFFICES ASSUME sublen[e] # sublen[k] PROVE FALSE
      OBVIOUS
    <3> DEFINE Other == {j \in k .. e : sublen[j] # sublen[k]}
    <3>1. Other \in SUBSET Nat /\ e \in Other
      BY <2>2
    <3>2. PICK j \in Other : \A f \in Other : j <= f
      <4> HIDE DEF Other
      <4> QED  BY <3>1, SmallestNumber
    <3>3. j \in k .. e /\ sublen[j] # sublen[k]
      OBVIOUS
    <3>4. j - 1 \in k .. e /\ j - 1 < e /\ j - 1 \in 3 .. length /\ (j - 1) + 1 = j
      BY <2>2, <3>3
    <3>5. sublen[j - 1] = sublen[k]
      BY <3>2, <3>3, <3>4
    <3>6. j - 1 \in E
      BY <1>1, <3>3, <3>4, <3>5
    <3> QED  BY <2>2, <3>4, <3>6
  <2>4. PICK r \in 1 .. n : ends[r] = e
    BY <1>4, <2>2
  <2>5. runs[r][1] = e /\ runs[r][2] = sublen[e]
    BY <1>5, <2>4
  <2>6. ASSUME NEW p \in 1 .. r - 1 PROVE runs[p][1] < k
    <3>1. p \in 1 .. n /\ p < r
      BY <1>2, <2>4
    <3>2. ends[p] < e /\ ends[p] \in E /\ ends[p] \in Nat
      BY <1>2, <1>4, <1>6, <2>4, <3>1
    <3>3. ends[p] < k
      BY <2>2, <3>2
    <3> QED  BY <1>5, <3>1, <3>3
  <2> QED  BY <2>2, <2>3, <2>5, <2>6
<1> QED  BY <1>2, <1>3, <1>7, <1>8 DEF runs, n, E

(* The pool is a sequence of as many runs as are used, within what is       *)
(* allocated of the budget.                                                 *)
PoolFits(c) ==
  /\ DOMAIN c = {"length", "dist", "runOff", "pool", "used", "cap", "alloc", "complete"}
  /\ c.pool \in Seq(Nat \X Nat) /\ Len(c.pool) = c.used
  /\ c.alloc \in Nat /\ c.cap \in Nat
  /\ c.used <= c.alloc /\ c.alloc <= c.cap

(* Run r of the pool is the first one of position q that reaches length k.  *)
FirstRunFor(c, q, k, r) ==
  /\ r \in c.runOff[q] + 1 .. c.used
  /\ c.pool[r][1] >= k
  /\ \A p \in c.runOff[q] + 1 .. r - 1 : c.pool[p][1] < k

(* The elements of two sequences put together.                               *)
LEMMA JoinedRuns ==
  ASSUME NEW S, NEW s \in Seq(S), NEW t \in Seq(S)
  PROVE  /\ s \o t \in Seq(S) /\ Len(s \o t) = Len(s) + Len(t)
         /\ \A r \in 1 .. Len(s) : (s \o t)[r] = s[r]
         /\ \A r \in 1 .. Len(t) : (s \o t)[Len(s) + r] = t[r]
OBVIOUS

(* d is c with the runs of a sublen at position i, all of them or none; what *)
(* was in the pool stays where it was.                                      *)
Committed(c, i, length, sublen, d) ==
  /\ PoolFits(d)
  /\ d.length = c.length /\ d.dist = c.dist
  /\ DOMAIN d.runOff = DOMAIN c.runOff
  /\ \A q \in DOMAIN c.runOff : q # i => d.runOff[q] = c.runOff[q]
  /\ ~ c.complete => ~ d.complete
  /\ c.used <= d.used /\ \A r \in 1 .. c.used : d.pool[r] = c.pool[r]
  /\ length >= 3 =>
       \/ d.runOff[i] = NoSublen /\ ~ d.complete
       \/ /\ d.runOff[i] = c.used /\ c.used < d.used
          /\ \A k \in 3 .. length : \E r \in Nat :
               FirstRunFor(d, i, k, r) /\ d.pool[r][2] = sublen[k]

(* ZopfliSublenToCache.                                                      *)
LEMMA SublenToCacheCommits ==
  ASSUME NEW c, PoolFits(c), NEW i \in DOMAIN c.runOff, NEW length \in Nat, NEW sublen,
         \A k \in 3 .. length : sublen[k] \in Nat
  PROVE  Committed(c, i, length, sublen, SublenToCache(c, i, length, sublen))
<1> DEFINE d == SublenToCache(c, i, length, sublen)
<1>0. d = SublenToCache(c, i, length, sublen)
  OBVIOUS
<1> HIDE DEF d
<1> SUFFICES Committed(c, i, length, sublen, d)
  BY <1>0
<1> USE DEF Committed
<1> DEFINE nruns == Cardinality(RunEnds(sublen, length))
           runs == RunsOf(sublen, length)
           avail == c.cap - c.used
<1>1. /\ c.used \in Nat /\ c.alloc \in Nat /\ c.cap \in Nat
      /\ c.used <= c.alloc /\ c.alloc <= c.cap /\ avail \in Nat /\ c.used + avail = c.cap
      /\ c.pool \in Seq(Nat \X Nat) /\ Len(c.pool) = c.used
      /\ DOMAIN c = {"length", "dist", "runOff", "pool", "used", "cap", "alloc", "complete"}
  BY DEF PoolFits
<1>2. CASE length < 3
  BY <1>0, <1>1, <1>2 DEF SublenToCache
<1>3. CASE ~ (length < 3) /\ nruns > avail
  <2> DEFINE a == AllocFor(c, avail)
  <2>1. a \in c.used + avail .. c.cap
    <3> HIDE DEF avail
    <3>1. c.used + avail <= c.cap
      BY <1>1
    <3> QED  BY <1>1, <3>1, AllocForFits
  <2>2. d = [c EXCEPT !.complete = FALSE, !.runOff[i] = NoSublen, !.alloc = a]
    BY <1>0, <1>3 DEF SublenToCache
  <2> HIDE DEF a
  <2> QED  BY <1>1, <2>1, <2>2 DEF PoolFits
<1>4. CASE ~ (length < 3) /\ ~ (nruns > avail)
  <2> DEFINE a == AllocFor(c, nruns)
  <2>1. /\ nruns \in Nat \ {0} /\ runs \in Seq(Nat \X Nat) /\ Len(runs) = nruns
        /\ \A k \in 3 .. length : \E r \in 1 .. nruns :
             /\ runs[r][1] >= k /\ runs[r][2] = sublen[k]
             /\ \A p \in 1 .. r - 1 : runs[p][1] < k
    <3>1. 3 <= length
      BY <1>4
    <3> QED  BY <3>1, RunsOfSublen
  <2> HIDE DEF nruns, runs
  <2>2. nruns \in Nat /\ c.used + nruns <= c.cap
    BY <1>1, <1>4, <2>1
  <2>3. a \in c.used + nruns .. c.cap
    BY <1>1, <2>2, AllocForFits
  <2>4. d = [c EXCEPT !.runOff[i] = c.used, !.pool = c.pool \o runs,
                      !.used = c.used + nruns, !.alloc = a]
    BY <1>0, <1>4 DEF SublenToCache, nruns, runs
  <2> HIDE DEF a
  <2> DEFINE pool == c.pool \o runs
  <2>5. /\ pool \in Seq(Nat \X Nat) /\ Len(pool) = c.used + nruns
        /\ \A r \in 1 .. c.used : pool[r] = c.pool[r]
        /\ \A r \in 1 .. nruns : pool[c.used + r] = runs[r]
    <3>1. c.pool \in Seq(Nat \X Nat) /\ runs \in Seq(Nat \X Nat)
      BY <1>1, <2>1
    <3>2. /\ pool \in Seq(Nat \X Nat) /\ Len(pool) = Len(c.pool) + Len(runs)
          /\ \A r \in 1 .. Len(c.pool) : pool[r] = c.pool[r]
          /\ \A r \in 1 .. Len(runs) : pool[Len(c.pool) + r] = runs[r]
      BY ONLY <3>1, JoinedRuns
    <3> QED  BY <1>1, <2>1, <3>2
  <2> HIDE DEF pool
  <2>6. /\ DOMAIN d = DOMAIN c /\ d.length = c.length /\ d.dist = c.dist
        /\ d.runOff = [c.runOff EXCEPT ![i] = c.used]
        /\ d.pool = pool /\ d.used = c.used + nruns /\ d.alloc = a /\ d.cap = c.cap
        /\ d.complete = c.complete
    BY <1>1, <2>4 DEF pool
  <2>7. PoolFits(d)
    BY <1>1, <2>2, <2>3, <2>5, <2>6 DEF PoolFits
  <2>8. ASSUME NEW k \in 3 .. length
        PROVE  \E r \in Nat : FirstRunFor(d, i, k, r) /\ d.pool[r][2] = sublen[k]
    <3>1. PICK r \in 1 .. nruns :
            /\ runs[r][1] >= k /\ runs[r][2] = sublen[k]
            /\ \A p \in 1 .. r - 1 : runs[p][1] < k
      BY <2>1, <2>8
    <3> DEFINE s == c.used + r
    <3>0. r \in Nat /\ 1 <= r /\ r <= nruns
      BY <2>2
    <3>2. s \in Nat /\ s \in c.used + 1 .. c.used + nruns /\ pool[s] = runs[r]
      <4>1. c.used + r \in Nat /\ c.used + r \in c.used + 1 .. c.used + nruns
        BY <1>1, <2>2, <3>0
      <4> QED  BY <2>5, <4>1
    <3>3. ASSUME NEW p \in c.used + 1 .. s - 1 PROVE pool[p][1] < k
      <4>1. p - c.used \in 1 .. r - 1 /\ p - c.used \in 1 .. nruns /\ p = c.used + (p - c.used)
        BY <1>1, <2>2, <3>0, <3>3
      <4>2. pool[p] = runs[p - c.used]
        BY <2>5, <4>1
      <4> QED  BY <3>1, <4>1, <4>2
    <3>4. d.runOff[i] = c.used
      BY <2>6
    <3> HIDE DEF s
    <3> QED  BY <2>6, <3>1, <3>2, <3>3, <3>4 DEF FirstRunFor
  <2>9. d.runOff[i] = c.used /\ c.used < d.used /\ DOMAIN d.runOff = DOMAIN c.runOff
        /\ c.used <= d.used /\ \A q \in DOMAIN c.runOff : q # i => d.runOff[q] = c.runOff[q]
    BY <1>1, <2>1, <2>6
  <2>10. \A r \in 1 .. c.used : d.pool[r] = c.pool[r]
    BY <2>5, <2>6
  <2> QED  BY <2>6, <2>7, <2>8, <2>9, <2>10
<1> QED  BY <1>2, <1>3, <1>4

(* The distance the cache gives for a length is that of the first run that  *)
(* reaches it.                                                              *)
LEMMA CachedDistIs ==
  ASSUME NEW c, PoolFits(c), NEW q, c.runOff[q] \in Nat, NEW k \in Nat, NEW r \in Nat,
         FirstRunFor(c, q, k, r)
  PROVE  CachedDist(c, q, k) = c.pool[r][2]
<1> DEFINE Is(x) == /\ c.pool[x][1] >= k
                    /\ \A p \in c.runOff[q] + 1 .. x - 1 : c.pool[p][1] < k
<1>1. PICK o \in Nat : o = c.runOff[q]
  OBVIOUS
<1>2. PICK u \in Nat : u = c.used
  BY DEF PoolFits
<1>3. r \in o + 1 .. u /\ Is(r)
  BY <1>1, <1>2 DEF FirstRunFor
<1>4. \A p \in o + 1 .. u : c.pool[p][1] \in Nat
  <2> TAKE p \in o + 1 .. u
  <2>1. p \in 1 .. Len(c.pool) /\ c.pool \in Seq(Nat \X Nat)
    BY <1>1, <1>2 DEF PoolFits
  <2> QED  BY <2>1
<1>5. ASSUME NEW x \in o + 1 .. u, Is(x) PROVE x = r
  <2>1. CASE x < r
    <3>1. x \in o + 1 .. r - 1
      BY <1>3, <2>1
    <3> QED  BY <1>1, <1>3, <1>4, <1>5, <3>1
  <2>2. CASE r < x
    <3>1. r \in o + 1 .. x - 1
      BY <1>3, <2>2
    <3> QED  BY <1>1, <1>3, <1>4, <1>5, <3>1
  <2> QED  BY <1>3, <2>1, <2>2
<1>6. (CHOOSE x \in o + 1 .. u : Is(x)) = r
  <2> HIDE DEF Is
  <2> QED  BY <1>3, <1>5
<1> QED  BY <1>1, <1>2, <1>6 DEF CachedDist
=============================================================================
