------------------------------- MODULE Induction -------------------------------
(***************************************************************************)
(* Induction and iteration over the naturals, stated about sets: a set of  *)
(* naturals that is not empty has a least element, because the finite      *)
(* intervals in front of its elements are well ordered by inclusion.       *)
(***************************************************************************)
EXTENDS Integers, FiniteSetTheorems, TLAPS

(* A set of naturals that is not empty has a least element.                *)
LEMMA LeastNatural ==
    ASSUME NEW T, T \subseteq Nat, T # {}
    PROVE  \E m \in T : \A n \in T : m <= n
<1> DEFINE R == StrictSubsetOrdering(Nat)
           U == {0 .. n - 1 : n \in T}
           F == FiniteSubsetsOf(Nat)
<1>1. IsWellFoundedOn(R, F) BY FS_StrictSubsetOrderingWellFounded
<1>2. U \subseteq F /\ U # {}
  <2>1. \A n \in T : 0 .. n - 1 \in SUBSET Nat /\ IsFiniteSet(0 .. n - 1) BY FS_Interval
  <2> QED BY <2>1 DEF FiniteSubsetsOf
<1>3. \A x, y \in SUBSET Nat : x \subseteq y /\ x # y => <<x, y>> \in R
  BY DEF StrictSubsetOrdering
<1> HIDE DEF R, F
<1>4. PICK x \in U : \A y \in U : <<y, x>> \notin R
  <2> HIDE DEF U
  <2> QED BY <1>1, <1>2, WFMin
<1>5. PICK m \in T : x = 0 .. m - 1 OBVIOUS
<1>6. ASSUME NEW n \in T, n < m PROVE FALSE
  <2>1. n \in Nat /\ m \in Nat OBVIOUS
  <2>2. (0 .. n - 1) \subseteq (0 .. m - 1) /\ n \in (0 .. m - 1) /\ n \notin (0 .. n - 1)
    BY <2>1, <1>6
  <2>3. (0 .. n - 1) # (0 .. m - 1) BY <2>2
  <2>4. (0 .. n - 1) \in SUBSET Nat /\ (0 .. m - 1) \in SUBSET Nat BY <2>1
  <2>5. <<0 .. n - 1, x>> \in R BY <1>3, <1>5, <2>2, <2>3, <2>4
  <2> QED BY <1>4, <2>5
<1> QED
  <2>1. \A n \in T : n \in Nat /\ m \in Nat OBVIOUS
  <2> QED BY <1>6, <2>1

(* Induction.                                                              *)
LEMMA NaturalsIn ==
    ASSUME NEW S, 0 \in S, \A n \in Nat : n \in S => n + 1 \in S
    PROVE  Nat \subseteq S
<1> SUFFICES ASSUME Nat \ S # {} PROVE FALSE OBVIOUS
<1>1. PICK m \in Nat \ S : \A n \in Nat \ S : m <= n BY LeastNatural
<1>2. m # 0 /\ m \in Nat OBVIOUS
<1>3. m - 1 \in Nat /\ m - 1 \in S BY <1>1, <1>2
<1> QED BY <1>2, <1>3

(* f repeats step on d.                                                    *)
Iterates(f, D, step, d) ==
    /\ f \in [Nat -> D]
    /\ f[0] = d
    /\ \A n \in Nat : f[n + 1] = step[f[n]]

(* A step can be repeated: this is what a recursive function over the      *)
(* naturals rests on.                                                      *)
LEMMA Iteration ==
    ASSUME NEW D, NEW step \in [D -> D], NEW d \in D
    PROVE  \E f : Iterates(f, D, step, d)
<1> DEFINE G(n) == {g \in [0 .. n -> D] : g[0] = d /\ \A k \in 0 .. n - 1 : g[k + 1] = step[g[k]]}
<1>1. \A n \in Nat : G(n) # {}
  <2> DEFINE S == {n \in Nat : G(n) # {}}
  <2>1. 0 \in S
    <3>1. [k \in 0 .. 0 |-> d] \in G(0) OBVIOUS
    <3> QED BY <3>1
  <2>2. ASSUME NEW n \in Nat, n \in S PROVE n + 1 \in S
    <3>1. PICK g \in G(n) : TRUE BY <2>2
    <3> DEFINE h == [k \in 0 .. n + 1 |-> IF k <= n THEN g[k] ELSE step[g[n]]]
    <3>2. g \in [0 .. n -> D] /\ g[0] = d /\ \A k \in 0 .. n - 1 : g[k + 1] = step[g[k]]
      BY <3>1
    <3>3. g[n] \in D /\ step[g[n]] \in D BY <3>2
    <3>4. h \in [0 .. n + 1 -> D] BY <3>2, <3>3
    <3>5. h[0] = d BY <3>2
    <3>6. ASSUME NEW k \in 0 .. (n + 1) - 1 PROVE h[k + 1] = step[h[k]]
      <4>1. h[k] = g[k] OBVIOUS
      <4>2. CASE k = n BY <4>1, <4>2
      <4>3. CASE k # n
        <5>1. k \in 0 .. n - 1 /\ k + 1 <= n /\ k + 1 \in 0 .. n + 1 BY <4>3
        <5> QED BY <3>2, <4>1, <5>1
      <4> QED BY <4>2, <4>3
    <3> HIDE DEF h
    <3>7. h \in G(n + 1) BY <3>4, <3>5, <3>6
    <3> QED BY <3>7
  <2> HIDE DEF S
  <2>3. Nat \subseteq S BY <2>1, <2>2, NaturalsIn
  <2> QED BY <2>3 DEF S
<1>2. \A m \in Nat : \A n \in Nat : m <= n => \A g \in G(n), h \in G(m) : g[m] = h[m]
  <2> DEFINE S == {m \in Nat : \A n \in Nat : m <= n => \A g \in G(n), h \in G(m) : g[m] = h[m]}
  <2>1. 0 \in S OBVIOUS
  <2>2. ASSUME NEW m \in Nat, m \in S PROVE m + 1 \in S
    <3> SUFFICES ASSUME NEW n \in Nat, m + 1 <= n, NEW g \in G(n), NEW h \in G(m + 1)
                 PROVE  g[m + 1] = h[m + 1]
      <4> HIDE DEF G
      <4> QED OBVIOUS
    <3> DEFINE r == [k \in 0 .. m |-> h[k]]
    <3>1. r \in G(m)
      <4>1. h \in [0 .. m + 1 -> D] /\ h[0] = d /\ \A k \in 0 .. (m + 1) - 1 : h[k + 1] = step[h[k]]
        OBVIOUS
      <4>2. r \in [0 .. m -> D] /\ r[0] = d BY <4>1
      <4>3. \A k \in 0 .. m - 1 : k \in 0 .. m /\ k + 1 \in 0 .. m /\ k \in 0 .. (m + 1) - 1 OBVIOUS
      <4>4. \A k \in 0 .. m - 1 : r[k + 1] = step[r[k]] BY <4>1, <4>3
      <4> HIDE DEF r
      <4> QED BY <4>2, <4>4
    <3>2. r[m] = h[m] OBVIOUS
    <3> HIDE DEF r
    <3>3. g[m] = h[m]
      <4> HIDE DEF G
      <4>1. m <= n OBVIOUS
      <4> QED BY <2>2, <3>1, <3>2, <4>1
    <3>4. m \in 0 .. n - 1 /\ m \in 0 .. (m + 1) - 1 OBVIOUS
    <3>5. g[m + 1] = step[g[m]] /\ h[m + 1] = step[h[m]] BY <3>4
    <3> QED BY <3>3, <3>5
  <2> HIDE DEF S
  <2>3. Nat \subseteq S BY <2>1, <2>2, NaturalsIn
  <2> QED BY <2>3 DEF S
<1> DEFINE pick(n) == CHOOSE g \in G(n) : TRUE
           f == [n \in Nat |-> pick(n)[n]]
<1>3. \A n \in Nat : pick(n) \in G(n)
  <2> HIDE DEF G
  <2> QED BY <1>1
<1> HIDE DEF pick
<1>4. \A n \in Nat : pick(n)[n] \in D BY <1>3
<1>5. f \in [Nat -> D] BY <1>4
<1>6. f[0] = d BY <1>3
<1>7. ASSUME NEW n \in Nat PROVE f[n + 1] = step[f[n]]
  <2>1. pick(n + 1)[n] = pick(n)[n]
    <3> HIDE DEF G
    <3>1. n <= n + 1 /\ n + 1 \in Nat OBVIOUS
    <3> QED BY <1>2, <1>3, <3>1
  <2>2. n \in 0 .. (n + 1) - 1 OBVIOUS
  <2>3. pick(n + 1)[n + 1] = step[pick(n + 1)[n]] BY <1>3, <2>2
  <2> QED BY <2>1, <2>3
<1> QED BY <1>5, <1>6, <1>7 DEF Iterates

-----------------------------------------------------------------------------
(* Collecting what edges lead to comes to an end after as many rounds as   *)
(* there are nodes, with the least set that includes the one they start    *)
(* with and is closed under the edges.                                     *)
LEMMA Closure ==
    ASSUME NEW N, IsFiniteSet(N), NEW E \in [N -> SUBSET N], NEW f \in [Nat -> SUBSET N],
           \A n \in Nat : f[n + 1] = f[n] \cup UNION {E[u] : u \in f[n]},
           NEW m \in Nat, Cardinality(N) <= m
    PROVE  /\ f[0] \subseteq f[m] /\ f[m] \subseteq N
           /\ \A u \in f[m] : E[u] \subseteq f[m]
           /\ \A S : f[0] \subseteq S /\ (\A u \in S \cap N : E[u] \subseteq S) => f[m] \subseteq S
<1>1. \A n \in Nat : f[n] \subseteq f[n + 1] /\ f[n] \subseteq N /\ IsFiniteSet(f[n])
  <2>1. \A n \in Nat : f[n] \subseteq f[n + 1] /\ f[n] \subseteq N OBVIOUS
  <2> QED BY <2>1, FS_Subset
<1>2. \A n \in Nat : f[n + 1] = f[n] \/ Cardinality(f[n]) >= n + 1
  <2> DEFINE S == {n \in Nat : f[n + 1] = f[n] \/ Cardinality(f[n]) >= n + 1}
  <2>1. 0 \in S
    <3>1. 0 \in Nat /\ f[0 + 1] = f[0] \cup UNION {E[u] : u \in f[0]} OBVIOUS
    <3>2. CASE f[0] = {}
      <4>1. f[0 + 1] = f[0] BY <3>1, <3>2
      <4> QED BY <3>1, <4>1
    <3>3. CASE f[0] # {}
      <4>1. Cardinality(f[0]) \in Nat /\ Cardinality(f[0]) # 0
        BY <1>1, <3>1, <3>3, FS_CardinalityType, FS_EmptySet
      <4>2. Cardinality(f[0]) >= 0 + 1 BY <4>1
      <4> QED BY <3>1, <4>2
    <3> QED BY <3>2, <3>3
  <2>2. ASSUME NEW n \in Nat, n \in S PROVE n + 1 \in S
    <3>1. CASE f[n + 1] = f[n]
      <4>1. n + 1 \in Nat /\ f[(n + 1) + 1] = f[n + 1] \cup UNION {E[u] : u \in f[n + 1]} OBVIOUS
      <4>2. f[(n + 1) + 1] = f[n + 1] BY <3>1, <4>1
      <4> QED BY <4>1, <4>2
    <3>2. CASE f[n + 1] # f[n] /\ Cardinality(f[n]) >= n + 1
      <4>1. n + 1 \in Nat /\ IsFiniteSet(f[n + 1]) /\ IsFiniteSet(f[n]) /\ f[n] \in SUBSET f[n + 1]
        BY <1>1
      <4>2. Cardinality(f[n + 1]) \in Nat /\ Cardinality(f[n]) \in Nat
        BY <4>1, FS_CardinalityType
      <4>3. Cardinality(f[n]) <= Cardinality(f[n + 1]) /\ Cardinality(f[n]) # Cardinality(f[n + 1])
        BY <3>2, <4>1, FS_Subset
      <4>4. Cardinality(f[n + 1]) >= (n + 1) + 1 BY <3>2, <4>2, <4>3
      <4> QED BY <4>1, <4>4
    <3> QED BY <2>2, <3>1, <3>2
  <2> HIDE DEF S
  <2>3. Nat \subseteq S BY <2>1, <2>2, NaturalsIn
  <2> QED BY <2>3 DEF S
<1>3. f[m + 1] = f[m]
  <2>1. Cardinality(f[m]) \in Nat /\ Cardinality(N) \in Nat BY <1>1, FS_CardinalityType
  <2>2. Cardinality(f[m]) <= Cardinality(N) BY <1>1, FS_Subset
  <2> QED BY <1>2, <2>1, <2>2
<1>4. \A u \in f[m] : E[u] \subseteq f[m]
  <2>1. f[m] = f[m] \cup UNION {E[u] : u \in f[m]} BY <1>3
  <2> QED BY <2>1
<1>5. f[0] \subseteq f[m]
  <2> DEFINE S == {n \in Nat : f[0] \subseteq f[n]}
  <2>1. 0 \in S OBVIOUS
  <2>2. ASSUME NEW n \in Nat, n \in S PROVE n + 1 \in S BY <1>1, <2>2
  <2> HIDE DEF S
  <2>3. Nat \subseteq S BY <2>1, <2>2, NaturalsIn
  <2> QED BY <2>3 DEF S
<1>6. ASSUME NEW T, f[0] \subseteq T, \A u \in T \cap N : E[u] \subseteq T
      PROVE  f[m] \subseteq T
  <2> DEFINE S == {n \in Nat : f[n] \subseteq T}
  <2>1. 0 \in S BY <1>6
  <2>2. ASSUME NEW n \in Nat, n \in S PROVE n + 1 \in S
    <3>1. f[n] \subseteq T \cap N BY <1>1, <2>2
    <3>2. UNION {E[u] : u \in f[n]} \subseteq T BY <1>6, <3>1
    <3>3. f[n + 1] \subseteq T BY <2>2, <3>2
    <3> QED BY <3>3
  <2> HIDE DEF S
  <2>3. Nat \subseteq S BY <2>1, <2>2, NaturalsIn
  <2> QED BY <2>3 DEF S
<1> QED BY <1>1, <1>4, <1>5, <1>6
=============================================================================
