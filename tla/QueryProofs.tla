---------------------------- MODULE QueryProofs ----------------------------
(***************************************************************************)
(* A query of one namespace, whatever is stored, asked and written         *)
(* meanwhile: the page holds what was stored during the query, hides       *)
(* nothing that stays, and is the reference page if nobody wrote.          *)
(* First the sort: any finite set of candidates has exactly one order.     *)
(***************************************************************************)
EXTENDS Query, FiniteSetTheorems, SequenceTheorems, WellFoundedInduction, TLAPS

(* Numbers have a least one.                                               *)
LEMMA LeastNumber ==
  ASSUME NEW B \in SUBSET Nat, B # {}
  PROVE  \E m \in B : \A n \in B : m <= n
<1>1. PICK m \in B : \A n \in B : ~(<<n, m>> \in OpToRel(<, Nat))
  BY NatLessThanWellFounded, WFMin
<1>2. ASSUME NEW n \in B PROVE ~(n < m)
  <2>1. <<n, m>> \in Nat \X Nat /\ <<n, m>>[1] = n /\ <<n, m>>[2] = m
    OBVIOUS
  <2>2. ASSUME n < m PROVE <<n, m>> \in OpToRel(<, Nat)
    BY <2>1, <2>2 DEF OpToRel
  <2> QED BY <2>2, <1>1
<1> QED BY <1>2

(* An image of a finite set is finite, no larger, and of the same size if  *)
(* no two elements share it.                                               *)
LEMMA ImageOfFinite ==
  ASSUME NEW S, IsFiniteSet(S), NEW f, f = [x \in S |-> f[x]], NEW T, T = {f[x] : x \in S}
  PROVE  /\ IsFiniteSet(T) /\ Cardinality(T) <= Cardinality(S)
         /\ (\A x, y \in S : f[x] = f[y] => x = y) => Cardinality(T) = Cardinality(S)
<1>1. f \in [S -> T] /\ \A t \in T : \E x \in S : f[x] = t
  OBVIOUS
<1>2. f \in Surjection(S, T)
  BY <1>1 DEF Surjection
<1>3. (\A x, y \in S : f[x] = f[y] => x = y) => f \in Injection(S, T)
  BY <1>1 DEF Injection, IsInjective
<1> QED BY <1>2, <1>3, FS_Surjection

-----------------------------------------------------------------------------
(* The order of a query.                                                   *)
Key == [by : {"Field", "Mtime", "Path"}, desc : BOOLEAN]

LEMMA KeysAreNumbers ==
  ASSUME NEW q \in QueryType, NEW c \in Candidates
  PROVE  /\ \E n \in Nat : DOMAIN q.keys = 1..n
         /\ \A i \in DOMAIN q.keys : KeyOf(q.keys[i], c) \in Int
         /\ c.path \in Int
<1>1. q.keys \in Seq(Key)
  BY DEF QueryType, Key
<1>2. /\ Len(q.keys) \in Nat /\ DOMAIN q.keys = 1..Len(q.keys)
      /\ \A i \in DOMAIN q.keys : q.keys[i] \in Key
  BY <1>1, LenProperties
<1>3. c.score \in Int /\ c.mtime \in Int /\ c.path \in Int
  <2>1. c.score \in Nat /\ c.mtime \in Mtimes /\ c.path \in Path
    BY DEF Candidates
  <2>2. Mtimes \subseteq Int
    BY QueryAssumption
  <2>3. c.path \in Int
    BY <2>1, QueryAssumption DEF Path
  <2>4. c.score \in Int
    BY <2>1
  <2>5. c.mtime \in Int
    BY <2>1, <2>2
  <2> QED BY <2>3, <2>4, <2>5
<1>4. ASSUME NEW i \in DOMAIN q.keys PROVE KeyOf(q.keys[i], c) \in Int
  <2>1. q.keys[i].by \in {"Field", "Mtime", "Path"}
    BY <1>2 DEF Key
  <2> QED BY <1>3, <2>1 DEF KeyOf
<1> QED BY <1>2, <1>3, <1>4

(* Two candidates agree on the keys before i.                              *)
Agree(q, a, b, i) == \A j \in 1..i - 1 : KeyOf(q.keys[j], a) = KeyOf(q.keys[j], b)

LEMMA BeforeIsStrictTotal ==
  ASSUME NEW q \in QueryType, NEW a \in Candidates, NEW b \in Candidates, NEW c \in Candidates
  PROVE  /\ ~Before(q, a, a)
         /\ Before(q, a, b) /\ Before(q, b, c) => Before(q, a, c)
         /\ a.path # b.path => Before(q, a, b) \/ Before(q, b, a)
<1>0. PICK n \in Nat : DOMAIN q.keys = 1..n
  BY KeysAreNumbers
<1> DEFINE v(i, x) == KeyOf(q.keys[i], x)
<1>1. \A i \in 1..n : v(i, a) \in Int /\ v(i, b) \in Int /\ v(i, c) \in Int
  BY <1>0, KeysAreNumbers
<1>2. a.path \in Int /\ b.path \in Int /\ c.path \in Int
  BY KeysAreNumbers
<1>3. ASSUME NEW x, NEW y
      PROVE  Before(q, x, y) <=>
               \/ \E i \in 1..n : Ahead(q.keys[i], x, y) /\ Agree(q, x, y, i)
               \/ (\A j \in 1..n : v(j, x) = v(j, y)) /\ x.path < y.path
  BY <1>0 DEF Before, Agree
<1>4. ASSUME NEW i \in 1..n, NEW x, NEW y
      PROVE  Ahead(q.keys[i], x, y) <=> IF q.keys[i].desc THEN v(i, x) > v(i, y)
                                                          ELSE v(i, x) < v(i, y)
  BY DEF Ahead
<1>5. ~Before(q, a, a)
  <2>1. \A i \in 1..n : ~Ahead(q.keys[i], a, a)
    <3> HIDE DEF v
    <3> QED BY <1>1, <1>4
  <2> QED BY <1>2, <1>3, <2>1
<1>6. ASSUME Before(q, a, b), Before(q, b, c) PROVE Before(q, a, c)
  <2>1. CASE (\A j \in 1..n : v(j, a) = v(j, b)) /\ a.path < b.path
    <3>1. CASE (\A j \in 1..n : v(j, b) = v(j, c)) /\ b.path < c.path
      <4>1. (\A j \in 1..n : v(j, a) = v(j, c)) /\ a.path < c.path
        <5> HIDE DEF v
        <5> QED BY <1>2, <2>1, <3>1
      <4> QED BY <1>3, <4>1
    <3>2. ASSUME NEW i \in 1..n, Ahead(q.keys[i], b, c), Agree(q, b, c, i)
          PROVE  Before(q, a, c)
      <4>1. Agree(q, a, c, i)
        BY <2>1, <3>2 DEF Agree
      <4>2. Ahead(q.keys[i], a, c)
        BY <2>1, <3>2, <1>4
      <4> QED BY <1>3, <4>1, <4>2
    <3> QED BY <1>3, <1>6, <3>1, <3>2
  <2>2. ASSUME NEW i \in 1..n, Ahead(q.keys[i], a, b), Agree(q, a, b, i)
        PROVE  Before(q, a, c)
    <3>1. CASE (\A j \in 1..n : v(j, b) = v(j, c)) /\ b.path < c.path
      <4>1. Agree(q, a, c, i)
        BY <2>2, <3>1 DEF Agree
      <4>2. Ahead(q.keys[i], a, c)
        BY <2>2, <3>1, <1>4
      <4> QED BY <1>3, <4>1, <4>2
    <3>2. ASSUME NEW k \in 1..n, Ahead(q.keys[k], b, c), Agree(q, b, c, k)
          PROVE  Before(q, a, c)
      <4>1. CASE i < k
        <5>1. Agree(q, a, c, i)
          BY <2>2, <3>2, <4>1 DEF Agree
        <5>2. v(i, b) = v(i, c)
          BY <3>2, <4>1 DEF Agree
        <5>3. Ahead(q.keys[i], a, c)
          BY <2>2, <5>2, <1>4
        <5> QED BY <1>3, <5>1, <5>3
      <4>2. CASE k < i
        <5>1. Agree(q, a, c, k)
          BY <2>2, <3>2, <4>2 DEF Agree
        <5>2. v(k, a) = v(k, b)
          BY <2>2, <4>2 DEF Agree
        <5>3. Ahead(q.keys[k], a, c)
          BY <3>2, <5>2, <1>4
        <5> QED BY <1>3, <5>1, <5>3
      <4>3. CASE i = k
        <5>1. Agree(q, a, c, i)
          BY <2>2, <3>2, <4>3 DEF Agree
        <5>2. Ahead(q.keys[i], a, c)
          <6>1. /\ v(i, a) \in Int /\ v(i, b) \in Int /\ v(i, c) \in Int
                /\ IF q.keys[i].desc THEN v(i, a) > v(i, b) /\ v(i, b) > v(i, c)
                                     ELSE v(i, a) < v(i, b) /\ v(i, b) < v(i, c)
            BY <1>1, <1>4, <2>2, <3>2, <4>3
          <6>2. IF q.keys[i].desc THEN v(i, a) > v(i, c) ELSE v(i, a) < v(i, c)
            <7> HIDE DEF v
            <7> QED BY <6>1
          <6> QED BY <1>4, <6>2
        <5> QED BY <1>3, <5>1, <5>2
      <4> QED BY <4>1, <4>2, <4>3
    <3> QED BY <1>3, <1>6, <3>1, <3>2
  <2> QED BY <1>3, <1>6, <2>1, <2>2
<1>7. ASSUME a.path # b.path PROVE Before(q, a, b) \/ Before(q, b, a)
  <2> DEFINE D == {i \in 1..n : v(i, a) # v(i, b)}
  <2>1. CASE D = {}
    <3>1. \A j \in 1..n : v(j, a) = v(j, b)
      BY <2>1
    <3>2. a.path < b.path \/ b.path < a.path
      BY <1>2, <1>7
    <3> QED BY <1>3, <3>1, <3>2
  <2>2. CASE D # {}
    <3>1. PICK i \in D : \A k \in D : i <= k
      <4>1. D \in SUBSET Nat
        OBVIOUS
      <4> QED BY <2>2, <4>1, LeastNumber
    <3>2. i \in 1..n /\ v(i, a) # v(i, b) /\ \A j \in 1..i - 1 : v(j, a) = v(j, b)
      <4>1. i \in 1..n /\ v(i, a) # v(i, b)
        BY <3>1
      <4>2. ASSUME NEW j \in 1..i - 1 PROVE v(j, a) = v(j, b)
        <5>1. j \in 1..n /\ ~(i <= j)
          BY <4>1
        <5> QED BY <3>1, <5>1
      <4> QED BY <4>1, <4>2
    <3>3. Agree(q, a, b, i) /\ Agree(q, b, a, i)
      BY <3>2 DEF Agree
    <3>4. Ahead(q.keys[i], a, b) \/ Ahead(q.keys[i], b, a)
      <4>1. /\ v(i, a) \in Int /\ v(i, b) \in Int /\ v(i, a) # v(i, b)
        BY <1>1, <3>2
      <4>2. v(i, a) < v(i, b) \/ v(i, b) < v(i, a)
        <5> HIDE DEF v
        <5> QED BY <4>1
      <4> QED BY <1>4, <3>2, <4>1, <4>2
    <3> QED BY <1>3, <3>2, <3>3, <3>4
  <2> QED BY <2>1, <2>2
<1> QED BY <1>5, <1>6, <1>7

-----------------------------------------------------------------------------
(* Candidates of different paths.                                          *)
Distinct(S) ==
  /\ S \subseteq Candidates /\ IsFiniteSet(S)
  /\ \A c, d \in S : c.path = d.path => c = d

Ordered(q, S, s) ==
  /\ s \in [1..Cardinality(S) -> S]
  /\ \A i, j \in 1..Cardinality(S) : i < j => Before(q, s[i], s[j])

BeforeIn(q, S, c) == {d \in S : Before(q, d, c)}

LEMMA BeforeOnDistinct ==
  ASSUME NEW q \in QueryType, NEW S, Distinct(S), NEW c \in S, NEW d \in S
  PROVE  /\ ~Before(q, c, c)
         /\ Before(q, c, d) => BeforeIn(q, S, c) \subseteq BeforeIn(q, S, d) \ {c}
         /\ c # d => Before(q, c, d) \/ Before(q, d, c)
         /\ ~(Before(q, c, d) /\ Before(q, d, c))
<1>1. c \in Candidates /\ d \in Candidates /\ (c # d => c.path # d.path)
  BY DEF Distinct
<1>2. ~Before(q, c, c) /\ (c # d => Before(q, c, d) \/ Before(q, d, c))
  BY <1>1, BeforeIsStrictTotal
<1>3. ASSUME Before(q, c, d), NEW e \in BeforeIn(q, S, c)
      PROVE  e \in BeforeIn(q, S, d) \ {c}
  <2>1. e \in S /\ e \in Candidates /\ Before(q, e, c)
    BY <1>3 DEF BeforeIn, Distinct
  <2>2. Before(q, e, d)
    BY <1>1, <1>3, <2>1, BeforeIsStrictTotal
  <2> QED BY <1>2, <2>1, <2>2 DEF BeforeIn
<1>4. ~(Before(q, c, d) /\ Before(q, d, c))
  BY <1>1, <1>2, BeforeIsStrictTotal
<1> QED BY <1>2, <1>3, <1>4

LEMMA RanksOfDistinct ==
  ASSUME NEW q \in QueryType, NEW S, Distinct(S), NEW c \in S
  PROVE  /\ IsFiniteSet(BeforeIn(q, S, c)) /\ Cardinality(S) \in Nat
         /\ Cardinality(BeforeIn(q, S, c)) \in 0..Cardinality(S) - 1
         /\ \A d \in S : Before(q, c, d) =>
              Cardinality(BeforeIn(q, S, c)) < Cardinality(BeforeIn(q, S, d))
<1>0. IsFiniteSet(S) /\ \A d \in S : BeforeIn(q, S, d) \in SUBSET S
  BY DEF Distinct, BeforeIn
<1>1. \A d \in S : IsFiniteSet(BeforeIn(q, S, d)) /\ Cardinality(BeforeIn(q, S, d)) \in Nat
  BY <1>0, FS_Subset, FS_CardinalityType
<1>2. ASSUME NEW T, IsFiniteSet(T), NEW x \in T, NEW U, U \subseteq T \ {x}
      PROVE  Cardinality(U) < Cardinality(T)
  <2>1. IsFiniteSet(T \ {x}) /\ Cardinality(T \ {x}) = Cardinality(T) - 1
    BY <1>2, FS_RemoveElement
  <2>2. Cardinality(U) <= Cardinality(T \ {x}) /\ IsFiniteSet(U)
    BY <1>2, <2>1, FS_Subset
  <2> QED BY <1>2, <2>1, <2>2, FS_CardinalityType
<1>3. Cardinality(BeforeIn(q, S, c)) < Cardinality(S) /\ Cardinality(S) \in Nat
  <2>1. BeforeIn(q, S, c) \subseteq S \ {c}
    BY BeforeOnDistinct DEF BeforeIn
  <2> QED BY <1>0, <1>2, <2>1, FS_CardinalityType
<1>4. ASSUME NEW d \in S, Before(q, c, d)
      PROVE  Cardinality(BeforeIn(q, S, c)) < Cardinality(BeforeIn(q, S, d))
  <2>1. c \in BeforeIn(q, S, d) /\ BeforeIn(q, S, c) \subseteq BeforeIn(q, S, d) \ {c}
    BY <1>4, BeforeOnDistinct DEF BeforeIn
  <2> QED BY <1>1, <1>2, <2>1
<1> QED BY <1>1, <1>3, <1>4

(* Every set of candidates has an order (order.sort_by returns one).       *)
LEMMA OrderExists ==
  ASSUME NEW q \in QueryType, NEW S, Distinct(S)
  PROVE  Ordered(q, S, Sorted(q, S))
<1> DEFINE n == Cardinality(S)
           f == [c \in S |-> Cardinality(BeforeIn(q, S, c)) + 1]
           t == [i \in 1..n |-> CHOOSE c \in S : f[c] = i]
<1>0. n \in Nat /\ IsFiniteSet(S)
  BY FS_CardinalityType DEF Distinct
<1>1. \A c \in S : f[c] \in 1..n
  <2> SUFFICES ASSUME NEW c \in S PROVE f[c] \in 1..n
    OBVIOUS
  <2>1. Cardinality(BeforeIn(q, S, c)) \in 0..n - 1
    BY RanksOfDistinct
  <2>2. Cardinality(BeforeIn(q, S, c)) + 1 \in 1..n
    <3> HIDE DEF n
    <3> QED BY <1>0, <2>1
  <2> QED BY <2>2
<1>2. \A c, d \in S : Before(q, c, d) => f[c] < f[d]
  <2> SUFFICES ASSUME NEW c \in S, NEW d \in S, Before(q, c, d) PROVE f[c] < f[d]
    OBVIOUS
  <2>1. Cardinality(BeforeIn(q, S, c)) < Cardinality(BeforeIn(q, S, d))
    BY RanksOfDistinct
  <2>2. Cardinality(BeforeIn(q, S, c)) \in Int /\ Cardinality(BeforeIn(q, S, d)) \in Int
    BY RanksOfDistinct
  <2> QED BY <2>1, <2>2
<1>3. f \in Surjection(S, 1..n)
  <2>1. f \in [S -> 1..n]
    BY <1>1
  <2>2. \A c, d \in S : f[c] = f[d] => c = d
    <3> SUFFICES ASSUME NEW c \in S, NEW d \in S, c # d PROVE f[c] # f[d]
      OBVIOUS
    <3>1. Before(q, c, d) \/ Before(q, d, c)
      BY BeforeOnDistinct
    <3>2. f[c] < f[d] \/ f[d] < f[c]
      BY <1>2, <3>1
    <3>3. f[c] \in Int /\ f[d] \in Int
      BY <1>1
    <3> HIDE DEF f
    <3> QED BY <3>2, <3>3
  <2>3. f \in Injection(S, 1..n)
    BY <2>1, <2>2 DEF Injection, IsInjective
  <2>4. IsFiniteSet(1..n) /\ Cardinality(1..n) = n
    <3>1. IsFiniteSet(1..n) /\ Cardinality(1..n) = IF 1 > n THEN 0 ELSE n - 1 + 1
      BY <1>0, FS_Interval
    <3> HIDE DEF n
    <3> QED BY <1>0, <3>1
  <2> QED BY <2>3, <2>4, FS_Injection
<1>4. \A i \in 1..n : t[i] \in S /\ f[t[i]] = i
  <2>1. \A i \in 1..n : \E c \in S : f[c] = i
    BY <1>3 DEF Surjection
  <2> HIDE DEF f
  <2> QED BY <2>1
<1>5. ASSUME NEW i \in 1..n, NEW j \in 1..n, i < j PROVE Before(q, t[i], t[j])
  <2>0. t[i] \in S /\ t[j] \in S /\ f[t[i]] = i /\ f[t[j]] = j
    BY <1>4
  <2> HIDE DEF t, f, n
  <2>1. i \in Int /\ j \in Int
    OBVIOUS
  <2>2. t[i] # t[j]
    BY <1>5, <2>0, <2>1
  <2>3. ~Before(q, t[j], t[i])
    BY <1>2, <1>5, <2>0, <2>1
  <2> QED BY <2>0, <2>2, <2>3, BeforeOnDistinct
<1>6. t \in [1..n -> S]
  BY <1>4
<1>7. \A i, j \in DOMAIN t : i < j => Before(q, t[i], t[j])
  <2>1. DOMAIN t = 1..n
    OBVIOUS
  <2> HIDE DEF t
  <2> QED BY <1>5, <2>1
<1>8. \E s \in [1..n -> S] : \A i, j \in DOMAIN s : i < j => Before(q, s[i], s[j])
  <2> HIDE DEF t
  <2> QED BY <1>6, <1>7
<1>9. /\ Sorted(q, S) \in [1..n -> S]
      /\ \A i, j \in DOMAIN Sorted(q, S) : i < j => Before(q, Sorted(q, S)[i], Sorted(q, S)[j])
  BY <1>8 DEF Sorted
<1> QED BY <1>9 DEF Ordered

(* An order passes every candidate, at the place of its rank.              *)
LEMMA OrderIsByRank ==
  ASSUME NEW q \in QueryType, NEW S, Distinct(S), NEW s, Ordered(q, S, s)
  PROVE  /\ s \in Seq(S) /\ Len(s) = Cardinality(S) /\ Cardinality(S) \in Nat
         /\ \A c \in S : \E i \in 1..Cardinality(S) : s[i] = c
         /\ \A i, j \in 1..Cardinality(S) : s[i] = s[j] => i = j
         /\ \A i \in 1..Cardinality(S) : Cardinality(BeforeIn(q, S, s[i])) = i - 1
<1> DEFINE n == Cardinality(S)
<1>0. n \in Nat /\ IsFiniteSet(S)
  BY FS_CardinalityType DEF Distinct
<1>1. /\ s \in [1..n -> S]
      /\ \A i, j \in 1..n : i < j => Before(q, s[i], s[j])
  BY DEF Ordered
<1>2. s \in Seq(S) /\ Len(s) = n
  <2> HIDE DEF n
  <2> QED BY <1>0, <1>1, SeqDef
<1>3. \A i, j \in 1..n : s[i] = s[j] => i = j
  <2> SUFFICES ASSUME NEW i \in 1..n, NEW j \in 1..n, i < j PROVE s[i] # s[j]
    <3> HIDE DEF n
    <3> QED OBVIOUS
  <2>1. Before(q, s[i], s[j]) /\ s[i] \in S
    BY <1>1
  <2> QED BY <2>1, BeforeOnDistinct
<1>4. IsFiniteSet(1..n) /\ Cardinality(1..n) = n
  <2>1. IsFiniteSet(1..n) /\ Cardinality(1..n) = IF 1 > n THEN 0 ELSE n - 1 + 1
    BY <1>0, FS_Interval
  <2> HIDE DEF n
  <2> QED BY <1>0, <2>1
<1>5. \A c \in S : \E i \in 1..n : s[i] = c
  <2>1. s \in Injection(1..n, S)
    BY <1>1, <1>3 DEF Injection, IsInjective
  <2>2. s \in Surjection(1..n, S)
    BY <1>0, <1>4, <2>1, FS_Injection
  <2> QED BY <2>2 DEF Surjection
<1>6. ASSUME NEW i \in 1..n PROVE Cardinality(BeforeIn(q, S, s[i])) = i - 1
  <2> DEFINE g == [j \in 1..i - 1 |-> s[j]]
  <2>1. 1..i - 1 \subseteq 1..n /\ i - 1 \in Nat
    <3> HIDE DEF n
    <3> QED BY <1>0
  <2>2. BeforeIn(q, S, s[i]) = {g[j] : j \in 1..i - 1}
    <3>1. ASSUME NEW j \in 1..i - 1 PROVE s[j] \in BeforeIn(q, S, s[i])
      <4>1. j \in 1..n /\ j < i
        BY <2>1
      <4> QED BY <1>1, <4>1 DEF BeforeIn
    <3>2. ASSUME NEW d \in BeforeIn(q, S, s[i]) PROVE \E j \in 1..i - 1 : d = s[j]
      <4>1. d \in S /\ Before(q, d, s[i]) /\ s[i] \in S
        BY <1>1 DEF BeforeIn
      <4>2. PICK j \in 1..n : d = s[j]
        BY <1>5, <4>1
      <4>3. ~(i < j) /\ i # j
        <5>1. ~Before(q, s[i], s[j])
          BY <4>1, <4>2, BeforeOnDistinct
        <5>2. s[i] # s[j]
          BY <4>1, <4>2, BeforeOnDistinct
        <5> QED BY <1>1, <5>1, <5>2
      <4>4. j \in 1..i - 1
        <5> HIDE DEF n
        <5> QED BY <4>3
      <4> QED BY <4>2, <4>4
    <3> QED BY <3>1, <3>2
  <2>3. IsFiniteSet(1..i - 1) /\ Cardinality(1..i - 1) = i - 1
    <3>1. /\ IsFiniteSet(1..i - 1)
          /\ Cardinality(1..i - 1) = IF 1 > i - 1 THEN 0 ELSE (i - 1) - 1 + 1
      BY <2>1, FS_Interval
    <3> QED BY <2>1, <3>1
  <2>4. \A j, k \in 1..i - 1 : g[j] = g[k] => j = k
    BY <1>3, <2>1
  <2>5. g = [j \in 1..i - 1 |-> g[j]]
    OBVIOUS
  <2> HIDE DEF g
  <2> QED BY <2>2, <2>3, <2>4, <2>5, ImageOfFinite
<1> QED BY <1>0, <1>2, <1>3, <1>5, <1>6

-----------------------------------------------------------------------------
(* A page is a stretch of the sequence it is taken from.                   *)
PageLength(q, n) == IF q.limit = NoLimit THEN n - AtMost(q.offset, n)
                                         ELSE AtMost(q.limit, n - AtMost(q.offset, n))

LEMMA PageShape ==
  ASSUME NEW q \in QueryType, NEW S, NEW s \in Seq(S)
  PROVE  /\ Page(q, s) \in Seq(S)
         /\ Len(Page(q, s)) = PageLength(q, Len(s)) /\ PageLength(q, Len(s)) \in 0..Len(s)
         /\ q.limit # NoLimit => PageLength(q, Len(s)) <= q.limit
         /\ AtMost(q.offset, Len(s)) \in Nat
         /\ \A i \in 1..PageLength(q, Len(s)) :
              /\ AtMost(q.offset, Len(s)) + i \in 1..Len(s)
              /\ Page(q, s)[i] = s[AtMost(q.offset, Len(s)) + i]
<1> DEFINE n == Len(s)
           start == AtMost(q.offset, n)
           end == IF q.limit = NoLimit THEN n ELSE AtMost(start + q.limit, n)
<1>1. n \in Nat /\ q.offset \in Nat /\ (q.limit # NoLimit => q.limit \in Nat)
  BY LenProperties DEF QueryType
<1>2. start \in 0..n /\ end \in start..n
  <2> HIDE DEF n
  <2>1. start \in 0..n
    BY <1>1 DEF AtMost
  <2> HIDE DEF start
  <2> QED BY <1>1, <2>1 DEF AtMost
<1>3. PageLength(q, n) = end - start
  <2> HIDE DEF n
  <2>1. start \in 0..n
    BY <1>2
  <2>2. PageLength(q, n) = IF q.limit = NoLimit THEN n - start ELSE AtMost(q.limit, n - start)
    BY DEF PageLength
  <2> HIDE DEF start
  <2> QED BY <1>1, <2>1, <2>2 DEF AtMost
<1>4. Page(q, s) = SubSeq(s, start + 1, end)
  BY DEF Page
<1>5. \A i \in start + 1..end : s[i] \in S
  <2>1. \A i \in 1..n : s[i] \in S
    BY ElementOfSeq
  <2> HIDE DEF start, end, n
  <2> QED BY <1>1, <1>2, <2>1
<1> HIDE DEF start, end, n
<1>6. start + 1 \in Int /\ end \in Int /\ start \in Nat /\ n \in Nat /\ start <= end /\ end <= n
  BY <1>1, <1>2
<1>7. /\ Page(q, s) \in Seq(S)
      /\ Len(Page(q, s)) = IF start + 1 <= end THEN end - (start + 1) + 1 ELSE 0
      /\ \A i \in 1..end - (start + 1) + 1 : Page(q, s)[i] = s[start + 1 + i - 1]
  BY <1>4, <1>5, <1>6, SubSeqProperties
<1>8. Len(Page(q, s)) = end - start /\ end - start \in 0..n
  BY <1>6, <1>7
<1>9. \A i \in 1..end - start : start + i \in 1..n /\ Page(q, s)[i] = s[start + i]
  <2> SUFFICES ASSUME NEW i \in 1..end - start
               PROVE  start + i \in 1..n /\ Page(q, s)[i] = s[start + i]
    OBVIOUS
  <2>1. i \in 1..end - (start + 1) + 1 /\ start + 1 + i - 1 = start + i /\ start + i \in 1..n
    BY <1>6
  <2> QED BY <1>7, <2>1
<1>10. q.limit # NoLimit => end - start <= q.limit
  <2>1. q.limit # NoLimit => end = AtMost(start + q.limit, n)
    BY DEF end
  <2> QED BY <1>1, <1>6, <2>1 DEF AtMost
<1>11. Len(s) = n /\ AtMost(q.offset, Len(s)) = start
  BY DEF n, start
<1>12. PageLength(q, Len(s)) = end - start
  BY <1>3, <1>11
<1>13. /\ Len(Page(q, s)) = PageLength(q, Len(s)) /\ PageLength(q, Len(s)) \in 0..Len(s)
       /\ q.limit # NoLimit => PageLength(q, Len(s)) <= q.limit
  BY <1>8, <1>10, <1>11, <1>12
<1>14. \A i \in 1..PageLength(q, Len(s)) :
         /\ AtMost(q.offset, Len(s)) + i \in 1..Len(s)
         /\ Page(q, s)[i] = s[AtMost(q.offset, Len(s)) + i]
  BY <1>9, <1>11, <1>12
<1>15. AtMost(q.offset, Len(s)) \in Nat
  BY <1>6, <1>11
<1> QED BY <1>7, <1>13, <1>14, <1>15

-----------------------------------------------------------------------------
(* The table of a state, and the candidates of its rows.                   *)
LEMMA RowTypes ==
  ASSUME TypeOK, NEW p \in Stored
  PROVE  /\ p \in Path /\ rows[p] \in Row
         /\ rows[p].id \in Id /\ rows[p].mtime \in Mtimes /\ rows[p].payload \in Payload
         /\ rows[p].payload.opens \in BOOLEAN /\ rows[p].payload.score \in Nat
         /\ Candidate(p) \in Candidates /\ Candidate(p).path = p /\ Candidate(p).id = rows[p].id
<1>1. p \in Path /\ rows[p] \in Row
  BY DEF Stored, TypeOK
<1>2. rows[p].id \in Id /\ rows[p].mtime \in Mtimes /\ rows[p].payload \in Payload
  BY <1>1 DEF Row
<1>3. rows[p].payload \in [json : BOOLEAN, opens : BOOLEAN, score : Nat]
  BY <1>2, QueryAssumption
<1>4. rows[p].payload.opens \in BOOLEAN /\ rows[p].payload.score \in Nat
  BY <1>3
<1> QED BY <1>1, <1>2, <1>4 DEF Candidate, Candidates

LEMMA PathsAreFinite == N \in Nat /\ IsFiniteSet(Path) /\ Cardinality(Path) = N
<1>1. N \in Nat
  BY QueryAssumption
<1>2. IsFiniteSet(1..N) /\ Cardinality(1..N) = IF 1 > N THEN 0 ELSE N - 1 + 1
  BY <1>1, FS_Interval
<1> QED BY <1>1, <1>2 DEF Path

LEMMA CandidatesAreDistinct ==
  ASSUME TypeOK, NEW T, T \subseteq Stored, NEW S, S = {Candidate(p) : p \in T}
  PROVE  Distinct(S) /\ Cardinality(S) <= N
<1> DEFINE f == [p \in T |-> Candidate(p)]
<1>1. T \subseteq Path
  BY DEF Stored
<1>2. IsFiniteSet(T) /\ Cardinality(T) <= N
  BY <1>1, PathsAreFinite, FS_Subset
<1>3. S = {f[p] : p \in T} /\ f = [p \in T |-> f[p]]
  OBVIOUS
<1>4. IsFiniteSet(S) /\ Cardinality(S) <= Cardinality(T)
  <2> HIDE DEF f
  <2> QED BY <1>2, <1>3, ImageOfFinite
<1>5. Cardinality(S) \in Nat /\ Cardinality(T) \in Nat /\ N \in Nat
  BY <1>2, <1>4, FS_CardinalityType, PathsAreFinite
<1>6. S \subseteq Candidates /\ \A c, d \in S : c.path = d.path => c = d
  BY RowTypes
<1> QED BY <1>2, <1>4, <1>5, <1>6 DEF Distinct

LEMMA QueryTypes ==
  ASSUME TypeOK, step # "idle"
  PROVE  /\ query \in Queries /\ query \in QueryType /\ query # NoQuery
         /\ query.offset \in Nat /\ (query.limit # NoLimit => query.limit \in Nat)
         /\ query.paths \subseteq Path /\ query.gt \in Nat /\ query.eq \in Nat
<1>1. query \in Queries /\ query # NoQuery /\ Queries \subseteq QueryType
  BY QueryAssumption DEF TypeOK
<1> QED BY <1>1 DEF QueryType

LEMMA SequenceTypes ==
  ASSUME TypeOK
  PROVE  /\ Len(order) \in Nat /\ DOMAIN order = 1..Len(order)
         /\ \A k \in 1..Len(order) : /\ order[k] \in Candidates /\ order[k].id \in Id
                                     /\ order[k].path \in Path
         /\ Len(out) \in Nat /\ DOMAIN out = 1..Len(out)
         /\ \A i \in 1..Len(out) : out[i] \in [path : Path, id : Id, payload : Payload]
         /\ Len(skipped) \in Nat /\ DOMAIN skipped = 1..Len(skipped)
         /\ \A i \in 1..Len(skipped) : skipped[i] \in Candidates
         /\ idx \in Nat /\ idx <= Len(order) /\ windowEnd \in Nat /\ windowEnd <= Len(order)
         /\ toSkip \in Nat
<1>1. /\ order \in Seq(Candidates) /\ skipped \in Seq(Candidates)
      /\ out \in Seq([path : Path, id : Id, payload : Payload])
  BY DEF TypeOK
<1>2. Len(order) \in Nat /\ DOMAIN order = 1..Len(order) /\ \A k \in 1..Len(order) : order[k] \in Candidates
  BY <1>1, LenProperties
<1>3. \A k \in 1..Len(order) : order[k].id \in Id /\ order[k].path \in Path
  BY <1>2 DEF Candidates
<1>4. /\ Len(out) \in Nat /\ DOMAIN out = 1..Len(out)
      /\ \A i \in 1..Len(out) : out[i] \in [path : Path, id : Id, payload : Payload]
  BY <1>1, LenProperties
<1>5. /\ Len(skipped) \in Nat /\ DOMAIN skipped = 1..Len(skipped)
      /\ \A i \in 1..Len(skipped) : skipped[i] \in Candidates
  BY <1>1, LenProperties
<1>6. idx \in 0..Len(order) /\ windowEnd \in 0..Len(order) /\ toSkip \in Nat
  BY DEF TypeOK
<1> QED BY <1>2, <1>3, <1>4, <1>5, <1>6

-----------------------------------------------------------------------------
(* Before there are candidates, little has to be shown.                    *)
LEMMA NothingIsSeq ==
  /\ \A S : <<>> \in Seq(S)
  /\ Len(<<>>) = 0 /\ DOMAIN <<>> = {} /\ \A S : <<>> \in [DOMAIN <<>> -> S]
<1>1. \A S : <<>> \in Seq(S) /\ Len(<<>>) = 0
  BY EmptySeq
<1>2. DOMAIN <<>> = 1..Len(<<>>)
  BY <1>1, LenProperties
<1>3. DOMAIN <<>> = {}
  BY <1>1, <1>2
<1>4. \A S : <<>> \in [1..Len(<<>>) -> S]
  BY <1>1, LenProperties
<1> QED BY <1>1, <1>2, <1>3, <1>4

LEMMA NoPageYet ==
  ASSUME TypeOK', IdsAreUnique', NothingYet', PlanFits', ContentsAreServed',
         step' \in {"idle", "asking", "tier1", "tier2", "tier3", "failed"}
  PROVE  IInv'
<1>1. order' = <<>> /\ out' = <<>>
  BY DEF NothingYet
<1>2. DOMAIN order' = {} /\ DOMAIN out' = {} /\ Len(out') = 0
  BY <1>1, NothingIsSeq
<1>3. OrderIsSorted' /\ OrderStays'
  BY <1>2 DEF OrderIsSorted, OrderStays
<1>4. ~Paging' /\ step' # "window" /\ step' # "done"
  BY DEF Paging
<1>5. ASSUME step' # "idle" PROVE EntriesAreSound'
  <2>1. query' \in QueryType
    BY <1>5, QueryAssumption DEF TypeOK
  <2>2. query'.limit # NoLimit => query'.limit \in Nat
    BY <2>1 DEF QueryType
  <2>3. query'.limit # NoLimit => Len(out') <= query'.limit
    BY <1>2, <2>2
  <2> QED BY <1>2, <2>3 DEF EntriesAreSound
<1> QED
  BY <1>3, <1>4, <1>5 DEF IInv, OrderIsComplete, WindowIsLoaded, PageSoFar, QuietPageSoFar,
     RowsThatStayAreServed, QuietPageIsExact

LEMMA InitInvariant == Init => IInv
<1> SUFFICES ASSUME Init PROVE IInv
  OBVIOUS
<1>1. /\ order = <<>> /\ windowEnd = 0 /\ loaded = <<>>
      /\ idx = 0 /\ toSkip = 0 /\ out = <<>> /\ skipped = <<>>
      /\ touched = {} /\ served = {}
      /\ lastId = N /\ changes = 0 /\ query = NoQuery /\ step = "idle"
  BY DEF Init
<1>2. N \in Nat /\ MaxChanges \in Nat
  BY QueryAssumption
<1>3. PICK f \in [Path -> [mtime : Mtimes, payload : Payload] \cup {NoRow}] :
        rows = [p \in Path |-> IF f[p] = NoRow THEN NoRow
                  ELSE [id |-> p, mtime |-> f[p].mtime, payload |-> f[p].payload]]
  BY DEF Init
<1>4. ASSUME NEW p \in Path PROVE rows[p] \in Row \cup {NoRow} /\ (rows[p] # NoRow => rows[p].id = p)
  <2>1. CASE f[p] = NoRow
    BY <1>3, <2>1
  <2>2. CASE f[p] # NoRow
    <3>1. f[p].mtime \in Mtimes /\ f[p].payload \in Payload
      BY <2>2
    <3>2. p \in Id
      BY <1>2 DEF Path, Id
    <3>3. rows[p] = [id |-> p, mtime |-> f[p].mtime, payload |-> f[p].payload]
      BY <1>3, <2>2
    <3> QED BY <3>1, <3>2, <3>3 DEF Row
  <2> QED BY <2>1, <2>2
<1>5. rows \in [Path -> Row \cup {NoRow}]
  BY <1>3, <1>4
<1>6. TypeOK
  <2>1. /\ lastId \in N..N + changes /\ changes \in 0..MaxChanges
        /\ query \in Queries \cup {NoQuery} /\ (query = NoQuery <=> step = "idle")
        /\ step \in Running \cup {"idle", "done", "failed"}
    BY <1>1, <1>2
  <2>2. /\ order \in Seq(Candidates) /\ Len(order) = 0 /\ Len(out) = 0 /\ Len(skipped) = 0
        /\ out \in Seq([path : Path, id : Id, payload : Payload]) /\ skipped \in Seq(Candidates)
        /\ DOMAIN loaded \subseteq Id /\ loaded \in [DOMAIN loaded -> Payload]
    BY <1>1, NothingIsSeq
  <2>3. Len(order) <= N /\ Len(out) <= N /\ Len(skipped) <= N
    BY <1>2, <2>2
  <2>4. idx \in 0..Len(order) /\ windowEnd \in 0..Len(order) /\ toSkip \in Nat
    BY <1>1, <2>2
  <2>5. touched \subseteq Path /\ served \subseteq Id \X Payload
    BY <1>1
  <2> QED BY <1>5, <2>1, <2>2, <2>3, <2>4, <2>5 DEF TypeOK
<1>7. IdsAreUnique
  <2>1. \A p \in Stored : p \in Path /\ rows[p].id = p
    BY <1>4 DEF Stored
  <2>2. \A p \in Stored : rows[p].id <= lastId
    BY <1>1, <1>2, <2>1 DEF Path
  <2> QED BY <2>1, <2>2 DEF IdsAreUnique
<1>8. NothingYet /\ PlanFits /\ ContentsAreServed
  BY <1>1 DEF NothingYet, PlanFits, ContentsAreServed
<1>9. DOMAIN order = {}
  BY <1>1, NothingIsSeq
<1>10. OrderIsSorted /\ OrderStays
  BY <1>9 DEF OrderIsSorted, OrderStays
<1>11. ~Paging
  BY <1>1 DEF Paging
<1> QED
  BY <1>1, <1>6, <1>7, <1>8, <1>10, <1>11 DEF IInv, OrderIsComplete, WindowIsLoaded, PageSoFar,
     QuietPageSoFar, RowsThatStayAreServed, QuietPageIsExact

-----------------------------------------------------------------------------
(* A query begins, asks, fails and returns.                                *)
LEMMA RowsUntouched ==
  ASSUME UNCHANGED <<rows, lastId>>
  PROVE  /\ Stored' = Stored /\ Contents' = Contents
         /\ IdsAreUnique => IdsAreUnique'
         /\ \A p : Candidate(p)' = Candidate(p)
<1>1. Stored' = Stored
  BY DEF Stored
<1> QED BY <1>1 DEF Contents, IdsAreUnique, Candidate

LEMMA BeginKeeps ==
  ASSUME IInv, NEW q \in Queries, Begin(q)
  PROVE  IInv'
<1> TypeOK /\ IdsAreUnique /\ NothingYet
  BY DEF IInv
<1>1. /\ step = "idle" /\ query' = q /\ step' = ClassifyQuery(q) /\ toSkip' = q.offset
      /\ served' = Contents
      /\ UNCHANGED <<rows, lastId, changes, order, windowEnd, loaded, idx, out, skipped, touched>>
  BY DEF Begin, db, window
<1>2. q \in QueryType /\ q # NoQuery
  BY QueryAssumption
<1>3. q.offset \in Nat
  BY <1>2 DEF QueryType
<1>4. /\ step' \in {"asking", "tier1", "tier3"}
      /\ step' = "tier1" => q.gt = 0 /\ q.eq = 0
      /\ step' # "tier1" => q.gt # 0 \/ q.eq # 0 \/ ByField(q)
  BY <1>1 DEF ClassifyQuery
<1>5. Contents \subseteq Id \X Payload
  BY RowTypes DEF Contents
<1>6. TypeOK'
  BY <1>1, <1>2, <1>3, <1>4, <1>5 DEF TypeOK, Running
<1>7. NothingYet'
  BY <1>1, <1>4 DEF NothingYet
<1>8. PlanFits'
  BY <1>1, <1>4 DEF PlanFits, LooksAtFields
<1>9. ContentsAreServed'
  BY <1>1, RowsUntouched DEF ContentsAreServed
<1> QED BY <1>1, <1>4, <1>6, <1>7, <1>8, <1>9, RowsUntouched, NoPageYet

(* A step before the page that moves on and changes nothing else.          *)
LEMMA MoveOnKeeps ==
  ASSUME IInv, step \in {"asking", "tier2"}, step' \in {"tier2", "tier3", "failed"},
         UNCHANGED <<db, query, order, window, page, ghosts>>
  PROVE  IInv'
<1> TypeOK /\ IdsAreUnique /\ NothingYet /\ PlanFits /\ ContentsAreServed
  BY DEF IInv
<1>1. UNCHANGED <<rows, lastId, changes, query, order, windowEnd, loaded, idx, toSkip, out, skipped,
                  touched, served>>
  BY DEF db, window, page, ghosts
<1>2. TypeOK'
  BY <1>1 DEF TypeOK, Running
<1>3. NothingYet' /\ PlanFits'
  BY <1>1 DEF NothingYet, PlanFits, LooksAtFields
<1>4. ContentsAreServed'
  BY <1>1, RowsUntouched DEF ContentsAreServed
<1> QED BY <1>1, <1>2, <1>3, <1>4, RowsUntouched, NoPageYet

LEMMA ReturnKeeps ==
  ASSUME IInv, Return
  PROVE  IInv'
<1> TypeOK /\ IdsAreUnique /\ NothingYet
  BY DEF IInv
<1>1. /\ step \in {"done", "failed"} /\ step' = "idle" /\ query' = NoQuery
      /\ order' = <<>> /\ idx' = 0 /\ toSkip' = 0 /\ out' = <<>> /\ skipped' = <<>>
      /\ touched' = {} /\ served' = {}
      /\ UNCHANGED <<rows, lastId, changes, windowEnd, loaded>>
  BY DEF Return, db, window
<1>2. windowEnd = 0 /\ loaded = <<>> /\ N \in Nat
  BY <1>1, QueryAssumption DEF NothingYet
<1>3. TypeOK'
  <2>1. /\ order' \in Seq(Candidates) /\ Len(order') = 0 /\ Len(out') = 0 /\ Len(skipped') = 0
        /\ out' \in Seq([path : Path, id : Id, payload : Payload]) /\ skipped' \in Seq(Candidates)
    BY <1>1, NothingIsSeq
  <2>2. Len(order') <= N /\ Len(out') <= N /\ Len(skipped') <= N
    BY <1>2, <2>1
  <2>3. idx' \in 0..Len(order') /\ windowEnd' \in 0..Len(order') /\ toSkip' \in Nat
    BY <1>1, <1>2, <2>1
  <2> QED BY <1>1, <2>1, <2>2, <2>3 DEF TypeOK
<1>4. NothingYet' /\ PlanFits' /\ ContentsAreServed'
  BY <1>1, <1>2 DEF NothingYet, PlanFits, ContentsAreServed
<1> QED BY <1>1, <1>3, <1>4, RowsUntouched, NoPageYet

-----------------------------------------------------------------------------
(* The candidates are listed.                                              *)
LEMMA StartPageKeeps ==
  ASSUME IInv, step \in {"tier1", "tier2"},
         NEW T, T = {p \in Stored \cap query.paths : Matches(query, rows[p].payload)},
         StartPage(T)
  PROVE  IInv'
<1> DEFINE S == {Candidate(p) : p \in T}
<1> TypeOK /\ IdsAreUnique /\ NothingYet /\ PlanFits /\ ContentsAreServed
  BY DEF IInv
<1>1. /\ order' = Sorted(query, S) /\ step' = "page"
      /\ UNCHANGED <<rows, lastId, changes, query, windowEnd, loaded, idx, toSkip, out, skipped,
                     touched, served>>
  BY DEF StartPage, db, window, page, ghosts
<1>2. /\ idx = 0 /\ out = <<>> /\ skipped = <<>> /\ windowEnd = 0 /\ loaded = <<>>
      /\ toSkip = query.offset
  BY DEF NothingYet
<1>3. query \in QueryType /\ query.offset \in Nat /\ (query.limit # NoLimit => query.limit \in Nat)
  BY QueryTypes
<1>4. Distinct(S) /\ Cardinality(S) <= N
  BY CandidatesAreDistinct
<1> DEFINE n == Cardinality(S)
<1>5. PICK s : s = order' /\ Ordered(query, S, s)
  BY <1>1, <1>3, <1>4, OrderExists
<1>6. /\ order' \in Seq(S) /\ Len(order') = n /\ n \in Nat
      /\ \A c \in S : \E k \in 1..n : order'[k] = c
      /\ \A k, l \in 1..n : order'[k] = order'[l] => k = l
  <2>1. /\ s \in Seq(S) /\ Len(s) = n /\ n \in Nat
        /\ \A c \in S : \E k \in 1..n : s[k] = c
        /\ \A k, l \in 1..n : s[k] = s[l] => k = l
    <3> HIDE DEF S
    <3> QED BY <1>3, <1>4, <1>5, OrderIsByRank
  <2> HIDE DEF S, n
  <2> QED BY <1>5, <2>1
<1>7. DOMAIN order' = 1..n /\ \A k \in 1..n : order'[k] \in S
  <2>1. s \in Seq(S) /\ Len(s) = n
    BY <1>5, <1>6
  <2>2. DOMAIN s = 1..n /\ \A k \in 1..n : s[k] \in S
    <3> HIDE DEF S, n
    <3> QED BY <2>1, LenProperties
  <2> HIDE DEF S, n
  <2> QED BY <1>5, <2>2
<1>8. \A k \in 1..n : \E p \in T : order'[k] = Candidate(p) /\ order'[k].path = p
  <2>1. \A c \in S : \E p \in T : c = Candidate(p) /\ c.path = p
    BY RowTypes
  <2> HIDE DEF S, n
  <2> QED BY <1>7, <2>1
<1>9. TypeOK'
  <2>1. order' \in Seq(Candidates)
    BY <1>4, <1>6, SeqMonotonic DEF Distinct
  <2>2. Len(order') <= N
    BY <1>4, <1>6
  <2>3. idx' \in 0..Len(order') /\ windowEnd' \in 0..Len(order')
    <3> HIDE DEF n
    <3> QED BY <1>1, <1>2, <1>6
  <2> QED BY <1>1, <2>1, <2>2, <2>3 DEF TypeOK, Running
<1>10. NothingYet' /\ PlanFits'
  BY <1>1, <1>2 DEF NothingYet, PlanFits
<1>11. IdsAreUnique' /\ ContentsAreServed'
  BY <1>1, RowsUntouched DEF ContentsAreServed
<1>12. OrderIsSorted'
  <2> SUFFICES ASSUME NEW k \in 1..n, NEW l \in 1..n, k < l
               PROVE  Before(query, order'[k], order'[l]) /\ order'[k].path # order'[l].path
    <3> HIDE DEF n, S
    <3> QED BY <1>1, <1>7 DEF OrderIsSorted
  <2>1. Before(query, order'[k], order'[l])
    BY <1>5 DEF Ordered
  <2>2. k # l /\ order'[k] \in S /\ order'[l] \in S
    BY <1>7
  <2>3. order'[k].path # order'[l].path
    BY <1>4, <1>6, <2>2 DEF Distinct
  <2> QED BY <2>1, <2>3
<1>13. OrderStays'
  <2>1. T \subseteq Stored' /\ \A p : Candidate(p)' = Candidate(p)
    BY <1>1, RowsUntouched
  <2>2. ASSUME NEW k \in DOMAIN order'
        PROVE  order'[k].path \in Stored' /\ order'[k] = Candidate(order[k].path)'
    <3>1. PICK p \in T : order'[k] = Candidate(p) /\ order'[k].path = p
      <4> HIDE DEF n, S
      <4> QED BY <1>7, <1>8
    <3>2. order'[k] = Candidate(p)' /\ p \in Stored'
      BY <2>1, <3>1
    <3> QED BY <3>1, <3>2 DEF Candidate
  <2> QED BY <2>2 DEF OrderStays
<1>14. OrderIsComplete'
  <2> SUFFICES ASSUME NEW p \in Path
               PROVE  (\E k \in 1..n : order'[k].path = p) <=> p \in T
    BY <1>1, <1>7, RowsUntouched DEF OrderIsComplete, Paging
  <2>1. ASSUME NEW k \in 1..n, order'[k].path = p PROVE p \in T
    BY <1>8, <2>1
  <2>2. ASSUME p \in T PROVE \E k \in 1..n : order'[k].path = p
    <3>1. Candidate(p) \in S /\ Candidate(p).path = p
      BY <2>2, RowTypes
    <3> QED BY <1>6, <3>1
  <2> QED BY <2>1, <2>2
<1>15. DOMAIN out' = {} /\ Len(out') = 0 /\ out' = <<>> /\ DOMAIN skipped' = {} /\ Len(skipped') = 0
  BY <1>1, <1>2, NothingIsSeq
<1>16. EntriesAreSound'
  BY <1>1, <1>3, <1>15 DEF EntriesAreSound
<1>17. 1..idx' = {} /\ IsFiniteSet({}) /\ Cardinality({}) = 0
  BY <1>1, <1>2, FS_EmptySet
<1>18. LeftOut(idx)' = {} /\ Legible(idx)' = {}
  BY <1>17 DEF LeftOut, Legible
<1>19. /\ toSkip' = query'.offset /\ idx' = 0 /\ query'.offset \in Nat
       /\ Cardinality(LeftOut(idx)') = 0 /\ Cardinality(Legible(idx)') = 0
       /\ 1..idx' = {} /\ toSkip' <= query'.offset
       /\ 0 <= query'.offset - toSkip' /\ 0 = query'.offset - toSkip' + 0
       /\ Len(out') + Len(skipped') <= idx'
  <2> HIDE DEF n, S
  <2>1. toSkip' = query'.offset /\ idx' = 0 /\ query'.offset \in Nat
    BY <1>1, <1>2, <1>3
  <2>2. /\ toSkip' <= query'.offset
        /\ 0 <= query'.offset - toSkip' /\ 0 = query'.offset - toSkip' + 0
    BY <2>1
  <2> QED BY <1>15, <1>17, <1>18, <2>1, <2>2
<1>20. PageSoFar'
  <2> HIDE DEF n, S
  <2> QED BY <1>15, <1>18, <1>19 DEF PageSoFar
<1>21. QuietPageSoFar'
  <2>1. {skipped'[i].path : i \in DOMAIN skipped'} = {} /\ 1..idx' \ Legible(idx)' = {}
    BY <1>15, <1>19
  <2>2. {order'[k].path : k \in 1..idx' \ Legible(idx)'} = {}
    BY <2>1
  <2> HIDE DEF n, S
  <2> QED BY <1>15, <1>18, <1>19, <2>1, <2>2 DEF QuietPageSoFar
<1> QED
  BY <1>1, <1>9, <1>10, <1>11, <1>12, <1>13, <1>14, <1>16, <1>20, <1>21
  DEF IInv, WindowIsLoaded, RowsThatStayAreServed, QuietPageIsExact

LEMMA CandidatesKeep ==
  ASSUME IInv, QueryCandidates \/ QueryPushdown
  PROVE  IInv'
<1> TypeOK /\ PlanFits
  BY DEF IInv
<1>1. CASE QueryCandidates
  <2>1. step = "tier1" /\ StartPage(Stored \cap query.paths) /\ query.gt = 0 /\ query.eq = 0
    BY <1>1 DEF QueryCandidates, PlanFits
  <2>2. Stored \cap query.paths = {p \in Stored \cap query.paths : Matches(query, rows[p].payload)}
    BY <2>1 DEF Matches
  <2> QED BY <2>1, <2>2, StartPageKeeps
<1>2. CASE QueryPushdown
  BY <1>2, StartPageKeeps DEF QueryPushdown
<1> QED BY <1>1, <1>2

-----------------------------------------------------------------------------
(* The windows of the page: the rows and the candidates stay.              *)
LEMMA PagingFrame ==
  ASSUME IInv, Paging, Paging', UNCHANGED <<db, query, order, ghosts>>
  PROVE  /\ IdsAreUnique' /\ PlanFits' /\ ContentsAreServed'
         /\ OrderIsSorted' /\ OrderStays' /\ OrderIsComplete'
         /\ RowsThatStayAreServed' /\ QuietPageIsExact'
         /\ Stored' = Stored /\ \A p : Candidate(p)' = Candidate(p)
<1>1. UNCHANGED <<rows, lastId, changes, query, order, touched, served>>
  BY DEF db, ghosts
<1>2. /\ IdsAreUnique /\ ContentsAreServed /\ OrderIsSorted /\ OrderStays /\ OrderIsComplete
      /\ step # "idle" /\ step' \notin {"asking", "tier1", "tier2", "tier3", "done"}
  BY DEF IInv, Paging
<1>3. Stored' = Stored /\ Contents' = Contents /\ IdsAreUnique' /\ \A p : Candidate(p)' = Candidate(p)
  BY <1>1, <1>2, RowsUntouched
<1>4. PlanFits' /\ RowsThatStayAreServed' /\ QuietPageIsExact' /\ ContentsAreServed'
  BY <1>1, <1>2, <1>3 DEF PlanFits, RowsThatStayAreServed, QuietPageIsExact, ContentsAreServed
<1>5. OrderIsSorted' /\ OrderStays'
  BY <1>1, <1>2, <1>3 DEF OrderIsSorted, OrderStays
<1>6. OrderIsComplete'
  BY <1>1, <1>2, <1>3 DEF OrderIsComplete
<1> QED BY <1>3, <1>4, <1>5, <1>6

(* What is left out and what decodes is told by the page and the rows.     *)
LEMMA SamePage ==
  ASSUME IInv, Paging, Paging', UNCHANGED <<db, query, order, page, ghosts>>,
         TypeOK', NothingYet', WindowIsLoaded'
  PROVE  IInv'
<1>1. UNCHANGED <<rows, lastId, changes, query, order, idx, toSkip, out, skipped, touched, served>>
  BY DEF db, page, ghosts
<1>2. EntriesAreSound /\ PageSoFar /\ QuietPageSoFar
  BY DEF IInv, Paging
<1>3. EntriesAreSound'
  BY <1>1, <1>2 DEF EntriesAreSound
<1>4. LeftOut(idx)' = LeftOut(idx) /\ \A k : Returned(k)' = Returned(k)
  BY <1>1 DEF LeftOut, Returned, Stays
<1>5. PageSoFar'
  BY <1>1, <1>2, <1>4 DEF PageSoFar
<1>6. \A k : Legible(k)' = Legible(k)
  BY <1>1 DEF Legible
<1>7. QuietPageSoFar'
  <2> SUFFICES ASSUME touched = {} PROVE QuietPageSoFar'
    BY <1>1 DEF QuietPageSoFar
  <2>1. /\ Cardinality(Legible(idx)) = query.offset - toSkip + Len(out)
        /\ \A i \in DOMAIN out : \E k \in Legible(idx) :
             /\ out[i] = Entry(order[k], rows[order[k].path].payload)
             /\ Cardinality(Legible(k)) = query.offset + i
        /\ {skipped[i].path : i \in DOMAIN skipped} =
             {order[k].path : k \in 1..idx \ Legible(idx)}
        /\ Filled(query, out) =>
             IF out = <<>> THEN idx = 0 ELSE order[idx].path = out[Len(out)].path
    BY <1>2 DEF QuietPageSoFar
  <2>2. Cardinality(Legible(idx)') = query'.offset - toSkip' + Len(out')
    BY <1>1, <1>6, <2>1
  <2>3. \A i \in DOMAIN out' : \E k \in Legible(idx)' :
             /\ out'[i] = Entry(order'[k], rows'[order'[k].path].payload)
             /\ Cardinality(Legible(k)') = query'.offset + i
    BY <1>1, <1>6, <2>1
  <2>4. {skipped'[i].path : i \in DOMAIN skipped'} =
             {order'[k].path : k \in 1..idx' \ Legible(idx)'}
    <3>1. {skipped'[i].path : i \in DOMAIN skipped'} = {skipped[i].path : i \in DOMAIN skipped}
      BY <1>1
    <3>2. 1..idx' \ Legible(idx)' = 1..idx \ Legible(idx)
      BY <1>1, <1>6
    <3>3. {order'[k].path : k \in 1..idx' \ Legible(idx)'}
            = {order[k].path : k \in 1..idx \ Legible(idx)}
      BY <1>1, <3>2
    <3> QED BY <2>1, <3>1, <3>3
  <2>5. Filled(query', out') =>
             IF out' = <<>> THEN idx' = 0 ELSE order'[idx'].path = out'[Len(out')].path
    BY <1>1, <2>1
  <2> QED BY <2>2, <2>3, <2>4, <2>5 DEF QuietPageSoFar
<1> QED BY <1>3, <1>5, <1>7, PagingFrame DEF IInv

LEMMA LoadWindowKeeps ==
  ASSUME IInv, LoadWindow
  PROVE  IInv'
<1> DEFINE ids == {order[k].id : k \in idx + 1..WindowEnd}
           known == ids \cap {rows[p].id : p \in Stored}
<1> TypeOK /\ IdsAreUnique /\ NothingYet /\ ContentsAreServed /\ OrderStays /\ PageSoFar
  BY DEF IInv
<1>1. /\ step = "page" /\ step' = "window" /\ ~Filled(query, out) /\ idx < Len(order)
      /\ windowEnd' = WindowEnd /\ loaded' = PayloadsFor(ids)
      /\ UNCHANGED <<db, query, order, page, ghosts>>
  BY DEF LoadWindow
<1>2. UNCHANGED <<rows, lastId, changes, query, order, idx, toSkip, out, skipped, touched, served>>
  BY <1>1 DEF db, page, ghosts
<1>3. WindowEnd \in idx..Len(order)
  <2>1. /\ Len(order) \in Nat /\ idx \in Nat /\ idx < Len(order) /\ Len(out) \in Nat
        /\ toSkip \in Nat /\ Chunk \in Nat \ {0}
    BY <1>1, SequenceTypes, QueryAssumption
  <2>2. query.limit # NoLimit => query.limit \in Nat /\ Len(out) < query.limit
    BY <1>1, <2>1, QueryTypes DEF Filled
  <2>3. Want \in Nat
    BY <2>1, <2>2 DEF Want
  <2> QED BY <2>1, <2>3 DEF WindowEnd, AtMost
<1>4. idx \in Nat /\ Len(order) \in Nat /\ \A k \in idx + 1..WindowEnd : k \in 1..Len(order)
  BY <1>3, SequenceTypes
<1>5. ids \subseteq Id
  BY <1>4, SequenceTypes
<1>6. \A id \in known : \E p \in Stored : rows[p].id = id
  OBVIOUS
<1>7. /\ DOMAIN loaded' = known
      /\ \A id \in known : loaded'[id] = rows[CHOOSE p \in Stored : rows[p].id = id].payload
  BY <1>1 DEF PayloadsFor
<1>8. ASSUME NEW p \in Stored, rows[p].id \in known
      PROVE  loaded'[rows[p].id] = rows[p].payload
  <2>1. (CHOOSE r \in Stored : rows[r].id = rows[p].id) = p
    BY DEF IdsAreUnique
  <2> QED BY <1>7, <1>8, <2>1
<1>9. \A id \in known : loaded'[id] \in Payload /\ <<id, loaded'[id]>> \in served
  <2> SUFFICES ASSUME NEW p \in Stored, rows[p].id \in known
               PROVE  /\ loaded'[rows[p].id] \in Payload
                      /\ <<rows[p].id, loaded'[rows[p].id]>> \in served
    BY <1>6
  <2>1. <<rows[p].id, rows[p].payload>> \in served
    BY <1>1 DEF ContentsAreServed, Contents
  <2> QED BY <1>8, <2>1, RowTypes
<1>10. TypeOK'
  <2>1. windowEnd' \in 0..Len(order')
    BY <1>1, <1>2, <1>3, SequenceTypes
  <2>2. DOMAIN loaded' \subseteq Id
    BY <1>5, <1>7
  <2>3. loaded' \in [DOMAIN loaded' -> Payload]
    <3>1. loaded' = [id \in DOMAIN loaded' |-> loaded'[id]]
      BY <1>1 DEF PayloadsFor
    <3> QED BY <1>7, <1>9, <3>1
  <2> QED BY <1>1, <1>2, <2>1, <2>2, <2>3 DEF TypeOK, Running
<1>11. NothingYet'
  BY <1>1 DEF NothingYet
<1>12. WindowIsLoaded'
  <2>1. idx' <= windowEnd'
    BY <1>1, <1>2, <1>3, SequenceTypes
  <2>2. \A id \in DOMAIN loaded' : <<id, loaded'[id]>> \in served'
    BY <1>2, <1>7, <1>9
  <2>3. ASSUME NEW k \in idx + 1..WindowEnd, order[k].path \notin touched
        PROVE  order[k].id \in DOMAIN loaded' /\ loaded'[order[k].id] = rows[order[k].path].payload
    <3>1. k \in DOMAIN order
      BY <1>4, SequenceTypes
    <3>2. order[k].path \in Stored /\ order[k] = Candidate(order[k].path)
      BY <2>3, <3>1 DEF OrderStays
    <3>3. order[k].id = rows[order[k].path].id
      BY <3>2, RowTypes
    <3>4. order[k].id \in known
      BY <3>2, <3>3
    <3> QED BY <1>7, <1>8, <3>2, <3>3, <3>4
  <2> QED BY <1>1, <1>2, <2>1, <2>2, <2>3 DEF WindowIsLoaded
<1>13. Paging /\ Paging'
  BY <1>1 DEF Paging
<1> QED BY <1>1, <1>10, <1>11, <1>12, <1>13, SamePage

LEMMA EndWindowKeeps ==
  ASSUME IInv, EndWindow
  PROVE  IInv'
<1> TypeOK /\ NothingYet
  BY DEF IInv
<1>1. /\ step = "window" /\ step' = "page" /\ windowEnd' = 0 /\ loaded' = <<>>
      /\ UNCHANGED <<db, query, order, page, ghosts>>
  BY DEF EndWindow
<1>2. UNCHANGED <<rows, lastId, changes, query, order, idx, toSkip, out, skipped, touched, served>>
  BY <1>1 DEF db, page, ghosts
<1>3. TypeOK'
  <2>1. DOMAIN loaded' \subseteq Id /\ loaded' \in [DOMAIN loaded' -> Payload]
    BY <1>1, NothingIsSeq
  <2>2. windowEnd' \in 0..Len(order')
    BY <1>1, <1>2, SequenceTypes
  <2> QED BY <1>1, <1>2, <2>1, <2>2 DEF TypeOK, Running
<1>4. NothingYet' /\ WindowIsLoaded' /\ Paging /\ Paging'
  BY <1>1 DEF NothingYet, WindowIsLoaded, Paging
<1> QED BY <1>1, <1>3, <1>4, SamePage

(* What is known of the candidate that is looked at.                       *)
LEMMA AtCurrent ==
  ASSUME IInv, Looking
  PROVE  /\ idx \in Nat /\ idx + 1 \in 1..Len(order) /\ idx + 1 <= N
         /\ Current \in Candidates /\ Current.path \in Path /\ Current.id \in Id
         /\ Found => /\ loaded[Current.id] \in Payload
                     /\ <<Current.id, loaded[Current.id]>> \in served
         /\ Current.path \notin touched =>
              Found /\ loaded[Current.id] = rows[Current.path].payload
         /\ \A k \in 1..idx : order[k].path # Current.path
<1> TypeOK /\ WindowIsLoaded /\ OrderIsSorted
  BY DEF IInv
<1>1. step = "window" /\ idx < windowEnd
  BY DEF Looking
<1>2. /\ idx \in Nat /\ windowEnd \in Nat /\ windowEnd <= Len(order) /\ Len(order) \in Nat
      /\ Len(order) <= N /\ N \in Nat
  BY SequenceTypes, QueryAssumption DEF TypeOK
<1>3. idx + 1 \in 1..Len(order) /\ idx + 1 \in idx + 1..windowEnd /\ idx + 1 <= N
  BY <1>1, <1>2
<1>4. Current \in Candidates /\ Current.path \in Path /\ Current.id \in Id
  BY <1>3, SequenceTypes DEF Current
<1>5. Found => loaded[Current.id] \in Payload /\ <<Current.id, loaded[Current.id]>> \in served
  BY <1>1 DEF Found, WindowIsLoaded, TypeOK
<1>6. Current.path \notin touched => Found /\ loaded[Current.id] = rows[Current.path].payload
  BY <1>1, <1>3 DEF Found, WindowIsLoaded, Current
<1>7. ASSUME NEW k \in 1..idx PROVE order[k].path # Current.path
  <2>1. k \in DOMAIN order /\ idx + 1 \in DOMAIN order /\ k < idx + 1
    BY <1>2, <1>3, SequenceTypes
  <2> QED BY <2>1 DEF OrderIsSorted, Current
<1> QED BY <1>2, <1>3, <1>4, <1>5, <1>6, <1>7

Delivered == [path : Path, id : Id, payload : Payload]

LEMMA LookAtFrame ==
  ASSUME IInv, Looking, NEW left, NEW entries, NEW unreadable,
         LookAt(left, entries, unreadable),
         left \in Nat, entries \in Seq(Delivered), unreadable \in Seq(Candidates),
         Len(entries) + Len(unreadable) <= idx + 1,
         EntriesAreSound', PageSoFar', QuietPageSoFar'
  PROVE  IInv'
<1> TypeOK /\ WindowIsLoaded
  BY DEF IInv
<1>1. /\ step = "window" /\ step' = "window" /\ idx' = idx + 1 /\ idx < windowEnd
      /\ toSkip' = left /\ out' = entries /\ skipped' = unreadable
      /\ UNCHANGED <<rows, lastId, changes, query, order, windowEnd, loaded, touched, served>>
      /\ UNCHANGED <<db, query, order, ghosts>>
  BY DEF LookAt, Looking, db, window, ghosts
<1>2. idx \in Nat /\ idx + 1 \in 1..Len(order) /\ idx + 1 <= N /\ N \in Nat
  BY AtCurrent, QueryAssumption
<1>3. TypeOK'
  <2>1. Len(entries) \in Nat /\ Len(unreadable) \in Nat
    BY LenProperties
  <2>2. Len(out') <= N /\ Len(skipped') <= N
    BY <1>1, <1>2, <2>1
  <2>3. idx' \in 0..Len(order')
    BY <1>1, <1>2
  <2>4. out' \in Seq([path : Path, id : Id, payload : Payload]) /\ skipped' \in Seq(Candidates)
    BY <1>1 DEF Delivered
  <2> QED BY <1>1, <2>2, <2>3, <2>4 DEF TypeOK
<1>4. WindowIsLoaded'
  <2>1. idx' <= windowEnd'
    BY <1>1, SequenceTypes
  <2>2. \A id \in DOMAIN loaded : <<id, loaded[id]>> \in served
    BY <1>1 DEF WindowIsLoaded
  <2>3. ASSUME NEW k \in idx' + 1..windowEnd', order[k].path \notin touched
        PROVE  order[k].id \in DOMAIN loaded /\ loaded[order[k].id] = rows[order[k].path].payload
    <3>1. k \in idx + 1..windowEnd
      BY <1>1, <1>2
    <3> QED BY <1>1, <2>3, <3>1 DEF WindowIsLoaded
  <2> QED BY <1>1, <2>1, <2>2, <2>3 DEF WindowIsLoaded
<1>5. NothingYet' /\ Paging /\ Paging'
  BY <1>1 DEF NothingYet, Paging
<1> QED BY <1>1, <1>3, <1>4, <1>5, PagingFrame DEF IInv

(* Positions that decode, and their number.                                *)
LEMMA LegibleGrows ==
  ASSUME NEW n \in Nat
  PROVE  /\ IsFiniteSet(Legible(n)) /\ Cardinality(Legible(n)) \in Nat
         /\ rows[order[n + 1].path].payload.opens =>
              /\ Legible(n + 1) = Legible(n) \cup {n + 1}
              /\ Cardinality(Legible(n + 1)) = Cardinality(Legible(n)) + 1
         /\ ~rows[order[n + 1].path].payload.opens => Legible(n + 1) = Legible(n)
<1>1. IsFiniteSet(1..n) /\ Legible(n) \subseteq 1..n
  BY FS_Interval DEF Legible
<1>2. IsFiniteSet(Legible(n)) /\ Cardinality(Legible(n)) \in Nat
  BY <1>1, FS_Subset, FS_CardinalityType
<1>3. 1..n + 1 = 1..n \cup {n + 1} /\ n + 1 \notin 1..n
  OBVIOUS
<1>4. rows[order[n + 1].path].payload.opens => Legible(n + 1) = Legible(n) \cup {n + 1}
  BY <1>3 DEF Legible
<1>5. ~rows[order[n + 1].path].payload.opens => Legible(n + 1) = Legible(n)
  BY <1>3 DEF Legible
<1>6. Cardinality(Legible(n) \cup {n + 1}) = Cardinality(Legible(n)) + 1
  BY <1>1, <1>2, <1>3, FS_AddElement
<1> QED BY <1>2, <1>4, <1>5, <1>6

(* What is left out so far is numbers.                                     *)
LEMMA LeftOutIsFinite ==
  ASSUME NEW n \in Nat
  PROVE  IsFiniteSet(LeftOut(n)) /\ Cardinality(LeftOut(n)) \in Nat
<1>1. IsFiniteSet(1..n) /\ LeftOut(n) \subseteq 1..n
  BY FS_Interval DEF LeftOut
<1> QED BY <1>1, FS_Subset, FS_CardinalityType

(* What the page holds so far.                                             *)
LEMMA PageFacts ==
  ASSUME IInv, Looking
  PROVE  /\ out \in Seq(Delivered) /\ Len(out) \in Nat /\ DOMAIN out = 1..Len(out)
         /\ skipped \in Seq(Candidates) /\ Len(skipped) \in Nat
         /\ DOMAIN skipped = 1..Len(skipped)
         /\ Len(out) + Len(skipped) <= idx
         /\ toSkip \in Nat /\ toSkip <= query.offset /\ query.offset \in Nat
         /\ toSkip > 0 => out = <<>>
         /\ 1..idx + 1 = 1..idx \cup {idx + 1} /\ idx + 1 \notin 1..idx
         /\ \A k \in 1..idx : k < idx + 1 /\ k \in DOMAIN order
         /\ idx + 1 \in DOMAIN order
         /\ ~Returned(idx + 1)
<1> TypeOK /\ PageSoFar /\ Paging /\ step # "idle"
  BY DEF IInv, Looking, Paging
<1>1. out \in Seq(Delivered) /\ skipped \in Seq(Candidates)
  BY DEF TypeOK, Delivered
<1>2. /\ Len(out) \in Nat /\ DOMAIN out = 1..Len(out) /\ toSkip \in Nat
      /\ Len(skipped) \in Nat /\ DOMAIN skipped = 1..Len(skipped)
      /\ DOMAIN order = 1..Len(order) /\ Len(order) \in Nat
  BY SequenceTypes
<1>3. Len(out) + Len(skipped) <= idx /\ toSkip <= query.offset /\ (toSkip > 0 => out = <<>>)
  BY DEF PageSoFar
<1>4. idx \in Nat /\ idx + 1 \in 1..Len(order) /\ \A k \in 1..idx : order[k].path # Current.path
  BY AtCurrent
<1>5. 1..idx + 1 = 1..idx \cup {idx + 1} /\ \A k \in 1..idx : k < idx + 1 /\ k \in DOMAIN order
  BY <1>2, <1>4
<1>6. ~Returned(idx + 1)
  BY <1>4 DEF Returned, PageSoFar, Current
<1>7. idx + 1 \notin 1..idx
  BY <1>4
<1> QED BY <1>1, <1>2, <1>3, <1>4, <1>5, <1>6, <1>7, QueryTypes

(* A candidate that stays out of the page: gone, unreadable, or counted.   *)
LEMMA PassOverKeeps ==
  ASSUME IInv, PassOver
  PROVE  IInv'
<1> TypeOK /\ PageSoFar
  BY DEF IInv
<1>1. Looking /\ ~Found /\ LookAt(toSkip, out, skipped)
  BY DEF PassOver
<1>2. /\ step = "window" /\ step' = "window" /\ idx' = idx + 1
      /\ UNCHANGED <<toSkip, out, skipped, rows, query, order, touched, served>>
      /\ EntriesAreSound
  BY <1>1 DEF LookAt, Looking, db, window, ghosts, IInv
<1>3. /\ idx \in Nat /\ idx <= idx' /\ 1..idx' = 1..idx \cup {idx + 1}
      /\ Len(out) + Len(skipped) <= idx + 1
      /\ out \in Seq(Delivered) /\ skipped \in Seq(Candidates) /\ toSkip \in Nat
  BY <1>1, <1>2, AtCurrent, PageFacts
<1>4. EntriesAreSound'
  BY <1>2 DEF EntriesAreSound
<1>5. Current.path \in touched
  BY <1>1, AtCurrent
<1>6. QuietPageSoFar'
  BY <1>2, <1>5 DEF QuietPageSoFar
<1>7. (\A k : Returned(k)' = Returned(k)) /\ (\A k : Stays(k)' = Stays(k)) /\ ~Stays(idx + 1)
  BY <1>2, <1>5 DEF Returned, Stays, Current
<1>8. LeftOut(idx)' = LeftOut(idx)
  BY <1>2, <1>3, <1>7 DEF LeftOut
<1>9. ~Returned(idx + 1)
  BY <1>1, PageFacts
<1>10. PageSoFar'
  <2>1. Len(out') + Len(skipped') <= idx'
    BY <1>2, <1>3
  <2> QED BY <1>2, <1>3, <1>7, <1>8, <1>9, <2>1 DEF PageSoFar, Paging
<1> QED BY <1>1, <1>3, <1>4, <1>6, <1>10, LookAtFrame

LEMMA SkipUnreadableKeeps ==
  ASSUME IInv, SkipUnreadable
  PROVE  IInv'
<1> TypeOK /\ PageSoFar /\ QuietPageSoFar
  BY DEF IInv
<1> DEFINE more == Append(skipped, Current)
<1>1. Looking /\ Found /\ ~loaded[Current.id].opens /\ LookAt(toSkip, out, more)
  BY DEF SkipUnreadable, Opens
<1>2. /\ step = "window" /\ step' = "window" /\ idx' = idx + 1 /\ skipped' = more
      /\ UNCHANGED <<toSkip, out, rows, query, order, touched, served>>
      /\ EntriesAreSound
  BY <1>1 DEF LookAt, Looking, db, window, ghosts, IInv
<1>3. /\ more \in Seq(Candidates) /\ Len(more) = Len(skipped) + 1
      /\ \A i \in 1..Len(skipped) : more[i] = skipped[i]
      /\ more[Len(skipped) + 1] = Current /\ DOMAIN more = 1..Len(skipped) + 1
  <2>1. skipped \in Seq(Candidates) /\ Current \in Candidates
    BY <1>1, AtCurrent, PageFacts
  <2>2. /\ more \in Seq(Candidates) /\ Len(more) = Len(skipped) + 1
        /\ \A i \in 1..Len(skipped) : more[i] = skipped[i]
        /\ more[Len(skipped) + 1] = Current
    BY <2>1, AppendProperties
  <2>3. DOMAIN more = 1..Len(more)
    BY <2>2, LenProperties
  <2> QED BY <2>2, <2>3
<1> HIDE DEF more
<1>4. /\ idx \in Nat /\ idx <= idx' /\ 1..idx' = 1..idx \cup {idx + 1} /\ idx + 1 \notin 1..idx
      /\ Len(out) + Len(more) <= idx + 1
      /\ out \in Seq(Delivered) /\ toSkip \in Nat /\ Len(skipped) \in Nat
  <2>1. Len(out) + Len(skipped) <= idx /\ Len(out) \in Nat /\ Len(skipped) \in Nat /\ idx \in Nat
    BY <1>1, AtCurrent, PageFacts
  <2>2. Len(out) + Len(more) <= idx + 1
    BY <1>3, <2>1
  <2> QED BY <1>1, <1>2, <2>1, <2>2, AtCurrent, PageFacts
<1>5. EntriesAreSound'
  BY <1>2 DEF EntriesAreSound
<1>6. ~Stays(idx + 1)
  BY <1>1, AtCurrent DEF Stays, Current
<1>7. (\A k : Returned(k)' = Returned(k)) /\ (\A k : Stays(k)' = Stays(k))
  BY <1>2 DEF Returned, Stays
<1>8. LeftOut(idx)' = LeftOut(idx)
  BY <1>2, <1>4, <1>6, <1>7 DEF LeftOut
<1>9. ~Returned(idx + 1)
  BY <1>1, PageFacts
<1>10. PageSoFar'
  <2>1. Len(out') + Len(skipped') <= idx'
    BY <1>2, <1>4
  <2> QED BY <1>2, <1>4, <1>7, <1>8, <1>9, <2>1 DEF PageSoFar, Paging
<1>11. QuietPageSoFar'
  <2> SUFFICES ASSUME touched = {} PROVE QuietPageSoFar'
    BY <1>2 DEF QuietPageSoFar
  <2>1. /\ Cardinality(Legible(idx)) = query.offset - toSkip + Len(out)
        /\ \A i \in DOMAIN out : \E k \in Legible(idx) :
             /\ out[i] = Entry(order[k], rows[order[k].path].payload)
             /\ Cardinality(Legible(k)) = query.offset + i
        /\ {skipped[i].path : i \in DOMAIN skipped} =
             {order[k].path : k \in 1..idx \ Legible(idx)}
    BY <1>2 DEF QuietPageSoFar, Paging
  <2>2. ~rows[order[idx + 1].path].payload.opens
    BY <1>1, AtCurrent DEF Current
  <2>3. Legible(idx + 1) = Legible(idx)
    BY <1>4, <2>2, LegibleGrows
  <2>4. \A k : Legible(k)' = Legible(k)
    BY <1>2 DEF Legible
  <2>5. Legible(idx)' = Legible(idx + 1)
    BY <1>2 DEF Legible
  <2>6. Cardinality(Legible(idx)') = query'.offset - toSkip' + Len(out')
    BY <1>2, <2>1, <2>3, <2>5
  <2>7. \A i \in DOMAIN out' : \E k \in Legible(idx)' :
             /\ out'[i] = Entry(order'[k], rows'[order'[k].path].payload)
             /\ Cardinality(Legible(k)') = query'.offset + i
    BY <1>2, <2>1, <2>3, <2>4, <2>5
  <2>8. {skipped'[i].path : i \in DOMAIN skipped'} =
             {order'[k].path : k \in 1..idx' \ Legible(idx)'}
    <3>1. DOMAIN skipped = 1..Len(skipped)
      BY <1>1, PageFacts
    <3>2. {more[i].path : i \in DOMAIN more} =
            {skipped[i].path : i \in DOMAIN skipped} \cup {Current.path}
      <4>1. DOMAIN more = DOMAIN skipped \cup {Len(skipped) + 1}
        BY <1>3, <1>4, <3>1
      <4> QED BY <1>3, <3>1, <4>1
    <3>3. idx + 1 \notin Legible(idx)
      BY <1>4 DEF Legible
    <3>4. 1..idx' \ Legible(idx)' = (1..idx \ Legible(idx)) \cup {idx + 1}
      BY <1>4, <2>3, <2>5, <3>3
    <3>5. {order'[k].path : k \in 1..idx' \ Legible(idx)'} =
            {order[k].path : k \in 1..idx \ Legible(idx)} \cup {Current.path}
      BY <1>2, <3>4 DEF Current
    <3>6. {skipped'[i].path : i \in DOMAIN skipped'} = {more[i].path : i \in DOMAIN more}
      BY <1>2
    <3> QED BY <2>1, <3>2, <3>5, <3>6
  <2>9. ~Filled(query', out')
    BY <1>1, <1>2 DEF Looking
  <2> QED BY <2>6, <2>7, <2>8, <2>9 DEF QuietPageSoFar
<1> QED BY <1>1, <1>3, <1>4, <1>5, <1>10, <1>11, LookAtFrame

LEMMA CountTowardOffsetKeeps ==
  ASSUME IInv, CountTowardOffset
  PROVE  IInv'
<1> TypeOK /\ PageSoFar /\ QuietPageSoFar
  BY DEF IInv
<1>1. /\ Looking /\ Found /\ loaded[Current.id].opens /\ toSkip > 0
      /\ LookAt(toSkip - 1, out, skipped)
  BY DEF CountTowardOffset, Opens
<1>2. /\ step = "window" /\ step' = "window" /\ idx' = idx + 1 /\ toSkip' = toSkip - 1
      /\ UNCHANGED <<skipped, out, rows, query, order, touched, served>>
      /\ EntriesAreSound
  BY <1>1 DEF LookAt, Looking, db, window, ghosts, IInv
<1>3. /\ idx \in Nat /\ 1..idx' = 1..idx \cup {idx + 1} /\ idx + 1 \notin 1..idx
      /\ Len(out) + Len(skipped) <= idx + 1
      /\ out \in Seq(Delivered) /\ skipped \in Seq(Candidates)
      /\ toSkip \in Nat /\ toSkip - 1 \in Nat /\ toSkip <= query.offset /\ query.offset \in Nat
  BY <1>1, <1>2, AtCurrent, PageFacts
<1>4. out = <<>> /\ DOMAIN out = {} /\ Len(out) = 0
  BY <1>1, NothingIsSeq, PageFacts
<1>5. EntriesAreSound'
  BY <1>2 DEF EntriesAreSound
<1>6. (\A k : ~Returned(k)' /\ ~Returned(k)) /\ (\A k : Stays(k)' = Stays(k))
  BY <1>2, <1>4 DEF Returned, Stays
<1>7. LeftOut(idx)' \subseteq LeftOut(idx) \cup {idx + 1}
  BY <1>2, <1>3, <1>6 DEF LeftOut
<1>8. Cardinality(LeftOut(idx)') <= query.offset - toSkip'
  <2>1. IsFiniteSet(LeftOut(idx)) /\ Cardinality(LeftOut(idx)) \in Nat
    BY <1>3, LeftOutIsFinite
  <2>2. /\ IsFiniteSet(LeftOut(idx) \cup {idx + 1})
        /\ Cardinality(LeftOut(idx) \cup {idx + 1}) <= Cardinality(LeftOut(idx)) + 1
        /\ Cardinality(LeftOut(idx) \cup {idx + 1}) \in Nat
    BY <2>1, FS_AddElement, FS_CardinalityType
  <2>3. /\ Cardinality(LeftOut(idx)') <= Cardinality(LeftOut(idx) \cup {idx + 1})
        /\ Cardinality(LeftOut(idx)') \in Nat
    BY <1>7, <2>2, FS_Subset, FS_CardinalityType
  <2>4. Cardinality(LeftOut(idx)) <= query.offset - toSkip
    BY <1>2 DEF PageSoFar, Paging
  <2> QED BY <1>2, <1>3, <2>1, <2>2, <2>3, <2>4
<1>9. PageSoFar'
  <2>1. Len(out') + Len(skipped') <= idx' /\ toSkip' <= query'.offset
    BY <1>2, <1>3
  <2>2. out' = <<>> /\ DOMAIN out' = {} /\ query' = query
    BY <1>2, <1>4
  <2> QED BY <1>6, <1>8, <2>1, <2>2 DEF PageSoFar
<1>10. QuietPageSoFar'
  <2> SUFFICES ASSUME touched = {} PROVE QuietPageSoFar'
    BY <1>2 DEF QuietPageSoFar
  <2>1. /\ Cardinality(Legible(idx)) = query.offset - toSkip + Len(out)
        /\ {skipped[i].path : i \in DOMAIN skipped} =
             {order[k].path : k \in 1..idx \ Legible(idx)}
    BY <1>2 DEF QuietPageSoFar, Paging
  <2>2. rows[order[idx + 1].path].payload.opens
    BY <1>1, AtCurrent DEF Current
  <2>3. /\ Legible(idx + 1) = Legible(idx) \cup {idx + 1}
        /\ Cardinality(Legible(idx + 1)) = Cardinality(Legible(idx)) + 1
        /\ Cardinality(Legible(idx)) \in Nat
    BY <1>3, <2>2, LegibleGrows
  <2>4. Legible(idx)' = Legible(idx + 1)
    BY <1>2 DEF Legible
  <2>5. Cardinality(Legible(idx)') = query'.offset - toSkip' + Len(out')
    <3>1. Cardinality(Legible(idx)') = query.offset - toSkip + 0 + 1
      BY <1>4, <2>1, <2>3, <2>4
    <3> QED BY <1>2, <1>3, <1>4, <3>1
  <2>6. DOMAIN out' = {}
    BY <1>2, <1>4
  <2>7. {skipped'[i].path : i \in DOMAIN skipped'} =
             {order'[k].path : k \in 1..idx' \ Legible(idx)'}
    <3>1. 1..idx' \ Legible(idx)' = 1..idx \ Legible(idx)
      BY <1>3, <2>3, <2>4
    <3>2. {order'[k].path : k \in 1..idx' \ Legible(idx)'} =
            {order[k].path : k \in 1..idx \ Legible(idx)}
      BY <1>2, <3>1
    <3>3. {skipped'[i].path : i \in DOMAIN skipped'} = {skipped[i].path : i \in DOMAIN skipped}
      BY <1>2
    <3> QED BY <2>1, <3>2, <3>3
  <2>8. ~Filled(query', out')
    BY <1>1, <1>2 DEF Looking
  <2> QED BY <2>5, <2>6, <2>7, <2>8 DEF QuietPageSoFar
<1> QED BY <1>1, <1>3, <1>5, <1>9, <1>10, LookAtFrame

(* A candidate that enters the page.                                       *)
LEMMA DeliverKeeps ==
  ASSUME IInv, Deliver
  PROVE  IInv'
<1> TypeOK /\ PageSoFar /\ QuietPageSoFar
  BY DEF IInv
<1> DEFINE e == Entry(Current, loaded[Current.id])
           more == Append(out, e)
           n == Len(out)
<1>1. Looking /\ Found /\ loaded[Current.id].opens /\ toSkip = 0 /\ LookAt(0, more, skipped)
  BY DEF Deliver, Opens
<1>2. /\ step = "window" /\ step' = "window" /\ idx' = idx + 1 /\ toSkip' = 0 /\ out' = more
      /\ UNCHANGED <<skipped, rows, query, order, touched, served>>
      /\ EntriesAreSound
  BY <1>1 DEF LookAt, Looking, db, window, ghosts, IInv
<1>3. /\ idx \in Nat /\ 1..idx' = 1..idx \cup {idx + 1} /\ idx + 1 \notin 1..idx
      /\ idx + 1 \in DOMAIN order /\ \A k \in 1..idx : k < idx + 1 /\ k \in DOMAIN order
      /\ n + Len(skipped) <= idx /\ n \in Nat /\ Len(skipped) \in Nat
      /\ out \in Seq(Delivered) /\ skipped \in Seq(Candidates) /\ DOMAIN out = 1..n
      /\ query.offset \in Nat
  BY <1>1, <1>2, AtCurrent, PageFacts
<1>4. /\ e \in Delivered /\ e.path = Current.path /\ e.id = Current.id
      /\ e.payload = loaded[Current.id]
  BY <1>1, AtCurrent DEF Entry, Delivered
<1>5. /\ more \in Seq(Delivered) /\ Len(more) = n + 1
      /\ \A i \in 1..n : more[i] = out[i]
      /\ more[n + 1] = e /\ DOMAIN more = 1..n \cup {n + 1} /\ more # <<>>
  <2> HIDE DEF e
  <2>1. /\ more \in Seq(Delivered) /\ Len(more) = n + 1
        /\ \A i \in 1..n : more[i] = out[i]
        /\ more[n + 1] = e /\ more # <<>>
    BY <1>3, <1>4, AppendProperties
  <2>2. DOMAIN more = 1..n + 1
    BY <2>1, LenProperties
  <2>3. 1..n + 1 = 1..n \cup {n + 1}
    <3> HIDE DEF n
    <3> QED BY <1>3
  <2> QED BY <2>1, <2>2, <2>3
<1> HIDE DEF more, e, n
<1>6. \A i \in 1..n : \E k \in 1..idx : order[k].path = out[i].path
  BY <1>2, <1>3 DEF PageSoFar, Paging
<1>7. order[idx + 1] = Current /\ \A k \in 1..idx : order[k].path # Current.path
  BY <1>1, AtCurrent DEF Current
<1>8. \A i \in 1..n : out[i].path # Current.path
  BY <1>6, <1>7
<1>9. \A k, l \in DOMAIN order : order[k].path = order[l].path => k = l
  <2>1. DOMAIN order \subseteq Int
    BY SequenceTypes
  <2>2. \A k, l \in DOMAIN order : k < l => order[k].path # order[l].path
    BY DEF IInv, OrderIsSorted
  <2> QED BY <2>1, <2>2
<1>10. EntriesAreSound'
  <2>1. \A i \in 1..n \cup {n + 1} : <<more[i].id, more[i].payload>> \in served /\ more[i].payload.opens
    <3>1. \A i \in 1..n : <<out[i].id, out[i].payload>> \in served /\ out[i].payload.opens
      BY <1>2, <1>3 DEF EntriesAreSound
    <3>2. <<e.id, e.payload>> \in served /\ e.payload.opens
      BY <1>1, <1>4, AtCurrent
    <3> QED BY <1>5, <3>1, <3>2
  <2>2. \A i, j \in 1..n \cup {n + 1} : i # j => more[i].path # more[j].path
    <3>1. \A i, j \in 1..n : i # j => out[i].path # out[j].path
      BY <1>2, <1>3 DEF EntriesAreSound
    <3> QED BY <1>4, <1>5, <1>8, <3>1
  <2>3. query.limit # NoLimit => Len(more) <= query.limit
    <3>1. query.limit # NoLimit => query.limit \in Nat /\ ~(n >= query.limit)
      BY <1>1, <1>2, QueryTypes DEF Looking, Filled, n
    <3> QED BY <1>3, <1>5, <3>1
  <2>4. ASSUME NEW i \in 1..n \cup {n + 1}, NEW j \in 1..n \cup {n + 1},
               NEW k \in DOMAIN order, NEW l \in DOMAIN order,
               i < j, order[k].path = more[i].path, order[l].path = more[j].path
        PROVE  k < l
    <3>1. i \in 1..n
      BY <1>3, <2>4
    <3>2. CASE j \in 1..n
      BY <1>2, <1>3, <1>5, <2>4, <3>1, <3>2 DEF EntriesAreSound
    <3>3. CASE j = n + 1
      <4>1. l = idx + 1
        BY <1>3, <1>4, <1>5, <1>7, <1>9, <2>4, <3>3
      <4>2. PICK m \in 1..idx : order[m].path = out[i].path
        BY <1>6, <3>1
      <4>3. k = m
        BY <1>3, <1>5, <1>9, <2>4, <3>1, <4>2
      <4> QED BY <1>3, <4>1, <4>2, <4>3
    <3> QED BY <3>2, <3>3
  <2> QED BY <1>2, <1>5, <2>1, <2>2, <2>3, <2>4 DEF EntriesAreSound
<1>11. \A k \in 1..idx : Returned(k)' = Returned(k)
  BY <1>2, <1>3, <1>4, <1>5, <1>7 DEF Returned
<1>. PICK c : c = idx + 1
  OBVIOUS
<1>12. Returned(c)' /\ \A k : Stays(k)' = Stays(k)
  <2>1. out'[n + 1].path = order'[c].path /\ n + 1 \in DOMAIN out'
    BY <1>2, <1>4, <1>5, <1>7
  <2> QED BY <1>2, <2>1 DEF Returned, Stays
<1>13. LeftOut(idx)' = LeftOut(idx)
  BY <1>2, <1>3, <1>11, <1>12 DEF LeftOut
<1>14. PageSoFar'
  <2>1. Len(out') + Len(skipped') <= idx'
    BY <1>2, <1>3, <1>5
  <2>2. toSkip' <= query'.offset /\ ~(toSkip' > 0)
    BY <1>2, <1>3
  <2>3. \A i \in DOMAIN out' : \E k \in 1..idx' : order'[k].path = out'[i].path
    BY <1>2, <1>3, <1>4, <1>5, <1>6, <1>7
  <2>4. ASSUME NEW k \in LeftOut(idx)', NEW j \in 1..idx', Returned(j)' PROVE k < j
    <3>1. k \in LeftOut(idx) /\ k \in 1..idx
      BY <1>13 DEF LeftOut
    <3>2. CASE j \in 1..idx
      BY <1>2, <1>11, <2>4, <3>1, <3>2 DEF PageSoFar, Paging
    <3>3. CASE j = idx + 1
      BY <1>3, <3>1, <3>3
    <3> QED BY <1>3, <3>2, <3>3
  <2>5. Cardinality(LeftOut(idx)') <= query'.offset - toSkip'
    BY <1>1, <1>2, <1>13 DEF PageSoFar, Paging
  <2> QED BY <2>1, <2>2, <2>3, <2>4, <2>5 DEF PageSoFar
<1>15. QuietPageSoFar'
  <2> SUFFICES ASSUME touched = {} PROVE QuietPageSoFar'
    BY <1>2 DEF QuietPageSoFar
  <2>1. /\ Cardinality(Legible(idx)) = query.offset - toSkip + n
        /\ \A i \in 1..n : \E k \in Legible(idx) :
             /\ out[i] = Entry(order[k], rows[order[k].path].payload)
             /\ Cardinality(Legible(k)) = query.offset + i
        /\ {skipped[i].path : i \in DOMAIN skipped} =
             {order[k].path : k \in 1..idx \ Legible(idx)}
    BY <1>2, <1>3 DEF QuietPageSoFar, Paging, n
  <2>2. rows[order[idx + 1].path].payload.opens /\ loaded[Current.id] = rows[Current.path].payload
    BY <1>1, AtCurrent DEF Current
  <2>3. /\ Legible(idx + 1) = Legible(idx) \cup {idx + 1}
        /\ Cardinality(Legible(idx + 1)) = Cardinality(Legible(idx)) + 1
        /\ Cardinality(Legible(idx)) \in Nat
    BY <1>3, <2>2, LegibleGrows
  <2>4. \A k : Legible(k)' = Legible(k)
    BY <1>2 DEF Legible
  <2>5. Legible(idx)' = Legible(idx + 1)
    BY <1>2 DEF Legible
  <2>6. Cardinality(Legible(idx + 1)) = query.offset + (n + 1)
    BY <1>1, <1>3, <2>1, <2>3
  <2>7. Cardinality(Legible(idx)') = query'.offset - toSkip' + Len(out')
    <3>1. Cardinality(Legible(idx)') = query.offset + (n + 1)
      BY <2>5, <2>6
    <3> QED BY <1>2, <1>3, <1>5, <3>1
  <2>8. ASSUME NEW i \in DOMAIN out'
        PROVE  \E k \in Legible(idx)' :
                 /\ out'[i] = Entry(order'[k], rows'[order'[k].path].payload)
                 /\ Cardinality(Legible(k)') = query'.offset + i
    <3>1. CASE i \in 1..n
      <4>1. PICK k \in Legible(idx) :
              /\ out[i] = Entry(order[k], rows[order[k].path].payload)
              /\ Cardinality(Legible(k)) = query.offset + i
        BY <2>1, <3>1
      <4>2. k \in Legible(idx)' /\ out'[i] = out[i] /\ Cardinality(Legible(k)') = query'.offset + i
        BY <1>2, <1>5, <2>3, <2>4, <2>5, <3>1, <4>1
      <4> QED BY <1>2, <4>1, <4>2
    <3>2. CASE i = n + 1
      <4>1. c \in Legible(idx)'
        BY <2>3, <2>5
      <4>2. Cardinality(Legible(c)') = query'.offset + i
        BY <1>2, <2>4, <2>6, <3>2
      <4>3. out'[i] = Entry(order'[c], rows'[order'[c].path].payload)
        BY <1>2, <1>5, <1>7, <2>2, <3>2 DEF e
      <4> QED BY <4>1, <4>2, <4>3
    <3> QED BY <1>2, <1>5, <3>1, <3>2
  <2>9. {skipped'[i].path : i \in DOMAIN skipped'} =
             {order'[k].path : k \in 1..idx' \ Legible(idx)'}
    <3>1. 1..idx' \ Legible(idx)' = 1..idx \ Legible(idx)
      BY <1>3, <2>3, <2>5
    <3>2. {order'[k].path : k \in 1..idx' \ Legible(idx)'} =
            {order[k].path : k \in 1..idx \ Legible(idx)}
      BY <1>2, <3>1
    <3>3. {skipped'[i].path : i \in DOMAIN skipped'} = {skipped[i].path : i \in DOMAIN skipped}
      BY <1>2
    <3> QED BY <2>1, <3>2, <3>3
  <2>10. out' # <<>> /\ order'[idx'].path = out'[Len(out')].path
    BY <1>2, <1>4, <1>5, <1>7
  <2> QED BY <2>7, <2>8, <2>9, <2>10 DEF QuietPageSoFar
<1>16. Len(more) + Len(skipped) <= idx + 1
  BY <1>3, <1>5
<1> QED BY <1>1, <1>3, <1>5, <1>10, <1>14, <1>15, <1>16, LookAtFrame

-----------------------------------------------------------------------------
(* Others write while the query runs.                                      *)
LEMMA WriteKeeps ==
  ASSUME IInv, NEW newRows, NEW paths, NEW id, Write(newRows, paths, id),
         newRows \in [Path -> Row \cup {NoRow}], paths \subseteq Path, paths # {},
         \A p \in Path \ paths : newRows[p] = rows[p],
         id \in {lastId, lastId + 1}, IdsAreUnique'
  PROVE  IInv'
<1> /\ TypeOK /\ NothingYet /\ ContentsAreServed /\ OrderIsSorted /\ OrderStays
    /\ OrderIsComplete /\ WindowIsLoaded /\ PageSoFar
  BY DEF IInv
<1>1. /\ step \in Running /\ changes < MaxChanges /\ changes' = changes + 1
      /\ rows' = newRows /\ lastId' = id /\ touched' = touched \cup paths
      /\ served' = served \cup {<<newRows[p].id, newRows[p].payload>> :
                                  p \in {x \in paths : newRows[x] # NoRow}}
      /\ UNCHANGED <<query, step, order, windowEnd, loaded, idx, toSkip, out, skipped>>
  BY DEF Write, window, page
<1>2. step # "idle" /\ step # "done" /\ EntriesAreSound
  BY <1>1 DEF Running, IInv
<1>3. served \subseteq served' /\ touched \subseteq touched' /\ touched' # {}
  BY <1>1
<1>4. ASSUME NEW p \in Path \ touched'
      PROVE  p \in Path \ touched /\ rows'[p] = rows[p] /\ (p \in Stored' <=> p \in Stored)
  BY <1>1, <1>4 DEF Stored
<1>5. TypeOK'
  <2>1. /\ N \in Nat /\ MaxChanges \in Nat /\ changes \in 0..MaxChanges
        /\ lastId \in N..N + changes
    BY QueryAssumption DEF TypeOK
  <2>2. changes' \in 0..MaxChanges /\ lastId' \in N..N + changes'
    BY <1>1, <2>1
  <2>3. served' \subseteq Id \X Payload
    <3>1. \A p \in paths : newRows[p] # NoRow => newRows[p].id \in Id /\ newRows[p].payload \in Payload
      BY DEF Row
    <3> QED BY <1>1, <3>1 DEF TypeOK
  <2> QED BY <1>1, <2>2, <2>3 DEF TypeOK
<1>6. NothingYet' /\ PlanFits'
  BY <1>1, <1>2 DEF IInv, NothingYet, PlanFits, LooksAtFields
<1>7. ContentsAreServed'
  <2> SUFFICES ASSUME NEW p \in Stored' PROVE <<rows'[p].id, rows'[p].payload>> \in served'
    BY DEF ContentsAreServed, Contents
  <2>1. p \in Path /\ newRows[p] # NoRow
    BY <1>1 DEF Stored
  <2>2. CASE p \in paths
    BY <1>1, <2>1, <2>2
  <2>3. CASE p \notin paths
    <3>1. rows[p] = newRows[p] /\ p \in Stored
      BY <2>1, <2>3 DEF Stored
    <3>2. <<rows[p].id, rows[p].payload>> \in served
      BY <1>2, <3>1 DEF ContentsAreServed, Contents
    <3> QED BY <1>1, <1>3, <3>1, <3>2
  <2> QED BY <2>2, <2>3
<1>8. OrderIsSorted'
  BY <1>1 DEF OrderIsSorted
<1>9. OrderStays'
  <2> SUFFICES ASSUME NEW k \in DOMAIN order, order[k].path \notin touched'
               PROVE  order[k].path \in Stored' /\ order[k] = Candidate(order[k].path)'
    BY <1>1 DEF OrderStays
  <2>1. order[k].path \in Path
    BY SequenceTypes
  <2>2. rows'[order[k].path] = rows[order[k].path] /\ order[k].path \in Stored'
    BY <1>3, <1>4, <2>1 DEF OrderStays
  <2>3. order[k] = Candidate(order[k].path)
    BY <1>3 DEF OrderStays
  <2> QED BY <1>1, <2>2, <2>3 DEF Candidate
<1>10. OrderIsComplete'
  <2> SUFFICES ASSUME Paging, NEW p \in Path \ touched'
               PROVE  (\E k \in DOMAIN order : order[k].path = p) <=>
                        (p \in Stored' \cap query.paths /\ Matches(query, rows'[p].payload))
    BY <1>1 DEF OrderIsComplete, Paging
  <2>1. /\ p \in Path \ touched /\ rows'[p] = rows[p] /\ (p \in Stored' <=> p \in Stored)
    BY <1>4
  <2>2. (\E k \in DOMAIN order : order[k].path = p) <=>
          (p \in Stored \cap query.paths /\ Matches(query, rows[p].payload))
    BY <2>1 DEF OrderIsComplete
  <2> QED BY <2>1, <2>2
<1>11. WindowIsLoaded'
  <2> SUFFICES ASSUME step = "window" PROVE WindowIsLoaded'
    BY <1>1 DEF WindowIsLoaded
  <2>1. idx' <= windowEnd' /\ \A i \in DOMAIN loaded' : <<i, loaded'[i]>> \in served'
    BY <1>1, <1>3 DEF WindowIsLoaded
  <2>2. ASSUME NEW k \in idx + 1..windowEnd, order[k].path \notin touched'
        PROVE  order[k].id \in DOMAIN loaded /\ loaded[order[k].id] = rows'[order[k].path].payload
    <3>1. k \in 1..Len(order)
      BY SequenceTypes
    <3>2. order[k].path \in Path
      BY <3>1, SequenceTypes
    <3>3. order[k].path \notin touched /\ rows'[order[k].path] = rows[order[k].path]
      BY <1>4, <2>2, <3>2
    <3> QED BY <3>3 DEF WindowIsLoaded
  <2> QED BY <1>1, <2>1, <2>2 DEF WindowIsLoaded
<1>12. EntriesAreSound'
  BY <1>1, <1>2, <1>3 DEF EntriesAreSound
<1>13. PageSoFar'
  <2> SUFFICES ASSUME Paging PROVE PageSoFar'
    BY <1>1 DEF PageSoFar, Paging
  <2>1. \A k : Returned(k)' = Returned(k)
    BY <1>1 DEF Returned
  <2>2. ASSUME NEW k \in 1..idx, Stays(k)' PROVE Stays(k)
    <3>1. k \in 1..Len(order)
      BY SequenceTypes
    <3>2. order[k].path \in Path /\ order[k].path \notin touched'
      BY <1>1, <2>2, <3>1, SequenceTypes DEF Stays
    <3> QED BY <1>1, <1>4, <2>2, <3>2 DEF Stays
  <2>3. LeftOut(idx)' \subseteq LeftOut(idx)
    BY <1>1, <2>1, <2>2 DEF LeftOut
  <2>4. Cardinality(LeftOut(idx)') <= query'.offset - toSkip'
    <3>1. IsFiniteSet(LeftOut(idx)) /\ Cardinality(LeftOut(idx)) \in Nat
      BY LeftOutIsFinite, SequenceTypes
    <3>2. Cardinality(LeftOut(idx)') <= Cardinality(LeftOut(idx)) /\ IsFiniteSet(LeftOut(idx)')
      BY <2>3, <3>1, FS_Subset
    <3>3. Cardinality(LeftOut(idx)') \in Nat
      BY <3>2, FS_CardinalityType
    <3>4. Cardinality(LeftOut(idx)) <= query.offset - toSkip
      BY DEF PageSoFar
    <3>5. query.offset \in Nat /\ toSkip \in Nat
      BY <1>2, QueryTypes, SequenceTypes
    <3> QED BY <1>1, <3>1, <3>2, <3>3, <3>4, <3>5
  <2>5. \A k \in LeftOut(idx)', j \in 1..idx' : Returned(j)' => k < j
    BY <1>1, <2>1, <2>3 DEF PageSoFar
  <2> QED BY <1>1, <2>4, <2>5 DEF PageSoFar
<1> QED
  BY <1>1, <1>2, <1>3, <1>5, <1>6, <1>7, <1>8, <1>9, <1>10, <1>11, <1>12, <1>13
  DEF IInv, QuietPageSoFar, RowsThatStayAreServed, QuietPageIsExact

LEMMA StoreKeeps ==
  ASSUME IInv, NEW p \in Path, NEW t \in Mtimes, NEW w \in Payload, Store(p, t, w)
  PROVE  IInv'
<1> TypeOK /\ IdsAreUnique
  BY DEF IInv
<1> DEFINE id == IF rows[p] = NoRow THEN lastId + 1 ELSE rows[p].id
           last == IF rows[p] = NoRow THEN id ELSE lastId
           row == [id |-> id, mtime |-> t, payload |-> w]
           new == [rows EXCEPT ![p] = row]
<1>1. Write(new, {p}, last)
  BY DEF Store
<1>2. rows' = new /\ lastId' = last /\ changes < MaxChanges
  BY <1>1 DEF Write
<1>3. /\ N \in Nat /\ MaxChanges \in Nat /\ changes \in 0..MaxChanges /\ lastId \in N..N + changes
      /\ rows \in [Path -> Row \cup {NoRow}] /\ NoRow \notin Row
  BY QueryAssumption DEF TypeOK
<1>4. id \in Id /\ last \in {lastId, lastId + 1}
  <2>1. CASE rows[p] = NoRow
    BY <1>2, <1>3, <2>1 DEF Id
  <2>2. CASE rows[p] # NoRow
    BY <2>2, RowTypes DEF Stored
  <2> QED BY <2>1, <2>2
<1>5. row \in Row
  BY <1>4 DEF Row
<1>6. new \in [Path -> Row \cup {NoRow}] /\ new[p] = row /\ \A r \in Path \ {p} : new[r] = rows[r]
  <2> HIDE DEF row
  <2> QED BY <1>3, <1>5
<1>7. row.id = id /\ row # NoRow
  BY <1>3, <1>5
<1>8. Stored' = Stored \cup {p}
  <2> HIDE DEF new, row
  <2> QED BY <1>2, <1>6, <1>7 DEF Stored
<1>9. \A r \in Stored : r \in Path /\ rows[r].id \in Int /\ rows[r].id <= lastId
  BY RowTypes DEF Id, IdsAreUnique
<1>10. \A r \in Stored \ {p} : rows'[r] = rows[r] /\ rows[r].id # id
  <2>1. \A r \in Stored \ {p} : rows'[r] = rows[r]
    <3> HIDE DEF new, row
    <3> QED BY <1>2, <1>6, <1>9
  <2>2. CASE rows[p] = NoRow
    <3>1. id = lastId + 1 /\ lastId \in Int
      BY <1>3, <2>2
    <3> HIDE DEF id
    <3> QED BY <1>9, <2>1, <3>1
  <2>3. CASE rows[p] # NoRow
    <3>1. p \in Stored /\ id = rows[p].id
      BY <2>3 DEF Stored
    <3> HIDE DEF id
    <3> QED BY <2>1, <3>1 DEF IdsAreUnique
  <2> QED BY <2>2, <2>3
<1>11. rows'[p].id = id /\ id <= last /\ lastId <= last /\ lastId \in Int /\ last \in Int
  <2>1. rows'[p].id = id
    <3> HIDE DEF new, row, id
    <3> QED BY <1>2, <1>6, <1>7
  <2>2. CASE rows[p] = NoRow
    <3>1. id = lastId + 1 /\ last = lastId + 1 /\ lastId \in Int
      BY <1>3, <2>2
    <3> HIDE DEF id, last
    <3> QED BY <2>1, <3>1
  <2>3. CASE rows[p] # NoRow
    <3>1. p \in Stored /\ id = rows[p].id /\ last = lastId /\ lastId \in Int
      BY <1>3, <2>3 DEF Stored
    <3>2. id <= lastId
      BY <1>9, <3>1
    <3> HIDE DEF id, last
    <3> QED BY <2>1, <3>1, <3>2
  <2> QED BY <2>2, <2>3
<1> HIDE DEF new, row, id, last
<1>12. IdsAreUnique'
  <2>1. \A r \in Stored' : rows'[r].id <= lastId'
    BY <1>2, <1>8, <1>9, <1>10, <1>11
  <2>2. \A q, r \in Stored' : rows'[q].id = rows'[r].id => q = r
    <3>1. \A q, r \in Stored \ {p} : rows'[q].id = rows'[r].id => q = r
      BY <1>10 DEF IdsAreUnique
    <3> QED BY <1>8, <1>10, <1>11, <3>1
  <2> QED BY <2>1, <2>2 DEF IdsAreUnique
<1> QED BY <1>1, <1>4, <1>6, <1>12, WriteKeeps

LEMMA DeletePathsKeeps ==
  ASSUME IInv, NEW S \in (SUBSET Stored) \ {{}}, DeletePaths(S)
  PROVE  IInv'
<1> TypeOK /\ IdsAreUnique
  BY DEF IInv
<1> DEFINE new == [p \in Path |-> IF p \in S THEN NoRow ELSE rows[p]]
<1>1. Write(new, S, lastId) /\ S \subseteq Path /\ S # {}
  BY DEF DeletePaths, Stored
<1>2. rows' = new /\ lastId' = lastId
  BY <1>1 DEF Write
<1>3. new \in [Path -> Row \cup {NoRow}] /\ \A p \in Path \ S : new[p] = rows[p]
  BY DEF TypeOK
<1>4. Stored' \subseteq Stored /\ \A p \in Stored' : rows'[p] = rows[p]
  BY <1>2 DEF Stored
<1>5. IdsAreUnique'
  BY <1>2, <1>4 DEF IdsAreUnique
<1> HIDE DEF new
<1> QED BY <1>1, <1>3, <1>5, WriteKeeps

-----------------------------------------------------------------------------
(* The end of the page.  If nobody wrote, the candidates that decode are   *)
(* the readable rows, in the order of the reference.                       *)
LEMMA OrderHasNoTwice ==
  ASSUME IInv
  PROVE  /\ \A k, l \in 1..Len(order) : order[k].path = order[l].path => k = l
         /\ step # "idle" => \A k, l \in 1..Len(order) :
              Before(query, order[k], order[l]) <=> k < l
<1> TypeOK /\ OrderIsSorted
  BY DEF IInv
<1>1. DOMAIN order = 1..Len(order) /\ \A k \in 1..Len(order) : order[k] \in Candidates
  BY SequenceTypes
<1>2. \A k, l \in 1..Len(order) :
        k < l => Before(query, order[k], order[l]) /\ order[k].path # order[l].path
  BY <1>1 DEF OrderIsSorted
<1>3. \A k, l \in 1..Len(order) : order[k].path = order[l].path => k = l
  <2> SUFFICES ASSUME NEW k \in 1..Len(order), NEW l \in 1..Len(order), k # l
               PROVE  order[k].path # order[l].path
    OBVIOUS
  <2>1. k < l \/ l < k
    OBVIOUS
  <2> QED BY <1>2, <2>1
<1>4. ASSUME step # "idle", NEW k \in 1..Len(order), NEW l \in 1..Len(order)
      PROVE  Before(query, order[k], order[l]) <=> k < l
  <2>1. query \in QueryType
    BY <1>4, QueryTypes
  <2>2. ASSUME ~(k < l) PROVE ~Before(query, order[k], order[l])
    <3>1. CASE k = l
      BY <1>1, <2>1, <3>1, BeforeIsStrictTotal
    <3>2. CASE l < k
      <4>1. Before(query, order[l], order[k])
        BY <1>2, <3>2
      <4>2. order[k] \in Candidates /\ order[l] \in Candidates
        BY <1>1
      <4> QED BY <2>1, <4>1, <4>2, BeforeIsStrictTotal
    <3> QED BY <2>2, <3>1, <3>2
  <2> QED BY <1>2, <2>2
<1> QED BY <1>3, <1>4

LEMMA QuietOrder ==
  ASSUME IInv, Paging, touched = {}
  PROVE  /\ \A k \in 1..Len(order) :
              /\ order[k].path \in Stored \cap query.paths
              /\ order[k] = Candidate(order[k].path)
              /\ Matches(query, rows[order[k].path].payload)
         /\ \A p \in Stored \cap query.paths : Matches(query, rows[p].payload) =>
              \E k \in 1..Len(order) : order[k].path = p
<1> TypeOK /\ OrderStays /\ OrderIsComplete
  BY DEF IInv
<1>1. DOMAIN order = 1..Len(order) /\ \A k \in 1..Len(order) : order[k].path \in Path
  BY SequenceTypes
<1>2. \A p \in Stored : p \in Path
  BY DEF Stored
<1> QED BY <1>1, <1>2 DEF OrderStays, OrderIsComplete

LEMMA LegibleRank ==
  ASSUME IInv, Paging, touched = {}
  PROVE  /\ Distinct(Readable) /\ Cardinality(Readable) \in Nat
         /\ Cardinality(Legible(Len(order))) = Cardinality(Readable)
         /\ Ordered(query, Readable, Sorted(query, Readable))
         /\ \A k \in Legible(Len(order)) :
              /\ Cardinality(Legible(k)) \in 1..Cardinality(Readable)
              /\ Sorted(query, Readable)[Cardinality(Legible(k))] = order[k]
<1> TypeOK
  BY DEF IInv
<1> DEFINE n == Len(order)
           S == Readable
           R == Sorted(query, Readable)
           m == Cardinality(Readable)
<1>0. n \in Nat /\ step # "idle" /\ query \in QueryType
  BY QueryTypes, SequenceTypes DEF Paging
<1>1. Distinct(S)
  <2> DEFINE T == {x \in Stored \cap query.paths :
                     rows[x].payload.opens /\ Matches(query, rows[x].payload)}
  <2>1. T \subseteq Stored /\ S = {Candidate(p) : p \in T}
    BY DEF Readable
  <2> HIDE DEF T, S
  <2> QED BY <2>1, CandidatesAreDistinct
<1>2. Ordered(query, S, R)
  BY <1>0, <1>1, OrderExists
<1>3. /\ m \in Nat
      /\ \A c \in S : \E i \in 1..m : R[i] = c
      /\ \A i \in 1..m : Cardinality(BeforeIn(query, S, R[i])) = i - 1
  BY <1>0, <1>1, <1>2, OrderIsByRank
<1>4. S = {order[k] : k \in Legible(n)}
  <2>1. ASSUME NEW c \in S PROVE \E k \in Legible(n) : c = order[k]
    <3>1. PICK p \in Stored \cap query.paths :
            c = Candidate(p) /\ rows[p].payload.opens /\ Matches(query, rows[p].payload)
      BY DEF Readable
    <3>2. PICK k \in 1..n : order[k].path = p
      BY <3>1, QuietOrder
    <3>3. order[k] = c
      BY <3>1, <3>2, QuietOrder
    <3> QED BY <3>1, <3>2, <3>3 DEF Legible
  <2>2. ASSUME NEW k \in Legible(n) PROVE order[k] \in S
    <3>1. k \in 1..n /\ rows[order[k].path].payload.opens
      BY DEF Legible
    <3>2. /\ order[k].path \in Stored \cap query.paths /\ order[k] = Candidate(order[k].path)
          /\ Matches(query, rows[order[k].path].payload)
      BY <3>1, QuietOrder
    <3> QED BY <3>1, <3>2 DEF Readable
  <2> QED BY <2>1, <2>2
<1>5. \A k, l \in Legible(n) : /\ k \in 1..n /\ (order[k] = order[l] => k = l)
                               /\ Before(query, order[k], order[l]) <=> k < l
  <2>1. Legible(n) \subseteq 1..n
    BY DEF Legible
  <2> QED BY <1>0, <2>1, OrderHasNoTwice
<1>6. Cardinality(Legible(n)) = m
  <2> DEFINE f == [k \in Legible(n) |-> order[k]]
  <2>1. IsFiniteSet(Legible(n))
    BY <1>0, LegibleGrows
  <2>2. f = [k \in Legible(n) |-> f[k]] /\ S = {f[k] : k \in Legible(n)}
    BY <1>4
  <2>3. \A k, l \in Legible(n) : f[k] = f[l] => k = l
    <3>1. \A k \in Legible(n) : f[k] = order[k]
      OBVIOUS
    <3> HIDE DEF f
    <3> QED BY <1>5, <3>1
  <2> HIDE DEF f, n
  <2> QED BY <2>1, <2>2, <2>3, ImageOfFinite
<1>7. ASSUME NEW k \in Legible(n)
      PROVE  Cardinality(Legible(k)) \in 1..m /\ R[Cardinality(Legible(k))] = order[k]
  <2>1. k \in 1..n /\ order[k] \in S /\ k \in Legible(k)
    BY <1>4 DEF Legible
  <2> DEFINE before == Legible(k) \ {k}
             f == [j \in before |-> order[j]]
  <2>2. before = {j \in Legible(n) : j < k}
    <3>1. n \in Nat /\ k \in 1..n
      BY <1>0, <2>1
    <3>2. \A j : j \in 1..k /\ j # k <=> j \in 1..n /\ j < k
      <4> HIDE DEF n
      <4> QED BY <3>1
    <3> QED BY <3>2 DEF Legible
  <2>3. BeforeIn(query, S, order[k]) = {order[j] : j \in before}
    <3>1. ASSUME NEW d \in BeforeIn(query, S, order[k]) PROVE \E j \in before : d = order[j]
      <4>1. PICK j \in Legible(n) : d = order[j]
        BY <1>4 DEF BeforeIn
      <4>2. j < k
        BY <1>5, <4>1 DEF BeforeIn
      <4> QED BY <2>2, <4>1, <4>2
    <3>2. ASSUME NEW j \in before PROVE order[j] \in BeforeIn(query, S, order[k])
      <4>1. j \in Legible(n) /\ j < k
        BY <2>2
      <4> QED BY <1>4, <1>5, <4>1 DEF BeforeIn
    <3> HIDE DEF before
    <3> QED BY <3>1, <3>2
  <2>4. IsFiniteSet(Legible(k)) /\ Cardinality(Legible(k)) \in Nat /\ k \in Nat
    <3>1. k \in Nat
      BY <2>1
    <3> QED BY <3>1, LegibleGrows
  <2>5. IsFiniteSet(before) /\ Cardinality(before) = Cardinality(Legible(k)) - 1
    BY <2>1, <2>4, FS_RemoveElement
  <2>6. \A i, j \in before : f[i] = f[j] => i = j
    <3>1. \A i \in before : f[i] = order[i] /\ i \in Legible(n)
      BY <2>2
    <3> HIDE DEF f, before
    <3> QED BY <1>5, <3>1
  <2>7. f = [j \in before |-> f[j]] /\ BeforeIn(query, S, order[k]) = {f[j] : j \in before}
    BY <2>3
  <2>8. Cardinality(BeforeIn(query, S, order[k])) = Cardinality(Legible(k)) - 1
    <3> HIDE DEF f, before
    <3> QED BY <2>5, <2>6, <2>7, ImageOfFinite
  <2>9. PICK r \in 1..m : R[r] = order[k]
    BY <1>3, <2>1
  <2>10. r - 1 = Cardinality(Legible(k)) - 1
    BY <1>3, <2>8, <2>9
  <2>11. r = Cardinality(Legible(k))
    <3> HIDE DEF m
    <3> QED BY <2>4, <2>10
  <2> QED BY <2>9, <2>11
<1> QED BY <1>1, <1>2, <1>3, <1>6, <1>7

LEMMA LegibleBounds ==
  ASSUME IInv
  PROVE  /\ Cardinality(Legible(idx)) \in Nat /\ Cardinality(Legible(Len(order))) \in Nat
         /\ Cardinality(Legible(idx)) <= Cardinality(Legible(Len(order)))
         /\ Legible(idx) \subseteq Legible(Len(order)) /\ Legible(idx) \subseteq 1..idx
<1>1. TypeOK
  BY DEF IInv
<1>2. idx \in Nat /\ Len(order) \in Nat /\ 1..idx \subseteq 1..Len(order)
  BY <1>1, SequenceTypes
<1>3. Legible(idx) \subseteq Legible(Len(order)) /\ Legible(idx) \subseteq 1..idx
  BY <1>2 DEF Legible
<1> QED BY <1>2, <1>3, LegibleGrows, FS_Subset

(* A page of materialize is the reference page if nobody wrote.            *)
LEMMA QuietPage ==
  ASSUME IInv, step = "page", touched = {}, Filled(query, out) \/ idx = Len(order)
  PROVE  PageIsExact
<1> DEFINE S == Readable
           R == Sorted(query, Readable)
           m == Cardinality(Readable)
           o == query.offset
           L == Len(out)
           P == Page(query, R)
<1> TypeOK /\ PageSoFar /\ QuietPageSoFar /\ EntriesAreSound /\ Paging /\ step # "idle"
  BY DEF IInv, Paging
<1>1. /\ query \in QueryType /\ o \in Nat /\ (query.limit # NoLimit => query.limit \in Nat)
      /\ L \in Nat /\ DOMAIN out = 1..L /\ toSkip \in Nat /\ idx \in Nat /\ Len(order) \in Nat
      /\ out \in Seq(Delivered)
  BY QueryTypes, SequenceTypes DEF TypeOK, Delivered
<1>2. /\ m \in Nat /\ Distinct(S) /\ Ordered(query, S, R) /\ R \in Seq(S) /\ Len(R) = m
      /\ \A k \in Legible(Len(order)) :
           Cardinality(Legible(k)) \in 1..m /\ R[Cardinality(Legible(k))] = order[k]
      /\ Cardinality(Legible(Len(order))) = m
  BY <1>1, LegibleRank, OrderIsByRank
<1>3. /\ Cardinality(Legible(idx)) = o - toSkip + L
      /\ \A i \in 1..L : \E k \in Legible(idx) :
           /\ out[i] = Entry(order[k], rows[order[k].path].payload)
           /\ Cardinality(Legible(k)) = o + i
      /\ {skipped[i].path : i \in DOMAIN skipped} = {order[k].path : k \in 1..idx \ Legible(idx)}
      /\ Filled(query, out) =>
           IF out = <<>> THEN idx = 0 ELSE order[idx].path = out[L].path
  BY <1>1 DEF QuietPageSoFar
<1>4. toSkip <= o /\ (toSkip > 0 => L = 0)
  BY NothingIsSeq DEF PageSoFar
<1>5. o - toSkip + L <= m /\ (~Filled(query, out) => o - toSkip + L = m)
  BY <1>2, <1>3, LegibleBounds
<1>6. /\ Filled(query, out) => query.limit # NoLimit /\ L = query.limit
      /\ ~Filled(query, out) /\ query.limit # NoLimit => L < query.limit
  <2>1. query.limit # NoLimit => L <= query.limit
    BY DEF EntriesAreSound
  <2>2. Filled(query, out) <=> query.limit # NoLimit /\ L >= query.limit
    BY DEF Filled
  <2> HIDE DEF L
  <2> QED BY <1>1, <2>1, <2>2
<1>7. L > 0 => AtMost(o, m) = o
  <2> HIDE DEF L, m, o
  <2> QED BY <1>1, <1>2, <1>4, <1>5 DEF AtMost
<1>8. PageLength(query, m) = L
  <2> HIDE DEF L, m
  <2>1. PageLength(query, m) = IF query.limit = NoLimit THEN m - AtMost(o, m)
                                                       ELSE AtMost(query.limit, m - AtMost(o, m))
    BY DEF PageLength
  <2> HIDE DEF o
  <2>2. CASE Filled(query, out)
    <3>1. query.limit # NoLimit /\ L = query.limit
      BY <1>6, <2>2
    <3>2. CASE L = 0
      <4>1. m - AtMost(o, m) \in Nat
        BY <1>1, <1>2 DEF AtMost
      <4> QED BY <2>1, <3>1, <3>2, <4>1 DEF AtMost
    <3>3. CASE L > 0
      <4>1. toSkip = 0 /\ AtMost(o, m) = o /\ o + L <= m
        BY <1>1, <1>2, <1>4, <1>5, <1>7, <3>3
      <4> QED BY <1>1, <1>2, <2>1, <3>1, <4>1 DEF AtMost
    <3> QED BY <1>1, <3>2, <3>3
  <2>3. CASE ~Filled(query, out)
    <3>1. m = o - toSkip + L
      BY <1>5, <2>3
    <3>2. m - AtMost(o, m) = L
      BY <1>1, <1>2, <1>4, <3>1 DEF AtMost
    <3>3. query.limit # NoLimit => AtMost(query.limit, L) = L
      BY <1>1, <1>6, <2>3 DEF AtMost
    <3> QED BY <2>1, <3>2, <3>3
  <2> QED BY <2>2, <2>3
<1>9. /\ P \in Seq(S) /\ Len(P) = L
      /\ \A i \in 1..L : P[i] = R[AtMost(o, m) + i]
  BY <1>1, <1>2, <1>8, PageShape
<1>10. ASSUME NEW i \in 1..L
       PROVE  \E k \in Legible(idx) : /\ P[i] = order[k]
                                      /\ out[i] = Entry(order[k], rows[order[k].path].payload)
  <2>1. PICK k \in Legible(idx) : /\ out[i] = Entry(order[k], rows[order[k].path].payload)
                                  /\ Cardinality(Legible(k)) = o + i
    BY <1>3
  <2>2. R[o + i] = order[k]
    BY <1>2, <2>1, LegibleBounds
  <2>3. AtMost(o, m) = o
    <3>1. L > 0
      <4> HIDE DEF L
      <4> QED BY <1>1
    <3> QED BY <1>7, <3>1
  <2> QED BY <1>9, <2>1, <2>2, <2>3
<1>11. out = Entries(P)
  <2>1. DOMAIN P = 1..L
    BY <1>9, LenProperties
  <2>2. Entries(P) = [i \in 1..L |-> Entry(P[i], rows[P[i].path].payload)]
    BY <2>1 DEF Entries
  <2>3. \A i \in 1..L : out[i] = Entry(P[i], rows[P[i].path].payload)
    BY <1>10
  <2>4. out = [i \in 1..L |-> out[i]]
    <3>1. out \in [1..L -> Delivered]
      BY <1>1, LenProperties
    <3> HIDE DEF L
    <3> QED BY <3>1
  <2> HIDE DEF P, L
  <2> QED BY <2>2, <2>3, <2>4
<1> DEFINE bad == {p \in Stored \cap query.paths : ~rows[p].payload.opens}
           listed == {p \in bad : \/ ~Filled(query, out)
                                  \/ out # <<>> /\ Before(query, Candidate(p), P[Len(P)])}
           lost == {order[k].path : k \in 1..idx \ Legible(idx)}
<1>12. ASSUME ~LooksAtFields PROVE lost = listed
  <2>1. \A p : Matches(query, rows[p].payload)
    BY <1>12 DEF LooksAtFields, Matches
  <2>2. \A k \in 1..Len(order) : /\ order[k].path \in Stored \cap query.paths
                                 /\ order[k] = Candidate(order[k].path)
    BY QuietOrder
  <2>3. \A p \in bad : \E k \in 1..Len(order) : order[k].path = p
    BY <2>1, QuietOrder
  <2>4. ASSUME NEW k \in 1..Len(order)
        PROVE  order[k].path \in lost <=> k <= idx /\ ~rows[order[k].path].payload.opens
    <3>1. ASSUME order[k].path \in lost
          PROVE  k <= idx /\ ~rows[order[k].path].payload.opens
      <4>1. PICK l \in 1..idx \ Legible(idx) : order[l].path = order[k].path
        BY <3>1
      <4>2. l \in 1..Len(order) /\ ~rows[order[l].path].payload.opens /\ l <= idx
        BY SequenceTypes DEF Legible
      <4>3. l = k
        BY <4>1, <4>2, OrderHasNoTwice
      <4> QED BY <4>2, <4>3
    <3>2. ASSUME k <= idx, ~rows[order[k].path].payload.opens
          PROVE  order[k].path \in lost
      <4>1. k \in 1..idx \ Legible(idx)
        BY <1>1, <3>2 DEF Legible
      <4> QED BY <4>1
    <3> QED BY <3>1, <3>2
  <2>5. ASSUME NEW k \in 1..Len(order), ~rows[order[k].path].payload.opens
        PROVE  order[k].path \in listed <=> k <= idx
    <3>1. order[k].path \in bad
      BY <2>2, <2>5
    <3>2. CASE ~Filled(query, out)
      <4>1. idx = Len(order)
        BY <3>2
      <4> QED BY <1>1, <3>1, <3>2, <4>1
    <3>3. CASE Filled(query, out) /\ out = <<>>
      <4>1. idx = 0
        BY <1>3, <3>3
      <4> QED BY <3>3, <4>1
    <3>4. CASE Filled(query, out) /\ out # <<>>
      <4>1. L \in 1..L
        <5>1. L # 0
          BY <1>1, <3>4, EmptySeq
        <5> HIDE DEF L
        <5> QED BY <1>1, <5>1
      <4>2. PICK l \in Legible(idx) : P[L] = order[l] /\ out[L].path = order[l].path
        <5>1. PICK l \in Legible(idx) : /\ P[L] = order[l]
                                        /\ out[L] = Entry(order[l], rows[order[l].path].payload)
          <6> HIDE DEF P, L
          <6> QED BY <1>10, <4>1
        <5>2. out[L].path = order[l].path
          <6> HIDE DEF P, L
          <6> QED BY <5>1 DEF Entry
        <5> QED BY <5>1, <5>2
      <4>3. l \in 1..idx /\ idx \in 1..Len(order) /\ l \in 1..Len(order)
        BY LegibleBounds, SequenceTypes
      <4>4. l = idx
        BY <1>3, <3>4, <4>2, <4>3, OrderHasNoTwice
      <4>5. Candidate(order[k].path) = order[k]
        BY <2>2
      <4>6. Before(query, Candidate(order[k].path), P[Len(P)]) <=> k < idx
        BY <1>9, <4>2, <4>3, <4>4, <4>5, OrderHasNoTwice
      <4>7. k # idx
        BY <2>5, <4>2, <4>4 DEF Legible
      <4>8. k < idx <=> k <= idx
        BY <1>1, <4>7
      <4> HIDE DEF P, bad
      <4> QED BY <3>1, <3>4, <4>6, <4>8
    <3> QED BY <3>2, <3>3, <3>4
  <2>6. ASSUME NEW p \in lost PROVE p \in listed
    <3>1. PICK k \in 1..idx : p = order[k].path
      OBVIOUS
    <3>2. k \in 1..Len(order)
      BY SequenceTypes
    <3> HIDE DEF lost, listed
    <3> QED BY <2>4, <2>5, <3>1, <3>2
  <2>7. ASSUME NEW p \in listed PROVE p \in lost
    <3>1. p \in bad /\ ~rows[p].payload.opens
      OBVIOUS
    <3>2. PICK k \in 1..Len(order) : p = order[k].path
      BY <2>3, <3>1
    <3> HIDE DEF lost, listed, bad
    <3> QED BY <2>4, <2>5, <3>1, <3>2
  <2> HIDE DEF lost, listed
  <2> QED BY <2>6, <2>7
<1>13. ~LooksAtFields => {skipped[i].path : i \in DOMAIN skipped} = listed
  BY <1>3, <1>12
<1> QED BY <1>11, <1>13 DEF PageIsExact

LEMMA FinishPageKeeps ==
  ASSUME IInv, FinishPage
  PROVE  IInv'
<1> /\ TypeOK /\ IdsAreUnique /\ NothingYet /\ ContentsAreServed /\ OrderIsSorted
    /\ OrderStays /\ PageSoFar /\ Paging /\ EntriesAreSound
  BY DEF IInv, FinishPage, Paging
<1>1. /\ step = "page" /\ step' = "done" /\ (Filled(query, out) \/ idx = Len(order))
      /\ UNCHANGED <<rows, lastId, changes, query, order, windowEnd, loaded, idx, toSkip, out,
                     skipped, touched, served>>
  BY DEF FinishPage, db, window, page, ghosts
<1>2. TypeOK' /\ NothingYet' /\ PlanFits' /\ EntriesAreSound' /\ OrderIsSorted'
  BY <1>1 DEF TypeOK, Running, NothingYet, PlanFits, EntriesAreSound, OrderIsSorted
<1>3. /\ Stored' = Stored /\ \A p : Candidate(p)' = Candidate(p)
      /\ IdsAreUnique' /\ ContentsAreServed'
  BY <1>1, RowsUntouched DEF ContentsAreServed
<1>4. OrderStays'
  BY <1>1, <1>3 DEF OrderStays
<1>5. RowsThatStayAreServed'
  <2> DEFINE n == Len(order)
  <2>1. n \in Nat /\ DOMAIN order = 1..n /\ idx \in Nat /\ idx <= n
    BY SequenceTypes
  <2>2. \A k \in 1..n : Returned(k) => k \in 1..idx
    <3> SUFFICES ASSUME NEW k \in 1..n, Returned(k) PROVE k \in 1..idx
      OBVIOUS
    <3>1. PICK i \in DOMAIN out : out[i].path = order[k].path
      BY DEF Returned
    <3>2. PICK l \in 1..idx : order[l].path = out[i].path
      BY DEF PageSoFar
    <3>3. l \in 1..n
      BY <2>1
    <3> QED BY <3>1, <3>2, <3>3, OrderHasNoTwice
  <2>3. ASSUME NEW k \in LeftOut(n), NEW i \in 1..n, NEW j \in 1..n,
               Returned(i), Returned(j), i < k, k < j
        PROVE  FALSE
    <3>1. i \in 1..idx /\ j \in 1..idx /\ k \in 1..n
      BY <2>2, <2>3 DEF LeftOut
    <3>2. k \in 1..idx
      BY <2>1, <2>3, <3>1
    <3>3. k \in LeftOut(idx)
      BY <3>2 DEF LeftOut
    <3>4. k < i
      BY <2>3, <3>1, <3>3 DEF PageSoFar
    <3> QED BY <2>3, <3>1, <3>2, <3>4
  <2>4. ~Filled(query, out) => Cardinality(LeftOut(n)) <= query.offset
    <3> SUFFICES ASSUME ~Filled(query, out) PROVE Cardinality(LeftOut(n)) <= query.offset
      OBVIOUS
    <3>1. idx = n
      BY <1>1
    <3>2. Cardinality(LeftOut(n)) <= query.offset - toSkip
      BY <3>1 DEF PageSoFar
    <3>3. Cardinality(LeftOut(n)) \in Nat /\ query.offset \in Nat /\ toSkip \in Nat
      BY <1>1, <2>1, LeftOutIsFinite, QueryTypes, SequenceTypes
    <3> QED BY <3>2, <3>3
  <2>5. (\A k : Returned(k)' = Returned(k)) /\ (\A k : LeftOut(k)' = LeftOut(k))
    BY <1>1 DEF Returned, LeftOut, Stays
  <2>6. LeftOut(Len(order))' = LeftOut(n)
    BY <1>1, <2>5
  <2> HIDE DEF n
  <2> QED BY <1>1, <2>1, <2>3, <2>4, <2>5, <2>6 DEF RowsThatStayAreServed, Filled
<1>6. QuietPageIsExact'
  <2> SUFFICES ASSUME touched = {} PROVE PageIsExact'
    BY <1>1 DEF QuietPageIsExact
  <2>1. PageIsExact
    BY <1>1, QuietPage
  <2>2. Readable' = Readable /\ LooksAtFields' = LooksAtFields /\ (\A s : Entries(s)' = Entries(s))
    BY <1>1, <1>3 DEF Readable, LooksAtFields, Entries
  <2> QED BY <1>1, <1>3, <2>1, <2>2 DEF PageIsExact
<1> QED
  BY <1>1, <1>2, <1>3, <1>4, <1>5, <1>6
  DEF IInv, Paging, OrderIsComplete, WindowIsLoaded, PageSoFar, QuietPageSoFar

-----------------------------------------------------------------------------
(* Tier 3 lists, filters, sorts and pages in one statement.                *)
LEMMA ExecuteTier3Keeps ==
  ASSUME IInv, ExecuteTier3
  PROVE  IInv'
<1> DEFINE matched == {c \in Listed : rows[c.path].payload.opens /\
                                      Matches(query, rows[c.path].payload)}
           unread == {c \in Listed : ~rows[c.path].payload.opens}
           R == Sorted(query, matched)
           P == Page(query, R)
           L == Len(P)
<1> TypeOK /\ IdsAreUnique /\ NothingYet /\ PlanFits /\ ContentsAreServed
  BY DEF IInv
<1>1. /\ step = "tier3" /\ step' = "done" /\ out' = Entries(P)
      /\ skipped' = Sorted(ByPath(query), unread)
      /\ UNCHANGED <<rows, lastId, changes, query, order, windowEnd, loaded, idx, toSkip,
                     touched, served>>
  BY DEF ExecuteTier3, db, window, ghosts
<1>2. /\ query \in QueryType /\ step # "idle" /\ (query.limit # NoLimit => query.limit \in Nat)
      /\ order = <<>> /\ idx = 0 /\ DOMAIN order = {} /\ windowEnd = 0 /\ loaded = <<>>
  BY <1>1, QueryTypes, NothingIsSeq DEF NothingYet
<1>3. ByPath(query) \in QueryType
  <2>1. <<>> \in Seq([by : {"Field", "Mtime", "Path"}, desc : BOOLEAN])
    BY NothingIsSeq
  <2> QED BY <1>2, <2>1 DEF ByPath, QueryType
<1>4. Distinct(Listed) /\ \A T \in SUBSET Listed : Distinct(T) /\ Cardinality(T) <= N
  <2>1. Distinct(Listed) /\ Cardinality(Listed) <= N
    BY CandidatesAreDistinct DEF Listed
  <2>2. IsFiniteSet(Listed) /\ N \in Nat
    BY <2>1, QueryAssumption DEF Distinct
  <2>3. ASSUME NEW T \in SUBSET Listed PROVE Distinct(T) /\ Cardinality(T) <= N
    <3>1. IsFiniteSet(T) /\ Cardinality(T) <= Cardinality(Listed)
      BY <2>2, FS_Subset
    <3>2. Cardinality(T) \in Nat /\ Cardinality(Listed) \in Nat
      BY <2>2, <3>1, FS_CardinalityType
    <3> QED BY <2>1, <2>2, <3>1, <3>2 DEF Distinct
  <2> QED BY <2>1, <2>3
<1>5. Distinct(matched) /\ Distinct(unread) /\ Cardinality(matched) <= N /\ Cardinality(unread) <= N
  <2>1. matched \in SUBSET Listed /\ unread \in SUBSET Listed
    OBVIOUS
  <2> HIDE DEF matched, unread
  <2> QED BY <1>4, <2>1
<1>6. /\ R \in Seq(matched) /\ Len(R) = Cardinality(matched) /\ Cardinality(matched) \in Nat
      /\ \A i, j \in 1..Len(R) : R[i] = R[j] => i = j
  <2> HIDE DEF matched
  <2>1. Ordered(query, matched, R)
    BY <1>2, <1>5, OrderExists
  <2> QED BY <1>2, <1>5, <2>1, OrderIsByRank
<1>7. skipped' \in Seq(Candidates) /\ Len(skipped') <= N
  <2> HIDE DEF unread
  <2>1. PICK s : s = skipped' /\ Ordered(ByPath(query), unread, s)
    BY <1>1, <1>3, <1>5, OrderExists
  <2>2. s \in Seq(unread) /\ Len(s) = Cardinality(unread)
    BY <1>3, <1>5, <2>1, OrderIsByRank
  <2>3. s \in Seq(Candidates)
    BY <1>5, <2>2, SeqMonotonic DEF Distinct
  <2> QED BY <1>5, <2>1, <2>2, <2>3
<1>8. /\ P \in Seq(matched) /\ L \in 0..Len(R) /\ (query.limit # NoLimit => L <= query.limit)
      /\ AtMost(query.offset, Len(R)) \in Nat
      /\ \A i \in 1..L : /\ AtMost(query.offset, Len(R)) + i \in 1..Len(R)
                         /\ P[i] = R[AtMost(query.offset, Len(R)) + i]
  <2> HIDE DEF matched, R
  <2>1. L = PageLength(query, Len(R))
    BY <1>2, <1>6, PageShape
  <2> HIDE DEF P, L
  <2> QED BY <1>2, <1>6, <2>1, PageShape DEF P
<1>9. /\ L \in Nat /\ L <= N /\ DOMAIN P = 1..L /\ \A i \in 1..L : P[i] \in matched
  <2>1. P \in Seq(matched)
    BY <1>8
  <2>2. L \in Nat /\ DOMAIN P = 1..L /\ \A i \in 1..L : P[i] \in matched
    <3> HIDE DEF matched, R, P
    <3> QED BY <2>1, LenProperties
  <2>3. L <= N
    <3> HIDE DEF matched, R, P, L
    <3> QED BY <1>5, <1>6, <1>8, QueryAssumption
  <2> QED BY <2>2, <2>3
<1>10. \A i, j \in 1..L : P[i] = P[j] => i = j
  <2>1. \A a, i, j \in Nat : a + i = a + j => i = j
    OBVIOUS
  <2>2. \A i \in 1..L : i \in Nat
    OBVIOUS
  <2> HIDE DEF matched, R, P, L
  <2> QED BY <1>6, <1>8, <2>1, <2>2
<1>11. \A c \in matched : /\ c.path \in Stored /\ c = Candidate(c.path) /\ c \in Candidates
                          /\ rows[c.path].payload.opens
  BY RowTypes DEF Listed
<1>12. \A c \in matched : /\ c.id = rows[c.path].id
                          /\ Entry(c, rows[c.path].payload) \in Delivered
                          /\ <<c.id, rows[c.path].payload>> \in served
  <2> SUFFICES ASSUME NEW c \in matched
               PROVE  /\ c.id = rows[c.path].id
                      /\ Entry(c, rows[c.path].payload) \in Delivered
                      /\ <<c.id, rows[c.path].payload>> \in served
    OBVIOUS
  <2>1. c.path \in Stored /\ c = Candidate(c.path)
    BY <1>11
  <2>2. c.id = rows[c.path].id /\ c.id \in Id /\ c.path \in Path /\ rows[c.path].payload \in Payload
    <3>1. PICK p \in Stored : p = c.path
      BY <2>1
    <3> HIDE DEF matched
    <3> QED BY <2>1, <3>1, RowTypes
  <2>3. <<rows[c.path].id, rows[c.path].payload>> \in served
    <3> HIDE DEF matched
    <3> QED BY <1>2, <2>1 DEF ContentsAreServed, Contents
  <2> HIDE DEF matched
  <2> QED BY <2>2, <2>3 DEF Entry, Delivered
<1>13. out' = [i \in 1..L |-> Entry(P[i], rows[P[i].path].payload)]
  BY <1>1, <1>9 DEF Entries
<1> HIDE DEF matched, unread, R, P, L
<1>14. /\ out' \in Seq(Delivered) /\ Len(out') = L /\ DOMAIN out' = 1..L
       /\ \A i \in 1..L : out'[i] = Entry(P[i], rows[P[i].path].payload)
  <2>1. out' \in [1..L -> Delivered]
    BY <1>9, <1>12, <1>13
  <2>2. PICK s : s = out'
    OBVIOUS
  <2>3. s \in Seq(Delivered) /\ Len(s) = L
    BY <1>9, <2>1, <2>2, SeqDef
  <2> QED BY <1>13, <2>2, <2>3
<1>15. TypeOK'
  <2>1. out' \in Seq([path : Path, id : Id, payload : Payload]) /\ Len(out') <= N
    BY <1>9, <1>14 DEF Delivered
  <2> QED BY <1>1, <1>2, <1>7, <2>1 DEF TypeOK, Running
<1>16. NothingYet' /\ PlanFits' /\ IdsAreUnique' /\ ContentsAreServed'
  BY <1>1, <1>2, RowsUntouched DEF NothingYet, PlanFits, ContentsAreServed
<1>17. OrderIsSorted' /\ OrderStays'
  BY <1>1, <1>2 DEF OrderIsSorted, OrderStays
<1>18. EntriesAreSound'
  <2>1. \A i \in 1..L : <<out'[i].id, out'[i].payload>> \in served /\ out'[i].payload.opens
    BY <1>9, <1>11, <1>12, <1>14 DEF Entry
  <2>2. \A i, j \in 1..L : i # j => out'[i].path # out'[j].path
    <3> SUFFICES ASSUME NEW i \in 1..L, NEW j \in 1..L, i # j PROVE out'[i].path # out'[j].path
      OBVIOUS
    <3>1. P[i] \in matched /\ P[j] \in matched /\ P[i] # P[j]
      BY <1>9, <1>10
    <3>2. P[i].path # P[j].path
      BY <1>5, <3>1 DEF Distinct
    <3> QED BY <1>14, <3>2 DEF Entry
  <2>3. query'.limit # NoLimit => Len(out') <= query'.limit
    BY <1>1, <1>8, <1>14
  <2> QED BY <1>1, <1>2, <1>14, <2>1, <2>2, <2>3 DEF EntriesAreSound
<1>19. QuietPageIsExact'
  <2>1. LooksAtFields' /\ (\A s : Entries(s)' = Entries(s))
    BY <1>1 DEF PlanFits, LooksAtFields, Entries
  <2>2. Readable' = matched
    <3>1. Readable' = Readable
      BY <1>1, RowsUntouched DEF Readable
    <3>2. Readable = matched
      BY RowTypes DEF Readable, matched, Listed
    <3> QED BY <3>1, <3>2
  <2>3. out' = Entries(Page(query, Sorted(query, matched)))
    BY <1>1 DEF P, R
  <2>4. out' = Entries(Page(query, Sorted(query, Readable)))'
    BY <1>1, <2>2, <2>3 DEF Entries
  <2> QED BY <2>1, <2>4 DEF QuietPageIsExact, PageIsExact
<1> QED
  BY <1>1, <1>2, <1>15, <1>16, <1>17, <1>18, <1>19
  DEF IInv, Paging, OrderIsComplete, WindowIsLoaded, PageSoFar, QuietPageSoFar,
      RowsThatStayAreServed

-----------------------------------------------------------------------------
LEMMA UnchangedKeeps ==
  ASSUME IInv, UNCHANGED vars
  PROVE  IInv'
<1>1. UNCHANGED <<rows, lastId, changes, query, step, order, windowEnd, loaded, idx, toSkip, out,
                  skipped, touched, served>>
  BY DEF vars, db, window, page, ghosts
<1>2. CASE Paging
  <2>1. TypeOK' /\ NothingYet' /\ WindowIsLoaded' /\ Paging'
    BY <1>1, <1>2 DEF IInv, TypeOK, NothingYet, WindowIsLoaded, Paging
  <2>2. UNCHANGED <<db, query, order, page, ghosts>>
    BY DEF vars
  <2> QED BY <1>2, <2>1, <2>2, SamePage
<1>3. CASE ~Paging
  <2>0. /\ TypeOK /\ NothingYet /\ PlanFits /\ OrderIsSorted
        /\ (step # "idle" => EntriesAreSound)
    BY DEF IInv
  <2>1. /\ TypeOK' /\ NothingYet' /\ PlanFits' /\ OrderIsSorted'
        /\ (step' # "idle" => EntriesAreSound')
    <3>1. TypeOK' /\ NothingYet' /\ PlanFits'
      BY <1>1, <2>0 DEF TypeOK, NothingYet, PlanFits, LooksAtFields
    <3>2. OrderIsSorted'
      BY <1>1, <2>0 DEF OrderIsSorted
    <3>3. step' # "idle" => EntriesAreSound'
      BY <1>1, <2>0 DEF EntriesAreSound
    <3> QED BY <3>1, <3>2, <3>3
  <2>2. /\ Stored' = Stored /\ (\A p : Candidate(p)' = Candidate(p))
        /\ IdsAreUnique' /\ ContentsAreServed'
    BY <1>1, RowsUntouched DEF IInv, ContentsAreServed
  <2>3. OrderStays'
    BY <1>1, <2>2 DEF IInv, OrderStays
  <2>4. RowsThatStayAreServed'
    <3>1. (\A k : Returned(k)' = Returned(k)) /\ (\A k : LeftOut(k)' = LeftOut(k))
      BY <1>1 DEF Returned, LeftOut, Stays
    <3> QED BY <1>1, <3>1 DEF IInv, RowsThatStayAreServed, Filled
  <2>5. QuietPageIsExact'
    <3>1. Readable' = Readable /\ LooksAtFields' = LooksAtFields /\ (\A s : Entries(s)' = Entries(s))
      BY <1>1, <2>2 DEF Readable, LooksAtFields, Entries
    <3> QED BY <1>1, <2>2, <3>1 DEF IInv, QuietPageIsExact, PageIsExact
  <2> QED
    BY <1>1, <1>3, <2>1, <2>2, <2>3, <2>4, <2>5
    DEF IInv, Paging, OrderIsComplete, WindowIsLoaded, PageSoFar, QuietPageSoFar
<1> QED BY <1>2, <1>3

(* The invariant is inductive: it holds of every query over every table,   *)
(* with any number of writes of others between its statements.             *)
THEOREM QueryInvariance == Spec => []IInv
<1>1. Init => IInv
  BY InitInvariant
<1>2. IInv /\ [Next]_vars => IInv'
  <2> SUFFICES ASSUME IInv, [Next]_vars PROVE IInv'
    OBVIOUS
  <2>1. ASSUME NEW q \in Queries, Begin(q) PROVE IInv'
    BY <2>1, BeginKeeps
  <2>2. CASE AskAllJson
    <3>1. /\ step \in {"asking", "tier2"} /\ step' \in {"tier2", "tier3", "failed"}
          /\ UNCHANGED <<db, query, order, window, page, ghosts>>
      BY <2>2 DEF AskAllJson
    <3> QED BY <3>1, MoveOnKeeps
  <2>3. CASE QueryCandidates \/ QueryPushdown
    BY <2>3, CandidatesKeep
  <2>4. CASE PushdownFails
    <3>1. /\ step \in {"asking", "tier2"} /\ step' \in {"tier2", "tier3", "failed"}
          /\ UNCHANGED <<db, query, order, window, page, ghosts>>
      BY <2>4 DEF PushdownFails
    <3> QED BY <3>1, MoveOnKeeps
  <2>5. CASE ExecuteTier3
    BY <2>5, ExecuteTier3Keeps
  <2>6. CASE LoadWindow
    BY <2>6, LoadWindowKeeps
  <2>7. CASE PassOver
    BY <2>7, PassOverKeeps
  <2>8. CASE SkipUnreadable
    BY <2>8, SkipUnreadableKeeps
  <2>9. CASE CountTowardOffset
    BY <2>9, CountTowardOffsetKeeps
  <2>10. CASE Deliver
    BY <2>10, DeliverKeeps
  <2>11. CASE EndWindow
    BY <2>11, EndWindowKeeps
  <2>12. CASE FinishPage
    BY <2>12, FinishPageKeeps
  <2>13. CASE Return
    BY <2>13, ReturnKeeps
  <2>14. ASSUME NEW p \in Path, NEW t \in Mtimes, NEW w \in Payload, Store(p, t, w) PROVE IInv'
    BY <2>14, StoreKeeps
  <2>15. ASSUME NEW S \in (SUBSET Stored) \ {{}}, DeletePaths(S) PROVE IInv'
    BY <2>15, DeletePathsKeeps
  <2>16. CASE UNCHANGED vars
    BY <2>16, UnchangedKeeps
  <2> QED
    BY <2>1, <2>2, <2>3, <2>4, <2>5, <2>6, <2>7, <2>8, <2>9, <2>10, <2>11, <2>12, <2>13, <2>14,
       <2>15, <2>16 DEF Next
<1> QED BY <1>1, <1>2, PTL DEF Spec

(* A query that fails has met a payload stored while it ran: what was      *)
(* there when it asked was all JSON (namespace_all_json, the pushdown).    *)
THEOREM OldPayloadsFailNoQuery == Spec => []OnlyNewPayloadsFailQueries
<1>1. Init => AllJsonWasAsked
  BY DEF Init, AllJsonWasAsked, OnlyNewPayloadsFailQueries
<1>2. AllJsonWasAsked /\ [Next]_vars => AllJsonWasAsked'
  <2> SUFFICES ASSUME AllJsonWasAsked, [Next]_vars PROVE AllJsonWasAsked'
    OBVIOUS
  <2>1. ASSUME NEW newRows, NEW paths, NEW id, Write(newRows, paths, id),
               \A p \in Path \ paths : newRows[p] = rows[p]
        PROVE  AllJsonWasAsked'
    <3>1. /\ rows' = newRows /\ touched' = touched \cup paths /\ step' = step /\ step # "failed"
      BY <2>1 DEF Write, Running
    <3>2. ASSUME NEW p \in Stored' \ touched'
          PROVE  p \in Stored \ touched /\ rows'[p] = rows[p]
      BY <2>1, <3>1, <3>2 DEF Stored
    <3> QED BY <3>1, <3>2 DEF AllJsonWasAsked, OnlyNewPayloadsFailQueries
  <2>2. ASSUME NEW p \in Path, NEW t \in Mtimes, NEW w \in Payload, Store(p, t, w)
        PROVE  AllJsonWasAsked'
    <3> DEFINE id == IF rows[p] = NoRow THEN lastId + 1 ELSE rows[p].id
               new == [rows EXCEPT ![p] = [id |-> id, mtime |-> t, payload |-> w]]
    <3>1. Write(new, {p}, IF rows[p] = NoRow THEN id ELSE lastId)
      BY <2>2 DEF Store
    <3>2. \A x \in Path \ {p} : new[x] = rows[x]
      OBVIOUS
    <3> QED BY <2>1, <3>1, <3>2
  <2>3. ASSUME NEW S \in (SUBSET Stored) \ {{}}, DeletePaths(S) PROVE AllJsonWasAsked'
    <3> DEFINE new == [x \in Path |-> IF x \in S THEN NoRow ELSE rows[x]]
    <3>1. Write(new, S, lastId)
      BY <2>3 DEF DeletePaths
    <3>2. \A x \in Path \ S : new[x] = rows[x]
      OBVIOUS
    <3> QED BY <2>1, <3>1, <3>2
  <2>4. CASE AskAllJson
    <3>1. step' = "tier2" => \A p \in Stored : rows[p].payload.json
      BY <2>4 DEF AskAllJson
    <3>2. UNCHANGED <<rows, touched>> /\ step' \in {"tier2", "tier3"}
      BY <2>4 DEF AskAllJson, db, ghosts
    <3> QED BY <3>1, <3>2 DEF AllJsonWasAsked, OnlyNewPayloadsFailQueries, Stored
  <2>5. CASE PushdownFails
    <3>1. PICK p \in Stored : ~rows[p].payload.json
      BY <2>5 DEF PushdownFails
    <3>2. p \in touched
      BY <2>5, <3>1 DEF PushdownFails, AllJsonWasAsked
    <3>3. UNCHANGED <<rows, touched>> /\ step' = "failed"
      BY <2>5 DEF PushdownFails, db, ghosts
    <3> QED BY <3>1, <3>2, <3>3 DEF AllJsonWasAsked, OnlyNewPayloadsFailQueries, Stored
  <2>6. ASSUME step' \notin {"tier2", "failed"} PROVE AllJsonWasAsked'
    BY <2>6 DEF AllJsonWasAsked, OnlyNewPayloadsFailQueries
  <2>7. ASSUME NEW q \in Queries, Begin(q) PROVE AllJsonWasAsked'
    BY <2>6, <2>7 DEF Begin, ClassifyQuery
  <2>8. CASE \/ QueryCandidates \/ QueryPushdown \/ ExecuteTier3 \/ LoadWindow \/ EndWindow
             \/ FinishPage \/ Return
    BY <2>6, <2>8 DEF QueryCandidates, QueryPushdown, StartPage, ExecuteTier3, LoadWindow,
       EndWindow, FinishPage, Return
  <2>9. CASE PassOver \/ SkipUnreadable \/ CountTowardOffset \/ Deliver
    <3>1. step = "window" /\ step' = step
      BY <2>9 DEF PassOver, SkipUnreadable, CountTowardOffset, Deliver, Looking, LookAt
    <3> QED BY <2>6, <3>1
  <2>10. CASE UNCHANGED vars
    <3>1. UNCHANGED <<rows, touched, step>>
      BY <2>10 DEF vars, db, ghosts
    <3> QED BY <3>1 DEF AllJsonWasAsked, OnlyNewPayloadsFailQueries, Stored
  <2> QED
    BY <2>2, <2>3, <2>4, <2>5, <2>7, <2>8, <2>9, <2>10 DEF Next
<1>3. AllJsonWasAsked => OnlyNewPayloadsFailQueries
  BY DEF AllJsonWasAsked
<1> QED BY <1>1, <1>2, <1>3, PTL DEF Spec

(* If nobody wrote while it ran, a query returns the reference page:       *)
(* filter, sort, skip and take, whichever tier ran and however its windows *)
(* fell (execute_report, materialize).                                     *)
THEOREM QuietPagesAreExact == Spec => []QuietPageIsExact
<1>1. IInv => QuietPageIsExact
  BY DEF IInv
<1> QED BY <1>1, QueryInvariance, PTL

(* Whatever others write, a page holds entries that were stored during the *)
(* query, each once, in the order of the candidates and within the limit   *)
(* (payloads_for_ids, materialize).                                        *)
THEOREM PagesHoldStoredEntries == Spec => []EntriesWereStored
<1>1. IInv => EntriesWereStored
  BY DEF IInv, EntriesWereStored
<1> QED BY <1>1, QueryInvariance, PTL

(* Rows that come and go hide no entry that stays (materialize).           *)
THEOREM PagesHideNothing == Spec => []RowsThatStayAreServed
<1>1. IInv => RowsThatStayAreServed
  BY DEF IInv
<1> QED BY <1>1, QueryInvariance, PTL
=============================================================================
