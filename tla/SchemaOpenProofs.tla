-------------------------- MODULE SchemaOpenProofs --------------------------
(***************************************************************************)
(* Opening a database is safe for every number of processes and whatever   *)
(* the file is at first: who is open has the current schema, no entry is   *)
(* lost, what is recognized stays so, and the journal mode is kept.        *)
(* First the backfill of version 6: its window expression computes the     *)
(* recurrence that the migration is checked against, for every finite      *)
(* table whose last-use seconds are in range.                              *)
(***************************************************************************)
EXTENDS SchemaOpen, FiniteSetTheorems, WellFoundedInduction, TLAPS

(* A table of version 5: finitely many rows, no id twice, seconds in range. *)
Table(rows) ==
  /\ IsFiniteSet(rows)
  /\ \A r \in rows : {r.id, r.updated, r.accessed} \subseteq Int
  /\ \A q, r \in rows : q.id = r.id => q = r
  /\ InRange(rows)

(* p is the row before r in the order of its namespace.                    *)
Precedes(rows, p, r) ==
  /\ p.ns = r.ns /\ Earlier(p, r)
  /\ \A q \in rows : q.ns = r.ns /\ Earlier(q, r) => q = p \/ Earlier(q, p)

(* What the maximum ranges over, and the maximum.                          *)
Shifted(rows, q) == Second(q) * MicrosPerSecond - Rank(rows, q)
Peak(rows, r) == Max({Shifted(rows, q) : q \in UpTo(rows, r)})

(* Numbers have a least one.                                               *)
LEMMA LeastNumber ==
  ASSUME NEW B \in SUBSET Nat, B # {}
  PROVE  \E m \in B : \A n \in B : m <= n
<1>1. PICK m \in B : \A n \in B : ~(<<n, m>> \in OpToRel(<, Nat))
  BY NatLessThanWellFounded, WFMin
<1>2. ASSUME NEW n \in B PROVE ~(n < m)
  <2>1. <<n, m>> \in Nat \X Nat /\ <<n, m>>[1] = n /\ <<n, m>>[2] = m
    OBVIOUS
  <2>2. ASSUME n < m PROVE <<n, m>> \in OpToRel(<, Nat)
    BY <2>1, <2>2 DEF OpToRel
  <2> QED BY <2>2, <1>1
<1> QED BY <1>2

(* A last-use second in range is an integer whose microseconds are at most *)
(* the limit (migrate_v5_to_v6, out_of_range).                             *)
LEMMA SecondsFit ==
  ASSUME NEW rows, Table(rows), NEW r \in rows
  PROVE  /\ Second(r) \in Nat /\ r.updated \in Int /\ r.id \in Int
         /\ Second(r) * MicrosPerSecond \in Nat
         /\ Second(r) * MicrosPerSecond <= UseLimit
<1>1. Second(r) \in Nat /\ Second(r) <= UseLimit \div MicrosPerSecond
  BY DEF Table, InRange, Second
<1>2. MicrosPerSecond \in Nat \ {0} /\ UseLimit \in Nat
  BY BackfillAssumption
<1>3. \A s, m, l \in Nat : m # 0 /\ s <= l \div m => s * m \in Nat /\ s * m <= l
  <2> SUFFICES ASSUME NEW s \in Nat, NEW m \in Nat, NEW l \in Nat, m # 0, s <= l \div m
               PROVE  s * m \in Nat /\ s * m <= l
    OBVIOUS
  <2>1. l \div m \in Nat /\ (l \div m) * m <= l
    BY Z3
  <2>2. s * m <= (l \div m) * m
    BY <2>1, Z3
  <2>3. s * m \in Nat /\ (l \div m) * m \in Nat
    BY <2>1, Z3
  <2> QED BY <2>1, <2>2, <2>3
<1> QED BY <1>1, <1>2, <1>3 DEF Table

(* ORDER BY s, updated_at, id is a strict total order of the rows.         *)
LEMMA EarlierIsStrictTotal ==
  ASSUME NEW rows, Table(rows), NEW q \in rows, NEW r \in rows, NEW s \in rows
  PROVE  /\ ~Earlier(q, q)
         /\ Earlier(q, r) /\ Earlier(r, s) => Earlier(q, s)
         /\ q = r \/ Earlier(q, r) \/ Earlier(r, q)
<1>1. \A x \in rows : Second(x) \in Nat /\ x.updated \in Int /\ x.id \in Int
  BY SecondsFit
<1> QED BY <1>1 DEF Earlier, Table

(* The rows up to r are some of the table, so a rank is a number.          *)
LEMMA RanksAreNumbers ==
  ASSUME NEW rows, Table(rows), NEW r \in rows
  PROVE  /\ UpTo(rows, r) \in SUBSET rows /\ r \in UpTo(rows, r)
         /\ IsFiniteSet(UpTo(rows, r))
         /\ Rank(rows, r) \in Nat
         /\ Shifted(rows, r) \in Int /\ Shifted(rows, r) <= UseLimit
<1>1. UpTo(rows, r) \in SUBSET rows /\ r \in UpTo(rows, r)
  BY DEF UpTo
<1>2. IsFiniteSet(UpTo(rows, r))
  BY <1>1, FS_Subset DEF Table
<1>3. Rank(rows, r) \in Nat
  BY <1>2, FS_CardinalityType DEF Rank
<1>4. /\ Second(r) * MicrosPerSecond \in Nat
      /\ Second(r) * MicrosPerSecond <= UseLimit
  BY SecondsFit
<1>5. UseLimit \in Nat
  BY BackfillAssumption
<1> DEFINE t == Second(r) * MicrosPerSecond
<1>6. t - Rank(rows, r) \in Int /\ t - Rank(rows, r) <= UseLimit
  <2> HIDE DEF t
  <2> QED BY <1>3, <1>4, <1>5 DEF t
<1> QED BY <1>1, <1>2, <1>3, <1>6 DEF Shifted

(* The running maximum exists: it is one of the values and bounds them all. *)
LEMMA PeakBounds ==
  ASSUME NEW rows, Table(rows), NEW r \in rows
  PROVE  /\ Peak(rows, r) \in Int
         /\ \A q \in UpTo(rows, r) : Shifted(rows, q) <= Peak(rows, r)
         /\ \E q \in UpTo(rows, r) : Peak(rows, r) = Shifted(rows, q)
<1> DEFINE V == {Shifted(rows, q) : q \in UpTo(rows, r)}
           B == {n \in Nat : \E v \in V : n = UseLimit - v}
<1>1. \A v \in V : v \in Int /\ v <= UseLimit
  BY RanksAreNumbers
<1>2. UseLimit \in Nat
  BY BackfillAssumption
<1>3. Shifted(rows, r) \in V
  BY RanksAreNumbers
<1> HIDE DEF V
<1>4. B \subseteq Nat /\ B # {}
  <2>1. UseLimit - Shifted(rows, r) \in B
    BY <1>1, <1>2, <1>3
  <2> QED BY <2>1
<1>6. PICK m \in B : \A n \in B : m <= n
  BY <1>4, LeastNumber
<1>7. PICK top \in V : m = UseLimit - top
  BY <1>6
<1>8. \A v \in V : v <= top
  <2> SUFFICES ASSUME NEW v \in V PROVE v <= top
    OBVIOUS
  <2>1. UseLimit - v \in B
    BY <1>1, <1>2
  <2> QED BY <2>1, <1>1, <1>2, <1>6, <1>7
<1>9. Max(V) \in V /\ \A v \in V : v <= Max(V)
  BY <1>1, <1>7, <1>8 DEF Max
<1>10. Peak(rows, r) \in V /\ \A v \in V : v <= Peak(rows, r)
  BY <1>9 DEF Peak, V
<1> QED BY <1>1, <1>10 DEF V

(* run.rn + run.m                                                          *)
LEMMA BackfilledIsRankAndPeak ==
  ASSUME NEW rows, NEW r
  PROVE  Backfilled(rows, r) = Rank(rows, r) + Peak(rows, r)
  BY DEF Backfilled, Peak, Shifted

(* Earlier rows of a namespace have smaller ranks and no larger maxima.    *)
LEMMA RanksFollowTheOrder ==
  ASSUME NEW rows, Table(rows), NEW q \in rows, NEW r \in rows,
         q.ns = r.ns, Earlier(q, r)
  PROVE  /\ UpTo(rows, q) \subseteq UpTo(rows, r)
         /\ Rank(rows, q) < Rank(rows, r)
         /\ Peak(rows, q) <= Peak(rows, r)
<1>1. UpTo(rows, q) \subseteq UpTo(rows, r)
  BY EarlierIsStrictTotal DEF UpTo
<1>2. r \notin UpTo(rows, q)
  <2>1. q # r /\ ~Earlier(r, q)
    BY EarlierIsStrictTotal
  <2> QED BY <2>1 DEF UpTo
<1>3. r \in UpTo(rows, r) /\ IsFiniteSet(UpTo(rows, r))
  BY RanksAreNumbers
<1>4. Rank(rows, q) <= Rank(rows, r) /\ Rank(rows, q) # Rank(rows, r)
  BY <1>1, <1>2, <1>3, FS_Subset DEF Rank
<1>5. Rank(rows, q) \in Nat /\ Rank(rows, r) \in Nat
  BY RanksAreNumbers
<1>6. PICK x \in UpTo(rows, q) : Peak(rows, q) = Shifted(rows, x)
  BY PeakBounds
<1>7. Shifted(rows, x) <= Peak(rows, r)
  BY <1>1, PeakBounds
<1> QED BY <1>1, <1>4, <1>5, <1>6, <1>7

(* The row after p has the next rank, and one value more to range over.    *)
LEMMA NextRank ==
  ASSUME NEW rows, Table(rows), NEW p \in rows, NEW r \in rows, Precedes(rows, p, r)
  PROVE  /\ UpTo(rows, r) = UpTo(rows, p) \cup {r}
         /\ Rank(rows, r) = Rank(rows, p) + 1
<1>1. UpTo(rows, r) = UpTo(rows, p) \cup {r}
  <2>1. UpTo(rows, p) \subseteq UpTo(rows, r)
    BY RanksFollowTheOrder DEF Precedes
  <2>2. ASSUME NEW q \in UpTo(rows, r), q # r PROVE q \in UpTo(rows, p)
    BY <2>2 DEF UpTo, Precedes
  <2>3. r \in UpTo(rows, r)
    BY RanksAreNumbers
  <2> QED BY <2>1, <2>2, <2>3
<1>2. r \notin UpTo(rows, p)
  <2>1. Earlier(p, r)
    BY DEF Precedes
  <2>2. p # r /\ ~Earlier(r, p)
    BY <2>1, EarlierIsStrictTotal
  <2> QED BY <2>2 DEF UpTo
<1>3. IsFiniteSet(UpTo(rows, p))
  BY RanksAreNumbers
<1> QED BY <1>1, <1>2, <1>3, FS_AddElement DEF Rank

(* The closed form satisfies the recurrence of validate_use_order: the     *)
(* first row of a namespace takes the microseconds of its second, and each *)
(* next row those, or one more than the value before if that is larger.    *)
THEOREM BackfillFollowsTheRule ==
  ASSUME NEW rows, Table(rows), NEW r \in rows
  PROVE  /\ (\A q \in rows : q.ns = r.ns => ~Earlier(q, r))
              => Backfilled(rows, r) = Second(r) * MicrosPerSecond
         /\ \A p \in rows : Precedes(rows, p, r) =>
              Backfilled(rows, r) =
                IF Second(r) * MicrosPerSecond > Backfilled(rows, p) + 1
                THEN Second(r) * MicrosPerSecond ELSE Backfilled(rows, p) + 1
<1> DEFINE t == Second(r) * MicrosPerSecond
<1>1. t \in Nat /\ Rank(rows, r) \in Nat /\ Peak(rows, r) \in Int
  BY SecondsFit, RanksAreNumbers, PeakBounds
<1>2. Shifted(rows, r) = t - Rank(rows, r)
  BY DEF Shifted
<1>3. Backfilled(rows, r) = Rank(rows, r) + Peak(rows, r)
  BY BackfilledIsRankAndPeak
<1>4. ASSUME \A q \in rows : q.ns = r.ns => ~Earlier(q, r)
      PROVE  Backfilled(rows, r) = t
  <2>1. UpTo(rows, r) \subseteq {r}
    BY <1>4 DEF UpTo
  <2>2. Peak(rows, r) = Shifted(rows, r)
    BY <2>1, PeakBounds
  <2> HIDE DEF t
  <2> QED BY <1>1, <1>2, <1>3, <2>2
<1>5. ASSUME NEW p \in rows, Precedes(rows, p, r)
      PROVE  Backfilled(rows, r) =
               IF t > Backfilled(rows, p) + 1 THEN t ELSE Backfilled(rows, p) + 1
  <2>1. UpTo(rows, r) = UpTo(rows, p) \cup {r} /\ Rank(rows, r) = Rank(rows, p) + 1
    BY <1>5, NextRank
  <2>2. Rank(rows, p) \in Nat /\ Peak(rows, p) \in Int
    BY RanksAreNumbers, PeakBounds
  <2>3. Backfilled(rows, p) = Rank(rows, p) + Peak(rows, p)
    BY BackfilledIsRankAndPeak
  <2>4. Peak(rows, p) <= Peak(rows, r)
    BY <1>5, RanksFollowTheOrder DEF Precedes
  <2>5. Shifted(rows, r) <= Peak(rows, r)
    BY RanksAreNumbers, PeakBounds
  <2>6. Peak(rows, r) <= Peak(rows, p) \/ Peak(rows, r) = Shifted(rows, r)
    <3>1. PICK x \in UpTo(rows, r) : Peak(rows, r) = Shifted(rows, x)
      BY PeakBounds
    <3>2. CASE x = r
      BY <3>1, <3>2
    <3>3. CASE x # r
      BY <2>1, <3>1, <3>3, PeakBounds
    <3> QED BY <3>2, <3>3
  <2> HIDE DEF t
  <2> QED BY <1>1, <1>2, <1>3, <2>1, <2>2, <2>3, <2>4, <2>5, <2>6
<1> QED BY <1>4, <1>5

(* The backfill keeps the order of the last uses, its values never tie     *)
(* within a namespace, and none is below the second it stands for.         *)
THEOREM BackfillKeepsTheOrder ==
  ASSUME NEW rows, Table(rows)
  PROVE  /\ \A q, r \in rows : q.ns = r.ns /\ Earlier(q, r)
              => Backfilled(rows, q) < Backfilled(rows, r)
         /\ \A q, r \in rows : q.ns = r.ns /\ q # r
              => Backfilled(rows, q) # Backfilled(rows, r)
         /\ \A r \in rows : /\ Backfilled(rows, r) \in Nat
                            /\ Backfilled(rows, r) >= Second(r) * MicrosPerSecond
<1>1. ASSUME NEW r \in rows
      PROVE  /\ Rank(rows, r) \in Nat /\ Peak(rows, r) \in Int
             /\ Backfilled(rows, r) = Rank(rows, r) + Peak(rows, r)
  BY RanksAreNumbers, PeakBounds, BackfilledIsRankAndPeak
<1>2. ASSUME NEW q \in rows, NEW r \in rows, q.ns = r.ns, Earlier(q, r)
      PROVE  Backfilled(rows, q) < Backfilled(rows, r)
  <2>1. Rank(rows, q) < Rank(rows, r) /\ Peak(rows, q) <= Peak(rows, r)
    BY <1>2, RanksFollowTheOrder
  <2> QED BY <1>1, <2>1
<1>3. ASSUME NEW q \in rows, NEW r \in rows, q.ns = r.ns, q # r
      PROVE  Backfilled(rows, q) # Backfilled(rows, r)
  <2>1. CASE Earlier(q, r)
    BY <1>1, <1>2, <1>3, <2>1
  <2>2. CASE Earlier(r, q)
    BY <1>1, <1>2, <1>3, <2>2
  <2> QED BY <1>3, <2>1, <2>2, EarlierIsStrictTotal
<1>4. ASSUME NEW r \in rows
      PROVE  /\ Backfilled(rows, r) \in Nat
             /\ Backfilled(rows, r) >= Second(r) * MicrosPerSecond
  <2> DEFINE t == Second(r) * MicrosPerSecond
  <2>1. t \in Nat
    BY SecondsFit
  <2>2. t - Rank(rows, r) <= Peak(rows, r)
    BY RanksAreNumbers, PeakBounds DEF Shifted
  <2> HIDE DEF t
  <2>3. Backfilled(rows, r) \in Nat /\ Backfilled(rows, r) >= t
    BY <1>1, <2>1, <2>2
  <2> QED BY <2>3 DEF t
<1> QED BY <1>2, <1>3, <1>4

(* A row that is not the first of its namespace has a row before it.       *)
LEMMA PredecessorExists ==
  ASSUME NEW rows, Table(rows), NEW r \in rows,
         NEW x \in rows, x.ns = r.ns, Earlier(x, r)
  PROVE  \E p \in rows : Precedes(rows, p, r)
<1> DEFINE Before(q) == q.ns = r.ns /\ Earlier(q, r)
           B == {n \in Nat : \E q \in rows : Before(q) /\ n = Rank(rows, r) - Rank(rows, q)}
<1>1. ASSUME NEW q \in rows, Before(q)
      PROVE  /\ Rank(rows, q) \in Nat /\ Rank(rows, r) \in Nat
             /\ Rank(rows, r) - Rank(rows, q) \in B
  <2>1. Rank(rows, q) < Rank(rows, r)
    BY <1>1, RanksFollowTheOrder
  <2>2. Rank(rows, q) \in Nat /\ Rank(rows, r) \in Nat
    BY RanksAreNumbers
  <2> QED BY <1>1, <2>1, <2>2
<1>2. B \subseteq Nat /\ B # {}
  BY <1>1
<1>3. PICK m \in B : \A n \in B : m <= n
  BY <1>2, LeastNumber
<1>5. PICK p \in rows : Before(p) /\ m = Rank(rows, r) - Rank(rows, p)
  BY <1>3
<1> HIDE DEF B
<1>6. ASSUME NEW q \in rows, Before(q), q # p PROVE Earlier(q, p)
  <2>1. ASSUME Earlier(p, q) PROVE FALSE
    <3>1. Rank(rows, p) < Rank(rows, q)
      BY <1>5, <1>6, <2>1, RanksFollowTheOrder
    <3>2. Rank(rows, r) - Rank(rows, q) \in B
      BY <1>1, <1>6
    <3>3. Rank(rows, r) - Rank(rows, q) < m /\ Rank(rows, r) - Rank(rows, q) \in Int /\ m \in Int
      BY <1>1, <1>5, <1>6, <3>1
    <3> QED BY <1>3, <3>2, <3>3
  <2> QED BY <1>6, <2>1, EarlierIsStrictTotal
<1>7. Precedes(rows, p, r)
  BY <1>5, <1>6 DEF Precedes
<1> QED BY <1>7

(* Ranks begin at one, and a larger rank follows another row.              *)
LEMMA FirstRank ==
  ASSUME NEW rows, Table(rows), NEW r \in rows
  PROVE  /\ Rank(rows, r) >= 1
         /\ Rank(rows, r) = 1 <=> \A q \in rows : q.ns = r.ns => ~Earlier(q, r)
<1>1. r \in UpTo(rows, r) /\ IsFiniteSet(UpTo(rows, r)) /\ Rank(rows, r) \in Nat
  BY RanksAreNumbers
<1>2. Rank(rows, r) # 0
  BY <1>1, FS_EmptySet DEF Rank
<1>3. ASSUME \A q \in rows : q.ns = r.ns => ~Earlier(q, r) PROVE Rank(rows, r) = 1
  <2>1. UpTo(rows, r) = {r}
    BY <1>1, <1>3 DEF UpTo
  <2> QED BY <2>1, FS_Singleton DEF Rank
<1>4. ASSUME NEW q \in rows, q.ns = r.ns, Earlier(q, r) PROVE Rank(rows, r) # 1
  <2>1. Rank(rows, q) < Rank(rows, r)
    BY <1>4, RanksFollowTheOrder
  <2>2. q \in UpTo(rows, q) /\ IsFiniteSet(UpTo(rows, q)) /\ Rank(rows, q) \in Nat
    BY RanksAreNumbers
  <2>3. Rank(rows, q) # 0
    BY <2>2, FS_EmptySet DEF Rank
  <2> QED BY <1>1, <2>1, <2>2, <2>3
<1> QED BY <1>1, <1>2, <1>3, <1>4

(* The rows up to r have the ranks 1 to that of r, each once.              *)
LEMMA RanksAreConsecutive ==
  ASSUME NEW rows, Table(rows), NEW r \in rows, NEW i \in 1..Rank(rows, r)
  PROVE  \E q \in UpTo(rows, r) : Rank(rows, q) = i
<1> DEFINE n == Rank(rows, r)
           Taken(k) == \E q \in UpTo(rows, r) : Rank(rows, q) = n - k
           B == {k \in Nat : k < n /\ ~Taken(k)}
<1>1. n \in Nat
  BY RanksAreNumbers
<1>2. Taken(0)
  BY <1>1, RanksAreNumbers
<1>3. ASSUME NEW k \in Nat, k + 1 < n, Taken(k) PROVE Taken(k + 1)
  <2>1. PICK q \in UpTo(rows, r) : Rank(rows, q) = n - k
    BY <1>3
  <2>2. q \in rows /\ UpTo(rows, r) \subseteq rows
    BY DEF UpTo
  <2>3. Rank(rows, q) # 1
    <3> HIDE DEF n
    <3> QED BY <1>1, <1>3, <2>1
  <2>4. PICK p \in rows : Precedes(rows, p, q)
    BY <2>2, <2>3, FirstRank, PredecessorExists
  <2>5. Rank(rows, q) = Rank(rows, p) + 1 /\ Rank(rows, p) \in Nat
    BY <2>2, <2>4, NextRank, RanksAreNumbers
  <2>6. p \in UpTo(rows, q) /\ UpTo(rows, q) \subseteq UpTo(rows, r)
    <3>1. q = r \/ (q.ns = r.ns /\ Earlier(q, r))
      BY DEF UpTo
    <3>2. UpTo(rows, q) \subseteq UpTo(rows, r)
      BY <2>2, <3>1, RanksFollowTheOrder
    <3>3. p \in UpTo(rows, q)
      BY <2>4 DEF Precedes, UpTo
    <3> QED BY <3>2, <3>3
  <2>7. Rank(rows, p) = n - (k + 1)
    <3> HIDE DEF n
    <3> QED BY <1>1, <2>1, <2>5
  <2> QED BY <2>6, <2>7
<1>4. B = {}
  <2> SUFFICES ASSUME B # {} PROVE FALSE
    OBVIOUS
  <2>1. PICK m \in B : \A k \in B : m <= k
    BY LeastNumber
  <2>2. m \in Nat /\ m < n /\ ~Taken(m)
    BY <2>1
  <2>3. m # 0
    BY <1>2, <2>2
  <2> HIDE DEF Taken, n
  <2>4. m - 1 \in Nat /\ (m - 1) + 1 = m /\ m - 1 < n
    BY <1>1, <2>2, <2>3
  <2>5. m - 1 \notin B
    BY <2>1, <2>2, <2>4
  <2>6. Taken(m - 1)
    BY <2>4, <2>5
  <2> QED BY <1>3, <2>2, <2>4, <2>6
<1>5. n - i \in Nat /\ n - i < n /\ n - (n - i) = i
  <2> HIDE DEF n
  <2> QED BY <1>1 DEF n
<1>6. Taken(n - i)
  <2> HIDE DEF Taken, n
  <2> QED BY <1>4, <1>5
<1> QED BY <1>5, <1>6

LEMMA RowOfRank ==
  ASSUME NEW rows, Table(rows), NEW r \in rows, NEW i \in 1..Rank(rows, r)
  PROVE  /\ Ranked(rows, r, i) \in UpTo(rows, r) /\ Ranked(rows, r, i) \in rows
         /\ Rank(rows, Ranked(rows, r, i)) = i
         /\ \A q \in UpTo(rows, r) : Rank(rows, q) = i => q = Ranked(rows, r, i)
<1>1. /\ Ranked(rows, r, i) \in UpTo(rows, r)
      /\ Rank(rows, Ranked(rows, r, i)) = i
  BY RanksAreConsecutive DEF Ranked
<1>2. UpTo(rows, r) \subseteq rows /\ \A q, s \in UpTo(rows, r) : q.ns = s.ns
  BY DEF UpTo
<1>3. ASSUME NEW q \in UpTo(rows, r), NEW s \in UpTo(rows, r), Rank(rows, q) = Rank(rows, s)
      PROVE  q = s
  <2>1. q \in rows /\ s \in rows /\ q.ns = s.ns
    BY <1>2
  <2>2. Rank(rows, q) \in Nat
    BY <2>1, RanksAreNumbers
  <2>3. ~Earlier(q, s) /\ ~Earlier(s, q)
    BY <1>3, <2>1, <2>2, RanksFollowTheOrder
  <2> QED BY <2>1, <2>3, EarlierIsStrictTotal
<1> QED BY <1>1, <1>2, <1>3

LEMMA MaxOfTwo ==
  ASSUME NEW a \in Int, NEW b \in Int
  PROVE  Max({a, b}) = IF a > b THEN a ELSE b
BY DEF Max

(* The recurrence of validate_use_order, as a function of the rank.        *)
Micros(rows, r, i) == Second(Ranked(rows, r, i)) * MicrosPerSecond

Follows(rows, r, v) ==
  v = [i \in 1..Rank(rows, r) |->
         IF i = 1 THEN Micros(rows, r, 1) ELSE Max({Micros(rows, r, i), v[i - 1] + 1})]

LEMMA ExpectedFollows ==
  ASSUME NEW rows, NEW r
  PROVE  Expected(rows, r) = (CHOOSE v : Follows(rows, r, v))[Rank(rows, r)]
BY DEF Expected, Follows, Micros

(* The backfill, by rank, follows the recurrence.                          *)
LEMMA BackfillByRank ==
  ASSUME NEW rows, Table(rows), NEW r \in rows
  PROVE  Follows(rows, r, [i \in 1..Rank(rows, r) |-> Backfilled(rows, Ranked(rows, r, i))])
<1> DEFINE n == Rank(rows, r)
           at(i) == Ranked(rows, r, i)
           v == [i \in 1..n |-> Backfilled(rows, at(i))]
           t(i) == Micros(rows, r, i)
<1>1. n \in Nat
  BY RanksAreNumbers
<1>2. ASSUME NEW i \in 1..n
      PROVE  v[i] = IF i = 1 THEN t(1) ELSE Max({t(i), v[i - 1] + 1})
  <2>1. /\ at(i) \in UpTo(rows, r) /\ at(i) \in rows /\ Rank(rows, at(i)) = i
    BY RowOfRank
  <2>2. v[i] = Backfilled(rows, at(i)) /\ t(i) = Second(at(i)) * MicrosPerSecond
    BY DEF Micros
  <2>3. CASE i = 1
    <3>1. \A q \in rows : q.ns = at(i).ns => ~Earlier(q, at(i))
      BY <2>1, <2>3, FirstRank
    <3> HIDE DEF at
    <3>2. Backfilled(rows, at(i)) = Second(at(i)) * MicrosPerSecond
      BY <2>1, <3>1, BackfillFollowsTheRule
    <3> HIDE DEF t, v
    <3> QED BY <2>2, <2>3, <3>2
  <2>4. CASE i # 1
    <3>1. i - 1 \in 1..n /\ i \in Nat
      <4> HIDE DEF n
      <4> QED BY <1>1, <2>4
    <3>2. PICK p \in rows : Precedes(rows, p, at(i))
      BY <2>1, <2>4, FirstRank, PredecessorExists
    <3>3. Rank(rows, at(i)) = Rank(rows, p) + 1 /\ Rank(rows, p) \in Nat
      BY <2>1, <3>2, NextRank, RanksAreNumbers
    <3>4. Rank(rows, p) = i - 1
      BY <2>1, <3>1, <3>3
    <3>5. p \in UpTo(rows, r)
      <4>1. p.ns = at(i).ns /\ Earlier(p, at(i))
        BY <3>2 DEF Precedes
      <4>2. p \in UpTo(rows, at(i))
        BY <4>1 DEF UpTo
      <4>3. at(i) = r \/ (at(i).ns = r.ns /\ Earlier(at(i), r))
        BY <2>1 DEF UpTo
      <4>4. UpTo(rows, at(i)) \subseteq UpTo(rows, r)
        BY <2>1, <4>3, RanksFollowTheOrder
      <4> QED BY <4>2, <4>4
    <3>6. p = at(i - 1)
      BY <3>1, <3>4, <3>5, RowOfRank
    <3>7. v[i - 1] = Backfilled(rows, p)
      BY <3>1, <3>6
    <3> HIDE DEF v
    <3>8. Backfilled(rows, at(i)) =
            IF Second(at(i)) * MicrosPerSecond > Backfilled(rows, p) + 1
            THEN Second(at(i)) * MicrosPerSecond ELSE Backfilled(rows, p) + 1
      BY <2>1, <3>2, BackfillFollowsTheRule
    <3>9. Second(at(i)) * MicrosPerSecond \in Int /\ Backfilled(rows, p) + 1 \in Int
      BY <2>1, SecondsFit, BackfillKeepsTheOrder
    <3> HIDE DEF t
    <3>10. t(i) \in Int /\ v[i - 1] + 1 \in Int
      BY <2>2, <3>7, <3>9
    <3>11. Max({t(i), v[i - 1] + 1}) = IF t(i) > v[i - 1] + 1 THEN t(i) ELSE v[i - 1] + 1
      BY <3>10, MaxOfTwo
    <3> QED BY <2>2, <2>4, <3>7, <3>8, <3>11
  <2> QED BY <2>3, <2>4
<1>3. v = [i \in 1..n |-> v[i]]
  OBVIOUS
<1> HIDE DEF v
<1>4. v = [i \in 1..n |-> IF i = 1 THEN t(1) ELSE Max({t(i), v[i - 1] + 1})]
  BY <1>2, <1>3
<1> QED BY <1>4 DEF Follows, v

(* What follows the recurrence is determined.                              *)
LEMMA RuleDetermines ==
  ASSUME NEW rows, NEW r, Rank(rows, r) \in Nat,
         NEW v, Follows(rows, r, v), NEW w, Follows(rows, r, w), NEW i \in 1..Rank(rows, r)
  PROVE  v[i] = w[i]
<1> DEFINE n == Rank(rows, r)
           B == {k \in Nat : k \in 1..n /\ v[k] # w[k]}
<1>1. ASSUME NEW k \in 1..n
      PROVE  /\ v[k] = IF k = 1 THEN Micros(rows, r, 1) ELSE Max({Micros(rows, r, k), v[k - 1] + 1})
             /\ w[k] = IF k = 1 THEN Micros(rows, r, 1) ELSE Max({Micros(rows, r, k), w[k - 1] + 1})
  BY DEF Follows
<1>2. B = {}
  <2> SUFFICES ASSUME B # {} PROVE FALSE
    OBVIOUS
  <2>1. PICK m \in B : \A k \in B : m <= k
    BY LeastNumber
  <2>2. m \in 1..n /\ v[m] # w[m]
    BY <2>1
  <2>3. m # 1
    BY <1>1, <2>2
  <2>4. /\ v[m] = Max({Micros(rows, r, m), v[m - 1] + 1})
        /\ w[m] = Max({Micros(rows, r, m), w[m - 1] + 1})
    BY <1>1, <2>2, <2>3
  <2> HIDE DEF n
  <2>5. m - 1 \in Nat /\ m \in Nat /\ m - 1 \in 1..n /\ ~(m <= m - 1)
    BY <2>2, <2>3 DEF n
  <2>6. v[m - 1] = w[m - 1]
    BY <2>1, <2>5
  <2> QED BY <2>2, <2>4, <2>6
<1> QED BY <1>2

(* The closed form is what validate_use_order expects, for every table.    *)
THEOREM BackfillIsExpected ==
  ASSUME NEW rows, Table(rows), NEW r \in rows
  PROVE  Expected(rows, r) = Backfilled(rows, r)
<1> DEFINE n == Rank(rows, r)
           w == [i \in 1..n |-> Backfilled(rows, Ranked(rows, r, i))]
           v == CHOOSE v : Follows(rows, r, v)
<1>1. n \in Nat /\ n \in 1..n
  <2>1. n \in Nat /\ n >= 1
    BY RanksAreNumbers, FirstRank
  <2> HIDE DEF n
  <2> QED BY <2>1
<1>2. Follows(rows, r, w)
  BY BackfillByRank
<1>3. w[n] = Backfilled(rows, r)
  <2>1. r \in UpTo(rows, r)
    BY RanksAreNumbers
  <2>2. Ranked(rows, r, n) = r
    BY <1>1, <2>1, RowOfRank
  <2> QED BY <1>1, <2>2
<1> HIDE DEF w
<1>4. Follows(rows, r, v)
  BY <1>2
<1>5. v[n] = w[n]
  BY <1>1, <1>2, <1>4, RuleDetermines
<1>6. Expected(rows, r) = v[n]
  BY ExpectedFollows
<1> QED BY <1>3, <1>5, <1>6

-----------------------------------------------------------------------------
Fields == {"version", "shape", "rows", "sequence", "journal"}

LEMMA FileInit == Init => FileInv
<1> SUFFICES ASSUME Init PROVE FileInv
  OBVIOUS
<1>1. db \in Databases /\ origin = db /\ written = {}
  BY DEF Init
<1>2. \A p \in Process : proc[p] = Closed
  BY DEF Init
<1>3. proc \in [Process -> {proc[p] : p \in Process}]
  BY DEF Init
<1>4. FieldsOK
  BY <1>1, <1>2, <1>3, SchemaAssumption DEF FieldsOK, Closed, IsDatabase
<1>5. LockOK /\ CreatedOK /\ OpenMeansCurrent
  BY <1>1, <1>2 DEF LockOK, CreatedOK, OpenMeansCurrent, Closed
<1>6. EntriesSurvive /\ StaysRecognized
  BY <1>1 DEF EntriesSurvive, StaysRecognized
<1>7. JournalIsPreserved
  BY <1>1 DEF JournalIsPreserved
<1> QED BY <1>4, <1>5, <1>6, <1>7 DEF FileInv

(* One process moves on.                                                   *)
LEMMA BecomeMovesOne ==
  ASSUME FieldsOK, NEW p \in Process, NEW state, Become(p, state)
  PROVE  /\ proc'[p] = state
         /\ \A q \in Process : q # p => proc'[q] = proc[q]
         /\ proc' \in [Process -> {proc'[q] : q \in Process}]
<1>1. proc \in [Process -> {proc[q] : q \in Process}]
  BY DEF FieldsOK
<1>2. proc' = [proc EXCEPT ![p] = state]
  BY DEF Become
<1>3. proc'[p] = state /\ \A q \in Process : q # p => proc'[q] = proc[q]
  BY <1>1, <1>2
<1>4. proc' = [q \in Process |-> proc'[q]]
  BY <1>1, <1>2
<1>5. proc' \in [Process -> {proc'[q] : q \in Process}]
  BY <1>4
<1> QED BY <1>3, <1>5

(* A step that leaves the file alone keeps the invariant if the state it   *)
(* leads to claims no more than the file bears out.                        *)
LEMMA FileUntouched ==
  ASSUME FileInv, UNCHANGED <<db, origin, written>>,
         NEW p \in Process, NEW state, Become(p, state),
         state.step \in {"read", "migrating", "configuring"} => state.request \in Requests,
         state.step = "migrating" =>
           /\ DOMAIN state.work = Fields /\ state.work.shape \in 0..Current
           /\ state.start = db /\ state.work.journal = db.journal
           /\ Classify(db) \in 0..(Current - 1)
           /\ \A q \in Process : q # p => proc[q].step # "migrating",
         state.step = "configuring" => (state.created => origin.shape = 0),
         state.step \in {"configuring", "open", "reading"} => Classify(db) = Current
  PROVE  FileInv'
<1>1. /\ proc'[p] = state
      /\ \A q \in Process : q # p => proc'[q] = proc[q]
      /\ proc' \in [Process -> {proc'[q] : q \in Process}]
  BY BecomeMovesOne DEF FileInv
<1>2. db' = db /\ origin' = origin /\ written' = written
  OBVIOUS
<1>3. FieldsOK'
  BY <1>1, <1>2 DEF FileInv, FieldsOK, Fields
<1>4. Classify(db)' = Classify(db)
  BY <1>2 DEF Classify
<1>5. LockOK'
  BY <1>1, <1>2, <1>4 DEF FileInv, LockOK
<1>6. CreatedOK'
  BY <1>1, <1>2 DEF FileInv, CreatedOK
<1>7. OpenMeansCurrent'
  BY <1>1, <1>2, <1>4 DEF FileInv, OpenMeansCurrent
<1>8. EntriesSurvive' /\ JournalIsPreserved'
  BY <1>2 DEF FileInv, EntriesSurvive, JournalIsPreserved, Logical
<1>9. StaysRecognized'
  BY <1>2 DEF FileInv, StaysRecognized, Classify
<1> QED BY <1>3, <1>5, <1>6, <1>7, <1>8, <1>9 DEF FileInv

(* A step of a migration leads from a known shape to a known shape, and    *)
(* has no way to the journal mode.                                         *)
LEMMA StepsStayKnown ==
  ASSUME NEW d, DOMAIN d = Fields, d.shape \in 0..(Current - 1)
  PROVE  /\ DOMAIN StepOf(d) = Fields
         /\ StepOf(d).shape \in 0..Current
         /\ StepOf(d).journal = d.journal
<1>1. CASE d.shape = 0
  BY <1>1 DEF StepOf, CreateFresh, Fields, Current
<1>2. CASE d.shape = 1
  BY <1>2 DEF StepOf, V1ToV2, Changed, Fields, Current
<1>3. CASE d.shape \in {2, 3}
  BY <1>3 DEF StepOf, Fields, Current
<1>4. CASE d.shape = 4
  BY <1>4 DEF StepOf, V4ToV5, Changed, Fields, Current
<1>5. CASE d.shape = 5
  BY <1>5 DEF StepOf, V5ToV6, Changed, Fields, Current
<1> QED BY <1>1, <1>2, <1>3, <1>4, <1>5 DEF Current

LEMMA ReadVersionStep ==
  ASSUME FileInv, NEW p \in Process, NEW request \in Requests, ReadVersion(p, request)
  PROVE  FileInv'
<1> DEFINE state == [step |-> "read", seen |-> db.version, request |-> request]
<1>1. Become(p, state) /\ UNCHANGED <<db, origin, written>>
  BY DEF ReadVersion
<1>2. state.step = "read" /\ state.request \in Requests
  OBVIOUS
<1> HIDE DEF state
<1> QED BY <1>1, <1>2, FileUntouched

(* The version was read before, the schema is read now.                    *)
LEMMA ValidateCurrentStep ==
  ASSUME FileInv, NEW p \in Process, ValidateCurrent(p)
  PROVE  FileInv'
<1> DEFINE state == Configuring(proc[p].request, FALSE)
<1>1. Become(p, state) /\ UNCHANGED <<db, origin, written>> /\ Classify(db) = Current
  BY DEF ValidateCurrent
<1>2. proc[p].step = "read" => proc[p].request \in Requests
  BY DEF FileInv, FieldsOK
<1>3. state.step = "configuring" /\ state.created = FALSE /\ state.request \in Requests
  BY <1>2 DEF Configuring, ValidateCurrent
<1> HIDE DEF state
<1> QED BY <1>1, <1>3, FileUntouched

(* Under the write lock the file is what the migration starts from.        *)
LEMMA BeginMigrationStep ==
  ASSUME FileInv, NEW p \in Process, BeginMigration(p)
  PROVE  FileInv'
<1>1. /\ UNCHANGED <<db, origin, written>> /\ WriteLockFree
      /\ proc[p].request \in Requests
  BY DEF BeginMigration, FileInv, FieldsOK
<1>2. CASE Classify(db) = Current /\ Become(p, Configuring(proc[p].request, FALSE))
  <2> DEFINE state == Configuring(proc[p].request, FALSE)
  <2>1. /\ state.step = "configuring" /\ state.created = FALSE
        /\ state.request = proc[p].request /\ Become(p, state)
    BY <1>2 DEF Configuring
  <2> HIDE DEF state
  <2> QED BY <1>1, <1>2, <2>1, FileUntouched
<1>3. CASE /\ Classify(db) \in 0..(Current - 1)
           /\ Become(p, Migrating(proc[p].seen, proc[p].request, db, db))
  <2> DEFINE state == Migrating(proc[p].seen, proc[p].request, db, db)
  <2>1. /\ state.step = "migrating" /\ state.start = db /\ state.work = db
        /\ state.request = proc[p].request /\ Become(p, state)
    BY <1>3 DEF Migrating
  <2>2. \A q \in Process : q # p => proc[q].step # "migrating"
    BY <1>1 DEF WriteLockFree
  <2>3. db.shape \in 0..Current /\ DOMAIN db = Fields
    BY <1>3 DEF FileInv, FieldsOK, Fields, Classify, Current, Foreign
  <2> HIDE DEF state
  <2> QED BY <1>1, <1>3, <2>1, <2>2, <2>3, FileUntouched
<1> QED BY <1>2, <1>3 DEF BeginMigration

LEMMA MigrateStepStep ==
  ASSUME FileInv, NEW p \in Process, MigrateStep(p)
  PROVE  FileInv'
<1> DEFINE work == StepOf(proc[p].work)
           state == Migrating(proc[p].seen, proc[p].request, proc[p].start, work)
<1>1. /\ proc[p].step = "migrating" /\ proc[p].work.shape < Current
      /\ Become(p, state) /\ UNCHANGED <<db, origin, written>>
  BY DEF MigrateStep, Working
<1>2. /\ DOMAIN proc[p].work = Fields
      /\ proc[p].work.shape \in 0..(Current - 1)
  BY <1>1 DEF FileInv, FieldsOK, Fields, Current
<1>3. /\ DOMAIN work = Fields /\ work.shape \in 0..Current
      /\ work.journal = proc[p].work.journal
  BY <1>2, StepsStayKnown
<1> HIDE DEF work
<1>4. /\ state.step = "migrating" /\ state.start = proc[p].start /\ state.work = work
      /\ state.request = proc[p].request
  BY DEF Migrating
<1> HIDE DEF state
<1>5. /\ proc[p].start = db /\ proc[p].work.journal = db.journal
      /\ Classify(db) \in 0..(Current - 1)
      /\ \A q \in Process : q # p => proc[q].step # "migrating"
      /\ proc[p].request \in Requests
  BY <1>1 DEF FileInv, LockOK, FieldsOK
<1> QED BY <1>1, <1>3, <1>4, <1>5, FileUntouched

LEMMA WriteVersionStep ==
  ASSUME FileInv, NEW p \in Process, WriteVersion(p)
  PROVE  FileInv'
<1> DEFINE work == [proc[p].work EXCEPT !.version = Current]
           state == Migrating(proc[p].seen, proc[p].request, proc[p].start, work)
<1>1. /\ proc[p].step = "migrating"
      /\ Become(p, state) /\ UNCHANGED <<db, origin, written>>
  BY DEF WriteVersion, Working
<1>2. DOMAIN proc[p].work = Fields /\ proc[p].work.shape \in 0..Current
  BY <1>1 DEF FileInv, FieldsOK, Fields
<1>3. /\ DOMAIN work = Fields /\ work.shape \in 0..Current
      /\ work.journal = proc[p].work.journal
  BY <1>2 DEF Fields
<1> HIDE DEF work
<1>4. /\ state.step = "migrating" /\ state.start = proc[p].start /\ state.work = work
      /\ state.request = proc[p].request
  BY DEF Migrating
<1> HIDE DEF state
<1>5. /\ proc[p].start = db /\ proc[p].work.journal = db.journal
      /\ Classify(db) \in 0..(Current - 1)
      /\ \A q \in Process : q # p => proc[q].step # "migrating"
      /\ proc[p].request \in Requests
  BY <1>1 DEF FileInv, LockOK, FieldsOK
<1> QED BY <1>1, <1>3, <1>4, <1>5, FileUntouched

LEMMA OpenReadOnlyStep ==
  ASSUME FileInv, NEW p \in Process, OpenReadOnly(p)
  PROVE  FileInv'
<1> DEFINE state == [step |-> "reading"]
<1>1. Become(p, state) /\ UNCHANGED <<db, origin, written>> /\ Classify(db) = Current
  BY DEF OpenReadOnly
<1>2. state.step = "reading"
  OBVIOUS
<1> HIDE DEF state
<1> QED BY <1>1, <1>2, FileUntouched

LEMMA EndStep ==
  ASSUME FileInv, NEW p \in Process, End(p)
  PROVE  FileInv'
<1>1. Become(p, Closed) /\ UNCHANGED <<db, origin, written>>
  BY DEF End
<1>2. Closed.step = "closed"
  BY DEF Closed
<1> QED BY <1>1, <1>2, FileUntouched

(* A commit passes its postconditions: the rows are those of the start,    *)
(* which is what is committed, and the schema is the current one.          *)
LEMMA CommitMigrationStep ==
  ASSUME FileInv, NEW p \in Process, CommitMigration(p)
  PROVE  FileInv'
<1> DEFINE state == Configuring(proc[p].request, proc[p].start.shape = 0)
<1>1. /\ proc[p].step = "migrating" /\ Become(p, state)
      /\ PostconditionsHold(proc[p].start, proc[p].work)
      /\ db' = proc[p].work /\ origin' = origin /\ written' = written
  BY DEF CommitMigration
<1>2. /\ proc[p].start = db /\ proc[p].work.journal = db.journal
      /\ Classify(db) \in 0..(Current - 1)
      /\ \A q \in Process : q # p => proc[q].step # "migrating"
  BY <1>1 DEF FileInv, LockOK
<1>3. /\ DOMAIN db' = Fields /\ db'.journal = db.journal
      /\ Logical(db)' = Logical(db) /\ Classify(db)' = Current
  <2>1. DOMAIN db' = Fields
    BY <1>1 DEF FileInv, FieldsOK, Fields
  <2>2. Logical(db') = Logical(db) /\ Classify(db') = Current
    BY <1>1, <1>2 DEF PostconditionsHold
  <2>3. Logical(db)' = Logical(db') /\ Classify(db)' = Classify(db')
    BY DEF Logical, Classify
  <2> QED BY <1>1, <1>2, <2>1, <2>2, <2>3
<1>4. db'.shape = Current
  BY <1>3 DEF Classify, Current, Foreign
<1>5. /\ state.step = "configuring" /\ (state.created => db.shape = 0)
      /\ state.request \in Requests
  BY <1>1, <1>2 DEF Configuring, FileInv, FieldsOK
<1> HIDE DEF state
<1>6. /\ proc'[p] = state
      /\ \A q \in Process : q # p => proc'[q] = proc[q]
      /\ proc' \in [Process -> {proc'[q] : q \in Process}]
  BY <1>1, BecomeMovesOne DEF FileInv
<1>7. \A q \in Process : proc'[q].step # "migrating"
  BY <1>2, <1>5, <1>6
<1>8. FieldsOK' /\ LockOK'
  <2>1. \A q \in Process : proc'[q].step \in {"read", "migrating", "configuring"}
          => proc'[q].request \in Requests
    BY <1>5, <1>6 DEF FileInv, FieldsOK
  <2> QED BY <1>3, <1>6, <1>7, <2>1 DEF FieldsOK, LockOK, Fields
<1>9. CreatedOK'
  <2>1. \A q \in Process :
          proc'[q].step = "configuring" => (proc'[q].created => origin.shape = 0)
    BY <1>5, <1>6 DEF FileInv, CreatedOK
  <2> QED BY <1>1, <1>4, <2>1 DEF CreatedOK, Current
<1>10. OpenMeansCurrent'
  BY <1>3 DEF OpenMeansCurrent
<1>11. EntriesSurvive'
  <2>1. ASSUME NEW d PROVE {r.id : r \in d.rows} = {l.id : l \in Logical(d)}
    <3> DEFINE nanos(r) == IF d.shape <= 4 THEN r.mtime * NanosPerSecond ELSE r.mtime
               logical(r) == [id |-> r.id, ns |-> r.ns, updated |-> r.updated,
                              content |-> r.content, nanos |-> nanos(r)]
    <3>1. Logical(d) = {logical(r) : r \in d.rows}
      BY DEF Logical
    <3>2. \A r : logical(r).id = r.id
      OBVIOUS
    <3> HIDE DEF logical
    <3> QED BY <3>1, <3>2
  <2>2. {r.id : r \in db'.rows} = {r.id : r \in db.rows}
    <3>1. Logical(db') = Logical(db)
      BY <1>1, <1>2 DEF PostconditionsHold
    <3>2. {r.id : r \in db'.rows} = {l.id : l \in Logical(db')}
      BY <2>1
    <3>3. {r.id : r \in db.rows} = {l.id : l \in Logical(db)}
      BY <2>1
    <3> QED BY <3>1, <3>2, <3>3
  <2>3. /\ Logical(origin) \subseteq Logical(db)
        /\ {r.id : r \in db.rows} = {r.id : r \in origin.rows} \cup written
    BY DEF FileInv, EntriesSurvive
  <2>4. Logical(origin)' = Logical(origin)
    BY <1>1 DEF Logical
  <2> QED BY <1>1, <1>3, <2>2, <2>3, <2>4 DEF EntriesSurvive
<1>12. StaysRecognized'
  <2>1. Classify(origin) # Foreign
    <3>1. CASE Classify(origin) = Foreign
      BY <1>2, <3>1 DEF FileInv, StaysRecognized, Current, Foreign
    <3> QED BY <3>1
  <2>2. Classify(origin)' = Classify(origin)
    BY <1>1 DEF Classify
  <2> QED BY <1>3, <2>1, <2>2 DEF StaysRecognized, Current, Foreign
<1>13. JournalIsPreserved'
  BY <1>1, <1>3 DEF FileInv, JournalIsPreserved
<1> QED BY <1>8, <1>9, <1>10, <1>11, <1>12, <1>13 DEF FileInv

(* The journal mode changes for who asks, and for who created the file.    *)
LEMMA ConfigureStep ==
  ASSUME FileInv, NEW p \in Process, Configure(p)
  PROVE  FileInv'
<1> DEFINE journal == JournalToApply(proc[p].request, proc[p].created)
           state == [step |-> "open"]
<1>1. /\ proc[p].step = "configuring" /\ Become(p, state)
      /\ db' = [db EXCEPT !.journal = journal] /\ origin' = origin /\ written' = written
  BY DEF Configure
<1>2. DOMAIN db = Fields
  BY DEF FileInv, FieldsOK, Fields
<1>3. \/ proc[p].request # "preserve" /\ journal = proc[p].request
      \/ proc[p].request = "preserve" /\ proc[p].created
      \/ journal = db.journal
  BY DEF JournalToApply
<1> HIDE DEF journal
<1>4. /\ DOMAIN db' = Fields /\ db'.journal = journal
      /\ db'.version = db.version /\ db'.shape = db.shape /\ db'.rows = db.rows
  BY <1>1, <1>2 DEF Fields
<1>5. /\ proc'[p].step = "open"
      /\ \A q \in Process : q # p => proc'[q] = proc[q]
      /\ proc' \in [Process -> {proc'[q] : q \in Process}]
  BY <1>1, BecomeMovesOne DEF FileInv
<1>6. Classify(db) = Current
  BY <1>1 DEF FileInv, OpenMeansCurrent
<1>7. \A q \in Process : proc'[q].step # "migrating"
  BY <1>5, <1>6 DEF FileInv, LockOK, Current
<1>8. Classify(db)' = Classify(db) /\ Logical(db)' = Logical(db)
  BY <1>4 DEF Classify, Logical
<1>9. FieldsOK' /\ LockOK'
  <2>1. \A q \in Process : proc'[q].step \in {"read", "migrating", "configuring"}
          => proc'[q].request \in Requests
    BY <1>5 DEF FileInv, FieldsOK
  <2> QED BY <1>4, <1>5, <1>7, <2>1 DEF FieldsOK, LockOK, Fields
<1>10. CreatedOK'
  BY <1>1, <1>4, <1>5 DEF FileInv, CreatedOK
<1>11. OpenMeansCurrent'
  BY <1>6, <1>8 DEF OpenMeansCurrent
<1>12. EntriesSurvive'
  <2>1. Logical(origin)' = Logical(origin)
    BY <1>1 DEF Logical
  <2> QED BY <1>1, <1>4, <1>8, <2>1 DEF FileInv, EntriesSurvive
<1>13. StaysRecognized'
  <2>1. Classify(origin)' = Classify(origin)
    BY <1>1 DEF Classify
  <2>2. Classify(origin) # Foreign
    BY <1>6 DEF FileInv, StaysRecognized, Current, Foreign
  <2> QED BY <1>6, <1>8, <2>1, <2>2 DEF StaysRecognized, Current, Foreign
<1>14. JournalIsPreserved'
  <2> SUFFICES ASSUME origin.shape # 0
               PROVE  db'.journal \in {origin.journal} \cup (Requests \ {"preserve"})
    BY <1>1 DEF JournalIsPreserved
  <2>1. proc[p].request \in Requests /\ ~proc[p].created
    BY <1>1 DEF FileInv, FieldsOK, CreatedOK
  <2> QED BY <1>3, <1>4, <2>1 DEF FileInv, JournalIsPreserved
<1> QED BY <1>9, <1>10, <1>11, <1>12, <1>13, <1>14 DEF FileInv

(* A write adds one row, under an id it reports, to a current schema.      *)
LEMMA WriteStep ==
  ASSUME FileInv, NEW p \in Process, NEW ns \in Namespace, NEW content \in Content,
         Write(p, ns, content)
  PROVE  FileInv'
<1>1. PICK row, id :
        /\ row.id = id /\ written' = written \cup {id}
        /\ db' = Changed(db, db.shape, db.rows \cup {row}, id)
        /\ proc[p].step = "open" /\ proc' = proc /\ origin' = origin
  <2> DEFINE id == HighWater(db) + 1
             use == Max({0} \cup {r.use + 1 : r \in {q \in db.rows : q.ns = ns}})
             row == [id |-> id, ns |-> ns, mtime |-> 0, updated |-> 0, accessed |-> 0,
                     use |-> use, content |-> content]
  <2>1. /\ written' = written \cup {id}
        /\ db' = Changed(db, db.shape, db.rows \cup {row}, id)
        /\ proc[p].step = "open" /\ proc' = proc /\ origin' = origin
    BY DEF Write
  <2>2. row.id = id
    OBVIOUS
  <2> HIDE DEF id, row
  <2> QED BY <2>1, <2>2
<1>2. /\ DOMAIN db' = Fields /\ db'.journal = db.journal /\ db'.version = db.version
      /\ db'.shape = db.shape /\ db'.rows = db.rows \cup {row}
  BY <1>1 DEF Changed, Fields
<1>3. Classify(db) = Current /\ Classify(db)' = Classify(db)
  BY <1>1, <1>2 DEF FileInv, OpenMeansCurrent, Classify
<1>4. \A q \in Process : proc[q].step # "migrating"
  BY <1>3 DEF FileInv, LockOK, Current
<1>5. FieldsOK' /\ LockOK' /\ CreatedOK' /\ OpenMeansCurrent'
  BY <1>1, <1>2, <1>3, <1>4
  DEF FileInv, FieldsOK, LockOK, CreatedOK, OpenMeansCurrent, Fields
<1>6. EntriesSurvive'
  <2>1. Logical(origin)' = Logical(origin)
    BY <1>1 DEF Logical
  <2>2. Logical(db) \subseteq Logical(db)'
    BY <1>2 DEF Logical
  <2>3. {r.id : r \in db'.rows} = {r.id : r \in db.rows} \cup {id}
    BY <1>1, <1>2
  <2>4. /\ Logical(origin) \subseteq Logical(db)
        /\ {r.id : r \in db.rows} = {r.id : r \in origin.rows} \cup written
    BY DEF FileInv, EntriesSurvive
  <2>5. {r.id : r \in origin'.rows} = {r.id : r \in origin.rows}
    BY <1>1
  <2>6. Logical(origin)' \subseteq Logical(db)'
    BY <2>1, <2>2, <2>4
  <2>7. {r.id : r \in db'.rows} = {r.id : r \in origin'.rows} \cup written'
    BY <1>1, <2>3, <2>4, <2>5
  <2> QED BY <2>6, <2>7 DEF EntriesSurvive
<1>7. StaysRecognized'
  <2>1. Classify(origin)' = Classify(origin)
    BY <1>1 DEF Classify
  <2>2. Classify(origin) # Foreign
    BY <1>3 DEF FileInv, StaysRecognized, Current, Foreign
  <2> QED BY <1>3, <2>1, <2>2 DEF StaysRecognized, Current, Foreign
<1>8. JournalIsPreserved'
  BY <1>1, <1>2 DEF FileInv, JournalIsPreserved
<1> QED BY <1>5, <1>6, <1>7, <1>8 DEF FileInv

LEMMA FileNext == FileInv /\ [Next]_vars => FileInv'
<1> SUFFICES ASSUME FileInv, [Next]_vars PROVE FileInv'
  OBVIOUS
<1>1. CASE UNCHANGED vars
  <2>1. db' = db /\ proc' = proc /\ origin' = origin /\ written' = written
    BY <1>1 DEF vars
  <2>2. Classify(db)' = Classify(db) /\ Classify(origin)' = Classify(origin)
    BY <2>1 DEF Classify
  <2>3. Logical(db)' = Logical(db) /\ Logical(origin)' = Logical(origin)
    BY <2>1 DEF Logical
  <2>4. FieldsOK'
    BY <2>1 DEF FileInv, FieldsOK
  <2>5. LockOK'
    BY <2>1, <2>2 DEF FileInv, LockOK
  <2>6. CreatedOK'
    BY <2>1 DEF FileInv, CreatedOK
  <2>7. OpenMeansCurrent'
    BY <2>1, <2>2 DEF FileInv, OpenMeansCurrent
  <2>8. EntriesSurvive'
    BY <2>1, <2>3 DEF FileInv, EntriesSurvive
  <2>9. StaysRecognized'
    BY <2>1, <2>2 DEF FileInv, StaysRecognized
  <2>10. JournalIsPreserved'
    BY <2>1 DEF FileInv, JournalIsPreserved
  <2> QED BY <2>4, <2>5, <2>6, <2>7, <2>8, <2>9, <2>10 DEF FileInv
<1>2. CASE Next
  BY <1>2, ReadVersionStep, ValidateCurrentStep, BeginMigrationStep, MigrateStepStep,
     WriteVersionStep, CommitMigrationStep, ConfigureStep, OpenReadOnlyStep, WriteStep, EndStep
  DEF Next
<1> QED BY <1>1, <1>2

(* The inductive invariant, for every file and number of processes.        *)
THEOREM FileInvariance == Spec => []FileInv
  BY FileInit, FileNext, PTL DEF Spec

(* Who has a database open, writable or read-only, has the current schema, *)
(* for every interleaving of openers, migrations and ends of processes.    *)
THEOREM OpenersHaveTheCurrentSchema == Spec => []OpenMeansCurrent
<1>1. FileInv => OpenMeansCurrent
  BY DEF FileInv
<1> QED BY <1>1, FileInvariance, PTL

(* No entry is lost or changed by opening a file, and none appears that    *)
(* was not written.                                                        *)
THEOREM MigrationsLoseNothing == Spec => []EntriesSurvive
<1>1. FileInv => EntriesSurvive
  BY DEF FileInv
<1> QED BY <1>1, FileInvariance, PTL

(* A file of another program is never modified; any other can be opened    *)
(* again, whenever a process ends.                                         *)
THEOREM FilesStayRecognized == Spec => []StaysRecognized
<1>1. FileInv => StaysRecognized
  BY DEF FileInv
<1> QED BY <1>1, FileInvariance, PTL

(* The journal mode of an existing database changes for who asks only.     *)
THEOREM JournalModesAreKept == Spec => []JournalIsPreserved
<1>1. FileInv => JournalIsPreserved
  BY DEF FileInv
<1> QED BY <1>1, FileInvariance, PTL

-----------------------------------------------------------------------------
(* An image of a finite set is finite, and of the same size if no two      *)
(* elements share it.                                                      *)
LEMMA ImageOfFinite ==
  ASSUME NEW S, IsFiniteSet(S), NEW f, f = [x \in S |-> f[x]], NEW T, T = {f[x] : x \in S}
  PROVE  /\ IsFiniteSet(T)
         /\ (\A x, y \in S : f[x] = f[y] => x = y) => Cardinality(T) = Cardinality(S)
<1>1. f \in [S -> T] /\ \A t \in T : \E x \in S : f[x] = t
  OBVIOUS
<1>2. f \in Surjection(S, T)
  BY <1>1 DEF Surjection
<1>3. (\A x, y \in S : f[x] = f[y] => x = y) => f \in Injection(S, T)
  BY <1>1 DEF Injection, IsInjective
<1> QED BY <1>2, <1>3, FS_Surjection

(* A set of numbers that is finite and not empty has a maximum.            *)
LEMMA MaxOfFinite ==
  ASSUME NEW S \in SUBSET Int, IsFiniteSet(S), S # {}
  PROVE  Max(S) \in S /\ \A x \in S : x <= Max(S)
<1> DEFINE Above(x) == {y \in S : y > x}
           B == {Cardinality(Above(x)) : x \in S}
<1>1. \A x \in S : IsFiniteSet(Above(x)) /\ Cardinality(Above(x)) \in Nat
  BY FS_Subset, FS_CardinalityType
<1>2. PICK m \in B : \A n \in B : m <= n
  <2>1. B \in SUBSET Nat /\ B # {}
    BY <1>1
  <2> QED BY <2>1, LeastNumber
<1>3. PICK top \in S : m = Cardinality(Above(top))
  BY <1>2
<1>4. ASSUME NEW y \in S PROVE y <= top
  <2> SUFFICES ASSUME y > top PROVE FALSE
    OBVIOUS
  <2>0. ~(y > y) /\ \A z \in S : z > y => z > top
    <3>1. y \in Int /\ top \in Int /\ \A z \in S : z \in Int
      OBVIOUS
    <3> QED BY <3>1
  <2>1. Above(y) \subseteq Above(top) /\ y \in Above(top) /\ y \notin Above(y)
    BY <2>0
  <2>2. Cardinality(Above(y)) < Cardinality(Above(top))
    <3>1. Cardinality(Above(y)) <= Cardinality(Above(top)) /\ Cardinality(Above(y)) # Cardinality(Above(top))
      BY <1>1, <2>1, FS_Subset
    <3> HIDE DEF Above
    <3> QED BY <1>1, <3>1
  <2>3. Cardinality(Above(y)) \in B
    OBVIOUS
  <2> HIDE DEF Above, B
  <2> QED BY <1>1, <1>2, <1>3, <2>2, <2>3
<1> QED BY <1>4 DEF Max

(* A table of a database: rows with distinct ids.                          *)
RowsOK(rows) ==
  rows \in SUBSET Row /\ IsFiniteSet(rows) /\ \A q, r \in rows : q.id = r.id => q = r

Nanos(r) == [r EXCEPT !.mtime = @ * NanosPerSecond]

(* The mtime in another unit is no other row: only one field differs.      *)
LEMMA NanosOfRow ==
  ASSUME NEW r \in Row
  PROVE  /\ Nanos(r) \in Row /\ Nanos(r).mtime = r.mtime * NanosPerSecond
         /\ Nanos(r).id = r.id /\ Nanos(r).ns = r.ns /\ Nanos(r).updated = r.updated
         /\ Nanos(r).accessed = r.accessed /\ Nanos(r).content = r.content
         /\ Second(Nanos(r)) = Second(r)
<1>1. r.mtime * NanosPerSecond \in Int
  BY SchemaAssumption DEF Row
<1> DEFINE m == r.mtime * NanosPerSecond
<1>2. Nanos(r) = [r EXCEPT !.mtime = m]
  BY DEF Nanos
<1> HIDE DEF m
<1>3. m \in Int
  BY <1>1 DEF m
<1>4. /\ Nanos(r) \in Row /\ Nanos(r).mtime = m
      /\ Nanos(r).id = r.id /\ Nanos(r).ns = r.ns /\ Nanos(r).updated = r.updated
      /\ Nanos(r).accessed = r.accessed /\ Nanos(r).content = r.content
  BY <1>2, <1>3 DEF Row
<1> QED BY <1>4 DEF m, Second

LEMMA InNanosIsImage ==
  ASSUME NEW rows, RowsOK(rows)
  PROVE  /\ InNanos(rows) = {Nanos(r) : r \in rows}
         /\ RowsOK(InNanos(rows))
         /\ InRange(InNanos(rows)) <=> InRange(rows)
<1>1. InNanos(rows) = {Nanos(r) : r \in rows}
  BY DEF InNanos, Nanos
<1>2. \A r \in rows : Nanos(r) \in Row /\ Nanos(r).id = r.id /\ Second(Nanos(r)) = Second(r)
  BY NanosOfRow DEF RowsOK
<1> DEFINE f == [r \in rows |-> Nanos(r)]
<1>3. IsFiniteSet(InNanos(rows))
  <2>1. f = [r \in rows |-> f[r]] /\ InNanos(rows) = {f[r] : r \in rows}
    BY <1>1
  <2> HIDE DEF f
  <2> QED BY <2>1, ImageOfFinite DEF RowsOK
<1>4. RowsOK(InNanos(rows))
  <2>1. InNanos(rows) \in SUBSET Row
    BY <1>1, <1>2
  <2>2. \A q, r \in InNanos(rows) : q.id = r.id => q = r
    BY <1>1, <1>2 DEF RowsOK
  <2> QED BY <1>3, <2>1, <2>2 DEF RowsOK
<1>5. InRange(InNanos(rows)) <=> InRange(rows)
  BY <1>1, <1>2 DEF InRange
<1> QED BY <1>1, <1>4, <1>5

LEMMA RowsInRangeAreTable ==
  ASSUME NEW rows, RowsOK(rows), InRange(rows)
  PROVE  Table(rows)
BY DEF RowsOK, Table, Row

(* The backfill does not depend on the unit of the mtime.                  *)
LEMMA RanksInNanos ==
  ASSUME NEW rows, RowsOK(rows), NEW r \in rows
  PROVE  /\ UpTo(InNanos(rows), Nanos(r)) = {Nanos(q) : q \in UpTo(rows, r)}
         /\ Rank(InNanos(rows), Nanos(r)) = Rank(rows, r)
<1>1. /\ InNanos(rows) = {Nanos(q) : q \in rows}
      /\ \A q \in rows : /\ Nanos(q).id = q.id /\ Nanos(q).ns = q.ns /\ Nanos(q).updated = q.updated
                         /\ Second(Nanos(q)) = Second(q)
      /\ \A q, s \in rows : q.id = s.id => q = s
  BY InNanosIsImage, NanosOfRow DEF RowsOK
<1>2. \A q, s \in rows : Earlier(Nanos(q), Nanos(s)) <=> Earlier(q, s)
  BY <1>1 DEF Earlier
<1>3. \A q, s \in rows : Nanos(q) = Nanos(s) => q = s
  BY <1>1
<1>4. UpTo(InNanos(rows), Nanos(r)) = {Nanos(q) : q \in UpTo(rows, r)}
  BY <1>1, <1>2, <1>3 DEF UpTo
<1> DEFINE S == UpTo(rows, r)
           f == [q \in S |-> Nanos(q)]
           T == UpTo(InNanos(rows), Nanos(r))
<1>5. f = [q \in S |-> f[q]] /\ T = {f[q] : q \in S}
  BY <1>4
<1>6. S \subseteq rows
  BY DEF UpTo
<1>7. IsFiniteSet(S) /\ \A q, s \in S : f[q] = f[s] => q = s
  BY <1>3, <1>6, FS_Subset DEF RowsOK
<1>8. Cardinality(T) = Cardinality(S)
  <2> HIDE DEF f, S, T
  <2> QED BY <1>5, <1>7, ImageOfFinite
<1> QED BY <1>4, <1>8 DEF Rank

LEMMA BackfilledInNanos ==
  ASSUME NEW rows, RowsOK(rows), NEW r \in rows
  PROVE  Backfilled(InNanos(rows), Nanos(r)) = Backfilled(rows, r)
<1>1. UpTo(rows, r) \subseteq rows
  BY DEF UpTo
<1>2. \A q \in rows : Shifted(InNanos(rows), Nanos(q)) = Shifted(rows, q)
  BY RanksInNanos, NanosOfRow DEF Shifted, RowsOK
<1>3. UpTo(InNanos(rows), Nanos(r)) = {Nanos(q) : q \in UpTo(rows, r)}
  BY RanksInNanos
<1>4. {Shifted(InNanos(rows), q) : q \in UpTo(InNanos(rows), Nanos(r))} =
        {Shifted(rows, q) : q \in UpTo(rows, r)}
  BY <1>1, <1>2, <1>3
<1>5. Peak(InNanos(rows), Nanos(r)) = Peak(rows, r)
  BY <1>4 DEF Peak
<1> QED BY <1>5, RanksInNanos, BackfilledIsRankAndPeak

-----------------------------------------------------------------------------
(* A use value in the column of a row.                                     *)
LEMMA WithUseOfRow ==
  ASSUME NEW r \in Row, NEW use \in Int
  PROVE  /\ WithUse(r, use) \in Row /\ WithUse(r, use).use = use
         /\ WithUse(r, use).id = r.id /\ WithUse(r, use).ns = r.ns
         /\ WithUse(r, use).updated = r.updated /\ WithUse(r, use).mtime = r.mtime
         /\ WithUse(r, use).content = r.content
BY DEF WithUse, Row

(* migrate_v5_to_v6 on a table it accepts.                                 *)
LEMMA InUseOrderIsImage ==
  ASSUME NEW rows, RowsOK(rows), InRange(rows)
  PROVE  /\ RowsOK(InUseOrder(rows))
         /\ \A r \in rows : Backfilled(rows, r) \in Nat
<1>1. \A r \in rows : Backfilled(rows, r) \in Nat
  BY RowsInRangeAreTable, BackfillKeepsTheOrder
<1> DEFINE f == [r \in rows |-> WithUse(r, Backfilled(rows, r))]
<1>2. f = [r \in rows |-> f[r]] /\ InUseOrder(rows) = {f[r] : r \in rows}
  BY DEF InUseOrder
<1>3. \A r \in rows : f[r] \in Row /\ f[r].id = r.id
  <2> SUFFICES ASSUME NEW r \in rows PROVE f[r] \in Row /\ f[r].id = r.id
    OBVIOUS
  <2>1. r \in Row /\ Backfilled(rows, r) \in Int
    BY <1>1 DEF RowsOK
  <2> QED BY <2>1, WithUseOfRow
<1> HIDE DEF f
<1>4. IsFiniteSet(InUseOrder(rows))
  BY <1>2, ImageOfFinite DEF RowsOK
<1>5. InUseOrder(rows) \in SUBSET Row
  BY <1>2, <1>3
<1>6. \A q, r \in InUseOrder(rows) : q.id = r.id => q = r
  BY <1>2, <1>3 DEF RowsOK
<1> QED BY <1>1, <1>4, <1>5, <1>6 DEF RowsOK

(* The fields of a database.                                               *)
LEMMA DatabaseFacts ==
  ASSUME NEW d, IsDatabase(d)
  PROVE  /\ DOMAIN d = Fields /\ RowsOK(d.rows)
         /\ d.version \in Int /\ d.shape \in 0..Foreign /\ d.sequence \in 0..MaxId
         /\ d.journal \in {"delete", "wal"} /\ (d.shape = 0 => d.rows = {})
BY DEF IsDatabase, RowsOK, Fields

LEMMA MakeDatabase ==
  ASSUME NEW version \in Int, NEW shape \in 1..Foreign, NEW rows, RowsOK(rows),
         NEW sequence \in 0..MaxId, NEW journal \in {"delete", "wal"}
  PROVE  IsDatabase([version |-> version, shape |-> shape, rows |-> rows,
                     sequence |-> sequence, journal |-> journal])
<1>1. shape \in 0..Foreign /\ shape # 0
  BY DEF Foreign
<1> QED BY <1>1 DEF IsDatabase, RowsOK

(* The rows at version 5, before the backfill.                             *)
LEMMA RowsAtFive ==
  ASSUME NEW d, IsDatabase(d)
  PROVE  /\ RowsOK(RowsAt(d, 5))
         /\ RowsAt(d, 5) = (IF d.shape <= 4 THEN InNanos(d.rows) ELSE d.rows)
         /\ RowsAt(d, Current) = InUseOrder(RowsAt(d, 5))
         /\ \A shape \in 0..4 : RowsAt(d, shape) = d.rows
<1>1. /\ RowsAt(d, 5) = (IF d.shape <= 4 THEN InNanos(d.rows) ELSE d.rows)
      /\ RowsAt(d, Current) = InUseOrder(IF d.shape <= 4 THEN InNanos(d.rows) ELSE d.rows)
      /\ \A shape \in 0..4 : RowsAt(d, shape) = d.rows
  BY DEF RowsAt, Current
<1>2. RowsOK(d.rows) /\ RowsOK(InNanos(d.rows))
  BY DatabaseFacts, InNanosIsImage
<1> QED BY <1>1, <1>2

(* A migration does not change what a snapshot sees of the rows.           *)
LEMMA LogicalIsKept ==
  ASSUME NEW d, IsDatabase(d), NEW e, IsDatabase(e),
         d.shape \in 0..Current, e.shape \in 0..Current, e.shape >= d.shape,
         e.rows = RowsAt(d, e.shape), e.shape = Current => d.shape # Current /\ Backfillable(d)
  PROVE  Logical(e) = Logical(d)
<1> DEFINE nanos(shape, r) == IF shape <= 4 THEN r.mtime * NanosPerSecond ELSE r.mtime
           view(shape, r) == [id |-> r.id, ns |-> r.ns, updated |-> r.updated,
                              content |-> r.content, nanos |-> nanos(shape, r)]
<1>1. /\ Logical(d) = {view(d.shape, r) : r \in d.rows}
      /\ Logical(e) = {view(e.shape, r) : r \in e.rows}
  BY DEF Logical
<1>2. d.rows \in SUBSET Row /\ RowsOK(d.rows)
  BY DatabaseFacts DEF RowsOK
<1>3. ASSUME NEW five, five = RowsAt(d, 5)
      PROVE  {view(5, r) : r \in five} = {view(d.shape, r) : r \in d.rows} \/ d.shape = Current
  <2>1. CASE d.shape <= 4
    <3>1. five = {Nanos(r) : r \in d.rows}
      BY <1>2, <1>3, <2>1, RowsAtFive, InNanosIsImage
    <3>2. \A r \in d.rows : view(5, Nanos(r)) = view(d.shape, r)
      BY <1>2, <2>1, NanosOfRow
    <3> HIDE DEF view
    <3> QED BY <3>1, <3>2
  <2>2. CASE d.shape = 5
    BY <1>3, <2>2, RowsAtFive
  <2> QED BY <2>1, <2>2 DEF Current
<1>4. CASE e.shape <= 4
  <2>1. e.rows = d.rows /\ d.shape <= 4
    BY <1>4, RowsAtFive DEF Current
  <2> QED BY <1>1, <1>4, <2>1
<1>5. CASE e.shape = 5
  <2>1. d.shape # Current
    BY <1>5 DEF Current
  <2> HIDE DEF view
  <2> QED BY <1>1, <1>3, <1>5, <2>1
<1>6. CASE e.shape = Current
  <2> DEFINE five == RowsAt(d, 5)
  <2>1. RowsOK(five) /\ InRange(five) /\ e.rows = InUseOrder(five)
    BY <1>6, RowsAtFive DEF Backfillable
  <2> HIDE DEF five
  <2>2. e.rows = {WithUse(r, Backfilled(five, r)) : r \in five}
    BY <2>1 DEF InUseOrder
  <2>3. ASSUME NEW r \in five PROVE view(e.shape, WithUse(r, Backfilled(five, r))) = view(5, r)
    <3>1. r \in Row /\ Backfilled(five, r) \in Int
      BY <2>1, InUseOrderIsImage DEF RowsOK
    <3> QED BY <1>6, <3>1, WithUseOfRow DEF Current
  <2> HIDE DEF view
  <2>4. Logical(e) = {view(5, r) : r \in five}
    BY <1>1, <2>2, <2>3
  <2> QED BY <1>1, <1>3, <1>6, <2>4 DEF five
<1> QED BY <1>4, <1>5, <1>6 DEF Current

(* The high-water mark of a sequence bounds the sequence and the ids.      *)
LEMMA HighWaterBounds ==
  ASSUME NEW d, IsDatabase(d)
  PROVE  /\ HighWater(d) \in 0..MaxId /\ d.sequence <= HighWater(d)
         /\ \A r \in d.rows : r.id <= HighWater(d)
<1> DEFINE ids == {r.id : r \in d.rows}
           f == [r \in d.rows |-> r.id]
<1>1. RowsOK(d.rows) /\ d.sequence \in 0..MaxId /\ MaxId \in Nat
  BY DatabaseFacts, SchemaAssumption
<1>2. IsFiniteSet(ids)
  <2>1. f = [r \in d.rows |-> f[r]] /\ ids = {f[r] : r \in d.rows}
    OBVIOUS
  <2> HIDE DEF f, ids
  <2> QED BY <1>1, <2>1, ImageOfFinite DEF RowsOK
<1>3. \A i \in ids : i \in 1..MaxId
  BY <1>1 DEF RowsOK, Row
<1>4. \A r \in d.rows : r.id \in ids
  OBVIOUS
<1> HIDE DEF ids
<1> DEFINE S == {d.sequence} \cup ids
<1>5. S \in SUBSET (0..MaxId) /\ S # {} /\ d.sequence \in S
  BY <1>1, <1>3
<1>6. IsFiniteSet(S) /\ S \in SUBSET Int
  <2>1. IsFiniteSet({d.sequence})
    BY FS_Singleton
  <2>2. IsFiniteSet(S)
    BY <1>2, <2>1, FS_Union
  <2> QED BY <1>1, <1>5, <2>2
<1>7. HighWater(d) = Max(S)
  BY DEF HighWater, ids
<1> HIDE DEF S
<1>8. Max(S) \in S /\ \A i \in S : i <= Max(S)
  BY <1>5, <1>6, MaxOfFinite
<1> QED BY <1>4, <1>5, <1>7, <1>8 DEF S

-----------------------------------------------------------------------------
(* The rest of the inductive invariant.                                    *)
RowsInv == TypeOK /\ MigrationsAreOnTheirWay /\ MigratedRowsStay

ProcessSteps == {"closed", "read", "migrating", "configuring", "open", "reading"}

(* What a migration has not begun to change is on its way.                 *)
LEMMA StartIsOnItsWay ==
  ASSUME IsDatabase(origin), origin.shape \in 0..(Current - 1)
  PROVE  OnItsWay(origin)
<1>1. RowsAt(origin, origin.shape) = origin.rows
  <2>1. origin.shape \in 0..4 \/ origin.shape = 5
    BY DEF Current
  <2> QED BY <2>1, RowsAtFive
<1> QED BY <1>1, DatabaseFacts DEF OnItsWay, Current

(* One step of the migrations keeps on the way, whatever the shape.        *)
LEMMA StepStaysOnItsWay ==
  ASSUME IsDatabase(origin), NEW d, IsDatabase(d), OnItsWay(d),
         origin.shape \in 0..(Current - 1), d.shape \in 0..(Current - 1), StepAccepts(d)
  PROVE  IsDatabase(StepOf(d)) /\ OnItsWay(StepOf(d))
<1>1. /\ DOMAIN d = Fields /\ RowsOK(d.rows) /\ d.version \in Int
      /\ d.sequence \in 0..MaxId /\ d.journal \in {"delete", "wal"}
      /\ d.shape >= origin.shape /\ d.rows = RowsAt(origin, d.shape)
      /\ d.sequence >= origin.sequence /\ origin.sequence \in 0..MaxId
      /\ d.version = origin.version
  BY DatabaseFacts DEF OnItsWay, Current
<1> DEFINE made(shape, rows, sequence) ==
             [version |-> d.version, shape |-> shape, rows |-> rows, sequence |-> sequence,
              journal |-> d.journal]
<1>2. ASSUME NEW shape \in 1..Current, NEW rows, RowsOK(rows), NEW sequence \in 0..MaxId,
             StepOf(d) = made(shape, rows, sequence), shape >= d.shape,
             rows = RowsAt(origin, shape), sequence >= d.sequence,
             shape = Current => Backfillable(origin)
      PROVE  IsDatabase(StepOf(d)) /\ OnItsWay(StepOf(d))
  <2>1. IsDatabase(StepOf(d))
    <3>1. shape \in 1..Foreign
      BY DEF Current, Foreign
    <3> QED BY <1>1, <1>2, <3>1, MakeDatabase
  <2>2. /\ StepOf(d).shape = shape /\ StepOf(d).rows = rows
        /\ StepOf(d).sequence = sequence /\ StepOf(d).version = d.version
    BY <1>2
  <2>3. shape >= origin.shape /\ sequence >= origin.sequence
    BY <1>1, <1>2 DEF Current
  <2> QED BY <1>1, <1>2, <2>1, <2>2, <2>3 DEF OnItsWay
<1>3. \A shape \in 0..4 : RowsAt(origin, shape) = origin.rows
  BY RowsAtFive
<1>4. ASSUME NEW shape \in 0..Foreign, d.shape \in {0, 2, 3}, StepOf(d) = [d EXCEPT !.shape = shape]
      PROVE  StepOf(d) = made(shape, d.rows, d.sequence)
  BY <1>1, <1>4 DEF Fields, IsDatabase
<1>5. CASE d.shape = 0
  <2>1. d.rows = {} /\ origin.rows = {} /\ origin.shape = 0
    BY <1>1, <1>3, <1>5, DatabaseFacts
  <2>2. RowsAt(origin, 5) = {}
    BY <2>1, RowsAtFive DEF InNanos
  <2>3. RowsAt(origin, Current) = {} /\ Backfillable(origin)
    BY <2>2, RowsAtFive DEF InUseOrder, Backfillable, InRange, FitsUseOrder
  <2>4. StepOf(d) = [d EXCEPT !.shape = Current]
    BY <1>5 DEF StepOf, CreateFresh
  <2>5. StepOf(d) = made(Current, d.rows, d.sequence)
    BY <1>4, <1>5, <2>4 DEF Current, Foreign
  <2> HIDE DEF made
  <2> QED BY <1>1, <1>2, <1>5, <2>1, <2>3, <2>5 DEF Current
<1>6. CASE d.shape = 1
  <2>1. StepOf(d) = made(2, d.rows, HighWater(d))
    BY <1>6 DEF StepOf, V1ToV2, Changed
  <2>2. HighWater(d) \in 0..MaxId /\ d.sequence <= HighWater(d)
    BY HighWaterBounds
  <2>3. d.rows = RowsAt(origin, 2)
    BY <1>1, <1>3, <1>6
  <2> HIDE DEF made
  <2> QED BY <1>1, <1>2, <1>6, <2>1, <2>2, <2>3 DEF Current
<1>7. CASE d.shape \in {2, 3}
  <2>1. StepOf(d) = [d EXCEPT !.shape = d.shape + 1]
    BY <1>7 DEF StepOf
  <2>2. d.shape + 1 \in 3..4
    BY <1>7
  <2>3. StepOf(d) = made(d.shape + 1, d.rows, d.sequence)
    BY <1>4, <1>7, <2>1, <2>2 DEF Foreign
  <2>4. d.rows = RowsAt(origin, d.shape + 1)
    BY <1>1, <1>3, <1>7, <2>2
  <2> HIDE DEF made
  <2> QED BY <1>1, <1>2, <1>7, <2>2, <2>3, <2>4 DEF Current
<1>8. CASE d.shape = 4
  <2>1. StepOf(d) = made(5, InNanos(d.rows), d.sequence)
    BY <1>8 DEF StepOf, V4ToV5, Changed
  <2>2. origin.shape <= 4 /\ d.rows = origin.rows
    BY <1>1, <1>3, <1>8
  <2>3. InNanos(d.rows) = RowsAt(origin, 5) /\ RowsOK(InNanos(d.rows))
    BY <1>1, <2>2, RowsAtFive, InNanosIsImage
  <2> HIDE DEF made
  <2> QED BY <1>1, <1>2, <1>8, <2>1, <2>3 DEF Current
<1>9. CASE d.shape = 5
  <2>1. StepOf(d) = made(6, InUseOrder(d.rows), d.sequence)
    BY <1>9 DEF StepOf, V5ToV6, Changed
  <2>2. d.rows = RowsAt(origin, 5) /\ InRange(d.rows) /\ FitsUseOrder(d.rows)
    BY <1>1, <1>9 DEF StepAccepts
  <2>3. /\ InUseOrder(d.rows) = RowsAt(origin, Current) /\ Backfillable(origin)
        /\ RowsOK(InUseOrder(d.rows))
    BY <1>1, <2>2, RowsAtFive, InUseOrderIsImage DEF Backfillable
  <2> HIDE DEF made
  <2> QED BY <1>1, <1>2, <1>9, <2>1, <2>3 DEF Current
<1> QED BY <1>5, <1>6, <1>7, <1>8, <1>9 DEF Current

(* A process moves on and the file stays.                                  *)
LEMMA RowsUntouched ==
  ASSUME FileInv, RowsInv, UNCHANGED <<db, origin, written>>,
         NEW p \in Process, NEW state, Become(p, state), state.step \in ProcessSteps,
         state.step = "migrating" =>
           /\ IsDatabase(state.work) /\ IsDatabase(state.start) /\ OnItsWay(state.work)
           /\ \A q \in Process : q # p => proc[q].step # "migrating"
  PROVE  RowsInv'
<1>1. proc'[p] = state /\ \A q \in Process : q # p => proc'[q] = proc[q]
  BY BecomeMovesOne DEF FileInv
<1>2. TypeOK'
  <2>1. IsDatabase(db)' /\ IsDatabase(origin)' /\ written' \subseteq 1..MaxId
    BY DEF RowsInv, TypeOK, IsDatabase, Row
  <2>2. ASSUME NEW q \in Process
        PROVE  /\ proc'[q].step \in ProcessSteps
               /\ proc'[q].step = "migrating" => IsDatabase(proc'[q].work) /\ IsDatabase(proc'[q].start)
    BY <1>1 DEF RowsInv, TypeOK, ProcessSteps
  <2>3. ASSUME NEW q \in Process
        PROVE  proc'[q].step = "migrating" => IsDatabase(proc[q].work)' /\ IsDatabase(proc[q].start)'
    BY <2>2 DEF IsDatabase, Row
  <2>4. \A q, r \in Process :
          proc'[q].step = "migrating" /\ proc'[r].step = "migrating" => q = r
    BY <1>1 DEF RowsInv, TypeOK
  <2> QED BY <2>1, <2>2, <2>3, <2>4 DEF TypeOK, ProcessSteps
<1>3. MigrationsAreOnTheirWay'
  <2>1. Classify(db)' = Classify(db)
    BY DEF Classify
  <2>2. ASSUME NEW q \in Process, proc'[q].step = "migrating" PROVE OnItsWay(proc'[q].work)
    BY <1>1, <2>2 DEF RowsInv, MigrationsAreOnTheirWay
  <2>3. ASSUME NEW q \in Process, proc'[q].step = "migrating" PROVE OnItsWay(proc[q].work)'
    BY <2>2, <2>3 DEF OnItsWay, RowsAt, Backfillable
  <2> QED BY <2>1, <2>3 DEF RowsInv, MigrationsAreOnTheirWay
<1>4. MigratedRowsStay'
  BY DEF RowsInv, MigratedRowsStay, Classify, Backfillable, RowsAt
<1> QED BY <1>2, <1>3, <1>4 DEF RowsInv

(* Steps that do not touch the file.                                       *)
LEMMA QuietSteps ==
  ASSUME FileInv, RowsInv, NEW p \in Process,
         \/ \E request \in Requests : ReadVersion(p, request)
         \/ ValidateCurrent(p) \/ OpenReadOnly(p) \/ End(p)
  PROVE  RowsInv'
<1>1. PICK state : /\ Become(p, state) /\ UNCHANGED <<db, origin, written>>
                   /\ state.step \in {"read", "configuring", "reading", "closed"}
  <2>1. ASSUME NEW request \in Requests, ReadVersion(p, request)
        PROVE  \E state : /\ Become(p, state) /\ UNCHANGED <<db, origin, written>>
                          /\ state.step \in {"read", "configuring", "reading", "closed"}
    <3>1. [step |-> "read", seen |-> db.version, request |-> request].step = "read"
      OBVIOUS
    <3> QED BY <2>1, <3>1 DEF ReadVersion
  <2>2. Configuring(proc[p].request, FALSE).step = "configuring"
    BY DEF Configuring
  <2>3. [step |-> "reading"].step = "reading" /\ Closed.step = "closed"
    BY DEF Closed
  <2> QED BY <2>1, <2>2, <2>3 DEF ValidateCurrent, OpenReadOnly, End
<1> QED BY <1>1, RowsUntouched DEF ProcessSteps

(* The lock is taken on the file as it was first.                          *)
LEMMA BeginMigrationKeepsRows ==
  ASSUME FileInv, RowsInv, NEW p \in Process, BeginMigration(p)
  PROVE  RowsInv'
<1>1. CASE Become(p, Configuring(proc[p].request, FALSE))
  <2>1. Configuring(proc[p].request, FALSE).step = "configuring"
    BY DEF Configuring
  <2> QED BY <1>1, <2>1, RowsUntouched DEF BeginMigration, ProcessSteps
<1>2. CASE /\ Classify(db) \in 0..(Current - 1)
           /\ Become(p, Migrating(proc[p].seen, proc[p].request, db, db))
  <2> DEFINE state == Migrating(proc[p].seen, proc[p].request, db, db)
  <2>1. state.step = "migrating" /\ state.work = db /\ state.start = db /\ Become(p, state)
    BY <1>2 DEF Migrating
  <2>2. db = origin
    BY <1>2 DEF RowsInv, MigrationsAreOnTheirWay, Current
  <2>3. db.shape \in 0..(Current - 1) /\ IsDatabase(db)
    BY <1>2 DEF RowsInv, TypeOK, Classify, Current, Foreign
  <2>4. OnItsWay(db)
    BY <2>2, <2>3, StartIsOnItsWay
  <2> HIDE DEF state
  <2> QED BY <2>1, <2>3, <2>4, RowsUntouched DEF BeginMigration, WriteLockFree, ProcessSteps
<1> QED BY <1>1, <1>2 DEF BeginMigration

(* What a migrating process has.                                           *)
LEMMA MigratingFacts ==
  ASSUME FileInv, RowsInv, NEW p \in Process, proc[p].step = "migrating"
  PROVE  /\ proc[p].start = origin /\ db = origin
         /\ IsDatabase(origin) /\ IsDatabase(proc[p].work)
         /\ OnItsWay(proc[p].work) /\ proc[p].work.shape \in 0..Current
         /\ origin.shape \in 0..(Current - 1) /\ origin.version \in 0..(Current - 1)
         /\ \A q \in Process : q # p => proc[q].step # "migrating"
<1>1. /\ proc[p].start = db /\ Classify(db) \in 0..(Current - 1)
      /\ \A q \in Process : q # p => proc[q].step # "migrating"
      /\ proc[p].work.shape \in 0..Current
  BY DEF FileInv, LockOK, FieldsOK
<1>2. db = origin
  BY <1>1 DEF RowsInv, MigrationsAreOnTheirWay, Current
<1>3. IsDatabase(origin) /\ IsDatabase(proc[p].work) /\ OnItsWay(proc[p].work)
  BY DEF RowsInv, TypeOK, MigrationsAreOnTheirWay
<1>4. db.version \in Int /\ db.shape \in 0..Foreign
  BY <1>2, <1>3, DatabaseFacts
<1>5. db.shape \in 0..(Current - 1) /\ db.version \in 0..(Current - 1)
  BY <1>1, <1>4 DEF Classify, Current, Foreign
<1> QED BY <1>1, <1>2, <1>3, <1>5

LEMMA MigrateStepKeepsRows ==
  ASSUME FileInv, RowsInv, NEW p \in Process, MigrateStep(p)
  PROVE  RowsInv'
<1> DEFINE work == StepOf(proc[p].work)
           state == Migrating(proc[p].seen, proc[p].request, proc[p].start, work)
<1>1. /\ proc[p].step = "migrating" /\ proc[p].work.shape < Current
      /\ StepAccepts(proc[p].work)
      /\ Become(p, state) /\ UNCHANGED <<db, origin, written>>
  BY DEF MigrateStep, Working
<1>2. proc[p].work.shape \in 0..(Current - 1)
  BY <1>1, MigratingFacts DEF Current
<1>3. IsDatabase(work) /\ OnItsWay(work)
  BY <1>1, <1>2, MigratingFacts, StepStaysOnItsWay
<1> HIDE DEF work
<1>4. state.step = "migrating" /\ state.start = proc[p].start /\ state.work = work
  BY DEF Migrating
<1> HIDE DEF state
<1> QED BY <1>1, <1>3, <1>4, MigratingFacts, RowsUntouched DEF ProcessSteps

LEMMA WriteVersionKeepsRows ==
  ASSUME FileInv, RowsInv, NEW p \in Process, WriteVersion(p)
  PROVE  RowsInv'
<1> DEFINE d == proc[p].work
           work == [d EXCEPT !.version = Current]
           state == Migrating(proc[p].seen, proc[p].request, proc[p].start, work)
<1>1. /\ proc[p].step = "migrating" /\ d.shape = Current
      /\ Become(p, state) /\ UNCHANGED <<db, origin, written>>
  BY DEF WriteVersion, Working
<1>2. IsDatabase(d) /\ OnItsWay(d)
  BY <1>1, MigratingFacts
<1> HIDE DEF d
<1>3. work = [version |-> Current, shape |-> d.shape, rows |-> d.rows,
              sequence |-> d.sequence, journal |-> d.journal]
  BY <1>2, DatabaseFacts DEF Fields, IsDatabase
<1>4. IsDatabase(work)
  <2>1. Current \in Int /\ d.shape \in 1..Foreign
    BY <1>1 DEF Current, Foreign
  <2>2. RowsOK(d.rows) /\ d.sequence \in 0..MaxId /\ d.journal \in {"delete", "wal"}
    BY <1>2, DatabaseFacts
  <2>3. IsDatabase([version |-> Current, shape |-> d.shape, rows |-> d.rows,
                    sequence |-> d.sequence, journal |-> d.journal])
    BY <2>1, <2>2, MakeDatabase
  <2> HIDE DEF work
  <2> QED BY <1>3, <2>3
<1>5. OnItsWay(work)
  BY <1>1, <1>2, <1>3 DEF OnItsWay
<1> HIDE DEF work
<1>6. state.step = "migrating" /\ state.start = proc[p].start /\ state.work = work
  BY DEF Migrating
<1> HIDE DEF state
<1> QED BY <1>1, <1>4, <1>5, <1>6, MigratingFacts, RowsUntouched DEF ProcessSteps

(* Backfilled rows do not tie.                                             *)
LEMMA BackfilledRowsDoNotTie ==
  ASSUME NEW rows, RowsOK(rows), InRange(rows)
  PROVE  \A q, r \in InUseOrder(rows) : q.ns = r.ns /\ q # r => q.use # r.use
<1> SUFFICES ASSUME NEW q \in rows, NEW r \in rows,
                    WithUse(q, Backfilled(rows, q)).ns = WithUse(r, Backfilled(rows, r)).ns, q # r
             PROVE  WithUse(q, Backfilled(rows, q)).use # WithUse(r, Backfilled(rows, r)).use
  BY DEF InUseOrder
<1>1. /\ q \in Row /\ r \in Row
      /\ Backfilled(rows, q) \in Int /\ Backfilled(rows, r) \in Int
  BY InUseOrderIsImage DEF RowsOK
<1>2. q.ns = r.ns
  BY <1>1, WithUseOfRow
<1>3. Backfilled(rows, q) # Backfilled(rows, r)
  BY <1>2, RowsInRangeAreTable, BackfillKeepsTheOrder
<1> QED BY <1>1, <1>3, WithUseOfRow

LEMMA CommitKeepsRows ==
  ASSUME FileInv, FileInv', RowsInv, NEW p \in Process, CommitMigration(p)
  PROVE  RowsInv'
<1> DEFINE state == Configuring(proc[p].request, proc[p].start.shape = 0)
           work == proc[p].work
<1>1. /\ proc[p].step = "migrating" /\ Become(p, state)
      /\ PostconditionsHold(proc[p].start, work)
      /\ db' = work /\ origin' = origin /\ written' = written
  BY DEF CommitMigration
<1>2. /\ IsDatabase(work) /\ IsDatabase(origin) /\ OnItsWay(work)
      /\ origin.shape \in 0..(Current - 1)
      /\ \A q \in Process : q # p => proc[q].step # "migrating"
  BY <1>1, MigratingFacts
<1>3. Classify(work) = Current
  BY <1>1 DEF PostconditionsHold
<1>4. work.shape = Current
  BY <1>3 DEF Classify, Current, Foreign
<1> HIDE DEF work
<1>5. state.step = "configuring"
  BY DEF Configuring
<1> HIDE DEF state
<1>6. proc'[p] = state /\ \A q \in Process : q # p => proc'[q] = proc[q]
  BY <1>1, BecomeMovesOne DEF FileInv
<1>7. \A q \in Process : proc'[q].step \in ProcessSteps /\ proc'[q].step # "migrating"
  BY <1>2, <1>5, <1>6 DEF RowsInv, TypeOK, ProcessSteps
<1>8. TypeOK'
  <2>1. IsDatabase(db)' /\ IsDatabase(origin)' /\ written' \subseteq 1..MaxId
    BY <1>1, <1>2 DEF RowsInv, TypeOK, IsDatabase, Row
  <2> QED BY <1>7, <2>1 DEF TypeOK, ProcessSteps
<1>9. Classify(db)' = Current
  BY <1>1, <1>3 DEF Classify
<1>10. MigrationsAreOnTheirWay'
  BY <1>7, <1>9 DEF MigrationsAreOnTheirWay
<1>11. MigratedRowsStay'
  <2>1. work.sequence >= origin.sequence /\ Backfillable(origin) /\ work.rows = RowsAt(origin, Current)
    BY <1>2, <1>4 DEF OnItsWay
  <2>2. \A q, r \in work.rows : q.ns = r.ns /\ q # r => q.use # r.use
    BY <1>2, <2>1, RowsAtFive, BackfilledRowsDoNotTie DEF Backfillable
  <2> QED BY <1>1, <2>1, <2>2 DEF MigratedRowsStay, Backfillable, RowsAt
<1> QED BY <1>8, <1>10, <1>11 DEF RowsInv

LEMMA ConfigureKeepsRows ==
  ASSUME FileInv, RowsInv, NEW p \in Process, Configure(p)
  PROVE  RowsInv'
<1> DEFINE journal == JournalToApply(proc[p].request, proc[p].created)
           state == [step |-> "open"]
<1>1. /\ proc[p].step = "configuring" /\ Become(p, state)
      /\ db' = [db EXCEPT !.journal = journal] /\ origin' = origin /\ written' = written
  BY DEF Configure
<1>2. IsDatabase(db) /\ IsDatabase(origin)
  BY DEF RowsInv, TypeOK
<1>3. journal \in {"delete", "wal"}
  BY <1>1, <1>2, DatabaseFacts, SchemaAssumption DEF JournalToApply, FileInv, FieldsOK
<1> HIDE DEF journal
<1>4. db' = [version |-> db.version, shape |-> db.shape, rows |-> db.rows,
             sequence |-> db.sequence, journal |-> journal]
  BY <1>1, <1>2, DatabaseFacts DEF Fields, IsDatabase
<1>5. Classify(db) = Current /\ Classify(db)' = Current
  BY <1>1, <1>4 DEF FileInv, OpenMeansCurrent, Classify
<1>6. db.shape \in 1..Foreign
  BY <1>5 DEF Classify, Current, Foreign
<1>7. IsDatabase(db')
  BY <1>2, <1>3, <1>4, <1>6, DatabaseFacts, MakeDatabase
<1>8. proc'[p].step = "open" /\ \A q \in Process : q # p => proc'[q] = proc[q]
  BY <1>1, BecomeMovesOne DEF FileInv
<1>9. \A q \in Process : proc'[q].step \in ProcessSteps /\ proc'[q].step # "migrating"
  BY <1>5, <1>8 DEF RowsInv, TypeOK, ProcessSteps, FileInv, LockOK, Current
<1>10. TypeOK'
  <2>1. IsDatabase(db)' /\ IsDatabase(origin)' /\ written' \subseteq 1..MaxId
    BY <1>1, <1>2, <1>7 DEF RowsInv, TypeOK, IsDatabase, Row
  <2> QED BY <1>9, <2>1 DEF TypeOK, ProcessSteps
<1>11. MigrationsAreOnTheirWay'
  BY <1>5, <1>9 DEF MigrationsAreOnTheirWay
<1>12. MigratedRowsStay'
  BY <1>1, <1>4, <1>5 DEF RowsInv, MigratedRowsStay, Backfillable, RowsAt
<1> QED BY <1>10, <1>11, <1>12 DEF RowsInv

(* What a write stores is new: its id is above all, its use the newest of  *)
(* its namespace.                                                          *)
LEMMA WriteKeepsRows ==
  ASSUME FileInv, RowsInv, NEW p \in Process, NEW ns \in Namespace, NEW content \in Content,
         Write(p, ns, content)
  PROVE  RowsInv'
<1> DEFINE id == HighWater(db) + 1
           uses == {r.use + 1 : r \in {q \in db.rows : q.ns = ns}}
           use == Max({0} \cup uses)
           row == [id |-> id, ns |-> ns, mtime |-> 0, updated |-> 0, accessed |-> 0,
                   use |-> use, content |-> content]
<1>1. /\ proc[p].step = "open" /\ id <= MaxId /\ proc' = proc /\ origin' = origin
      /\ db' = Changed(db, db.shape, db.rows \cup {row}, id)
      /\ written' = written \cup {id}
  BY DEF Write
<1>2. IsDatabase(db) /\ IsDatabase(origin) /\ RowsOK(db.rows) /\ MaxId \in Nat
  BY DatabaseFacts, SchemaAssumption DEF RowsInv, TypeOK
<1>3. id \in 1..MaxId /\ db.sequence < id /\ \A r \in db.rows : r.id < id
  <2>1. /\ HighWater(db) \in 0..MaxId /\ db.sequence <= HighWater(db) /\ db.sequence \in Int
        /\ \A r \in db.rows : r.id <= HighWater(db) /\ r.id \in Int
    BY <1>2, HighWaterBounds, DatabaseFacts DEF RowsOK, Row
  <2> QED BY <1>1, <1>2, <2>1
<1>4. use \in Int /\ \A r \in db.rows : r.ns = ns => r.use < use
  <2> DEFINE mine == {q \in db.rows : q.ns = ns}
             f == [r \in mine |-> r.use + 1]
  <2>1. IsFiniteSet(mine) /\ \A r \in mine : r.use \in Int
    BY <1>2, FS_Subset DEF RowsOK, Row
  <2>2. f = [r \in mine |-> f[r]] /\ uses = {f[r] : r \in mine}
    OBVIOUS
  <2>3. uses \in SUBSET Int /\ \A r \in mine : r.use + 1 \in uses
    BY <2>1
  <2> HIDE DEF f, uses, mine
  <2>4. IsFiniteSet(uses)
    BY <2>1, <2>2, ImageOfFinite
  <2> DEFINE S == {0} \cup uses
  <2>5. IsFiniteSet(S)
    BY <2>4, FS_Singleton, FS_Union
  <2>6. S \in SUBSET Int /\ S # {}
    BY <2>3
  <2>7. Max(S) \in S /\ \A x \in S : x <= Max(S)
    BY <2>5, <2>6, MaxOfFinite
  <2>8. use \in Int /\ \A r \in mine : r.use + 1 <= use
    BY <2>3, <2>6, <2>7
  <2> HIDE DEF use
  <2>9. \A r \in mine : r.use < use
    BY <2>1, <2>8
  <2> QED BY <2>8, <2>9 DEF mine
<1> HIDE DEF id, use
<1>5. row \in Row /\ row.id = id /\ row.ns = ns /\ row.use = use
  BY <1>3, <1>4 DEF Row
<1> HIDE DEF row
<1>6. RowsOK(db.rows \cup {row})
  <2>1. IsFiniteSet(db.rows \cup {row})
    BY <1>2, FS_AddElement DEF RowsOK
  <2>2. \A r \in db.rows : r.id # row.id
    <3>1. \A r \in db.rows : r.id \in Int
      BY <1>2 DEF RowsOK, Row
    <3> QED BY <1>3, <1>5, <3>1
  <2> QED BY <1>2, <1>5, <2>1, <2>2 DEF RowsOK
<1>7. db' = [version |-> db.version, shape |-> db.shape, rows |-> db.rows \cup {row},
             sequence |-> id, journal |-> db.journal]
  BY <1>1 DEF Changed
<1>8. Classify(db) = Current /\ Classify(db)' = Current
  BY <1>1, <1>7 DEF FileInv, OpenMeansCurrent, Classify
<1>9. IsDatabase(db')
  <2>1. db.shape \in 1..Foreign /\ id \in 0..MaxId
    BY <1>3, <1>8 DEF Classify, Current, Foreign
  <2> QED BY <1>2, <1>6, <1>7, <2>1, DatabaseFacts, MakeDatabase
<1>10. \A q \in Process : proc[q].step # "migrating"
  BY <1>8 DEF FileInv, LockOK, Current
<1>11. TypeOK'
  <2>1. IsDatabase(db)' /\ IsDatabase(origin)' /\ written' \subseteq 1..MaxId
    BY <1>1, <1>2, <1>3, <1>9 DEF RowsInv, TypeOK, IsDatabase, Row
  <2> QED BY <1>1, <1>10, <2>1 DEF RowsInv, TypeOK
<1>12. MigrationsAreOnTheirWay'
  BY <1>1, <1>8, <1>10 DEF MigrationsAreOnTheirWay
<1>13. MigratedRowsStay'
  <2>1. db'.sequence >= origin'.sequence
    <3>1. db.sequence >= origin.sequence /\ db.sequence \in Int /\ origin.sequence \in Int
      BY <1>2, DatabaseFacts DEF RowsInv, MigratedRowsStay
    <3> QED BY <1>1, <1>3, <1>7, <3>1
  <2>2. ASSUME origin.shape \in 1..5
        PROVE  /\ Backfillable(origin)' /\ RowsAt(origin, Current)' \subseteq db'.rows
               /\ \A q, r \in db'.rows : q.ns = r.ns /\ q # r => q.use # r.use
    <3>1. /\ Backfillable(origin) /\ RowsAt(origin, Current) \subseteq db.rows
          /\ \A q, r \in db.rows : q.ns = r.ns /\ q # r => q.use # r.use
      BY <1>8, <2>2 DEF RowsInv, MigratedRowsStay
    <3>2. Backfillable(origin)' /\ RowsAt(origin, Current)' = RowsAt(origin, Current)
      BY <1>1, <3>1 DEF Backfillable, RowsAt
    <3>3. \A r \in db.rows : r.ns = row.ns => r.use # row.use
      <4>1. \A r \in db.rows : r.use \in Int
        BY <1>2 DEF RowsOK, Row
      <4> QED BY <1>4, <1>5, <4>1
    <3> QED BY <1>7, <3>1, <3>2, <3>3
  <2> QED BY <1>1, <2>1, <2>2 DEF MigratedRowsStay
<1> QED BY <1>11, <1>12, <1>13 DEF RowsInv

LEMMA RowsInit == Init => RowsInv
<1> SUFFICES ASSUME Init PROVE RowsInv
  OBVIOUS
<1>1. db \in Databases /\ origin = db /\ written = {} /\ \A p \in Process : proc[p] = Closed
  BY DEF Init
<1>2. IsDatabase(db) /\ Closed.step = "closed"
  BY <1>1, SchemaAssumption DEF Closed
<1>3. TypeOK
  BY <1>1, <1>2 DEF TypeOK
<1>4. MigrationsAreOnTheirWay
  BY <1>1, <1>2 DEF MigrationsAreOnTheirWay
<1>5. MigratedRowsStay
  <2>1. db.sequence >= origin.sequence
    BY <1>1, <1>2, DatabaseFacts
  <2>2. Classify(db) = Current => db.shape = Current
    BY DEF Classify, Current, Foreign
  <2> QED BY <1>1, <2>1, <2>2 DEF MigratedRowsStay, Current
<1> QED BY <1>3, <1>4, <1>5 DEF RowsInv

LEMMA RowsNext == FileInv /\ FileInv' /\ RowsInv /\ [Next]_vars => RowsInv'
<1> SUFFICES ASSUME FileInv, FileInv', RowsInv, [Next]_vars PROVE RowsInv'
  OBVIOUS
<1>1. CASE UNCHANGED vars
  BY <1>1 DEF vars, RowsInv, TypeOK, MigrationsAreOnTheirWay, MigratedRowsStay, OnItsWay,
              Backfillable, RowsAt, IsDatabase, Row, Classify
<1>2. CASE Next
  BY <1>2, QuietSteps, BeginMigrationKeepsRows, MigrateStepKeepsRows, WriteVersionKeepsRows,
     CommitKeepsRows, ConfigureKeepsRows, WriteKeepsRows
  DEF Next
<1> QED BY <1>1, <1>2

(* The whole inductive invariant, for every file and number of processes:  *)
(* on the way, a migration has the rows of the file at its shape; once it  *)
(* is committed they stay, and no two of a namespace have the same use.    *)
THEOREM OpenInvariance == Spec => []IInv
<1>1. IInv <=> FileInv /\ RowsInv
  BY DEF IInv, RowsInv
<1> QED BY <1>1, FileInvariance, RowsInit, RowsNext, PTL DEF Spec

(* The postconditions never refuse a migration: the snapshot is the same,  *)
(* and the use of each row is what the recurrence expects, below the limit *)
(* (validate_and_remove, validate_use_order).                              *)
THEOREM MigrationsPass == Spec => []MigrationsPassTheirChecks
<1>1. ASSUME FileInv, RowsInv PROVE MigrationsPassTheirChecks
  <2> SUFFICES ASSUME NEW p \in Process, proc[p].step = "migrating", proc[p].work.version = Current
               PROVE  PostconditionsHold(proc[p].start, proc[p].work)
    BY DEF MigrationsPassTheirChecks
  <2> DEFINE work == proc[p].work
             five == RowsAt(origin, 5)
  <2>1. /\ proc[p].start = origin /\ IsDatabase(origin) /\ IsDatabase(work) /\ OnItsWay(work)
        /\ origin.shape \in 0..(Current - 1) /\ origin.version # Current
        /\ work.version = Current
    BY <1>1, MigratingFacts DEF Current
  <2> HIDE DEF work
  <2>2. /\ work.shape = Current /\ Backfillable(origin) /\ work.rows = RowsAt(origin, Current)
        /\ work.shape >= origin.shape
    BY <2>1 DEF OnItsWay
  <2>3. Logical(work) = Logical(origin)
    <3>1. /\ origin.shape \in 0..Current /\ work.shape \in 0..Current /\ origin.shape # Current
          /\ work.rows = RowsAt(origin, work.shape)
      BY <2>1, <2>2 DEF Current
    <3> QED BY <2>1, <2>2, <3>1, LogicalIsKept
  <2>4. Classify(work) = Current
    BY <2>1, <2>2 DEF Classify, Current
  <2>5. /\ RowsOK(five) /\ InRange(five) /\ FitsUseOrder(five)
        /\ work.rows = {WithUse(r, Backfilled(five, r)) : r \in five}
        /\ RowsOK(origin.rows)
    BY <2>1, <2>2, RowsAtFive, DatabaseFacts DEF Backfillable, InUseOrder
  <2>6. ASSUME NEW s \in origin.rows
        PROVE  \E r \in work.rows : /\ r.id = s.id /\ r.use = Expected(origin.rows, s)
                                   /\ r.use \in 0..(UseLimit - 1)
    <3>1. PICK f \in five : /\ f.id = s.id
                            /\ Backfilled(five, f) = Backfilled(origin.rows, s)
      <4>1. CASE origin.shape <= 4
        <5>1. five = InNanos(origin.rows) /\ s \in Row
          BY <2>1, <2>5, <4>1, RowsAtFive DEF RowsOK
        <5> HIDE DEF five
        <5>2. Nanos(s) \in five /\ Nanos(s).id = s.id
          BY <2>5, <5>1, InNanosIsImage, NanosOfRow
        <5>3. Backfilled(five, Nanos(s)) = Backfilled(origin.rows, s)
          BY <2>5, <5>1, BackfilledInNanos
        <5> QED BY <5>2, <5>3
      <4>2. CASE origin.shape = 5
        BY <2>1, <4>2, RowsAtFive
      <4> QED BY <2>1, <4>1, <4>2 DEF Current
    <3>2. Expected(origin.rows, s) = Backfilled(origin.rows, s)
      <4>1. InRange(origin.rows)
        BY <2>1, <2>5, RowsAtFive, InNanosIsImage
      <4> QED BY <2>5, <4>1, RowsInRangeAreTable, BackfillIsExpected
    <3> HIDE DEF five
    <3>3. f \in Row /\ Backfilled(five, f) \in Nat /\ Backfilled(five, f) < UseLimit
      BY <2>5, InUseOrderIsImage DEF RowsOK, FitsUseOrder
    <3> DEFINE b == Backfilled(five, f)
               r == WithUse(f, b)
    <3>4. r \in work.rows
      BY <2>5
    <3>5. r.id = s.id /\ r.use = b
      BY <3>1, <3>3, WithUseOfRow
    <3>6. b = Expected(origin.rows, s)
      BY <3>1, <3>2
    <3> HIDE DEF b, r
    <3>7. b \in 0..(UseLimit - 1)
      BY <3>3, BackfillAssumption DEF b
    <3> QED BY <3>4, <3>5, <3>6, <3>7
  <2> QED BY <2>1, <2>3, <2>4, <2>6 DEF PostconditionsHold, work
<1>2. IInv => MigrationsPassTheirChecks
  BY <1>1 DEF IInv, RowsInv
<1> QED BY <1>2, OpenInvariance, PTL

(* A migrated file keeps the order of the last uses, and no two entries of *)
(* a namespace tie, for any rows the migration accepts (migrate_v5_to_v6). *)
THEOREM MigrationsKeepTheUseOrder == Spec => []UseOrderKept
<1>1. ASSUME RowsInv PROVE UseOrderKept
  <2> SUFFICES ASSUME origin.shape \in 1..5, Classify(db) = Current
               PROVE  UseOrderKept
    BY DEF UseOrderKept
  <2> DEFINE five == RowsAt(origin, 5)
             use(id) == (CHOOSE r \in db.rows : r.id = id).use
  <2>1. /\ IsDatabase(origin) /\ IsDatabase(db) /\ Backfillable(origin)
        /\ RowsAt(origin, Current) \subseteq db.rows
        /\ \A q, r \in db.rows : q.ns = r.ns /\ q # r => q.use # r.use
    BY <1>1 DEF RowsInv, TypeOK, MigratedRowsStay
  <2>2. /\ RowsOK(five) /\ InRange(five) /\ RowsOK(db.rows) /\ RowsOK(origin.rows)
        /\ \A r \in five : WithUse(r, Backfilled(five, r)) \in db.rows
    BY <2>1, RowsAtFive, DatabaseFacts DEF Backfillable, InUseOrder
  <2>3. five = (IF origin.shape <= 4 THEN InNanos(origin.rows) ELSE origin.rows)
    BY <2>1, RowsAtFive
  <2> HIDE DEF five
  <2>4. ASSUME NEW q \in origin.rows
        PROVE  \E f \in five : /\ f.ns = q.ns /\ f.id = q.id /\ f.updated = q.updated
                              /\ Second(f) = Second(q) /\ use(q.id) = Backfilled(five, f)
    <3>1. PICK f \in five : /\ f.ns = q.ns /\ f.id = q.id /\ f.updated = q.updated
                            /\ Second(f) = Second(q)
      <4>1. q \in Row
        BY <2>2 DEF RowsOK
      <4>2. CASE origin.shape <= 4
        <5>1. Nanos(q) \in five
          BY <2>2, <2>3, <4>2, InNanosIsImage
        <5> QED BY <4>1, <5>1, NanosOfRow
      <4>3. CASE ~(origin.shape <= 4)
        BY <2>3, <4>3
      <4> QED BY <4>2, <4>3
    <3> DEFINE b == Backfilled(five, f)
               r == WithUse(f, b)
    <3>2. f \in Row /\ b \in Int
      BY <2>2, InUseOrderIsImage DEF RowsOK
    <3>3. r \in db.rows /\ r.id = q.id /\ r.use = b
      BY <2>2, <3>1, <3>2, WithUseOfRow
    <3> HIDE DEF r, b
    <3>4. (CHOOSE s \in db.rows : s.id = q.id) = r
      BY <2>2, <3>3 DEF RowsOK
    <3> QED BY <3>1, <3>3, <3>4 DEF b
  <2>5. ASSUME NEW q \in origin.rows, NEW r \in origin.rows, q.ns = r.ns, Earlier(q, r)
        PROVE  use(q.id) < use(r.id)
    <3>1. PICK f \in five : /\ f.ns = q.ns /\ f.id = q.id /\ f.updated = q.updated
                            /\ Second(f) = Second(q) /\ use(q.id) = Backfilled(five, f)
      BY <2>4
    <3>2. PICK g \in five : /\ g.ns = r.ns /\ g.id = r.id /\ g.updated = r.updated
                            /\ Second(g) = Second(r) /\ use(r.id) = Backfilled(five, g)
      BY <2>4
    <3>3. Earlier(f, g) /\ f.ns = g.ns
      BY <2>5, <3>1, <3>2 DEF Earlier
    <3>4. Backfilled(five, f) < Backfilled(five, g)
      BY <2>2, <3>3, RowsInRangeAreTable, BackfillKeepsTheOrder
    <3> HIDE DEF use
    <3> QED BY <3>1, <3>2, <3>4
  <2> QED BY <2>1, <2>5 DEF UseOrderKept, Earlier, Second
<1>2. IInv => UseOrderKept
  BY <1>1 DEF IInv, RowsInv
<1> QED BY <1>2, OpenInvariance, PTL

(* An id the file has ever had is not given again: the sequence outlives   *)
(* the deleted rows through every migration (migrate_v1_to_v2).            *)
THEOREM IdsAreFresh == Spec => IdsAreNotReused
<1>1. ASSUME IInv, [Next]_vars
      PROVE  [\A i \in written' \ written : i > origin.sequence /\ i > HighWater(db)]_vars
  <2>1. CASE written' = written
    BY <2>1
  <2>2. CASE written' = written \cup {HighWater(db) + 1}
    <3>1. IsDatabase(db) /\ IsDatabase(origin) /\ db.sequence >= origin.sequence
      BY <1>1 DEF IInv, TypeOK, MigratedRowsStay
    <3>2. /\ HighWater(db) \in 0..MaxId /\ db.sequence <= HighWater(db)
          /\ db.sequence \in 0..MaxId /\ origin.sequence \in 0..MaxId
      BY <3>1, HighWaterBounds, DatabaseFacts
    <3>3. HighWater(db) + 1 > origin.sequence /\ HighWater(db) + 1 > HighWater(db)
      BY <3>1, <3>2
    <3> QED BY <2>2, <3>3
  <2>3. written' = written \/ written' = written \cup {HighWater(db) + 1}
    BY <1>1
    DEF Next, vars, ReadVersion, ValidateCurrent, BeginMigration, MigrateStep, WriteVersion,
        CommitMigration, Configure, OpenReadOnly, Write, End
  <2> QED BY <2>1, <2>2, <2>3
<1> QED BY <1>1, OpenInvariance, PTL DEF Spec, IdsAreNotReused
=============================================================================
