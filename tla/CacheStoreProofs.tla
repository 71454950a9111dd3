-------------------------- MODULE CacheStoreProofs --------------------------
(***************************************************************************)
(* Proofs about CacheStore, for every set of engines, namespaces and       *)
(* paths, every bound, every batch and every behaviour of the clock.       *)
(* First the operators of UseOrder, for every set of rows: the next use    *)
(* value exceeds the whole namespace, an eviction selects exactly the      *)
(* oldest unprotected rows, and it leaves the bound when the protected     *)
(* rows fit in it.  Then the inductive invariant and the properties of the *)
(* store, and last that it implements LruCache.                            *)
(***************************************************************************)
EXTENDS CacheStoreRefinesLru, FiniteSetTheorems, WellFoundedInduction, TLAPS

(* A set of rows as the table holds them: a use value below the limit, and *)
(* no id twice.                                                            *)
Rows(S) ==
  /\ IsFiniteSet(S)
  /\ \A r \in S : r.id \in Nat /\ r.use \in Nat /\ r.use < UseLimit
  /\ \A r, s \in S : r.id = s.id => r = s

(* The maximum of the namespace exists and bounds every use value of it.   *)
LEMMA MaxUseBounds ==
  ASSUME NEW S, Rows(S)
  PROVE  /\ MaxUse(S) \in Nat
         /\ \A r \in S : r.use <= MaxUse(S)
         /\ MaxUse(S) = 0 \/ \E r \in S : r.use = MaxUse(S)
<1> DEFINE U == {0} \cup {r.use : r \in S}
           B == {n \in Nat : \A u \in U : u <= n}
<1>1. UseLimit \in Nat /\ \A u \in U : u \in Nat /\ u <= UseLimit
  BY UseLimitAssumption DEF Rows
<1>2. B \subseteq Nat /\ B # {}
  <2>1. UseLimit \in B
    BY <1>1
  <2> QED BY <2>1
<1>3. PICK m \in B : \A n \in B : ~(<<n, m>> \in OpToRel(<, Nat))
  BY <1>2, NatLessThanWellFounded, WFMin
<1>4. \A n \in B : m <= n
  <2> SUFFICES ASSUME NEW n \in B PROVE ~(n < m)
    BY <1>2
  <2>1. <<n, m>> \in Nat \X Nat /\ <<n, m>>[1] = n /\ <<n, m>>[2] = m
    BY <1>2
  <2>2. ASSUME n < m PROVE <<n, m>> \in OpToRel(<, Nat)
    BY <2>1, <2>2 DEF OpToRel
  <2> QED BY <2>2, <1>3
<1>5. m \in U
  <2> SUFFICES ASSUME m \notin U PROVE FALSE
    OBVIOUS
  <2>1. m \in Nat /\ m # 0 /\ \A u \in U : u < m
    BY <1>1
  <2>2. m - 1 \in Nat /\ \A u \in U : u <= m - 1
    BY <1>1, <2>1
  <2>3. m - 1 \in B
    BY <2>2
  <2> QED BY <2>3, <2>1, <1>4
<1>6. Max(U) \in U /\ \A u \in U : u <= Max(U)
  <2>1. \E x \in U : \A u \in U : x >= u
    BY <1>5, <1>1
  <2> QED BY <2>1, <1>1 DEF Max
<1> HIDE DEF U
<1>7. MaxUse(S) \in U /\ \A u \in U : u <= MaxUse(S)
  BY <1>6 DEF MaxUse, U
<1> QED BY <1>7, <1>1 DEF U

(* The value a use assigns is a natural number above every value of the    *)
(* namespace, whatever the clock returns (RFC 026 R1).                     *)
LEMMA UseValueAboveAll ==
  ASSUME NEW S, Rows(S), NEW now \in Nat
  PROVE  /\ UseValue(S, now) \in Nat
         /\ \A r \in S : r.use < UseValue(S, now)
<1>1. MaxUse(S) \in Nat /\ \A r \in S : r.use <= MaxUse(S)
  BY MaxUseBounds
<1>2. UseValue(S, now) \in Nat /\ UseValue(S, now) > MaxUse(S)
  BY <1>1 DEF UseValue
<1>3. \A r \in S : r.use \in Nat
  BY DEF Rows
<1> QED BY <1>1, <1>2, <1>3

-----------------------------------------------------------------------------
(* ORDER BY last_used_us, id is a strict total order of the rows.          *)
LEMMA BeforeIsStrictTotal ==
  ASSUME NEW S, Rows(S), NEW r \in S, NEW s \in S, NEW t \in S
  PROVE  /\ ~Before(r, r)
         /\ Before(r, s) => ~Before(s, r)
         /\ Before(r, s) /\ Before(s, t) => Before(r, t)
         /\ r = s \/ Before(r, s) \/ Before(s, r)
  BY DEF Rows, Before

LEMMA SubsetsAreRows ==
  ASSUME NEW S, Rows(S), NEW T \in SUBSET S
  PROVE  Rows(T) /\ Cardinality(T) \in Nat /\ Cardinality(T) <= Cardinality(S)
  BY FS_Subset, FS_CardinalityType DEF Rows

(* The rank of a row: how many rows precede it.                            *)
LEMMA RankType ==
  ASSUME NEW S, Rows(S), NEW r \in S
  PROVE  /\ Predecessors(r, S) \subseteq S
         /\ r \notin Predecessors(r, S)
         /\ IsFiniteSet(Predecessors(r, S))
         /\ Cardinality(Predecessors(r, S)) \in Nat
         /\ Cardinality(Predecessors(r, S)) < Cardinality(S)
<1>1. Predecessors(r, S) \subseteq S /\ r \notin Predecessors(r, S)
  BY BeforeIsStrictTotal DEF Predecessors
<1>2. IsFiniteSet(S) /\ Cardinality(S) \in Nat
  BY FS_CardinalityType DEF Rows
<1>3. /\ IsFiniteSet(Predecessors(r, S))
      /\ Cardinality(Predecessors(r, S)) <= Cardinality(S)
      /\ Cardinality(S) = Cardinality(Predecessors(r, S)) => S = Predecessors(r, S)
  BY <1>1, <1>2, FS_Subset
<1>4. Cardinality(Predecessors(r, S)) \in Nat
  BY <1>3, FS_CardinalityType
<1> QED BY <1>1, <1>2, <1>3, <1>4

LEMMA RankIsMonotonic ==
  ASSUME NEW S, Rows(S), NEW r \in S, NEW s \in S
  PROVE  Before(r, s) <=> Cardinality(Predecessors(r, S)) < Cardinality(Predecessors(s, S))
<1>1. ASSUME NEW x \in S, NEW y \in S, Before(x, y)
      PROVE  Cardinality(Predecessors(x, S)) < Cardinality(Predecessors(y, S))
  <2>1. Predecessors(x, S) \subseteq Predecessors(y, S)
    BY <1>1, BeforeIsStrictTotal DEF Predecessors
  <2>2. x \in Predecessors(y, S) /\ x \notin Predecessors(x, S)
    BY <1>1, BeforeIsStrictTotal DEF Predecessors
  <2>3. /\ Cardinality(Predecessors(x, S)) <= Cardinality(Predecessors(y, S))
        /\ Cardinality(Predecessors(x, S)) # Cardinality(Predecessors(y, S))
    BY <2>1, <2>2, RankType, FS_Subset
  <2> QED BY <2>3, RankType
<1>2. CASE r = s
  BY <1>2, BeforeIsStrictTotal, RankType
<1>3. CASE Before(s, r)
  BY <1>3, <1>1, BeforeIsStrictTotal, RankType
<1>4. CASE Before(r, s)
  BY <1>4, <1>1
<1> QED BY <1>2, <1>3, <1>4, BeforeIsStrictTotal

-----------------------------------------------------------------------------
(* LIMIT n over an ordered set: n rows, or all of them when there are      *)
(* fewer.  The ranks are an injection of the rows into 0..|S|-1, so every  *)
(* rank is taken once.                                                     *)
LEMMA OldestCardinality ==
  ASSUME NEW S, Rows(S), NEW n \in Nat
  PROVE  /\ Oldest(S, n) \subseteq S
         /\ Cardinality(Oldest(S, n)) =
              IF n <= Cardinality(S) THEN n ELSE Cardinality(S)
<1> DEFINE k    == IF n <= Cardinality(S) THEN n ELSE Cardinality(S)
           rank == [r \in S |-> Cardinality(Predecessors(r, S))]
           T    == 0..(Cardinality(S) - 1)
           O    == Oldest(S, n)
           low  == [r \in O |-> rank[r]]
<1>1. IsFiniteSet(S) /\ Cardinality(S) \in Nat /\ k \in Nat /\ O \subseteq S
  BY FS_CardinalityType DEF Rows, Oldest
<1>2. IsFiniteSet(T) /\ Cardinality(T) = Cardinality(S)
  BY <1>1, FS_Interval
<1>3. rank \in Injection(S, T)
  <2>1. rank \in [S -> T]
    BY RankType, <1>1
  <2>2. ASSUME NEW r \in S, NEW s \in S, r # s PROVE rank[r] # rank[s]
    BY <2>2, BeforeIsStrictTotal, RankIsMonotonic, RankType
  <2> QED BY <2>1, <2>2 DEF Injection, IsInjective
<1>4. rank \in Surjection(S, T)
  BY <1>1, <1>2, <1>3, FS_Injection
<1>5. low \in Bijection(O, 0..(k - 1))
  <2>1. \A r \in O : rank[r] \in 0..(k - 1)
    BY <1>1, <1>3, RankType DEF Oldest
  <2>2. low \in Injection(O, 0..(k - 1))
    BY <2>1, <1>1, <1>3 DEF Injection, IsInjective
  <2>3. ASSUME NEW i \in 0..(k - 1) PROVE \E r \in O : low[r] = i
    <3>1. i \in T /\ i < n
      BY <1>1
    <3>2. PICK r \in S : rank[r] = i
      BY <3>1, <1>4 DEF Surjection
    <3>3. r \in O
      BY <3>1, <3>2 DEF Oldest
    <3> QED BY <3>2, <3>3
  <2>4. low \in Surjection(O, 0..(k - 1))
    BY <2>2, <2>3 DEF Surjection, Injection
  <2> QED BY <2>2, <2>4 DEF Bijection
<1>6. IsFiniteSet(O) /\ Cardinality(0..(k - 1)) = Cardinality(O)
  BY <1>1, <1>5, FS_Subset, FS_Bijection DEF ExistsBijection
<1>7. Cardinality(0..(k - 1)) = k
  <2> HIDE DEF k
  <2>1. 0 \in Int /\ k - 1 \in Int
    BY <1>1
  <2>2. Cardinality(0..(k - 1)) = IF 0 > k - 1 THEN 0 ELSE (k - 1) - 0 + 1
    BY <2>1, FS_Interval
  <2> QED BY <2>2, <1>1
<1> QED BY <1>1, <1>6, <1>7

(* The protected rows are no more than the protected ids.                  *)
LEMMA ProtectedRows ==
  ASSUME NEW S, Rows(S), NEW P, IsFiniteSet(P)
  PROVE  /\ Unprotected(S, P) \subseteq S
         /\ Cardinality(P) \in Nat
         /\ Cardinality(S \ Unprotected(S, P)) <= Cardinality(P)
         /\ Cardinality(S) = Cardinality(Unprotected(S, P)) + Cardinality(S \ Unprotected(S, P))
<1> DEFINE U == Unprotected(S, P)
           Q == S \ U
           f == [r \in Q |-> r.id]
<1>1. U \subseteq S /\ Q \subseteq S /\ IsFiniteSet(S) /\ Cardinality(P) \in Nat
  BY FS_CardinalityType DEF Unprotected, Rows
<1>2. f \in Injection(Q, P)
  BY <1>1 DEF Injection, IsInjective, Unprotected, Rows
<1>3. Cardinality(Q) <= Cardinality(P)
  BY <1>2, FS_Injection
<1>4. Cardinality(S \ U) = Cardinality(S) - Cardinality(S \cap U) /\ S \cap U = U
  BY <1>1, FS_Difference
<1>5. Cardinality(S) \in Nat /\ Cardinality(U) \in Nat
  BY <1>1, SubsetsAreRows, FS_CardinalityType
<1>6. Cardinality(Q) = Cardinality(S) - Cardinality(U)
  BY <1>4, Zenon
<1>7. Cardinality(S) = Cardinality(U) + Cardinality(Q)
  <2> HIDE DEF Q, U
  <2> QED BY <1>5, <1>6
<1> QED BY <1>1, <1>3, <1>7, Zenon

(* The claim in the comment of evict_lru: selecting |protected| rows more  *)
(* and filtering afterwards is the same as excluding the protected rows    *)
(* in the query.                                                           *)
LEMMA VictimsAreOldestUnprotected ==
  ASSUME NEW S, Rows(S), NEW n \in Nat, NEW P, IsFiniteSet(P)
  PROVE  Victims(S, n, P) = Oldest(Unprotected(S, P), n)
<1> DEFINE p == Cardinality(P)
           C == Oldest(S, n + p)
           U == Unprotected(S, P)
           V == Unprotected(C, P)
<1>1. /\ p \in Nat /\ U \subseteq S /\ C \subseteq S /\ V = C \cap U
      /\ Rows(U) /\ Rows(V) /\ IsFiniteSet(S)
  <2>1. p \in Nat /\ U \subseteq S /\ C \subseteq S /\ V = C \cap U
    BY FS_CardinalityType DEF Oldest, Unprotected
  <2> QED BY <2>1, SubsetsAreRows DEF Rows
<1>2. ASSUME NEW r \in U, Cardinality(Predecessors(r, U)) < n
      PROVE  r \in C
  <2> DEFINE A == Predecessors(r, U)
             B == Predecessors(r, S) \ U
  <2>1. Predecessors(r, S) = A \cup B /\ A \cap B = {} /\ A \subseteq S /\ B \subseteq S \ U
    BY <1>1 DEF Predecessors
  <2>2. IsFiniteSet(A) /\ IsFiniteSet(B) /\ IsFiniteSet(S \ U)
    BY <2>1, <1>1, FS_Subset
  <2>3. Cardinality(A) \in Nat /\ Cardinality(B) \in Nat /\ Cardinality(S \ U) \in Nat
    BY <2>2, FS_CardinalityType
  <2>4. Cardinality(B) <= Cardinality(S \ U) /\ Cardinality(S \ U) <= p
    BY <2>1, <2>2, FS_Subset, ProtectedRows
  <2>5. Cardinality(Predecessors(r, S)) = Cardinality(A) + Cardinality(B)
    <3>1. Cardinality(A \cup B) = Cardinality(A) + Cardinality(B) - Cardinality(A \cap B)
      BY <2>2, FS_Union
    <3>2. Cardinality(A \cap B) = 0
      BY <2>1, FS_EmptySet
    <3>3. Cardinality(A \cup B) = Cardinality(A) + Cardinality(B)
      <4> HIDE DEF A, B
      <4> QED BY <3>1, <3>2, <2>3
    <3> QED BY <3>3, <2>1, Zenon
  <2>6. Cardinality(Predecessors(r, S)) < n + p
    BY <2>3, <2>4, <2>5, <1>2, <1>1
  <2> QED BY <2>6, <1>1 DEF Oldest
<1>3. ASSUME NEW r \in V
      PROVE  Predecessors(r, V) = Predecessors(r, U)
  <2>1. ASSUME NEW s \in U, Before(s, r) PROVE s \in C
    <3>1. Cardinality(Predecessors(s, S)) < Cardinality(Predecessors(r, S))
      BY <2>1, <1>1, RankIsMonotonic
    <3>2. Cardinality(Predecessors(r, S)) < n + p
      BY <1>1 DEF Oldest
    <3> QED BY <3>1, <3>2, <1>1, RankType DEF Oldest
  <2> QED BY <2>1, <1>1 DEF Predecessors
<1>4. Oldest(V, n) = Oldest(U, n)
  <2>1. ASSUME NEW r \in Oldest(V, n) PROVE r \in Oldest(U, n)
    BY <2>1, <1>1, <1>3 DEF Oldest
  <2>2. ASSUME NEW r \in Oldest(U, n) PROVE r \in Oldest(V, n)
    BY <2>2, <1>1, <1>2, <1>3 DEF Oldest
  <2> QED BY <2>1, <2>2 DEF Oldest
<1> QED BY <1>4 DEF Victims

(* What enforce_max_entries does to the rows of a namespace.  It deletes   *)
(* no protected row; an entry it deletes is older than every entry it      *)
(* leaves and does not protect; and when the protected ids fit the bound,  *)
(* so does what is left.                                                   *)
THEOREM EvictionIsSound ==
  ASSUME NEW S, Rows(S), NEW max \in Nat, NEW P, IsFiniteSet(P)
  PROVE  /\ Evicted(S, max, P) \subseteq S
         /\ \A r \in Evicted(S, max, P) : r.id \notin P
         /\ \A r \in Evicted(S, max, P), s \in S \ Evicted(S, max, P) :
              s.id \in P \/ Before(r, s)
         /\ Cardinality(P) <= max => Cardinality(S \ Evicted(S, max, P)) <= max
<1> DEFINE U == Unprotected(S, P)
           n == Cardinality(S) - max
           V == Oldest(U, n)
<1>1. IsFiniteSet(S) /\ Cardinality(S) \in Nat
  BY FS_CardinalityType DEF Rows
<1>2. CASE Cardinality(S) <= max
  <2>1. Evicted(S, max, P) = {} /\ S \ {} = S
    BY <1>2 DEF Evicted
  <2> QED BY <2>1, <1>2
<1>3. CASE Cardinality(S) > max
  <2>1. n \in Nat
    BY <1>1, <1>3
  <2>2. Evicted(S, max, P) = V
    BY <1>1, <1>3, <2>1, VictimsAreOldestUnprotected DEF Evicted
  <2>3. U \subseteq S /\ Rows(U) /\ V \subseteq U
    BY SubsetsAreRows DEF Unprotected, Oldest
  <2>4. ASSUME NEW r \in V, NEW s \in S \ V PROVE s.id \in P \/ Before(r, s)
    <3> SUFFICES ASSUME s \in U PROVE Before(r, s)
      BY DEF Unprotected
    <3>1. /\ Cardinality(Predecessors(r, U)) < n
          /\ ~(Cardinality(Predecessors(s, U)) < n)
      BY <2>3 DEF Oldest
    <3> QED BY <3>1, <2>1, <2>3, RankType, RankIsMonotonic
  <2>5. ASSUME Cardinality(P) <= max PROVE Cardinality(S \ V) <= max
    <3>1. /\ Cardinality(P) \in Nat
          /\ Cardinality(S \ U) <= Cardinality(P)
          /\ Cardinality(S) = Cardinality(U) + Cardinality(S \ U)
          /\ Cardinality(U) \in Nat /\ Cardinality(S \ U) \in Nat
      BY <1>1, <2>3, ProtectedRows, SubsetsAreRows, FS_Subset, FS_CardinalityType
    <3>2. n <= Cardinality(U)
      BY <3>1, <2>5, <1>1
    <3>3. Cardinality(V) = n
      BY <3>2, <2>1, <2>3, OldestCardinality
    <3>4. S \cap V = V /\ Cardinality(S \ V) = Cardinality(S) - Cardinality(S \cap V)
      BY <1>1, <2>3, FS_Difference
    <3>5. Cardinality(S \ V) = Cardinality(S) - Cardinality(V)
      BY <3>4, Zenon
    <3> HIDE DEF V
    <3> QED BY <3>3, <3>5, <1>1
  <2>6. \A r \in V : r.id \notin P
    BY <2>3 DEF Unprotected
  <2> HIDE DEF V
  <2> QED BY <2>2, <2>3, <2>4, <2>5, <2>6
<1> QED BY <1>1, <1>2, <1>3

-----------------------------------------------------------------------------
(* A typed table with its ids distinct is a set of rows for the lemmas on  *)
(* the use order, and so are its rows of one namespace.                    *)
LEMMA TableIsRows ==
  ASSUME NEW F \in SUBSET Row, IsFiniteSet(F), NEW last, TableOK(F, last), NEW ns
  PROVE  Rows(F) /\ Rows(RowsOf(F, ns)) /\ RowsOf(F, ns) \subseteq F
<1>1. Rows(F)
  BY UseLimitAssumption DEF Row, Rows, TableOK
<1>2. RowsOf(F, ns) \subseteq F
  BY DEF RowsOf
<1> QED BY <1>1, <1>2, SubsetsAreRows

(* The value the next use of a namespace takes exceeds every use value of  *)
(* its rows.                                                               *)
LEMMA NextUse ==
  ASSUME NEW F \in SUBSET Row, IsFiniteSet(F), NEW last, TableOK(F, last),
         NEW ns, NEW now \in Clock
  PROVE  /\ UseValue(RowsOf(F, ns), now) \in Nat
         /\ \A r \in F : r.ns = ns => r.use < UseValue(RowsOf(F, ns), now)
<1>1. Rows(RowsOf(F, ns))
  BY TableIsRows
<1>2. now \in Nat
  BY ConstantsAssumption
<1> QED BY <1>1, <1>2, UseValueAboveAll DEF RowsOf

LEMMA InitInvariant == Init => IInv
<1> SUFFICES ASSUME Init PROVE IInv
  OBVIOUS
<1>1. TypeOK
  BY FS_EmptySet, ConstantsAssumption DEF Init, TypeOK, NoTx
<1> QED BY <1>1 DEF Init, IInv, TableOK, HeldOK, TxOK, NoTx

LEMMA FindStep ==
  ASSUME IInv, NEW e \in Engine, NEW p \in Path, Find(e, p)
  PROVE  IInv'
<1>0. PICK r \in RowsOf(files, NamespaceOf[e]) :
      /\ r.path = p
      /\ held' = [held EXCEPT ![e] = {[id |-> r.id, path |-> p]}]
  BY DEF Find
<1>1. r \in files /\ r.ns = NamespaceOf[e] /\ r.id \in 1..MaxId /\ r.path = p
  BY <1>0 DEF RowsOf, IInv, TypeOK, Row
<1>2. TypeOK'
  <2>1. held' \in [Engine -> SUBSET [id : 1..MaxId, path : Path]]
    BY <1>0, <1>1 DEF IInv, TypeOK
  <2> QED BY <2>1 DEF Find, IInv, TypeOK
<1>3. HeldOK'
  BY <1>0, <1>1 DEF Find, IInv, TypeOK, HeldOK, TableOK
<1>4. TxOK' /\ TableOK(files, lastId)'
  BY DEF Find, IInv, TxOK, WorkingOK, OthersOK, WrittenOK, WriteOK, CommitOK
<1> QED BY <1>2, <1>3, <1>4 DEF IInv

LEMMA EndReadStep ==
  ASSUME IInv, NEW e \in Engine, EndRead(e)
  PROVE  IInv'
<1>1. TypeOK' /\ HeldOK'
  BY DEF EndRead, IInv, TypeOK, HeldOK
<1>2. TxOK' /\ TableOK(files, lastId)'
  BY DEF EndRead, IInv, TxOK, WorkingOK, OthersOK, WrittenOK, WriteOK, CommitOK
<1> QED BY <1>1, <1>2 DEF IInv

LEMMA DeletePathsStep ==
  ASSUME IInv, NEW e \in Engine, NEW paths \in SUBSET Path, DeletePaths(e, paths)
  PROVE  IInv'
<1>1. files' \subseteq files /\ lastId' = lastId /\ held' = held /\ tx' = tx
  BY DEF DeletePaths
<1>2. TypeOK'
  BY <1>1, FS_Subset DEF IInv, TypeOK
<1>3. TableOK(files, lastId)' /\ HeldOK'
  BY <1>1 DEF IInv, TableOK, HeldOK
<1>4. TxOK'
  BY <1>1 DEF DeletePaths, CanWrite, WriteLockFree, TxOK
<1> QED BY <1>2, <1>3, <1>4 DEF IInv

(* A recorded use: the row with the held id, if any, gets a value above    *)
(* its namespace.                                                          *)
LEMMA RecordUseStep ==
  ASSUME IInv, NEW e \in Engine, RecordUse(e)
  PROVE  IInv'
<1>p. PICK h \in held[e], now \in Clock :
      LET use == UseValue(RowsOf(files, NamespaceOf[e]), now)
      IN  /\ FitsUseOrder(use) \/ \A r \in files : r.id # h.id
          /\ files' = {IF r.id = h.id
                         THEN [r EXCEPT !.use = use, !.src = "use"]
                         ELSE r : r \in files}
  BY DEF RecordUse
<1> DEFINE use  == UseValue(RowsOf(files, NamespaceOf[e]), now)
           f(r) == IF r.id = h.id THEN [r EXCEPT !.use = use, !.src = "use"] ELSE r
<1>1. files' = {f(r) : r \in files}
  BY <1>p
<1>u. FitsUseOrder(use) \/ \A r \in files : r.id # h.id
  BY <1>p
<1>t. /\ files \subseteq Row /\ IsFiniteSet(files) /\ TableOK(files, lastId)
      /\ \A r \in files : r.id = h.id => r.ns = NamespaceOf[e] /\ r.path = h.path
  BY DEF IInv, TypeOK, HeldOK
<1>0. lastId' = lastId /\ tx' = tx /\ held' = [held EXCEPT ![e] = {}]
  BY DEF RecordUse
<1>2. use \in Nat /\ \A r \in files : r.ns = NamespaceOf[e] => r.use < use
  BY <1>t, NextUse
<1>3. \A r \in files :
        /\ f(r) \in Row
        /\ f(r).id = r.id /\ f(r).ns = r.ns /\ f(r).path = r.path
        /\ r.id = h.id => f(r).use = use /\ f(r).src = "use" /\ r.ns = NamespaceOf[e]
        /\ r.id # h.id => f(r) = r
  <2> SUFFICES ASSUME NEW r \in files
               PROVE  /\ f(r) \in Row
                      /\ f(r).id = r.id /\ f(r).ns = r.ns /\ f(r).path = r.path
                      /\ r.id = h.id => f(r).use = use /\ f(r).src = "use" /\ r.ns = NamespaceOf[e]
                      /\ r.id # h.id => f(r) = r
    OBVIOUS
  <2>1. CASE r.id # h.id
    BY <2>1, <1>t
  <2>2. CASE r.id = h.id
    <3>1. use \in 0..(UseLimit - 1)
      <4> HIDE DEF use
      <4> QED BY <1>u, <1>2, <2>2, UseLimitAssumption DEF FitsUseOrder
    <3> HIDE DEF use
    <3>2. r \in Row /\ f(r) = [r EXCEPT !.use = use, !.src = "use"]
      BY <2>2, <1>t
    <3> HIDE DEF f
    <3> QED BY <3>1, <3>2, <2>2, <1>t DEF Row
  <2> QED BY <2>1, <2>2
<1> HIDE DEF f, use
<1>9. \A r \in files' : \E x \in files : r = f(x)
  BY <1>1
<1>4. IsFiniteSet(files')
  <2> DEFINE g == [r \in files |-> f(r)]
  <2>1. g \in Surjection(files, files')
    BY <1>1 DEF Surjection
  <2> QED BY <2>1, FS_Surjection, <1>t
<1>5. TypeOK'
  BY <1>0, <1>3, <1>4, <1>9 DEF IInv, TypeOK
<1>6. TableOK(files, lastId)'
  <2>1. \A r \in files' : r.id <= lastId'
    BY <1>t, <1>0, <1>3, <1>9 DEF TableOK
  <2>2. \A r, s \in files' : r.id = s.id => r = s
    BY <1>t, <1>3, <1>9 DEF TableOK
  <2>3. \A r, s \in files' : (r.ns = s.ns /\ r.path = s.path) => r = s
    BY <1>t, <1>3, <1>9 DEF TableOK
  <2>4. ASSUME NEW r \in files, NEW s \in files, f(r).ns = f(s).ns,
               f(r).src = "use", f(s).src = "use", f(r).use = f(s).use
        PROVE  f(r) = f(s)
    <3>1. CASE r.id = h.id /\ s.id = h.id
      BY <1>t, <3>1 DEF TableOK
    <3>2. CASE r.id = h.id /\ s.id # h.id
      <4>1. s.use < use /\ f(s) = s /\ f(r).use = use
        BY <3>2, <2>4, <1>2, <1>3
      <4> QED BY <4>1, <2>4, <1>2, <1>t DEF Row
    <3>3. CASE r.id # h.id /\ s.id = h.id
      <4>1. r.use < use /\ f(r) = r /\ f(s).use = use
        BY <3>3, <2>4, <1>2, <1>3
      <4> QED BY <4>1, <2>4, <1>2, <1>t DEF Row
    <3>4. CASE r.id # h.id /\ s.id # h.id
      BY <1>t, <3>4, <2>4, <1>3 DEF TableOK
    <3> QED BY <3>1, <3>2, <3>3, <3>4
  <2> QED BY <2>1, <2>2, <2>3, <2>4, <1>9 DEF TableOK
<1>7. HeldOK'
  BY <1>0, <1>3, <1>9 DEF IInv, TypeOK, HeldOK
<1>8. TxOK'
  BY DEF RecordUse, WriteLockFree, TxOK
<1> QED BY <1>5, <1>6, <1>7, <1>8 DEF IInv

-----------------------------------------------------------------------------
(* The transaction begins with the committed rows and nothing written.     *)
LEMMA BeginWriteStep ==
  ASSUME IInv, NEW e \in Engine, NEW restore \in BOOLEAN, NEW items \in Seq(Item),
         BeginWrite(e, restore, items)
  PROVE  IInv'
<1>1. /\ tx' = [phase |-> "write", owner |-> e, restore |-> restore,
                items |-> items, next |-> 1, written |-> {},
                files |-> files, lastId |-> lastId]
      /\ files' = files /\ lastId' = lastId /\ held' = held
      /\ Accepted(e, items)
  BY DEF BeginWrite
<1>2. /\ files \subseteq Row /\ IsFiniteSet(files) /\ lastId \in 0..MaxId
      /\ TableOK(files, lastId) /\ HeldOK
      /\ held \in [Engine -> SUBSET [id : 1..MaxId, path : Path]]
  BY DEF IInv, TypeOK
<1>3. TypeOK'
  BY <1>1, <1>2 DEF TypeOK
<1>4. TableOK(files, lastId)' /\ HeldOK'
  BY <1>1, <1>2 DEF HeldOK
<1>5. Len(items) \in Nat /\ 1..(1 - 1) = {}
  OBVIOUS
<1>6. WorkingOK' /\ OthersOK' /\ WrittenOK' /\ WriteOK' /\ CommitOK'
  <2>1. WorkingOK'
    BY <1>1, <1>2 DEF WorkingOK
  <2>4. OthersOK'
    BY <1>1 DEF OthersOK
  <2>2. WrittenOK'
    BY <1>1, <1>5 DEF WrittenOK
  <2>3. WriteOK' /\ CommitOK'
    BY <1>1 DEF WriteOK, CommitOK
  <2> QED BY <2>1, <2>2, <2>3, <2>4
<1>7. TxOK'
  BY <1>1, <1>2, <1>6, ConstantsAssumption DEF TxOK, Accepted
<1> QED BY <1>3, <1>4, <1>7 DEF IInv

LEMMA BeginStoreStep ==
  ASSUME IInv, NEW e \in Engine, NEW paths \in StoreBatches, BeginStore(e, paths)
  PROVE  IInv'
<1> DEFINE items == [i \in DOMAIN paths |-> [path |-> paths[i], use |-> 0]]
<1>1. paths \in Seq(Path)
  BY ConstantsAssumption
<1>2. items \in Seq(Item)
  <2>1. Len(paths) \in Nat /\ DOMAIN paths = 1..Len(paths)
    BY <1>1
  <2>2. ASSUME NEW i \in 1..Len(paths) PROVE [path |-> paths[i], use |-> 0] \in Item
    <3>1. paths[i] \in Path
      BY <1>1
    <3> QED BY <3>1, UseLimitAssumption DEF Item
  <2>3. items \in [1..Len(paths) -> Item]
    BY <2>1, <2>2
  <2> QED BY <2>1, <2>3
<1>3. BeginWrite(e, FALSE, items)
  BY DEF BeginStore
<1> HIDE DEF items
<1> QED BY <1>2, <1>3, BeginWriteStep

LEMMA BeginImportStep ==
  ASSUME IInv, NEW e \in Engine, NEW records \in ImportBatches, BeginImport(e, records)
  PROVE  IInv'
<1> DEFINE items == [i \in DOMAIN records |->
                       [path |-> records[i].path, use |-> UseValueOfRecord(records[i])]]
<1>1. records \in Seq(ImportRecord)
  BY ConstantsAssumption
<1>2. ASSUME NEW i \in DOMAIN records
      PROVE  records[i].path \in Path /\ UseValueOfRecord(records[i]) \in 0..(UseLimit - 1)
  <2>1. records[i] \in ImportRecord
    BY <1>1
  <2>2. Representable(records[i])
    BY DEF BeginImport
  <2>3. LastUseSecond(records[i]) \in Nat
    BY <2>1, <2>2 DEF ImportRecord, Representable, LastUseSecond
  <2>4. LastUseSecond(records[i]) * MicrosPerSecond \in Nat
    BY <2>3, MicrosAssumption
  <2> QED BY <2>1, <2>2, <2>4, UseLimitAssumption
          DEF ImportRecord, Representable, UseValueOfRecord
<1>3. items \in Seq(Item)
  <2>1. Len(records) \in Nat /\ DOMAIN records = 1..Len(records)
    BY <1>1
  <2>2. items \in [1..Len(records) -> Item]
    BY <2>1, <1>2 DEF Item
  <2> QED BY <2>1, <2>2
<1>4. BeginWrite(e, TRUE, items)
  BY DEF BeginImport
<1> HIDE DEF items
<1> QED BY <1>3, <1>4, BeginWriteStep

(* The row one upsert leaves, under the id it had or the next new one.     *)
LEMMA UpsertStep ==
  ASSUME IInv, NEW e \in Engine, tx.owner = e, tx.phase = "write",
         tx.next <= Len(tx.items),
         NEW use \in 0..(UseLimit - 1), NEW src \in {"use", "import"},
         src = "use" => \A r \in tx.files : r.ns = NamespaceOf[e] => r.use < use,
         Upsert(NamespaceOf[e], tx.items[tx.next].path, use, src),
         UNCHANGED <<files, lastId, held>>
  PROVE  IInv'
<1> DEFINE ns   == NamespaceOf[e]
           path == tx.items[tx.next].path
           F    == tx.files
           old  == {r \in F : r.ns = ns /\ r.path = path}
           row(id) == [id |-> id, ns |-> ns, path |-> path, use |-> use, src |-> src]
<1>1. /\ TypeOK /\ TableOK(files, lastId) /\ HeldOK
      /\ Accepted(e, tx.items) /\ TableOK(F, tx.lastId)
      /\ WorkingOK /\ OthersOK /\ WrittenOK /\ WriteOK
  BY DEF IInv, TxOK
<1>2. /\ F \subseteq Row /\ IsFiniteSet(F) /\ tx.lastId \in 0..MaxId
      /\ tx.items \in Seq(Item) /\ tx.next \in Nat \ {0} /\ tx.written \subseteq 1..MaxId
      /\ lastId \in 0..MaxId
  BY <1>1 DEF TypeOK
<1>3. ns \in Namespace /\ path \in Path /\ tx.next \in DOMAIN tx.items
  <2>1. Len(tx.items) \in Nat /\ DOMAIN tx.items = 1..Len(tx.items)
    BY <1>2
  <2>2. tx.next \in DOMAIN tx.items
    BY <2>1, <1>2
  <2>3. tx.items[tx.next] \in Item
    BY <1>2, <2>2
  <2> QED BY <2>2, <2>3, ConstantsAssumption DEF Item
<1>4. PICK id \in 1..MaxId, last \in 0..MaxId :
        /\ \/ last = tx.lastId /\ \E r \in old : r.id = id
           \/ last = tx.lastId + 1 /\ id = last /\ old = {}
        /\ tx' = [tx EXCEPT !.files   = (F \ old) \cup {row(id)},
                            !.lastId  = last,
                            !.next    = tx.next + 1,
                            !.written = tx.written \cup {id}]
  <2>1. CASE old # {}
    <3>1. PICK r \in old :
            tx' = [tx EXCEPT !.files   = (F \ old) \cup {row(r.id)},
                             !.next    = tx.next + 1,
                             !.written = tx.written \cup {r.id}]
      BY <2>1 DEF Upsert
    <3>2. tx' = [tx EXCEPT !.files   = (F \ old) \cup {row(r.id)},
                           !.lastId  = tx.lastId,
                           !.next    = tx.next + 1,
                           !.written = tx.written \cup {r.id}]
      BY <3>1, <1>1 DEF TypeOK
    <3>3. r.id \in 1..MaxId
      BY <1>2 DEF Row
    <3> QED BY <3>2, <3>3, <1>2
  <2>2. CASE old = {}
    <3>1. /\ tx.lastId < MaxId
          /\ tx' = [tx EXCEPT !.files   = F \cup {row(tx.lastId + 1)},
                              !.lastId  = tx.lastId + 1,
                              !.next    = tx.next + 1,
                              !.written = tx.written \cup {tx.lastId + 1}]
      BY <2>2 DEF Upsert
    <3>2. F \ old = F /\ tx.lastId + 1 \in 1..MaxId /\ tx.lastId + 1 \in 0..MaxId
      BY <2>2, <3>1, <1>2, ConstantsAssumption
    <3> QED BY <3>1, <3>2, <2>2
  <2> QED BY <2>1, <2>2
<1> DEFINE G == (F \ old) \cup {row(id)}
<1>5. /\ tx'.phase = "write" /\ tx'.owner = e /\ tx'.items = tx.items
      /\ tx'.next = tx.next + 1 /\ tx'.written = tx.written \cup {id}
      /\ tx'.files = G /\ tx'.lastId = last
      /\ files' = files /\ lastId' = lastId /\ held' = held
      /\ tx'.restore = tx.restore
  BY <1>1, <1>4 DEF TypeOK
<1>6. /\ row(id) \in Row /\ row(id).id = id /\ row(id).ns = ns
      /\ row(id).path = path /\ row(id).use = use /\ row(id).src = src
  BY <1>3 DEF Row
<1>7. \A r \in F \ old : r.id # id
  BY <1>1, <1>2, <1>4 DEF TableOK, Row
<1>8. /\ tx.lastId <= last
      /\ id <= last
      /\ (\E r \in F : r.id = id /\ r.ns = ns /\ r.path = path) \/ id > tx.lastId
  BY <1>1, <1>2, <1>4 DEF TableOK
<1> HIDE DEF row, ns, path
<1>9. TypeOK'
  <2>1. IsFiniteSet(G) /\ G \subseteq Row
    BY <1>2, <1>6, FS_Subset, FS_AddElement
  <2> HIDE DEF G
  <2>3. tx' = [tx EXCEPT !.files = G, !.lastId = last, !.next = tx.next + 1,
                         !.written = tx.written \cup {id}]
    BY <1>4 DEF G
  <2>4. tx.next + 1 \in Nat \ {0} /\ tx.written \cup {id} \in SUBSET (1..MaxId)
    BY <1>2
  <2>2. tx' \in [phase : {"none", "write", "commit"}, owner : Engine \cup {NoEngine},
             restore : BOOLEAN, items : Seq(Item), next : Nat \ {0},
             written : SUBSET (1..MaxId), files : SUBSET Row, lastId : 0..MaxId]
    BY <2>1, <2>3, <2>4, <1>1 DEF TypeOK
  <2> QED BY <2>1, <2>2, <1>5, <1>1 DEF TypeOK
<1>10. TableOK(G, last)
  <2>1. \A r \in G : r.id <= last
    BY <1>1, <1>2, <1>6, <1>8 DEF TableOK, Row
  <2>2. \A r, s \in G : r.id = s.id => r = s
    BY <1>1, <1>6, <1>7 DEF TableOK
  <2>3. \A r, s \in G : (r.ns = s.ns /\ r.path = s.path) => r = s
    BY <1>1, <1>6 DEF TableOK
  <2>4. \A r, s \in G :
          (r.ns = s.ns /\ r.src = "use" /\ s.src = "use" /\ r.use = s.use) => r = s
    <3>1. \A r \in F \ old : (r.ns = ns /\ src = "use") => r.use < use /\ r.use # use
      BY <1>2 DEF Row, ns
    <3> QED BY <3>1, <1>1, <1>6 DEF TableOK
  <2> HIDE DEF G
  <2> QED BY <2>1, <2>2, <2>3, <2>4 DEF TableOK
<1>11. TxOK'
  <2>1. WorkingOK'
    <3>1. \A s \in G : s.id > lastId
                        \/ \E r \in files : r.id = s.id /\ r.ns = s.ns /\ r.path = s.path
      BY <1>1, <1>2, <1>6, <1>8 DEF WorkingOK
    <3> HIDE DEF G
    <3>2. lastId <= last
      BY <1>1, <1>2, <1>8 DEF WorkingOK
    <3> QED BY <3>1, <3>2, <1>5 DEF WorkingOK
  <2>2. WrittenOK'
    <3>1. tx'.next - 1 = tx.next /\ Len(tx.items) \in Nat
      BY <1>2, <1>5
    <3>2. ASSUME NEW i \in 1..tx.next
          PROVE  \E r \in G : r.id \in tx'.written /\ r.ns = ns /\ r.path = tx.items[i].path
      <4>1. CASE tx.items[i].path = path
        BY <4>1, <1>5, <1>6
      <4>2. CASE tx.items[i].path # path
        <5>1. i \in 1..(tx.next - 1)
          BY <4>2, <1>2 DEF path
        <5>2. PICK r \in F : r.id \in tx.written /\ r.ns = ns /\ r.path = tx.items[i].path
          BY <5>1, <1>1 DEF WrittenOK, ns
        <5> QED BY <5>2, <4>2, <1>5
      <4> QED BY <4>1, <4>2
    <3>3. ASSUME NEW w \in tx'.written
          PROVE  \E i \in 1..tx.next, r \in G : r.id = w /\ r.ns = ns /\ r.path = tx.items[i].path
      <4>1. CASE w = id
        <5>1. tx.next \in 1..tx.next
          BY <1>2
        <5>2. row(id) \in G /\ row(id).id = w /\ row(id).ns = ns
              /\ row(id).path = tx.items[tx.next].path
          BY <4>1, <1>6 DEF path
        <5> QED BY <5>1, <5>2
      <4>2. CASE w # id
        <5>1. w \in tx.written
          BY <4>2, <1>5
        <5>2. PICK i \in 1..(tx.next - 1), r \in F :
                r.id = w /\ r.ns = ns /\ r.path = tx.items[i].path
          BY <5>1, <1>1 DEF WrittenOK, ns
        <5>3. i \in 1..tx.next
          BY <1>2
        <5>4. CASE r \in old
          BY <5>4, <5>2, <5>3, <4>2, <1>4, <1>1 DEF TableOK
        <5>5. CASE r \notin old
          BY <5>5, <5>2, <5>3
        <5> QED BY <5>4, <5>5
      <4> QED BY <4>1, <4>2
    <3> HIDE DEF G
    <3>4. tx'.next <= Len(tx'.items) + 1
      BY <1>2, <1>5
    <3>5. /\ tx'.files = G /\ tx'.items = tx.items /\ tx'.owner = e
          /\ NamespaceOf[tx'.owner] = ns
      BY <1>5 DEF ns
    <3>6. \A w \in tx'.written : \E i \in 1..(tx'.next - 1), r \in tx'.files :
            r.id = w /\ r.ns = NamespaceOf[tx'.owner] /\ r.path = tx'.items[i].path
      BY <3>1, <3>3, <3>5
    <3>7. \A i \in 1..(tx'.next - 1) : \E r \in tx'.files :
            r.id \in tx'.written /\ r.ns = NamespaceOf[tx'.owner] /\ r.path = tx'.items[i].path
      BY <3>1, <3>2, <3>5
    <3> QED BY <3>4, <3>6, <3>7 DEF WrittenOK
  <2>3. WriteOK'
    <3>1. \A r \in files : r \in G \/ r.id \in tx'.written
      BY <1>1, <1>4, <1>5 DEF WriteOK, TableOK
    <3> HIDE DEF G
    <3> QED BY <3>1, <1>5 DEF WriteOK
  <2>4. CommitOK'
    BY <1>5 DEF CommitOK
  <2>5. Accepted(tx'.owner, tx'.items)
    BY <1>1, <1>5
  <2>6. OthersOK'
    <3>1. \A x \in Namespace \ {ns} : RowsOf(G, x) = RowsOf(F, x)
      BY <1>6 DEF RowsOf
    <3> HIDE DEF G
    <3> QED BY <3>1, <1>1, <1>5 DEF OthersOK, ns
  <2> HIDE DEF G
  <2> QED BY <2>1, <2>2, <2>3, <2>4, <2>5, <2>6, <1>5, <1>10 DEF TxOK, Accepted
<1>12. TableOK(files, lastId)' /\ HeldOK'
  BY <1>1, <1>5 DEF HeldOK
<1> QED BY <1>9, <1>11, <1>12 DEF IInv

LEMMA WriteRowStep ==
  ASSUME IInv, NEW e \in Engine, WriteRow(e)
  PROVE  IInv'
<1> DEFINE ns   == NamespaceOf[e]
           item == tx.items[tx.next]
<1>1. /\ tx.owner = e /\ tx.phase = "write" /\ tx.next <= Len(tx.items)
      /\ UNCHANGED <<files, lastId, held>>
  BY DEF WriteRow
<1>2. /\ tx.files \subseteq Row /\ IsFiniteSet(tx.files) /\ TableOK(tx.files, tx.lastId)
      /\ tx.items \in Seq(Item) /\ tx.next \in Nat \ {0}
  BY <1>1 DEF IInv, TypeOK, TxOK
<1>3. CASE tx.restore
  <2>1. Upsert(ns, item.path, item.use, "import")
    BY <1>3 DEF WriteRow
  <2>2. tx.next \in DOMAIN tx.items
    <3>1. Len(tx.items) \in Nat /\ DOMAIN tx.items = 1..Len(tx.items)
      BY <1>2
    <3> QED BY <3>1, <1>1, <1>2
  <2>3. item.use \in 0..(UseLimit - 1)
    <3>1. item \in Item
      BY <2>2, <1>2
    <3> QED BY <3>1 DEF Item
  <2> QED BY <1>1, <2>1, <2>3, UpsertStep
<1>4. CASE ~tx.restore
  <2>1. PICK now \in Clock :
          /\ FitsUseOrder(UseValue(RowsOf(tx.files, ns), now))
          /\ Upsert(ns, item.path, UseValue(RowsOf(tx.files, ns), now), "use")
    BY <1>4 DEF WriteRow
  <2>2. /\ UseValue(RowsOf(tx.files, ns), now) \in Nat
        /\ \A r \in tx.files : r.ns = ns => r.use < UseValue(RowsOf(tx.files, ns), now)
    BY <1>2, NextUse
  <2>3. UseValue(RowsOf(tx.files, ns), now) \in 0..(UseLimit - 1)
    BY <2>1, <2>2, UseLimitAssumption DEF FitsUseOrder
  <2> QED BY <1>1, <2>1, <2>2, <2>3, UpsertStep
<1> QED BY <1>3, <1>4

(* A write has at most as many rows as its batch has distinct paths, so no *)
(* more than the bound the batch was accepted under.                       *)
LEMMA WrittenRowsFit ==
  ASSUME IInv, tx.phase = "write", tx.next > Len(tx.items)
  PROVE  /\ IsFiniteSet(tx.written)
         /\ MaxEntries[tx.owner] # Unbounded =>
              Cardinality(tx.written) <= MaxEntries[tx.owner]
<1> DEFINE ns == NamespaceOf[tx.owner]
           D  == DistinctPaths(tx.items)
           of(p) == CHOOSE r \in tx.files : r.ns = ns /\ r.path = p
           f  == [p \in D |-> of(p).id]
<1>1. /\ tx.owner \in Engine /\ Accepted(tx.owner, tx.items)
      /\ TableOK(tx.files, tx.lastId) /\ WrittenOK
      /\ tx.items \in Seq(Item) /\ tx.next \in Nat
  BY DEF IInv, TypeOK, TxOK
<1>2. Len(tx.items) \in Nat /\ DOMAIN tx.items = 1..Len(tx.items)
  BY <1>1
<1>3. 1..(tx.next - 1) = DOMAIN tx.items
  BY <1>1, <1>2 DEF WrittenOK
<1>4. IsFiniteSet(D)
  <2> DEFINE g == [i \in DOMAIN tx.items |-> tx.items[i].path]
  <2>1. g \in Surjection(DOMAIN tx.items, D)
    BY DEF Surjection, DistinctPaths
  <2>2. IsFiniteSet(1..Len(tx.items))
    <3>1. ASSUME NEW n \in Nat PROVE IsFiniteSet(1..n)
      <4>1. 1 \in Int /\ n \in Int
        OBVIOUS
      <4> QED BY <4>1, FS_Interval
    <3> QED BY <1>2, <3>1
  <2>3. IsFiniteSet(DOMAIN tx.items)
    BY <2>2, <1>2
  <2> QED BY <2>1, <2>3, FS_Surjection
<1>5. \A r \in tx.files : (r.ns = ns /\ r.path \in D) => of(r.path) = r
  BY <1>1 DEF TableOK
<1>6. \A p \in D : \E r \in tx.files : r.id \in tx.written /\ r.ns = ns /\ r.path = p
  <2>1. \A i \in DOMAIN tx.items : \E r \in tx.files :
          r.id \in tx.written /\ r.ns = ns /\ r.path = tx.items[i].path
    BY <1>1, <1>3 DEF WrittenOK
  <2> QED BY <2>1 DEF DistinctPaths
<1>7. \A w \in tx.written : \E r \in tx.files : r.id = w /\ r.ns = ns /\ r.path \in D
  <2> SUFFICES ASSUME NEW w \in tx.written
               PROVE  \E r \in tx.files : r.id = w /\ r.ns = ns /\ r.path \in D
    OBVIOUS
  <2>1. PICK i \in 1..(tx.next - 1), r \in tx.files :
          r.id = w /\ r.ns = ns /\ r.path = tx.items[i].path
    BY <1>1 DEF WrittenOK
  <2>2. tx.items[i].path \in D
    BY <1>3 DEF DistinctPaths
  <2> QED BY <2>1, <2>2
<1> HIDE DEF of, D
<1>8. f \in Surjection(D, tx.written)
  <2>1. \A p \in D : f[p] \in tx.written
    BY <1>5, <1>6
  <2>2. \A w \in tx.written : \E p \in D : f[p] = w
    BY <1>5, <1>7
  <2> QED BY <2>1, <2>2 DEF Surjection
<1>9. IsFiniteSet(tx.written) /\ Cardinality(tx.written) <= Cardinality(D)
  BY <1>4, <1>8, FS_Surjection
<1>10. Cardinality(tx.written) \in Nat /\ Cardinality(D) \in Nat
  BY <1>4, <1>9, FS_CardinalityType
<1>11. MaxEntries[tx.owner] # Unbounded =>
         MaxEntries[tx.owner] \in Nat /\ Cardinality(D) <= MaxEntries[tx.owner]
  BY <1>1, ConstantsAssumption DEF Accepted, D
<1> QED BY <1>9, <1>10, <1>11

LEMMA EvictStep ==
  ASSUME IInv, NEW e \in Engine, Evict(e)
  PROVE  IInv'
<1> DEFINE ns   == NamespaceOf[e]
           F    == tx.files
           rows == RowsOf(F, ns)
           gone == IF MaxEntries[e] = Unbounded THEN {}
                   ELSE Evicted(rows, MaxEntries[e], tx.written)
           ids  == {r.id : r \in gone}
           G    == {r \in F : r.id \notin ids}
<1>1. /\ tx.owner = e /\ tx.phase = "write" /\ tx.next > Len(tx.items)
      /\ tx' = [tx EXCEPT !.files = G, !.phase = "commit"]
      /\ files' = files /\ lastId' = lastId /\ held' = held
  BY DEF Evict
<1>2. /\ TypeOK /\ TableOK(files, lastId) /\ HeldOK
      /\ Accepted(e, tx.items) /\ TableOK(F, tx.lastId)
      /\ WorkingOK /\ OthersOK /\ WrittenOK /\ WriteOK
  BY <1>1 DEF IInv, TxOK
<1>3. /\ F \subseteq Row /\ IsFiniteSet(F) /\ tx.written \subseteq 1..MaxId
  BY <1>2 DEF TypeOK
<1>4. /\ IsFiniteSet(tx.written)
      /\ MaxEntries[e] # Unbounded =>
           MaxEntries[e] \in Nat /\ Cardinality(tx.written) <= MaxEntries[e]
  BY <1>1, WrittenRowsFit, ConstantsAssumption
<1>5. Rows(F) /\ Rows(rows) /\ rows \subseteq F
  BY <1>2, <1>3, TableIsRows
<1>6. /\ gone \subseteq rows
      /\ \A r \in gone : r.id \notin tx.written
      /\ \A r \in gone, s \in rows \ gone : s.id \in tx.written \/ Before(r, s)
      /\ MaxEntries[e] # Unbounded => Cardinality(rows \ gone) <= MaxEntries[e]
  <2>1. CASE MaxEntries[e] = Unbounded
    BY <2>1
  <2>2. CASE MaxEntries[e] # Unbounded
    <3>1. gone = Evicted(rows, MaxEntries[e], tx.written)
      BY <2>2
    <3> HIDE DEF gone, rows
    <3> QED BY <2>2, <3>1, <1>4, <1>5, EvictionIsSound
  <2> QED BY <2>1, <2>2
<1> HIDE DEF gone
<1>7. /\ G = F \ gone
      /\ RowsOf(G, ns) = rows \ gone
  BY <1>2, <1>6 DEF TableOK, RowsOf
<1> HIDE DEF G
<1>8. /\ tx'.phase = "commit" /\ tx'.owner = e /\ tx'.items = tx.items
      /\ tx'.next = tx.next /\ tx'.written = tx.written
      /\ tx'.files = G /\ tx'.lastId = tx.lastId
  BY <1>1, <1>2 DEF TypeOK
<1>9. TypeOK'
  <2>1. IsFiniteSet(G) /\ G \subseteq Row
    BY <1>3, <1>7, FS_Subset
  <2>2. tx' \in [phase : {"none", "write", "commit"}, owner : Engine \cup {NoEngine},
             restore : BOOLEAN, items : Seq(Item), next : Nat \ {0},
             written : SUBSET (1..MaxId), files : SUBSET Row, lastId : 0..MaxId]
    BY <1>1, <1>2, <2>1 DEF TypeOK
  <2> QED BY <2>1, <2>2, <1>1, <1>2, <1>8 DEF TypeOK
<1>10. TableOK(tx'.files, tx'.lastId)
  BY <1>2, <1>7, <1>8 DEF TableOK
<1>11. WorkingOK'
  BY <1>1, <1>2, <1>7, <1>8 DEF WorkingOK
<1>12. WrittenOK'
  <2>1. \A r \in F : r.id \in tx.written => r \in G
    BY <1>6, <1>7
  <2>2. tx.next <= Len(tx.items) + 1
    BY <1>2 DEF WrittenOK
  <2>3. \A w \in tx.written : \E i \in 1..(tx.next - 1), r \in G :
          r.id = w /\ r.ns = ns /\ r.path = tx.items[i].path
    BY <1>1, <1>2, <2>1 DEF WrittenOK
  <2>4. \A i \in 1..(tx.next - 1) : \E r \in G :
          r.id \in tx.written /\ r.ns = ns /\ r.path = tx.items[i].path
    BY <1>1, <1>2, <2>1 DEF WrittenOK
  <2> QED BY <2>2, <2>3, <2>4, <1>8 DEF WrittenOK
<1>13. WriteOK'
  BY <1>8 DEF WriteOK
<1>14. CommitOK'
  <2>1. ASSUME NEW r \in files, \A s \in G : s.id # r.id
        PROVE  r \in gone
    <3>1. CASE r \in F
      BY <3>1, <2>1, <1>7
    <3>2. CASE r.id \in tx.written
      <4>1. PICK s \in F : s.id = r.id
        BY <3>2, <1>2 DEF WrittenOK
      <4> QED BY <4>1, <3>2, <2>1, <1>6, <1>7
    <3> QED BY <3>1, <3>2, <1>1, <1>2 DEF WriteOK
  <2>2. \A r \in files : (\A s \in G : s.id # r.id) =>
          /\ r.ns = ns
          /\ \A s \in RowsOf(G, ns) : s.id \in tx.written \/ Before(r, s)
    BY <2>1, <1>6, <1>7 DEF RowsOf
  <2>3. MaxEntries[e] # Unbounded => Cardinality(RowsOf(G, ns)) <= MaxEntries[e]
    BY <1>6, <1>7
  <2> HIDE DEF ns, rows
  <2> QED BY <2>2, <2>3, <1>1, <1>8 DEF CommitOK, ns
<1>15. OthersOK'
  <2>1. \A x \in Namespace \ {ns} : RowsOf(G, x) = RowsOf(F, x)
    BY <1>6, <1>7 DEF RowsOf
  <2> HIDE DEF rows
  <2> QED BY <2>1, <1>1, <1>2, <1>8 DEF OthersOK
<1>16. TxOK'
  BY <1>15, <1>2, <1>8, <1>10, <1>11, <1>12, <1>13, <1>14 DEF TxOK, Accepted
<1>17. TableOK(files, lastId)' /\ HeldOK'
  BY <1>1, <1>2 DEF HeldOK
<1> QED BY <1>9, <1>16, <1>17 DEF IInv

(* The committed table is the working one, whose rows keep the entries the *)
(* held ids name.                                                          *)
LEMMA CommitStep ==
  ASSUME IInv, NEW e \in Engine, Commit(e)
  PROVE  IInv'
<1>1. /\ tx.phase = "commit" /\ files' = tx.files /\ lastId' = tx.lastId
      /\ tx' = NoTx /\ held' = held
  BY DEF Commit
<1>2. TypeOK /\ HeldOK /\ WorkingOK /\ TableOK(tx.files, tx.lastId)
  BY <1>1 DEF IInv, TxOK
<1>3. TypeOK'
  BY <1>1, <1>2, FS_EmptySet, ConstantsAssumption DEF TypeOK, NoTx
<1>4. HeldOK'
  <2> SUFFICES ASSUME NEW x \in Engine, NEW h \in held[x]
               PROVE  /\ h.id <= tx.lastId
                      /\ \A r \in tx.files : r.id = h.id =>
                           r.ns = NamespaceOf[x] /\ r.path = h.path
    BY <1>1 DEF HeldOK
  <2>1. h.id \in 1..MaxId /\ h.id <= lastId /\ lastId \in Nat /\ tx.lastId \in Nat
    BY <1>2 DEF HeldOK, TypeOK
  <2>2. lastId <= tx.lastId
    BY <1>2 DEF WorkingOK
  <2>3. \A r \in tx.files : r.id = h.id =>
          \E s \in files : s.id = r.id /\ s.ns = r.ns /\ s.path = r.path
    BY <1>2, <2>1 DEF WorkingOK
  <2> QED BY <2>1, <2>2, <2>3, <1>2 DEF HeldOK
<1>5. TableOK(files, lastId)' /\ TxOK'
  BY <1>1, <1>2 DEF NoTx, TxOK
<1> QED BY <1>3, <1>4, <1>5 DEF IInv

LEMMA RollbackStep ==
  ASSUME IInv, NEW e \in Engine, Rollback(e)
  PROVE  IInv'
<1>1. tx' = NoTx /\ files' = files /\ lastId' = lastId /\ held' = held
  BY DEF Rollback
<1>2. TypeOK'
  BY <1>1, FS_EmptySet, ConstantsAssumption DEF IInv, TypeOK, NoTx
<1>3. TableOK(files, lastId)' /\ HeldOK' /\ TxOK'
  BY <1>1 DEF IInv, HeldOK, TxOK, NoTx
<1> QED BY <1>2, <1>3 DEF IInv

LEMMA NextInvariant == IInv /\ [Next]_vars => IInv'
<1> SUFFICES ASSUME IInv, [Next]_vars PROVE IInv'
  OBVIOUS
<1>1. CASE UNCHANGED vars
  <2>1. files' = files /\ lastId' = lastId /\ held' = held /\ tx' = tx
    BY <1>1 DEF vars
  <2> QED BY <2>1 DEF IInv, TypeOK, HeldOK, TxOK, WorkingOK, OthersOK, WrittenOK, WriteOK, CommitOK
<1>2. ASSUME NEW e \in Engine, NEW p \in Path, Find(e, p) PROVE IInv'
  BY <1>2, FindStep
<1>3. ASSUME NEW e \in Engine, RecordUse(e) PROVE IInv'
  BY <1>3, RecordUseStep
<1>4. ASSUME NEW e \in Engine, EndRead(e) PROVE IInv'
  BY <1>4, EndReadStep
<1>5. ASSUME NEW e \in Engine, NEW paths \in SUBSET Path, DeletePaths(e, paths) PROVE IInv'
  BY <1>5, DeletePathsStep
<1>6. ASSUME NEW e \in Engine, NEW paths \in StoreBatches, BeginStore(e, paths) PROVE IInv'
  BY <1>6, BeginStoreStep
<1>7. ASSUME NEW e \in Engine, NEW records \in ImportBatches, BeginImport(e, records)
      PROVE  IInv'
  BY <1>7, BeginImportStep
<1>8. ASSUME NEW e \in Engine, WriteRow(e) PROVE IInv'
  BY <1>8, WriteRowStep
<1>9. ASSUME NEW e \in Engine, Evict(e) PROVE IInv'
  BY <1>9, EvictStep
<1>10. ASSUME NEW e \in Engine, Commit(e) PROVE IInv'
  BY <1>10, CommitStep
<1>11. ASSUME NEW e \in Engine, Rollback(e) PROVE IInv'
  BY <1>11, RollbackStep
<1> QED BY <1>1, <1>2, <1>3, <1>4, <1>5, <1>6, <1>7, <1>8, <1>9, <1>10, <1>11 DEF Next

-----------------------------------------------------------------------------
(* IInv holds in every state of the store: the conjunction the properties  *)
(* of the table, the held rows and the write transaction follow from.      *)
THEOREM Invariance == Spec => []IInv
BY InitInvariant, NextInvariant, PTL DEF Spec

(* TypeOK: every stored use value stays in the column's CHECK, every id    *)
(* within the ids SQLite can assign, the tables finite.                    *)
THEOREM TypeCorrectness == Spec => []TypeOK
<1>1. IInv => TypeOK
  BY DEF IInv
<1> QED BY <1>1, Invariance, PTL

(* A row id a read holds never comes to name another entry, whatever was   *)
(* removed, evicted and stored again in between.                           *)
THEOREM HeldIdsStayTrue == Spec => []HeldNamesItsEntry
<1>1. IInv => HeldNamesItsEntry
  BY DEF IInv, HeldOK, HeldNamesItsEntry
<1> QED BY <1>1, Invariance, PTL

(* Two uses in one namespace never tie, whatever the clocks return.        *)
THEOREM UsesAreStrict == Spec => []UsesNeverTie
<1>1. IInv => UsesNeverTie
  BY DEF IInv, TableOK, UsesNeverTie
<1> QED BY <1>1, Invariance, PTL

(* Every commit of a bounded engine leaves its namespace within the bound. *)
THEOREM CommitsRespectBounds == Spec => CommitRespectsBound
<1>1. IInv /\ [Next]_vars =>
        [\A e \in Engine :
           (Commit(e) /\ MaxEntries[e] # Unbounded)
             => Cardinality(RowsOf(files', NamespaceOf[e])) <= MaxEntries[e]]_vars
  BY DEF IInv, TxOK, CommitOK, Commit
<1> QED BY <1>1, Invariance, PTL DEF Spec, CommitRespectsBound

(* Every path of a batch is stored when the batch commits.                 *)
THEOREM CommitsKeepTheirWrites == Spec => CommitKeepsItsWrites
<1>1. ASSUME IInv, NEW e \in Engine, Commit(e), NEW i \in DOMAIN tx.items
      PROVE  \E r \in RowsOf(files', NamespaceOf[e]) :
               r.path = tx.items[i].path /\ r.id \in tx.written
  <2>1. /\ tx.owner = e /\ files' = tx.files /\ WrittenOK /\ tx.next > Len(tx.items)
        /\ tx.items \in Seq(Item) /\ tx.next \in Nat
    BY <1>1 DEF Commit, IInv, TypeOK, TxOK, CommitOK
  <2>2. i \in 1..(tx.next - 1)
    <3>1. Len(tx.items) \in Nat /\ DOMAIN tx.items = 1..Len(tx.items)
      BY <2>1
    <3> QED BY <3>1, <2>1
  <2> QED BY <2>1, <2>2 DEF WrittenOK, RowsOf
<1>2. IInv /\ [Next]_vars =>
        [\A e \in Engine : Commit(e) =>
           \A i \in DOMAIN tx.items :
             \E r \in RowsOf(files', NamespaceOf[e]) :
               r.path = tx.items[i].path /\ r.id \in tx.written]_vars
  BY <1>1
<1> QED BY <1>2, Invariance, PTL DEF Spec, CommitKeepsItsWrites

(* What a commit evicts was less recently used than what it leaves.        *)
THEOREM EvictionsFollowUse == Spec => EvictsLeastRecentlyUsed
<1>1. ASSUME IInv, NEW e \in Engine, Commit(e),
             NEW r \in files, \A s \in files' : s.id # r.id
      PROVE  /\ r.ns = NamespaceOf[e]
             /\ \A s \in RowsOf(files', NamespaceOf[e]) :
                  s.id \in tx.written \/ Before(r, s)
  BY <1>1 DEF Commit, IInv, TxOK, CommitOK
<1>2. IInv /\ [Next]_vars =>
        [\A e \in Engine : Commit(e) =>
           \A r \in files : (\A s \in files' : s.id # r.id) =>
             /\ r.ns = NamespaceOf[e]
             /\ \A s \in RowsOf(files', NamespaceOf[e]) :
                  s.id \in tx.written \/ Before(r, s)]_vars
  BY <1>1
<1> QED BY <1>2, Invariance, PTL DEF Spec, EvictsLeastRecentlyUsed

(* No engine disturbs another namespace.                                   *)
THEOREM NamespacesAreApart == Spec => OtherNamespacesKept
<1>1. ASSUME IInv, NEW e \in Engine, NEW ns \in Namespace \ {NamespaceOf[e]}, Commit(e)
      PROVE  RowsOf(files', ns) = RowsOf(files, ns)
  BY <1>1 DEF Commit, IInv, TxOK, OthersOK
<1>2. ASSUME IInv, NEW e \in Engine, NEW ns \in Namespace \ {NamespaceOf[e]}, RecordUse(e)
      PROVE  RowsOf(files', ns) = RowsOf(files, ns)
  <2>1. PICK h \in held[e], now \in Clock :
          files' = {IF r.id = h.id
                      THEN [r EXCEPT !.use = UseValue(RowsOf(files, NamespaceOf[e]), now),
                                     !.src = "use"]
                      ELSE r : r \in files}
    BY <1>2 DEF RecordUse
  <2>2. files \subseteq Row /\ \A r \in files : r.id = h.id => r.ns = NamespaceOf[e]
    BY <1>2 DEF IInv, TypeOK, HeldOK
  <2>3. ASSUME NEW r \in files', r.ns = ns PROVE r \in files
    <3>1. PICK x \in files :
            r = IF x.id = h.id
                  THEN [x EXCEPT !.use = UseValue(RowsOf(files, NamespaceOf[e]), now),
                                 !.src = "use"]
                  ELSE x
      BY <2>1
    <3>2. x \in Row
      BY <2>2
    <3>3. r.ns = x.ns
      BY <3>1, <3>2 DEF Row
    <3> QED BY <3>1, <3>3, <2>2, <2>3
  <2>4. ASSUME NEW r \in files, r.ns = ns PROVE r \in files'
    BY <2>1, <2>2, <2>4
  <2> QED BY <2>3, <2>4 DEF RowsOf
<1>3. ASSUME IInv, NEW e \in Engine, NEW ns \in Namespace \ {NamespaceOf[e]},
             NEW paths \in SUBSET Path, DeletePaths(e, paths)
      PROVE  RowsOf(files', ns) = RowsOf(files, ns)
  BY <1>3 DEF DeletePaths, RowsOf
<1>4. IInv /\ [Next]_vars =>
        [\A e \in Engine :
           (RecordUse(e) \/ Commit(e) \/ \E paths \in SUBSET Path : DeletePaths(e, paths)) =>
             \A ns \in Namespace \ {NamespaceOf[e]} :
               RowsOf(files', ns) = RowsOf(files, ns)]_vars
  BY <1>1, <1>2, <1>3
<1> QED BY <1>4, Invariance, PTL DEF Spec, OtherNamespacesKept

(* The row a use writes is the newest of its namespace from then on.       *)
LEMMA RecordedUseIsNewest ==
  ASSUME IInv, NEW e \in Engine, RecordUse(e), NEW r \in files' \ files
  PROVE  NewestIn(files', r)
<1>1. PICK h \in held[e], now \in Clock :
        files' = {IF x.id = h.id
                    THEN [x EXCEPT !.use = UseValue(RowsOf(files, NamespaceOf[e]), now),
                                   !.src = "use"]
                    ELSE x : x \in files}
  BY DEF RecordUse
<1> DEFINE use  == UseValue(RowsOf(files, NamespaceOf[e]), now)
           f(x) == IF x.id = h.id THEN [x EXCEPT !.use = use, !.src = "use"] ELSE x
<1>2. \A y \in files' : \E x \in files : y = f(x)
  BY <1>1
<1>3. /\ files \subseteq Row /\ IsFiniteSet(files) /\ TableOK(files, lastId)
      /\ \A x \in files : x.id = h.id => x.ns = NamespaceOf[e]
  BY DEF IInv, TypeOK, HeldOK
<1>4. \A x \in files : x.ns = NamespaceOf[e] => x.use < use
  BY <1>3, NextUse
<1> HIDE DEF use
<1>5. \A x \in files : /\ x.id # h.id => f(x) = x
                       /\ x.id = h.id => f(x).use = use /\ f(x).ns = x.ns
  BY <1>3 DEF Row
<1> HIDE DEF f
<1>6. PICK x \in files : r = f(x)
  BY <1>2
<1>7. x.id = h.id /\ r.ns = NamespaceOf[e] /\ r.use = use
  BY <1>3, <1>5, <1>6
<1>8. ASSUME NEW s \in files', s.ns = r.ns, s # r PROVE s.use < r.use
  <2>1. PICK y \in files : s = f(y)
    BY <1>2
  <2>2. y.id # h.id
    BY <1>3, <1>6, <1>7, <1>8, <2>1 DEF TableOK
  <2>3. s = y
    BY <1>5, <2>1, <2>2
  <2> QED BY <1>4, <1>7, <1>8, <2>3
<1> QED BY <1>8 DEF NewestIn, RowsOf

LEMMA StoredRowIsNewest ==
  ASSUME IInv, NEW e \in Engine, WriteRow(e), ~tx.restore, NEW r \in tx'.files \ tx.files
  PROVE  NewestIn(tx'.files, r)
<1> DEFINE ns   == NamespaceOf[e]
           F    == tx.files
           path == tx.items[tx.next].path
           old  == {x \in F : x.ns = ns /\ x.path = path}
<1>1. /\ F \subseteq Row /\ IsFiniteSet(F) /\ TableOK(F, tx.lastId) /\ TypeOK
  BY DEF WriteRow, IInv, TypeOK, TxOK
<1>2. PICK now \in Clock : Upsert(ns, path, UseValue(RowsOf(F, ns), now), "use")
  BY DEF WriteRow
<1> DEFINE use == UseValue(RowsOf(F, ns), now)
<1>3. \A x \in F : x.ns = ns => x.use < use
  BY <1>1, NextUse
<1> HIDE DEF use
<1> DEFINE row(id) == [id |-> id, ns |-> ns, path |-> path, use |-> use, src |-> "use"]
<1>4. \E id : tx'.files = (F \ old) \cup {row(id)}
  <2>1. CASE old # {}
    <3>1. PICK x \in old :
            tx' = [tx EXCEPT !.files   = (F \ old) \cup {row(x.id)},
                             !.next    = tx.next + 1,
                             !.written = tx.written \cup {x.id}]
      BY <1>2, <2>1 DEF Upsert, use
    <3>2. tx'.files = (F \ old) \cup {row(x.id)}
      BY <3>1, <1>1 DEF TypeOK
    <3> QED BY <3>2
  <2>2. CASE old = {}
    <3>1. tx' = [tx EXCEPT !.files   = F \cup {row(tx.lastId + 1)},
                           !.lastId  = tx.lastId + 1,
                           !.next    = tx.next + 1,
                           !.written = tx.written \cup {tx.lastId + 1}]
      BY <1>2, <2>2 DEF Upsert, use
    <3>2. tx'.files = F \cup {row(tx.lastId + 1)}
      BY <3>1, <1>1 DEF TypeOK
    <3>3. F \ old = F
      BY <2>2
    <3> QED BY <3>2, <3>3
  <2> QED BY <2>1, <2>2
<1>5. PICK id : tx'.files = (F \ old) \cup {row(id)}
  BY <1>4
<1>6. r = row(id) /\ r.ns = ns /\ r.use = use
  BY <1>5
<1>7. ASSUME NEW s \in tx'.files, s.ns = r.ns, s # r PROVE s.use < r.use
  <2>1. s \in F
    BY <1>5, <1>6, <1>7
  <2> QED BY <2>1, <1>3, <1>6, <1>7
<1> QED BY <1>7 DEF NewestIn, RowsOf

(* Reads, touches and stores leave their entry newest; no other step of an *)
(* engine outside an import adds or changes a row.                         *)
THEOREM UsesAreNewest == Spec => UseBecomesNewest
<1>1. ASSUME IInv, [Next]_vars, NEW r \in files' \ files, WriteLockFree
      PROVE  NewestIn(files', r)
  <2>1. files' # files
    OBVIOUS
  <2>2. PICK e \in Engine : RecordUse(e)
    BY <1>1, <2>1 DEF Next, vars, Find, EndRead, DeletePaths, BeginStore, BeginImport,
       BeginWrite, WriteRow, Evict, Commit, Rollback, WriteLockFree
  <2> QED BY <1>1, <2>2, RecordedUseIsNewest
<1>2. ASSUME IInv, [Next]_vars, NEW r \in tx'.files \ tx.files,
             tx.phase = "write", ~tx.restore
      PROVE  NewestIn(tx'.files, r)
  <2>1. tx'.files # tx.files /\ ~(tx'.files \subseteq tx.files)
    OBVIOUS
  <2>2. ASSUME NEW e \in Engine, Evict(e) PROVE FALSE
    <3>1. tx'.files \subseteq tx.files
      BY <1>1, <1>2, <2>2 DEF Evict, IInv, TypeOK
    <3> QED BY <3>1, <2>1
  <2>3. ASSUME NEW e \in Engine, Rollback(e) PROVE FALSE
    BY <2>3, <2>1 DEF Rollback, NoTx
  <2>4. PICK e \in Engine : WriteRow(e)
    BY <1>2, <2>1, <2>2, <2>3 DEF Next, vars, Find, RecordUse, EndRead, DeletePaths,
       BeginStore, BeginImport, BeginWrite, CanWrite, Commit, WriteLockFree
  <2> QED BY <1>2, <2>4, StoredRowIsNewest
<1>3. IInv /\ [Next]_vars =>
        [/\ \A r \in files' \ files : WriteLockFree => NewestIn(files', r)
         /\ \A r \in tx'.files \ tx.files :
              (tx.phase = "write" /\ ~tx.restore) => NewestIn(tx'.files, r)]_vars
  BY <1>1, <1>2
<1> QED BY <1>3, Invariance, PTL DEF Spec, UseBecomesNewest

-----------------------------------------------------------------------------
(* The refinement of LruCache.  The rows of one namespace, no path twice.  *)
NamespaceRows(S) ==
  /\ Rows(S)
  /\ \A r \in S : r.path \in Path
  /\ \A r, s \in S : r.path = s.path => r = s

LEMMA TableHasNamespaceRows ==
  ASSUME NEW F \in SUBSET Row, IsFiniteSet(F), NEW last, TableOK(F, last), NEW ns
  PROVE  NamespaceRows(RowsOf(F, ns))
<1>1. Rows(RowsOf(F, ns)) /\ RowsOf(F, ns) \subseteq F
  BY TableIsRows
<1> QED BY <1>1 DEF NamespaceRows, RowsOf, TableOK, Row

LEMMA OlderIsBefore ==
  ASSUME NEW S, NamespaceRows(S), NEW r \in S, NEW s \in S
  PROVE  <<r.path, s.path>> \in Older(S) <=> Before(r, s)
<1>1. r.path \in Path /\ s.path \in Path
  BY DEF NamespaceRows
<1>2. <<r.path, s.path>> \in Older(S) <=>
        \E x, y \in S : x.path = r.path /\ y.path = s.path /\ Before(x, y)
  BY <1>1 DEF Older
<1> QED BY <1>2 DEF NamespaceRows

LEMMA OlderEquals ==
  ASSUME NEW S, NamespaceRows(S), NEW X \in SUBSET (Entries(S) \X Entries(S)),
         \A r, s \in S : <<r.path, s.path>> \in X <=> Before(r, s)
  PROVE  Older(S) = X
<1>1. ASSUME NEW pair \in Older(S) PROVE pair \in X
  <2>1. PICK r \in S, s \in S : pair = <<r.path, s.path>> /\ Before(r, s)
    BY <1>1 DEF Older
  <2> QED BY <2>1
<1>2. ASSUME NEW pair \in X PROVE pair \in Older(S)
  <2>1. PICK r \in S, s \in S : pair = <<r.path, s.path>>
    BY <1>2 DEF Entries
  <2> QED BY <2>1, OlderIsBefore
<1> QED BY <1>1, <1>2

LEMMA OlderIsAnOrder ==
  ASSUME NEW S, NamespaceRows(S)
  PROVE  /\ Older(S) \subseteq Entries(S) \X Entries(S)
         /\ Lru!IsOrder(Older(S), Entries(S))
<1>1. Older(S) \subseteq Entries(S) \X Entries(S)
  BY DEF Older, Entries
<1>2. ASSUME NEW p \in Entries(S) PROVE <<p, p>> \notin Older(S)
  <2>1. PICK r \in S : p = r.path
    BY DEF Entries
  <2> QED BY <2>1, OlderIsBefore, BeforeIsStrictTotal DEF NamespaceRows
<1>3. ASSUME NEW p \in Entries(S), NEW q \in Entries(S), p # q
      PROVE  <<p, q>> \in Older(S) \/ <<q, p>> \in Older(S)
  <2>1. PICK r \in S, s \in S : p = r.path /\ q = s.path
    BY DEF Entries
  <2>2. Before(r, s) \/ Before(s, r)
    BY <1>3, <2>1, BeforeIsStrictTotal DEF NamespaceRows
  <2> QED BY <2>1, <2>2, OlderIsBefore
<1>4. ASSUME NEW p \in Entries(S), NEW q \in Entries(S), NEW r \in Entries(S),
             <<p, q>> \in Older(S), <<q, r>> \in Older(S)
      PROVE  <<p, r>> \in Older(S)
  <2>1. PICK x \in S, y \in S, z \in S : p = x.path /\ q = y.path /\ r = z.path
    BY DEF Entries
  <2>2. Before(x, y) /\ Before(y, z)
    BY <1>4, <2>1, OlderIsBefore
  <2>3. Before(x, z)
    BY <2>2, BeforeIsStrictTotal DEF NamespaceRows
  <2> QED BY <2>1, <2>3, OlderIsBefore
<1> QED BY <1>1, <1>2, <1>3, <1>4 DEF Lru!IsOrder

(* As many entries as rows.                                                *)
LEMMA EntriesAreCounted ==
  ASSUME NEW S, NamespaceRows(S), NEW T \in SUBSET S
  PROVE  /\ IsFiniteSet(T) /\ IsFiniteSet(Entries(T))
         /\ Cardinality(Entries(T)) = Cardinality(T)
<1>1. IsFiniteSet(T)
  BY FS_Subset DEF NamespaceRows, Rows
<1> DEFINE f == [r \in T |-> r.path]
<1>2. f \in Bijection(T, Entries(T))
  <2>1. f \in [T -> Entries(T)]
    BY DEF Entries
  <2>2. \A r, s \in T : f[r] = f[s] => r = s
    BY DEF NamespaceRows
  <2>3. \A p \in Entries(T) : \E r \in T : f[r] = p
    BY DEF Entries
  <2> QED BY <2>1, <2>2, <2>3 DEF Bijection, Injection, Surjection, IsInjective
<1> QED BY <1>1, <1>2, FS_Bijection DEF ExistsBijection

LEMMA SameCardinality ==
  ASSUME NEW S PROVE Lru!Cardinality(S) = Cardinality(S)
BY DEF Lru!Cardinality, Cardinality

(* What LruCache drops is what an eviction takes of the other rows.        *)
NotKept(S, kept) == {r \in S : r.path \notin kept}

Excess(S, kept, bound) ==
  IF bound = Unbounded THEN 0 ELSE Cardinality(Entries(S) \cup kept) - bound

LEMMA DroppedRows ==
  ASSUME NEW S, NamespaceRows(S), NEW kept, NEW bound
  PROVE  Lru!Dropped(Entries(S), Older(S), kept, bound)
           = Entries(Oldest(NotKept(S, kept), Excess(S, kept, bound)))
<1> DEFINE O == NotKept(S, kept)
           n == Excess(S, kept, bound)
<1>0. O \subseteq S
  BY DEF NotKept
<1>1. Entries(O) = Entries(S) \ kept
  BY DEF Entries, NotKept
<1>2. Lru!Dropped(Entries(S), Older(S), kept, bound) =
        {p \in Entries(O) : Cardinality({q \in Entries(O) : <<q, p>> \in Older(S)}) < n}
  BY <1>1, SameCardinality DEF Lru!Dropped, Excess
<1> HIDE DEF O, n
<1>3. ASSUME NEW r \in O
      PROVE  Cardinality({q \in Entries(O) : <<q, r.path>> \in Older(S)})
               = Cardinality(Predecessors(r, O))
  <2>1. {q \in Entries(O) : <<q, r.path>> \in Older(S)} = Entries(Predecessors(r, O))
    <3>1. \A s \in O : <<s.path, r.path>> \in Older(S) <=> Before(s, r)
      BY <1>0, OlderIsBefore
    <3> QED BY <3>1 DEF Entries, Predecessors
  <2>2. Predecessors(r, O) \subseteq S
    BY <1>0 DEF Predecessors
  <2> QED BY <2>1, <2>2, EntriesAreCounted
<1>4. \A r \in O : r.path \in Entries(O)
  BY DEF Entries
<1>5. \A p \in Entries(O) : \E r \in O : r.path = p
  BY DEF Entries
<1>6. Lru!Dropped(Entries(S), Older(S), kept, bound) = Entries(Oldest(O, n))
  <2>1. ASSUME NEW p \in Lru!Dropped(Entries(S), Older(S), kept, bound) PROVE p \in Entries(Oldest(O, n))
    <3>1. PICK r \in O : r.path = p
      BY <1>2, <1>5
    <3>2. r \in Oldest(O, n)
      BY <1>2, <1>3, <3>1 DEF Oldest
    <3> QED BY <3>1, <3>2 DEF Entries
  <2>2. ASSUME NEW r \in Oldest(O, n) PROVE r.path \in Lru!Dropped(Entries(S), Older(S), kept, bound)
    <3>1. r \in O /\ Cardinality(Predecessors(r, O)) < n
      BY DEF Oldest
    <3> QED BY <1>2, <1>3, <1>4, <3>1
  <2> QED BY <2>1, <2>2 DEF Entries
<1> QED BY <1>6 DEF O, n

-----------------------------------------------------------------------------
(* A sequence has a last place where it has a value.                       *)
LEMMA LastPlace ==
  ASSUME NEW n \in Nat, NEW f, NEW k \in 1..n
  PROVE  \E j \in 1..n : f[j] = f[k] /\ \A i \in 1..n : i > j => f[i] # f[k]
<1> DEFINE B == {n - j : j \in {i \in 1..n : f[i] = f[k]}}
<1>1. B \subseteq Nat /\ n - k \in B
  OBVIOUS
<1>2. PICK m \in B : \A x \in B : ~(<<x, m>> \in OpToRel(<, Nat))
  BY <1>1, NatLessThanWellFounded, WFMin
<1>3. \A x \in B : ~(x < m)
  BY <1>1, <1>2 DEF OpToRel
<1>4. PICK j \in 1..n : f[j] = f[k] /\ m = n - j
  BY <1>2
<1>5. ASSUME NEW i \in 1..n, i > j PROVE f[i] # f[k]
  <2>1. n - i < n - j
    BY <1>5
  <2>2. n - i \notin B
    BY <1>3, <1>4, <2>1
  <2> QED BY <2>2
<1> QED BY <1>4, <1>5

(* Of two paths, one is moved past the other by whoever names one of them. *)
LEMMA OneIsMovedPast ==
  ASSUME NEW paths \in Seq(Path), NEW p, NEW q, p # q, q \in Lru!Elements(paths)
  PROVE  Lru!MovedPast(paths, p, q) \/ Lru!MovedPast(paths, q, p)
<1>1. DOMAIN paths = 1..Len(paths) /\ Len(paths) \in Nat
  OBVIOUS
<1>2. PICK k \in 1..Len(paths) : paths[k] = q
  BY <1>1 DEF Lru!Elements
<1>3. PICK j \in 1..Len(paths) :
        paths[j] = paths[k] /\ \A i \in 1..Len(paths) : i > j => paths[i] # paths[k]
  BY <1>1, LastPlace
<1>4. CASE \A i \in 1..Len(paths) : i >= j => paths[i] # p
  BY <1>1, <1>2, <1>3, <1>4 DEF Lru!MovedPast
<1>5. CASE \E i \in 1..Len(paths) : i >= j /\ paths[i] = p
  <2>1. PICK i \in 1..Len(paths) : i >= j /\ paths[i] = p
    BY <1>5
  <2>2. i # j
    BY <1>2, <1>3, <2>1
  <2>3. \A x \in 1..Len(paths) : x >= i => paths[x] # q
    BY <1>2, <1>3, <2>1, <2>2
  <2> QED BY <1>1, <2>1, <2>3 DEF Lru!MovedPast
<1> QED BY <1>4, <1>5

LEMMA MovedPastIsNamed ==
  ASSUME NEW paths \in Seq(Path), NEW p, NEW q
  PROVE  /\ Lru!MovedPast(paths, p, q) => p # q /\ q \in Lru!Elements(paths)
         /\ q \in Lru!Elements(paths) /\ p \notin Lru!Elements(paths)
              => Lru!MovedPast(paths, p, q)
<1>1. DOMAIN paths = 1..Len(paths) /\ Len(paths) \in Nat
  OBVIOUS
<1> QED BY <1>1 DEF Lru!MovedPast, Lru!Elements

-----------------------------------------------------------------------------
(* One item after the other, a write follows LruCache.                     *)
LEMMA UpsertResult ==
  ASSUME TypeOK, NEW ns, NEW path, NEW use, NEW src, Upsert(ns, path, use, src)
  PROVE  /\ tx'.owner = tx.owner /\ tx'.phase = tx.phase /\ tx'.restore = tx.restore
         /\ tx'.items = tx.items /\ tx'.next = tx.next + 1
         /\ \E id : tx'.files = {r \in tx.files : ~(r.ns = ns /\ r.path = path)} \cup
                      {[id |-> id, ns |-> ns, path |-> path, use |-> use, src |-> src]}
<1> DEFINE F   == tx.files
           old == {x \in F : x.ns = ns /\ x.path = path}
           row(id) == [id |-> id, ns |-> ns, path |-> path, use |-> use, src |-> src]
<1>1. F \ old = {r \in F : ~(r.ns = ns /\ r.path = path)}
  OBVIOUS
<1>2. CASE old # {}
  <2>1. PICK x \in old :
          tx' = [tx EXCEPT !.files   = (F \ old) \cup {row(x.id)},
                           !.next    = tx.next + 1,
                           !.written = tx.written \cup {x.id}]
    BY <1>2 DEF Upsert
  <2> QED BY <1>1, <2>1 DEF TypeOK
<1>3. CASE old = {}
  <2>1. tx' = [tx EXCEPT !.files   = F \cup {row(tx.lastId + 1)},
                         !.lastId  = tx.lastId + 1,
                         !.next    = tx.next + 1,
                         !.written = tx.written \cup {tx.lastId + 1}]
    BY <1>3 DEF Upsert
  <2>2. F = F \ old
    BY <1>3
  <2> QED BY <1>1, <2>1, <2>2 DEF TypeOK
<1> QED BY <1>2, <1>3

LEMMA WriteRowFollows ==
  ASSUME IInv, WriteFollowsLru, NEW e \in Engine, WriteRow(e)
  PROVE  WriteFollowsLru'
<1> DEFINE ns == NamespaceOf[e]
           p  == tx.items[tx.next].path
<1>1. /\ tx.owner = e /\ tx.phase = "write" /\ files' = files
      /\ tx.next \in 1..Len(tx.items) /\ Len(tx.items) \in Nat /\ tx.next \in Nat
      /\ TypeOK /\ TableOK(tx.files, tx.lastId) /\ tx.files \subseteq Row /\ IsFiniteSet(tx.files)
  BY DEF WriteRow, IInv, TypeOK, TxOK
<1>2. PICK use, src :
        /\ Upsert(ns, p, use, src)
        /\ src = "import" <=> tx.restore
        /\ ~tx.restore => \A r \in tx.files : r.ns = ns => r.use < use
  <2>1. CASE tx.restore
    BY <2>1, <1>1 DEF WriteRow
  <2>2. CASE ~tx.restore
    <3>1. PICK now \in Clock : Upsert(ns, p, UseValue(RowsOf(tx.files, ns), now), "use")
      BY <2>2, <1>1 DEF WriteRow
    <3>2. \A r \in tx.files : r.ns = ns => r.use < UseValue(RowsOf(tx.files, ns), now)
      BY <1>1, NextUse
    <3> QED BY <2>2, <3>1, <3>2
  <2> QED BY <2>1, <2>2
<1>3. /\ tx'.owner = e /\ tx'.phase = "write" /\ tx'.restore = tx.restore
      /\ tx'.items = tx.items /\ tx'.next = tx.next + 1
  BY <1>1, <1>2, UpsertResult
<1>4. PICK id : tx'.files = {r \in tx.files : ~(r.ns = ns /\ r.path = p)} \cup
                  {[id |-> id, ns |-> ns, path |-> p, use |-> use, src |-> src]}
  <2> HIDE DEF ns, p
  <2> QED BY <1>1, <1>2, UpsertResult, Zenon
<1> DEFINE y == [id |-> id, ns |-> ns, path |-> p, use |-> use, src |-> src]
<1>5. Work' = {r \in Work : r.path # p} \cup {y}
  BY <1>1, <1>3, <1>4 DEF Work, RowsOf
<1>6. Done' = Done \cup {p}
  <2>1. tx'.next - 1 = tx.next
    BY <1>1, <1>3
  <2>2. Done' = {tx.items[i].path : i \in 1..tx.next}
    BY <1>3, <2>1 DEF Done
  <2>3. 1..tx.next = 1..tx.next - 1 \cup {tx.next}
    BY <1>1
  <2> QED BY <2>2, <2>3 DEF Done
<1>7. y.path = p /\ y.use = use /\ y.src = src
  OBVIOUS
<1> HIDE DEF y
<1>8. BatchIsGiven /\ WorkHasTheItems /\ LaterIsNewer /\ Gone = {} /\ Gone' = {}
  BY <1>1, <1>3 DEF WriteFollowsLru, Gone
<1>9. BatchIsGiven'
  BY <1>3, <1>8 DEF BatchIsGiven, PathsOf
<1>10. WorkHasTheItems'
  <2>1. Entries(Work') = Entries(Work) \cup {p}
    BY <1>5, <1>7 DEF Entries
  <2>2. Entries(Work') = (Entries(Given') \cup Done') \ Gone'
    BY <1>1, <1>3, <1>6, <1>8, <2>1 DEF WorkHasTheItems, Given
  <2>3. ASSUME NEW r \in Work'
        PROVE  IF r.path \in Done' THEN r.src = "import" <=> tx'.restore ELSE r \in files
    <3>1. CASE r = y
      BY <1>2, <1>3, <1>6, <1>7, <3>1
    <3>2. CASE r \in Work /\ r.path # p
      BY <1>3, <1>6, <1>8, <3>2 DEF WorkHasTheItems
    <3> QED BY <1>5, <2>3, <3>1, <3>2
  <2> QED BY <1>1, <1>3, <2>2, <2>3 DEF WorkHasTheItems
<1>11. LaterIsNewer'
  <2> SUFFICES ASSUME ~tx.restore, NEW r \in Work', NEW s \in Work', NEW j \in 1..tx.next,
                      s.path = tx.items[j].path,
                      \A i \in j..tx.next : tx.items[i].path # r.path
               PROVE  r.use < s.use
    <3>1. tx'.next - 1 = tx.next
      BY <1>1, <1>3
    <3> QED BY <1>3, <3>1 DEF LaterIsNewer
  <2>1. r.path # p
    BY <1>1
  <2>2. r \in Work
    BY <1>5, <1>7, <2>1
  <2>3. CASE s = y
    <3>1. r \in tx.files /\ r.ns = ns
      BY <1>1, <2>2 DEF Work, RowsOf
    <3> QED BY <1>2, <1>7, <2>3, <3>1
  <2>4. CASE s \in Work /\ s.path # p
    <3>1. j # tx.next
      BY <2>4
    <3>2. j \in 1..tx.next - 1
      BY <1>1, <3>1
    <3>3. \A i \in j..tx.next - 1 : tx.items[i].path # r.path
      BY <1>1
    <3> QED BY <1>8, <2>2, <2>4, <3>2, <3>3 DEF LaterIsNewer
  <2> QED BY <1>5, <2>3, <2>4
<1> QED BY <1>9, <1>10, <1>11 DEF WriteFollowsLru

(* What the write has not stored is what is committed of the others.       *)
LEMMA OthersAreUnprotected ==
  ASSUME IInv, WriteFollowsLru, tx.phase = "write", tx.next > Len(tx.items)
  PROVE  Unprotected(Work, tx.written) =
           NotKept(Given, Done)
<1> DEFINE ns == NamespaceOf[tx.owner]
<1>0. Given = RowsOf(files, ns)
  BY DEF Given
<1>1. /\ TableOK(files, lastId) /\ TableOK(tx.files, tx.lastId) /\ WrittenOK
      /\ WorkHasTheItems /\ Gone = {}
  BY DEF IInv, TxOK, WriteFollowsLru, Gone
<1>2. ASSUME NEW r \in Unprotected(Work, tx.written)
      PROVE  r \in RowsOf(files, ns) /\ r.path \notin Done
  <2>1. r \in tx.files /\ r.ns = ns /\ r \in Work /\ r.id \notin tx.written
    BY DEF Unprotected, Work, RowsOf
  <2>2. r.path \notin Done
    <3> SUFFICES ASSUME r.path \in Done PROVE FALSE
      OBVIOUS
    <3>1. PICK i \in 1..tx.next - 1 : tx.items[i].path = r.path
      BY DEF Done
    <3>2. PICK x \in tx.files : x.id \in tx.written /\ x.ns = ns /\ x.path = r.path
      BY <1>1, <3>1 DEF WrittenOK
    <3> QED BY <1>1, <2>1, <3>2 DEF TableOK
  <2> QED BY <1>1, <2>1, <2>2 DEF WorkHasTheItems, RowsOf
<1>3. ASSUME NEW r \in RowsOf(files, ns), r.path \notin Done
      PROVE  r \in Unprotected(Work, tx.written)
  <2>1. r \in files /\ r.ns = ns
    BY DEF RowsOf
  <2>2. r.path \in Entries(Work)
    BY <1>0, <1>1, <1>3 DEF WorkHasTheItems, Entries
  <2>3. PICK x \in Work : x.path = r.path
    BY <2>2 DEF Entries
  <2>4. x \in files /\ x \in tx.files /\ x.ns = ns
    BY <1>1, <1>3, <2>3 DEF WorkHasTheItems, Work, RowsOf
  <2>5. x = r
    BY <1>1, <2>1, <2>3, <2>4 DEF TableOK
  <2>6. r.id \notin tx.written
    <3> SUFFICES ASSUME r.id \in tx.written PROVE FALSE
      OBVIOUS
    <3>1. PICK i \in 1..tx.next - 1, z \in tx.files :
            z.id = r.id /\ z.path = tx.items[i].path
      BY <1>1 DEF WrittenOK
    <3>2. z = r
      BY <1>1, <2>4, <2>5, <3>1 DEF TableOK
    <3> QED BY <1>3, <3>1, <3>2 DEF Done
  <2> QED BY <2>3, <2>5, <2>6 DEF Unprotected
<1> QED BY <1>0, <1>2, <1>3 DEF Unprotected, NotKept

(* The rows an eviction takes are those of the entries LruCache drops.     *)
LEMMA EvictedIsDropped ==
  ASSUME IInv, WriteFollowsLru, tx.phase = "write", tx.next > Len(tx.items),
         NEW gone,
         gone = IF MaxEntries[tx.owner] = Unbounded THEN {}
                ELSE Evicted(Work, MaxEntries[tx.owner], tx.written)
  PROVE  /\ gone \subseteq Work
         /\ Entries(gone) = Lru!Dropped(Entries(Given), Older(Given), Done, MaxEntries[tx.owner])
<1> DEFINE ns  == NamespaceOf[tx.owner]
           max == MaxEntries[tx.owner]
           S   == Given
           O   == NotKept(S, Done)
           n   == Excess(S, Done, max)
<1>1. /\ tx.owner \in Engine /\ ns \in Namespace /\ max \in (Nat \ {0}) \cup {Unbounded}
      /\ NamespaceRows(S) /\ NamespaceRows(Work) /\ IsFiniteSet(tx.written)
      /\ Entries(Work) = Entries(S) \cup Done
  <2>1. /\ tx.owner \in Engine /\ TableOK(files, lastId) /\ TableOK(tx.files, tx.lastId)
        /\ TypeOK /\ WorkHasTheItems /\ Gone = {}
    BY DEF IInv, TxOK, WriteFollowsLru, Gone
  <2>2. ns \in Namespace /\ max \in (Nat \ {0}) \cup {Unbounded}
    BY <2>1, ConstantsAssumption
  <2>3. NamespaceRows(S) /\ NamespaceRows(Work)
    BY <2>1, TableHasNamespaceRows DEF TypeOK, Work, Given
  <2> QED BY <2>1, <2>2, <2>3, WrittenRowsFit DEF WorkHasTheItems
<1>2. Lru!Dropped(Entries(S), Older(S), Done, max) = Entries(Oldest(O, n))
  BY <1>1, DroppedRows
<1>3. Cardinality(Entries(S) \cup Done) = Cardinality(Work) /\ IsFiniteSet(Work)
  BY <1>1, EntriesAreCounted
<1>4. Unprotected(Work, tx.written) = O /\ O \subseteq S
  BY OthersAreUnprotected DEF NotKept
<1>a. n = IF max = Unbounded THEN 0 ELSE Cardinality(Work) - max
  BY <1>3 DEF Excess
<1> HIDE DEF S, O, n
<1>5. \A r \in O : Cardinality(Predecessors(r, O)) \in Nat
  <2>1. IsFiniteSet(O)
    BY <1>1, <1>4, EntriesAreCounted
  <2>2. \A r \in O : Predecessors(r, O) \subseteq O
    BY DEF Predecessors
  <2> QED BY <2>1, <2>2, FS_Subset, FS_CardinalityType
<1>6. gone = Oldest(O, n)
  <2>1. CASE max = Unbounded
    BY <1>5, <1>a, <2>1 DEF Oldest
  <2>2. CASE max # Unbounded /\ Cardinality(Work) <= max
    <3>1. gone = {}
      BY <2>2 DEF Evicted
    <3>2. n <= 0 /\ n \in Int
      BY <1>1, <1>3, <1>a, <2>2, FS_CardinalityType
    <3> QED BY <1>1, <1>4, <1>5, <3>1, <3>2, EntriesAreCounted, FS_CardinalityType DEF Oldest
  <2>3. CASE max # Unbounded /\ ~(Cardinality(Work) <= max)
    <3>1. n = Cardinality(Work) - max /\ n \in Nat
      BY <1>1, <1>3, <1>a, <2>3, FS_CardinalityType
    <3>2. gone = Victims(Work, n, tx.written)
      BY <2>3, <3>1 DEF Evicted
    <3>3. Victims(Work, n, tx.written) = Oldest(Unprotected(Work, tx.written), n)
      BY <1>1, <3>1, VictimsAreOldestUnprotected DEF NamespaceRows
    <3> QED BY <1>4, <3>2, <3>3
  <2> QED BY <2>1, <2>2, <2>3
<1>7. Oldest(O, n) \subseteq O /\ O \subseteq Work
  BY <1>4 DEF Oldest, Unprotected
<1> QED BY <1>2, <1>6, <1>7 DEF S

LEMMA EvictFollows ==
  ASSUME IInv, WriteFollowsLru, NEW e \in Engine, Evict(e)
  PROVE  WriteFollowsLru'
<1> DEFINE ns   == NamespaceOf[e]
           gone == IF MaxEntries[e] = Unbounded THEN {}
                   ELSE Evicted(RowsOf(tx.files, ns), MaxEntries[e], tx.written)
           ids  == {r.id : r \in gone}
           G    == {r \in tx.files : r.id \notin ids}
<1>1. /\ tx.owner = e /\ tx.phase = "write" /\ tx.next > Len(tx.items)
      /\ tx' = [tx EXCEPT !.files = G, !.phase = "commit"]
      /\ files' = files
  BY DEF Evict
<1>2. TypeOK /\ TableOK(tx.files, tx.lastId) /\ tx.files \subseteq Row /\ IsFiniteSet(tx.files)
  BY <1>1 DEF IInv, TxOK, TypeOK
<1>3. /\ tx'.phase = "commit" /\ tx'.owner = e /\ tx'.items = tx.items
      /\ tx'.next = tx.next /\ tx'.restore = tx.restore /\ tx'.files = G
  BY <1>1, <1>2 DEF TypeOK
<1>4. BatchIsGiven /\ WorkHasTheItems /\ LaterIsNewer /\ Gone = {}
  BY <1>1 DEF WriteFollowsLru, Gone
<1>5. gone \subseteq Work /\ Entries(gone) = Lru!Dropped(Entries(Given), Older(Given), Done, MaxEntries[e])
  BY <1>1, EvictedIsDropped DEF Work
<1> HIDE DEF gone
<1>6. Done' = Done
  BY <1>3 DEF Done
<1>7. Gone' = Entries(gone)
  <2>1. Given' = Given
    BY <1>1, <1>3 DEF Given
  <2> QED BY <1>3, <1>5, <1>6, <2>1 DEF Gone
<1>8. Work' = Work \ gone
  BY <1>1, <1>2, <1>3, <1>5 DEF Work, RowsOf, TableOK
<1>9. Entries(Work') = Entries(Work) \ Entries(gone)
  <2>1. NamespaceRows(Work)
    BY <1>2, TableHasNamespaceRows DEF Work
  <2> QED BY <1>5, <1>8, <2>1 DEF Entries, NamespaceRows
<1>10. WorkHasTheItems'
  <2>1. Entries(Work') = (Entries(Given') \cup Done') \ Gone'
    BY <1>1, <1>3, <1>4, <1>6, <1>7, <1>9 DEF WorkHasTheItems, Given
  <2>2. \A r \in Work' : IF r.path \in Done' THEN r.src = "import" <=> tx'.restore
                                             ELSE r \in files
    BY <1>3, <1>4, <1>6, <1>8 DEF WorkHasTheItems
  <2> QED BY <1>1, <1>3, <2>1, <2>2 DEF WorkHasTheItems
<1>11. LaterIsNewer'
  <2>1. Work' \subseteq Work
    BY <1>8
  <2> QED BY <1>3, <1>4, <2>1 DEF LaterIsNewer
<1>12. BatchIsGiven'
  BY <1>3, <1>4 DEF BatchIsGiven, PathsOf
<1> QED BY <1>10, <1>11, <1>12 DEF WriteFollowsLru

LEMMA BeginWriteFollows ==
  ASSUME IInv, NEW e \in Engine, NEW restore \in BOOLEAN, NEW items,
         PathsOf(items) \in IF restore THEN {PathsOf(batch) : batch \in ImportBatches}
                                       ELSE StoreBatches,
         BeginWrite(e, restore, items)
  PROVE  WriteFollowsLru'
<1>1. /\ tx' = [phase |-> "write", owner |-> e, restore |-> restore,
                items |-> items, next |-> 1, written |-> {},
                files |-> files, lastId |-> lastId]
      /\ files' = files
  BY DEF BeginWrite
<1>2. /\ tx'.phase = "write" /\ tx'.owner = e /\ tx'.restore = restore
      /\ tx'.items = items /\ tx'.next = 1 /\ tx'.files = files
  BY <1>1
<1>3. Done' = {} /\ Gone' = {} /\ Work' = RowsOf(files, NamespaceOf[e])
  BY <1>2 DEF Done, Gone, Work
<1>4. BatchIsGiven'
  BY <1>2 DEF BatchIsGiven, PathsOf
<1>5. WorkHasTheItems'
  BY <1>1, <1>2, <1>3 DEF WorkHasTheItems, Given, RowsOf
<1>6. LaterIsNewer'
  BY <1>2 DEF LaterIsNewer
<1> QED BY <1>4, <1>5, <1>6 DEF WriteFollowsLru

LEMMA WriteFollowsInit == Init => WriteFollowsLru
BY DEF Init, NoTx, WriteFollowsLru

LEMMA WriteFollowsNext ==
  ASSUME IInv, WriteFollowsLru, [Next]_vars
  PROVE  WriteFollowsLru'
<1>1. ASSUME files' = files, tx' = tx PROVE WriteFollowsLru'
  BY <1>1 DEF WriteFollowsLru, BatchIsGiven, WorkHasTheItems, LaterIsNewer, Work, Done, Gone,
     Given
<1>2. ASSUME tx'.phase = "none" PROVE WriteFollowsLru'
  BY <1>2 DEF WriteFollowsLru
<1>3. CASE UNCHANGED vars
  BY <1>1, <1>3 DEF vars
<1>4. ASSUME NEW e \in Engine, NEW p \in Path, Find(e, p) PROVE WriteFollowsLru'
  BY <1>1, <1>4 DEF Find
<1>5. ASSUME NEW e \in Engine, RecordUse(e) PROVE WriteFollowsLru'
  BY <1>2, <1>5 DEF RecordUse, WriteLockFree
<1>6. ASSUME NEW e \in Engine, EndRead(e) PROVE WriteFollowsLru'
  BY <1>1, <1>6 DEF EndRead
<1>7. ASSUME NEW e \in Engine, NEW paths \in SUBSET Path, DeletePaths(e, paths)
      PROVE  WriteFollowsLru'
  BY <1>2, <1>7 DEF DeletePaths, CanWrite, WriteLockFree
<1>8. ASSUME NEW e \in Engine, NEW paths \in StoreBatches, BeginStore(e, paths)
      PROVE  WriteFollowsLru'
  <2> DEFINE items == [i \in DOMAIN paths |-> [path |-> paths[i], use |-> 0]]
  <2>1. PathsOf(items) = paths
    <3>1. paths \in Seq(Path)
      BY ConstantsAssumption
    <3>2. paths = [i \in DOMAIN paths |-> paths[i]]
      BY <3>1
    <3> QED BY <3>2 DEF PathsOf
  <2>2. BeginWrite(e, FALSE, items)
    BY <1>8 DEF BeginStore
  <2> HIDE DEF items
  <2> QED BY <2>1, <2>2, BeginWriteFollows
<1>9. ASSUME NEW e \in Engine, NEW records \in ImportBatches, BeginImport(e, records)
      PROVE  WriteFollowsLru'
  <2> DEFINE items == [i \in DOMAIN records |->
                         [path |-> records[i].path, use |-> UseValueOfRecord(records[i])]]
  <2>1. PathsOf(items) = PathsOf(records)
    BY DEF PathsOf
  <2>2. BeginWrite(e, TRUE, items)
    BY <1>9 DEF BeginImport
  <2> HIDE DEF items
  <2> QED BY <2>1, <2>2, BeginWriteFollows
<1>10. ASSUME NEW e \in Engine, WriteRow(e) PROVE WriteFollowsLru'
  BY <1>10, WriteRowFollows
<1>11. ASSUME NEW e \in Engine, Evict(e) PROVE WriteFollowsLru'
  BY <1>11, EvictFollows
<1>12. ASSUME NEW e \in Engine, Commit(e) \/ Rollback(e) PROVE WriteFollowsLru'
  BY <1>2, <1>12 DEF Commit, Rollback, NoTx
<1> QED BY <1>3, <1>4, <1>5, <1>6, <1>7, <1>8, <1>9, <1>10, <1>11, <1>12 DEF Next

(* An open write does to its namespace, item by item, what LruCache will   *)
(* do in one step, whatever is in the batch and whatever the clock says.   *)
THEOREM WritesFollowLru == Spec => []WriteFollowsLru
BY WriteFollowsInit, WriteFollowsNext, Invariance, PTL DEF Spec

-----------------------------------------------------------------------------
(* Each step of the store is a step of LruCache or none.                   *)
LEMMA NothingBecomes ==
  ASSUME files' = files PROVE UNCHANGED Lru!vars
BY DEF Lru!vars

(* One namespace changes.                                                  *)
LEMMA NamespaceBecomes ==
  ASSUME NEW ns \in Namespace,
         \A other \in Namespace \ {ns} : RowsOf(files', other) = RowsOf(files, other),
         NEW left, left = Entries(RowsOf(files', ns)),
         NEW order, order = Older(RowsOf(files', ns)),
         NEW imported, imported \cap left = Imported(RowsOf(files', ns))
  PROVE  Lru!Becomes(ns, left, order, imported)
<1>1. [n \in Namespace |-> Entries(RowsOf(files', n))] =
        [[n \in Namespace |-> Entries(RowsOf(files, n))] EXCEPT ![ns] = left]
  OBVIOUS
<1>2. [n \in Namespace |-> Older(RowsOf(files', n))] =
        [[n \in Namespace |-> Older(RowsOf(files, n))] EXCEPT ![ns] = order]
  OBVIOUS
<1>3. [n \in Namespace |-> Imported(RowsOf(files', n))] =
        [[n \in Namespace |-> Imported(RowsOf(files, n))] EXCEPT ![ns] = imported \cap left]
  OBVIOUS
<1> QED BY <1>1, <1>2, <1>3 DEF Lru!Becomes

LEMMA ImportedPaths ==
  ASSUME NEW S
  PROVE  /\ Imported(S) \subseteq Entries(S)
         /\ \A p : p \in Imported(S) <=> \E r \in S : r.path = p /\ r.src = "import"
         /\ \A p : p \in Entries(S) <=> \E r \in S : r.path = p
BY DEF Imported, Entries

LEMMA DeleteIsDelete ==
  ASSUME IInv, NEW e \in Engine, NEW paths \in SUBSET Path, DeletePaths(e, paths)
  PROVE  Lru!Delete(NamespaceOf[e], paths)
<1> DEFINE ns   == NamespaceOf[e]
           S    == RowsOf(files, ns)
           T    == RowsOf(files', ns)
           left == Entries(S) \ paths
<1>1. files' = {r \in files : ~(r.ns = ns /\ r.path \in paths)} /\ ns \in Namespace
  BY ConstantsAssumption DEF DeletePaths
<1>2. NamespaceRows(S)
  BY TableHasNamespaceRows DEF IInv, TypeOK
<1>3. T = {r \in S : r.path \notin paths}
  BY <1>1 DEF RowsOf
<1>4. \A other \in Namespace \ {ns} : RowsOf(files', other) = RowsOf(files, other)
  BY <1>1 DEF RowsOf
<1> HIDE DEF S, T
<1>5. left = Entries(T)
  BY <1>3 DEF Entries
<1>6. Older(S) \cap Lru!Among(left) = Older(T)
  <2>1. NamespaceRows(T)
    BY <1>2, <1>3, SubsetsAreRows DEF NamespaceRows
  <2>2. ASSUME NEW r \in T, NEW s \in T
        PROVE  <<r.path, s.path>> \in Older(S) \cap Lru!Among(left) <=> Before(r, s)
    <3>1. <<r.path, s.path>> \in Lru!Among(left)
      BY <1>5 DEF Lru!Among, Entries
    <3>2. r \in S /\ s \in S
      BY <1>3
    <3> QED BY <1>2, <3>1, <3>2, OlderIsBefore
  <2>3. Older(S) \cap Lru!Among(left) \subseteq Entries(T) \X Entries(T)
    BY <1>5 DEF Lru!Among
  <2> QED BY <2>1, <2>2, <2>3, OlderEquals
<1>7. Imported(S) \cap left = Imported(T)
  BY <1>2, <1>3 DEF Imported, Entries, NamespaceRows
<1>8. Lru!Becomes(ns, left, Older(S) \cap Lru!Among(left), Imported(S))
  BY <1>1, <1>4, <1>5, <1>6, <1>7, NamespaceBecomes DEF T
<1> QED BY <1>1, <1>8 DEF Lru!Delete, S

LEMMA UseIsUse ==
  ASSUME IInv, NEW e \in Engine, RecordUse(e)
  PROVE  \/ files' = files
         \/ \E p \in Path : Lru!Use(NamespaceOf[e], p)
<1> DEFINE ns == NamespaceOf[e]
           S  == RowsOf(files, ns)
           T  == RowsOf(files', ns)
<1>1. PICK h \in held[e], now \in Clock :
        files' = {IF x.id = h.id
                    THEN [x EXCEPT !.use = UseValue(S, now), !.src = "use"]
                    ELSE x : x \in files}
  BY DEF RecordUse
<1> DEFINE use  == UseValue(S, now)
           f(x) == IF x.id = h.id THEN [x EXCEPT !.use = use, !.src = "use"] ELSE x
<1>2. /\ \A y \in files' : \E x \in files : y = f(x)
      /\ \A x \in files : f(x) \in files'
  BY <1>1
<1>3. /\ files \subseteq Row /\ IsFiniteSet(files) /\ TableOK(files, lastId)
      /\ \A x \in files : x.id = h.id => x.ns = ns
      /\ ns \in Namespace
  BY ConstantsAssumption DEF IInv, TypeOK, HeldOK
<1>4. \A x \in files : x.ns = ns => x.use < use
  BY <1>3, NextUse
<1>5. NamespaceRows(S) /\ S \subseteq files
  BY <1>3, TableHasNamespaceRows DEF RowsOf
<1> HIDE DEF use
<1>6. \A x \in files : /\ x.id # h.id => f(x) = x
                       /\ x.id = h.id => /\ f(x).use = use /\ f(x).ns = x.ns /\ f(x).id = x.id
                                         /\ f(x).path = x.path /\ f(x).src = "use"
  BY <1>3 DEF Row
<1> HIDE DEF f
<1>7. CASE \A x \in files : x.id # h.id
  <2>1. \A x \in files : f(x) = x
    BY <1>6, <1>7
  <2>2. \A x : x \in files' <=> x \in files
    BY <1>2, <2>1
  <2> QED BY <2>2
<1>8. CASE \E x \in files : x.id = h.id
  <2>1. PICK x \in files : x.id = h.id
    BY <1>8
  <2> DEFINE p == x.path
             y == f(x)
             E == Entries(S)
  <2>2. /\ x.ns = ns /\ x \in S /\ p \in Path /\ p \in E
        /\ \A r \in S : r.path = p <=> r = x
        /\ \A r \in files : r.id = h.id <=> r = x
        /\ y.use = use /\ y.ns = ns /\ y.path = p /\ y.src = "use"
    BY <1>3, <1>5, <1>6, <2>1 DEF RowsOf, Entries, NamespaceRows, TableOK
  <2>3. T = {r \in S : r # x} \cup {y}
    <3>1. ASSUME NEW r \in T PROVE r \in {z \in S : z # x} \cup {y}
      <4>1. PICK z \in files : r = f(z)
        BY <1>2 DEF RowsOf
      <4>2. CASE z = x
        BY <4>1, <4>2
      <4>3. CASE z # x
        BY <1>6, <2>2, <4>1, <4>3 DEF RowsOf
      <4> QED BY <4>2, <4>3
    <3>2. y \in T
      BY <1>2, <2>2 DEF RowsOf
    <3>3. ASSUME NEW r \in S, r # x PROVE r \in T
      <4>1. r \in files /\ r.id # h.id /\ r.ns = ns
        BY <2>2, <3>3 DEF RowsOf
      <4> QED BY <1>2, <1>6, <4>1 DEF RowsOf
    <3> QED BY <3>1, <3>2, <3>3
  <2>4. \A other \in Namespace \ {ns} : RowsOf(files', other) = RowsOf(files, other)
    <3> SUFFICES ASSUME NEW other \in Namespace \ {ns}
                 PROVE  RowsOf(files', other) = RowsOf(files, other)
      OBVIOUS
    <3>1. ASSUME NEW r \in files', r.ns = other PROVE r \in files
      <4>1. PICK z \in files : r = f(z)
        BY <1>2
      <4>2. z.id # h.id
        BY <1>3, <1>6, <3>1, <4>1
      <4> QED BY <1>6, <4>1, <4>2
    <3>2. ASSUME NEW r \in files, r.ns = other PROVE r \in files'
      <4>1. r.id # h.id
        BY <1>3, <3>2
      <4> QED BY <1>2, <1>6, <4>1
    <3> QED BY <3>1, <3>2 DEF RowsOf
  <2> HIDE DEF S, T, y
  <2>5. E = Entries(T)
    BY <2>2, <2>3 DEF Entries
  <2>6. Lru!MovedToEnd(Older(S), <<p>>, E) = Older(T)
    <3>1. NamespaceRows(T)
      BY TableHasNamespaceRows, NextInvariant DEF IInv, TypeOK, T, Next
    <3>2. Lru!Elements(<<p>>) = {p} /\ \A q, r : Lru!MovedPast(<<p>>, q, r) <=> r = p /\ q # p
      BY DEF Lru!Elements, Lru!MovedPast
    <3> DEFINE X == Lru!MovedToEnd(Older(S), <<p>>, E)
    <3>3. \A q, r \in E : <<q, r>> \in X <=> \/ r = p /\ q # p
                                             \/ <<q, r>> \in Older(S) /\ q # p /\ r # p
      BY <3>2 DEF Lru!MovedToEnd, Lru!Among
    <3>4. X \subseteq E \X E
      BY DEF Lru!MovedToEnd, Lru!Among
    <3> HIDE DEF X
    <3>5. \A r \in S : r.use \in Int /\ r.id \in Int /\ r.use < use
      BY <1>3, <1>4, <1>5 DEF S, RowsOf, Row
    <3>6. use \in Int
      BY <1>3, NextUse DEF use, S
    <3>7. ASSUME NEW r \in T, NEW s \in T PROVE <<r.path, s.path>> \in X <=> Before(r, s)
      <4>1. r.path \in E /\ s.path \in E
        BY <2>5 DEF Entries
      <4>2. CASE r \in S /\ r # x /\ s \in S /\ s # x
        BY <1>5, <2>2, <3>3, <4>1, <4>2, OlderIsBefore DEF S
      <4>3. CASE s = y /\ r \in S /\ r # x
        <5>1. Before(r, s)
          BY <2>2, <3>5, <4>3 DEF Before
        <5> QED BY <2>2, <3>3, <4>1, <4>3, <5>1
      <4>4. CASE r = y
        <5>1. ~Before(r, s)
          <6>1. s.use <= use /\ s.use \in Int /\ (s = y \/ s.use < use)
            BY <2>2, <2>3, <3>5, <3>6
          <6> QED BY <2>2, <3>1, <3>6, <4>4, <6>1, BeforeIsStrictTotal DEF Before, NamespaceRows
        <5> QED BY <2>2, <3>3, <4>1, <4>4, <5>1
      <4> QED BY <2>3, <4>2, <4>3, <4>4
    <3>8. Older(T) = X
      BY <2>5, <3>1, <3>4, <3>7, OlderEquals
    <3> QED BY <3>8 DEF X
  <2>7. (Imported(S) \ {p}) \cap E = Imported(T)
    BY <2>2, <2>3, <2>5, ImportedPaths
  <2>8. Lru!Becomes(ns, E, Lru!MovedToEnd(Older(S), <<p>>, E), Imported(S) \ {p})
    BY <1>3, <2>4, <2>5, <2>6, <2>7, NamespaceBecomes DEF T
  <2>9. Lru!Use(ns, p)
    BY <1>3, <2>2, <2>8 DEF Lru!Use, S
  <2> QED BY <2>2, <2>9
<1> QED BY <1>7, <1>8

(* The commit of a write or of an import.                                  *)
LEMMA CommitIsWrite ==
  ASSUME IInv, WriteFollowsLru, NEW e \in Engine, Commit(e)
  PROVE  \E ns \in Namespace, bound \in {MaxEntries[x] : x \in Engine} :
           \/ \E paths \in StoreBatches : Lru!Write(ns, paths, bound)
           \/ \E paths \in {PathsOf(batch) : batch \in ImportBatches} :
                Lru!Restore(ns, paths, bound)
<1> DEFINE ns    == NamespaceOf[e]
           bound == MaxEntries[e]
           S     == Given
           T     == Work
           paths == PathsOf(tx.items)
           left  == (Entries(S) \cup Done) \ Gone
<1>1. /\ tx.owner = e /\ tx.phase = "commit" /\ files' = tx.files
      /\ ns \in Namespace /\ bound \in {MaxEntries[x] : x \in Engine}
      /\ BatchIsGiven /\ WorkHasTheItems /\ LaterIsNewer
      /\ TypeOK /\ TableOK(files, lastId) /\ TableOK(tx.files, tx.lastId)
      /\ OthersOK /\ WrittenOK /\ CommitOK
  BY ConstantsAssumption DEF Commit, IInv, TxOK, WriteFollowsLru
<1>2. /\ S = RowsOf(files, ns) /\ T = RowsOf(files', ns)
      /\ \A other \in Namespace \ {ns} : RowsOf(files', other) = RowsOf(files, other)
  BY <1>1 DEF Given, Work, OthersOK
<1>3. NamespaceRows(S) /\ NamespaceRows(T)
  BY <1>1, TableHasNamespaceRows DEF TypeOK, Given, Work
<1>4. /\ tx.items \in Seq(Item) /\ tx.next = Len(tx.items) + 1 /\ Len(tx.items) \in Nat
      /\ DOMAIN tx.items = 1..Len(tx.items) /\ tx.next - 1 = Len(tx.items)
  BY <1>1 DEF TypeOK, WrittenOK, CommitOK
<1>5. /\ paths \in Seq(Path) /\ DOMAIN paths = 1..Len(tx.items)
      /\ \A i \in 1..Len(tx.items) : paths[i] = tx.items[i].path
      /\ Lru!Elements(paths) = Done
  <2>1. ASSUME NEW i \in 1..Len(tx.items) PROVE tx.items[i].path \in Path
    <3>1. tx.items[i] \in Item
      BY <1>4
    <3> QED BY <3>1 DEF Item
  <2>2. paths = [i \in 1..Len(tx.items) |-> tx.items[i].path]
    BY <1>4 DEF PathsOf
  <2>3. /\ DOMAIN paths = 1..Len(tx.items)
        /\ \A i \in 1..Len(tx.items) : paths[i] = tx.items[i].path
    BY <2>2, Zenon
  <2>4. paths \in [1..Len(tx.items) -> Path]
    BY <2>1, <2>2, Zenon
  <2> HIDE DEF paths
  <2>5. paths \in Seq(Path)
    BY <1>4, <2>1, <2>3, <2>4
  <2>6. Lru!Elements(paths) = Done
    BY <1>4, <2>3 DEF Lru!Elements, Done
  <2> QED BY <2>3, <2>5, <2>6
<1>6. /\ Gone = Lru!Dropped(Entries(S), Older(S), Done, bound)
      /\ left = Entries(T)
  BY <1>1 DEF Gone, WorkHasTheItems
<1>7. ASSUME NEW r \in T
      PROVE  /\ r.path \in left
             /\ r.path \notin Done => r \in S
             /\ r.path \in Done => (r.src = "import" <=> tx.restore)
  BY <1>1, <1>2, <1>6 DEF WorkHasTheItems, Entries, RowsOf
<1> HIDE DEF S, T, paths, left
(* Of the others, what is left keeps its order and its origin.             *)
<1>8. \A r, s \in T : r.path \notin Done /\ s.path \notin Done =>
        (<<r.path, s.path>> \in Older(S) <=> Before(r, s))
  BY <1>3, <1>7, OlderIsBefore
<1>9. \A p \in left \ Done : p \in Imported(T) <=> p \in Imported(S)
  <2> SUFFICES ASSUME NEW p \in left \ Done PROVE p \in Imported(T) <=> p \in Imported(S)
    OBVIOUS
  <2>1. PICK r \in T : r.path = p
    BY <1>6 DEF Entries
  <2>2. r \in S
    BY <1>7, <2>1
  <2>3. p \in Imported(T) <=> r.src = "import"
    BY <1>3, <2>1, ImportedPaths DEF NamespaceRows
  <2>4. p \in Imported(S) <=> r.src = "import"
    BY <1>3, <2>1, <2>2, ImportedPaths DEF NamespaceRows
  <2> QED BY <2>3, <2>4
<1>10. \A p \in left \cap Done : p \in Imported(T) <=> tx.restore
  <2> SUFFICES ASSUME NEW p \in left \cap Done PROVE p \in Imported(T) <=> tx.restore
    OBVIOUS
  <2>1. PICK r \in T : r.path = p
    BY <1>6 DEF Entries
  <2>2. p \in Imported(T) <=> r.src = "import"
    BY <1>3, <2>1, ImportedPaths DEF NamespaceRows
  <2> QED BY <1>7, <2>1, <2>2
<1>11. Imported(T) \subseteq left
  BY <1>6, ImportedPaths
<1>12. CASE ~tx.restore
  <2>1. paths \in StoreBatches
    BY <1>1, <1>12 DEF BatchIsGiven, paths
  <2> DEFINE X == Lru!MovedToEnd(Older(S), paths, left)
  <2>2. ASSUME NEW r \in T, NEW s \in T, Lru!MovedPast(paths, r.path, s.path)
        PROVE  r.use < s.use
    <3>1. PICK j \in 1..Len(tx.items) :
            s.path = paths[j] /\ \A i \in 1..Len(tx.items) : i >= j => paths[i] # r.path
      BY <1>5, <2>2 DEF Lru!MovedPast
    <3>2. \A i \in j..Len(tx.items) : tx.items[i].path # r.path
      BY <1>4, <1>5, <3>1
    <3>3. s.path = tx.items[j].path /\ j \in 1..tx.next - 1
      BY <1>4, <1>5, <3>1
    <3> QED BY <1>1, <1>4, <1>12, <3>2, <3>3 DEF LaterIsNewer, T
  <2>3. ASSUME NEW r \in T, NEW s \in T PROVE <<r.path, s.path>> \in X <=> Before(r, s)
    <3>1. /\ Rows(T) /\ r.use \in Int /\ s.use \in Int
          /\ r.path = s.path => r = s
      BY <1>3 DEF NamespaceRows, Rows
    <3>2. <<r.path, s.path>> \in X <=>
            \/ Lru!MovedPast(paths, r.path, s.path)
            \/ /\ <<r.path, s.path>> \in Older(S)
               /\ r.path \notin Done /\ s.path \notin Done
      BY <1>5, <1>7 DEF Lru!MovedToEnd, Lru!Among
    <3>3. CASE Lru!MovedPast(paths, r.path, s.path)
      BY <2>2, <3>2, <3>3 DEF Before
    <3>4. CASE Lru!MovedPast(paths, s.path, r.path)
      <4>1. s.use < r.use /\ ~Before(r, s)
        BY <2>2, <3>1, <3>4 DEF Before
      <4>2. ~Lru!MovedPast(paths, r.path, s.path)
        BY <2>2, <3>1, <4>1
      <4>3. r.path \in Done
        BY <1>5, <3>4, MovedPastIsNamed
      <4> QED BY <3>2, <4>1, <4>2, <4>3
    <3>5. CASE r.path \notin Done /\ s.path \notin Done
      <4>1. ~Lru!MovedPast(paths, r.path, s.path)
        BY <1>5, <3>5, MovedPastIsNamed
      <4> QED BY <1>8, <3>2, <3>5, <4>1
    <3>6. CASE r = s
      <4>1. ~Before(r, s)
        BY <3>1, <3>6 DEF Before, Rows
      <4>2. ~Lru!MovedPast(paths, r.path, s.path)
        BY <1>5, <3>6, MovedPastIsNamed
      <4>3. <<r.path, s.path>> \in Older(S) => r.path \in Done
        BY <1>8, <3>6, <4>1
      <4> QED BY <3>2, <4>1, <4>2, <4>3
    <3> QED BY <1>5, <3>1, <3>3, <3>4, <3>5, <3>6, OneIsMovedPast
  <2>4. X \in SUBSET (Entries(T) \X Entries(T))
    BY <1>6 DEF Lru!MovedToEnd, Lru!Among
  <2>5. X = Older(T)
    <3> HIDE DEF X
    <3> QED BY <1>3, <2>3, <2>4, OlderEquals
  <2>6. (Imported(S) \ Done) \cap left = Imported(T)
    BY <1>9, <1>10, <1>11, <1>12
  <2>7. Lru!Becomes(ns, left, X, Imported(S) \ Done)
    <3> HIDE DEF X, ns
    <3> QED BY <1>1, <1>2, <1>6, <2>5, <2>6, NamespaceBecomes DEF ns
  <2>8. Lru!Write(ns, paths, bound)
    BY <1>1, <1>2, <1>5, <1>6, <2>7 DEF Lru!Write, left
  <2> QED BY <1>1, <2>1, <2>8
<1>13. CASE tx.restore
  <2>1. paths \in {PathsOf(batch) : batch \in ImportBatches}
    BY <1>1, <1>13 DEF BatchIsGiven, paths
  <2> DEFINE X == Older(T)
  <2>2. X \in SUBSET Lru!Among(left) /\ Lru!IsOrder(X, left)
    BY <1>3, <1>6, OlderIsAnOrder DEF Lru!Among
  <2>3. X \cap Lru!Among(left \ Done) = Older(S) \cap Lru!Among(left \ Done)
    <3>1. ASSUME NEW p \in left \ Done, NEW q \in left \ Done
          PROVE  <<p, q>> \in X <=> <<p, q>> \in Older(S)
      <4>1. PICK r \in T, s \in T : r.path = p /\ s.path = q
        BY <1>6 DEF Entries
      <4> QED BY <1>3, <1>8, <4>1, OlderIsBefore
    <3> QED BY <3>1 DEF Lru!Among
  <2>4. (Imported(S) \cup Done) \cap left = Imported(T)
    BY <1>9, <1>10, <1>11, <1>13
  <2>5. Lru!Becomes(ns, left, X, Imported(S) \cup Done)
    <3> HIDE DEF ns
    <3> QED BY <1>1, <1>2, <1>6, <2>4, NamespaceBecomes DEF ns
  <2>6. Lru!Restore(ns, paths, bound)
    <3> HIDE DEF X
    <3> QED BY <1>1, <1>2, <1>5, <1>6, <2>2, <2>3, <2>5 DEF Lru!Restore, left
  <2> QED BY <1>1, <2>1, <2>6
<1> QED BY <1>12, <1>13

LEMMA StoreInitIsLruInit == Init => Lru!Init
BY DEF Init, Lru!Init, Entries, Older, Imported, RowsOf

LEMMA StoreStepIsLruStep ==
  ASSUME IInv, WriteFollowsLru, [Next]_vars
  PROVE  [Lru!Next]_(Lru!vars)
<1>1. ASSUME files' = files PROVE [Lru!Next]_(Lru!vars)
  BY <1>1, NothingBecomes
<1>2. ASSUME NEW e \in Engine PROVE NamespaceOf[e] \in Namespace
  BY ConstantsAssumption
<1>3. CASE UNCHANGED vars
  BY <1>1, <1>3 DEF vars
<1>4. ASSUME NEW e \in Engine, NEW p \in Path, Find(e, p) PROVE [Lru!Next]_(Lru!vars)
  BY <1>1, <1>4 DEF Find
<1>5. ASSUME NEW e \in Engine, RecordUse(e) PROVE [Lru!Next]_(Lru!vars)
  BY <1>1, <1>2, <1>5, UseIsUse DEF Lru!Next
<1>6. ASSUME NEW e \in Engine, EndRead(e) PROVE [Lru!Next]_(Lru!vars)
  BY <1>1, <1>6 DEF EndRead
<1>7. ASSUME NEW e \in Engine, NEW paths \in SUBSET Path, DeletePaths(e, paths)
      PROVE  [Lru!Next]_(Lru!vars)
  BY <1>2, <1>7, DeleteIsDelete DEF Lru!Next
<1>8. ASSUME NEW e \in Engine, NEW paths \in StoreBatches, BeginStore(e, paths)
      PROVE  [Lru!Next]_(Lru!vars)
  BY <1>1, <1>8 DEF BeginStore, BeginWrite
<1>9. ASSUME NEW e \in Engine, NEW records \in ImportBatches, BeginImport(e, records)
      PROVE  [Lru!Next]_(Lru!vars)
  BY <1>1, <1>9 DEF BeginImport, BeginWrite
<1>10. ASSUME NEW e \in Engine, WriteRow(e) \/ Evict(e) \/ Rollback(e)
       PROVE  [Lru!Next]_(Lru!vars)
  BY <1>1, <1>10 DEF WriteRow, Evict, Rollback
<1>11. ASSUME NEW e \in Engine, Commit(e) PROVE [Lru!Next]_(Lru!vars)
  BY <1>11, CommitIsWrite DEF Lru!Next
<1> QED BY <1>3, <1>4, <1>5, <1>6, <1>7, <1>8, <1>9, <1>10, <1>11 DEF Next

(* The store implements LruCache: each read, write, import and removal, of *)
(* any engines in any interleaving, acts on the recency of its namespace   *)
(* as LruCache says, at one moment, whatever the clocks return.            *)
THEOREM StoreImplementsLru == Spec => ImplementsLru
<1>1. Init => Lru!Init
  BY StoreInitIsLruInit
<1>2. IInv /\ WriteFollowsLru /\ [Next]_vars => [Lru!Next]_(Lru!vars)
  BY StoreStepIsLruStep
<1> QED BY <1>1, <1>2, Invariance, WritesFollowLru, PTL DEF Spec, ImplementsLru, Lru!Spec
=============================================================================
