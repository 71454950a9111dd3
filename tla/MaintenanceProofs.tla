------------------------- MODULE MaintenanceProofs -------------------------
(* Proofs about Maintenance: what a finished sweep has removed and what it *)
(* has left, for any number of paths, any page size and any clock.         *)
EXTENDS Maintenance, TLAPS

LEMMA InitInvariance == Init => IInv
<1> SUFFICES ASSUME Init PROVE IInv
  OBVIOUS
<1>e. [p \in Path |-> NoRow] \in [Path -> Clock \cup {NoRow}] /\ 0 \in 0..N
  BY MaintenanceAssumption
<1>1. TypeOK
  BY <1>e DEF Init, TypeOK
<1>2. AheadOK /\ ChosenOK
  BY DEF Init, AheadOK, ChosenOK
<1> QED
  BY <1>1, <1>2 DEF IInv

-----------------------------------------------------------------------------
(* The types.                                                              *)
LEMMA TypeInvariance == TypeOK /\ [Next]_vars => TypeOK'
<1> SUFFICES ASSUME TypeOK, [Next]_vars PROVE TypeOK'
  OBVIOUS
<1>t. /\ rows \in [Path -> Clock \cup {NoRow}] /\ there \subseteq Path /\ now \in Clock
      /\ kind \in {"missing", "expired"}
      /\ step \in {"idle", "paging", "judging", "done"}
      /\ cursor \in 0..N /\ page \in [Path -> Clock \cup {NoRow}]
      /\ unjudged \subseteq Path /\ chosen \subseteq Path /\ lastPage \in BOOLEAN
      /\ must \subseteq Path /\ keep \subseteq Path
  BY DEF TypeOK
<1>n. N \in Nat /\ Stored \subseteq Path
  BY MaintenanceAssumption DEF Stored
<1>e. [p \in Path |-> NoRow] \in [Path -> Clock \cup {NoRow}] /\ 0 \in 0..N
  BY <1>n
<1>w. ASSUME rows' \in [Path -> Clock \cup {NoRow}], there' \subseteq Path, now' \in Clock,
             Watched
      PROVE  TypeOK'
  BY <1>t, <1>w DEF Watched, sweep, TypeOK
<1>1. CASE UNCHANGED vars
  BY <1>1, <1>t DEF vars, world, sweep, TypeOK
<1>2. ASSUME NEW k \in {"missing", "expired"}, Start(k) PROVE TypeOK'
  BY <1>2, <1>t, <1>n DEF Start, world, TypeOK
<1>3. CASE ReadPage
  <2>1. PICK S \in SUBSET Stored : \E last \in S :
          /\ page' = [p \in Path |-> IF p \in S /\ kind = "expired" THEN rows[p] ELSE NoRow]
          /\ cursor' = last /\ unjudged' = S /\ lastPage' = IsLast(S)
    BY <1>3 DEF ReadPage
  <2>2. cursor' \in 0..N
    BY <2>1, <1>n DEF Path
  <2>3. page' \in [Path -> Clock \cup {NoRow}]
    BY <2>1, <1>t
  <2>4. lastPage' \in BOOLEAN
    BY <2>1 DEF IsLast
  <2>5. unjudged' \subseteq Path
    BY <2>1, <1>n
  <2> QED
    BY <1>3, <1>t, <2>2, <2>3, <2>4, <2>5 DEF ReadPage, world, TypeOK
<1>4. CASE EmptyPage
  BY <1>4, <1>t DEF EmptyPage, world, TypeOK
<1>5. ASSUME NEW p \in Path, Judge(p) PROVE TypeOK'
  <2>1. page' \in [Path -> Clock \cup {NoRow}]
    BY <1>5, <1>t DEF Judge
  <2> QED
    BY <1>5, <1>t, <2>1 DEF Judge, world, TypeOK
<1>6. CASE DeletePaths
  <2>1. rows' \in [Path -> Clock \cup {NoRow}]
    BY <1>6, <1>t DEF DeletePaths
  <2>2. step' \in {"idle", "paging", "judging", "done"}
    BY <1>6 DEF DeletePaths, NextRound
  <2> QED
    BY <1>6, <1>t, <1>e, <2>1, <2>2 DEF DeletePaths, NextRound, TypeOK
<1>7. CASE SweepFails \/ Return
  BY <1>7, <1>t, <1>e DEF SweepFails, Return, world, TypeOK
<1>8. ASSUME NEW p \in Path, Set(p) PROVE TypeOK'
  <2>1. rows' \in [Path -> Clock \cup {NoRow}]
    BY <1>8, <1>t DEF Set
  <2> QED
    BY <1>8, <1>t, <1>w, <2>1 DEF Set
<1>9. ASSUME NEW S \in SUBSET Stored, RemoveRows(S) PROVE TypeOK'
  <2>1. rows' \in [Path -> Clock \cup {NoRow}]
    BY <1>9, <1>t DEF RemoveRows
  <2> QED
    BY <1>9, <1>t, <1>w, <2>1 DEF RemoveRows
<1>10. ASSUME NEW p \in Path, ChangeFile(p) PROVE TypeOK'
  BY <1>10, <1>t, <1>w DEF ChangeFile
<1>11. ASSUME NEW t \in Clock, Tick(t) PROVE TypeOK'
  BY <1>11, <1>t, <1>w DEF Tick
<1> QED
  BY <1>1, <1>2, <1>3, <1>4, <1>5, <1>6, <1>7, <1>8, <1>9, <1>10, <1>11
     DEF Next, Sweep, Judging

-----------------------------------------------------------------------------
(* One lemma for each kind of step.                                        *)

(* The others only shorten what is asked of the sweep.                     *)
LEMMA WatchedKeeps ==
  ASSUME IInv, Watched
  PROVE  AheadOK' /\ ChosenOK'
<1>s. /\ step' = step /\ cursor' = cursor /\ page' = page /\ unjudged' = unjudged
      /\ chosen' = chosen /\ lastPage' = lastPage /\ kind' = kind
  BY DEF Watched, sweep
<1>m. must' = {p \in must \cap Stored : rows'[p] = rows[p] /\ Qualifies(p)'}
  BY DEF Watched
<1>k. keep' = {p \in keep :
                 /\ rows'[p] # NoRow /\ ~Qualifies(p)'
                 /\ kind = "missing" \/ p \notin unjudged \/ rows'[p] = rows[p]}
  BY DEF Watched
<1>1. AheadOK'
  <2>1. must' \subseteq must \cap Stored
    BY <1>m
  <2> QED
    BY <1>s, <2>1 DEF IInv, AheadOK
<1>2. keep' \subseteq keep /\ must' \subseteq must \cap Stored
  BY <1>m, <1>k
<1>3. keep' \subseteq Stored'
  BY <1>k, <1>2 DEF IInv, TypeOK, Stored
<1>4. keep' \cap chosen' = {}
  BY <1>s, <1>2 DEF IInv, ChosenOK
<1>5. \A p \in keep' : ~Qualifies(p)'
  BY <1>k
<1>6. \A p \in must' \cap Stored' : Qualifies(p)'
  BY <1>m
<1>7. ASSUME step' = "judging", kind' = "expired",
             NEW p \in unjudged' \cap (keep' \cup must') \cap Stored'
      PROVE  page'[p] = rows'[p]
  <2>1. rows'[p] = rows[p]
    BY <1>7, <1>s, <1>m, <1>k
  <2>2. p \in unjudged \cap (keep \cup must) \cap Stored
    BY <1>7, <1>s, <1>2 DEF IInv, ChosenOK
  <2> QED
    BY <1>7, <1>s, <2>1, <2>2 DEF IInv, ChosenOK
<1>8. ChosenOK'
  BY <1>3, <1>4, <1>5, <1>6, <1>7 DEF ChosenOK
<1> QED
  BY <1>1, <1>8

LEMMA StartKeeps ==
  ASSUME IInv, NEW k \in {"missing", "expired"}, Start(k)
  PROVE  AheadOK' /\ ChosenOK'
<1>u. /\ rows' = rows /\ there' = there /\ now' = now /\ kind' = k
      /\ step' = "paging" /\ cursor' = 0 /\ chosen' = {}
      /\ must' = {p \in Stored : Qualifies(p)'}
      /\ keep' = {p \in Stored : ~Qualifies(p)'}
  BY DEF Start, world
<1>1. Stored' = Stored /\ \A p \in Stored : p > 0
  BY <1>u, MaintenanceAssumption DEF Stored, Path
<1>2. AheadOK'
  BY <1>u, <1>1 DEF AheadOK
<1>3. ChosenOK'
  BY <1>u, <1>1 DEF ChosenOK
<1> QED
  BY <1>2, <1>3

(* What the page leaves out before its last path is none of the rows, and  *)
(* what it leaves out behind it is behind the new cursor.                  *)
LEMMA ReadPageKeeps ==
  ASSUME IInv, ReadPage
  PROVE  AheadOK' /\ ChosenOK'
<1>u. /\ step = "paging" /\ step' = "judging" /\ chosen' = {}
      /\ rows' = rows /\ there' = there /\ now' = now /\ kind' = kind
      /\ must' = must /\ keep' = keep
  BY DEF ReadPage, world
<1>p. PICK S \in SUBSET Stored : \E last \in S :
        /\ IsPage(S) /\ \A p \in S : p <= last
        /\ page' = [p \in Path |-> IF p \in S /\ kind = "expired" THEN rows[p] ELSE NoRow]
        /\ cursor' = last /\ unjudged' = S /\ lastPage' = IsLast(S)
  BY DEF ReadPage
<1>l. PICK last \in S :
        /\ IsPage(S) /\ \A p \in S : p <= last
        /\ page' = [p \in Path |-> IF p \in S /\ kind = "expired" THEN rows[p] ELSE NoRow]
        /\ cursor' = last /\ unjudged' = S /\ lastPage' = IsLast(S)
  BY <1>p
<1>s. Stored' = Stored
  BY <1>u DEF Stored
<1>1. ASSUME NEW p \in must \cap Stored, p \notin S
      PROVE  p > last /\ ~IsLast(S)
  <2>1. p \in After /\ S # After
    BY <1>1, <1>u DEF IInv, AheadOK, After
  <2>2. Cardinality(S) = PageSize
    BY <1>l, <2>1 DEF IsPage
  <2>3. ~IsLast(S)
    BY <2>2, MaintenanceAssumption DEF IsLast
  <2>4. ~(p < last)
    BY <1>1, <1>l, <2>1 DEF IsPage
  <2>5. p # last /\ p \in Int /\ last \in Int
    BY <1>1, MaintenanceAssumption DEF Stored, Path
  <2> QED
    BY <2>3, <2>4, <2>5
<1>2. AheadOK'
  BY <1>u, <1>l, <1>s, <1>1 DEF AheadOK
<1>3. \A p \in Path : Qualifies(p)' = Qualifies(p)
  BY <1>u DEF Qualifies, IsExpired
<1>4. kind = "expired" => \A p \in S : page'[p] = rows'[p]
  BY <1>u, <1>l DEF Stored
<1>5. keep \subseteq Path /\ Stored \subseteq Path
  BY DEF IInv, TypeOK, Stored
<1>6. ChosenOK'
  BY <1>u, <1>l, <1>s, <1>3, <1>4, <1>5 DEF IInv, ChosenOK
<1> QED
  BY <1>2, <1>6

LEMMA EmptyPageKeeps ==
  ASSUME IInv, EmptyPage
  PROVE  AheadOK' /\ ChosenOK'
<1>u. /\ step = "paging" /\ step' = "done" /\ After = {} /\ chosen' = chosen
      /\ rows' = rows /\ there' = there /\ now' = now /\ kind' = kind
      /\ must' = must /\ keep' = keep
  BY DEF EmptyPage, world
<1>s. Stored' = Stored
  BY <1>u DEF Stored
<1>1. must \cap Stored = {}
  BY <1>u DEF IInv, AheadOK, After
<1>2. AheadOK'
  BY <1>u, <1>s, <1>1 DEF AheadOK
<1>3. \A p \in Path : Qualifies(p)' = Qualifies(p)
  BY <1>u DEF Qualifies, IsExpired
<1>5. keep \subseteq Path /\ Stored \subseteq Path
  BY DEF IInv, TypeOK, Stored
<1>4. ChosenOK'
  BY <1>u, <1>s, <1>1, <1>3, <1>5 DEF IInv, ChosenOK
<1> QED
  BY <1>2, <1>4

(* One that must go qualifies when it is looked at, and the page has its   *)
(* age; one to keep does not.                                              *)
LEMMA JudgeKeeps ==
  ASSUME IInv, NEW p \in Path, Judge(p)
  PROVE  AheadOK' /\ ChosenOK'
<1> DEFINE Chosen == IF kind = "missing" THEN p \notin there ELSE IsExpired(page[p])
<1>u. /\ step = "judging" /\ step' = step /\ p \in unjudged /\ unjudged' = unjudged \ {p}
      /\ chosen' = IF Chosen THEN chosen \cup {p} ELSE chosen
      /\ rows' = rows /\ there' = there /\ now' = now /\ kind' = kind
      /\ page' = [page EXCEPT ![p] = NoRow]
      /\ cursor' = cursor /\ lastPage' = lastPage /\ must' = must /\ keep' = keep
  BY DEF Judge, world
<1>s. Stored' = Stored
  BY <1>u DEF Stored
<1>k. kind \in {"missing", "expired"} /\ keep \subseteq Stored
  BY DEF IInv, TypeOK, ChosenOK
<1>1. ASSUME p \in (must \cup keep) \cap Stored PROVE Chosen <=> Qualifies(p)
  BY <1>1, <1>u, <1>k DEF IInv, ChosenOK, Qualifies
<1>2. ASSUME p \in must \cap Stored PROVE p \in chosen'
  BY <1>1, <1>2, <1>u DEF IInv, ChosenOK
<1>3. ASSUME p \in keep PROVE chosen' = chosen
  BY <1>1, <1>3, <1>u, <1>k DEF IInv, ChosenOK
<1>c. chosen \subseteq chosen' /\ chosen' \subseteq chosen \cup {p}
  BY <1>u
<1> HIDE DEF Chosen
<1>4. AheadOK'
  BY <1>u, <1>s, <1>2, <1>c DEF IInv, AheadOK
<1>5. keep' \cap chosen' = {}
  BY <1>u, <1>3, <1>c DEF IInv, ChosenOK
<1>6. \A q \in Path : Qualifies(q)' = Qualifies(q)
  BY <1>u DEF Qualifies, IsExpired
<1>7. keep \subseteq Path /\ Stored \subseteq Path
  BY DEF IInv, TypeOK, Stored
<1>8. ASSUME step' = "judging", kind' = "expired",
             NEW q \in unjudged' \cap (keep' \cup must') \cap Stored'
      PROVE  page'[q] = rows'[q]
  <2>1. q # p /\ q \in Path
    BY <1>8, <1>u DEF IInv, TypeOK
  <2>2. page'[q] = page[q]
    BY <2>1, <1>u DEF IInv, TypeOK
  <2>3. page[q] = rows[q]
    BY <1>8, <1>u, <1>s DEF IInv, ChosenOK
  <2> QED
    BY <2>2, <2>3, <1>u
<1>9. /\ keep' \subseteq Stored'
      /\ \A q \in keep' : ~Qualifies(q)'
      /\ \A q \in must' \cap Stored' : Qualifies(q)'
  BY <1>u, <1>s, <1>6, <1>7 DEF IInv, ChosenOK
<1>10. ChosenOK'
  BY <1>5, <1>8, <1>9 DEF ChosenOK
<1> QED
  BY <1>4, <1>10

LEMMA DeletePathsKeeps ==
  ASSUME IInv, DeletePaths
  PROVE  AheadOK' /\ ChosenOK'
<1>u. /\ step = "judging" /\ unjudged = {} /\ unjudged' = unjudged
      /\ step' = IF lastPage THEN "done" ELSE "paging"
      /\ rows' = [p \in Path |-> IF p \in chosen THEN NoRow ELSE rows[p]]
      /\ there' = there /\ now' = now /\ kind' = kind /\ chosen' = {}
      /\ cursor' = cursor /\ must' = must /\ keep' = keep
  BY DEF DeletePaths, NextRound
<1>s. Stored' = Stored \ chosen /\ Stored \subseteq Path
  BY <1>u DEF Stored
<1>1. AheadOK'
  BY <1>u, <1>s DEF IInv, AheadOK
<1>2. \A p \in Path \ chosen : Qualifies(p)' = Qualifies(p)
  BY <1>u DEF Qualifies, IsExpired
<1>3. step' # "judging"
  BY <1>u
<1>4. keep \subseteq Stored \ chosen
  BY DEF IInv, ChosenOK
<1>5. ChosenOK'
  BY <1>u, <1>s, <1>2, <1>3, <1>4 DEF IInv, ChosenOK
<1> QED
  BY <1>1, <1>5

LEMMA EndKeeps ==
  ASSUME IInv, SweepFails \/ Return
  PROVE  AheadOK' /\ ChosenOK'
<1>1. must' = {} /\ keep' = {}
  BY DEF SweepFails, Return
<1> QED
  BY <1>1 DEF AheadOK, ChosenOK

LEMMA StutterKeeps ==
  ASSUME IInv, UNCHANGED vars
  PROVE  AheadOK' /\ ChosenOK'
<1>1. /\ rows' = rows /\ there' = there /\ now' = now /\ kind' = kind /\ page' = page
      /\ cursor' = cursor /\ lastPage' = lastPage /\ must' = must /\ keep' = keep
      /\ step' = step /\ unjudged' = unjudged /\ chosen' = chosen
  BY DEF vars, world, sweep
<1>2. AheadOK'
  BY <1>1 DEF IInv, AheadOK, Stored
<1>3. ChosenOK'
  BY <1>1 DEF IInv, ChosenOK, Stored, Qualifies, IsExpired
<1> QED
  BY <1>2, <1>3

-----------------------------------------------------------------------------
LEMMA NextInvariance == IInv /\ [Next]_vars => IInv'
<1> SUFFICES ASSUME IInv, [Next]_vars PROVE IInv'
  OBVIOUS
<1>t. TypeOK'
  BY TypeInvariance DEF IInv
<1>1. ASSUME AheadOK' /\ ChosenOK' PROVE IInv'
  BY <1>t, <1>1 DEF IInv
<1>2. CASE UNCHANGED vars
  BY <1>1, <1>2, StutterKeeps
<1>3. ASSUME NEW k \in {"missing", "expired"}, Start(k) PROVE IInv'
  BY <1>1, <1>3, StartKeeps
<1>4. CASE ReadPage
  BY <1>1, <1>4, ReadPageKeeps
<1>5. CASE EmptyPage
  BY <1>1, <1>5, EmptyPageKeeps
<1>6. ASSUME NEW p \in Path, Judge(p) PROVE IInv'
  BY <1>1, <1>6, JudgeKeeps
<1>7. CASE DeletePaths
  BY <1>1, <1>7, DeletePathsKeeps
<1>8. CASE SweepFails \/ Return
  BY <1>1, <1>8, EndKeeps
<1>9. ASSUME Watched PROVE IInv'
  BY <1>1, <1>9, WatchedKeeps
<1>10. ASSUME NEW p \in Path, Set(p) \/ ChangeFile(p) PROVE IInv'
  BY <1>9, <1>10 DEF Set, ChangeFile
<1>11. ASSUME NEW S \in SUBSET Stored, RemoveRows(S) PROVE IInv'
  BY <1>9, <1>11 DEF RemoveRows
<1>12. ASSUME NEW t \in Clock, Tick(t) PROVE IInv'
  BY <1>9, <1>12 DEF Tick
<1> QED
  BY <1>2, <1>3, <1>4, <1>5, <1>6, <1>7, <1>8, <1>10, <1>11, <1>12
     DEF Next, Sweep, Judging

(* The inductive invariant of a sweep (cleanup_missing_files,              *)
(* cleanup_expired): what must go is ahead of it or in its hands, and what *)
(* is to stay is not.                                                      *)
THEOREM Invariance == Spec => []IInv
<1> QED
  BY InitInvariance, NextInvariance, PTL DEF Spec

(* The cursor by path misses no entry that qualified from the start of the *)
(* sweep to its end (get_paths_page), for every page size.                 *)
THEOREM NothingIsMissed == Spec => []SweepMissesNothing
<1>1. IInv => SweepMissesNothing
  BY DEF IInv, AheadOK, SweepMissesNothing
<1> QED
  BY <1>1, Invariance, PTL

(* Deleting by path (delete_paths_in_tx), long after the look at file or   *)
(* age, takes no entry that never qualified, also when it is stored again  *)
(* meanwhile, unless an expired sweep has then read its row and not yet    *)
(* judged it.                                                              *)
THEOREM TheRestIsKept == Spec => []SweepKeepsTheRest
<1>1. IInv => SweepKeepsTheRest
  BY DEF IInv, ChosenOK, SweepKeepsTheRest
<1> QED
  BY <1>1, Invariance, PTL
=============================================================================
