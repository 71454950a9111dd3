------------------------------ MODULE UseOrder ------------------------------
(***************************************************************************)
(* The use order of a namespace: the value a use assigns to a row, the     *)
(* value an imported record stands for, the order the rows are evicted in  *)
(* and the rows one eviction selects (db/repository.rs).                   *)
(*                                                                         *)
(* A row is a record [id, ns, path, use, src].  `use` is the column        *)
(* last_used_us.  `src` is not stored by the program: it says whether a    *)
(* use or an import assigned `use`, for the properties to speak about.     *)
(***************************************************************************)
EXTENDS Integers, FiniteSets, FiniteSetsExt

CONSTANTS UseLimit,         \* exclusive bound of a use value: 2^62
          MicrosPerSecond   \* microseconds in an exported second: 10^6

ASSUME UseLimitAssumption == UseLimit \in Nat \ {0}
ASSUME MicrosAssumption   == MicrosPerSecond \in Nat \ {0}

(* The rows of one namespace (every statement carries namespace = ?).      *)
RowsOf(files, ns) == {r \in files : r.ns = ns}

(* COALESCE(MAX(last_used_us), 0) over `rows`.                             *)
MaxUse(rows) == Max({0} \cup {r.use : r \in rows})

(* Mutant: the clock, or the newest value itself, so that uses tie.        *)
UseValueTied(rows, now) == IF now > MaxUse(rows) THEN now ELSE MaxUse(rows)

(* The value a use takes: the larger of the clock and one more than every  *)
(* value of the namespace, in the statement that writes it.                *)
UseValue(rows, now) ==
  IF now > MaxUse(rows) + 1 THEN now ELSE MaxUse(rows) + 1

(* Mutant: the limit itself is admitted.                                   *)
FitsUpToLimit(v) == v <= UseLimit

(* The column's CHECK: a use value stays below 2^62, or the statement      *)
(* fails with "use order exhausted".                                       *)
FitsUseOrder(v) == v < UseLimit

(* The second an exported record was last used in.                         *)
LastUseSecond(rec) ==
  IF rec.last_accessed_at > 0 THEN rec.last_accessed_at ELSE rec.updated_at

(* A record is representable when its second is not negative and its       *)
(* microseconds stay below the limit (use_value_of_record is then Some).   *)
Representable(rec) ==
  /\ LastUseSecond(rec) >= 0
  /\ LastUseSecond(rec) * MicrosPerSecond < UseLimit

UseValueOfRecord(rec) == LastUseSecond(rec) * MicrosPerSecond

-----------------------------------------------------------------------------
(* ORDER BY last_used_us ASC, id ASC                                       *)
Before(r, s) == r.use < s.use \/ (r.use = s.use /\ r.id < s.id)

Predecessors(r, rows) == {s \in rows : Before(s, r)}

(* Mutant: the order of insertion, not of use.                             *)
OldestById(rows, n) == {r \in rows : Cardinality({s \in rows : s.id < r.id}) < n}

(* The first n of `rows` in that order: ORDER BY ... LIMIT n, and take(n)  *)
(* of a list already in order.                                             *)
Oldest(rows, n) == {r \in rows : Cardinality(Predecessors(r, rows)) < n}

Unprotected(rows, protected) == {r \in rows : r.id \notin protected}

(* Mutants: LIMIT n, the protected rows not allowed for; or not skipped.   *)
VictimsUnderselected(rows, n, protected) ==
  Oldest(Unprotected(Oldest(rows, n), protected), n)

VictimsUnskipped(rows, n, protected) == Oldest(rows, n)

(* evict_lru selects n + |protected| rows in order, drops the protected    *)
(* ones in Rust, and takes the first n of what is left.                    *)
Victims(rows, n, protected) ==
  Oldest(Unprotected(Oldest(rows, n + Cardinality(protected)), protected), n)

(* enforce_max_entries: nothing within the bound, else the excess goes.    *)
Evicted(rows, max, protected) ==
  IF Cardinality(rows) <= max THEN {}
  ELSE Victims(rows, Cardinality(rows) - max, protected)
=============================================================================
