------------------------------ MODULE Backfill ------------------------------
(***************************************************************************)
(* The use order that the migration from version 5 to version 6 gives to   *)
(* the rows of a table (db/schema/migration.rs): the window expression     *)
(* that assigns it, and the recurrence it is checked against afterwards.   *)
(*                                                                         *)
(* A row has the fields id, ns, updated and accessed, the last two in      *)
(* seconds.                                                                *)
(***************************************************************************)
EXTENDS Integers, FiniteSets, FiniteSetsExt

CONSTANTS UseLimit,         \* exclusive bound of a use value: 2^62
          MicrosPerSecond   \* 10^6

ASSUME BackfillAssumption == UseLimit \in Nat \ {0} /\ MicrosPerSecond \in Nat \ {0}

(* The second of the last use: of a read, or of the write if never read.   *)
Second(r) == IF r.accessed > 0 THEN r.accessed ELSE r.updated

(* Mutant: rows of one second in the order of their ids.                   *)
EarlierById(q, r) == Second(q) < Second(r) \/ (Second(q) = Second(r) /\ q.id < r.id)

(* ORDER BY s, updated_at, id                                              *)
Earlier(q, r) ==
  \/ Second(q) < Second(r)
  \/ Second(q) = Second(r) /\ q.updated < r.updated
  \/ Second(q) = Second(r) /\ q.updated = r.updated /\ q.id < r.id

(* PARTITION BY namespace ... UNBOUNDED PRECEDING AND CURRENT ROW          *)
UpTo(rows, r) == {q \in rows : q.ns = r.ns /\ (q = r \/ Earlier(q, r))}

Rank(rows, r) == Cardinality(UpTo(rows, r))

(* Mutant: without the rank, rows of one second tie.                       *)
BackfilledTied(rows, r) == Max({Second(q) * MicrosPerSecond : q \in UpTo(rows, r)})

(* run.rn + run.m: v_i = i + the maximum over j <= i of s_j * 10^6 - j.    *)
Backfilled(rows, r) ==
  Rank(rows, r) + Max({Second(q) * MicrosPerSecond - Rank(rows, q) : q \in UpTo(rows, r)})

(* The row of a rank.                                                      *)
Ranked(rows, r, i) == CHOOSE q \in UpTo(rows, r) : Rank(rows, q) = i

(* The recurrence of validate_use_order, in the order of the rows of each  *)
(* namespace: v_i = max(s_i * 10^6, v_(i-1) + 1).                          *)
Expected(rows, r) ==
  LET micros(i) == Second(Ranked(rows, r, i)) * MicrosPerSecond
      v[i \in 1..Rank(rows, r)] ==
        IF i = 1 THEN micros(1) ELSE Max({micros(i), v[i - 1] + 1})
  IN  v[Rank(rows, r)]

(* The rows the migration accepts: last-use seconds from 0 to the largest  *)
(* whose microseconds are below the limit.                                 *)
InRange(rows) ==
  \A r \in rows : Second(r) >= 0 /\ Second(r) <= UseLimit \div MicrosPerSecond

FitsUseOrder(rows) == \A r \in rows : Backfilled(rows, r) < UseLimit
=============================================================================
