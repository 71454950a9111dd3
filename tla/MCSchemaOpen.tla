---------------------------- MODULE MCSchemaOpen ----------------------------
(* Instances of SchemaOpen for model checking.                             *)
EXTENDS SchemaOpen, TLC

CONSTANTS p1, p2, p3, n1, n2, x, y

Symmetry == Permutations(Process)

Entry(id, ns, mtime, updated, accessed, content) ==
  [id |-> id, ns |-> ns, mtime |-> mtime, updated |-> updated, accessed |-> accessed,
   use |-> 0, content |-> content]

Db(version, shape, rows, sequence, journal) ==
  [version |-> version, shape |-> shape, rows |-> rows, sequence |-> sequence,
   journal |-> journal]

Empty == Db(0, 0, {}, 0, "delete")

(* Rows of versions 1 to 3: never read; ids 1 and 3 of one second, id 2    *)
(* without a payload, entry 4 deleted; or a sequence behind the ids.       *)
Old == {Entry(1, n1, 1, 1, 0, x), Entry(2, n1, -1, 0, 0, NoContent), Entry(3, n1, 2, 1, 0, y)}

(* Rows of versions 4 and 5: read and unread, in two namespaces, ordered   *)
(* against their ids, with ties in the second alone and in both.           *)
Read(nanos) ==
  {Entry(1, n1, 1 * nanos, 1, 2, x), Entry(2, n1, 0, 2, 0, y), Entry(3, n2, 2 * nanos, 0, 0, x)}

ReadTied(nanos) ==
  {Entry(1, n1, 1 * nanos, 2, 0, x), Entry(2, n1, 0, 1, 2, y), Entry(3, n1, 0, 1, 2, y)}

(* A second before 1970, one whose microseconds do not fit, and one that   *)
(* fits but leaves no room for the rows that share it.                     *)
OutOfRange ==
  {Db(5, 5, {Entry(1, n1, 0, -1, 0, x)}, 1, "wal"), Db(5, 5, {Entry(1, n1, 0, 5, 0, x)}, 1, "wal"),
   Db(5, 5, {Entry(1, n1, 0, 4, 0, x), Entry(2, n1, 0, 4, 0, y)}, 2, "delete"),
   Db(4, 4, {Entry(1, n1, 3, 0, 0, x)}, 1, "delete")}

Known ==
  {Empty}
  \cup {Db(v, 1, Old, 4, j) : v \in {0, 1}, j \in {"delete", "wal"}}
  \cup {Db(1, 1, Old, 2, "delete")}
  \cup {Db(v, v, Old, 4, "delete") : v \in {2, 3}}
  \cup {Db(4, 4, rows, 4, "wal") : rows \in {Read(1), ReadTied(1)}}
  \cup {Db(5, 5, rows, 4, "delete") : rows \in {Read(NanosPerSecond), ReadTied(NanosPerSecond)}}
  \cup {Db(6, 6, {}, 0, "delete")}
  \cup OutOfRange

(* Objects of another program, a version of the future, and shapes that    *)
(* belong to another version than the one they carry.                      *)
Unknown ==
  {Db(0, Foreign, {}, 0, "delete"), Db(6, Foreign, {}, 0, "delete"), Db(7, 6, {}, 0, "delete"),
   Db(-1, Foreign, {}, 0, "delete"), Db(5, 4, Read(1), 4, "wal"), Db(6, 5, Read(1), 4, "wal"),
   Db(0, 2, Old, 4, "delete")}

All == Known \cup Unknown
=============================================================================
