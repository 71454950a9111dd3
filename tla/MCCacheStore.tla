---------------------------- MODULE MCCacheStore ----------------------------
(* Instances of CacheStore for model checking.                             *)
EXTENDS CacheStoreRefinesLru, TLC

CONSTANTS e1, e2, e3, e4, n1, n2, a, b, c

Symmetry == Permutations(Path)

(* One namespace: an engine bounded to two entries and an unbounded one.   *)
OneNamespace == [e \in Engine |-> n1]
BoundedAndNot == [e \in Engine |-> IF e = e1 THEN 2 ELSE Unbounded]

(* Two namespaces in one database: e2 has its own.                         *)
TwoNamespaces == [e \in Engine |-> IF e = e2 THEN n2 ELSE n1]
BoundOne == [e \in Engine |-> 1]

(* set, a batch_set of two paths (the same one twice included), and a      *)
(* batch_set of which nothing prepared.                                    *)
Batches == {<<>>} \cup {<<p>> : p \in Path} \cup {<<p, q>> : p \in Path, q \in Path}
Singles == {<<p>> : p \in Path}

Record(p, used, updated) == [path |-> p, last_accessed_at |-> used, updated_at |-> updated]

(* Imports: a record used in second 1, one never read (second 0), one out  *)
(* of range, and two records of the same second.                           *)
Imports ==
  {<<Record(p, 1, 0)>> : p \in Path} \cup {<<Record(p, 0, 0)>> : p \in Path}
  \cup {<<Record(p, 0, -1)>> : p \in Path}
  \cup {<<Record(p, 1, 1), Record(q, 1, 0)>> : p \in Path, q \in Path}
NoImports == {}
=============================================================================
