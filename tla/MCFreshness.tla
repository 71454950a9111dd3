---------------------------- MODULE MCFreshness ----------------------------
(* Instances of Freshness for model checking.                              *)
EXTENDS Freshness, TLC

CONSTANTS e1, e2, c1, c2, c3, c4, small, large, head, other, m1, m2

(* c2 differs from c1 outside the samples, c3 inside, c4 in its size.      *)
SizeOf   == [c \in Contents |-> IF c = c4 THEN small ELSE large]
SampleOf == [c \in Contents |-> IF c = c3 THEN other ELSE head]

AllModes == [mode : Mode, version : {0}]
Versions == [mode : {"MetadataOnly"}, version : {0, 1, 2}]
Symmetry == Permutations(Mtime) \cup Permutations(Engine)
=============================================================================
