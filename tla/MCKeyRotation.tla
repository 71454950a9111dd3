--------------------------- MODULE MCKeyRotation ---------------------------
(* Instances of KeyRotation for model checking.                            *)
EXTENDS KeyRotation

CONSTANTS e1, e2, n1, n2, k1, k2, raw, zstd, s, t

(* Two engines on one namespace.                                           *)
Together == [e \in Engine |-> n1]

Sealed(base, seal, k, aad, text) ==
  [base |-> base, seal |-> seal, key |-> k, aad |-> aad, text |-> text]

(* What an export of another database may hold: a plain entry, one sealed  *)
(* by v0.23 or earlier, one bound to path 1, and a codec of another build. *)
Exports ==
  {Sealed(raw, "plain", NoKey, NoAad, s)}
  \cup {Sealed(raw, "unbound", k, NoAad, s) : k \in Key}
  \cup {Sealed(raw, "bound", k, <<raw, 1>>, s) : k \in Key}
  \cup {Sealed(zstd, "unbound", k, NoAad, s) : k \in Key}
=============================================================================
