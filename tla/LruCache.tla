------------------------------ MODULE LruCache ------------------------------
(***************************************************************************)
(* What the store promises of recency and eviction, with no clock, no use  *)
(* value and no row id: each namespace is a set of entries and the order   *)
(* in which they were last used.  A use moves an entry to the end of that  *)
(* order.  A write moves what it writes to the end, one after the other,   *)
(* and drops the oldest others until the bound holds, never one it wrote.  *)
(* An import puts its entries anywhere among the others, whose order it    *)
(* keeps; they stay `restored` until their next use, which tells imports   *)
(* from uses.  (The section "Eviction" of the architecture guide, and      *)
(* max_entries in options.rs.)                                             *)
(***************************************************************************)
EXTENDS Integers, FiniteSets, Sequences

CONSTANTS Namespace, Path,
          Bounds,       \* the values max_entries has in some engine
          Unbounded,
          Writes,       \* the sequences of paths one write may store
          Restores      \* the sequences of paths one import may store

VARIABLES entries,    \* the paths each namespace has
          older,      \* <<p, q>>: p was last used before q
          restored    \* those whose place an import gave

vars == <<entries, older, restored>>

Init ==
  /\ entries  = [ns \in Namespace |-> {}]
  /\ older    = [ns \in Namespace |-> {}]
  /\ restored = [ns \in Namespace |-> {}]

Among(S) == S \X S

Elements(paths) == {paths[i] : i \in DOMAIN paths}

(* The namespace has `left` in that order, with `imported` restored.       *)
Becomes(ns, left, order, imported) ==
  /\ entries'  = [entries EXCEPT ![ns] = left]
  /\ older'    = [older EXCEPT ![ns] = order]
  /\ restored' = [restored EXCEPT ![ns] = imported \cap left]

(* q is moved to the end, and p not after it.                              *)
MovedPast(paths, p, q) ==
  \E j \in DOMAIN paths : paths[j] = q /\ \A i \in DOMAIN paths : i >= j => paths[i] # p

(* The order of `left` with `paths` moved to the end one after the other.  *)
MovedToEnd(order, paths, left) ==
  {pair \in Among(left) :
     \/ MovedPast(paths, pair[1], pair[2])
     \/ pair \in order /\ pair \in Among(left \ Elements(paths))}

(* Of S in that order the oldest that are not `kept`, as many as exceed    *)
(* the bound when all of `kept` is there.                                  *)
Dropped(S, order, kept, bound) ==
  LET excess == IF bound = Unbounded THEN 0 ELSE Cardinality(S \cup kept) - bound
  IN  {p \in S \ kept : Cardinality({q \in S \ kept : <<q, p>> \in order}) < excess}

IsOrder(order, S) ==
  /\ \A p \in S : <<p, p>> \notin order
  /\ \A p, q \in S : p # q => <<p, q>> \in order \/ <<q, p>> \in order
  /\ \A p, q, r \in S : <<p, q>> \in order /\ <<q, r>> \in order => <<p, r>> \in order

Use(ns, p) ==
  /\ p \in entries[ns]
  /\ Becomes(ns, entries[ns], MovedToEnd(older[ns], <<p>>, entries[ns]), restored[ns] \ {p})

Delete(ns, paths) ==
  LET left == entries[ns] \ paths
  IN  Becomes(ns, left, older[ns] \cap Among(left), restored[ns])

Write(ns, paths, bound) ==
  LET written == Elements(paths)
      left    == (entries[ns] \cup written) \ Dropped(entries[ns], older[ns], written, bound)
  IN  Becomes(ns, left, MovedToEnd(older[ns], paths, left), restored[ns] \ written)

Restore(ns, paths, bound) ==
  LET written == Elements(paths)
      left    == (entries[ns] \cup written) \ Dropped(entries[ns], older[ns], written, bound)
  IN  \E order \in SUBSET Among(left) :
        /\ Becomes(ns, left, order, restored[ns] \cup written)
        /\ IsOrder(order, left)
        /\ order \cap Among(left \ written) = older[ns] \cap Among(left \ written)

Next ==
  \E ns \in Namespace :
    \/ \E p \in Path : Use(ns, p)
    \/ \E paths \in SUBSET Path : Delete(ns, paths)
    \/ \E paths \in Writes, bound \in Bounds : Write(ns, paths, bound)
    \/ \E paths \in Restores, bound \in Bounds : Restore(ns, paths, bound)

Spec == Init /\ [][Next]_vars
=============================================================================
