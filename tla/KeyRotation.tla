---------------------------- MODULE KeyRotation ----------------------------
(***************************************************************************)
(* rotate_encryption_key (cache/engine.rs) among the writers of a          *)
(* database: one IMMEDIATE transaction that seals every entry of the       *)
(* engine's namespace again, page by page in path order, and only after    *)
(* its commit replaces the key of this engine.  Other engines keep the key *)
(* they were opened with.                                                  *)
(*                                                                         *)
(* payloads[ns][p] is the committed payload of path p, or Absent, with the *)
(* engine that last sealed it (`by`, for the properties alone).  Paths are *)
(* numbers: the order the pages are read in.                               *)
(***************************************************************************)
EXTENDS Sealing, Integers, FiniteSets

CONSTANTS Engine, NoEngine, Namespace, NamespaceOf,
          Absent,
          PageRows,    \* rows of a page at most (1000)
          Foreign      \* payloads an import may bring

ASSUME RotationAssumption ==
  /\ Path \subseteq Nat \ {0}
  /\ IsFiniteSet(Path)
  /\ NamespaceOf \in [Engine -> Namespace]
  /\ NoEngine \notin Engine
  /\ Absent \notin [payload : Payload, by : Engine \cup {NoEngine}]
  /\ PageRows \in Nat \ {0}
  /\ Foreign \subseteq Payload

VARIABLES payloads,   \* the committed payloads
          key,        \* the key of each engine
          rotation    \* what each engine's rotation is at

vars == <<payloads, key, rotation>>

Entry == [payload : Payload, by : Engine \cup {NoEngine}] \cup {Absent}

Idle == [phase |-> "idle", new |-> NoKey, cursor |-> 0, work |-> [p \in Path |-> Absent]]

TypeOK ==
  /\ payloads \in [Namespace -> [Path -> Entry]]
  /\ key \in [Engine -> Key \cup {NoKey}]
  /\ rotation \in [Engine ->
       [phase : {"idle", "pages", "committed"}, new : Key \cup {NoKey},
        cursor : Path \cup {0}, work : [Path -> Entry]]]

Init ==
  /\ payloads = [ns \in Namespace |-> [p \in Path |-> Absent]]
  /\ key \in [Engine -> Key \cup {NoKey}]
  /\ rotation = [e \in Engine |-> Idle]

-----------------------------------------------------------------------------
(* begin_write holds the one write lock of the database to the commit.     *)
NoWriteLock   == TRUE  \* mutant: a deferred transaction
WriteLockFree == \A e \in Engine : rotation[e].phase # "pages"
Ready(e)      == rotation[e].phase = "idle"

Put(ns, p, payload, by) ==
  payloads' = [payloads EXCEPT ![ns][p] = [payload |-> payload, by |-> by]]

(* set: sealed under the engine's key, stored in its own transaction.      *)
Set(e, p, text, base) ==
  /\ Ready(e) /\ WriteLockFree
  /\ Put(NamespaceOf[e], p, Encode(text, base, p, key[e]), e)
  /\ UNCHANGED <<key, rotation>>

(* import_bounded: payloads are stored verbatim; an engine with a key      *)
(* looks at the tag, and takes only bound ones.                            *)
Import(e, p, payload) ==
  /\ Ready(e) /\ WriteLockFree
  /\ key[e] # NoKey => payload.seal = "bound"
  /\ Put(NamespaceOf[e], p, payload, NoEngine)
  /\ UNCHANGED <<key, rotation>>

Remove(e, p) ==
  /\ Ready(e) /\ WriteLockFree
  /\ payloads' = [payloads EXCEPT ![NamespaceOf[e]][p] = Absent]
  /\ UNCHANGED <<key, rotation>>

-----------------------------------------------------------------------------
BeginRotation(e, new) ==
  /\ Ready(e) /\ WriteLockFree
  /\ key[e] # NoKey
  /\ rotation' = [rotation EXCEPT ![e] =
                    [phase |-> "pages", new |-> new, cursor |-> 0,
                     work |-> payloads[NamespaceOf[e]]]]
  /\ UNCHANGED <<payloads, key>>

(* load_payload_page: the rows after the cursor up to some last one, as    *)
(* many as fit the byte bound.                                             *)
Remaining(r)  == {p \in Path : p > r.cursor /\ r.work[p] # Absent}
Page(r, last) == {p \in Remaining(r) : p <= last}
LastRows(r)   == {last \in Remaining(r) : Cardinality(Page(r, last)) <= PageRows}

PageOpens(e, last) ==
  \A p \in Page(rotation[e], last) : Resealable(rotation[e].work[p].payload, p, key[e])

NextAfterSkipping(last) == last + 1  \* mutant: the cursor skips a path
NextAfterUnmoved(last)  == 0         \* mutant: the cursor is left behind
NextAfter(last)         == last

RotatePage(e) ==
  LET r == rotation[e]
  IN  /\ r.phase = "pages"
      /\ \E last \in LastRows(r) :
           /\ PageOpens(e, last)
           /\ rotation' = [rotation EXCEPT ![e] =
                [phase |-> "pages", new |-> r.new, cursor |-> NextAfter(last),
                 work |-> [p \in Path |->
                    IF p \in Page(r, last)
                      THEN [payload |-> Reseal(r.work[p].payload, p, r.new), by |-> e]
                      ELSE r.work[p]]]]
      /\ UNCHANGED <<payloads, key>>

(* A row that does not open, or a tag this build cannot decode: the        *)
(* transaction is dropped and the engine keeps its key.                    *)
RotationFails(e) ==
  /\ rotation[e].phase = "pages"
  /\ \E last \in LastRows(rotation[e]) : ~PageOpens(e, last)
  /\ rotation' = [rotation EXCEPT ![e] = Idle]
  /\ UNCHANGED <<payloads, key>>

(* mutant: the key is replaced before the outcome is known                 *)
RollBackUnderNewKey(e) ==
  /\ rotation[e].phase = "pages"
  /\ key' = [key EXCEPT ![e] = rotation[e].new]
  /\ rotation' = [rotation EXCEPT ![e] = Idle]
  /\ UNCHANGED payloads

(* Any other error of the transaction, its commit included.                *)
RollBack(e) ==
  /\ rotation[e].phase = "pages"
  /\ rotation' = [rotation EXCEPT ![e] = Idle]
  /\ UNCHANGED <<payloads, key>>

CommitRotation(e) ==
  /\ rotation[e].phase = "pages"
  /\ Remaining(rotation[e]) = {}
  /\ payloads' = [payloads EXCEPT ![NamespaceOf[e]] = rotation[e].work]
  /\ rotation' = [rotation EXCEPT ![e].phase = "committed"]
  /\ UNCHANGED key

(* encryption_key.replace, after the commit.                               *)
ReplaceKey(e) ==
  /\ rotation[e].phase = "committed"
  /\ key' = [key EXCEPT ![e] = rotation[e].new]
  /\ rotation' = [rotation EXCEPT ![e] = Idle]
  /\ UNCHANGED payloads

(* The process ends, at any point, and another opens with the key it has:  *)
(* what is sealed is no longer known to be this engine's.                  *)
Reopen(e, k) ==
  /\ key' = [key EXCEPT ![e] = k]
  /\ rotation' = [rotation EXCEPT ![e] = Idle]
  /\ payloads' = [ns \in Namespace |-> [p \in Path |->
        IF payloads[ns][p] # Absent /\ payloads[ns][p].by = e
          THEN [payloads[ns][p] EXCEPT !.by = NoEngine]
          ELSE payloads[ns][p]]]

RotationStep(e) ==
  RotatePage(e) \/ RotationFails(e) \/ CommitRotation(e) \/ ReplaceKey(e)

Next ==
  \E e \in Engine :
    \/ \E p \in Path, text \in Text, base \in KnownBase : Set(e, p, text, base)
    \/ \E p \in Path, payload \in Foreign : Import(e, p, payload)
    \/ \E p \in Path : Remove(e, p)
    \/ \E new \in Key : BeginRotation(e, new)
    \/ RotationStep(e)
    \/ RollBack(e)
    \/ \E k \in Key \cup {NoKey} : Reopen(e, k)

Spec == Init /\ [][Next]_vars

(* The thread that rotates keeps running its loop until the process ends.  *)
FairSpec == Spec /\ \A e \in Engine : WF_vars(RotationStep(e))

-----------------------------------------------------------------------------
(* The key an engine seals and reads with once the call it is in returns.  *)
KeyInUse(e) == IF rotation[e].phase = "committed" THEN rotation[e].new ELSE key[e]

(* What an engine sealed and nobody replaced, it can read: a rotation that *)
(* fails at any row, page or commit leaves it the key its entries are      *)
(* sealed with, and one that commits gives it the new one before its next  *)
(* call (rotate_encryption_key replaces the key last).                     *)
OwnEntriesReadable ==
  \A e \in Engine, p \in Path :
    LET entry == payloads[NamespaceOf[e]][p]
    IN  (entry # Absent /\ entry.by = e) =>
           Decode(entry.payload, p, KeyInUse(e)) = Plain(entry.payload.text)

(* A rotation that commits leaves every entry of its namespace readable    *)
(* under the new key, with the text it had in the database at that moment  *)
(* (so no write of another engine is overwritten by a stale sealing), adds *)
(* and drops no entry, and leaves the other namespaces alone.              *)
RotationSealsEveryEntry ==
  [][\A e \in Engine : CommitRotation(e) =>
       /\ \A p \in Path :
            LET was == payloads[NamespaceOf[e]][p]
                is  == payloads'[NamespaceOf[e]][p]
            IN  /\ (was = Absent) = (is = Absent)
                /\ is # Absent =>
                     /\ is.payload.text = was.payload.text
                     /\ Decode(is.payload, p, rotation[e].new) = Plain(is.payload.text)
       /\ \A ns \in Namespace \ {NamespaceOf[e]} : payloads'[ns] = payloads[ns]]_vars

(* What holds at every step, and makes the two properties above inductive. *)
OwnSealed ==
  \A e \in Engine, ns \in Namespace, p \in Path :
    LET entry == payloads[ns][p]
    IN  (entry # Absent /\ entry.by = e) =>
          /\ ns = NamespaceOf[e]
          /\ entry.payload.base \in KnownBase
          /\ entry.payload =
               Encode(entry.payload.text, entry.payload.base, p, KeyInUse(e))

OneRotation ==
  \A e, f \in Engine :
    (rotation[e].phase = "pages" /\ rotation[f].phase = "pages") => e = f

(* Up to the cursor sealed under the new key, after it as in the database. *)
WorkAgrees(e) ==
  \A p \in Path :
    LET was == payloads[NamespaceOf[e]][p]
        is  == rotation[e].work[p]
    IN  /\ (was = Absent) = (is = Absent)
        /\ (is # Absent /\ p > rotation[e].cursor) => is.payload = was.payload
        /\ (is # Absent /\ p <= rotation[e].cursor) =>
             /\ is.by = e
             /\ is.payload.base \in KnownBase
             /\ is.payload =
                  Encode(was.payload.text, is.payload.base, p, rotation[e].new)

WorkOK == \A e \in Engine : rotation[e].phase = "pages" => WorkAgrees(e)

IInv == TypeOK /\ OwnSealed /\ OneRotation /\ WorkOK

(* Paging by a cursor that only advances, a rotation comes to an end.      *)
RotationEnds ==
  \A e \in Engine : rotation[e].phase = "pages" ~> rotation[e].phase # "pages"
=============================================================================
