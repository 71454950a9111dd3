------------------------- MODULE KeyRotationProofs -------------------------
(***************************************************************************)
(* Proofs about KeyRotation, for any engines, namespaces, paths, page size *)
(* and keys: an engine can read what it sealed, and a rotation that        *)
(* commits has sealed every entry of its namespace under the new key.      *)
(***************************************************************************)
EXTENDS KeyRotation, TLAPS

(* What is encoded is a payload: of the type, with the text and codec it   *)
(* was given.                                                              *)
LEMMA EncodeType ==
  ASSUME NEW text \in Text, NEW base \in Base, NEW p \in Path, NEW k \in Key \cup {NoKey}
  PROVE  /\ Encode(text, base, p, k) \in Payload
         /\ Encode(text, base, p, k).text = text
         /\ Encode(text, base, p, k).base = base
BY DEF Encode, Payload, AssociatedData

(* decode_payload after encode_payload, with the same path and key, gives  *)
(* the text back: the tag and the associated data agree on both sides.     *)
LEMMA DecodeEncode ==
  ASSUME NEW text \in Text, NEW base \in KnownBase, NEW p \in Path, NEW k \in Key \cup {NoKey}
  PROVE  Decode(Encode(text, base, p, k), p, k) = Plain(text)
<1>1. CASE k = NoKey
  <2> DEFINE c == [base |-> base, seal |-> "plain", key |-> NoKey, aad |-> NoAad, text |-> text]
  <2>1. Encode(text, base, p, k) = c
    BY <1>1 DEF Encode
  <2>2. Decode(c, p, k) = Plain(text)
    BY <1>1 DEF Decode, Plain
  <2> QED BY <2>1, <2>2
<1>2. CASE k # NoKey
  <2> DEFINE c == [base |-> base, seal |-> "bound", key |-> k,
                   aad |-> AssociatedData(base, p), text |-> text]
  <2>1. Encode(text, base, p, k) = c
    BY <1>2 DEF Encode
  <2>2. Decode(c, p, k) = Plain(text)
    BY <1>2 DEF Decode, Plain, Opens
  <2> QED BY <2>1, <2>2
<1> QED BY <1>1, <1>2

SealedEntry == [payload : Payload, by : Engine \cup {NoEngine}]

LEMMA EntryFacts ==
  ASSUME NEW entry \in Entry, entry # Absent
  PROVE  /\ entry \in SealedEntry
         /\ entry.payload \in Payload /\ entry.by \in Engine \cup {NoEngine}
         /\ entry.payload.text \in Text /\ entry.payload.base \in Base
BY DEF Entry, SealedEntry, Payload

LEMMA InitInvariant == Init => IInv
<1> SUFFICES ASSUME Init PROVE IInv
  OBVIOUS
<1>1. /\ payloads \in [Namespace -> [Path -> {Absent}]]
      /\ rotation \in [Engine -> {Idle}]
      /\ key \in [Engine -> Key \cup {NoKey}]
  BY DEF Init
<1>2. TypeOK
  BY <1>1 DEF TypeOK, Entry, Idle
<1>3. \A e \in Engine : rotation[e].phase = "idle"
  BY <1>1 DEF Idle
<1>4. OwnSealed
  BY <1>1 DEF OwnSealed
<1>5. OneRotation /\ WorkOK
  BY <1>3 DEF OneRotation, WorkOK
<1> QED BY <1>2, <1>4, <1>5 DEF IInv

(* A statement that stores an entry while no rotation holds the lock.      *)
LEMMA PutStep ==
  ASSUME IInv, NEW e \in Engine, NEW p \in Path, NEW payload \in Payload,
         NEW by \in Engine \cup {NoEngine},
         WriteLockFree, UNCHANGED <<key, rotation>>,
         Put(NamespaceOf[e], p, payload, by),
         by # NoEngine =>
           /\ by = e
           /\ payload.base \in KnownBase
           /\ payload = Encode(payload.text, payload.base, p, KeyInUse(e))
  PROVE  IInv'
<1> DEFINE here == NamespaceOf[e]
           new  == [payload |-> payload, by |-> by]
<1>1. here \in Namespace
  BY RotationAssumption
<1>2. new \in Entry /\ new # Absent
  BY RotationAssumption DEF Entry
<1>3. payloads' = [payloads EXCEPT ![here][p] = new]
  BY DEF Put
<1>4. \A ns \in Namespace, q \in Path :
        payloads'[ns][q] = IF ns = here /\ q = p THEN new ELSE payloads[ns][q]
  BY <1>1, <1>3 DEF IInv, TypeOK
<1>5. TypeOK'
  <2>1. payloads' \in [Namespace -> [Path -> Entry]]
    BY <1>1, <1>2, <1>3 DEF IInv, TypeOK
  <2> QED BY <2>1 DEF IInv, TypeOK
<1>6. OwnSealed'
  <2>1. \A f : KeyInUse(f)' = KeyInUse(f)
    BY DEF KeyInUse
  <2> SUFFICES ASSUME NEW f \in Engine, NEW ns \in Namespace, NEW q \in Path,
                      payloads'[ns][q] # Absent, payloads'[ns][q].by = f
               PROVE  /\ ns = NamespaceOf[f]
                      /\ payloads'[ns][q].payload.base \in KnownBase
                      /\ payloads'[ns][q].payload =
                           Encode(payloads'[ns][q].payload.text, payloads'[ns][q].payload.base,
                                  q, KeyInUse(f))
    BY <2>1 DEF OwnSealed
  <2>2. CASE ns = here /\ q = p
    BY <1>4, <2>2, RotationAssumption
  <2>3. CASE ~(ns = here /\ q = p)
    BY <1>4, <2>3 DEF IInv, OwnSealed
  <2> QED BY <2>2, <2>3
<1>7. OneRotation' /\ WorkOK'
  BY DEF WriteLockFree, OneRotation, WorkOK
<1> QED BY <1>5, <1>6, <1>7 DEF IInv

LEMMA SetStep ==
  ASSUME IInv, NEW e \in Engine, NEW p \in Path, NEW text \in Text, NEW base \in KnownBase,
         Set(e, p, text, base)
  PROVE  IInv'
<1>1. KeyInUse(e) = key[e] /\ key[e] \in Key \cup {NoKey} /\ base \in Base
  BY SealingAssumption DEF Set, Ready, KeyInUse, IInv, TypeOK
<1>2. /\ Encode(text, base, p, key[e]) \in Payload
      /\ Encode(text, base, p, key[e]).text = text
      /\ Encode(text, base, p, key[e]).base = base
  BY <1>1, EncodeType
<1> QED BY <1>1, <1>2, PutStep DEF Set

LEMMA ImportStep ==
  ASSUME IInv, NEW e \in Engine, NEW p \in Path, NEW payload \in Foreign,
         Import(e, p, payload)
  PROVE  IInv'
BY RotationAssumption, PutStep DEF Import

LEMMA RemoveStep ==
  ASSUME IInv, NEW e \in Engine, NEW p \in Path, Remove(e, p)
  PROVE  IInv'
<1>1. TypeOK'
  BY RotationAssumption DEF Remove, IInv, TypeOK, Entry
<1>2. \A ns \in Namespace, q \in Path :
        payloads'[ns][q] = payloads[ns][q] \/ payloads'[ns][q] = Absent
  BY RotationAssumption DEF Remove, IInv, TypeOK
<1>3. \A f : KeyInUse(f)' = KeyInUse(f)
  BY DEF Remove, KeyInUse
<1>4. OwnSealed'
  BY <1>2, <1>3 DEF OwnSealed, IInv
<1>5. OneRotation' /\ WorkOK'
  BY DEF Remove, WriteLockFree, OneRotation, WorkOK
<1> QED BY <1>1, <1>4, <1>5 DEF IInv

(* The end of a rotation that wrote nothing: the key and the payloads stay. *)
LEMMA DropStep ==
  ASSUME IInv, NEW e \in Engine, rotation[e].phase = "pages",
         rotation' = [rotation EXCEPT ![e] = Idle], UNCHANGED <<payloads, key>>
  PROVE  IInv'
<1>1. \A f \in Engine : f # e => rotation'[f] = rotation[f]
  BY DEF IInv, TypeOK
<1>2. rotation'[e] = Idle /\ Idle.phase = "idle"
  BY DEF IInv, TypeOK, Idle
<1>3. TypeOK'
  BY DEF IInv, TypeOK, Idle, Entry
<1>4. \A f \in Engine : KeyInUse(f)' = KeyInUse(f)
  BY <1>1, <1>2 DEF KeyInUse
<1>5. OwnSealed'
  BY <1>4 DEF IInv, OwnSealed
<1>6. OneRotation' /\ WorkOK'
  BY <1>1, <1>2 DEF IInv, OneRotation, WorkOK, WorkAgrees
<1> QED BY <1>3, <1>5, <1>6 DEF IInv

LEMMA BeginStep ==
  ASSUME IInv, NEW e \in Engine, NEW new \in Key, BeginRotation(e, new)
  PROVE  IInv'
<1> DEFINE begun == [phase |-> "pages", new |-> new, cursor |-> 0,
                     work |-> payloads[NamespaceOf[e]]]
<1>0. rotation' = [rotation EXCEPT ![e] = begun] /\ payloads' = payloads /\ key' = key
  BY DEF BeginRotation
<1>1. /\ \A f \in Engine : f # e => rotation'[f] = rotation[f]
      /\ rotation'[e] = begun
  BY <1>0 DEF IInv, TypeOK
<1>2. TypeOK'
  <2>1. begun \in [phase : {"idle", "pages", "committed"}, new : Key \cup {NoKey},
                   cursor : Path \cup {0}, work : [Path -> Entry]]
    BY RotationAssumption DEF IInv, TypeOK
  <2> QED BY <1>0, <2>1 DEF IInv, TypeOK
<1>3. \A f \in Engine : KeyInUse(f)' = KeyInUse(f)
  BY <1>0, <1>1 DEF KeyInUse, BeginRotation, Ready
<1>4. OwnSealed'
  BY <1>0, <1>3 DEF IInv, OwnSealed
<1>5. \A f \in Engine : f # e => rotation'[f].phase # "pages"
  BY <1>1 DEF BeginRotation, WriteLockFree
<1>6. OneRotation'
  BY <1>5 DEF OneRotation
<1>7. WorkAgrees(e)'
  BY <1>0, <1>1, RotationAssumption DEF WorkAgrees
<1>8. WorkOK'
  BY <1>5, <1>7 DEF WorkOK
<1> QED BY <1>2, <1>4, <1>6, <1>8 DEF IInv

LEMMA PageStep ==
  ASSUME IInv, NEW e \in Engine, RotatePage(e)
  PROVE  IInv'
<1> DEFINE r    == rotation[e]
           here == payloads[NamespaceOf[e]]
<1>0. r.phase = "pages" /\ payloads' = payloads /\ key' = key
  BY DEF RotatePage
<1>1. PICK last \in LastRows(r) :
        /\ PageOpens(e, last)
        /\ rotation' = [rotation EXCEPT ![e] =
             [phase |-> "pages", new |-> r.new, cursor |-> NextAfter(last),
              work |-> [p \in Path |->
                 IF p \in Page(r, last)
                   THEN [payload |-> Reseal(r.work[p].payload, p, r.new), by |-> e]
                   ELSE r.work[p]]]]
  BY DEF RotatePage
<1>2. /\ r \in [phase : {"idle", "pages", "committed"}, new : Key \cup {NoKey},
                cursor : Path \cup {0}, work : [Path -> Entry]]
      /\ r.cursor \in Path \cup {0} /\ last \in Path /\ last > r.cursor
  BY <1>1 DEF IInv, TypeOK, LastRows, Remaining
<1> DEFINE sealed(p) == [payload |-> Reseal(r.work[p].payload, p, r.new), by |-> e]
           done == [phase |-> "pages", new |-> r.new, cursor |-> last,
                    work |-> [p \in Path |->
                       IF p \in Page(r, last) THEN sealed(p) ELSE r.work[p]]]
<1>3. rotation' = [rotation EXCEPT ![e] = done]
  BY <1>1 DEF NextAfter
<1>4. /\ \A f \in Engine : f # e => rotation'[f] = rotation[f]
      /\ rotation'[e] = done
  BY <1>3 DEF IInv, TypeOK
<1>5. WorkAgrees(e)
  BY <1>0 DEF IInv, WorkOK
<1>6. ASSUME NEW p \in Page(r, last)
      PROVE  /\ p \in Path /\ p > r.cursor /\ p <= last /\ r.work[p] # Absent
             /\ r.work[p].payload = here[p].payload
             /\ r.work[p].payload.base \in KnownBase
             /\ sealed(p) \in SealedEntry
             /\ sealed(p).payload = Encode(here[p].payload.text, sealed(p).payload.base, p, r.new)
             /\ sealed(p).payload.base \in KnownBase
  <2>1. p \in Path /\ p > r.cursor /\ p <= last /\ r.work[p] # Absent
    BY DEF Page, Remaining
  <2>2. r.work[p].payload = here[p].payload
    BY <2>1, <1>5 DEF WorkAgrees
  <2>3. r.work[p].payload.base \in KnownBase
    BY <1>1 DEF PageOpens, Resealable
  <2>4. /\ r.work[p].payload.text \in Text /\ r.work[p].payload.base \in Base
        /\ r.new \in Key \cup {NoKey}
    BY <1>2, <2>1, EntryFacts
  <2>5. /\ sealed(p).payload \in Payload
        /\ sealed(p).payload.base = r.work[p].payload.base
    BY <2>1, <2>4, EncodeType DEF Reseal
  <2> QED BY <2>1, <2>2, <2>3, <2>5 DEF Reseal, SealedEntry
<1> HIDE DEF sealed
<1>7. TypeOK'
  <2>1. \A p \in Path : done.work[p] \in Entry
    BY <1>2, <1>6 DEF Entry, SealedEntry
  <2>2. done \in [phase : {"idle", "pages", "committed"}, new : Key \cup {NoKey},
                  cursor : Path \cup {0}, work : [Path -> Entry]]
    BY <1>2, <2>1
  <2> QED BY <1>0, <1>3, <2>2 DEF IInv, TypeOK
<1>8. \A f \in Engine : KeyInUse(f)' = KeyInUse(f)
  BY <1>0, <1>4 DEF KeyInUse
<1>9. OwnSealed'
  BY <1>0, <1>8 DEF IInv, OwnSealed
<1>10. \A f \in Engine : f # e => rotation'[f].phase # "pages"
  BY <1>0, <1>4 DEF IInv, OneRotation
<1>11. WorkAgrees(e)'
  <2> SUFFICES ASSUME NEW p \in Path
               PROVE  /\ (here[p] = Absent) = (done.work[p] = Absent)
                      /\ (done.work[p] # Absent /\ p > last) =>
                            done.work[p].payload = here[p].payload
                      /\ (done.work[p] # Absent /\ p <= last) =>
                            /\ done.work[p].by = e
                            /\ done.work[p].payload.base \in KnownBase
                            /\ done.work[p].payload =
                                 Encode(here[p].payload.text, done.work[p].payload.base, p, r.new)
    BY <1>0, <1>4 DEF WorkAgrees
  <2>1. CASE p \in Page(r, last)
    <3>1. done.work[p] = sealed(p) /\ sealed(p) # Absent /\ sealed(p).by = e /\ ~(p > last)
      <4>1. sealed(p) # Absent
        BY <1>6, <2>1, RotationAssumption DEF SealedEntry
      <4>2. sealed(p).by = e
        BY DEF sealed
      <4>3. ~(p > last)
        BY <1>2, <1>6, <2>1, RotationAssumption
      <4> QED BY <2>1, <4>1, <4>2, <4>3
    <3>2. here[p] # Absent
      BY <1>5, <1>6, <2>1 DEF WorkAgrees
    <3> QED BY <3>1, <3>2, <1>6, <2>1
  <2>2. CASE p \notin Page(r, last)
    <3>1. done.work[p] = r.work[p]
      BY <2>2
    <3>0. p \in Nat /\ last \in Nat /\ r.cursor \in Nat
      <4>1. \A n \in Path \cup {0} : n \in Nat
        BY RotationAssumption
      <4>2. r.cursor \in Path \cup {0} /\ last \in Path
        BY <1>2
      <4> HIDE DEF r
      <4> QED BY <4>1, <4>2
    <3>2. (r.work[p] # Absent /\ p <= last) => p <= r.cursor
      BY <3>0, <2>2 DEF Page, Remaining
    <3>3. p > last => p > r.cursor
      BY <3>0, <1>2
    <3> QED BY <3>1, <3>2, <3>3, <1>5 DEF WorkAgrees
  <2> QED BY <2>1, <2>2
<1>12. OneRotation' /\ WorkOK'
  BY <1>10, <1>11 DEF OneRotation, WorkOK
<1> QED BY <1>7, <1>9, <1>12 DEF IInv

(* At the commit every entry of the work is sealed under the new key, with *)
(* the text of the database.                                               *)
LEMMA WorkIsSealed ==
  ASSUME IInv, NEW e \in Engine, CommitRotation(e), NEW p \in Path
  PROVE  LET was == payloads[NamespaceOf[e]][p]
             is  == rotation[e].work[p]
         IN  /\ is \in Entry
             /\ (was = Absent) = (is = Absent)
             /\ is # Absent =>
                  /\ is.by = e
                  /\ is.payload.base \in KnownBase
                  /\ was.payload.text \in Text
                  /\ is.payload =
                       Encode(was.payload.text, is.payload.base, p, rotation[e].new)
                  /\ is.payload.text = was.payload.text
<1> DEFINE was == payloads[NamespaceOf[e]][p]
           is  == rotation[e].work[p]
<1>0. rotation[e].phase = "pages" /\ Remaining(rotation[e]) = {}
  BY DEF CommitRotation
<1>1. /\ is \in Entry /\ was \in Entry
      /\ rotation[e].new \in Key \cup {NoKey}
      /\ rotation[e].cursor \in Path \cup {0}
  BY RotationAssumption DEF IInv, TypeOK
<1>2. WorkAgrees(e)
  BY <1>0 DEF IInv, WorkOK
<1>3. (was = Absent) = (is = Absent)
  BY <1>2 DEF WorkAgrees
<1>4. ASSUME is # Absent
      PROVE  /\ is.by = e
             /\ is.payload.base \in KnownBase
             /\ was.payload.text \in Text
             /\ is.payload =
                  Encode(was.payload.text, is.payload.base, p, rotation[e].new)
             /\ is.payload.text = was.payload.text
  <2>1. p \in Nat /\ rotation[e].cursor \in Nat
    BY <1>1, RotationAssumption
  <2>2. p <= rotation[e].cursor
    BY <1>0, <1>4, <2>1 DEF Remaining
  <2>3. /\ is.by = e
        /\ is.payload.base \in KnownBase
        /\ is.payload = Encode(was.payload.text, is.payload.base, p, rotation[e].new)
    BY <1>2, <1>4, <2>2 DEF WorkAgrees
  <2>4. was.payload.text \in Text
    BY <1>1, <1>3, <1>4, EntryFacts
  <2>5. Encode(was.payload.text, is.payload.base, p, rotation[e].new).text = was.payload.text
    BY <1>1, <2>3, <2>4, SealingAssumption, EncodeType
  <2> QED BY <2>3, <2>4, <2>5
<1> QED BY <1>1, <1>3, <1>4

LEMMA CommitStep ==
  ASSUME IInv, NEW e \in Engine, CommitRotation(e)
  PROVE  IInv'
<1> DEFINE here == NamespaceOf[e]
<1>0. /\ rotation[e].phase = "pages" /\ key' = key
      /\ payloads' = [payloads EXCEPT ![here] = rotation[e].work]
      /\ rotation' = [rotation EXCEPT ![e].phase = "committed"]
      /\ here \in Namespace
  BY RotationAssumption DEF CommitRotation
<1>1. /\ payloads'[here] = rotation[e].work
      /\ \A ns \in Namespace : ns # here => payloads'[ns] = payloads[ns]
  BY <1>0 DEF IInv, TypeOK
<1>2. /\ \A f \in Engine : f # e => rotation'[f] = rotation[f]
      /\ rotation'[e].phase = "committed" /\ rotation'[e].new = rotation[e].new
  BY <1>0 DEF IInv, TypeOK
<1>3. TypeOK'
  BY <1>0 DEF IInv, TypeOK
<1>4. /\ \A f \in Engine : f # e => KeyInUse(f)' = KeyInUse(f)
      /\ KeyInUse(e)' = rotation[e].new
  BY <1>0, <1>2 DEF KeyInUse
<1>5. OwnSealed'
  <2> SUFFICES ASSUME NEW f \in Engine, NEW ns \in Namespace, NEW p \in Path,
                      payloads'[ns][p] # Absent, payloads'[ns][p].by = f
               PROVE  /\ ns = NamespaceOf[f]
                      /\ payloads'[ns][p].payload.base \in KnownBase
                      /\ payloads'[ns][p].payload =
                           Encode(payloads'[ns][p].payload.text, payloads'[ns][p].payload.base,
                                  p, KeyInUse(f)')
    BY DEF OwnSealed
  <2>1. CASE ns = here
    BY <1>1, <1>4, <2>1, WorkIsSealed
  <2>2. CASE ns # here
    <3>1. /\ ns = NamespaceOf[f]
          /\ payloads'[ns][p].payload.base \in KnownBase
          /\ payloads'[ns][p].payload =
               Encode(payloads'[ns][p].payload.text, payloads'[ns][p].payload.base,
                      p, KeyInUse(f))
      BY <1>1, <2>2 DEF IInv, OwnSealed
    <3>2. f # e
      BY <2>2, <3>1
    <3> QED BY <1>4, <3>1, <3>2
  <2> QED BY <2>1, <2>2
<1>6. \A f \in Engine : rotation'[f].phase # "pages"
  BY <1>0, <1>2 DEF IInv, OneRotation
<1>7. OneRotation' /\ WorkOK'
  BY <1>6 DEF OneRotation, WorkOK
<1> QED BY <1>3, <1>5, <1>7 DEF IInv

LEMMA ReplaceStep ==
  ASSUME IInv, NEW e \in Engine, ReplaceKey(e)
  PROVE  IInv'
<1>0. /\ rotation[e].phase = "committed" /\ payloads' = payloads
      /\ key' = [key EXCEPT ![e] = rotation[e].new]
      /\ rotation' = [rotation EXCEPT ![e] = Idle]
  BY DEF ReplaceKey
<1>1. /\ \A f \in Engine : f # e => rotation'[f] = rotation[f] /\ key'[f] = key[f]
      /\ rotation'[e] = Idle /\ key'[e] = rotation[e].new
      /\ Idle.phase = "idle"
  BY <1>0 DEF IInv, TypeOK, Idle
<1>2. TypeOK'
  BY <1>0 DEF IInv, TypeOK, Idle, Entry
<1>3. \A f \in Engine : KeyInUse(f)' = KeyInUse(f)
  BY <1>0, <1>1 DEF KeyInUse
<1>4. OwnSealed'
  BY <1>0, <1>3 DEF IInv, OwnSealed
<1>5. OneRotation' /\ WorkOK'
  BY <1>0, <1>1 DEF IInv, OneRotation, WorkOK, WorkAgrees
<1> QED BY <1>2, <1>4, <1>5 DEF IInv

LEMMA ReopenStep ==
  ASSUME IInv, NEW e \in Engine, NEW k \in Key \cup {NoKey}, Reopen(e, k)
  PROVE  IInv'
<1>0. /\ key' = [key EXCEPT ![e] = k]
      /\ rotation' = [rotation EXCEPT ![e] = Idle]
  BY DEF Reopen
<1>1. /\ \A f \in Engine : f # e => rotation'[f] = rotation[f] /\ key'[f] = key[f]
      /\ rotation'[e] = Idle /\ Idle.phase = "idle"
  BY <1>0 DEF IInv, TypeOK, Idle
<1>2. \A ns \in Namespace, p \in Path :
        payloads'[ns][p] =
          IF payloads[ns][p] # Absent /\ payloads[ns][p].by = e
            THEN [payloads[ns][p] EXCEPT !.by = NoEngine]
            ELSE payloads[ns][p]
  BY DEF Reopen
<1>3. ASSUME NEW ns \in Namespace, NEW p \in Path
      PROVE  /\ payloads'[ns][p] \in Entry
             /\ (payloads'[ns][p] = Absent) = (payloads[ns][p] = Absent)
             /\ payloads[ns][p] # Absent =>
                  /\ payloads'[ns][p].payload = payloads[ns][p].payload
                  /\ payloads[ns][p].by = e => payloads'[ns][p].by = NoEngine
                  /\ payloads[ns][p].by # e => payloads'[ns][p].by = payloads[ns][p].by
  <2>1. payloads[ns][p] \in Entry
    BY DEF IInv, TypeOK
  <2>2. CASE payloads[ns][p] # Absent /\ payloads[ns][p].by = e
    <3> DEFINE was == payloads[ns][p]
    <3>1. was \in SealedEntry
      BY <2>1, <2>2, EntryFacts
    <3>2. [was EXCEPT !.by = NoEngine] \in SealedEntry
      BY <3>1 DEF SealedEntry
    <3>3. [was EXCEPT !.by = NoEngine] \in Entry /\ [was EXCEPT !.by = NoEngine] # Absent
      BY <3>2, RotationAssumption DEF SealedEntry, Entry
    <3>4. /\ [was EXCEPT !.by = NoEngine].payload = was.payload
          /\ [was EXCEPT !.by = NoEngine].by = NoEngine
      BY <3>1 DEF SealedEntry
    <3> QED BY <1>2, <2>2, <3>3, <3>4
  <2>3. CASE ~(payloads[ns][p] # Absent /\ payloads[ns][p].by = e)
    BY <1>2, <2>1, <2>3
  <2> QED BY <2>2, <2>3
<1>4. TypeOK'
  <2>1. payloads' \in [Namespace -> [Path -> Entry]]
    <3> DEFINE opened(ns, p) ==
          IF payloads[ns][p] # Absent /\ payloads[ns][p].by = e
            THEN [payloads[ns][p] EXCEPT !.by = NoEngine]
            ELSE payloads[ns][p]
    <3>1. \A ns \in Namespace, p \in Path : opened(ns, p) \in Entry
      BY <1>2, <1>3
    <3>2. payloads' = [ns \in Namespace |-> [p \in Path |-> opened(ns, p)]]
      BY DEF Reopen
    <3> HIDE DEF opened
    <3> QED BY <3>1, <3>2
  <2> QED BY <1>0, <2>1 DEF IInv, TypeOK, Idle, Entry
<1>5. \A f \in Engine : f # e => KeyInUse(f)' = KeyInUse(f)
  BY <1>1 DEF KeyInUse
<1>6. OwnSealed'
  <2> SUFFICES ASSUME NEW f \in Engine, NEW ns \in Namespace, NEW p \in Path,
                      payloads'[ns][p] # Absent, payloads'[ns][p].by = f
               PROVE  /\ ns = NamespaceOf[f]
                      /\ payloads'[ns][p].payload.base \in KnownBase
                      /\ payloads'[ns][p].payload =
                           Encode(payloads'[ns][p].payload.text, payloads'[ns][p].payload.base,
                                  p, KeyInUse(f)')
    BY DEF OwnSealed
  <2>1. /\ payloads[ns][p] # Absent /\ payloads[ns][p].by = f /\ f # e
        /\ payloads'[ns][p].payload = payloads[ns][p].payload
    BY <1>3, RotationAssumption
  <2> QED BY <1>5, <2>1 DEF IInv, OwnSealed
<1>7. OneRotation'
  BY <1>1 DEF IInv, OneRotation
<1>8. WorkOK'
  <2> SUFFICES ASSUME NEW f \in Engine, rotation'[f].phase = "pages"
               PROVE  WorkAgrees(f)'
    BY DEF WorkOK
  <2>1. f # e /\ rotation'[f] = rotation[f] /\ WorkAgrees(f)
    BY <1>1 DEF IInv, WorkOK
  <2>2. NamespaceOf[f] \in Namespace
    BY RotationAssumption
  <2> QED BY <1>3, <2>1, <2>2 DEF WorkAgrees
<1> QED BY <1>4, <1>6, <1>7, <1>8 DEF IInv

LEMMA NextKeepsIInv == IInv /\ [Next]_vars => IInv'
<1> SUFFICES ASSUME IInv, [Next]_vars PROVE IInv'
  OBVIOUS
<1>1. CASE UNCHANGED vars
  BY <1>1 DEF vars, IInv, TypeOK, OwnSealed, KeyInUse, OneRotation, WorkOK, WorkAgrees
<1>2. CASE Next
  <2> PICK e \in Engine :
         \/ \E p \in Path, text \in Text, base \in KnownBase : Set(e, p, text, base)
         \/ \E p \in Path, payload \in Foreign : Import(e, p, payload)
         \/ \E p \in Path : Remove(e, p)
         \/ \E new \in Key : BeginRotation(e, new)
         \/ RotationStep(e)
         \/ RollBack(e)
         \/ \E k \in Key \cup {NoKey} : Reopen(e, k)
    BY <1>2 DEF Next
  <2>1. CASE \E p \in Path, text \in Text, base \in KnownBase : Set(e, p, text, base)
    BY <2>1, SetStep
  <2>2. CASE \E p \in Path, payload \in Foreign : Import(e, p, payload)
    BY <2>2, ImportStep
  <2>3. CASE \E p \in Path : Remove(e, p)
    BY <2>3, RemoveStep
  <2>4. CASE \E new \in Key : BeginRotation(e, new)
    BY <2>4, BeginStep
  <2>5. CASE RotatePage(e)
    BY <2>5, PageStep
  <2>6. CASE RotationFails(e)
    BY <2>6, DropStep DEF RotationFails
  <2>7. CASE CommitRotation(e)
    BY <2>7, CommitStep
  <2>8. CASE ReplaceKey(e)
    BY <2>8, ReplaceStep
  <2>9. CASE RollBack(e)
    BY <2>9, DropStep DEF RollBack
  <2>10. CASE \E k \in Key \cup {NoKey} : Reopen(e, k)
    BY <2>10, ReopenStep
  <2> QED BY <2>1, <2>2, <2>3, <2>4, <2>5, <2>6, <2>7, <2>8, <2>9, <2>10 DEF RotationStep
<1> QED BY <1>1, <1>2

(* Types, the key each engine's entries are sealed under, and what the     *)
(* work of an open rotation holds on either side of its cursor             *)
(* (rotate_encryption_key, set, import_bounded, remove, open).             *)
THEOREM RotationInvariance == Spec => []IInv
<1>1. Init => IInv
  BY InitInvariant
<1>2. IInv /\ [Next]_vars => IInv'
  BY NextKeepsIInv
<1> QED BY <1>1, <1>2, PTL DEF Spec

(* An engine can read every entry it sealed, whatever rotation failed or   *)
(* committed in between (rotate_encryption_key replaces the key last).     *)
THEOREM EnginesReadTheirOwn == Spec => []OwnEntriesReadable
<1>1. IInv => OwnEntriesReadable
  <2> SUFFICES ASSUME IInv, NEW e \in Engine, NEW p \in Path,
                      payloads[NamespaceOf[e]][p] # Absent,
                      payloads[NamespaceOf[e]][p].by = e
               PROVE  Decode(payloads[NamespaceOf[e]][p].payload, p, KeyInUse(e)) =
                        Plain(payloads[NamespaceOf[e]][p].payload.text)
    BY DEF OwnEntriesReadable
  <2> DEFINE entry == payloads[NamespaceOf[e]][p]
  <2>1. NamespaceOf[e] \in Namespace
    BY RotationAssumption
  <2>2. entry \in Entry /\ entry # Absent
    BY <2>1 DEF IInv, TypeOK
  <2>3. entry.payload.text \in Text
    BY <2>2, EntryFacts
  <2>4. /\ entry.payload.base \in KnownBase
        /\ entry.payload = Encode(entry.payload.text, entry.payload.base, p, KeyInUse(e))
    BY <2>1 DEF IInv, OwnSealed
  <2>5. KeyInUse(e) \in Key \cup {NoKey}
    BY DEF IInv, TypeOK, KeyInUse
  <2>6. Decode(Encode(entry.payload.text, entry.payload.base, p, KeyInUse(e)), p, KeyInUse(e))
          = Plain(entry.payload.text)
    BY <2>3, <2>4, <2>5, DecodeEncode
  <2> QED BY <2>4, <2>6
<1> QED BY <1>1, RotationInvariance, PTL

(* A rotation that commits has every entry of its namespace sealed under   *)
(* the new key with the text committed before it, and touches nothing else *)
(* (rotate_encryption_key, in pages by path in one transaction).           *)
THEOREM RotationsSealEverything == Spec => RotationSealsEveryEntry
<1> DEFINE Sealing(e) ==
      CommitRotation(e) =>
       /\ \A p \in Path :
            LET was == payloads[NamespaceOf[e]][p]
                is  == payloads'[NamespaceOf[e]][p]
            IN  /\ (was = Absent) = (is = Absent)
                /\ is # Absent =>
                     /\ is.payload.text = was.payload.text
                     /\ Decode(is.payload, p, rotation[e].new) = Plain(is.payload.text)
       /\ \A ns \in Namespace \ {NamespaceOf[e]} : payloads'[ns] = payloads[ns]
<1>1. ASSUME IInv, NEW e \in Engine, CommitRotation(e)
      PROVE  /\ \A p \in Path :
                  LET was == payloads[NamespaceOf[e]][p]
                      is  == payloads'[NamespaceOf[e]][p]
                  IN  /\ (was = Absent) = (is = Absent)
                      /\ is # Absent =>
                           /\ is.payload.text = was.payload.text
                           /\ Decode(is.payload, p, rotation[e].new) = Plain(is.payload.text)
             /\ \A ns \in Namespace \ {NamespaceOf[e]} : payloads'[ns] = payloads[ns]
  <2>1. /\ payloads'[NamespaceOf[e]] = rotation[e].work
        /\ \A ns \in Namespace \ {NamespaceOf[e]} : payloads'[ns] = payloads[ns]
    BY <1>1, RotationAssumption DEF CommitRotation, IInv, TypeOK
  <2>2. rotation[e].new \in Key \cup {NoKey}
    BY <1>1 DEF IInv, TypeOK
  <2>3. ASSUME NEW p \in Path, rotation[e].work[p] # Absent
        PROVE  Decode(rotation[e].work[p].payload, p, rotation[e].new) =
                 Plain(rotation[e].work[p].payload.text)
    <3> DEFINE was == payloads[NamespaceOf[e]][p]
               is  == rotation[e].work[p]
    <3>1. /\ is.payload.base \in KnownBase /\ was.payload.text \in Text
          /\ is.payload = Encode(was.payload.text, is.payload.base, p, rotation[e].new)
          /\ is.payload.text = was.payload.text
      BY <1>1, <2>3, WorkIsSealed
    <3>2. Decode(Encode(was.payload.text, is.payload.base, p, rotation[e].new), p, rotation[e].new)
            = Plain(was.payload.text)
      BY <2>2, <3>1, DecodeEncode
    <3> QED BY <3>1, <3>2
  <2> QED BY <1>1, <2>1, <2>3, WorkIsSealed
<1>2. IInv /\ [Next]_vars => [\A e \in Engine : Sealing(e)]_vars
  BY <1>1
<1> QED BY <1>2, RotationInvariance, PTL DEF Spec, RotationSealsEveryEntry
=============================================================================
