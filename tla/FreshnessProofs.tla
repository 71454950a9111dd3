-------------------------- MODULE FreshnessProofs --------------------------
(* Proofs about Freshness: what a hit of get_if_fresh vouches for, for     *)
(* every file, mode, payload version and number of engines.                *)
EXTENDS Freshness, TLAPS

(* A hash that was stored agrees with another only if the file agrees in   *)
(* what the mode that compares them looks at (strategy.rs).                *)
LEMMA EqualHashes ==
  ASSUME NEW c \in Contents, NEW d \in Contents, NEW m \in Mode, NEW n \in Mode,
         NEW r, r.hash = HashForMode(m, c), AfterHash(n, r, d) = "Fresh"
  PROVE  c = d \/ (n = "MetadataThenPartialHash" /\ Sample[c] = Sample[d])
<1>1. r.hash = FullHash(d) \/ (n = "MetadataThenPartialHash" /\ r.hash = PartialHash(d))
  BY DEF AfterHash
<1>2. HashForMode(m, c) \in {NoneHash, PartialHash(c), FullHash(c)}
  BY DEF HashForMode, Mode
<1> QED
  BY <1>1, <1>2 DEF NoneHash, FullHash, PartialHash

LEMMA HashType ==
  ASSUME NEW c \in Contents, NEW m \in Mode
  PROVE  HashForMode(m, c) \in Hash
BY DEF HashForMode, Mode, Hash

LEMMA MetadataType ==
  ASSUME NEW f \in File
  PROVE  /\ CollectMetadata(f) \in Metadata
         /\ CollectMetadata(f).mtime = f.mtime
         /\ CollectMetadata(f).size = Size[f.contents]
BY DetectionAssumption DEF CollectMetadata, Metadata, File

(* More seen contents vouch for no less.                                   *)
LEMMA VouchedGrows ==
  ASSUME NEW m, NEW r, NEW S, NEW T, S \subseteq T, Vouched(m, r, S)
  PROVE  Vouched(m, r, T)
BY DEF Vouched

LEMMA InitInvariance == Init => IInv
<1> SUFFICES ASSUME Init PROVE IInv
  OBVIOUS
<1>1. TypeOK
  BY FreshnessAssumption DEF Init, TypeOK, NoRead, NoStore, StoreState, ReadStep
<1>2. row = NoRow
  BY DEF Init
<1>3. ASSUME NEW e \in Engine PROVE StoreOK(e) /\ ReadOK(e)
  BY DEF Init, StoreOK, ReadOK, NoRead
<1> QED
  BY <1>1, <1>2, <1>3 DEF IInv

-----------------------------------------------------------------------------
(* The types.                                                              *)
LEMMA TypeInvariance == TypeOK /\ [Next]_vars => TypeOK'
<1> SUFFICES ASSUME TypeOK, [Next]_vars PROVE TypeOK'
  OBVIOUS
<1> DEFINE Reads == [step : ReadStep, checked : BOOLEAN, found : Row \cup {NoRow},
                     got : Row \cup {NoRow}, seen : SUBSET File]
<1>t. /\ file \in File \cup {Gone} /\ changes \in 0..MaxChanges
      /\ row \in Row \cup {NoRow} /\ lastId \in 0..MaxId
      /\ config \in [Engine -> Configs]
      /\ read \in [Engine -> Reads] /\ store \in [Engine -> StoreState]
  BY DEF TypeOK
<1>c. \A e \in Engine : config[e].mode \in Mode /\ config[e].version \in Nat
  BY <1>t, FreshnessAssumption
<1>n. NoRead \in Reads /\ NoStore \in StoreState
  BY DEF NoRead, StoreState, ReadStep
<1>w. ASSUME read' \in [Engine -> Reads],
             UNCHANGED <<file, changes, row, lastId, config, store>>
      PROVE  TypeOK'
  BY <1>t, <1>w DEF TypeOK
<1>s. ASSUME store' \in [Engine -> StoreState],
             UNCHANGED <<file, changes, row, lastId, config, read>>
      PROVE  TypeOK'
  BY <1>t, <1>s DEF TypeOK
<1>1. CASE UNCHANGED vars
  BY <1>1, <1>t DEF vars, TypeOK
<1>2. ASSUME NEW f \in File \cup {Gone}, ChangeFile(f) PROVE TypeOK'
  <2>1. changes' \in 0..MaxChanges
    BY <1>2, <1>t, FreshnessAssumption DEF ChangeFile
  <2>2. read' \in [Engine -> Reads]
    <3>1. ASSUME NEW e \in Engine
          PROVE  [read[e] EXCEPT !.seen = @ \cup ({f} \ {Gone})] \in Reads
      BY <1>t
    <3> QED
      BY <1>2, <1>t, <3>1 DEF ChangeFile
  <2>3. store' \in [Engine -> StoreState]
    <3>1. ASSUME NEW e \in Engine, store[e] # NoStore
          PROVE  Disturbed(store[e]) \in StoreState
      <4>1. CASE store[e] \in [step : {"derived"}, contents : Contents, clean : BOOLEAN,
                               kept : BOOLEAN]
        BY <4>1 DEF Disturbed, StoreState
      <4>2. CASE store[e] \in [step : {"measured"}, contents : Contents, clean : BOOLEAN,
                               kept : BOOLEAN, metadata : Metadata]
        BY <4>2 DEF Disturbed, StoreState
      <4>3. CASE store[e] \in [step : {"hashed"}, contents : Contents, clean : BOOLEAN,
                               kept : BOOLEAN, metadata : Metadata, hash : Hash]
        BY <4>3 DEF Disturbed, StoreState
      <4> QED
        BY <1>t, <3>1, <4>1, <4>2, <4>3 DEF StoreState
    <3> QED
      BY <1>2, <1>n, <1>t, <3>1 DEF ChangeFile
  <2> QED
    BY <1>2, <1>t, <2>1, <2>2, <2>3 DEF ChangeFile, TypeOK
<1>3. CASE RemoveRow
  BY <1>3, <1>t DEF RemoveRow, TypeOK
<1>4. ASSUME NEW e \in Engine, Derive(e) PROVE TypeOK'
  <2>1. [step |-> "derived", contents |-> file.contents, clean |-> TRUE, kept |-> TRUE] \in StoreState
    BY <1>4, <1>t DEF Derive, StoreState, File
  <2> QED
    BY <1>4, <1>t, <2>1, <1>s DEF Derive
<1>5. ASSUME NEW e \in Engine, Measure(e) PROVE TypeOK'
  <2>1. store[e].contents \in Contents /\ store[e].clean \in BOOLEAN /\ store[e].kept \in BOOLEAN
    BY <1>5, <1>t DEF Measure, StoreState, NoStore
  <2>2. CollectMetadata(file) \in Metadata
    BY <1>5, <1>t, MetadataType DEF Measure
  <2>3. [step |-> "measured", contents |-> store[e].contents, clean |-> store[e].clean, kept |-> store[e].kept,
         metadata |-> CollectMetadata(file)] \in StoreState
    BY <2>1, <2>2 DEF StoreState
  <2> QED
    BY <1>5, <1>t, <2>3, <1>s DEF Measure
<1>6. ASSUME NEW e \in Engine, HashFile(e) PROVE TypeOK'
  <2>1. store[e].contents \in Contents /\ store[e].clean \in BOOLEAN /\ store[e].kept \in BOOLEAN
        /\ store[e].metadata \in Metadata
    BY <1>6, <1>t DEF HashFile, StoreState, NoStore
  <2>2. HashForMode(config[e].mode, file.contents) \in Hash
    <3>1. file.contents \in Contents
      BY <1>6, <1>t DEF HashFile, File
    <3> QED
      BY <1>c, <3>1, HashType
  <2>3. [step |-> "hashed", contents |-> store[e].contents, clean |-> store[e].clean, kept |-> store[e].kept,
         metadata |-> store[e].metadata,
         hash |-> HashForMode(config[e].mode, file.contents)] \in StoreState
    BY <2>1, <2>2 DEF StoreState
  <2> QED
    BY <1>6, <1>t, <2>3, <1>s DEF HashFile
<1>7. ASSUME NEW e \in Engine, CommitSet(e) PROVE TypeOK'
  <2>1. store[e] \in [step : {"hashed"}, contents : Contents, clean : BOOLEAN, kept : BOOLEAN,
                      metadata : Metadata, hash : Hash]
    BY <1>7, <1>t DEF CommitSet, StoreState, NoStore
  <2> DEFINE id == IF row = NoRow THEN lastId + 1 ELSE row.id
  <2>2. id \in 1..MaxId
    <3>1. row # NoRow => row.id \in 1..MaxId
      BY <1>t DEF Row
    <3> QED
      BY <1>7, <1>t, <3>1, FreshnessAssumption DEF CommitSet
  <2>3. store[e].metadata.mtime \in Mtime /\ store[e].metadata.size \in Sizes
    BY <2>1 DEF Metadata
  <2>4. row' \in Row
    BY <1>7, <1>c, <2>1, <2>2, <2>3 DEF CommitSet, Row
  <2>5. lastId' \in 0..MaxId
    BY <1>7, <1>t, <2>2, FreshnessAssumption DEF CommitSet
  <2>6. store' \in [Engine -> StoreState]
    BY <1>7, <1>t, <1>n DEF CommitSet
  <2> QED
    BY <1>7, <1>t, <2>4, <2>5, <2>6 DEF CommitSet, TypeOK
<1>8. ASSUME NEW e \in Engine, AbandonSet(e) PROVE TypeOK'
  BY <1>8, <1>t, <1>n, <1>s DEF AbandonSet
<1>9. ASSUME NEW e \in Engine, Find(e) \/ Resolve(e) \/ FindFresh(e) PROVE TypeOK'
  <2>1. row \in Row \cup {NoRow} /\ (file # Gone => file \in File) /\ read[e].seen \in SUBSET File
    BY <1>t
  <2>2. CASE Find(e)
    <3>1. [step |-> "fresh", checked |-> FALSE, found |-> row, got |-> NoRow, seen |-> {}] \in Reads
      BY <2>1 DEF ReadStep
    <3> QED
      BY <1>t, <1>w, <2>2, <3>1 DEF Find
  <2>3. CASE Resolve(e)
    <3>1. [step |-> "resolved", checked |-> TRUE, found |-> NoRow, got |-> NoRow,
           seen |-> {file}] \in Reads
      BY <2>1, <2>3 DEF ReadStep, Resolve
    <3> QED
      BY <1>t, <1>w, <2>3, <3>1 DEF Resolve
  <2>4. CASE FindFresh(e)
    <3>1. [step |-> "found", checked |-> TRUE, found |-> row, got |-> NoRow,
           seen |-> read[e].seen] \in Reads
      BY <2>1 DEF ReadStep
    <3> QED
      BY <1>t, <1>w, <2>4, <3>1 DEF FindFresh
  <2> QED
    BY <1>9, <2>2, <2>3, <2>4
<1>10. ASSUME NEW e \in Engine, CheckMetadata(e) \/ CheckHash(e) PROVE TypeOK'
  <2>1. \A s \in ReadStep : [read EXCEPT ![e].step = s] \in [Engine -> Reads]
    BY <1>t
  <2>2. [read EXCEPT ![e] = NoRead] \in [Engine -> Reads]
    BY <1>t, <1>n
  <2>3. read' \in [Engine -> Reads]
    BY <1>10, <2>1, <2>2 DEF CheckMetadata, CheckHash, ReadStep
  <2> QED
    BY <1>10, <2>3, <1>w DEF CheckMetadata, CheckHash
<1>11. ASSUME NEW e \in Engine, LoadPayload(e) PROVE TypeOK'
  <2>1. [step |-> "hit", checked |-> read[e].checked, found |-> read[e].found,
         got |-> row, seen |-> read[e].seen] \in Reads
    BY <1>t DEF ReadStep
  <2> QED
    BY <1>11, <1>t, <2>1, <1>w DEF LoadPayload
<1>12. ASSUME NEW e \in Engine, EndRead(e) PROVE TypeOK'
  BY <1>12, <1>t, <1>n, <1>w DEF EndRead
<1> QED
  BY <1>1, <1>2, <1>3, <1>4, <1>5, <1>6, <1>7, <1>8, <1>9, <1>10, <1>11, <1>12 DEF Next

-----------------------------------------------------------------------------
(* What is recorded of a clean entry, once and for all (upsert_in_tx).     *)
LEMMA RecordedInvariance == IInv /\ [Next]_vars => (row # NoRow => RecordedOK(row))'
<1> SUFFICES ASSUME IInv, [Next]_vars PROVE row' # NoRow => RecordedOK(row')
  BY DEF RecordedOK
<1>1. ASSUME NEW e \in Engine, CommitSet(e) PROVE row' # NoRow => RecordedOK(row')
  <2> DEFINE s == store[e]
  <2>1. StoreOK(e) /\ s.step = "hashed"
    BY <1>1 DEF IInv, CommitSet
  <2>2. s # NoStore
    BY <2>1 DEF NoStore
  <2>3. /\ s.clean => /\ s.metadata.size = Size[s.contents]
                      /\ s.hash = HashForMode(config[e].mode, s.contents)
        /\ s.kept => s.clean
    BY <2>1, <2>2 DEF StoreOK
  <2>5. /\ row'.clean = s.clean /\ row'.kept = s.kept /\ row'.size = s.metadata.size /\ row'.hash = s.hash
        /\ row'.contents = s.contents /\ row'.mode = config[e].mode
    BY <1>1 DEF CommitSet
  <2> QED
    BY <2>3, <2>5 DEF RecordedOK
<1>2. CASE row' = row
  BY <1>2 DEF IInv
<1>3. CASE row' = NoRow
  BY <1>3
<1> QED
  BY <1>1, <1>2, <1>3 DEF Next, vars, ChangeFile, RemoveRow, Derive, Measure, HashFile,
     AbandonSet, Find, Resolve, FindFresh, CheckMetadata, CheckHash, LoadPayload, EndRead

(* A set agrees with the file it measures (set).                           *)
LEMMA StoreInvariance ==
  ASSUME IInv, [Next]_vars, NEW d \in Engine
  PROVE  StoreOK(d)'
<1> DEFINE OK(f, s) ==
      s # NoStore =>
        /\ s.kept => s.clean
        /\ s.kept \/ (s.clean /\ s.step # "hashed") => f # Gone /\ f.contents = s.contents
        /\ s.clean /\ s.step \in {"measured", "hashed"} => s.metadata.size = Size[s.contents]
        /\ s.clean /\ s.step = "hashed" => s.hash = HashForMode(config[d].mode, s.contents)
<1>1. config' = config
  BY DEF Next, vars, ChangeFile, RemoveRow, Derive, Measure, HashFile, CommitSet,
     AbandonSet, Find, Resolve, FindFresh, CheckMetadata, CheckHash, LoadPayload, EndRead
<1>2. StoreOK(d)' <=> OK(file', store'[d])
  BY <1>1 DEF StoreOK
<1>3. OK(file, store[d])
  BY DEF IInv, StoreOK
<1>4. store \in [Engine -> StoreState] /\ file \in File \cup {Gone}
  BY DEF IInv, TypeOK
<1>5. CASE store' = store /\ file' = file
  BY <1>2, <1>3, <1>5
<1>6. ASSUME NEW f \in File \cup {Gone}, ChangeFile(f) PROVE StoreOK(d)'
  <2>1. CASE store[d] = NoStore
    <3>1. store'[d] = NoStore
      BY <1>4, <1>6, <2>1 DEF ChangeFile
    <3> QED
      BY <1>2, <3>1
  <2>2. CASE store[d] # NoStore
    <3> DEFINE s1 == Disturbed(store[d])
    <3>1. store'[d] = s1
      BY <1>6, <2>2 DEF ChangeFile
    <3>2. /\ s1.step = store[d].step /\ s1.contents = store[d].contents /\ s1.kept = FALSE
          /\ s1.clean => store[d].clean /\ s1.step = "hashed"
          /\ s1.clean => s1.metadata = store[d].metadata /\ s1.hash = store[d].hash
      BY <1>4, <2>2 DEF Disturbed, StoreState
    <3> HIDE DEF s1
    <3> QED
      BY <1>2, <1>3, <2>2, <3>1, <3>2
  <2> QED
    BY <2>1, <2>2
<1>7. ASSUME NEW e \in Engine, CommitSet(e) \/ AbandonSet(e) PROVE StoreOK(d)'
  <2>1. file' = file /\ store' = [store EXCEPT ![e] = NoStore]
    BY <1>7 DEF CommitSet, AbandonSet
  <2>2. store'[d] = store[d] \/ store'[d] = NoStore
    BY <1>4, <2>1
  <2> QED
    BY <1>2, <1>3, <2>1, <2>2
<1>8. ASSUME NEW e \in Engine, Derive(e) PROVE StoreOK(d)'
  <2>1. CASE e = d
    <3>1. store'[d] = [step |-> "derived", contents |-> file.contents, clean |-> TRUE,
                       kept |-> TRUE]
          /\ file' = file /\ file # Gone
      BY <1>4, <1>8, <2>1 DEF Derive
    <3> QED
      BY <1>2, <3>1
  <2>2. CASE e # d
    BY <1>2, <1>3, <1>4, <1>8, <2>2 DEF Derive
  <2> QED
    BY <2>1, <2>2
<1>9. ASSUME NEW e \in Engine, Measure(e) PROVE StoreOK(d)'
  <2>1. CASE e = d
    <3>1. /\ store'[d] = [step |-> "measured", contents |-> store[d].contents,
                          clean |-> store[d].clean, kept |-> store[d].kept,
                          metadata |-> CollectMetadata(file)]
          /\ file' = file /\ file # Gone /\ store[d].step = "derived"
      BY <1>4, <1>9, <2>1 DEF Measure
    <3>2. store[d] # NoStore
      BY <3>1 DEF NoStore
    <3>3. CollectMetadata(file).size = Size[file.contents]
      BY <1>4, <3>1, MetadataType
    <3> QED
      BY <1>2, <1>3, <3>1, <3>2, <3>3
  <2>2. CASE e # d
    BY <1>2, <1>3, <1>4, <1>9, <2>2 DEF Measure
  <2> QED
    BY <2>1, <2>2
<1>10. ASSUME NEW e \in Engine, HashFile(e) PROVE StoreOK(d)'
  <2>1. CASE e = d
    <3>1. /\ store'[d] = [step |-> "hashed", contents |-> store[d].contents,
                          clean |-> store[d].clean, kept |-> store[d].kept,
                          metadata |-> store[d].metadata,
                          hash |-> HashForMode(config[d].mode, file.contents)]
          /\ file' = file /\ file # Gone /\ store[d].step = "measured"
      BY <1>4, <1>10, <2>1 DEF HashFile
    <3>2. store[d] # NoStore
      BY <3>1 DEF NoStore
    <3>3. /\ store[d].kept => store[d].clean
          /\ store[d].clean => /\ file.contents = store[d].contents
                               /\ store[d].metadata.size = Size[store[d].contents]
      BY <1>3, <3>1, <3>2
    <3> QED
      BY <1>2, <3>1, <3>3
  <2>2. CASE e # d
    BY <1>2, <1>3, <1>4, <1>10, <2>2 DEF HashFile
  <2> QED
    BY <2>1, <2>2
<1> QED
  BY <1>5, <1>6, <1>7, <1>8, <1>9, <1>10 DEF Next, vars, RemoveRow, Find, Resolve, FindFresh, CheckMetadata,
     CheckHash, LoadPayload, EndRead

-----------------------------------------------------------------------------
(* What a checked read has established (get_if_fresh).  The steps that     *)
(* move another read, or a set, leave it alone.                            *)
LEMMA ReadInvariance ==
  ASSUME IInv, [Next]_vars, NEW d \in Engine
  PROVE  ReadOK(d)'
<1> DEFINE mode == config[d].mode
           OK(f, w, r) ==
             /\ r.found # NoRow => RecordedOK(r.found)
             /\ r.step \notin {"none", "resolved"} => r.found # NoRow
             /\ r.step = "hit" => r.got # NoRow
             /\ r.step = "resolved" => r.checked
             /\ r.checked =>
                  /\ r.step # "none"
                  /\ f # Gone => f \in r.seen
                  /\ (r.step = "hash" /\ r.found.clean /\ mode # "StrictFullHash")
                       => \E v \in r.seen : Size[v.contents] = r.found.size
                  /\ (r.step = "fresh" /\ r.found.clean) => Vouched(mode, r.found, r.seen)
                  /\ (w # NoRow /\ w # r.found /\ w.kept /\ r.step # "resolved")
                       => \E v \in r.seen : v.contents = w.contents
                  /\ (r.step = "hit" /\ Answerable(r)) => Vouched(mode, r.got, r.seen)
           r0 == read[d]
<1>1. config' = config
  BY DEF Next, vars, ChangeFile, RemoveRow, Derive, Measure, HashFile, CommitSet,
     AbandonSet, Find, Resolve, FindFresh, CheckMetadata, CheckHash, LoadPayload, EndRead
<1>2. ReadOK(d)' <=> OK(file', row', read'[d])
  BY <1>1 DEF ReadOK, RecordedOK, Vouched, Answerable, MetadataMatches, CollectMetadata
<1>3. OK(file, row, r0)
  BY DEF IInv, ReadOK
<1>4. /\ read \in [Engine -> [step : ReadStep, checked : BOOLEAN,
                              found : Row \cup {NoRow}, got : Row \cup {NoRow}, seen : SUBSET File]]
      /\ row \in Row \cup {NoRow} /\ file \in File \cup {Gone}
      /\ mode \in Mode
  BY FreshnessAssumption DEF IInv, TypeOK
<1>5. row # NoRow => RecordedOK(row)
  BY DEF IInv
<1>6. OK(file', row', NoRead) /\ NoRead.checked = FALSE
  BY DEF NoRead
<1>7. CASE file' = file /\ row' = row /\ read' = read
  BY <1>2, <1>3, <1>7
<1>8. ASSUME NEW f \in File \cup {Gone}, ChangeFile(f) PROVE ReadOK(d)'
  <2>1. file' = f /\ row' = row
    BY <1>8 DEF ChangeFile
  <2>2. CASE ~r0.checked
    <3>1. read'[d] = r0
      BY <1>8, <2>2 DEF ChangeFile
    <3> QED
      BY <1>2, <1>3, <2>1, <2>2, <3>1
  <2>3. CASE r0.checked
    <3> DEFINE r1 == [r0 EXCEPT !.seen = r0.seen \cup ({f} \ {Gone})]
    <3>1. read'[d] = r1
      BY <1>8, <2>3 DEF ChangeFile
    <3>2. /\ r1.step = r0.step /\ r1.checked = r0.checked /\ r1.found = r0.found
          /\ r1.got = r0.got /\ r1.seen = r0.seen \cup ({f} \ {Gone})
      BY <1>4
    <3>3. f # Gone => f \in r1.seen
      BY <3>2
    <3>4. r0.seen \subseteq r1.seen
      BY <3>2
    <3>5. \A r : Vouched(mode, r, r0.seen) => Vouched(mode, r, r1.seen)
      BY <3>4, VouchedGrows
    <3> HIDE DEF r1
    <3>6. Answerable(r1) <=> Answerable(r0)
      BY <3>2 DEF Answerable
    <3>7. OK(f, row, r1)
      BY <1>3, <2>3, <3>2, <3>3, <3>4, <3>5, <3>6
    <3> QED
      BY <1>2, <2>1, <3>1, <3>7
  <2> QED
    BY <2>2, <2>3
<1>9. CASE RemoveRow
  BY <1>2, <1>3, <1>9 DEF RemoveRow
<1>10. ASSUME NEW e \in Engine, CommitSet(e) PROVE ReadOK(d)'
  <2>1. file' = file /\ read' = read
    BY <1>10 DEF CommitSet
  <2>2. row'.kept => file # Gone /\ file.contents = row'.contents
    <3>1. StoreOK(e) /\ store[e].step = "hashed"
      BY <1>10 DEF IInv, CommitSet
    <3>2. row'.kept = store[e].kept /\ row'.contents = store[e].contents
      BY <1>10 DEF CommitSet
    <3> QED
      BY <3>1, <3>2 DEF StoreOK, NoStore
  <2> QED
    BY <1>2, <1>3, <2>1, <2>2
<1>11. ASSUME NEW e \in Engine, Find(e) \/ Resolve(e) \/ FindFresh(e) PROVE ReadOK(d)'
  <2>1. file' = file /\ row' = row
    BY <1>11 DEF Find, Resolve, FindFresh
  <2>2. CASE e # d
    <3>1. read'[d] = read[d]
      BY <1>4, <1>11, <2>2 DEF Find, Resolve, FindFresh
    <3> QED
      BY <1>2, <1>3, <2>1, <3>1
  <2>3. CASE e = d /\ Find(e)
    <3>1. read'[d].step = "fresh" /\ read'[d].checked = FALSE /\ read'[d].found = row /\ row # NoRow
      BY <1>4, <2>3 DEF Find
    <3> QED
      BY <1>2, <1>5, <2>1, <3>1
  <2>4. CASE e = d /\ Resolve(e)
    <3>1. /\ read'[d].step = "resolved" /\ read'[d].checked
          /\ read'[d].found = NoRow /\ read'[d].seen = {file}
      BY <1>4, <2>4 DEF Resolve
    <3> QED
      BY <1>2, <2>1, <3>1
  <2>5. CASE e = d /\ FindFresh(e)
    <3>1. /\ read'[d].step = "found" /\ read'[d].checked /\ read'[d].found = row /\ row # NoRow
          /\ read'[d].seen = r0.seen /\ r0.step = "resolved"
      BY <1>4, <2>5 DEF FindFresh
    <3>2. file # Gone => file \in r0.seen
      <4>1. r0.checked
        BY <1>3, <3>1
      <4> QED
        BY <1>3, <4>1
    <3> QED
      BY <1>2, <1>5, <2>1, <3>1, <3>2
  <2> QED
    BY <1>11, <2>2, <2>3, <2>4, <2>5
<1>12. ASSUME NEW e \in Engine, CheckMetadata(e) PROVE ReadOK(d)'
  <2>1. file' = file /\ row' = row
    BY <1>12 DEF CheckMetadata
  <2>2. CASE e = d
    <3> DEFINE md == CollectMetadata(file)
               verdict == AfterMetadata(mode, r0.found, md)
    <3>1. r0.step = "found" /\ file # Gone
      BY <1>12, <2>2 DEF CheckMetadata
    <3>2. md.size = Size[file.contents]
      BY <1>4, <3>1, MetadataType
    <3>3. CASE verdict = "Fresh" /\ read'[d] = [r0 EXCEPT !.step = "fresh"]
      <4>1. mode # "StrictFullHash" /\ MetadataMatches(r0.found, md)
        BY <3>3 DEF AfterMetadata
      <4>2. r0.checked => Vouched(mode, r0.found, r0.seen)
        BY <1>3, <3>1, <4>1 DEF Vouched
      <4>3. /\ read'[d].step = "fresh" /\ read'[d].checked = r0.checked
            /\ read'[d].found = r0.found /\ read'[d].seen = r0.seen
        BY <1>4, <3>3
      <4> QED
        BY <1>2, <1>3, <2>1, <3>1, <4>2, <4>3
    <3>4. CASE verdict = "hash" /\ read'[d] = [r0 EXCEPT !.step = "hash"]
      <4>1. mode # "StrictFullHash" => r0.found.size = md.size
        BY <3>4 DEF AfterMetadata
      <4>2. /\ read'[d].step = "hash" /\ read'[d].checked = r0.checked
            /\ read'[d].found = r0.found /\ read'[d].seen = r0.seen
        BY <1>4, <3>4
      <4> QED
        BY <1>2, <1>3, <2>1, <3>1, <3>2, <4>1, <4>2
    <3>5. CASE read'[d] = NoRead
      BY <1>2, <1>6, <3>5
    <3> QED
      BY <1>4, <1>12, <2>2, <3>3, <3>4, <3>5 DEF CheckMetadata
  <2>3. CASE e # d
    <3>1. read'[d] = read[d]
      BY <1>4, <1>12, <2>3 DEF CheckMetadata
    <3> QED
      BY <1>2, <1>3, <2>1, <3>1
  <2> QED
    BY <2>2, <2>3
<1>13. ASSUME NEW e \in Engine, CheckHash(e) PROVE ReadOK(d)'
  <2>1. file' = file /\ row' = row
    BY <1>13 DEF CheckHash
  <2>2. CASE e = d
    <3>1. r0.step = "hash" /\ file # Gone /\ file \in File
      BY <1>4, <1>13, <2>2 DEF CheckHash
    <3>2. CASE /\ AfterHash(mode, r0.found, file.contents) = "Fresh"
               /\ read'[d] = [r0 EXCEPT !.step = "fresh"]
      <4>1. ASSUME r0.checked, r0.found.clean PROVE Vouched(mode, r0.found, r0.seen)
        <5>1. r0.found \in Row /\ RecordedOK(r0.found)
          BY <1>3, <1>4, <3>1
        <5>2. /\ r0.found.contents \in Contents /\ r0.found.mode \in Mode
              /\ file.contents \in Contents
          BY <3>1, <5>1 DEF Row, File
        <5>3. \/ r0.found.contents = file.contents
              \/ /\ mode = "MetadataThenPartialHash"
                 /\ Sample[r0.found.contents] = Sample[file.contents]
          BY <1>4, <3>2, <4>1, <5>1, <5>2, EqualHashes DEF RecordedOK
        <5>4. file \in r0.seen
          BY <1>3, <3>1, <4>1
        <5>5. r0.found.size = Size[r0.found.contents]
          BY <4>1, <5>1 DEF RecordedOK
        <5>6. mode # "StrictFullHash" => \E v \in r0.seen : Size[v.contents] = r0.found.size
          BY <1>3, <3>1, <4>1
        <5> QED
          BY <5>3, <5>4, <5>5, <5>6 DEF Vouched
      <4>2. /\ read'[d].step = "fresh" /\ read'[d].checked = r0.checked
            /\ read'[d].found = r0.found /\ read'[d].seen = r0.seen
        BY <1>4, <3>2
      <4> QED
        BY <1>2, <1>3, <2>1, <3>1, <4>1, <4>2
    <3>3. CASE read'[d] = NoRead
      BY <1>2, <1>6, <3>3
    <3> QED
      BY <1>4, <1>13, <2>2, <3>2, <3>3 DEF CheckHash
  <2>3. CASE e # d
    <3>1. read'[d] = read[d]
      BY <1>4, <1>13, <2>3 DEF CheckHash
    <3> QED
      BY <1>2, <1>3, <2>1, <3>1
  <2> QED
    BY <2>2, <2>3
<1>14. ASSUME NEW e \in Engine, LoadPayload(e) PROVE ReadOK(d)'
  <2>1. file' = file /\ row' = row /\ row # NoRow
    BY <1>14 DEF LoadPayload
  <2>2. CASE e = d
    <3>1. /\ r0.step = "fresh"
          /\ read'[d] = [step |-> "hit", checked |-> r0.checked,
                         found |-> r0.found, got |-> row, seen |-> r0.seen]
      BY <1>4, <1>14, <2>2 DEF LoadPayload
    <3>2. ASSUME r0.checked, Answerable(read'[d]) PROVE Vouched(mode, row, r0.seen)
      <4>0. row.kept \/ (row.clean /\ row = r0.found)
        BY <3>1, <3>2 DEF Answerable
      <4>1. CASE row = r0.found
        <5>1. row.clean
          BY <1>5, <2>1, <4>0 DEF RecordedOK
        <5> QED
          BY <1>3, <3>1, <3>2, <4>1, <5>1
      <4>2. CASE row # r0.found
        BY <1>3, <2>1, <3>1, <3>2, <4>0, <4>2 DEF Vouched
      <4> QED
        BY <4>1, <4>2
    <3> QED
      BY <1>2, <1>3, <2>1, <3>1, <3>2
  <2>3. CASE e # d
    <3>1. read'[d] = read[d]
      BY <1>4, <1>14, <2>3 DEF LoadPayload
    <3> QED
      BY <1>2, <1>3, <2>1, <3>1
  <2> QED
    BY <2>2, <2>3
<1>15. ASSUME NEW e \in Engine, EndRead(e) PROVE ReadOK(d)'
  <2>1. file' = file /\ row' = row /\ read' = [read EXCEPT ![e] = NoRead]
    BY <1>15 DEF EndRead
  <2>2. read'[d] = read[d] \/ read'[d] = NoRead
    BY <1>4, <2>1
  <2> QED
    BY <1>2, <1>3, <1>6, <2>1, <2>2
<1> QED
  BY <1>7, <1>8, <1>9, <1>10, <1>11, <1>12, <1>13, <1>14, <1>15
  DEF Next, vars, Derive, Measure, HashFile, AbandonSet

-----------------------------------------------------------------------------
(* The inductive invariant holds in every reachable state.                 *)
THEOREM FreshnessInvariance == Spec => []IInv
<1>1. ASSUME IInv, [Next]_vars PROVE IInv'
  <2>1. TypeOK'
    BY <1>1, TypeInvariance DEF IInv
  <2>2. (row # NoRow => RecordedOK(row))'
    BY <1>1, RecordedInvariance
  <2>3. ASSUME NEW e \in Engine PROVE StoreOK(e)' /\ ReadOK(e)'
    BY <1>1, StoreInvariance, ReadInvariance
  <2> QED
    BY <2>1, <2>2, <2>3 DEF IInv
<1> QED
  BY <1>1, InitInvariance, PTL DEF Spec

(* A hit of get_if_fresh is derived from contents the file had during the  *)
(* call, up to what its mode cannot see (get_if_fresh, detect_change).     *)
THEOREM HitsVouchForTheirFiles == Spec => []FreshHitsWereSeen
<1>1. IInv => FreshHitsWereSeen
  BY DEF IInv, ReadOK, FreshHitsWereSeen
<1> QED
  BY <1>1, FreshnessInvariance, PTL

(* What a set stores is fresh to the mode it was stored under while the    *)
(* file stays as it was (set, detect_change).                              *)
THEOREM StoredEntriesStayFresh == Spec => []StoredEntriesAreFresh
<1>1. IInv => StoredEntriesAreFresh
  <2> SUFFICES ASSUME IInv, row # NoRow, row.clean, file # Gone,
                      file.contents = row.contents, file.mtime = row.mtime
               PROVE  DetectChange(row.mode, row, file) = "Fresh"
    BY DEF StoredEntriesAreFresh
  <2>1. row \in Row /\ file \in File /\ RecordedOK(row)
    BY DEF IInv, TypeOK
  <2>2. row.mode \in Mode
    BY <2>1 DEF Row
  <2>3. MetadataMatches(row, CollectMetadata(file))
    BY <2>1, MetadataType DEF RecordedOK, MetadataMatches
  <2>4. row.hash = HashForMode(row.mode, file.contents)
    BY <2>1 DEF RecordedOK
  <2>5. CASE row.mode = "StrictFullHash"
    <3>1. row.hash = FullHash(file.contents)
      BY <2>4, <2>5 DEF HashForMode
    <3>2. AfterMetadata(row.mode, row, CollectMetadata(file)) = "hash"
      BY <2>5 DEF AfterMetadata
    <3> QED
      BY <3>1, <3>2 DEF DetectChange, AfterHash
  <2>6. CASE row.mode # "StrictFullHash"
    BY <2>3, <2>6 DEF DetectChange, AfterMetadata
  <2> QED
    BY <2>5, <2>6
<1> QED
  BY <1>1, FreshnessInvariance, PTL
=============================================================================
