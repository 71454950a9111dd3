----------------------------- MODULE Freshness -----------------------------
(***************************************************************************)
(* The entry of one path, read by get and get_if_fresh and stored by set,  *)
(* while its file changes: every reading of the file and every statement   *)
(* on the database is a step, and other engines act between them.          *)
(*                                                                         *)
(* `file` is the file on disk, or Gone.  `row` is the committed entry, or  *)
(* NoRow: its columns, the contents its payload was derived from, and for  *)
(* the properties alone the mode it was stored under and whether the file  *)
(* stayed as it was from that derivation until all of it was measured      *)
(* (`clean`), and until the commit (`kept`).                               *)
(***************************************************************************)
EXTENDS Detection, Integers

CONSTANTS Engine, Gone, NoRow,
          Configs,      \* the modes and payload versions engines may have
          MaxId,        \* bounds the row ids
          MaxChanges    \* bounds the changes of the file

Row == [id : 1..MaxId, mtime : Mtime, size : Sizes, hash : Hash, version : Nat,
        contents : Contents, mode : Mode, clean : BOOLEAN, kept : BOOLEAN]

ASSUME FreshnessAssumption ==
  /\ Configs \subseteq [mode : Mode, version : Nat]
  /\ MaxId \in Nat /\ MaxChanges \in Nat
  /\ Gone \notin File
  /\ NoRow \notin Row

VARIABLES file, changes, row, lastId, config, read, store

vars == <<file, changes, row, lastId, config, read, store>>

ReadStep == {"none", "resolved", "found", "hash", "fresh", "hit"}

NoRead  == [step |-> "none", checked |-> FALSE, found |-> NoRow, got |-> NoRow, seen |-> {}]
NoStore == [step |-> "none"]

StoreState ==
  {NoStore}
  \cup [step : {"derived"}, contents : Contents, clean : BOOLEAN, kept : BOOLEAN]
  \cup [step : {"measured"}, contents : Contents, clean : BOOLEAN, kept : BOOLEAN,
        metadata : Metadata]
  \cup [step : {"hashed"}, contents : Contents, clean : BOOLEAN, kept : BOOLEAN,
        metadata : Metadata, hash : Hash]

TypeOK ==
  /\ file \in File \cup {Gone}
  /\ changes \in 0..MaxChanges
  /\ row \in Row \cup {NoRow}
  /\ lastId \in 0..MaxId
  /\ config \in [Engine -> Configs]
  /\ read \in [Engine -> [step : ReadStep, checked : BOOLEAN,
                          found : Row \cup {NoRow}, got : Row \cup {NoRow}, seen : SUBSET File]]
  /\ store \in [Engine -> StoreState]

Init ==
  /\ file \in File
  /\ changes = 0
  /\ row = NoRow
  /\ lastId = 0
  /\ config \in [Engine -> Configs]
  /\ read = [e \in Engine |-> NoRead]
  /\ store = [e \in Engine |-> NoStore]

Idle(e) == read[e].step = "none" /\ store[e].step = "none"

-----------------------------------------------------------------------------
(* What is left of a set under which the file changes.                     *)
Disturbed(s) == [s EXCEPT !.clean = s.clean /\ s.step = "hashed", !.kept = FALSE]

(* Any program writes, replaces, removes or touches the file.              *)
ChangeFile(f) ==
  /\ changes < MaxChanges
  /\ f # file
  /\ file' = f
  /\ changes' = changes + 1
  /\ read' = [e \in Engine |->
        IF read[e].checked THEN [read[e] EXCEPT !.seen = @ \cup ({f} \ {Gone})]
        ELSE read[e]]
  /\ store' = [e \in Engine |->
        IF store[e] = NoStore THEN NoStore ELSE Disturbed(store[e])]
  /\ UNCHANGED <<row, lastId, config>>

-----------------------------------------------------------------------------
(* The caller, or the factory of preload, computes the payload.            *)
Derive(e) ==
  /\ Idle(e)
  /\ file # Gone
  /\ store' = [store EXCEPT ![e] =
       [step |-> "derived", contents |-> file.contents, clean |-> TRUE, kept |-> TRUE]]
  /\ UNCHANGED <<file, changes, row, lastId, config, read>>

(* set reads the metadata ...                                              *)
Measure(e) ==
  LET s == store[e]
  IN  /\ s.step = "derived"
      /\ file # Gone
      /\ store' = [store EXCEPT ![e] =
           [step |-> "measured", contents |-> s.contents, clean |-> s.clean, kept |-> s.kept,
            metadata |-> CollectMetadata(file)]]
      /\ UNCHANGED <<file, changes, row, lastId, config, read>>

(* ... then the hash, if the mode has one ...                              *)
HashFile(e) ==
  LET s == store[e]
  IN  /\ s.step = "measured"
      /\ file # Gone
      /\ store' = [store EXCEPT ![e] =
           [step |-> "hashed", contents |-> s.contents, clean |-> s.clean, kept |-> s.kept,
            metadata |-> s.metadata, hash |-> HashForMode(config[e].mode, file.contents)]]
      /\ UNCHANGED <<file, changes, row, lastId, config, read>>

(* Mutant: the file is hashed when the payload is stored.                  *)
CommitSetHashing(e) ==
  LET s  == store[e]
      id == IF row = NoRow THEN lastId + 1 ELSE row.id
  IN  /\ s.step = "hashed"
      /\ id <= MaxId
      /\ file # Gone
      /\ row' = [id |-> id, mtime |-> s.metadata.mtime, size |-> s.metadata.size,
                 hash |-> HashForMode(config[e].mode, file.contents),
                 version |-> config[e].version,
                 contents |-> s.contents, mode |-> config[e].mode,
                 clean |-> s.clean, kept |-> s.kept]
      /\ lastId' = IF row = NoRow THEN id ELSE lastId
      /\ store' = [store EXCEPT ![e] = NoStore]
      /\ UNCHANGED <<file, changes, config, read>>

(* ... and stores them with the payload in one transaction.                *)
CommitSet(e) ==
  LET s  == store[e]
      id == IF row = NoRow THEN lastId + 1 ELSE row.id
  IN  /\ s.step = "hashed"
      /\ id <= MaxId
      /\ row' = [id |-> id, mtime |-> s.metadata.mtime, size |-> s.metadata.size,
                 hash |-> s.hash, version |-> config[e].version,
                 contents |-> s.contents, mode |-> config[e].mode,
                 clean |-> s.clean, kept |-> s.kept]
      /\ lastId' = IF row = NoRow THEN id ELSE lastId
      /\ store' = [store EXCEPT ![e] = NoStore]
      /\ UNCHANGED <<file, changes, config, read>>

(* A file that is gone, a payload that does not encode, a busy database.   *)
AbandonSet(e) ==
  /\ store[e].step # "none"
  /\ store' = [store EXCEPT ![e] = NoStore]
  /\ UNCHANGED <<file, changes, row, lastId, config, read>>

(* remove, an eviction or a sweep.                                         *)
RemoveRow ==
  /\ row # NoRow
  /\ row' = NoRow
  /\ UNCHANGED <<file, changes, lastId, config, read, store>>

-----------------------------------------------------------------------------
VersionMatches(e) == config[e].version > 0 => row.version = config[e].version

(* get finds the row and goes on to its payload.                           *)
Find(e) ==
  /\ Idle(e)
  /\ row # NoRow
  /\ read' = [read EXCEPT ![e] =
       [step |-> "fresh", checked |-> FALSE, found |-> row, got |-> NoRow, seen |-> {}]]
  /\ UNCHANGED <<file, changes, row, lastId, config, store>>

(* get_if_fresh asks first whether the file exists ...                     *)
Resolve(e) ==
  /\ Idle(e)
  /\ file # Gone
  /\ read' = [read EXCEPT ![e] =
       [step |-> "resolved", checked |-> TRUE, found |-> NoRow, got |-> NoRow, seen |-> {file}]]
  /\ UNCHANGED <<file, changes, row, lastId, config, store>>

(* ... and passes a row of its own version on to detect_change.  A row     *)
(* that has expired ends the read (EndRead).                               *)
FindFresh(e) ==
  /\ read[e].step = "resolved"
  /\ row # NoRow
  /\ VersionMatches(e)
  /\ read' = [read EXCEPT ![e] = [step |-> "found", checked |-> TRUE,
                                  found |-> row, got |-> NoRow, seen |-> @.seen]]
  /\ UNCHANGED <<file, changes, row, lastId, config, store>>

CheckMetadata(e) ==
  /\ read[e].step = "found"
  /\ file # Gone
  /\ LET verdict == AfterMetadata(config[e].mode, read[e].found, CollectMetadata(file))
     IN  \/ verdict = "Fresh" /\ read' = [read EXCEPT ![e].step = "fresh"]
         \/ verdict = "hash" /\ read' = [read EXCEPT ![e].step = "hash"]
         \/ verdict = "Stale" /\ read' = [read EXCEPT ![e] = NoRead]
  /\ UNCHANGED <<file, changes, row, lastId, config, store>>

CheckHash(e) ==
  /\ read[e].step = "hash"
  /\ file # Gone
  /\ IF AfterHash(config[e].mode, read[e].found, file.contents) = "Fresh"
       THEN read' = [read EXCEPT ![e].step = "fresh"]
       ELSE read' = [read EXCEPT ![e] = NoRead]
  /\ UNCHANGED <<file, changes, row, lastId, config, store>>

(* load_payload, by the id of the row that was found.                      *)
LoadPayload(e) ==
  /\ read[e].step = "fresh"
  /\ row # NoRow
  /\ row.id = read[e].found.id
  /\ read' = [read EXCEPT ![e] = [step |-> "hit", checked |-> @.checked,
                                  found |-> @.found, got |-> row, seen |-> @.seen]]
  /\ UNCHANGED <<file, changes, row, lastId, config, store>>

(* The hit returned, a miss, an error.                                     *)
EndRead(e) ==
  /\ read[e].step # "none"
  /\ read' = [read EXCEPT ![e] = NoRead]
  /\ UNCHANGED <<file, changes, row, lastId, config, store>>

Next ==
  \/ \E f \in File \cup {Gone} : ChangeFile(f)
  \/ RemoveRow
  \/ \E e \in Engine :
       \/ Derive(e) \/ Measure(e) \/ HashFile(e) \/ CommitSet(e) \/ AbandonSet(e)
       \/ Find(e) \/ Resolve(e) \/ FindFresh(e)
       \/ CheckMetadata(e) \/ CheckHash(e) \/ LoadPayload(e) \/ EndRead(e)

Spec == Init /\ [][Next]_vars

-----------------------------------------------------------------------------
(* What a hit of a mode has been compared with, among the contents `seen`  *)
(* during the call: the strict mode needs the contents themselves; the     *)
(* others miss a change that keeps mtime and size, and the partial one a   *)
(* change outside the sampled head and tail, whose size is compared on an  *)
(* earlier reading of the file than its samples are.                       *)
Vouched(mode, r, seen) ==
  \/ \E v \in seen : v.contents = r.contents
  \/ mode # "StrictFullHash" /\ \E v \in seen : MetadataMatches(r, CollectMetadata(v))
  \/ /\ mode = "MetadataThenPartialHash"
     /\ \E v \in seen : Size[v.contents] = Size[r.contents]
     /\ \E v \in seen : Sample[v.contents] = Sample[r.contents]

(* What a read loads was measured of the contents it was derived from; and *)
(* if it took the place of the row that was checked, the file stayed as it *)
(* was until that commit.                                                  *)
Answerable(r) == r.got.kept \/ (r.got.clean /\ r.got = r.found)

(* A hit of get_if_fresh is derived from contents the file had during the  *)
(* call, up to what its mode cannot see, whatever other engines store,     *)
(* remove and re-create between the find, the checks and the load, and     *)
(* however their modes differ: also when the file changed between the      *)
(* measure of a set and its commit, which the checks have to notice        *)
(* (detect_change, get_if_fresh, set).                                     *)
FreshHitsWereSeen ==
  \A e \in Engine :
    LET r == read[e]
    IN  (r.step = "hit" /\ r.checked /\ Answerable(r))
          => Vouched(config[e].mode, r.got, r.seen)

(* An entry whose file stayed as it was until it was measured is fresh, to *)
(* every engine of the mode it was stored under, whenever the file is as   *)
(* it was then: a set in one mode leaves what that mode's check asks for.  *)
StoredEntriesAreFresh ==
  /\ row # NoRow /\ row.clean
  /\ file # Gone /\ file.contents = row.contents /\ file.mtime = row.mtime
  => DetectChange(row.mode, row, file) = "Fresh"

(* "When v > 0, entries written with a different version are treated as    *)
(* stale" (payload_version, builder.md).                                   *)
FreshHitsHaveTheVersion ==
  \A e \in Engine :
    (read[e].step = "hit" /\ read[e].checked /\ config[e].version > 0) =>
      read[e].got.version = config[e].version

-----------------------------------------------------------------------------
(* The inductive invariant.  What is recorded of a clean entry is what its *)
(* contents and its mode give ...                                          *)
RecordedOK(r) ==
  /\ r.clean => r.size = Size[r.contents] /\ r.hash = HashForMode(r.mode, r.contents)
  /\ r.kept => r.clean

(* ... because a set agrees with the file at each of its steps, until it   *)
(* is clean or kept no longer.                                             *)
StoreOK(e) ==
  LET s == store[e]
  IN  s # NoStore =>
        /\ s.kept => s.clean
        /\ s.kept \/ (s.clean /\ s.step # "hashed") => file # Gone /\ file.contents = s.contents
        /\ s.clean /\ s.step \in {"measured", "hashed"} => s.metadata.size = Size[s.contents]
        /\ s.clean /\ s.step = "hashed" => s.hash = HashForMode(config[e].mode, s.contents)

(* What a checked read has established at each step, of the row it found   *)
(* and of any other that has taken its place.                              *)
ReadOK(e) ==
  LET r == read[e]
  IN  /\ r.found # NoRow => RecordedOK(r.found)
      /\ r.step \notin {"none", "resolved"} => r.found # NoRow
      /\ r.step = "hit" => r.got # NoRow
      /\ r.step = "resolved" => r.checked
      /\ r.checked =>
           /\ r.step # "none"
           /\ file # Gone => file \in r.seen
           /\ (r.step = "hash" /\ r.found.clean /\ config[e].mode # "StrictFullHash")
                => \E v \in r.seen : Size[v.contents] = r.found.size
           /\ (r.step = "fresh" /\ r.found.clean)
                => Vouched(config[e].mode, r.found, r.seen)
           /\ (row # NoRow /\ row # r.found /\ row.kept /\ r.step # "resolved")
                => \E v \in r.seen : v.contents = row.contents
           /\ (r.step = "hit" /\ Answerable(r)) => Vouched(config[e].mode, r.got, r.seen)

(* The types, the committed entry, and every read and set under way        *)
(* (get_if_fresh and set).                                                 *)
IInv ==
  /\ TypeOK
  /\ row # NoRow => RecordedOK(row)
  /\ \A e \in Engine : StoreOK(e) /\ ReadOK(e)
=============================================================================
