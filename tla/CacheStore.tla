----------------------------- MODULE CacheStore -----------------------------
(***************************************************************************)
(* The store of localcache: the table `files` shared by several engines    *)
(* (connections, possibly of several processes), the IMMEDIATE write       *)
(* transaction of set, batch_set and the imports with its eviction, and    *)
(* the read path that finds a row in one statement and records its use in  *)
(* a later one.                                                            *)
(*                                                                         *)
(* `files` and `lastId` are the committed database (lastId is SQLite's     *)
(* AUTOINCREMENT counter, transactional like the table).  `held[e]` is the *)
(* row a read or a touch of e has found and not yet finished with, as a    *)
(* set of at most one [id, path].  `tx` is the write transaction: SQLite   *)
(* admits one writer, so there is one record, whose `phase` is "none" when *)
(* the write lock is free.                                                 *)
(***************************************************************************)
EXTENDS UseOrder, Sequences

CONSTANTS Engine,          \* the open engines
          Namespace,
          Path,            \* canonical path keys
          NamespaceOf,     \* the namespace of each engine
          MaxEntries,      \* max_entries of each engine, or Unbounded
          Unbounded,       \* max_entries: None
          ReadOnly,        \* the engines opened read-only
          NoEngine,        \* nobody holds the write lock
          Clock,           \* values now_us() may return, in any order
          MaxId,           \* the largest row id SQLite can assign
          StoreBatches,    \* the prepared paths of a set or batch_set
          ImportBatches    \* the records of an import

ImportRecord == [path : Path, last_accessed_at : Int, updated_at : Int]

(* max_entries = Some(0) is rejected by check_configuration at open.       *)
ASSUME ConstantsAssumption ==
  /\ NamespaceOf \in [Engine -> Namespace]
  /\ MaxEntries \in [Engine -> (Nat \ {0}) \cup {Unbounded}]
  /\ Unbounded \notin Nat
  /\ ReadOnly \subseteq Engine
  /\ NoEngine \notin Engine
  /\ Clock \subseteq Nat
  /\ MaxId \in Nat
  /\ StoreBatches \subseteq Seq(Path)
  /\ ImportBatches \subseteq Seq(ImportRecord)

VARIABLES files, lastId, held, tx

vars == <<files, lastId, held, tx>>

Row  == [id : 1..MaxId, ns : Namespace, path : Path,
         use : 0..(UseLimit - 1), src : {"use", "import"}]
Item == [path : Path, use : 0..(UseLimit - 1)]

NoTx == [phase |-> "none", owner |-> NoEngine, restore |-> FALSE,
         items |-> <<>>, next |-> 1, written |-> {}, files |-> {}, lastId |-> 0]

TypeOK ==
  /\ files \subseteq Row
  /\ IsFiniteSet(files)
  /\ lastId \in 0..MaxId
  /\ held \in [Engine -> SUBSET [id : 1..MaxId, path : Path]]
  /\ tx \in [phase : {"none", "write", "commit"}, owner : Engine \cup {NoEngine},
             restore : BOOLEAN, items : Seq(Item), next : Nat \ {0},
             written : SUBSET (1..MaxId), files : SUBSET Row, lastId : 0..MaxId]
  /\ IsFiniteSet(tx.files)

Init ==
  /\ files = {}
  /\ lastId = 0
  /\ held = [e \in Engine |-> {}]
  /\ tx = NoTx

-----------------------------------------------------------------------------
(* An engine is used by one thread at a time: it is inside a read, inside  *)
(* its write transaction, or idle.                                         *)
Idle(e) == held[e] = {} /\ tx.owner # e

WriteLockFree == tx.phase = "none"

(* guard_write, then the IMMEDIATE lock: a busy database is an error       *)
(* before anything is written.                                             *)
CanWrite(e) == Idle(e) /\ e \notin ReadOnly /\ WriteLockFree

(* get, get_if_fresh and touch, first statement: find_file.                *)
Find(e, p) ==
  /\ Idle(e)
  /\ \E r \in RowsOf(files, NamespaceOf[e]) :
        /\ r.path = p
        /\ held' = [held EXCEPT ![e] = {[id |-> r.id, path |-> p]}]
  /\ UNCHANGED <<files, lastId, tx>>

(* The last statement of a hit and of a touch: UPDATE ... WHERE id, which  *)
(* changes nothing when the row is gone by now.                            *)
RecordUse(e) ==
  /\ e \notin ReadOnly
  /\ WriteLockFree
  /\ \E h \in held[e], now \in Clock :
       LET use == UseValue(RowsOf(files, NamespaceOf[e]), now)
       IN  /\ FitsUseOrder(use) \/ \A r \in files : r.id # h.id
           /\ files' = {IF r.id = h.id
                          THEN [r EXCEPT !.use = use, !.src = "use"]
                          ELSE r : r \in files}
  /\ held' = [held EXCEPT ![e] = {}]
  /\ UNCHANGED <<lastId, tx>>

(* Every other end of a read: stale, undecodable, no payload, a read-only  *)
(* engine, a use that could not be recorded (get ignores the error, touch  *)
(* returns it), or the end of the process.                                 *)
EndRead(e) ==
  /\ held[e] # {}
  /\ held' = [held EXCEPT ![e] = {}]
  /\ UNCHANGED <<files, lastId, tx>>

(* remove and the page of delete_paths of a cleanup: DELETE by path.       *)
DeletePaths(e, paths) ==
  /\ CanWrite(e)
  /\ files' = {r \in files : ~(r.ns = NamespaceOf[e] /\ r.path \in paths)}
  /\ UNCHANGED <<lastId, held, tx>>

-----------------------------------------------------------------------------
DistinctPaths(batch) == {batch[i].path : i \in DOMAIN batch}

(* batch_set and import_bounded refuse more distinct keys than the bound   *)
(* before the transaction starts; one path never exceeds it.               *)
Accepted(e, items) ==
  MaxEntries[e] # Unbounded => Cardinality(DistinctPaths(items)) <= MaxEntries[e]

BeginWrite(e, restore, items) ==
  /\ CanWrite(e)
  /\ Accepted(e, items)
  /\ tx' = [phase |-> "write", owner |-> e, restore |-> restore,
            items |-> items, next |-> 1, written |-> {},
            files |-> files, lastId |-> lastId]
  /\ UNCHANGED <<files, lastId, held>>

(* set (one path) and batch_set (the paths that prepared; none is still a  *)
(* transaction with its eviction).                                         *)
BeginStore(e, paths) ==
  BeginWrite(e, FALSE, [i \in DOMAIN paths |-> [path |-> paths[i], use |-> 0]])

(* import_entries and import_from: an empty import returns at once, and a  *)
(* record whose recency does not fit refuses the whole import.             *)
BeginImport(e, records) ==
  /\ records # <<>>
  /\ \A i \in DOMAIN records : Representable(records[i])
  /\ BeginWrite(e, TRUE, [i \in DOMAIN records |->
                  [path |-> records[i].path, use |-> UseValueOfRecord(records[i])]])

(* Mutant: ids without AUTOINCREMENT, one more than the largest in use.    *)
UpsertReusingIds(ns, path, use, src) ==
  LET old == {r \in tx.files : r.ns = ns /\ r.path = path}
      id  == IF old # {} THEN Max({r.id : r \in old})
             ELSE Max({0} \cup {r.id : r \in tx.files}) + 1
  IN  /\ id <= MaxId
      /\ tx' = [tx EXCEPT
                  !.files   = (tx.files \ old) \cup
                     {[id |-> id, ns |-> ns, path |-> path, use |-> use, src |-> src]},
                  !.lastId  = Max({tx.lastId, id}),
                  !.next    = tx.next + 1,
                  !.written = tx.written \cup {id}]

(* Mutant: an overwrite keeps the use value the row had.                   *)
UpsertKeepingUse(ns, path, use, src) ==
  LET old == {r \in tx.files : r.ns = ns /\ r.path = path}
      row(id, u) == [id |-> id, ns |-> ns, path |-> path, use |-> u, src |-> src]
  IN  IF old # {}
        THEN \E r \in old :
               tx' = [tx EXCEPT !.files   = (tx.files \ old) \cup {row(r.id, r.use)},
                                !.next    = tx.next + 1,
                                !.written = tx.written \cup {r.id}]
        ELSE /\ tx.lastId < MaxId
             /\ tx' = [tx EXCEPT !.files   = tx.files \cup {row(tx.lastId + 1, use)},
                                 !.lastId  = tx.lastId + 1,
                                 !.next    = tx.next + 1,
                                 !.written = tx.written \cup {tx.lastId + 1}]

(* INSERT ... ON CONFLICT(namespace, path) DO UPDATE: an overwrite keeps   *)
(* the id, an insert takes one more than any id ever assigned.             *)
Upsert(ns, path, use, src) ==
  LET old == {r \in tx.files : r.ns = ns /\ r.path = path}
      row(id) == [id |-> id, ns |-> ns, path |-> path, use |-> use, src |-> src]
  IN  IF old # {}
        THEN \E r \in old :
               tx' = [tx EXCEPT !.files   = (tx.files \ old) \cup {row(r.id)},
                                !.next    = tx.next + 1,
                                !.written = tx.written \cup {r.id}]
        ELSE /\ tx.lastId < MaxId
             /\ tx' = [tx EXCEPT !.files   = tx.files \cup {row(tx.lastId + 1)},
                                 !.lastId  = tx.lastId + 1,
                                 !.next    = tx.next + 1,
                                 !.written = tx.written \cup {tx.lastId + 1}]

(* upsert_in_tx and one round of import_rows_in_tx.  A use value at the    *)
(* limit fails the CHECK, and no step but Rollback is left.                *)
WriteRow(e) ==
  /\ tx.owner = e
  /\ tx.phase = "write"
  /\ tx.next <= Len(tx.items)
  /\ LET item == tx.items[tx.next]
         ns   == NamespaceOf[e]
     IN  IF tx.restore
           THEN Upsert(ns, item.path, item.use, "import")
           ELSE \E now \in Clock :
                  /\ FitsUseOrder(UseValue(RowsOf(tx.files, ns), now))
                  /\ Upsert(ns, item.path, UseValue(RowsOf(tx.files, ns), now), "use")
  /\ UNCHANGED <<files, lastId, held>>

(* Mutant: the bound counted and enforced over the whole table.            *)
EvictAnyNamespace(e) ==
  /\ tx.owner = e
  /\ tx.phase = "write"
  /\ tx.next > Len(tx.items)
  /\ LET gone == IF MaxEntries[e] = Unbounded THEN {}
                 ELSE Evicted(tx.files, MaxEntries[e], tx.written)
     IN  tx' = [tx EXCEPT !.files = tx.files \ gone, !.phase = "commit"]
  /\ UNCHANGED <<files, lastId, held>>

(* enforce_max_entries, in the write's own transaction.                    *)
Evict(e) ==
  /\ tx.owner = e
  /\ tx.phase = "write"
  /\ tx.next > Len(tx.items)
  /\ LET rows == RowsOf(tx.files, NamespaceOf[e])
         gone == IF MaxEntries[e] = Unbounded THEN {}
                 ELSE Evicted(rows, MaxEntries[e], tx.written)
         ids  == {r.id : r \in gone}
     IN  tx' = [tx EXCEPT !.files = {r \in tx.files : r.id \notin ids},
                          !.phase = "commit"]
  /\ UNCHANGED <<files, lastId, held>>

Commit(e) ==
  /\ tx.owner = e
  /\ tx.phase = "commit"
  /\ files'  = tx.files
  /\ lastId' = tx.lastId
  /\ tx' = NoTx
  /\ UNCHANGED held

(* Any error of the transaction (a failed statement, an exhausted use      *)
(* order, a failed commit) or the end of the process: SQLite rolls back.   *)
Rollback(e) ==
  /\ tx.owner = e
  /\ tx' = NoTx
  /\ UNCHANGED <<files, lastId, held>>

Next ==
  \E e \in Engine :
    \/ \E p \in Path : Find(e, p)
    \/ RecordUse(e)
    \/ EndRead(e)
    \/ \E paths \in SUBSET Path : DeletePaths(e, paths)
    \/ \E paths \in StoreBatches : BeginStore(e, paths)
    \/ \E records \in ImportBatches : BeginImport(e, records)
    \/ WriteRow(e)
    \/ Evict(e)
    \/ Commit(e)
    \/ Rollback(e)

Spec == Init /\ [][Next]_vars

-----------------------------------------------------------------------------
(* A row id that a read still holds names the entry the read asked for, or *)
(* nothing: whatever removals, evictions and re-creations came between     *)
(* find_file and record_use, the use is never credited to another entry    *)
(* (ids are AUTOINCREMENT, and an overwrite keeps its id).                 *)
HeldNamesItsEntry ==
  \A e \in Engine : \A h \in held[e] : \A r \in files :
    r.id = h.id => r.ns = NamespaceOf[e] /\ r.path = h.path

(* "The order is strict, so two uses never tie, whatever the clock's       *)
(* resolution" (options.rs, max_entries; RFC 026 R1): no two rows of a     *)
(* namespace share a use value that uses assigned; only an import ties.    *)
UsesNeverTie ==
  \A r, s \in files :
    (r.ns = s.ns /\ r.src = "use" /\ s.src = "use" /\ r.use = s.use) => r = s

(* A commit of a bounded engine leaves at most max_entries rows in its     *)
(* namespace, however far an unbounded engine or one with a larger bound   *)
(* had filled it (set, batch_set and the imports, enforce_max_entries).    *)
CommitRespectsBound ==
  [][\A e \in Engine :
       (Commit(e) /\ MaxEntries[e] # Unbounded)
         => Cardinality(RowsOf(files', NamespaceOf[e])) <= MaxEntries[e]]_vars

(* "A write never evicts the entries it just wrote": every path of the     *)
(* batch is stored when the write commits.                                 *)
CommitKeepsItsWrites ==
  [][\A e \in Engine : Commit(e) =>
       \A i \in DOMAIN tx.items :
         \E r \in RowsOf(files', NamespaceOf[e]) :
           r.path = tx.items[i].path /\ r.id \in tx.written]_vars

(* An entry a commit evicts was used before every entry it leaves and did  *)
(* not write, and belongs to the namespace of the writer.                  *)
EvictsLeastRecentlyUsed ==
  [][\A e \in Engine : Commit(e) =>
       \A r \in files : (\A s \in files' : s.id # r.id) =>
         /\ r.ns = NamespaceOf[e]
         /\ \A s \in RowsOf(files', NamespaceOf[e]) :
              s.id \in tx.written \/ Before(r, s)]_vars

(* A read hit, a touch or a stored row becomes the newest of its           *)
(* namespace: after the statement no other row has a use value as large,   *)
(* whatever the clock returned.                                            *)
NewestIn(rows, r) == \A s \in RowsOf(rows, r.ns) : s # r => s.use < r.use

UseBecomesNewest ==
  [][/\ \A r \in files' \ files : WriteLockFree => NewestIn(files', r)
     /\ \A r \in tx'.files \ tx.files :
          (tx.phase = "write" /\ ~tx.restore) => NewestIn(tx'.files, r)]_vars

(* Whatever an engine does, the entries of every other namespace of the    *)
(* database stay as they were: record_use updates by row id alone, and the *)
(* eviction deletes by row id.                                             *)
OtherNamespacesKept ==
  [][\A e \in Engine :
       (RecordUse(e) \/ Commit(e) \/ \E paths \in SUBSET Path : DeletePaths(e, paths)) =>
         \A ns \in Namespace \ {NamespaceOf[e]} :
           RowsOf(files', ns) = RowsOf(files, ns)]_vars

(* "Entries that share a second are ordered by the order of the records"   *)
(* (import_entries, portable.rs): of two imported records with the same    *)
(* use value, the earlier one is evicted first.  Of a path the batch names *)
(* twice only the last record counts.                                      *)
LastOccurrence(items, i) ==
  \A j \in DOMAIN items : j > i => items[j].path # items[i].path

ImportTiesFollowRecords ==
  (tx.phase = "commit" /\ tx.restore) =>
    \A i, j \in DOMAIN tx.items :
      (/\ i < j
       /\ tx.items[i].use = tx.items[j].use
       /\ LastOccurrence(tx.items, i)
       /\ LastOccurrence(tx.items, j)) =>
         \E r, s \in RowsOf(tx.files, NamespaceOf[tx.owner]) :
           r.path = tx.items[i].path /\ s.path = tx.items[j].path /\ Before(r, s)

-----------------------------------------------------------------------------
(* The inductive invariant, by parts.                                      *)

(* What holds of the rows of a table whose last assigned id is `last`.     *)
TableOK(rows, last) ==
  /\ \A r \in rows : r.id <= last
  /\ \A r, s \in rows : r.id = s.id => r = s
  /\ \A r, s \in rows : (r.ns = s.ns /\ r.path = s.path) => r = s
  /\ \A r, s \in rows :
       (r.ns = s.ns /\ r.src = "use" /\ s.src = "use" /\ r.use = s.use) => r = s

HeldOK ==
  \A e \in Engine : \A h \in held[e] :
    /\ h.id <= lastId
    /\ \A r \in files : r.id = h.id => r.ns = NamespaceOf[e] /\ r.path = h.path

(* The working rows of the transaction: what it began with, under the same *)
(* ids, and ids above every committed one.                                 *)
WorkingOK ==
  /\ lastId <= tx.lastId
  /\ \A s \in tx.files :
       s.id > lastId \/ \E r \in files : r.id = s.id /\ r.ns = s.ns /\ r.path = s.path

(* The rows of the other namespaces are the committed ones.                *)
OthersOK ==
  \A ns \in Namespace \ {NamespaceOf[tx.owner]} :
    RowsOf(tx.files, ns) = RowsOf(files, ns)

(* `written` is the rows of the items before `next`, all still there.      *)
WrittenOK ==
  /\ tx.next <= Len(tx.items) + 1
  /\ \A id \in tx.written : \E i \in 1..(tx.next - 1), r \in tx.files :
       r.id = id /\ r.ns = NamespaceOf[tx.owner] /\ r.path = tx.items[i].path
  /\ \A i \in 1..(tx.next - 1) : \E r \in tx.files :
       r.id \in tx.written /\ r.ns = NamespaceOf[tx.owner] /\ r.path = tx.items[i].path

(* Before the eviction only written rows differ from the committed ones;   *)
(* after it, the rows that are gone are the right ones.                    *)
WriteOK ==
  tx.phase = "write" =>
    \A r \in files : r \in tx.files \/ r.id \in tx.written

CommitOK ==
  tx.phase = "commit" =>
    /\ tx.next > Len(tx.items)
    /\ MaxEntries[tx.owner] # Unbounded =>
         Cardinality(RowsOf(tx.files, NamespaceOf[tx.owner])) <= MaxEntries[tx.owner]
    /\ \A r \in files : (\A s \in tx.files : s.id # r.id) =>
         /\ r.ns = NamespaceOf[tx.owner]
         /\ \A s \in RowsOf(tx.files, NamespaceOf[tx.owner]) :
              s.id \in tx.written \/ Before(r, s)

TxOK ==
  tx.phase # "none" =>
    /\ tx.owner \in Engine
    /\ Accepted(tx.owner, tx.items)
    /\ TableOK(tx.files, tx.lastId)
    /\ WorkingOK
    /\ OthersOK
    /\ WrittenOK
    /\ WriteOK
    /\ CommitOK

IInv == TypeOK /\ TableOK(files, lastId) /\ HeldOK /\ TxOK
=============================================================================
