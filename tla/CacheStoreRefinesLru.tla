------------------------ MODULE CacheStoreRefinesLru ------------------------
(* CacheStore implements LruCache: the entries of a namespace in the order *)
(* of last_used_us, then id.                                               *)
EXTENDS CacheStore

Entries(rows) == {r.path : r \in rows}

Older(rows) ==
  {pair \in Path \X Path : \E r, s \in rows :
     r.path = pair[1] /\ s.path = pair[2] /\ Before(r, s)}

Imported(rows) == Entries({r \in rows : r.src = "import"})

PathsOf(batch) == [i \in DOMAIN batch |-> batch[i].path]

Lru == INSTANCE LruCache WITH
         Bounds   <- {MaxEntries[e] : e \in Engine},
         Writes   <- StoreBatches,
         Restores <- {PathsOf(batch) : batch \in ImportBatches},
         entries  <- [ns \in Namespace |-> Entries(RowsOf(files, ns))],
         older    <- [ns \in Namespace |-> Older(RowsOf(files, ns))],
         restored <- [ns \in Namespace |-> Imported(RowsOf(files, ns))]

(* Whatever the clock returns and however engines interleave, the stored   *)
(* use values keep the true recency order, and every write, import, use    *)
(* and removal acts on it as LruCache says, at its commit and only there.  *)
ImplementsLru == Lru!Spec

-----------------------------------------------------------------------------
(* What the open write has made of its namespace, item by item: the rows   *)
(* of the items it has stored and, as they are committed, the others, less *)
(* what its eviction dropped; of what it stored, the later is the newer    *)
(* (upsert_in_tx, import_rows_in_tx, enforce_max_entries).                 *)
Work == RowsOf(tx.files, NamespaceOf[tx.owner])

Done == {tx.items[i].path : i \in 1..tx.next - 1}

Given == RowsOf(files, NamespaceOf[tx.owner])

Gone == IF tx.phase = "commit"
          THEN Lru!Dropped(Entries(Given), Older(Given), Done, MaxEntries[tx.owner])
          ELSE {}

BatchIsGiven ==
  PathsOf(tx.items) \in IF tx.restore THEN {PathsOf(batch) : batch \in ImportBatches}
                                      ELSE StoreBatches

WorkHasTheItems ==
  /\ Entries(Work) = (Entries(Given) \cup Done) \ Gone
  /\ \A r \in Work : IF r.path \in Done THEN r.src = "import" <=> tx.restore
                                        ELSE r \in files

LaterIsNewer ==
  ~tx.restore =>
    \A r, s \in Work, j \in 1..tx.next - 1 :
      (/\ s.path = tx.items[j].path
       /\ \A i \in j..tx.next - 1 : tx.items[i].path # r.path) => r.use < s.use

WriteFollowsLru ==
  tx.phase # "none" => BatchIsGiven /\ WorkHasTheItems /\ LaterIsNewer
=============================================================================
