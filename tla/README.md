# localcache: formal models

TLA+ models of localcache, a cache of values derived from files that keeps its
entries in a SQLite database shared by threads and processes. Each module is
translated from the Rust source under `src/crates/`; paths below are relative
to `src/crates/localcache/src/` unless they say otherwise. `PROJECT.json` maps
every definition to the lines it stands for, lists the model-checking runs, the
broken variants of the code that each property detects, and the hazards.

Run everything from this directory:

    tlc -workers 2 -config CacheStore.cfg MCCacheStore.tla
    tlapm CacheStoreProofs.tla

## 1. The system

An **engine** (`CacheEngine`) is one SQLite connection, one namespace and one
configuration. It is not `Sync`: one thread uses it at a time. Several engines,
in several threads or processes, share a database file. SQLite gives them
snapshot reads and one write lock; everything between two statements is
unprotected. Entries are rows of `files` (path, metadata, hash, version,
`last_used_us`) joined to `payloads` (bytes and an encoding tag).

| Component | State | Operations | What must hold |
|---|---|---|---|
| Row store and use order (`db/repository.rs`, `db/store.rs`) | `files`, `payloads`, the id counter, the write lock | find, load, upsert, import, delete by path, record use, evict, begin, commit | one row per path; ids never reused; uses never tie and the newest use ranks highest whatever the clock does; a write is all or nothing |
| Engine (`cache/engine.rs`) | key, configuration, callbacks; the rest is in the store | `get`, `get_if_fresh`, `set`, `batch_set`, `remove`, `touch`, `preload`, `rotate_encryption_key` | the bound holds after every write, which never evicts its own entries; a hit is fresh by the mode's rule |
| Portability (`cache/engine/portable.rs`) | none | export, import, copy | an import restores recency and obeys the bound |
| Maintenance (`cache/engine/maintenance.rs`) | a cursor during a sweep | remove missing, expired and old-version entries | what qualifies throughout goes, what never does stays, and the sweep ends |
| Sealing (`localcache-format/src/lib.rs`) | none | encode, decode, reseal | a payload opens only with its key, tag and path; what an engine seals it can open |
| Payload codec (`localcache-format/src/payload_codec/`) | bytes and a budget during a call | serialize, deserialize | what is written is read back; what is read is what is there, at a cost bounded by the input |
| Change detection (`detection/`) | none | metadata, partial and full hash by mode | `Fresh` only if the mode's evidence agrees |
| Queries (`cache/query.rs`, `cache/query/execution.rs`) | none | filter, sort, page, in SQL or in Rust | every plan gives the same page; offset and limit count readable rows; what others write meanwhile hides nothing that stays |
| Schema (`db/schema.rs`, `db/schema/`) | `user_version`, tables, journal mode | classify, create, migrate v1 to v6, configure | migrated once, in one transaction; every entry and its recency order kept |
| Watcher (`cache/watcher.rs`) | own engine, channel of 256 events, counters | file event, debounced batch | an entry whose file changed is removed, or a counter says why not |
| Pools (`read_pool.rs`, `pool.rs`, `cache/async_engine.rs`, `cache/runtime.rs`) | slots behind mutexes, a round-robin counter | checkout, lock, run on a worker | one call at a time per engine, none after a panic in it; every call returns |
| Diagnosis, options, paths, globs, errors, command line | none | reports, validation, text | outside the models |

**Interactions.** Engines meet only in the database: through committed rows,
through the write lock (`BEGIN IMMEDIATE`, released at commit, rollback or the
end of the process), and through row ids that one statement reads and a later
one uses. The watcher and every pool slot own an engine, so they are engines to
the others. The key of an engine is in memory only: another engine learns of a
rotation by failing to open what it reads.

**What is hard.** Statements of two engines interleave between the steps of a
read; the use order must survive clocks that repeat or step back; writes of
engines with different bounds meet in one namespace; a rotation spans many
pages and may fail or be killed at each; sweeps and queries page through rows
that others change; a watcher races the writes it watches for; a migration may
be raced or killed. `PROJECT.json` lists each of these at its line under
`hazards`, with the properties that cover it or the reason why none does.

## 2. The modules

| Module | Models | Proofs |
|---|---|---|
| `UseOrder` | values of the use order, eviction order and selection: pure operators | `CacheStoreProofs` |
| `CacheStore` (extends `UseOrder`) | the `files` table shared by engines; reads, uses, writes, imports, evictions | `CacheStoreProofs` |
| `LruCache` | abstract: a namespace is a set of entries and the order of their last uses | |
| `CacheStoreRefinesLru` | the refinement of `LruCache` by `CacheStore` | `CacheStoreProofs` |
| `Sealing` | tags, sealing, decoding and resealing: pure operators | `KeyRotationProofs` |
| `KeyRotation` (extends `Sealing`) | `rotate_encryption_key` among the writes of other engines | `KeyRotationProofs` |
| `Detection` | what each mode records of a file and compares: pure operators | `FreshnessProofs` |
| `Freshness` (extends `Detection`) | reads and stores of one entry while its file changes | `FreshnessProofs` |
| `Backfill` | the use order that the migration to version 6 assigns, and its recurrence: pure operators | `SchemaOpenProofs` |
| `SchemaOpen` (extends `Backfill`) | processes that open, create, migrate and configure one file | `SchemaOpenProofs` |
| `Query` | the plans of a query, its statements and its windows, among the writes of others | `QueryProofs` |
| `PayloadCodec` | the binary codec: values to bytes and bytes to values, by their types | none: its operators are recursive |
| `Watcher` | file changes, events, the callbacks of both watchers, the channel and the counters | `WatcherProofs` |
| `Maintenance` | the paged sweeps, among files, a clock and writes | `MaintenanceProofs` |
| `Pools` | engines behind mutexes: `ReadPool`, `SyncCacheEngine`, `AsyncCacheEngine` | `PoolsProofs` |
| `MC` and the name of a module | finite instances | |

Operators marked *Mutant* are plausible mistakes in the code; nothing uses
them, `PROJECT.json` pairs each with the property that detects it.

### CacheStore

State: `files` and `lastId` (the committed table and SQLite's `AUTOINCREMENT`
counter), `held[e]` (the row id a read has found and not finished with) and
`tx` (the one write transaction: its working copy of the table, the items to
store, the next one, the ids written). The actions:

* `Find`, `RecordUse`, `EndRead`: `get`, `get_if_fresh` and `touch`. The row is
  found in one statement and its use recorded in a later one; any action of
  another engine may come between. A use that cannot be recorded (busy, use
  order exhausted) ends the read all the same.
* `DeletePaths`: `remove`, and the page of deletes of a sweep.
* `BeginStore`, `BeginImport`: the checks of `set`, `batch_set` and
  `import_bounded` before the write lock, then the lock. More distinct paths
  than `max_entries`, or a recency out of range, refuse the call.
* `WriteRow`: one upsert. An overwrite keeps its id; an insert takes a new one.
  A use takes the larger of the clock and one more than every value of the
  namespace, and fails at the limit; an import takes its record's second.
* `Evict`, `Commit`, `Rollback`: `enforce_max_entries` in the same transaction;
  the commit; any error, or the end of the process.

The clock is any value of `Clock` at any step, so it repeats and steps back.
A read-only engine only finds. Column values that no property distinguishes
(metadata, hash, payload) are left out here; `Freshness` has them.

### LruCache

The promise of `max_entries` with no clock, use value or id. A namespace is a
set of entries and the order in which they were last used, a set of pairs. A use
moves an entry to the end of the order; a write moves what it stored to the end,
one after the other, and drops the oldest others until the bound holds; an
import places its entries anywhere and drops likewise, but the others keep their
order. What an import placed is `restored` until its next use, so that a use is
never excused as an import. `CacheStoreRefinesLru` maps the rows to their paths
and `last_used_us, id` to that order, so a commit is one abstract step and every
statement before it a stutter. A use that had no effect would be a stutter too;
`UseBecomesNewest` excludes it. `WriteFollowsLru` says why a commit is that
step: at every statement the open write has made of its namespace what
`LruCache` makes of it with the items done so far.

### Sealing and KeyRotation

A payload is its tag (codec and sealing) and what its bytes are: a text, the
key and the associated data it was sealed with. AES-GCM is its contract: bytes
open under exactly that key and data. `Decode` keeps the order of the checks of
`decode_payload`, because it decides the error a caller sees.

`KeyRotation` keeps the committed payloads per namespace and path, the key of
each engine, and where its rotation is: idle, in its pages (with its working
copy and cursor) or committed. `RotatePage` reseals a page of rows in path
order, of any size up to `PageRows` (the byte bound makes shorter pages, never
empty ones); `RotationFails` is a row that does not open or has an unknown tag;
`RollBack` any other error; `ReplaceKey` is apart from `CommitRotation`, so
others run between and a process may end there (`Reopen`, with any key).
`Set`, `Import` and `Remove` of other engines wait for the write lock.

### Detection and Freshness

A file is its contents and its mtime as recorded; contents have a size and a
sample (the head and tail that a partial hash covers). `Detection` translates
the four modes: what a set records (`HashForMode`), what the metadata decides
(`AfterMetadata`) and what the hash decides (`AfterHash`, which compares the
kind of hash that was stored).

`Freshness` follows one path: the file, the committed row with the contents its
payload was derived from, and for each engine where it is in a read or a set.

* `ChangeFile`: any program writes, replaces, removes or touches the file, between
  any two other steps. One reading of the file is one moment.
* `Derive`, `Measure`, `HashFile`, `CommitSet`: the caller (or `preload`'s
  factory) computes the payload, then `set` reads the metadata, then the hash,
  then commits. `AbandonSet` is any error on the way.
* `Resolve`, `FindFresh`, `CheckMetadata`, `CheckHash`, `LoadPayload`:
  `get_if_fresh`. `Find`, `LoadPayload`: `get`. `EndRead` returns: a hit, a miss
  at any point, an expired entry, an error.
* `RemoveRow`: `remove`, an eviction or a sweep. A row stored again has a new id.

Four values are for the properties only: `seen`, the states of the file during
a checked read; `mode`, under which a row was stored; `clean`, that the file did
not change between the derivation of a payload and the end of its measure; and
`kept`, that it did not until the commit either. Without `clean` no freshness
can be promised: a payload derived before a change and measured after it is
fresh to every mode, with old contents (section 5). A change between the
measure and the commit is another matter: it is on the checks to notice it, and
`FreshHitsWereSeen` asks that they do. Only when the payload that is loaded has
taken the place of the row that was checked must the file have stayed until the
commit, since nothing has compared that row with the file.

What a hit is then worth (`FreshHitsWereSeen`): its payload was derived from
contents the file had during the call, or, outside the strict mode, from
contents of the same mtime and size, or, in the partial mode, of the same size
and samples. In the partial mode the size and the samples may be of two
readings: the size is compared before the file is opened to be hashed, and not
again. Imports are not in this module: nothing ties an imported record to a
file.

### Backfill and SchemaOpen

`Backfill` translates the window expression of the version 6 migration
(`Backfilled`) and, from `validate_use_order`, the recurrence it is checked
against (`Expected`), over rows with an id, a namespace and two seconds.

A database in `SchemaOpen` is its `user_version`, the shape of its schema, its
rows, its `AUTOINCREMENT` sequence and its journal mode. A shape is a number,
and one stands for whatever the classifier refuses: how it reads DDL token by
token is not modelled, what it decides from version and shape is. Each process
is closed, has read the version, migrates, is to be configured, or is open.

* `ReadVersion`: `initialize` reads `user_version`, outside any transaction.
* `ValidateCurrent`: for version 6, one read transaction. `OpenReadOnly` the same.
* `BeginMigration`: for versions 0 to 5, `BEGIN IMMEDIATE` and the
  classification again. Who finds the current schema there is done.
* `MigrateStep`, `WriteVersion`, `CommitMigration`: the steps by shape, each
  with what it refuses, the version, the postconditions and the commit. The
  work of a transaction is kept apart from the committed database.
* `Configure`: the journal mode, after the commit and outside the transaction.
* `Write`: a `set` of an engine that is open, so that entries are stored
  between the steps of another open.
* `End`: any error, a refusal, a close, the end of a process. The transaction
  is rolled back and the process may open again.

`origin` (the file at first) and `written` (ids stored since) are for the
properties only.

### Query

An entry is an id, a path, an mtime and a payload: whether it is JSON, whether
it decodes, and the number it has in the one field that is asked for. A query
is its paths, a threshold or a value of the field, sort keys, offset and limit.

* `Begin` is the choice of the plan from the shape of the query: no payload is
  needed before the page (tier 1), SQL may answer (tier 2), or every payload
  must be decoded (tier 3). `AskAllJson` asks, in a statement of its own and of
  the whole namespace, whether tier 2 may run.
* `QueryCandidates`, `QueryPushdown`, `PushdownFails`, `ExecuteTier3`: the
  statement of each plan. A payload of another codec that comes between the
  question and the pushdown makes the query fail.
* `LoadWindow`, `EndWindow`, `FinishPage`: the loop of `materialize`, one
  statement for the payloads of a window of at most `Chunk` ids.
* `PassOver`, `SkipUnreadable`, `CountTowardOffset`, `Deliver`: one candidate of
  the window. What is gone is passed over, what does not decode is listed, what
  decodes counts toward the offset and then fills the page.
* `Store`, `DeletePaths`: other engines, between any two steps, also while a
  window that is loaded is looked at. An overwrite keeps its id, so a candidate
  may come back with a later payload.

`QuietPageIsExact` compares every plan with one reference page.
`EntriesWereStored` and `RowsThatStayAreServed` say what is left of it when
others write. `touched` and `served` are for these properties only.

### Watcher

A file has a version, new with each change, and may be gone; an entry is the
version it was stored from. `Raise` is the contract of `notify`: what happens to a path
under a watch is queued, and a watch of a file ends with the file.

* `ListKeys`, `Register`, `RegisterFails`, `RegisterDirs`, `Started`: a watcher
  is made. The keys are listed first and the paths registered one by one, with
  events of the first ones coming already. `Watch`, `WatchDir`, `Unwatch`,
  `UnwatchDir`, `Drop` are its later life, `Receive` the caller's end of the
  channel.
* `TakeEvent` (immediate) takes one event, passes over accesses, and does
  nothing under a poisoned lock; `TakeBatch` (debounced) takes the paths of
  several, each once and of any kind.
* `Look`, `RemoveCached`, `RemoveFails`, `Send`: for each path, `contains`
  (an error is not a no), `remove` or the counter of failures, and `try_send`
  or the counter of drops.
* `Measure`, `CommitSet`, `RemoveEntry`: another engine stores and removes;
  between its measure and its commit the file may change and the event be handled.

`due` holds the entries whose file changed under a watch since they were
stored, `owed` the removals the receiver has not heard of; both are for the
properties only. A set that commits what its file is now ends what was due. One
that commits an older version leaves it as it was: what was due stays due, but an entry
committed after the event of its change was handled is not due, since its
event had nothing to remove. Nor is a path whose registration was refused, or
a change between the listing of the keys and the registration of their watches:
no watch saw it (section 5).

### Maintenance

Paths are numbers in their order. `Start`, `ReadPage` (the first `PageSize`
paths after the cursor), `EmptyPage`, `Judge` (one look at one file, or at the
clock and the second the page holds), `DeletePaths` (by path, in a transaction
of the page), `SweepFails`, `Return`. `Set`, `RemoveRows`, `ChangeFile` and
`Tick` come between any two of them. `must` and `keep` are for the properties:
what has qualified since the sweep began, and what never has. `there` is where
`Path::exists()` is true, which a file that cannot be examined is not. The
clock of the run takes a middle value, so that an entry may be stored twice
within a lifetime; an entry that never qualified and is stored again between
the page of an expired sweep and the look at it is deleted for the age the page
has of it, and `keep` leaves that case out. What did qualify once, when its page
was judged, goes, whatever has become of it by then (section 5).

### PayloadCodec

A type is its kind in the data model of serde and the types in it, a value what
a program of that type serializes, bytes are digits below `Base`. `Encode` and
`Decode` translate serializer and deserializer: the depth each counts, lengths
against the platform and against what was declared, the budget of `Count` for
elements of no bytes, tags, truths, indices, characters and text. A value is
written, or refused, and read; or bytes are found that nobody wrote. Floating
point is its bytes, and the widths of integers are one.

### Pools

A slot has a holder or none and may be poisoned. `CallPool` takes the next
start slot (the counter wraps), `TryLock` tries one slot, `GiveUpScanning` and
`Lock` wait for the first; `CallSync` goes to the one mutex; `CallAsync` is
queued, and `StartTask` gives it one of the runtime's blocking threads, which
it keeps while it waits. `Work` and `Panic` end the use of an engine, `Abandon`
drops the caller's future: what runs goes on, what has not started is dropped
by smol and run by Tokio. `Return` is the result. Each try is a step of its
own, so a call may be told `Poisoned` although a healthy slot was merely busy
when it was tried. What an engine does in a use is one step; calls made from
inside a call are excluded by the documentation.

## 3. The runs

| Configuration | Shows | Bounds |
|---|---|---|
| `CacheStore.cfg` | held ids, the bound, own writes kept, eviction order, newest uses; `CacheStore` implements `LruCache`, an open write following it item by item | 2 engines (bound 2 and unbounded), 3 paths, 3 ids, clock {0, 3}, use limit 5, 2 microseconds a second, batches and imports up to 2 |
| `CacheStoreNamespaces.cfg` | namespaces stay apart; the inductive invariant | 4 engines (one read-only, bound 1), 2 namespaces, 2 paths |
| `ImportTies.cfg` | a documented rule that the code breaks (section 5) | 2 paths, 3 ids |
| `KeyRotation.cfg` | own entries readable, a commit seals every entry, a rotation ends; the inductive invariant | 2 engines, 1 namespace, 2 paths, 2 texts, 2 keys or none, pages of one row, one codec known and one not |
| `Freshness.cfg` | fresh hits were seen, stored entries are fresh; the inductive invariant | 2 engines of any two modes, 4 contents (that differ outside the samples, in them, in size), 2 mtimes, 1 change, 2 row ids |
| `SchemaOpen.cfg` | who is open has the current schema, entries and the order of their uses survive, ids are not reused, files stay recognized, the journal mode is kept; the inductive invariant | 2 processes; 24 files: new, of versions 0 to 6 in either journal, out of range, foreign; ids to 6, use limit 9, 2 microseconds and 10 nanoseconds a second |
| `StaleVersion.cfg` | a documented rule that the code breaks (section 5) | 2 contents; versions 0, 1, 2 |
| `Query.cfg` | pages are exact or, under writes, what was stored and without gaps; only what is stored meanwhile makes a query fail | 3 paths, 2 mtimes, 4 payloads, 28 queries over all plans, sorts and pages, windows of 2, 1 write |
| `Watcher.cfg` | outdated entries go or are counted, removals are accounted for | 2 files, 2 changes, both watchers, a channel of 1 |
| `Maintenance.cfg` | a sweep misses nothing, keeps the rest, and ends | 3 paths, pages of 2, lifetime 2 on a clock {0, 1, 2} |
| `PayloadCodec.cfg` | what is written is read back, what is read is what is there, work is bounded | bytes of 4 values, lengths and indices of 1 byte, integers of 2, lengths to 2, depth to 2; inputs to 5 bytes |
| `Pools.cfg` | engines are used alone, slots are all tried, calls return | 3 tasks, 5 calls, 3 slots, 2 threads, a counter that wraps at 4 |

**Why the bounds are enough.** Three paths against a bound of two is the least
that makes an eviction choose; a batch of two paths fills the bound and may
name one path twice; three ids let an entry be removed and stored again while a
read holds its old id. The limit 5 with the clock {0, 3} reaches every case of
the use value (clock ahead, equal, behind) and its exhaustion within the run.
Two microseconds a second make imported seconds collide with uses and with one
another. For a rotation, two paths and pages of one row give a page before, at
and after every failure; two engines are a rotating one and a writer, or two
that rotate in turn. Paths are symmetric in the store; they are ordered in
`KeyRotation`, which uses no symmetry. `MaxId` stops the id counter where
SQLite would stop at 2^63 - 1.

For freshness, the run has the four kinds of contents and one change, under a
set or under a read; more changes, back and forth within one call, are left to
the theorem, whose number of changes is any. Two ids let an entry be removed
and stored again under a read.

For opening, two processes are one that migrates and one that opens, writes or
ends meanwhile; more add no case, since one holds the write lock. The files have
ties within a second and within both seconds, against the order of the ids, a
deleted last entry, a sequence behind the ids, and seconds on either side of each range.

For a query, three entries and windows of two give a full window, a partial one
and an edge between them, with an offset and a limit on either side; the tables
`Init` begins with are all tables, so one write inside the query is enough to
fall before, between and after any of its steps. For a watcher, two files rename
onto one another, and two changes give a change before and one after each step
of the callback and of the other engine; a channel of one is full after one
removal. For the codec, a byte of four values has every class of tag, truth and
character, and lengths, depths and budgets are met at, below and above their
limits within five bytes. For a sweep, three paths and pages of two give a full
page that is not the last and a last one, or two paths that are exactly one
page; a clock of three values gives ages below, at and above the lifetime;
writes are not bounded at all. For a pool, three slots and three calls let all
slots be busy or poisoned when a call comes, and the counter wraps at a number
that the slots do not divide, as 2^64 does not divide by three.

**Deadlock** is checked where it means something: in the store, the rotation and opening
an engine can always start or end something. In the runs of `Freshness` nothing is left
to do once the file is gone for good and its changes are used up, in that of `Pools`
once all calls have returned, and in that of `PayloadCodec` once the value is read.

**Fairness** is weak and only on code that runs once it was called. In
`KeyRotation` it is on the page loop, the commit and the replacement of the
key: the thread inside `rotate_encryption_key` holds the write lock and keeps
running its loop. In `Maintenance` it is on the loop of the sweep. Writers may
store ahead of the cursor for ever; the sweep ends because paths are finite and
the cursor advances. In `Watcher` it is on the system's delivery and on the
callback, which waits for nothing but a busy timeout. In `Pools` it is on each
call: a thread that may go on does. A mutex of the standard library promises no
order among its waiters, and under endless calls one waiter could starve; the
number of calls is therefore bounded, and `CallsReturn` says that each call
returns once no new ones overtake it. Nothing is assumed of writers, of
reopens, of receivers, of callers, or of errors.

## 4. What is proved

For every set of engines, namespaces and paths, every bound, batch, page and
window size, key and clock. In the runs of the store, the rotation, freshness
and opening TLC checks the same inductive invariant on a small instance.

* `CacheStoreProofs`: the value of a use exceeds every value of its namespace.
  `EvictionIsSound`: what `enforce_max_entries` evicts is unprotected and older
  than all it leaves unprotected, and the bound holds after it; the core is
  that the rows before a row of a finite ordered table can be counted, and that
  of the first `n + |protected|` rows at least `n` are unprotected. `IInv` is
  inductive, and from it follow: types and limits, held ids, strict uses, the
  bound, own writes, eviction order, newest uses, namespaces apart. An open
  write makes of its namespace what `LruCache` does (`WritesFollowLru`), and the
  store implements `LruCache` (`StoreImplementsLru`): each action maps to a step
  of it or to a stutter.
* `FreshnessProofs`: `IInv` of `Freshness` is inductive; a fresh hit was seen, up
  to what its mode cannot see; a stored entry is fresh to its mode. For any
  number of engines and of changes.
* `SchemaOpenProofs`, first of the backfill, for every finite table in range: the
  window expression satisfies the recurrence (`BackfillFollowsTheRule`), keeps
  the order of the last uses without ties (`BackfillKeepsTheOrder`), and is row
  by row what the validation expects (`BackfillIsExpected`). A running maximum
  over a finite set exists because the naturals are well-founded. `Expected` is
  a recursive function: the backfilled values satisfy its equation, and two
  functions that do cannot differ, since there would be a least rank at which
  they did.
  Then of opening: `IInv` is inductive; who is open has the current schema; no
  entry is lost; files stay recognized; journal modes are kept; the
  postconditions never refuse what the steps of a migration have done
  (`MigrationsPass`); a migrated file keeps the order of the last uses,
  whatever is written to it afterwards (`MigrationsKeepTheUseOrder`); no id is
  given twice (`IdsAreFresh`). For any number of processes and any files the
  assumption admits.
* `KeyRotationProofs`: `IInv` of `KeyRotation` is inductive; an engine reads
  what it sealed; a committed rotation sealed everything of its
  namespace and nothing of others (the run has one namespace only).
* `QueryProofs`: a finite set of candidates has exactly one sorted sequence
  (`OrderExists`, `OrderIsByRank`: a candidate's place is the number of those
  before it). `IInv` of `Query` is inductive; a quiet page is the reference
  page, whichever plan ran and however the windows fell; a page holds what was
  stored during the query; it hides nothing that stays; a query fails only for a
  payload stored meanwhile. For any table, any set of queries, any windows and
  any writes.
* `MaintenanceProofs`: `IInv` of `Maintenance` is inductive; a finished sweep has
  removed what qualified all along (`NothingIsMissed`), and none has removed what
  never did (`TheRestIsKept`), for any number of paths, any page size and any
  clock. The second holds however often an entry is stored again, with the one
  exception that its `keep` names: an entry stored again while an expired sweep
  has read its row and not yet judged it.
* `WatcherProofs`: `IInv` of `Watcher` is inductive; no more entries are left
  behind than failures were counted, and every removal is accounted for, for any
  paths, changes, events in flight and channel.
* `PoolsProofs`: `IInv` of `Pools` is inductive; an engine serves one call at a
  time and none after a panic; a pool waits or fails only after it has found
  each slot taken, and `Poisoned` is true of the slot it reports. For any
  number of slots, calls and threads, and wherever the counter wraps.

**The inductive invariants.** The safety properties of the store are not
inductive alone: they speak of a commit, while the mistakes happen in the
statements before it. `IInv` of `CacheStore` adds what the open transaction has
done so far. `TableOK` (ids below the counter, ids and paths unique, uses
strict) holds of the committed and of the working table. `WorkingOK` says the
working rows are the committed ones under the same ids, or have ids above every
committed one, which is what keeps held ids true across a commit. `OthersOK`
keeps other namespaces equal, `WrittenOK` ties the written ids to the items
done, `WriteOK` and `CommitOK` say what differs before and after the eviction.

The refinement needs more of the open write, and only at its commit:
`WriteFollowsLru`. The paths of its rows are the committed ones and the items
done, less what it evicted (`WorkHasTheItems`), its other rows are as committed,
and of what it stored the later is the newer (`LaterIsNewer`), since the value
of each use exceeds its whole namespace. What it evicted is what `LruCache`
drops, although the code counts and ranks rows and `LruCache` counts and ranks
paths: no path is twice in a namespace, and before an unprotected row there are
as many unprotected rows as paths (`DroppedRows`). From there each action is one
lemma (`UseIsUse`, `DeleteIsDelete`, `CommitIsWrite`).

`IInv` of `KeyRotation` ties each entry an engine sealed to that engine's key
(`OwnSealed`), says that one rotation holds the lock (`OneRotation`), and that
its work is sealed under the new key up to the cursor and as in the database
after it (`WorkOK`): that agreement fails at once if a writer could commit
meanwhile.

`IInv` of `Freshness` says what each step of a call has established: a clean set
agrees with the file it has measured so far, and one that is kept agrees with
the file until it commits (`StoreOK`), so what is recorded of a clean row is what
its contents give (`RecordedOK`); a checked read holds the evidence of the checks
it has passed, and any kept row that has replaced the one it found was derived
from contents seen during the call (`ReadOK`). The last part is why the payload
may be loaded after the checks.

`IInv` of `SchemaOpen` has two halves. `FileInv` adds to the properties of the file
that who migrates is alone and works on what is committed (`LockOK`), that only
an empty file is created (`CreatedOK`), and that the steps keep a known shape
and the journal mode (`FieldsOK`). That half rests on the write lock and the
postconditions and needs nothing of what the steps do to the rows. The other
half is about the rows: a migration has those of the file at the shape it has
reached (`MigrationsAreOnTheirWay`), until it commits the file is what it was,
and from then on the migrated rows stay and no uses tie (`MigratedRowsStay`).
Each step of a migration is the difference between two values of `RowsAt`, and
the backfill theorems say what the last one is worth.

`IInv` of `Query` says how far a query has come. Its candidates are sorted, name no
path twice, and are, of what nobody has written since they were listed, just
the rows it asks for (`OrderIsSorted`, `OrderStays`, `OrderIsComplete`). The
window holds what was stored, and all of it that stays (`WindowIsLoaded`). Of
the candidates looked at, each is in the page, unreadable, counted toward the
offset or gone: those left out come before those returned, and are no more than
what the offset has counted (`PageSoFar`). If nobody wrote, the decodable ones
among them are exactly the offset counted and the page so far, in order
(`QuietPageSoFar`); at the end this is the reference page, by position.

`IInv` of `Pools` says that a lock is held by the one call that works under it
(`HoldersWork`), and that a scan that has tried `n` slots has found the `n` after
its start taken (`ScansPassTakenSlots`); modulo the number of slots these are
all of them in the end.

`IInv` of `Maintenance` places an entry that must go: ahead of the cursor, in
the page and not judged yet, or chosen (`AheadOK`); a last page has nothing
ahead of it, because fewer rows than a page holds were all there were.
`ChosenOK` says that what is to be kept is not chosen, and that until it is judged
the page has the age of what must go and of what must stay.

`IInv` of `Watcher` needs two facts beside its properties: without a watcher
nothing is watched or due (`QuietOK`), so the counters of a new watcher begin at
zero rightly, and only a cached path is due (`DueOK`), so a path that `contains`
denies may be passed over. One failed removal leaves at most one entry behind;
every other step leaves none.

**Assumptions** are the named `ASSUME`s: `max_entries` is positive or absent
(`check_configuration` refuses 0), the clock returns naturals (`now_us` clamps
at 0), ids and use values have a limit, sentinels are not members of the sets
they stand outside of, paths of a rotation are finitely many and ordered, times
of a query are integers. A database file has finitely many rows, one per id
(`INTEGER PRIMARY KEY`), and none without a table (`IsDatabase`); the table of a
backfill is in the ranges that the migration checks before it.

**Only model-checked:** the liveness of the rotation, of `Maintenance`,
`Watcher` and `Pools`, which is outside the prover's reach, and the three
properties of `PayloadCodec`, which is recursive. The two properties that the
code breaks (section 5) are refuted by their runs. Every other property of a run
is a theorem, and so is that use values never tie (`UsesAreStrict`), which is part
of the `IInv` that `CacheStoreNamespaces.cfg` checks. The inductive invariants of
`Query`, `Watcher`, `Maintenance` and `Pools` are no properties of a run; what
follows from them is.

## 5. Where the documents and the code differ

* `ImportTies.cfg`: "Entries that share a second are ordered by the order of
  the records" (`cache/engine/portable.rs`). An import over an existing entry
  keeps its old id, and ties are broken by id, so the order of the records is
  lost for entries that existed.
* `StaleVersion.cfg`: "entries written with a different version are treated as
  stale" (`docs/src/builder.md`). The version is checked on the row, and the
  payload loaded later may be of another version: two versions of a program
  that share a namespace during an upgrade can meet this.

Other differences met while modelling, without a run of their own:

* "A tag this build cannot decode is `UnknownEncoding` whatever the key"
  (`localcache-format/src/lib.rs:278`). Without a key the sealing is looked at
  first (`Decode`), and a sealed payload of an unknown codec is
  `MissingEncryptionKey`.
* "File metadata recorded at the time the entry was stored"
  (`cache/entry.rs:14`, beside the payload). The row and the payload are read by
  two statements (`Find`, `LoadPayload`); a set between them pairs the metadata of
  one write with the payload of the next. For a freshness check this is
  harmless, as `FreshHitsWereSeen` shows.
* "false negatives (stale cache served as fresh) require an adversarial actor or
  a filesystem that lies about `mtime`" (`docs/src/change_detection.md:14`). `set`
  measures the file when the payload was computed long before (`Derive`,
  `Measure`): a change in between, with an mtime of its own, leaves a payload of
  old contents that is fresh to every call.
* "`run()` fails exactly when `skipped` is not empty" (`docs/src/querying.md:155`). A
  payload of another codec that is stored between the question whether all are
  JSON and the pushdown makes SQL, and the query, fail (`PushdownFails`), although
  every entry decodes. Only such a payload does
  (`OnlyNewPayloadsFailQueries`).
* "When a watched file is modified, renamed, or deleted, the corresponding cache
  entry is removed from the database" (`cache/watcher.rs:4`). A set that measured its
  file before a change and commits after the event was handled (`Measure`,
  `Look`, `CommitSet`) leaves an outdated entry that nothing will remove.
* "Neither failure mode stops the cache from staying correct"
  (`docs/src/watching.md:168`). A path whose registration failed (`RegisterFails`)
  raises no event; its entry is stale to `get_if_fresh`, but `get` serves it.
* "Remove entries whose stored paths no longer exist on disk"
  (`cache/engine/maintenance.rs:54`). The sweep deletes by path, in a transaction
  after its looks (`Judge`, `DeletePaths`): a file created, and an entry stored of
  it, in between lose the entry. In a sweep for expired entries, one that was
  stored again after its page was read is deleted likewise.
* "an engine never stores what it would refuse to read"
  (`payload_codec/encoder.rs:12`, of the depth). It holds of the depth; a value
  with an untagged enum in it is written without an error, and every read of it
  is refused (`Decode`).
* "a **new** database gets WAL" (`docs/src/builder.md`): the journal mode is set
  after the commit that creates the schema; if the process ends or the pragma
  fails in between, later opens find an existing database and leave it in the
  rollback journal.
* A query lists what it could not decode up to the end of its page; a pushdown
  lists only what it met while it filled the page, and what its condition
  excluded in SQL is never met. `QuietPageIsExact` asks for the list of queries
  that look at no field only.

## 6. Not modelled

* SQL text and its planner, the bytes of JSON, zstd and AES-GCM, and the hash
  function: their contracts are modelled.
* The recognition of a schema token by token: its verdicts are modelled.
* `notify` and its debouncer beyond what they deliver. Events of other kinds, a
  request to rescan after an overflow among them, are dropped by
  `classify_event`; the changes behind them are outside `Watcher`'s promise.
* The loop of `preload` over scanned files, scans and statuses: each file is
  one `set`, which `Freshness` has.
* Exports and their JSON, glob matching, options, builders, indexes, reports
  and statistics: sequential code without shared state, checked by its tests.
* The command line. Its check before an import is listed as a hazard.
* Opening the engines of a pool; calls made from inside a call of a pool, a
  deadlock its documentation excludes.
