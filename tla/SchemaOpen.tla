----------------------------- MODULE SchemaOpen -----------------------------
(***************************************************************************)
(* Opening a database file (db/store.rs, db/schema.rs): processes that     *)
(* open one file, writable or read-only, classify its schema, create it or *)
(* migrate it to version 6 in one IMMEDIATE transaction, configure it, and *)
(* write.  A process may end at any step.                                  *)
(*                                                                         *)
(* A database is its user_version, the shape of its schema, its rows, the  *)
(* sequence of AUTOINCREMENT and its journal mode.  A shape is a number: 0 *)
(* has no objects, 1 to 6 are the shapes of the versions, Foreign is any   *)
(* other.  Columns that a shape does not have yet hold their defaults, and *)
(* `mtime` is in seconds up to shape 4, in nanoseconds from shape 5 on.    *)
(***************************************************************************)
EXTENDS Backfill

CONSTANTS Process,
          Databases,       \* what the file may be at first
          Requests,        \* the journal modes a writable open may ask for
          Namespace, Content,
          NanosPerSecond,  \* 10^9
          MtimeBound,      \* the largest second that fits 64 bits in nanoseconds
          MaxId            \* bounds the ids that writes take

Current == 6
Foreign == 7

NoContent == "none"

Row == [id : 1..MaxId, ns : Namespace, mtime : Int, updated : Int, accessed : Int,
        use : Int, content : Content \cup {NoContent}]

(* Ids are primary keys, and a file without objects has no rows.           *)
IsDatabase(d) ==
  /\ d \in [version : Int, shape : 0..Foreign, rows : SUBSET Row, sequence : 0..MaxId,
            journal : {"delete", "wal"}]
  /\ IsFiniteSet(d.rows)
  /\ \A q, r \in d.rows : q.id = r.id => q = r
  /\ d.shape = 0 => d.rows = {}

ASSUME SchemaAssumption ==
  /\ NanosPerSecond \in Nat \ {0} /\ MtimeBound \in Nat /\ MaxId \in Nat
  /\ Requests \subseteq {"preserve", "wal", "delete"}
  /\ \A d \in Databases : IsDatabase(d)

VARIABLES db,       \* the committed database
          proc,     \* where each process is
          origin,   \* what the file was at first
          written   \* the ids that open engines have stored

vars == <<db, proc, origin, written>>

Closed == [step |-> "closed"]

-----------------------------------------------------------------------------
(* The sequence and the largest id, whichever is larger (validate_sequence *)
(* returns it, and an insert takes the next).                              *)
HighWater(d) == Max({d.sequence} \cup {r.id : r \in d.rows})

(* classify: a database without objects is fresh, version 0 with objects   *)
(* can only be version 1, and the shape must be the one of its version.    *)
Classify(d) ==
  CASE d.version = 0 /\ d.shape = 0 -> 0
    [] d.version \in {0, 1} /\ d.shape = 1 -> 1
    [] d.version \in 2..Current /\ d.shape = d.version -> d.shape
    [] OTHER -> Foreign

(* One row of a snapshot of start_rows, with the mtime in nanoseconds.     *)
Logical(d) ==
  {[id |-> r.id, ns |-> r.ns, updated |-> r.updated, content |-> r.content,
    nanos |-> IF d.shape <= 4 THEN r.mtime * NanosPerSecond ELSE r.mtime] : r \in d.rows}

(* d with another shape, other rows and another sequence.                  *)
Changed(d, shape, rows, sequence) ==
  [version |-> d.version, shape |-> shape, rows |-> rows, sequence |-> sequence,
   journal |-> d.journal]

(* create_fresh                                                            *)
CreateFresh(d) == [d EXCEPT !.shape = Current]

(* Mutant: the sequence of the shadow table, which knows only live rows.   *)
V1ToV2Unsequenced(d) ==
  Changed(d, 2, d.rows, Max({0} \cup {r.id : r \in d.rows}))

(* migrate_v1_to_v2 copies both tables and restores the sequence.          *)
V1ToV2(d) == Changed(d, 2, d.rows, HighWater(d))

(* migrate_v4_to_v5: the file times, in nanoseconds.                       *)
InNanos(rows) == {[r EXCEPT !.mtime = @ * NanosPerSecond] : r \in rows}

(* Mutant: the file times stay in seconds.                                 *)
V4ToV5InSeconds(d) == Changed(d, 5, d.rows, d.sequence)

V4ToV5(d) == Changed(d, 5, InNanos(d.rows), d.sequence)

(* migrate_v5_to_v6: the use order replaces the seconds of the last read.  *)
WithUse(r, use) ==
  [id |-> r.id, ns |-> r.ns, mtime |-> r.mtime, updated |-> r.updated, accessed |-> 0,
   use |-> use, content |-> r.content]

InUseOrder(rows) == {WithUse(r, Backfilled(rows, r)) : r \in rows}

V5ToV6(d) == Changed(d, 6, InUseOrder(d.rows), d.sequence)

(* What a step refuses before it changes anything.                         *)
StepAccepts(d) ==
  /\ d.shape = 4 => \A r \in d.rows : r.mtime \in (-MtimeBound)..MtimeBound
  /\ d.shape = 5 => InRange(d.rows) /\ FitsUseOrder(d.rows)

(* The next step of initialize; versions 2 and 3 gain columns only.        *)
StepOf(d) ==
  CASE d.shape = 0 -> CreateFresh(d)
    [] d.shape = 1 -> V1ToV2(d)
    [] d.shape \in {2, 3} -> [d EXCEPT !.shape = @ + 1]
    [] d.shape = 4 -> V4ToV5(d)
    [] d.shape = 5 -> V5ToV6(d)

(* validate_and_remove and validate_final_postconditions: the rows are     *)
(* those of the start, and the use order follows the rule.                 *)
PostconditionsHold(start, d) ==
  /\ Logical(d) = Logical(start)
  /\ start.shape # 0 =>
       \A s \in start.rows : \E r \in d.rows :
          r.id = s.id /\ r.use = Expected(start.rows, s) /\ r.use \in 0..(UseLimit - 1)
  /\ Classify(d) = Current

-----------------------------------------------------------------------------
Init ==
  /\ db \in Databases
  /\ proc = [p \in Process |-> Closed]
  /\ origin = db
  /\ written = {}

Become(p, state) == proc' = [proc EXCEPT ![p] = state]

Configuring(request, created) ==
  [step |-> "configuring", request |-> request, created |-> created]

Migrating(seen, request, start, work) ==
  [step |-> "migrating", seen |-> seen, request |-> request, start |-> start, work |-> work]

Working(p, work) == Become(p, Migrating(proc[p].seen, proc[p].request, proc[p].start, work))

(* Mutant: a deferred transaction.                                         *)
NoWriteLock == TRUE

(* BEGIN IMMEDIATE succeeds.                                               *)
WriteLockFree == \A p \in Process : proc[p].step # "migrating"

(* initialize reads user_version first, outside any transaction.           *)
ReadVersion(p, request) ==
  /\ proc[p] = Closed
  /\ Become(p, [step |-> "read", seen |-> db.version, request |-> request])
  /\ UNCHANGED <<db, origin, written>>

(* Mutant: a database of version 6 is taken at its word.                   *)
TrustCurrent(p) ==
  /\ proc[p].step = "read"
  /\ proc[p].seen = Current
  /\ Become(p, Configuring(proc[p].request, FALSE))
  /\ UNCHANGED <<db, origin, written>>

(* Version 6: its schema is validated in a read transaction.               *)
ValidateCurrent(p) ==
  /\ proc[p].step = "read"
  /\ proc[p].seen = Current
  /\ Classify(db) = Current
  /\ Become(p, Configuring(proc[p].request, FALSE))
  /\ UNCHANGED <<db, origin, written>>

(* Versions 0 to 5: the version and the schema are read again under the    *)
(* write lock.  Another process may have migrated meanwhile.               *)
BeginMigration(p) ==
  /\ proc[p].step = "read"
  /\ proc[p].seen \in 0..(Current - 1)
  /\ WriteLockFree
  /\ \/ /\ Classify(db) = Current
        /\ Become(p, Configuring(proc[p].request, FALSE))
     \/ /\ Classify(db) \in 0..(Current - 1)
        /\ Become(p, Migrating(proc[p].seen, proc[p].request, db, db))
  /\ UNCHANGED <<db, origin, written>>

MigrateStep(p) ==
  /\ proc[p].step = "migrating"
  /\ proc[p].work.shape < Current
  /\ StepAccepts(proc[p].work)
  /\ Working(p, StepOf(proc[p].work))
  /\ UNCHANGED <<db, origin, written>>

WriteVersion(p) ==
  /\ proc[p].step = "migrating"
  /\ proc[p].work.shape = Current
  /\ proc[p].work.version # Current
  /\ Working(p, [proc[p].work EXCEPT !.version = Current])
  /\ UNCHANGED <<db, origin, written>>

(* Mutant: created is decided by the version that was read first.          *)
CommitCreatedIfZero(p) ==
  /\ proc[p].step = "migrating"
  /\ proc[p].work.version = Current
  /\ PostconditionsHold(proc[p].start, proc[p].work)
  /\ db' = proc[p].work
  /\ Become(p, Configuring(proc[p].request, proc[p].seen = 0))
  /\ UNCHANGED <<origin, written>>

CommitMigration(p) ==
  /\ proc[p].step = "migrating"
  /\ proc[p].work.version = Current
  /\ PostconditionsHold(proc[p].start, proc[p].work)
  /\ db' = proc[p].work
  /\ Become(p, Configuring(proc[p].request, proc[p].start.shape = 0))
  /\ UNCHANGED <<origin, written>>

(* journal_to_apply: preserve gives WAL to a database this open created.   *)
JournalToApply(request, created) ==
  CASE request # "preserve" -> request
    [] request = "preserve" /\ created -> "wal"
    [] request = "preserve" /\ ~created -> db.journal

(* The pragma leaves WAL only for the one connection of a database.        *)
Configure(p) ==
  LET journal == JournalToApply(proc[p].request, proc[p].created)
  IN  /\ proc[p].step = "configuring"
      /\ db.journal = "wal" /\ journal # "wal" => \A q \in Process \ {p} : proc[q] = Closed
      /\ db' = [db EXCEPT !.journal = journal]
      /\ Become(p, [step |-> "open"])
      /\ UNCHANGED <<origin, written>>

(* A read-only open classifies in one read transaction.                    *)
OpenReadOnly(p) ==
  /\ proc[p] = Closed
  /\ Classify(db) = Current
  /\ Become(p, [step |-> "reading"])
  /\ UNCHANGED <<db, origin, written>>

(* A set of an open engine inserts a row and makes it the newest.          *)
Write(p, ns, content) ==
  LET id  == HighWater(db) + 1
      use == Max({0} \cup {r.use + 1 : r \in {q \in db.rows : q.ns = ns}})
      row == [id |-> id, ns |-> ns, mtime |-> 0, updated |-> 0, accessed |-> 0, use |-> use,
              content |-> content]
  IN  /\ proc[p].step = "open"
      /\ WriteLockFree
      /\ id <= MaxId /\ use < UseLimit
      /\ db' = Changed(db, db.shape, db.rows \cup {row}, id)
      /\ written' = written \cup {id}
      /\ UNCHANGED <<proc, origin>>

(* Mutant: each step of a migration is a transaction of its own.           *)
EndKeepingWork(p) ==
  /\ proc[p] # Closed
  /\ db' = IF proc[p].step = "migrating" THEN proc[p].work ELSE db
  /\ Become(p, Closed)
  /\ UNCHANGED <<origin, written>>

(* A refusal, a busy database, a failed pragma, a close, or the end of the *)
(* process: an open transaction is rolled back.                            *)
End(p) ==
  /\ proc[p] # Closed
  /\ Become(p, Closed)
  /\ UNCHANGED <<db, origin, written>>

Next ==
  \E p \in Process :
    \/ \E request \in Requests : ReadVersion(p, request)
    \/ ValidateCurrent(p) \/ BeginMigration(p)
    \/ MigrateStep(p) \/ WriteVersion(p) \/ CommitMigration(p) \/ Configure(p)
    \/ OpenReadOnly(p)
    \/ \E ns \in Namespace, content \in Content : Write(p, ns, content)
    \/ End(p)

Spec == Init /\ [][Next]_vars

-----------------------------------------------------------------------------
(* The types; ids are unique, and one process migrates at a time.          *)
TypeOK ==
  /\ IsDatabase(db) /\ IsDatabase(origin)
  /\ written \subseteq 1..MaxId
  /\ \A p \in Process :
       /\ proc[p].step \in {"closed", "read", "migrating", "configuring", "open", "reading"}
       /\ proc[p].step = "migrating" => IsDatabase(proc[p].work) /\ IsDatabase(proc[p].start)
  /\ \A p, q \in Process :
       proc[p].step = "migrating" /\ proc[q].step = "migrating" => p = q

(* An open engine has the current schema under it, whoever migrated and    *)
(* whatever user_version says (initialize, validate_read_only).            *)
OpenMeansCurrent ==
  \A p \in Process :
    proc[p].step \in {"configuring", "open", "reading"} => Classify(db) = Current

(* Through creation, migration, crashes and the writes of engines that     *)
(* were opened first, the file keeps every entry it had, with its payload  *)
(* and its mtime, and every entry stored since (initialize_with_hook).     *)
EntriesSurvive ==
  /\ Logical(origin) \subseteq Logical(db)
  /\ {r.id : r \in db.rows} = {r.id : r \in origin.rows} \cup written

(* A migration keeps the order of the last uses: by second, then by the    *)
(* second of the write, then by id; and no two uses of a namespace tie     *)
(* (migrate_v5_to_v6).                                                     *)
UseOrderKept ==
  LET use(id) == (CHOOSE r \in db.rows : r.id = id).use
      last(r) == IF r.accessed > 0 THEN r.accessed ELSE r.updated
  IN  (origin.shape \in 1..5 /\ Classify(db) = Current) =>
        /\ \A q, r \in origin.rows :
             /\ q.ns = r.ns
             /\ \/ last(q) < last(r)
                \/ last(q) = last(r) /\ q.updated < r.updated
                \/ last(q) = last(r) /\ q.updated = r.updated /\ q.id < r.id
             => use(q.id) < use(r.id)
        /\ \A r \in db.rows : \A q \in db.rows :
             q.ns = r.ns /\ q # r => q.use # r.use

(* The postconditions never refuse what the steps have done: a database    *)
(* that is in range is migrated (StartingSnapshot).                        *)
MigrationsPassTheirChecks ==
  \A p \in Process :
    (proc[p].step = "migrating" /\ proc[p].work.version = Current)
      => PostconditionsHold(proc[p].start, proc[p].work)

(* An id the file has ever had is not given to another entry, deleted      *)
(* entries of an old file included (migrate_v1_to_v2).                     *)
IdsAreNotReused ==
  [][\A i \in written' \ written : i > origin.sequence /\ i > HighWater(db)]_vars

(* What was recognized stays so, at every moment a process may end; what   *)
(* was not is never modified (classify, "database was not modified").      *)
StaysRecognized ==
  IF Classify(origin) = Foreign THEN db = origin ELSE Classify(db) # Foreign

(* Opens that ask for nothing leave the journal mode of an existing        *)
(* database alone, whatever they migrate (journal_to_apply).               *)
JournalIsPreserved ==
  origin.shape # 0 => db.journal \in {origin.journal} \cup (Requests \ {"preserve"})

(* What the steps of the migrations keep: a database is a database, the    *)
(* shapes of a migration are known ones.                                   *)
FieldsOK ==
  /\ proc \in [Process -> {proc[p] : p \in Process}]
  /\ DOMAIN db = {"version", "shape", "rows", "sequence", "journal"}
  /\ \A p \in Process :
       proc[p].step \in {"read", "migrating", "configuring"} => proc[p].request \in Requests
  /\ \A p \in Process :
       proc[p].step = "migrating" =>
         /\ DOMAIN proc[p].work = {"version", "shape", "rows", "sequence", "journal"}
         /\ proc[p].work.shape \in 0..Current

(* Who holds the write lock is alone, and works on what is committed.      *)
LockOK ==
  \A p \in Process :
    proc[p].step = "migrating" =>
      /\ proc[p].start = db /\ proc[p].work.journal = db.journal
      /\ Classify(db) \in 0..(Current - 1)
      /\ \A q \in Process : proc[q].step = "migrating" => p = q

(* Only a file that was empty is created.                                  *)
CreatedOK ==
  /\ db.shape = 0 => origin.shape = 0
  /\ \A p \in Process :
       proc[p].step = "configuring" => (proc[p].created => origin.shape = 0)

(* What they leave of the properties of the file between any two steps.    *)
FileInv ==
  /\ FieldsOK /\ LockOK /\ CreatedOK
  /\ OpenMeansCurrent /\ EntriesSurvive /\ StaysRecognized /\ JournalIsPreserved

(* The rows of d when a migration has brought it to a shape.               *)
RowsAt(d, shape) ==
  LET seconds == d.shape <= 4
      nanos   == IF seconds THEN InNanos(d.rows) ELSE d.rows
  IN  CASE shape <= 4 -> d.rows
        [] shape = 5  -> nanos
        [] OTHER      -> InUseOrder(nanos)

(* What version 6 accepts of it.                                           *)
Backfillable(d) == InRange(RowsAt(d, 5)) /\ FitsUseOrder(RowsAt(d, 5))

(* A migration has the rows that the file it found has at the shape it has *)
(* reached.                                                                *)
OnItsWay(work) ==
  /\ work.shape >= origin.shape
  /\ work.rows = RowsAt(origin, work.shape)
  /\ work.sequence >= origin.sequence
  /\ work.version # origin.version => work.version = Current /\ work.shape = Current
  /\ work.shape = Current => Backfillable(origin)

(* Until a migration commits, the file is what it was.                     *)
MigrationsAreOnTheirWay ==
  /\ Classify(db) # Current => db = origin
  /\ \A p \in Process : proc[p].step = "migrating" => OnItsWay(proc[p].work)

(* Once migrated, the rows it had keep their places in the use order.      *)
MigratedRowsStay ==
  /\ db.sequence >= origin.sequence
  /\ (origin.shape \in 1..5 /\ Classify(db) = Current) =>
       /\ Backfillable(origin)
       /\ RowsAt(origin, Current) \subseteq db.rows
       /\ \A q, r \in db.rows : q.ns = r.ns /\ q # r => q.use # r.use

(* The inductive invariant.                                                *)
IInv == FileInv /\ TypeOK /\ MigrationsAreOnTheirWay /\ MigratedRowsStay
=============================================================================
