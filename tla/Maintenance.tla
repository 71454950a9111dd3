---------------------------- MODULE Maintenance ----------------------------
(***************************************************************************)
(* The sweeps of one engine, cleanup_missing_files and cleanup_expired,    *)
(* among files that come and go or cannot be examined for a while, a clock *)
(* that moves both ways, and other engines that store and remove without   *)
(* end.  A sweep reads a page of paths after its cursor, judges them one   *)
(* by one and deletes those that qualify by path, in one transaction a     *)
(* page.                                                                   *)
(*                                                                         *)
(* Paths are numbers in the order of ORDER BY path; the empty cursor is 0. *)
(***************************************************************************)
EXTENDS Integers, FiniteSets

CONSTANTS N,          \* the paths are 1..N
          PageSize,   \* MAINTENANCE_CHUNK
          Ttl, Clock, \* seconds
          NoRow

Path == 1..N

ASSUME MaintenanceAssumption ==
  /\ N \in Nat
  /\ PageSize \in Nat \ {0}
  /\ Ttl \in Nat \ {0}
  /\ Clock \subseteq Nat
  /\ NoRow \notin Nat

VARIABLES rows,    \* by path: the second it was stored, or NoRow
          there,   \* the paths at which exists() is true: a file is
                   \* there, and it can be examined
          now,
          kind,    \* of the sweep: "missing" or "expired"
          step,    \* "idle", "paging", "judging", "done"
          cursor,
          page,    \* by path: the second read with a page not yet judged
          unjudged, chosen,
          lastPage,
          must,    \* for the properties: stored and qualified ever since
          keep     \* for the properties: stored, never qualified since, and
                   \* not under the eyes of an expired sweep when stored again

world == <<rows, there, now>>
sweep == <<kind, step, cursor, page, unjudged, chosen, lastPage>>
vars == <<world, sweep, must, keep>>

Stored == {p \in Path : rows[p] # NoRow}

TypeOK ==
  /\ rows \in [Path -> Clock \cup {NoRow}]
  /\ there \subseteq Path
  /\ now \in Clock
  /\ kind \in {"missing", "expired"}
  /\ step \in {"idle", "paging", "judging", "done"}
  /\ cursor \in 0..N
  /\ page \in [Path -> Clock \cup {NoRow}]
  /\ unjudged \subseteq Path /\ chosen \subseteq Path
  /\ lastPage \in BOOLEAN
  /\ must \subseteq Path /\ keep \subseteq Path

Init ==
  /\ rows \in [Path -> Clock \cup {NoRow}]
  /\ there \in SUBSET Path
  /\ now \in Clock
  /\ kind = "missing" /\ step = "idle" /\ cursor = 0
  /\ page = [p \in Path |-> NoRow]
  /\ unjudged = {} /\ chosen = {} /\ lastPage = FALSE
  /\ must = {} /\ keep = {}

(* The age of an entry of the future is 0 (ttl_remaining).                 *)
IsExpired(stored) == now - stored >= Ttl

(* What removes an entry, judged of the row that is stored.                *)
Qualifies(p) == IF kind = "missing" THEN p \notin there ELSE IsExpired(rows[p])

-----------------------------------------------------------------------------
(* A sweep.                                                                *)
Start(k) ==
  /\ step = "idle"
  /\ kind' = k
  /\ step' = "paging"
  /\ cursor' = 0 /\ chosen' = {}
  /\ UNCHANGED <<world, page, unjudged, lastPage>>
  /\ must' = {p \in Stored : Qualifies(p)'}
  /\ keep' = {p \in Stored : ~Qualifies(p)'}

After == {p \in Stored : p > cursor}

(* The first PageSize paths after the cursor: the cursor moves to the last *)
(* of them, whatever is chosen.                                            *)
IsPage(S) ==
  /\ S \subseteq After
  /\ \A p \in S, q \in After : q < p => q \in S
  /\ Cardinality(S) <= PageSize
  /\ Cardinality(S) = PageSize \/ S = After

(* Mutant: a full page is taken for the last one.                          *)
IsLastOrFull(S) == Cardinality(S) <= PageSize

IsLast(S) == Cardinality(S) < PageSize

ReadPage ==
  /\ step = "paging"
  /\ \E S \in SUBSET Stored : \E last \in S :
       /\ IsPage(S) /\ \A p \in S : p <= last
       /\ page' = [p \in Path |-> IF p \in S /\ kind = "expired" THEN rows[p] ELSE NoRow]
       /\ cursor' = last
       /\ unjudged' = S
       /\ lastPage' = IsLast(S)
  /\ chosen' = {}
  /\ step' = "judging"
  /\ UNCHANGED <<world, kind, must, keep>>

EmptyPage ==
  /\ step = "paging" /\ After = {}
  /\ step' = "done"
  /\ UNCHANGED <<world, kind, cursor, page, unjudged, chosen, lastPage, must, keep>>

(* One look at a file, which finds none also when it cannot be examined,   *)
(* or at the clock and the second that was read.                           *)
Judge(p) ==
  /\ step = "judging" /\ p \in unjudged
  /\ unjudged' = unjudged \ {p}
  /\ chosen' = IF (IF kind = "missing" THEN p \notin there ELSE IsExpired(page[p]))
               THEN chosen \cup {p} ELSE chosen
  /\ page' = [page EXCEPT ![p] = NoRow]
  /\ UNCHANGED <<world, kind, step, cursor, lastPage, must, keep>>

(* The next round of the loop, or its end.                                 *)
NextRound ==
  /\ step' = IF lastPage THEN "done" ELSE "paging"
  /\ chosen' = {} /\ lastPage' = FALSE
  /\ UNCHANGED <<there, now, kind, page, unjudged, must, keep>>

(* Mutant: with something to delete, all up to the cursor is deleted.      *)
DeleteToCursor ==
  /\ step = "judging" /\ unjudged = {}
  /\ rows' = IF chosen = {} THEN rows
             ELSE [p \in Path |-> IF p <= cursor THEN NoRow ELSE rows[p]]
  /\ UNCHANGED cursor
  /\ NextRound

(* Mutant: the cursor is taken from what survived.                         *)
DeletePathsAndStay ==
  /\ step = "judging" /\ unjudged = {}
  /\ rows' = [p \in Path |-> IF p \in chosen THEN NoRow ELSE rows[p]]
  /\ cursor' = IF chosen = {} THEN 0 ELSE cursor
  /\ NextRound

(* By path, whatever row has it by now.                                    *)
DeletePaths ==
  /\ step = "judging" /\ unjudged = {}
  /\ rows' = [p \in Path |-> IF p \in chosen THEN NoRow ELSE rows[p]]
  /\ UNCHANGED cursor
  /\ NextRound

(* Any statement fails: the pages before it stay deleted.                  *)
SweepFails ==
  /\ step \in {"paging", "judging"}
  /\ step' = "idle" /\ must' = {} /\ keep' = {}
  /\ cursor' = 0 /\ page' = [p \in Path |-> NoRow]
  /\ unjudged' = {} /\ chosen' = {} /\ lastPage' = FALSE
  /\ UNCHANGED <<world, kind>>

Return ==
  /\ step = "done"
  /\ step' = "idle" /\ must' = {} /\ keep' = {} /\ cursor' = 0
  /\ UNCHANGED <<world, kind, page, unjudged, chosen, lastPage>>

-----------------------------------------------------------------------------
(* The others.  An entry that must go need not when it is stored again.    *)
(* One to keep is still to be kept, except that an expired sweep which has *)
(* read its row and not yet judged it goes by the age it has read.         *)
Watched ==
  /\ UNCHANGED sweep
  /\ must' = {p \in must \cap Stored : rows'[p] = rows[p] /\ Qualifies(p)'}
  /\ keep' = {p \in keep :
                /\ rows'[p] # NoRow /\ ~Qualifies(p)'
                /\ kind = "missing" \/ p \notin unjudged \/ rows'[p] = rows[p]}

Set(p) ==
  /\ p \in there
  /\ rows' = [rows EXCEPT ![p] = now]
  /\ UNCHANGED <<there, now>>
  /\ Watched

(* remove, an eviction, and rows of other versions (purge_stale_versions). *)
RemoveRows(S) ==
  /\ S # {}
  /\ rows' = [p \in Path |-> IF p \in S THEN NoRow ELSE rows[p]]
  /\ UNCHANGED <<there, now>>
  /\ Watched

(* A file is created, or can be examined again, or is removed or can no    *)
(* longer be examined (a directory above it loses its permissions).        *)
ChangeFile(p) ==
  /\ there' = IF p \in there THEN there \ {p} ELSE there \cup {p}
  /\ UNCHANGED <<rows, now>>
  /\ Watched

Tick(t) ==
  /\ now' = t
  /\ UNCHANGED <<rows, there>>
  /\ Watched

Judging == \E p \in Path : Judge(p)

Sweep == ReadPage \/ EmptyPage \/ Judging \/ DeletePaths \/ Return

Next ==
  \/ \E k \in {"missing", "expired"} : Start(k)
  \/ Sweep
  \/ SweepFails
  \/ \E p \in Path : Set(p) \/ ChangeFile(p)
  \/ \E S \in SUBSET Stored : RemoveRows(S)
  \/ \E t \in Clock : Tick(t)

(* The thread in the loop goes on; nobody else need do anything.           *)
Spec == Init /\ [][Next]_vars /\ WF_vars(Sweep)

-----------------------------------------------------------------------------
(* A sweep that returns has removed every entry that qualified all along,  *)
(* however rows came and went around the cursor and the page edges.        *)
SweepMissesNothing == step = "done" => must \cap Stored = {}

(* It has removed no entry that never qualified.  In a sweep for missing   *)
(* files that is so however often the entry was stored again meanwhile; in *)
(* one for expired entries it may be stored again at any time but between  *)
(* the read of its page and the look at it, when its old age decides       *)
(* (maintenance.rs, the filter of cleanup_expired_paged).                  *)
SweepKeepsTheRest == keep \subseteq Stored

(* It ends, although others may store ahead of the cursor without end.     *)
SweepEnds == step # "idle" ~> step = "idle"

-----------------------------------------------------------------------------
(* What holds between the steps: an entry that must go is ahead of the     *)
(* cursor, in the page or chosen; one to keep is not chosen, and the page  *)
(* has its age until it is judged.                                         *)
AheadOK ==
  \A p \in must \cap Stored :
    \/ step \in {"paging", "judging"} /\ p > cursor /\ (step = "judging" => ~lastPage)
    \/ step = "judging" /\ p \in unjudged \cup chosen

ChosenOK ==
  /\ keep \subseteq Stored
  /\ keep \cap chosen = {}
  /\ \A p \in keep : ~Qualifies(p)
  /\ \A p \in must \cap Stored : Qualifies(p)
  /\ step = "judging" /\ kind = "expired" =>
       \A p \in unjudged \cap (keep \cup must) \cap Stored : page[p] = rows[p]

IInv == TypeOK /\ AheadOK /\ ChosenOK
=============================================================================
