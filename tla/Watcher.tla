------------------------------ MODULE Watcher ------------------------------
(***************************************************************************)
(* A watcher, immediate or debounced: files change under watches, the      *)
(* operating system queues events, a callback removes entries with an      *)
(* engine of its own and sends on a bounded channel, while another engine  *)
(* stores.                                                                 *)
(*                                                                         *)
(* All paths are in one directory.  The contents of a file are a version,  *)
(* a new one with each change; an entry is the version it was stored from. *)
(***************************************************************************)
EXTENDS Integers, FiniteSets, Sequences

CONSTANTS Path,
          Modes,        \* of the watchers that are made
          Capacity,     \* of the channel: 256
          MaxChanges,   \* bounds what happens to files
          NoRow, NoSet, Idle

ASSUME WatcherAssumption ==
  /\ IsFiniteSet(Path)
  /\ Modes \subseteq {"immediate", "debounced"}
  /\ Capacity \in Nat /\ MaxChanges \in Nat
  /\ NoRow \notin Nat

Version == 0..MaxChanges
Kinds == {"data", "create", "remove", "name", "access"}
Event == [kind : Kinds, paths : SUBSET Path]
Callback == [left : SUBSET Path, at : Path, step : {"look", "remove", "send"}]

ASSUME SentinelAssumption ==
  Idle \notin Callback /\ NoSet \notin [path : Path, version : Version]

VARIABLES files,      \* by path: its version, and whether it is there
          changes,
          rows,       \* the entries by path, of the version measured
          saving,     \* the set of the other engine
          phase, mode,
          listed,     \* the keys still to register
          watched,    \* paths with a watch of their own
          dirWatched,
          queue,      \* events not yet handed to the callback
          callback,
          channel,    \* how many events it holds
          dropped, failed,
          poisoned,
          due,        \* for the properties: entries outdated under a watch
          owed        \* for the properties: removals the receiver has not heard of

world == <<files, changes>>
store == <<rows, saving>>
watches == <<phase, mode, listed, watched, dirWatched>>
report == <<channel, dropped, failed, owed>>
vars == <<world, store, watches, queue, callback, report, poisoned, due>>

TypeOK ==
  /\ files \in [Path -> [version : Version, there : BOOLEAN]]
  /\ changes \in 0..MaxChanges
  /\ rows \in [Path -> Version \cup {NoRow}]
  /\ saving \in [path : Path, version : Version] \cup {NoSet}
  /\ phase \in {"none", "registering", "running", "dropped"}
  /\ mode \in {"immediate", "debounced"}
  /\ listed \subseteq Path /\ watched \subseteq Path /\ dirWatched \in BOOLEAN
  /\ queue \in Seq(Event)
  /\ callback \in Callback \cup {Idle}
  /\ channel \in 0..Capacity
  /\ dropped \in Nat /\ failed \in Nat /\ owed \in Nat
  /\ poisoned \in BOOLEAN
  /\ due \subseteq Path

Init ==
  /\ files \in [Path -> [version : {0}, there : BOOLEAN]]
  /\ changes = 0
  /\ \E S \in SUBSET Path : rows = [p \in Path |-> IF p \in S THEN 0 ELSE NoRow]
  /\ saving = NoSet
  /\ phase = "none" /\ mode \in Modes
  /\ listed = {} /\ watched = {} /\ dirWatched = FALSE
  /\ queue = <<>> /\ callback = Idle
  /\ channel = 0 /\ dropped = 0 /\ failed = 0 /\ owed = 0
  /\ poisoned = FALSE
  /\ due = {}

Cached == {p \in Path : rows[p] # NoRow}
Covered == IF dirWatched THEN Path ELSE watched

-----------------------------------------------------------------------------
(* The file system: an event is queued for what a watch covers.  A watch   *)
(* of a path of its own ends with the file.                                *)
Raise(kind, paths) ==
  LET seen == paths \cap Covered
  IN  /\ changes < MaxChanges /\ changes' = changes + 1
      /\ IF seen = {} THEN queue' = queue
         ELSE queue' = Append(queue, [kind |-> kind, paths |-> seen])
      /\ due' = IF kind = "access" THEN due ELSE due \cup (seen \cap Cached)
      /\ UNCHANGED <<store, phase, mode, listed, dirWatched, callback, report, poisoned>>

Changed(p, there) == [version |-> changes + 1, there |-> there]

WriteFile(p) ==
  /\ files' = [files EXCEPT ![p] = Changed(p, TRUE)]
  /\ Raise(IF files[p].there THEN "data" ELSE "create", {p})
  /\ UNCHANGED watched

RemoveFile(p) ==
  /\ files[p].there
  /\ files' = [files EXCEPT ![p] = Changed(p, FALSE)]
  /\ Raise("remove", {p})
  /\ watched' = watched \ {p}

RenameFile(p, q) ==
  /\ p # q /\ files[p].there
  /\ files' = [files EXCEPT ![p] = Changed(p, FALSE), ![q] = Changed(q, TRUE)]
  /\ Raise("name", {p, q})
  /\ watched' = watched \ {p, q}

ReadFile(p) ==
  /\ files[p].there
  /\ Raise("access", {p})
  /\ UNCHANGED <<files, watched>>

-----------------------------------------------------------------------------
(* The other engine.  A set measures the file before it commits, so that   *)
(* the file may change, and its event be handled, in between.              *)
Measure(p) ==
  /\ saving = NoSet /\ files[p].there
  /\ saving' = [path |-> p, version |-> files[p].version]
  /\ UNCHANGED <<world, rows, watches, queue, callback, report, poisoned, due>>

(* What it stores makes good an outdated entry only if it is current.      *)
CommitSet ==
  /\ saving # NoSet
  /\ rows' = [rows EXCEPT ![saving.path] = saving.version]
  /\ saving' = NoSet
  /\ due' = IF saving.version = files[saving.path].version THEN due \ {saving.path} ELSE due
  /\ UNCHANGED <<world, watches, queue, callback, report, poisoned>>

RemoveEntry(p) ==
  /\ rows[p] # NoRow
  /\ rows' = [rows EXCEPT ![p] = NoRow]
  /\ due' = due \ {p}
  /\ UNCHANGED <<world, saving, watches, queue, callback, report, poisoned>>

-----------------------------------------------------------------------------
(* The life of a watcher: the keys are listed, the helper engine is opened *)
(* with its channel, and then the listed paths are registered one by one,  *)
(* or their directory, while events of the first ones may come already.    *)
ListKeys ==
  /\ phase \in {"none", "dropped"} /\ callback = Idle
  /\ phase' = "registering" /\ mode' \in Modes
  /\ listed' = Cached
  /\ channel' = 0 /\ dropped' = 0 /\ failed' = 0 /\ owed' = 0
  /\ poisoned' = FALSE
  /\ UNCHANGED <<world, store, watched, dirWatched, queue, callback, due>>

(* A path that is not there is passed over.                                *)
Register(p) ==
  /\ phase = "registering" /\ p \in listed
  /\ listed' = listed \ {p}
  /\ watched' = IF files[p].there THEN watched \cup {p} ELSE watched
  /\ UNCHANGED <<world, store, phase, mode, dirWatched, queue, callback, report, poisoned, due>>

RegisterDirs ==
  /\ phase = "registering" /\ listed # {}
  /\ listed' = {} /\ dirWatched' = TRUE
  /\ UNCHANGED <<world, store, phase, mode, watched, queue, callback, report, poisoned, due>>

(* The system refuses the watch: registration_errors reports it.           *)
RegisterFails(p) ==
  /\ phase = "registering" /\ p \in listed /\ files[p].there
  /\ listed' = listed \ {p}
  /\ UNCHANGED <<world, store, phase, mode, watched, dirWatched, queue, callback, report,
                 poisoned, due>>

Started ==
  /\ phase = "registering" /\ listed = {}
  /\ phase' = "running"
  /\ UNCHANGED <<world, store, mode, listed, watched, dirWatched, queue, callback, report,
                 poisoned, due>>

(* Later registrations, for a file or directory that is there.             *)
Watch(p) ==
  /\ phase = "running" /\ mode = "immediate" /\ files[p].there
  /\ watched' = watched \cup {p}
  /\ UNCHANGED <<world, store, phase, mode, listed, dirWatched, queue, callback, report,
                 poisoned, due>>

WatchDir ==
  /\ phase = "running"
  /\ dirWatched' = TRUE
  /\ UNCHANGED <<world, store, phase, mode, listed, watched, queue, callback, report,
                 poisoned, due>>

(* What is queued may be lost with the watch: nothing is owed then.        *)
Unwatch(p) ==
  /\ phase = "running" /\ mode = "immediate" /\ p \in watched
  /\ watched' = watched \ {p}
  /\ due' = IF dirWatched THEN due ELSE due \ {p}
  /\ UNCHANGED <<world, store, phase, mode, listed, dirWatched, queue, callback, report, poisoned>>

UnwatchDir ==
  /\ phase = "running" /\ dirWatched
  /\ dirWatched' = FALSE
  /\ due' = due \cap watched
  /\ UNCHANGED <<world, store, phase, mode, listed, watched, queue, callback, report, poisoned>>

(* Dropping it closes the channel and ends the watches; a callback that    *)
(* runs goes on.                                                           *)
Drop ==
  /\ phase = "running"
  /\ phase' = "dropped"
  /\ watched' = {} /\ dirWatched' = FALSE /\ queue' = <<>> /\ due' = {}
  /\ owed' = owed - channel /\ channel' = 0
  /\ UNCHANGED <<world, store, mode, listed, callback, dropped, failed, poisoned>>

(* A panic of a thread in entry_count, under the lock of the helper engine.*)
Poison ==
  /\ phase = "running" /\ mode = "immediate" /\ callback = Idle
  /\ poisoned' = TRUE
  /\ UNCHANGED <<world, store, watches, queue, callback, report, due>>

Receive ==
  /\ phase = "running" /\ channel > 0
  /\ channel' = channel - 1 /\ owed' = owed - 1
  /\ UNCHANGED <<world, store, watches, queue, callback, dropped, failed, poisoned, due>>

-----------------------------------------------------------------------------
(* The callback.  The immediate one classifies an event and, unless the    *)
(* lock is poisoned, goes through its paths; the debounced one is given    *)
(* the paths of what has waited long enough, each once and of any kind.    *)

(* Mutant: a file that appears is taken for one that is not cached.        *)
ActionableButCreate(kind) == kind \in {"data", "remove", "name"}

(* classify_event: not an access.                                          *)
Actionable(kind) == kind \in {"data", "create", "remove", "name"}

Work(paths) == \E p \in paths : callback' = [left |-> paths \ {p}, at |-> p, step |-> "look"]

TakeEvent ==
  /\ mode = "immediate" /\ callback = Idle /\ queue # <<>>
  /\ queue' = Tail(queue)
  /\ IF Actionable(Head(queue).kind) /\ ~poisoned
     THEN Work(Head(queue).paths)
     ELSE UNCHANGED callback
  /\ UNCHANGED <<world, store, watches, report, poisoned, due>>

PathsOf(events) == UNION {events[i].paths : i \in DOMAIN events}

TakeBatch(n) ==
  /\ mode = "debounced" /\ callback = Idle /\ n \in 1..Len(queue)
  /\ Work(PathsOf(SubSeq(queue, 1, n)))
  /\ queue' = SubSeq(queue, n + 1, Len(queue))
  /\ UNCHANGED <<world, store, watches, report, poisoned, due>>

NextPath == IF callback.left = {} THEN callback' = Idle ELSE Work(callback.left)

At(step) == callback # Idle /\ callback.step = step

LookFound == callback' = [callback EXCEPT !.step = "remove"]

(* Mutant: an error of contains skips the path.                            *)
LookSkippingErrors ==
  /\ At("look")
  /\ \/ NextPath
     \/ rows[callback.at] # NoRow /\ LookFound
  /\ UNCHANGED <<world, store, watches, queue, report, poisoned, due>>

(* contains: only a definite no skips the path, an error does not.         *)
Look ==
  /\ At("look")
  /\ \/ rows[callback.at] = NoRow /\ NextPath
     \/ LookFound
  /\ UNCHANGED <<world, store, watches, queue, report, poisoned, due>>

RemoveCached ==
  /\ At("remove")
  /\ rows' = [rows EXCEPT ![callback.at] = NoRow]
  /\ due' = due \ {callback.at}
  /\ owed' = owed + 1
  /\ callback' = [callback EXCEPT !.step = "send"]
  /\ UNCHANGED <<world, saving, watches, queue, channel, dropped, failed, poisoned>>

(* Mutant: a failed removal is announced like one that succeeded.          *)
RemoveFailsAnnounced ==
  /\ At("remove")
  /\ failed' = failed + 1
  /\ callback' = [callback EXCEPT !.step = "send"]
  /\ UNCHANGED <<world, store, watches, queue, channel, dropped, owed, poisoned, due>>

(* The database is busy: counted, not retried and not announced.           *)
RemoveFails ==
  /\ At("remove")
  /\ failed' = failed + 1
  /\ NextPath
  /\ UNCHANGED <<world, store, watches, queue, channel, dropped, owed, poisoned, due>>

(* try_send: never waits for the receiver.                                 *)
Send ==
  /\ At("send")
  /\ IF phase # "dropped" /\ channel < Capacity
     THEN channel' = channel + 1 /\ UNCHANGED dropped
     ELSE dropped' = dropped + 1 /\ UNCHANGED channel
  /\ NextPath
  /\ UNCHANGED <<world, store, watches, queue, failed, owed, poisoned, due>>

Handle == Look \/ RemoveCached \/ RemoveFails \/ Send

Take == TakeEvent \/ \E n \in 1..Len(queue) : TakeBatch(n)

Next ==
  \/ \E p \in Path : WriteFile(p) \/ RemoveFile(p) \/ ReadFile(p)
  \/ \E p, q \in Path : RenameFile(p, q)
  \/ \E p \in Path : Measure(p) \/ RemoveEntry(p)
  \/ CommitSet
  \/ ListKeys \/ RegisterDirs \/ Started
  \/ \E p \in Path : Register(p) \/ RegisterFails(p)
  \/ \E p \in Path : Watch(p) \/ Unwatch(p)
  \/ WatchDir \/ UnwatchDir \/ Drop \/ Poison \/ Receive
  \/ Take
  \/ Handle

(* The system hands over what it has queued, and the callback returns.     *)
Fairness == WF_vars(Take) /\ WF_vars(Handle)

Spec == Init /\ [][Next]_vars /\ Fairness

-----------------------------------------------------------------------------
Acts(event) == mode = "debounced" \/ Actionable(event.kind)

InFlight(p) ==
  \/ \E i \in DOMAIN queue : Acts(queue[i]) /\ p \in queue[i].paths
  \/ callback # Idle /\ \/ p \in callback.left
                        \/ p = callback.at /\ callback.step \in {"look", "remove"}

Stuck == {p \in due : ~InFlight(p)}

(* An entry whose file changed under a watch is on its way out, or a       *)
(* failed removal was counted for it: nothing but a poisoned lock or the   *)
(* end of the watcher leaves it in silence, whatever is stored or removed  *)
(* meanwhile, a set of old contents over it included (the callbacks,       *)
(* failed_invalidation_count).                                             *)
OutdatedEntriesAreCounted == ~poisoned => Cardinality(Stuck) <= failed

(* And it goes at last, while the system delivers and the callback runs.   *)
OutdatedEntriesGo ==
  \A p \in Path :
    p \in due ~> p \notin due \/ failed > 0 \/ poisoned

(* Every removal is received, waits in the channel or was counted as       *)
(* dropped, and nothing else is announced, a full channel and a receiver   *)
(* that is gone included (try_send, dropped_event_count).                  *)
RemovalsAreAccountedFor ==
  owed = channel + dropped + (IF At("send") THEN 1 ELSE 0)

-----------------------------------------------------------------------------
(* What holds between the steps: without a watcher nothing is watched, and *)
(* only an entry can be outdated.                                          *)
QuietOK == phase \in {"none", "dropped"} => watched = {} /\ ~dirWatched /\ due = {}

DueOK == due \subseteq Cached

IInv == TypeOK /\ QuietOK /\ DueOK /\ OutdatedEntriesAreCounted /\ RemovalsAreAccountedFor
=============================================================================
