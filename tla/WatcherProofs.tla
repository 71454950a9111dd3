--------------------------- MODULE WatcherProofs ---------------------------
(* Proofs about Watcher: entries outdated under a watch and removals, for  *)
(* any number of paths and changes, any channel and either kind of watcher.*)
EXTENDS Watcher, FiniteSetTheorems, SequenceTheorems, TLAPS

LEMMA InitInvariance == Init => IInv
<1> SUFFICES ASSUME Init PROVE IInv
  OBVIOUS
<1>i. /\ phase = "none" /\ mode \in Modes /\ saving = NoSet /\ changes = 0
      /\ listed = {} /\ watched = {} /\ dirWatched = FALSE
      /\ queue = <<>> /\ callback = Idle
      /\ channel = 0 /\ dropped = 0 /\ failed = 0 /\ owed = 0
      /\ poisoned = FALSE /\ due = {}
  BY DEF Init
<1>1. rows \in [Path -> Version \cup {NoRow}]
  BY WatcherAssumption DEF Init, Version
<1>2. files \in [Path -> [version : Version, there : BOOLEAN]]
  <2>1. [version : {0}, there : BOOLEAN] \subseteq [version : Version, there : BOOLEAN]
    BY WatcherAssumption DEF Version
  <2> QED
    BY <2>1 DEF Init
<1>3. queue \in Seq(Event)
  BY <1>i, EmptySeq
<1>m. /\ mode \in {"immediate", "debounced"}
      /\ 0 \in 0..MaxChanges /\ 0 \in 0..Capacity
  BY <1>i, WatcherAssumption
<1>4. TypeOK
  BY <1>i, <1>1, <1>2, <1>3, <1>m DEF TypeOK
<1>5. Stuck = {}
  BY <1>i DEF Stuck
<1>6. OutdatedEntriesAreCounted
  BY <1>i, <1>5, FS_EmptySet DEF OutdatedEntriesAreCounted
<1>7. RemovalsAreAccountedFor
  BY <1>i DEF RemovalsAreAccountedFor, At
<1> QED
  BY <1>i, <1>4, <1>6, <1>7 DEF IInv, QuietOK, DueOK

-----------------------------------------------------------------------------
(* The steps of the callback, as alternatives of records.                  *)
LEMMA WorkType ==
  ASSUME NEW paths \in SUBSET Path, Work(paths)
  PROVE  /\ callback' \in Callback
         /\ callback' # Idle /\ ~At("send")'
         /\ \A p \in paths : \/ p \in callback'.left
                             \/ p = callback'.at /\ callback'.step = "look"
<1>1. PICK p \in paths : callback' = [left |-> paths \ {p}, at |-> p, step |-> "look"]
  BY DEF Work
<1>2. callback' \in Callback
  BY <1>1 DEF Callback
<1> QED
  BY <1>1, <1>2, SentinelAssumption DEF At

LEMMA NextPathType ==
  ASSUME TypeOK, callback # Idle, NextPath
  PROVE  /\ callback' \in Callback \cup {Idle} /\ ~At("send")'
         /\ \A p \in callback.left : /\ callback' # Idle
                                     /\ \/ p \in callback'.left
                                        \/ p = callback'.at /\ callback'.step = "look"
<1>1. callback.left \in SUBSET Path
  BY DEF TypeOK, Callback
<1>2. CASE callback.left = {}
  BY <1>2 DEF NextPath, At
<1>3. CASE callback.left # {}
  <2>1. Work(callback.left)
    BY <1>3 DEF NextPath
  <2> QED
    BY <1>1, <2>1, WorkType
<1> QED
  BY <1>2, <1>3

LEMMA StepType ==
  ASSUME TypeOK, callback # Idle, NEW s \in {"look", "remove", "send"},
         callback' = [callback EXCEPT !.step = s]
  PROVE  /\ callback' \in Callback /\ callback' # Idle
         /\ callback'.left = callback.left /\ callback'.at = callback.at /\ callback'.step = s
<1>1. callback \in Callback
  BY DEF TypeOK
<1>2. callback' \in Callback
  BY <1>1 DEF Callback
<1> QED
  BY <1>1, <1>2, SentinelAssumption DEF Callback

(* Fewer entries on nobody's way need no more failures to be counted.      *)
LEMMA StuckIsFinite == TypeOK => IsFiniteSet(Stuck) /\ Cardinality(Stuck) \in Nat
<1> SUFFICES ASSUME TypeOK PROVE IsFiniteSet(Stuck) /\ Cardinality(Stuck) \in Nat
  OBVIOUS
<1>1. Stuck \in SUBSET Path
  BY DEF TypeOK, Stuck
<1>2. IsFiniteSet(Stuck)
  BY <1>1, WatcherAssumption, FS_Subset
<1> QED
  BY <1>2, FS_CardinalityType

LEMMA FewerStuck ==
  ASSUME IInv, Stuck' \subseteq Stuck, failed' = failed, poisoned' = poisoned
  PROVE  OutdatedEntriesAreCounted'
<1>1. IsFiniteSet(Stuck) /\ Cardinality(Stuck) \in Nat /\ failed \in Nat
  BY StuckIsFinite DEF IInv, TypeOK
<1>2. IsFiniteSet(Stuck') /\ Cardinality(Stuck') <= Cardinality(Stuck)
  BY <1>1, FS_Subset
<1>3. Cardinality(Stuck') \in Nat
  BY <1>2, FS_CardinalityType
<1>4. ~poisoned' => Cardinality(Stuck') <= failed'
  BY <1>1, <1>2, <1>3 DEF IInv, OutdatedEntriesAreCounted
<1> QED
  BY <1>4 DEF OutdatedEntriesAreCounted

LEMMA OneMoreStuck ==
  ASSUME IInv, NEW p, Stuck' \subseteq Stuck \cup {p}, failed' = failed + 1,
         poisoned' = poisoned
  PROVE  OutdatedEntriesAreCounted'
<1>1. IsFiniteSet(Stuck) /\ Cardinality(Stuck) \in Nat /\ failed \in Nat
  BY StuckIsFinite DEF IInv, TypeOK
<1>2. IsFiniteSet(Stuck \cup {p}) /\ Cardinality(Stuck \cup {p}) \in {Cardinality(Stuck), Cardinality(Stuck) + 1}
  BY <1>1, FS_AddElement
<1>3. IsFiniteSet(Stuck') /\ Cardinality(Stuck') <= Cardinality(Stuck \cup {p})
  BY <1>2, FS_Subset
<1>4. Cardinality(Stuck') \in Nat
  BY <1>3, FS_CardinalityType
<1>5. ~poisoned' => Cardinality(Stuck') <= failed'
  BY <1>1, <1>2, <1>3, <1>4 DEF IInv, OutdatedEntriesAreCounted
<1> QED
  BY <1>5 DEF OutdatedEntriesAreCounted

(* Steps that leave the events and the callback alone.                     *)
LEMMA SameFlight ==
  ASSUME IInv, queue' = queue, callback' = callback, mode' = mode, due' \subseteq due
  PROVE  Stuck' \subseteq Stuck
BY DEF Stuck, InFlight, Acts, Actionable

-----------------------------------------------------------------------------
(* The file system: an event of any kind but access carries what it makes  *)
(* due.                                                                    *)
LEMMA RaiseKeeps ==
  ASSUME IInv, NEW kind \in Kinds, NEW paths \in SUBSET Path, Raise(kind, paths),
         watched' \subseteq watched
  PROVE  /\ changes' \in 0..MaxChanges /\ queue' \in Seq(Event) /\ due' \subseteq Path
         /\ QuietOK' /\ DueOK' /\ OutdatedEntriesAreCounted' /\ RemovalsAreAccountedFor'
<1> DEFINE seen  == paths \cap Covered
           event == [kind |-> kind, paths |-> seen]
<1>u. /\ rows' = rows /\ phase' = phase /\ mode' = mode /\ dirWatched' = dirWatched
      /\ callback' = callback /\ channel' = channel /\ dropped' = dropped
      /\ failed' = failed /\ owed' = owed /\ poisoned' = poisoned
      /\ changes < MaxChanges /\ changes' = changes + 1
      /\ queue' = IF seen = {} THEN queue ELSE Append(queue, event)
      /\ due' = IF kind = "access" THEN due ELSE due \cup (seen \cap Cached)
  BY DEF Raise, store, report
<1>t. /\ queue \in Seq(Event) /\ due \subseteq Path /\ changes \in 0..MaxChanges
      /\ dirWatched \in BOOLEAN /\ seen \subseteq Path
  BY DEF IInv, TypeOK
<1>e. event \in Event
  BY <1>t DEF Event
<1>1. changes' \in 0..MaxChanges
  BY <1>u, <1>t, WatcherAssumption
<1>2. queue' \in Seq(Event)
  BY <1>u, <1>t, <1>e, AppendProperties
<1>3. due' \subseteq Path
  BY <1>u, <1>t
<1>4. QuietOK'
  <2>1. ASSUME phase \in {"none", "dropped"} PROVE seen = {}
    BY <2>1 DEF IInv, QuietOK, Covered
  <2> QED
    BY <1>u, <2>1 DEF IInv, QuietOK
<1>5. DueOK'
  BY <1>u DEF IInv, DueOK, Cached
<1> HIDE DEF seen, event
<1>q. /\ \A i \in DOMAIN queue : i \in DOMAIN queue' /\ queue'[i] = queue[i]
      /\ seen # {} => /\ Len(queue) + 1 \in DOMAIN queue'
                      /\ queue'[Len(queue) + 1] = event
  BY <1>u, <1>t, <1>e, AppendProperties, LenProperties
<1>6. Stuck' \subseteq Stuck
  <2> SUFFICES ASSUME NEW p \in due', ~InFlight(p)' PROVE p \in due /\ ~InFlight(p)
    BY DEF Stuck
  <2>1. ~InFlight(p)
    BY <1>u, <1>q DEF InFlight, Acts, Actionable
  <2>2. CASE kind = "access"
    BY <1>u, <2>1, <2>2
  <2>3. CASE kind # "access" /\ p \notin due
    <3>1. p \in seen
      BY <1>u, <2>3
    <3>2. event.kind = kind /\ event.paths = seen
      BY DEF event
    <3>3. PICK i \in DOMAIN queue' : queue'[i] = event
      BY <1>q, <3>1
    <3>4. Actionable(event.kind)
      BY <2>3, <3>2 DEF Actionable, Kinds
    <3>5. Actionable(queue'[i].kind) /\ p \in queue'[i].paths
      BY <3>1, <3>2, <3>3, <3>4
    <3> HIDE DEF Actionable
    <3> QED
      BY <3>5 DEF InFlight, Acts
  <2> QED
    BY <2>1, <2>2, <2>3
<1>7. OutdatedEntriesAreCounted'
  BY <1>u, <1>6, FewerStuck
<1>8. RemovalsAreAccountedFor'
  BY <1>u DEF IInv, RemovalsAreAccountedFor, At
<1> QED
  BY <1>1, <1>2, <1>3, <1>4, <1>5, <1>7, <1>8

LEMMA FilesKeep ==
  ASSUME IInv, NEW p \in Path, NEW q \in Path,
         WriteFile(p) \/ RemoveFile(p) \/ ReadFile(p) \/ RenameFile(p, q)
  PROVE  IInv'
<1>t. /\ files \in [Path -> [version : Version, there : BOOLEAN]]
      /\ rows \in [Path -> Version \cup {NoRow}]
      /\ saving \in [path : Path, version : Version] \cup {NoSet}
      /\ phase \in {"none", "registering", "running", "dropped"}
      /\ mode \in {"immediate", "debounced"}
      /\ listed \subseteq Path /\ watched \subseteq Path /\ dirWatched \in BOOLEAN
      /\ callback \in Callback \cup {Idle}
      /\ channel \in 0..Capacity
      /\ dropped \in Nat /\ failed \in Nat /\ owed \in Nat /\ poisoned \in BOOLEAN
      /\ changes \in 0..MaxChanges
  BY DEF IInv, TypeOK
<1>1. PICK kind \in Kinds, paths \in SUBSET Path : Raise(kind, paths)
  BY DEF WriteFile, RemoveFile, ReadFile, RenameFile, Kinds
<1>2. watched' \subseteq watched
  BY DEF WriteFile, RemoveFile, ReadFile, RenameFile
<1>3. files' \in [Path -> [version : Version, there : BOOLEAN]]
  <2>1. changes + 1 \in Version
    BY <1>1, <1>t, WatcherAssumption DEF Raise, Version
  <2>2. Changed(p, TRUE) \in [version : Version, there : BOOLEAN]
        /\ Changed(p, FALSE) \in [version : Version, there : BOOLEAN]
        /\ Changed(q, TRUE) \in [version : Version, there : BOOLEAN]
    BY <2>1 DEF Changed
  <2> HIDE DEF Changed
  <2>3. CASE WriteFile(p)
    BY <1>t, <2>2, <2>3 DEF WriteFile
  <2>4. CASE RemoveFile(p)
    BY <1>t, <2>2, <2>4 DEF RemoveFile
  <2>5. CASE ReadFile(p)
    BY <1>t, <2>5 DEF ReadFile
  <2>6. CASE RenameFile(p, q)
    BY <1>t, <2>2, <2>6 DEF RenameFile
  <2> QED
    BY <2>3, <2>4, <2>5, <2>6
<1>4. /\ changes' \in 0..MaxChanges /\ queue' \in Seq(Event) /\ due' \subseteq Path
      /\ QuietOK' /\ DueOK' /\ OutdatedEntriesAreCounted' /\ RemovalsAreAccountedFor'
  BY <1>1, <1>2, RaiseKeeps
<1>5. /\ rows' = rows /\ saving' = saving /\ phase' = phase /\ mode' = mode
      /\ listed' = listed /\ dirWatched' = dirWatched /\ callback' = callback
      /\ channel' = channel /\ dropped' = dropped /\ failed' = failed /\ owed' = owed
      /\ poisoned' = poisoned
  BY <1>1 DEF Raise, store, report
<1>6. TypeOK'
  BY <1>t, <1>2, <1>3, <1>4, <1>5 DEF TypeOK
<1> QED
  BY <1>4, <1>6 DEF IInv
-----------------------------------------------------------------------------
(* The other engine and the life of a watcher.                             *)
LEMMA StoreKeeps ==
  ASSUME IInv, NEW p \in Path, Measure(p) \/ CommitSet \/ RemoveEntry(p)
  PROVE  IInv'
<1>u. /\ files' = files /\ changes' = changes /\ phase' = phase /\ mode' = mode
      /\ listed' = listed /\ watched' = watched /\ dirWatched' = dirWatched
      /\ queue' = queue /\ callback' = callback /\ channel' = channel /\ dropped' = dropped
      /\ failed' = failed /\ owed' = owed /\ poisoned' = poisoned
  BY DEF Measure, CommitSet, RemoveEntry, world, watches, report
<1>t. /\ files \in [Path -> [version : Version, there : BOOLEAN]]
      /\ rows \in [Path -> Version \cup {NoRow}]
      /\ saving \in [path : Path, version : Version] \cup {NoSet}
      /\ due \subseteq Path
  BY DEF IInv, TypeOK
<1>1. due' \subseteq due
  BY DEF Measure, CommitSet, RemoveEntry
<1>2. saving' \in [path : Path, version : Version] \cup {NoSet}
  <2>1. CASE Measure(p)
    BY <1>t, <2>1 DEF Measure
  <2>2. CASE CommitSet
    BY <2>2 DEF CommitSet
  <2>3. CASE RemoveEntry(p)
    BY <1>t, <2>3 DEF RemoveEntry
  <2> QED
    BY <2>1, <2>2, <2>3
<1>n. NoRow \notin Version
  BY WatcherAssumption DEF Version
<1>3. rows' \in [Path -> Version \cup {NoRow}] /\ DueOK'
  <2>1. CASE Measure(p)
    BY <1>t, <2>1 DEF Measure, IInv, DueOK, Cached
  <2>2. CASE CommitSet
    BY <1>t, <1>n, <2>2 DEF CommitSet, IInv, DueOK, Cached
  <2>3. CASE RemoveEntry(p)
    BY <1>t, <2>3 DEF RemoveEntry, IInv, DueOK, Cached
  <2> QED
    BY <2>1, <2>2, <2>3
<1>4. TypeOK'
  BY <1>u, <1>t, <1>1, <1>2, <1>3 DEF IInv, TypeOK
<1>5. Stuck' \subseteq Stuck
  BY <1>u, <1>1, SameFlight
<1>6. OutdatedEntriesAreCounted'
  BY <1>u, <1>5, FewerStuck
<1>7. QuietOK'
  BY <1>u, <1>1 DEF IInv, QuietOK
<1>8. RemovalsAreAccountedFor'
  BY <1>u DEF IInv, RemovalsAreAccountedFor, At
<1> QED
  BY <1>3, <1>4, <1>6, <1>7, <1>8 DEF IInv

LEMMA WatchesKeep ==
  ASSUME IInv, UNCHANGED <<world, store, mode, queue, callback, report, poisoned>>,
         phase' \in {"registering", "running"}, listed' \subseteq Path,
         watched' \subseteq Path, dirWatched' \in BOOLEAN, due' \subseteq due
  PROVE  IInv'
<1>u. /\ files' = files /\ changes' = changes /\ rows' = rows /\ saving' = saving
      /\ mode' = mode /\ queue' = queue /\ callback' = callback /\ channel' = channel
      /\ dropped' = dropped /\ failed' = failed /\ owed' = owed /\ poisoned' = poisoned
  BY DEF world, store, report
<1>1. TypeOK'
  BY <1>u DEF IInv, TypeOK
<1>2. Stuck' \subseteq Stuck
  BY <1>u, SameFlight
<1>3. OutdatedEntriesAreCounted'
  BY <1>u, <1>2, FewerStuck
<1>4. QuietOK' /\ DueOK'
  BY <1>u DEF IInv, QuietOK, DueOK, Cached
<1>5. RemovalsAreAccountedFor'
  BY <1>u DEF IInv, RemovalsAreAccountedFor, At
<1> QED
  BY <1>1, <1>3, <1>4, <1>5 DEF IInv

LEMMA RegistrationsKeep ==
  ASSUME IInv, NEW p \in Path,
         Register(p) \/ RegisterFails(p) \/ Watch(p) \/ Unwatch(p)
  PROVE  IInv'
<1>t. listed \subseteq Path /\ watched \subseteq Path /\ dirWatched \in BOOLEAN
  BY DEF IInv, TypeOK
<1>1. CASE Register(p) \/ RegisterFails(p)
  BY <1>t, <1>1, WatchesKeep DEF Register, RegisterFails
<1>2. CASE Watch(p) \/ Unwatch(p)
  BY <1>t, <1>2, WatchesKeep DEF Watch, Unwatch
<1> QED
  BY <1>1, <1>2

(* The counters begin again only where nothing is due.                     *)
LEMMA NoneStuck ==
  ASSUME due' = {}, failed' \in Nat
  PROVE  OutdatedEntriesAreCounted'
<1>1. Stuck' = {}
  BY DEF Stuck
<1>2. ~poisoned' => Cardinality(Stuck') <= failed'
  BY <1>1, FS_EmptySet
<1> QED
  BY <1>2 DEF OutdatedEntriesAreCounted

LEMMA ListKeysKeeps ==
  ASSUME IInv, ListKeys
  PROVE  IInv'
<1>u. /\ files' = files /\ changes' = changes /\ rows' = rows /\ saving' = saving
      /\ phase' = "registering" /\ mode' \in Modes /\ listed' = Cached
      /\ watched' = watched /\ dirWatched' = dirWatched /\ queue' = queue
      /\ callback = Idle /\ callback' = callback
      /\ channel' = 0 /\ dropped' = 0 /\ failed' = 0 /\ owed' = 0
      /\ poisoned' = FALSE /\ due' = due /\ due = {}
  BY DEF ListKeys, world, store, IInv, QuietOK
<1>m. mode' \in {"immediate", "debounced"} /\ 0 \in 0..Capacity /\ Cached \subseteq Path
  BY <1>u, WatcherAssumption DEF Cached
<1>1. TypeOK'
  BY <1>u, <1>m DEF IInv, TypeOK
<1>2. OutdatedEntriesAreCounted'
  BY <1>u, NoneStuck
<1>3. QuietOK' /\ DueOK' /\ RemovalsAreAccountedFor'
  BY <1>u DEF QuietOK, DueOK, RemovalsAreAccountedFor, At
<1> QED
  BY <1>1, <1>2, <1>3 DEF IInv

LEMMA DropKeeps ==
  ASSUME IInv, Drop
  PROVE  IInv'
<1>u. /\ files' = files /\ changes' = changes /\ rows' = rows /\ saving' = saving
      /\ phase' = "dropped" /\ mode' = mode /\ listed' = listed
      /\ watched' = {} /\ dirWatched' = FALSE /\ queue' = <<>> /\ due' = {}
      /\ callback' = callback /\ owed' = owed - channel /\ channel' = 0
      /\ dropped' = dropped /\ failed' = failed /\ poisoned' = poisoned
  BY DEF Drop, world, store
<1>t. channel \in Nat /\ dropped \in Nat /\ owed \in Nat /\ failed \in Nat
  BY WatcherAssumption DEF IInv, TypeOK
<1>1. RemovalsAreAccountedFor'
  BY <1>u, <1>t DEF IInv, RemovalsAreAccountedFor, At
<1>2. owed' \in Nat /\ channel' \in 0..Capacity
  BY <1>u, <1>t, WatcherAssumption DEF IInv, RemovalsAreAccountedFor
<1>3. queue' \in Seq(Event)
  BY <1>u, EmptySeq
<1>4. TypeOK'
  BY <1>u, <1>2, <1>3 DEF IInv, TypeOK
<1>5. OutdatedEntriesAreCounted'
  BY <1>u, <1>t, NoneStuck
<1>6. QuietOK' /\ DueOK'
  BY <1>u DEF QuietOK, DueOK
<1> QED
  BY <1>1, <1>4, <1>5, <1>6 DEF IInv

LEMMA PoisonKeeps ==
  ASSUME IInv, Poison
  PROVE  IInv'
<1>u. /\ files' = files /\ changes' = changes /\ rows' = rows /\ saving' = saving
      /\ phase' = phase /\ mode' = mode /\ listed' = listed /\ watched' = watched
      /\ dirWatched' = dirWatched /\ queue' = queue /\ callback' = callback
      /\ channel' = channel /\ dropped' = dropped /\ failed' = failed /\ owed' = owed
      /\ poisoned' = TRUE /\ due' = due
  BY DEF Poison, world, store, watches, report
<1>1. TypeOK'
  BY <1>u DEF IInv, TypeOK
<1>2. QuietOK' /\ DueOK' /\ OutdatedEntriesAreCounted'
  BY <1>u DEF IInv, QuietOK, DueOK, Cached, OutdatedEntriesAreCounted
<1>3. RemovalsAreAccountedFor'
  BY <1>u DEF IInv, RemovalsAreAccountedFor, At
<1> QED
  BY <1>1, <1>2, <1>3 DEF IInv

LEMMA ReceiveKeeps ==
  ASSUME IInv, Receive
  PROVE  IInv'
<1>u. /\ files' = files /\ changes' = changes /\ rows' = rows /\ saving' = saving
      /\ phase' = phase /\ mode' = mode /\ listed' = listed /\ watched' = watched
      /\ dirWatched' = dirWatched /\ queue' = queue /\ callback' = callback
      /\ channel > 0 /\ channel' = channel - 1 /\ owed' = owed - 1
      /\ dropped' = dropped /\ failed' = failed /\ poisoned' = poisoned /\ due' = due
  BY DEF Receive, world, store, watches
<1>t. channel \in 0..Capacity /\ dropped \in Nat /\ owed \in Nat /\ Capacity \in Nat
  BY WatcherAssumption DEF IInv, TypeOK
<1>1. RemovalsAreAccountedFor'
  BY <1>u, <1>t DEF IInv, RemovalsAreAccountedFor, At
<1>2. owed' \in Nat /\ channel' \in 0..Capacity
  BY <1>u, <1>t DEF IInv, RemovalsAreAccountedFor
<1>3. TypeOK'
  BY <1>u, <1>2 DEF IInv, TypeOK
<1>4. Stuck' \subseteq Stuck
  BY <1>u, SameFlight
<1>5. OutdatedEntriesAreCounted'
  BY <1>u, <1>4, FewerStuck
<1>6. QuietOK' /\ DueOK'
  BY <1>u DEF IInv, QuietOK, DueOK, Cached
<1> QED
  BY <1>1, <1>3, <1>5, <1>6 DEF IInv
-----------------------------------------------------------------------------
(* The callback.                                                           *)

(* Steps of it that change no entry.                                       *)
LEMMA CallbackKeeps ==
  ASSUME IInv, UNCHANGED <<world, store, watches, due, poisoned>>,
         queue' \in Seq(Event), callback' \in Callback \cup {Idle},
         channel' \in 0..Capacity, dropped' \in Nat, failed' \in Nat, owed' \in Nat,
         OutdatedEntriesAreCounted', RemovalsAreAccountedFor'
  PROVE  IInv'
<1>u. /\ files' = files /\ changes' = changes /\ rows' = rows /\ saving' = saving
      /\ phase' = phase /\ mode' = mode /\ listed' = listed /\ watched' = watched
      /\ dirWatched' = dirWatched /\ poisoned' = poisoned /\ due' = due
  BY DEF world, store, watches
<1>1. TypeOK'
  BY <1>u DEF IInv, TypeOK
<1>2. QuietOK' /\ DueOK'
  BY <1>u DEF IInv, QuietOK, DueOK, Cached
<1> QED
  BY <1>1, <1>2 DEF IInv

(* An event that acts hands its paths to the callback; one that does not   *)
(* was on no entry's behalf.                                               *)
LEMMA TakeEventKeeps ==
  ASSUME IInv, TakeEvent
  PROVE  IInv'
<1>u. /\ mode = "immediate" /\ callback = Idle /\ queue # <<>> /\ queue' = Tail(queue)
      /\ UNCHANGED <<world, store, watches, due, poisoned>>
      /\ mode' = mode /\ due' = due /\ poisoned' = poisoned /\ channel' = channel
      /\ dropped' = dropped /\ failed' = failed /\ owed' = owed
      /\ IF Actionable(Head(queue).kind) /\ ~poisoned
         THEN Work(Head(queue).paths) ELSE callback' = callback
  BY DEF TakeEvent, watches, report
<1>t. /\ queue \in Seq(Event) /\ callback \in Callback \cup {Idle}
      /\ channel \in 0..Capacity /\ dropped \in Nat /\ failed \in Nat /\ owed \in Nat
  BY DEF IInv, TypeOK
<1>q. /\ Tail(queue) \in Seq(Event) /\ Head(queue) \in Event
      /\ Len(queue) \in Nat /\ DOMAIN queue = 1..Len(queue)
      /\ DOMAIN Tail(queue) = 1..Len(queue) - 1
      /\ \A i \in 1..Len(queue) - 1 : Tail(queue)[i] = queue[i + 1]
  BY <1>u, <1>t, HeadTailProperties, LenProperties
<1>h. Head(queue) = queue[1] /\ Head(queue).paths \in SUBSET Path
  BY <1>q DEF Event
<1>1. /\ callback' \in Callback \cup {Idle} /\ ~At("send")'
      /\ Actionable(Head(queue).kind) /\ ~poisoned =>
           \A p \in Head(queue).paths : /\ callback' # Idle
                                        /\ \/ p \in callback'.left
                                           \/ p = callback'.at /\ callback'.step = "look"
  <2>1. CASE Actionable(Head(queue).kind) /\ ~poisoned
    BY <1>u, <1>h, <2>1, WorkType
  <2>2. CASE ~(Actionable(Head(queue).kind) /\ ~poisoned)
    BY <1>u, <2>2 DEF At
  <2> QED
    BY <2>1, <2>2
<1>2. ASSUME ~poisoned PROVE Stuck' \subseteq Stuck
  <2> SUFFICES ASSUME NEW p \in due, InFlight(p) PROVE InFlight(p)'
    BY <1>u DEF Stuck
  <2>1. PICK i \in 1..Len(queue) : Actionable(queue[i].kind) /\ p \in queue[i].paths
    BY <1>u, <1>q DEF InFlight, Acts
  <2>2. CASE i = 1
    BY <1>1, <1>2, <1>h, <2>1, <2>2 DEF InFlight
  <2>3. CASE i # 1
    <3>1. i - 1 \in DOMAIN queue' /\ queue'[i - 1] = queue[i]
      BY <1>u, <1>q, <2>3
    <3> HIDE DEF Actionable
    <3> QED
      BY <2>1, <3>1 DEF InFlight, Acts
  <2> QED
    BY <2>2, <2>3
<1>3. OutdatedEntriesAreCounted'
  <2>1. CASE poisoned
    BY <1>u, <2>1 DEF OutdatedEntriesAreCounted
  <2>2. CASE ~poisoned
    BY <1>u, <1>2, <2>2, FewerStuck
  <2> QED
    BY <2>1, <2>2
<1>4. RemovalsAreAccountedFor'
  <2>1. ~At("send")
    BY <1>u DEF At
  <2> QED
    BY <1>u, <1>1, <2>1 DEF IInv, RemovalsAreAccountedFor
<1> QED
  BY <1>u, <1>t, <1>q, <1>1, <1>3, <1>4, CallbackKeeps

(* The two parts of a sequence that is cut after n.                        *)
LEMMA FirstOf ==
  ASSUME NEW S, NEW s \in Seq(S), NEW n \in 1..Len(s)
  PROVE  /\ SubSeq(s, 1, n) \in Seq(S) /\ Len(SubSeq(s, 1, n)) = n
         /\ \A i \in 1..n : SubSeq(s, 1, n)[i] = s[i]
<1>1. Len(s) \in Nat /\ n \in Int /\ 1 <= n /\ n <= Len(s)
  BY LenProperties
<1>2. \A i \in 1..n : s[i] \in S
  BY <1>1, ElementOfSeq
<1>3. /\ SubSeq(s, 1, n) \in Seq(S)
      /\ Len(SubSeq(s, 1, n)) = IF 1 <= n THEN n - 1 + 1 ELSE 0
      /\ \A i \in 1..n - 1 + 1 : SubSeq(s, 1, n)[i] = s[1 + i - 1]
  BY <1>1, <1>2, SubSeqProperties
<1>4. n - 1 + 1 = n /\ \A i \in 1..n : 1 + i - 1 = i
  BY <1>1
<1> QED
  BY <1>1, <1>3, <1>4, Zenon

LEMMA RestOf ==
  ASSUME NEW S, NEW s \in Seq(S), NEW n \in 1..Len(s)
  PROVE  /\ SubSeq(s, n + 1, Len(s)) \in Seq(S)
         /\ Len(SubSeq(s, n + 1, Len(s))) = Len(s) - n
         /\ \A i \in 1..Len(s) - n : SubSeq(s, n + 1, Len(s))[i] = s[n + i]
<1> DEFINE l == Len(s)
           r == SubSeq(s, n + 1, l)
<1>1. l \in Nat /\ n \in Int /\ n + 1 \in Int /\ 1 <= n /\ n <= l
  BY LenProperties
<1>2. \A i \in n + 1..l : s[i] \in S
  BY <1>1, ElementOfSeq
<1>3. /\ r \in Seq(S)
      /\ Len(r) = IF n + 1 <= l THEN l - (n + 1) + 1 ELSE 0
      /\ \A i \in 1..l - (n + 1) + 1 : r[i] = s[n + 1 + i - 1]
  BY <1>1, <1>2, SubSeqProperties
<1> HIDE DEF l, r
<1>4. l - (n + 1) + 1 = l - n /\ \A i \in 1..l - n : n + 1 + i - 1 = n + i
  BY <1>1
<1>5. ~(n + 1 <= l) => l - n = 0
  BY <1>1
<1>6. Len(r) = l - n
  BY <1>3, <1>4, <1>5, Zenon
<1>7. \A i \in 1..l - n : r[i] = s[n + i]
  BY <1>3, <1>4, Zenon
<1> QED
  BY <1>3, <1>6, <1>7 DEF l, r

LEMMA TakeBatchKeeps ==
  ASSUME IInv, NEW n \in 1..Len(queue), TakeBatch(n)
  PROVE  IInv'
<1> DEFINE batch == PathsOf(SubSeq(queue, 1, n))
<1>u. /\ mode = "debounced" /\ callback = Idle
      /\ queue' = SubSeq(queue, n + 1, Len(queue)) /\ Work(batch)
      /\ UNCHANGED <<world, store, watches, due, poisoned>>
      /\ mode' = mode /\ due' = due /\ poisoned' = poisoned /\ channel' = channel
      /\ dropped' = dropped /\ failed' = failed /\ owed' = owed
  BY DEF TakeBatch, watches, report
<1>t. /\ queue \in Seq(Event)
      /\ channel \in 0..Capacity /\ dropped \in Nat /\ failed \in Nat /\ owed \in Nat
  BY DEF IInv, TypeOK
<1>l. /\ Len(queue) \in Nat /\ n \in Nat /\ n >= 1 /\ n <= Len(queue)
      /\ DOMAIN queue = 1..Len(queue)
      /\ \A i \in 1..Len(queue) : queue[i] \in Event
  BY <1>t, LenProperties, ElementOfSeq
<1>a. /\ SubSeq(queue, 1, n) \in Seq(Event) /\ Len(SubSeq(queue, 1, n)) = n
      /\ \A i \in 1..n : SubSeq(queue, 1, n)[i] = queue[i]
  BY <1>t, FirstOf
<1>b. /\ queue' \in Seq(Event) /\ Len(queue') = Len(queue) - n
      /\ \A i \in 1..Len(queue) - n : queue'[i] = queue[n + i]
  BY <1>u, <1>t, RestOf
<1>d. DOMAIN SubSeq(queue, 1, n) = 1..n /\ DOMAIN queue' = 1..Len(queue) - n
  BY <1>a, <1>b, LenProperties
<1>p. \A p : p \in batch <=> \E i \in 1..n : p \in queue[i].paths
  BY <1>a, <1>d DEF PathsOf
<1> HIDE DEF batch
<1>s. batch \in SUBSET Path
  BY <1>l, <1>p DEF Event
<1>1. /\ callback' \in Callback /\ callback' # Idle /\ ~At("send")'
      /\ \A p \in batch : \/ p \in callback'.left
                          \/ p = callback'.at /\ callback'.step = "look"
  BY <1>u, <1>s, WorkType
<1>2. Stuck' \subseteq Stuck
  <2> SUFFICES ASSUME NEW p \in due, InFlight(p) PROVE InFlight(p)'
    BY <1>u DEF Stuck
  <2>1. PICK i \in 1..Len(queue) : p \in queue[i].paths
    BY <1>u, <1>l DEF InFlight
  <2>2. CASE i <= n
    BY <1>1, <1>l, <1>p, <2>1, <2>2 DEF InFlight
  <2>3. CASE i > n
    <3>1. i - n \in DOMAIN queue' /\ queue'[i - n] = queue[i]
      BY <1>b, <1>d, <1>l, <2>3
    <3> QED
      BY <1>u, <2>1, <3>1 DEF InFlight, Acts
  <2> QED
    BY <1>l, <2>2, <2>3
<1>3. OutdatedEntriesAreCounted'
  BY <1>u, <1>2, FewerStuck
<1>4. RemovalsAreAccountedFor'
  <2>1. ~At("send")
    BY <1>u DEF At
  <2> QED
    BY <1>u, <1>1, <2>1 DEF IInv, RemovalsAreAccountedFor
<1> QED
  BY <1>u, <1>t, <1>b, <1>1, <1>3, <1>4, CallbackKeeps

(* A path that is not cached was due for nothing.                          *)
LEMMA LookKeeps ==
  ASSUME IInv, Look
  PROVE  IInv'
<1>u. /\ callback # Idle /\ callback.step = "look" /\ queue' = queue
      /\ UNCHANGED <<world, store, watches, due, poisoned>>
      /\ mode' = mode /\ due' = due /\ poisoned' = poisoned /\ channel' = channel
      /\ dropped' = dropped /\ failed' = failed /\ owed' = owed
      /\ (rows[callback.at] = NoRow /\ NextPath) \/ LookFound
  BY DEF Look, At, watches, report
<1>t. /\ queue \in Seq(Event) /\ TypeOK
      /\ channel \in 0..Capacity /\ dropped \in Nat /\ failed \in Nat /\ owed \in Nat
  BY DEF IInv, TypeOK
<1>1. /\ callback' \in Callback \cup {Idle} /\ ~At("send")'
      /\ \A p \in callback.left : /\ callback' # Idle
                                  /\ \/ p \in callback'.left
                                     \/ p = callback'.at /\ callback'.step = "look"
      /\ callback.at \in due => callback' # Idle /\ callback'.at = callback.at
                                /\ callback'.step = "remove"
  <2>1. CASE rows[callback.at] = NoRow /\ NextPath
    <3>1. callback.at \notin due
      BY <2>1 DEF IInv, DueOK, Cached
    <3> QED
      BY <1>u, <1>t, <2>1, <3>1, NextPathType
  <2>2. CASE LookFound
    <3>1. /\ callback' \in Callback /\ callback' # Idle
          /\ callback'.left = callback.left /\ callback'.at = callback.at
          /\ callback'.step = "remove"
      BY <1>u, <1>t, <2>2, StepType DEF LookFound
    <3> QED
      BY <3>1 DEF At
  <2> QED
    BY <1>u, <2>1, <2>2
<1>2. Stuck' \subseteq Stuck
  <2> SUFFICES ASSUME NEW p \in due, InFlight(p) PROVE InFlight(p)'
    BY <1>u DEF Stuck
  <2> QED
    BY <1>u, <1>1 DEF InFlight, Acts, Actionable
<1>3. OutdatedEntriesAreCounted'
  BY <1>u, <1>2, FewerStuck
<1>4. RemovalsAreAccountedFor'
  <2>1. ~At("send")
    BY <1>u DEF At
  <2> QED
    BY <1>u, <1>1, <2>1 DEF IInv, RemovalsAreAccountedFor
<1> QED
  BY <1>u, <1>t, <1>1, <1>3, <1>4, CallbackKeeps

LEMMA RemoveCachedKeeps ==
  ASSUME IInv, RemoveCached
  PROVE  IInv'
<1>u. /\ callback # Idle /\ callback.step = "remove"
      /\ rows' = [rows EXCEPT ![callback.at] = NoRow] /\ due' = due \ {callback.at}
      /\ owed' = owed + 1 /\ callback' = [callback EXCEPT !.step = "send"]
      /\ files' = files /\ changes' = changes /\ saving' = saving
      /\ phase' = phase /\ mode' = mode /\ listed' = listed /\ watched' = watched
      /\ dirWatched' = dirWatched /\ queue' = queue /\ channel' = channel
      /\ dropped' = dropped /\ failed' = failed /\ poisoned' = poisoned
  BY DEF RemoveCached, At, world, watches
<1>t. /\ rows \in [Path -> Version \cup {NoRow}] /\ owed \in Nat /\ TypeOK
  BY DEF IInv, TypeOK
<1>c. /\ callback' \in Callback /\ callback' # Idle
      /\ callback'.left = callback.left /\ callback'.at = callback.at
      /\ callback'.step = "send"
  BY <1>u, <1>t, StepType
<1>1. rows' \in [Path -> Version \cup {NoRow}] /\ DueOK'
  BY <1>u, <1>t DEF IInv, DueOK, Cached
<1>2. TypeOK'
  BY <1>u, <1>t, <1>c, <1>1 DEF TypeOK
<1>3. Stuck' \subseteq Stuck
  <2> SUFFICES ASSUME NEW p \in due, p # callback.at, InFlight(p) PROVE InFlight(p)'
    BY <1>u DEF Stuck
  <2> QED
    BY <1>u, <1>c DEF InFlight, Acts, Actionable
<1>4. OutdatedEntriesAreCounted'
  BY <1>u, <1>3, FewerStuck
<1>5. QuietOK'
  BY <1>u DEF IInv, QuietOK
<1>6. RemovalsAreAccountedFor'
  <2>1. ~At("send") /\ At("send")'
    BY <1>u, <1>c DEF At
  <2>2. channel \in Nat /\ dropped \in Nat /\ owed = channel + dropped
    BY <2>1, WatcherAssumption DEF IInv, TypeOK, RemovalsAreAccountedFor
  <2> QED
    BY <1>u, <2>1, <2>2 DEF RemovalsAreAccountedFor
<1> QED
  BY <1>1, <1>2, <1>4, <1>5, <1>6 DEF IInv

(* The path of a failed removal may be left behind: one more failure.      *)
LEMMA RemoveFailsKeeps ==
  ASSUME IInv, RemoveFails
  PROVE  IInv'
<1>u. /\ callback # Idle /\ callback.step = "remove" /\ queue' = queue /\ NextPath
      /\ UNCHANGED <<world, store, watches, due, poisoned>>
      /\ mode' = mode /\ due' = due /\ poisoned' = poisoned /\ channel' = channel
      /\ dropped' = dropped /\ failed' = failed + 1 /\ owed' = owed
  BY DEF RemoveFails, At, watches
<1>t. /\ queue \in Seq(Event) /\ TypeOK
      /\ channel \in 0..Capacity /\ dropped \in Nat /\ failed \in Nat /\ owed \in Nat
  BY DEF IInv, TypeOK
<1>1. /\ callback' \in Callback \cup {Idle} /\ ~At("send")'
      /\ \A p \in callback.left : /\ callback' # Idle
                                  /\ \/ p \in callback'.left
                                     \/ p = callback'.at /\ callback'.step = "look"
  BY <1>u, <1>t, NextPathType
<1>2. Stuck' \subseteq Stuck \cup {callback.at}
  <2> SUFFICES ASSUME NEW p \in due, p # callback.at, InFlight(p) PROVE InFlight(p)'
    BY <1>u DEF Stuck
  <2> QED
    BY <1>u, <1>1 DEF InFlight, Acts, Actionable
<1>3. OutdatedEntriesAreCounted'
  BY <1>u, <1>2, OneMoreStuck
<1>4. RemovalsAreAccountedFor'
  <2>1. ~At("send")
    BY <1>u DEF At
  <2> QED
    BY <1>u, <1>1, <2>1 DEF IInv, RemovalsAreAccountedFor
<1>5. failed' \in Nat
  BY <1>u, <1>t
<1> QED
  BY <1>u, <1>t, <1>1, <1>3, <1>4, <1>5, CallbackKeeps

LEMMA SendKeeps ==
  ASSUME IInv, Send
  PROVE  IInv'
<1>u. /\ callback # Idle /\ callback.step = "send" /\ queue' = queue /\ NextPath
      /\ UNCHANGED <<world, store, watches, due, poisoned>>
      /\ mode' = mode /\ due' = due /\ poisoned' = poisoned
      /\ failed' = failed /\ owed' = owed
      /\ \/ channel < Capacity /\ channel' = channel + 1 /\ dropped' = dropped
         \/ dropped' = dropped + 1 /\ channel' = channel
  BY DEF Send, At, watches
<1>t. /\ queue \in Seq(Event) /\ TypeOK /\ Capacity \in Nat
      /\ channel \in 0..Capacity /\ dropped \in Nat /\ failed \in Nat /\ owed \in Nat
  BY WatcherAssumption DEF IInv, TypeOK
<1>1. /\ callback' \in Callback \cup {Idle} /\ ~At("send")'
      /\ \A p \in callback.left : /\ callback' # Idle
                                  /\ \/ p \in callback'.left
                                     \/ p = callback'.at /\ callback'.step = "look"
  BY <1>u, <1>t, NextPathType
<1>2. Stuck' \subseteq Stuck
  <2> SUFFICES ASSUME NEW p \in due, InFlight(p) PROVE InFlight(p)'
    BY <1>u DEF Stuck
  <2> QED
    BY <1>u, <1>1 DEF InFlight, Acts, Actionable
<1>3. OutdatedEntriesAreCounted'
  BY <1>u, <1>2, FewerStuck
<1>4. RemovalsAreAccountedFor'
  <2>1. At("send")
    BY <1>u DEF At
  <2>2. owed = channel + dropped + 1
    BY <2>1 DEF IInv, RemovalsAreAccountedFor
  <2> QED
    BY <1>u, <1>t, <1>1, <2>2 DEF RemovalsAreAccountedFor
<1>5. channel' \in 0..Capacity /\ dropped' \in Nat
  BY <1>u, <1>t
<1> QED
  BY <1>u, <1>t, <1>1, <1>3, <1>4, <1>5, CallbackKeeps

-----------------------------------------------------------------------------
LEMMA StutterKeeps ==
  ASSUME IInv, UNCHANGED vars
  PROVE  IInv'
<1>u. /\ UNCHANGED <<world, store, watches, due, poisoned>>
      /\ queue' = queue /\ callback' = callback /\ mode' = mode /\ due' = due
      /\ channel' = channel /\ dropped' = dropped /\ failed' = failed /\ owed' = owed
      /\ poisoned' = poisoned
  BY DEF vars, watches, report
<1>t. /\ queue \in Seq(Event) /\ callback \in Callback \cup {Idle}
      /\ channel \in 0..Capacity /\ dropped \in Nat /\ failed \in Nat /\ owed \in Nat
  BY DEF IInv, TypeOK
<1>1. Stuck' \subseteq Stuck
  BY <1>u, SameFlight
<1>2. OutdatedEntriesAreCounted'
  BY <1>u, <1>1, FewerStuck
<1>3. RemovalsAreAccountedFor'
  BY <1>u DEF IInv, RemovalsAreAccountedFor, At
<1> QED
  BY <1>u, <1>t, <1>2, <1>3, CallbackKeeps

LEMMA NextInvariance == IInv /\ [Next]_vars => IInv'
<1> SUFFICES ASSUME IInv, [Next]_vars PROVE IInv'
  OBVIOUS
<1>1. CASE UNCHANGED vars
  BY <1>1, StutterKeeps
<1>2. ASSUME NEW p \in Path, WriteFile(p) \/ RemoveFile(p) \/ ReadFile(p) PROVE IInv'
  BY <1>2, FilesKeep
<1>3. ASSUME NEW p \in Path, NEW q \in Path, RenameFile(p, q) PROVE IInv'
  BY <1>3, FilesKeep
<1>4. ASSUME NEW p \in Path, Measure(p) \/ RemoveEntry(p) PROVE IInv'
  BY <1>4, StoreKeeps
<1>5. CASE CommitSet
  <2>1. saving.path \in Path
    BY <1>5 DEF CommitSet, IInv, TypeOK
  <2> QED
    BY <1>5, <2>1, StoreKeeps
<1>6. CASE ListKeys
  BY <1>6, ListKeysKeeps
<1>7. CASE RegisterDirs
  BY <1>7, WatchesKeep DEF RegisterDirs, IInv, TypeOK
<1>8. CASE Started
  BY <1>8, WatchesKeep DEF Started, IInv, TypeOK
<1>9. ASSUME NEW p \in Path, Register(p) \/ RegisterFails(p) \/ Watch(p) \/ Unwatch(p)
      PROVE  IInv'
  BY <1>9, RegistrationsKeep
<1>10. CASE WatchDir \/ UnwatchDir
  BY <1>10, WatchesKeep DEF WatchDir, UnwatchDir, IInv, TypeOK
<1>11. CASE Drop \/ Poison \/ Receive
  BY <1>11, DropKeeps, PoisonKeeps, ReceiveKeeps
<1>12. CASE Take
  BY <1>12, TakeEventKeeps, TakeBatchKeeps DEF Take
<1>13. CASE Handle
  BY <1>13, LookKeeps, RemoveCachedKeeps, RemoveFailsKeeps, SendKeeps DEF Handle
<1> QED
  BY <1>1, <1>2, <1>3, <1>4, <1>5, <1>6, <1>7, <1>8, <1>9, <1>10, <1>11, <1>12, <1>13
     DEF Next

(* The inductive invariant of a watcher (start_watcher, the callbacks).    *)
THEOREM Invariance == Spec => []IInv
<1> QED
  BY InitInvariance, NextInvariance, PTL DEF Spec

(* An entry outdated under a watch stays without a counted failure only as *)
(* long as its event or its path is on the way (failed_invalidation_count).*)
THEOREM OutdatedAreCounted == Spec => []OutdatedEntriesAreCounted
<1>1. IInv => OutdatedEntriesAreCounted
  BY DEF IInv
<1> QED
  BY <1>1, Invariance, PTL

(* Every removal is received, waits in the channel or was counted as       *)
(* dropped (try_send, dropped_event_count).                                *)
THEOREM RemovalsAreCounted == Spec => []RemovalsAreAccountedFor
<1>1. IInv => RemovalsAreAccountedFor
  BY DEF IInv
<1> QED
  BY <1>1, Invariance, PTL
=============================================================================
