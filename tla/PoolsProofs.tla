---------------------------- MODULE PoolsProofs ----------------------------
(***************************************************************************)
(* Engines behind mutexes, for any number of calls, slots and threads and  *)
(* wherever the counter of the pool stands: an engine serves one call at a *)
(* time and none after a panic, and a pool waits or fails only after every *)
(* slot was found taken.                                                   *)
(***************************************************************************)
EXTENDS Pools, TLAPS

(* A remainder is a slot.                                                  *)
LEMMA RemainderInRange ==
  ASSUME NEW n \in Nat \ {0}, NEW x \in Nat
  PROVE  x % n \in 0..n - 1
OBVIOUS

LEMMA RemainderOfSmall ==
  ASSUME NEW n \in Nat \ {0}, NEW x \in 0..n - 1
  PROVE  x % n = x
OBVIOUS

LEMMA RemainderWrapsOnce ==
  ASSUME NEW n \in Nat \ {0}, NEW x \in 0..n - 1
  PROVE  (x + n) % n = x
OBVIOUS

(* A scan of Size steps passes every slot, wherever it begins.             *)
LEMMA ScanPassesAll ==
  ASSUME NEW start \in 0..Size - 1, NEW s \in 0..Size - 1
  PROVE  \E i \in 0..Size - 1 : (start + i) % Size = s
<1>0. Size \in Nat \ {0}
  BY PoolsAssumption
<1>1. CASE start <= s
  <2>1. s - start \in 0..Size - 1 /\ start + (s - start) = s
    BY <1>0, <1>1
  <2> QED BY <1>0, <2>1, RemainderOfSmall
<1>2. CASE s < start
  <2>1. s + Size - start \in 0..Size - 1 /\ start + (s + Size - start) = s + Size
    BY <1>0, <1>2
  <2> QED BY <1>0, <2>1, RemainderWrapsOnce
<1> QED BY <1>0, <1>1, <1>2

(* The slots, and the parts of a task.                                     *)
LEMMA SlotsOfKind ==
  /\ kind = "pool" => Slots = 0..Size - 1
  /\ kind # "pool" => Slots = {0}
  /\ 0 \in Slots /\ Size \in Nat \ {0} /\ Wrap \in Nat \ {0}
<1>1. Size \in Nat \ {0} /\ Wrap \in Nat \ {0}
  BY PoolsAssumption
<1>2. 0..1 - 1 = {0}
  OBVIOUS
<1> QED BY <1>1, <1>2 DEF Slots

TaskRecord == [step : Steps, start : Slots, tried : 0..Size, slot : Slots]

LEMMA TaskTypes ==
  ASSUME TypeOK, NEW t \in Task
  PROVE  /\ task[t] \in TaskRecord /\ task[t].step \in Steps
         /\ task[t].start \in Slots /\ task[t].slot \in Slots
         /\ task[t].tried \in 0..Size
BY DEF TypeOK, TaskRecord

(* IInv, one task at a time.                                               *)
OneOK(t) ==
  /\ task[t].step = "using" => holder[task[t].slot] = t /\ task[t].slot \notin poisoned
  /\ kind = "pool" => task[t].step # "queued"
  /\ kind = "pool" /\ task[t].step = "scanning" =>
       \A i \in 0..task[t].tried - 1 : (task[t].start + i) % Size \in taken[t]
  /\ kind = "pool" /\ task[t].step \in {"blocking", "Poisoned"} => taken[t] = Slots
  /\ task[t].step = "Poisoned" => task[t].start \in poisoned
  /\ task[t].step = "scanning" => kind = "pool"

LEMMA OneByOne == IInv <=> TypeOK /\ \A t \in Task : OneOK(t)
BY DEF IInv, OneOK, HoldersWork, ScansPassTakenSlots, PoisonIsReported, OnlyPoolsScan

LEMMA Together ==
  ASSUME TypeOK', NEW t \in Task, OneOK(t)', \A u \in Task \ {t} : OneOK(u)'
  PROVE  IInv'
<1>1. \A u \in Task : OneOK(u)'
  OBVIOUS
<1> QED
  BY <1>1 DEF IInv, OneOK, HoldersWork, ScansPassTakenSlots, PoisonIsReported, OnlyPoolsScan

(* A task that does not move keeps its part, unless its slot is freed or   *)
(* poisoned under it.                                                      *)
LEMMA OthersKeepTheirs ==
  ASSUME NEW u \in Task, OneOK(u),
         UNCHANGED kind, task'[u] = task[u], taken'[u] = taken[u], poisoned \subseteq poisoned',
         task[u].step = "using" => /\ holder'[task[u].slot] = holder[task[u].slot]
                                   /\ task[u].slot \notin poisoned' \ poisoned
  PROVE  OneOK(u)'
<1>1. Slots' = Slots
  BY DEF Slots
<1> QED BY <1>1 DEF OneOK

LEMMA InitInvariant == Init => IInv
<1> SUFFICES ASSUME Init PROVE IInv
  OBVIOUS
<1>1. kind \in {"pool", "sync", "async"} /\ next \in 0..Wrap - 1
  BY PoolsAssumption DEF Init
<1>2. Idle \in TaskRecord
  BY SlotsOfKind DEF Idle, TaskRecord, Steps
<1>3. task \in [Task -> TaskRecord] /\ taken \in [Task -> SUBSET Slots]
  BY <1>2 DEF Init
<1>4. holder \in [Slots -> Task \cup {Nobody}] /\ poisoned \subseteq Slots
  BY DEF Init
<1>5. calls \in 0..MaxCalls /\ gone = {}
  BY PoolsAssumption DEF Init
<1>6. TypeOK
  BY <1>1, <1>3, <1>4, <1>5 DEF TypeOK, TaskRecord
<1>7. ASSUME NEW t \in Task PROVE OneOK(t)
  BY DEF OneOK, Init, Idle
<1> QED BY <1>6, <1>7, OneByOne

(* A call begins.                                                          *)
LEMMA CallKeeps ==
  ASSUME IInv, NEW t \in Task, Call(t)
  PROVE  IInv'
<1> TypeOK /\ \A u \in Task : OneOK(u)
  BY OneByOne
<1> DEFINE f == (next % Size)
<1>1. /\ UNCHANGED <<kind, holder, poisoned, gone, taken>>
      /\ Slots' = Slots
  BY DEF Call, CallPool, CallSync, CallAsync, Begin, Slots
<1>2. calls' \in 0..MaxCalls
  BY PoolsAssumption DEF Call, CallPool, CallSync, CallAsync, Begin, TypeOK
<1>3. next' \in 0..Wrap - 1
  <2>1. next \in Nat /\ next + 1 \in Nat
    BY SlotsOfKind DEF TypeOK
  <2>2. (next + 1) % Wrap \in 0..Wrap - 1
    BY <2>1, SlotsOfKind, RemainderInRange
  <2> QED BY <2>2 DEF Call, CallPool, CallSync, CallAsync, Counted, TypeOK
<1>4. CASE CallPool(t)
  <2>1. next \in Nat
    BY SlotsOfKind DEF TypeOK
  <2>2. f \in 0..Size - 1
    BY <2>1, SlotsOfKind, RemainderInRange
  <2>3. kind = "pool" /\ f \in Slots
    BY <1>4, <2>2, SlotsOfKind DEF CallPool
  <2> DEFINE r == [step |-> "scanning", start |-> f, tried |-> 0, slot |-> 0]
  <2>4. task' = [task EXCEPT ![t] = r]
    BY <1>4 DEF CallPool
  <2>5. r \in TaskRecord
    BY <2>3, SlotsOfKind DEF TaskRecord, Steps
  <2> HIDE DEF f, r
  <2>6. task' \in [Task -> TaskRecord] /\ task'[t] = r /\ \A u \in Task \ {t} : task'[u] = task[u]
    BY <2>4, <2>5 DEF TypeOK, TaskRecord
  <2>7. TypeOK'
    BY <1>1, <1>2, <1>3, <2>6 DEF TypeOK, TaskRecord
  <2>8. OneOK(t)'
    BY <1>1, <2>3, <2>6 DEF OneOK, r
  <2>9. ASSUME NEW u \in Task \ {t} PROVE OneOK(u)'
    BY <1>1, <2>6, OthersKeepTheirs
  <2> QED BY <2>7, <2>8, <2>9, Together
<1>5. ASSUME NEW step \in {"blocking", "queued"}, Move(t, step), kind # "pool"
      PROVE  IInv'
  <2>1. /\ task' \in [Task -> TaskRecord] /\ task'[t].step = step
        /\ \A u \in Task \ {t} : task'[u] = task[u]
    BY <1>5 DEF TypeOK, TaskRecord, Move, Steps
  <2>2. TypeOK'
    BY <1>1, <1>2, <1>3, <2>1 DEF TypeOK, TaskRecord
  <2>3. OneOK(t)'
    BY <1>1, <1>5, <2>1 DEF OneOK
  <2>4. ASSUME NEW u \in Task \ {t} PROVE OneOK(u)'
    BY <1>1, <2>1, OthersKeepTheirs
  <2> QED BY <2>2, <2>3, <2>4, Together
<1> QED BY <1>4, <1>5 DEF Call, CallSync, CallAsync

(* A task goes on without a change of any lock.                            *)
LEMMA MoveKeeps ==
  ASSUME IInv, NEW t \in Task, NEW step \in Steps \ {"using"}, Move(t, step),
         UNCHANGED <<kind, holder, poisoned, next, gone, calls, taken>>,
         kind = "pool" => step \notin {"queued", "scanning"},
         kind = "pool" /\ step \in {"blocking", "Poisoned"} => taken[t] = Slots,
         step = "Poisoned" => task[t].start \in poisoned,
         step = "scanning" => kind = "pool"
  PROVE  IInv'
<1> TypeOK /\ \A u \in Task : OneOK(u)
  BY OneByOne
<1>1. Slots' = Slots
  BY DEF Slots
<1>2. /\ task' \in [Task -> TaskRecord]
      /\ task'[t].step = step /\ task'[t].start = task[t].start
      /\ \A u \in Task \ {t} : task'[u] = task[u]
  BY DEF TypeOK, TaskRecord, Move
<1>3. TypeOK'
  BY <1>1, <1>2 DEF TypeOK, TaskRecord
<1>4. OneOK(t)'
  BY <1>1, <1>2 DEF OneOK
<1>5. ASSUME NEW u \in Task \ {t} PROVE OneOK(u)'
  BY <1>2, OthersKeepTheirs
<1> QED BY <1>3, <1>4, <1>5, Together

(* A task gets a lock that was free: no task at work had it.               *)
LEMMA LockKeeps ==
  ASSUME IInv, NEW t \in Task, NEW s \in Slots, Free(s), s \notin poisoned,
         Locks(t, s),
         UNCHANGED <<kind, poisoned, next, gone, calls, taken>>
  PROVE  IInv'
<1> TypeOK /\ \A u \in Task : OneOK(u)
  BY OneByOne
<1>1. Slots' = Slots
  BY DEF Slots
<1> DEFINE r == [step |-> "using", start |-> task[t].start,
                 tried |-> task[t].tried, slot |-> s]
<1>2. task[t] \in TaskRecord
  BY TaskTypes
<1>4. task' = [task EXCEPT ![t] = r] /\ holder' = [holder EXCEPT ![s] = t]
  BY DEF Locks
<1>5. r \in TaskRecord /\ r.step = "using" /\ r.slot = s
  BY <1>2 DEF TaskRecord, Steps
<1> HIDE DEF r
<1>6. task' \in [Task -> TaskRecord] /\ task'[t] = r /\ \A u \in Task \ {t} : task'[u] = task[u]
  BY <1>4, <1>5 DEF TypeOK, TaskRecord
<1>7. /\ holder' \in [Slots -> Task \cup {Nobody}] /\ holder'[s] = t
      /\ \A q \in Slots \ {s} : holder'[q] = holder[q]
  BY <1>4 DEF TypeOK
<1>8. TypeOK'
  BY <1>1, <1>6, <1>7 DEF TypeOK, TaskRecord
<1>9. OneOK(t)'
  BY <1>5, <1>6, <1>7 DEF OneOK
<1>10. ASSUME NEW u \in Task \ {t} PROVE OneOK(u)'
  <2>1. task[u].step = "using" => task[u].slot # s
    BY PoolsAssumption DEF OneOK, Free
  <2>2. task[u].slot \in Slots
    BY TaskTypes
  <2> QED BY <1>6, <1>7, <2>1, <2>2, OthersKeepTheirs
<1> QED BY <1>8, <1>9, <1>10, Together

(* A task ends its work and unlocks its slot, poisoned or not.             *)
LEMMA UnlockKeeps ==
  ASSUME IInv, NEW t \in Task, task[t].step = "using",
         NEW step \in {"done", "panicked"}, Move(t, step),
         holder' = [holder EXCEPT ![task[t].slot] = Nobody],
         poisoned' \in {poisoned, poisoned \cup {task[t].slot}},
         UNCHANGED <<kind, next, gone, calls, taken>>
  PROVE  IInv'
<1> TypeOK /\ \A u \in Task : OneOK(u)
  BY OneByOne
<1>1. Slots' = Slots
  BY DEF Slots
<1>2. /\ task' \in [Task -> TaskRecord] /\ task'[t].step = step
      /\ \A u \in Task \ {t} : task'[u] = task[u]
  BY DEF TypeOK, TaskRecord, Move, Steps
<1>3. task[t].slot \in Slots
  BY TaskTypes
<1>4. /\ holder' \in [Slots -> Task \cup {Nobody}]
      /\ \A q \in Slots \ {task[t].slot} : holder'[q] = holder[q]
  BY <1>3 DEF TypeOK
<1>5. poisoned \subseteq poisoned' /\ poisoned' \subseteq Slots
  BY <1>3 DEF TypeOK
<1>6. TypeOK'
  BY <1>1, <1>2, <1>4, <1>5 DEF TypeOK, TaskRecord
<1>7. OneOK(t)'
  BY <1>2 DEF OneOK
<1>8. ASSUME NEW u \in Task \ {t} PROVE OneOK(u)'
  <2>1. task[u].step = "using" => task[u].slot # task[t].slot
    BY DEF OneOK
  <2>2. task[u].slot \in Slots
    BY TaskTypes
  <2> QED BY <1>2, <1>4, <1>5, <2>1, <2>2, OthersKeepTheirs
<1> QED BY <1>6, <1>7, <1>8, Together

(* A try_lock of a scan.                                                   *)
LEMMA TryKeeps ==
  ASSUME IInv, NEW t \in Task, TryLock(t)
  PROVE  IInv'
<1> TypeOK /\ \A u \in Task : OneOK(u)
  BY OneByOne
<1> DEFINE s == (task[t].start + task[t].tried) % Size
<1>1. Slots' = Slots
  BY DEF TryLock, Slots
<1>2. kind = "pool" /\ Slots = 0..Size - 1
  BY SlotsOfKind DEF TryLock, OneOK
<1>3. task[t].start \in 0..Size - 1 /\ task[t].tried \in 0..Size - 1
  BY <1>2, TaskTypes, SlotsOfKind DEF TryLock, ScanEnds
<1>4. s \in Slots
  <2>1. task[t].start + task[t].tried \in Nat
    BY <1>3, SlotsOfKind
  <2> QED BY <1>2, <2>1, RemainderInRange, SlotsOfKind
<1>5. CASE TryOpens(s)
  BY <1>4, <1>5, LockKeeps DEF TryLock, TryOpens
<1>6. CASE ~TryOpens(s)
  <2>1. /\ task' = [task EXCEPT ![t].tried = @ + 1]
        /\ taken' = [taken EXCEPT ![t] = @ \cup {s}]
        /\ UNCHANGED <<kind, holder, poisoned, next, gone, calls>>
    BY <1>6 DEF TryLock
  <2>2. task[t].tried + 1 \in 0..Size
    BY <1>3, SlotsOfKind
  <2>3. task[t] \in TaskRecord
    BY TaskTypes
  <2>4. /\ task' \in [Task -> TaskRecord]
        /\ task'[t].step = task[t].step /\ task'[t].start = task[t].start
        /\ task'[t].tried = task[t].tried + 1
        /\ \A u \in Task \ {t} : task'[u] = task[u]
    BY <2>1, <2>2, <2>3 DEF TypeOK, TaskRecord
  <2> HIDE DEF s
  <2>5. /\ taken' \in [Task -> SUBSET Slots] /\ taken'[t] = taken[t] \cup {s}
        /\ \A u \in Task \ {t} : taken'[u] = taken[u]
    BY <1>4, <2>1 DEF TypeOK
  <2>6. TypeOK'
    BY <1>1, <2>1, <2>4, <2>5 DEF TypeOK, TaskRecord
  <2>7. OneOK(t)'
    <3>1. ASSUME NEW i \in 0..task'[t].tried - 1
          PROVE  (task'[t].start + i) % Size \in taken'[t]
      <4>1. i \in 0..task[t].tried - 1 \/ i = task[t].tried
        BY <1>3, <2>4, SlotsOfKind
      <4>2. CASE i = task[t].tried
        BY <2>4, <2>5, <4>2 DEF s
      <4>3. CASE i \in 0..task[t].tried - 1
        BY <1>2, <2>4, <2>5, <4>3 DEF OneOK, TryLock
      <4> QED BY <4>1, <4>2, <4>3
    <3> QED BY <1>2, <2>1, <2>4, <3>1 DEF OneOK, TryLock
  <2>8. ASSUME NEW u \in Task \ {t} PROVE OneOK(u)'
    BY <2>1, <2>4, <2>5, OthersKeepTheirs
  <2> QED BY <2>6, <2>7, <2>8, Together
<1> QED BY <1>5, <1>6

(* The caller gives up, or has its result.                                 *)
LEMMA IdleAgain ==
  ASSUME IInv, NEW t \in Task, task' = [task EXCEPT ![t] = Idle],
         UNCHANGED <<kind, holder, poisoned, next, calls>>,
         gone' \subseteq gone, taken' \in {taken, [taken EXCEPT ![t] = {}]}
  PROVE  IInv'
<1> TypeOK /\ \A u \in Task : OneOK(u)
  BY OneByOne
<1>1. Slots' = Slots
  BY DEF Slots
<1>2. Idle \in TaskRecord /\ Idle.step = "idle"
  BY SlotsOfKind DEF Idle, TaskRecord, Steps
<1>3. /\ task' \in [Task -> TaskRecord] /\ task'[t] = Idle
      /\ \A u \in Task \ {t} : task'[u] = task[u]
  BY <1>2 DEF TypeOK, TaskRecord
<1>4. taken' \in [Task -> SUBSET Slots] /\ \A u \in Task \ {t} : taken'[u] = taken[u]
  BY DEF TypeOK
<1>5. TypeOK'
  BY <1>1, <1>3, <1>4 DEF TypeOK, TaskRecord
<1>6. OneOK(t)'
  BY <1>2, <1>3 DEF OneOK
<1>7. ASSUME NEW u \in Task \ {t} PROVE OneOK(u)'
  BY <1>3, <1>4, OthersKeepTheirs
<1> QED BY <1>5, <1>6, <1>7, Together

LEMMA AbandonKeeps ==
  ASSUME IInv, NEW t \in Task, Abandon(t)
  PROVE  IInv'
<1>1. CASE task' = [task EXCEPT ![t] = Idle] /\ UNCHANGED gone
  BY <1>1, IdleAgain DEF Abandon
<1>2. CASE gone' = gone \cup {t} /\ UNCHANGED task
  <2>1. TypeOK /\ \A u \in Task : OneOK(u)
    BY OneByOne
  <2>2. UNCHANGED <<kind, holder, poisoned, next, task, calls, taken, Slots>> /\ kind = "async"
    BY <1>2 DEF Abandon, Slots
  <2>3. TypeOK'
    BY <1>2, <2>1, <2>2 DEF TypeOK
  <2>4. ASSUME NEW u \in Task PROVE OneOK(u)'
    BY <2>1, <2>2, OthersKeepTheirs
  <2> QED BY <2>3, <2>4, Together
<1> QED BY <1>1, <1>2 DEF Abandon

LEMMA NextInvariant == IInv /\ [Next]_vars => IInv'
<1> SUFFICES ASSUME IInv, [Next]_vars PROVE IInv'
  OBVIOUS
<1> TypeOK /\ \A t \in Task : OneOK(t)
  BY OneByOne
<1>1. ASSUME NEW t \in Task, Call(t) PROVE IInv'
  BY <1>1, CallKeeps
<1>2. ASSUME NEW t \in Task, StartTask(t) PROVE IInv'
  BY <1>2, MoveKeeps DEF StartTask, OneOK, Steps
<1>3. ASSUME NEW t \in Task, TryLock(t) PROVE IInv'
  BY <1>3, TryKeeps
<1>4. ASSUME NEW t \in Task, GiveUpScanning(t) PROVE IInv'
  <2>1. task[t].step = "scanning" /\ kind = "pool" /\ Slots = 0..Size - 1
    BY <1>4, SlotsOfKind DEF GiveUpScanning, OneOK
  <2>2. task[t].start \in 0..Size - 1 /\ task[t].tried = Size
    BY <1>4, <2>1, TaskTypes DEF GiveUpScanning, ScanEnds
  <2>3. ASSUME NEW s \in Slots PROVE s \in taken[t]
    <3>1. PICK i \in 0..Size - 1 : (task[t].start + i) % Size = s
      BY <2>1, <2>2, ScanPassesAll
    <3> QED BY <2>1, <2>2, <3>1 DEF OneOK
  <2>4. taken[t] = Slots
    BY <2>3 DEF TypeOK
  <2> QED BY <1>4, <2>4, MoveKeeps DEF GiveUpScanning, Steps
<1>5. ASSUME NEW t \in Task, Lock(t) PROVE IInv'
  <2>1. task[t].start \in Slots
    BY TaskTypes
  <2>2. CASE task[t].start \in poisoned
    BY <1>5, <2>2, MoveKeeps DEF Lock, OneOK, Steps
  <2>3. CASE task[t].start \notin poisoned
    BY <1>5, <2>1, <2>3, LockKeeps DEF Lock
  <2> QED BY <2>2, <2>3
<1>6. ASSUME NEW t \in Task, Work(t) PROVE IInv'
  BY <1>6, UnlockKeeps DEF Work
<1>7. ASSUME NEW t \in Task, Panic(t) PROVE IInv'
  BY <1>7, UnlockKeeps DEF Panic
<1>8. ASSUME NEW t \in Task, Abandon(t) PROVE IInv'
  BY <1>8, AbandonKeeps
<1>9. ASSUME NEW t \in Task, Return(t) PROVE IInv'
  BY <1>9, IdleAgain DEF Return
<1>10. CASE UNCHANGED vars
  <2>1. UNCHANGED Slots
    BY <1>10 DEF vars, Slots
  <2>2. UNCHANGED TypeOK
    BY <1>10, <2>1 DEF vars, TypeOK
  <2>3. ASSUME NEW t \in Task PROVE OneOK(t)'
    BY <1>10, OthersKeepTheirs DEF vars
  <2> QED
    BY <2>2, <2>3 DEF IInv, OneOK, HoldersWork, ScansPassTakenSlots, PoisonIsReported, OnlyPoolsScan
<1> QED
  BY <1>1, <1>2, <1>3, <1>4, <1>5, <1>6, <1>7, <1>8, <1>9, <1>10 DEF Next, Proceed

-----------------------------------------------------------------------------
(* The inductive invariant holds of every behaviour: a lock is held by the *)
(* call that works under it, and the slots a scan has passed were taken.   *)
THEOREM Invariance == Spec => []IInv
<1> QED BY InitInvariant, NextInvariant, PTL DEF Spec

(* An engine serves one call at a time, and none after a panic under its   *)
(* lock, also when callers give up (checkout, lock, with_engine).          *)
THEOREM EnginesServeOneCall == Spec => []EnginesAreUsedAlone
<1>1. IInv => EnginesAreUsedAlone
  BY DEF IInv, HoldersWork, EnginesAreUsedAlone
<1> QED BY <1>1, Invariance, PTL

(* A pool waits, or fails, only after each slot was found taken, and       *)
(* reports a slot that is poisoned, for any number of slots (checkout).    *)
THEOREM PoolsTryEverySlot == Spec => []SlotsAreAllTried
<1>1. IInv => SlotsAreAllTried
  BY DEF IInv, ScansPassTakenSlots, PoisonIsReported, SlotsAreAllTried
<1> QED BY <1>1, Invariance, PTL
=============================================================================
