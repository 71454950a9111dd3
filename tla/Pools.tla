------------------------------- MODULE Pools -------------------------------
(***************************************************************************)
(* Engines behind mutexes.  A ReadPool has several slots, each call begins *)
(* at the next one, tries each without waiting and then waits for the      *)
(* first.  SyncCacheEngine and AsyncCacheEngine have one slot and wait for *)
(* it, the asynchronous one on a thread of the runtime, and its caller may *)
(* give up before the answer.  A panic poisons the mutex it was under.     *)
(*                                                                         *)
(* What an engine does under its lock is one step here; no call is made    *)
(* from inside another (the documentation forbids it).                     *)
(***************************************************************************)
EXTENDS Integers, FiniteSets

CONSTANTS Task,       \* calls that may be under way at once
          Size,       \* slots of a ReadPool
          Kinds,      \* of what is shared
          Workers,    \* blocking threads of the runtime
          Wrap,       \* 2^64, where the counter of a pool begins again
          MaxCalls,   \* bounds the calls
          Nobody

ASSUME PoolsAssumption ==
  /\ IsFiniteSet(Task) /\ Nobody \notin Task
  /\ Kinds \subseteq {"pool", "sync", "async"}
  /\ {Size, Workers, Wrap} \subseteq Nat \ {0} /\ MaxCalls \in Nat

VARIABLES kind,
          holder,    \* by slot: the task that has the lock
          poisoned,  \* slots
          next,      \* the counter of the pool
          task,      \* by task: where it is, its first slot, how many it tried
          gone,      \* tasks whose caller gave up
          calls,
          taken      \* for the properties: slots a task has found taken

vars == <<kind, holder, poisoned, next, task, gone, calls, taken>>

Slots == 0..(IF kind = "pool" THEN Size ELSE 1) - 1

Steps == {"idle", "queued", "scanning", "blocking", "using",
          "done", "Poisoned", "panicked"}

TypeOK ==
  /\ kind \in {"pool", "sync", "async"}
  /\ holder \in [Slots -> Task \cup {Nobody}]
  /\ poisoned \subseteq Slots
  /\ next \in 0..Wrap - 1
  /\ task \in [Task -> [step : Steps, start : Slots, tried : 0..Size, slot : Slots]]
  /\ gone \subseteq Task /\ (gone # {} => kind = "async")
  /\ calls \in 0..MaxCalls
  /\ taken \in [Task -> SUBSET Slots]

Idle == [step |-> "idle", start |-> 0, tried |-> 0, slot |-> 0]

Init ==
  /\ kind \in Kinds
  /\ holder = [s \in Slots |-> Nobody]
  /\ poisoned = {}
  /\ next \in 0..Wrap - 1
  /\ task = [t \in Task |-> Idle]
  /\ gone = {}
  /\ calls = 0
  /\ taken = [t \in Task |-> {}]

Free(s) == holder[s] = Nobody

Move(t, step) == task' = [task EXCEPT ![t].step = step]

-----------------------------------------------------------------------------
(* fetch_add.                                                              *)
Counted == (next + 1) % Wrap

Begin(t) ==
  /\ task[t].step = "idle" /\ calls < MaxCalls
  /\ calls' = calls + 1
  /\ UNCHANGED <<kind, holder, poisoned, gone, taken>>

CallPool(t) ==
  /\ kind = "pool" /\ Begin(t)
  /\ next' = Counted
  /\ task' = [task EXCEPT ![t] =
                [step |-> "scanning", start |-> next % Size, tried |-> 0, slot |-> 0]]

CallSync(t) ==
  /\ kind = "sync" /\ Begin(t)
  /\ Move(t, "blocking")
  /\ UNCHANGED next

CallAsync(t) ==
  /\ kind = "async" /\ Begin(t)
  /\ Move(t, "queued")
  /\ UNCHANGED next

Call(t) == CallPool(t) \/ CallSync(t) \/ CallAsync(t)

(* spawn_blocking: a task that waits for the lock keeps its thread.        *)
StartTask(t) ==
  /\ task[t].step = "queued"
  /\ Cardinality({u \in Task : task[u].step \in {"blocking", "using"}}) < Workers
  /\ Move(t, "blocking")
  /\ UNCHANGED <<kind, holder, poisoned, next, gone, calls, taken>>

(* Mutant: a poisoned slot is recovered and used.                          *)
TryOpensPoisoned(s) == Free(s)

(* try_lock: a poisoned slot is like a busy one.                           *)
TryOpens(s) == Free(s) /\ s \notin poisoned

(* The call goes on with the guard of slot s.                              *)
Locks(t, s) ==
  /\ holder' = [holder EXCEPT ![s] = t]
  /\ task' = [task EXCEPT ![t] =
                [step |-> "using", start |-> @.start, tried |-> @.tried, slot |-> s]]

(* Mutant: the scan ends one slot early.                                   *)
ScanEndsEarly(t) == task[t].tried >= Size - 1

ScanEnds(t) == task[t].tried = Size

TryLock(t) ==
  LET s == (task[t].start + task[t].tried) % Size
  IN  /\ task[t].step = "scanning" /\ ~ScanEnds(t)
      /\ IF TryOpens(s)
         THEN Locks(t, s) /\ UNCHANGED taken
         ELSE /\ task' = [task EXCEPT ![t].tried = @ + 1]
              /\ taken' = [taken EXCEPT ![t] = @ \cup {s}]
              /\ UNCHANGED holder
      /\ UNCHANGED <<kind, poisoned, next, gone, calls>>

GiveUpScanning(t) ==
  /\ task[t].step = "scanning" /\ ScanEnds(t)
  /\ Move(t, "blocking")
  /\ UNCHANGED <<kind, holder, poisoned, next, gone, calls, taken>>

(* lock: waits, and reports a poisoned slot.                               *)
Lock(t) ==
  LET s == task[t].start
  IN  /\ task[t].step = "blocking" /\ Free(s)
      /\ IF s \in poisoned
         THEN Move(t, "Poisoned") /\ UNCHANGED holder
         ELSE Locks(t, s)
      /\ UNCHANGED <<kind, poisoned, next, gone, calls, taken>>

(* The engine has done its work; the guard is dropped.                     *)
Work(t) ==
  /\ task[t].step = "using"
  /\ holder' = [holder EXCEPT ![task[t].slot] = Nobody]
  /\ Move(t, "done")
  /\ UNCHANGED <<kind, poisoned, next, gone, calls, taken>>

(* Mutant: the unwinding leaves the slot locked.                           *)
PanicKeepingLock(t) ==
  /\ task[t].step = "using"
  /\ poisoned' = poisoned \cup {task[t].slot}
  /\ Move(t, "panicked")
  /\ UNCHANGED <<kind, holder, next, gone, calls, taken>>

(* A panic under the lock: the guard poisons the mutex and unlocks it.     *)
Panic(t) ==
  /\ task[t].step = "using"
  /\ poisoned' = poisoned \cup {task[t].slot}
  /\ holder' = [holder EXCEPT ![task[t].slot] = Nobody]
  /\ Move(t, "panicked")
  /\ UNCHANGED <<kind, next, gone, calls, taken>>

(* The caller's future is dropped.  The task goes on, except that one      *)
(* runtime drops what it has not started.                                  *)
Abandon(t) ==
  /\ kind = "async" /\ t \notin gone
  /\ \/ /\ task[t].step \in {"queued", "blocking", "using"}
        /\ gone' = gone \cup {t} /\ UNCHANGED task
     \/ /\ task[t].step = "queued"
        /\ task' = [task EXCEPT ![t] = Idle] /\ UNCHANGED gone
  /\ UNCHANGED <<kind, holder, poisoned, next, calls, taken>>

(* The caller has its result: an answer, the error Poisoned, the panic     *)
(* itself or, from the runtime, AsyncTaskPanicked.                         *)
Return(t) ==
  /\ task[t].step \in {"done", "Poisoned", "panicked"}
  /\ task' = [task EXCEPT ![t] = Idle]
  /\ gone' = gone \ {t}
  /\ taken' = [taken EXCEPT ![t] = {}]
  /\ UNCHANGED <<kind, holder, poisoned, next, calls>>

Proceed(t) ==
  StartTask(t) \/ TryLock(t) \/ GiveUpScanning(t) \/ Lock(t) \/ Work(t) \/ Return(t)

Next == \E t \in Task : Call(t) \/ Proceed(t) \/ Panic(t) \/ Abandon(t)

(* Threads run.  Mutexes promise no order: a call that waits gets its slot *)
(* only once the others make no more calls.                                *)
Spec == Init /\ [][Next]_vars /\ \A t \in Task : WF_vars(Proceed(t))

-----------------------------------------------------------------------------
(* An engine serves one call at a time, also when a caller has given up on *)
(* a call that still runs, and none at all once a call has panicked in it: *)
(* its state may be half changed (checkout, lock).                         *)
EnginesAreUsedAlone ==
  \A t \in Task : task[t].step = "using" =>
    /\ task[t].slot \notin poisoned
    /\ \A u \in Task : task[u].step = "using" /\ task[u].slot = task[t].slot => u = t

(* A pool waits, or fails as poisoned, only after each of its slots was    *)
(* taken when it was tried, and contention alone is never an error: the    *)
(* slot reported is really poisoned (checkout).                            *)
SlotsAreAllTried ==
  \A t \in Task :
    /\ kind = "pool" /\ task[t].step \in {"blocking", "Poisoned"} => taken[t] = Slots
    /\ task[t].step = "Poisoned" => task[t].start \in poisoned

(* Every call ends: nobody waits for a slot that is never released, after  *)
(* panics, with every slot poisoned, with callers gone and with fewer      *)
(* threads than tasks.                                                     *)
CallsReturn == \A t \in Task : task[t].step # "idle" ~> task[t].step = "idle"

-----------------------------------------------------------------------------
(* What makes them inductive: a lock is held by the one call that works    *)
(* under it, and the slots found taken are those the scan has passed.      *)
HoldersWork ==
  \A t \in Task : task[t].step = "using" =>
    holder[task[t].slot] = t /\ task[t].slot \notin poisoned

ScansPassTakenSlots ==
  \A t \in Task : kind = "pool" =>
    /\ task[t].step # "queued"
    /\ task[t].step = "scanning" =>
         \A i \in 0..task[t].tried - 1 : (task[t].start + i) % Size \in taken[t]
    /\ task[t].step \in {"blocking", "Poisoned"} => taken[t] = Slots

PoisonIsReported ==
  \A t \in Task : task[t].step = "Poisoned" => task[t].start \in poisoned

OnlyPoolsScan == \A t \in Task : task[t].step = "scanning" => kind = "pool"

(* The inductive invariant.                                                *)
IInv == TypeOK /\ HoldersWork /\ ScansPassTakenSlots /\ PoisonIsReported /\ OnlyPoolsScan
=============================================================================
