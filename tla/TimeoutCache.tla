---- MODULE TimeoutCache ----
(***************************************************************************)
(* TimeoutCache.java: a ConcurrentHashMap whose entries are removed by     *)
(* tasks of a ScheduledExecutorService with one thread. put() is           *)
(* synchronized, but get(), remove(), close() and the cleanup tasks run    *)
(* between any two of its steps.                                           *)
(***************************************************************************)
EXTENDS Naturals

CONSTANTS Key, Entry, None, Timeout     \* as in Cache

ASSUME CacheAssumption == /\ Key # {}
                          /\ None \notin Entry
                          /\ Timeout \in Nat \ {0}

VARIABLES
    map,        \* mResults
    age,        \* ticks since an entry was put, and the keys that are empty
    removed,    \* because remove() emptied them: only the promise looks at these
    key,        \* the key an entry's cleanup removes
    task,       \* its cleanup: "none", "waiting", "running"
    left,       \* ticks until a waiting cleanup is due
    future,     \* whether its mFuture was set
    put,        \* where the one put in progress is
    fresh,      \* the entry it puts
    prev,       \* prevCacheValues
    state       \* "open", "closing" (inside close()) or "shut" (shutdownNow() is done)

vars == <<map, age, removed, key, task, left, future, put, fresh, prev, state>>

TypeOK ==
    /\ map \in [Key -> Entry \cup {None}]
    /\ age \in [Entry -> 0..Timeout]
    /\ removed \in SUBSET Key
    /\ key \in [Entry -> Key]
    /\ task \in [Entry -> {"none", "waiting", "running"}]
    /\ left \in [Entry -> 0..Timeout]
    /\ future \in [Entry -> BOOLEAN]
    /\ put \in {"idle", "stored", "released", "scheduled"}
    /\ fresh \in Entry \cup {None}
    /\ prev \in Entry \cup {None}
    /\ state \in {"open", "closing", "shut"}

Init ==
    /\ map = [k \in Key |-> None]
    /\ age = [e \in Entry |-> 0]
    /\ removed = {}
    /\ key = [e \in Entry |-> CHOOSE k \in Key : TRUE]
    /\ task = [e \in Entry |-> "none"]
    /\ left = [e \in Entry |-> 0]
    /\ future = [e \in Entry |-> FALSE]
    /\ put = "idle"
    /\ fresh = None
    /\ prev = None
    /\ state = "open"

----------------------------------------------------------------------------
(* An entry nothing refers to any more stands for a new CacheValues.      *)
Unreferenced(e) == /\ \A k \in Key : map[k] # e
                   /\ task[e] = "none"
                   /\ e \notin {fresh, prev}

PutStores(k, e) ==
    /\ put = "idle" /\ Unreferenced(e)
    /\ prev' = map[k]
    /\ map' = [map EXCEPT ![k] = e]
    /\ age' = [age EXCEPT ![e] = 0]
    /\ removed' = removed \ {k}
    /\ key' = [key EXCEPT ![e] = k]
    /\ future' = [future EXCEPT ![e] = FALSE]
    /\ fresh' = e
    /\ put' = "stored"
    /\ UNCHANGED <<task, left, state>>

(* A cleanup that runs already is only interrupted, which it ignores.     *)
Cancelled(e) ==
    IF task[e] = "waiting" THEN [task EXCEPT ![e] = "none"] ELSE task

(* put() ends, normally or by an exception.                               *)
PutEnds == put' = "idle" /\ fresh' = None /\ prev' = None

PutCancels ==
    /\ put = "stored"
    /\ prev # None => future[prev]
    /\ task' = IF prev = None THEN task ELSE Cancelled(prev)
    /\ put' = "released"
    /\ UNCHANGED <<map, age, removed, key, left, future, fresh, prev, state>>

(* prevCacheValues.mFuture is null: put() throws before it schedules.     *)
PutThrowsNull ==
    /\ put = "stored"
    /\ prev # None /\ ~future[prev]
    /\ PutEnds
    /\ UNCHANGED <<map, age, removed, key, task, left, future, state>>

PutSchedulesOnce ==
    /\ put = "released" /\ state # "shut"
    /\ task' = IF prev = None THEN [task EXCEPT ![fresh] = "waiting"] ELSE task
    /\ left' = [left EXCEPT ![fresh] = Timeout]
    /\ put' = "scheduled"
    /\ UNCHANGED <<map, age, removed, key, future, fresh, prev, state>>

PutSchedules ==
    /\ put = "released" /\ state # "shut"
    /\ task' = [task EXCEPT ![fresh] = "waiting"]
    /\ left' = [left EXCEPT ![fresh] = Timeout]
    /\ put' = "scheduled"
    /\ UNCHANGED <<map, age, removed, key, future, fresh, prev, state>>

(* RejectedExecutionException: the executor is shut down.                 *)
PutRejected ==
    /\ put = "released" /\ state = "shut"
    /\ PutEnds
    /\ UNCHANGED <<map, age, removed, key, task, left, future, state>>

FutureForgotten == UNCHANGED future
FutureAttached == future' = [future EXCEPT ![fresh] = TRUE]

PutAttaches ==
    /\ put = "scheduled"
    /\ FutureAttached
    /\ PutEnds
    /\ UNCHANGED <<map, age, removed, key, task, left, state>>

Remove(k) ==
    /\ map[k] # None
    /\ map' = [map EXCEPT ![k] = None]
    /\ removed' = removed \cup {k}
    /\ UNCHANGED <<age, key, task, left, future, put, fresh, prev, state>>

(* The executor has one thread.                                           *)
TaskStarts(e) ==
    /\ task[e] = "waiting" /\ left[e] = 0
    /\ \A f \in Entry : task[f] # "running"
    /\ task' = [task EXCEPT ![e] = "running"]
    /\ UNCHANGED <<map, age, removed, key, left, future, put, fresh, prev, state>>

(* cleanupCacheRunnable: remove(key, cacheValues) takes the key out only  *)
(* while it still holds this very entry.                                  *)
CleanedBlindly(e) == [map EXCEPT ![key[e]] = None]
Cleaned(e) == IF map[key[e]] = e THEN [map EXCEPT ![key[e]] = None] ELSE map

TaskRemoves(e) ==
    /\ task[e] = "running"
    /\ map' = Cleaned(e)
    /\ task' = [task EXCEPT ![e] = "none"]
    /\ UNCHANGED <<age, removed, key, left, future, put, fresh, prev, state>>

(* close(): cancels the cleanups it finds, one by one, then shutdownNow() *)
(* drops those that are left; entries stay in the map.                    *)
CloseBegins ==
    /\ state = "open"
    /\ state' = "closing"
    /\ UNCHANGED <<map, age, removed, key, task, left, future, put, fresh, prev>>

CloseCancels(e) ==
    /\ state = "closing"
    /\ map[key[e]] = e /\ future[e] /\ task[e] = "waiting"
    /\ task' = Cancelled(e)
    /\ UNCHANGED <<map, age, removed, key, left, future, put, fresh, prev, state>>

CloseShutsDown ==
    /\ state = "closing"
    /\ state' = "shut"
    /\ task' = [e \in Entry |-> IF task[e] = "waiting" THEN "none" ELSE task[e]]
    /\ UNCHANGED <<map, age, removed, key, left, future, put, fresh, prev>>

Tick ==
    /\ age' = [e \in Entry |-> IF age[e] < Timeout THEN age[e] + 1 ELSE Timeout]
    /\ left' = [e \in Entry |-> IF left[e] > 0 THEN left[e] - 1 ELSE 0]
    /\ UNCHANGED <<map, removed, key, task, future, put, fresh, prev, state>>

----------------------------------------------------------------------------
PutStep == PutCancels \/ PutThrowsNull \/ PutSchedules \/ PutRejected \/ PutAttaches

Next ==
    \/ \E k \in Key : Remove(k) \/ \E e \in Entry : PutStores(k, e)
    \/ PutStep
    \/ \E e \in Entry : TaskStarts(e) \/ TaskRemoves(e) \/ CloseCancels(e)
    \/ CloseBegins \/ CloseShutsDown
    \/ Tick

Spec == Init /\ [][Next]_vars

(* The thread inside put() and the executor's thread run, the clock ticks. *)
Fairness == /\ WF_vars(PutStep)
            /\ WF_vars(Tick)
            /\ \A e \in Entry : SF_vars(TaskStarts(e)) /\ WF_vars(TaskRemoves(e))

FairSpec == Spec /\ Fairness

----------------------------------------------------------------------------
(* Properties                                                             *)

(* "This avoid race conditions": until close() every entry in the map is  *)
(* either still being put or has its own cleanup pending, so no entry     *)
(* outlives its timeout for good, in whatever order puts, removes and     *)
(* cleanups of the same key interleave.                                   *)
EntryHasCleanup ==
    state = "open" =>
        \A k \in Key : map[k] # None => \/ task[map[k]] # "none"
                                       \/ (fresh = map[k] /\ put \in {"stored", "released"})

(* put() never meets a previous entry without its future while the cache  *)
(* is open: the null dereference of PutThrowsNull needs a rejected put.   *)
PreviousHasFuture ==
    (state = "open" /\ put = "stored" /\ prev # None) => future[prev]

(* A closed cache runs no more cleanups, except one already running.      *)
ClosedSchedulesNothing ==
    state = "shut" => \A e \in Entry : task[e] # "waiting"

(* An entry that nobody removes or replaces is dropped in the end.        *)
EntriesExpire ==
    \A k \in Key, e \in Entry : map[k] = e ~> (map[k] # e \/ state # "open")

(* A cleanup is due only Timeout ticks after its entry was put.           *)
CleanupNotEarly ==
    \A e \in Entry : /\ task[e] = "waiting" => left[e] + age[e] >= Timeout
                     /\ task[e] = "running" => age[e] = Timeout

(* Two keys never share an entry, and an entry knows its key.             *)
EntryKnowsKey == \A k \in Key : map[k] # None => key[map[k]] = k

(* An entry whose put is over and not failed has its future.              *)
FutureSet ==
    state = "open" =>
        /\ \A k \in Key : map[k] # None => (future[map[k]] \/ fresh = map[k])
        /\ (prev # None /\ put = "stored") => future[prev]

PutInProgress ==
    /\ (put = "idle") <=> (fresh = None)
    /\ prev # None => (put # "idle" /\ prev # fresh)
    /\ put \in {"stored", "released"} => task[fresh] = "none"
    /\ \A k \in Key : prev # None => map[k] # prev

IInv == /\ TypeOK
        /\ EntryKnowsKey
        /\ CleanupNotEarly
        /\ PutInProgress
        /\ FutureSet
        /\ EntryHasCleanup
        /\ ClosedSchedulesNothing

(* Every step of put(), remove(), close() and the cleanups is a step of   *)
(* the cache a caller may rely on: values go only when asked or when old. *)
Promise == INSTANCE Cache
ImplementsCache == Promise!Spec
====
