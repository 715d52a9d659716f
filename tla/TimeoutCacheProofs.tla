---- MODULE TimeoutCacheProofs ----
(***************************************************************************)
(* TimeoutCache for any keys, any number of puts and any timeout: its      *)
(* invariant is inductive, and every step is a step of Cache or none.      *)
(***************************************************************************)
EXTENDS TimeoutCache, TLAPS

(* The actions of Next, one by one.                                       *)
LEMMA StepCases ==
  ASSUME Next
  PROVE  \/ \E k \in Key, e \in Entry : PutStores(k, e)
         \/ PutCancels \/ PutThrowsNull \/ PutSchedules \/ PutRejected \/ PutAttaches
         \/ \E k \in Key : Remove(k)
         \/ \E e \in Entry : TaskStarts(e)
         \/ \E e \in Entry : TaskRemoves(e)
         \/ \E e \in Entry : CloseCancels(e)
         \/ CloseBegins \/ CloseShutsDown
         \/ Tick
  BY DEF Next, PutStep

(* There is a key to start with.                                          *)
LEMMA SomeKey == (CHOOSE k \in Key : TRUE) \in Key
  <1>1. \E k \in Key : TRUE
    BY CacheAssumption
  <1> QED
    BY <1>1, Zenon

(* A new cache is empty.                                                  *)
LEMMA InitInv == Init => IInv
  <1> SUFFICES ASSUME Init PROVE IInv
    OBVIOUS
  <1> USE CacheAssumption DEF Init
  <1>1. (CHOOSE k \in Key : TRUE) \in Key
    BY SomeKey
  <1>2. key \in [Entry -> Key]
    BY <1>1, Zenon
  <1>3. TypeOK
    <2> HIDE DEF Init
    <2>1. /\ map = [k \in Key |-> None] /\ age = [e \in Entry |-> 0]
          /\ task = [e \in Entry |-> "none"] /\ left = [e \in Entry |-> 0]
          /\ future = [e \in Entry |-> FALSE]
      BY Zenon DEF Init
    <2>2. /\ removed = {} /\ put = "idle" /\ state = "open"
          /\ fresh = None /\ prev = None
      BY Zenon DEF Init
    <2> QED
      BY <1>2, <2>1, <2>2 DEF TypeOK
  <1>4. EntryKnowsKey /\ PutInProgress /\ FutureSet /\ EntryHasCleanup
    BY DEF EntryKnowsKey, PutInProgress, FutureSet, EntryHasCleanup
  <1>5. CleanupNotEarly /\ ClosedSchedulesNothing
    BY DEF CleanupNotEarly, ClosedSchedulesNothing
  <1> QED
    BY <1>3, <1>4, <1>5 DEF IInv

(* An entry is put under one key, and no cleanup moves it.                *)
LEMMA KnowsStep ==
  ASSUME TypeOK, EntryKnowsKey, PutInProgress, [Next]_vars
  PROVE  EntryKnowsKey'
  <1> USE CacheAssumption DEF TypeOK, EntryKnowsKey
  <1>1. ASSUME NEW k \in Key, NEW e \in Entry, PutStores(k, e) PROVE EntryKnowsKey'
    BY <1>1 DEF PutStores, Unreferenced
  <1>2. ASSUME NEW k \in Key, Remove(k) PROVE EntryKnowsKey'
    BY <1>2 DEF Remove
  <1>3. ASSUME NEW e \in Entry, TaskRemoves(e) PROVE EntryKnowsKey'
    BY <1>3 DEF TaskRemoves, Cleaned
  <1>4. CASE UNCHANGED <<map, key>>
    BY <1>4
  <1>5. CASE UNCHANGED vars
    BY <1>5, <1>4 DEF vars
  <1> QED
    BY <1>1, <1>2, <1>3, <1>4, <1>5, StepCases
    DEF PutCancels, PutThrowsNull, PutSchedules, PutRejected, PutAttaches, TaskStarts,
        CloseCancels, CloseBegins, CloseShutsDown, Tick

(* Types.                                                                 *)
LEMMA TypeStep ==
  ASSUME TypeOK, PutInProgress, [Next]_vars
  PROVE  TypeOK'
  <1> USE CacheAssumption DEF TypeOK
  <1>1. ASSUME NEW k \in Key, NEW e \in Entry, PutStores(k, e) PROVE TypeOK'
    BY <1>1 DEF PutStores
  <1>2. CASE PutCancels
    BY <1>2 DEF PutCancels, Cancelled
  <1>3. CASE PutThrowsNull \/ PutRejected
    BY <1>3 DEF PutThrowsNull, PutRejected, PutEnds
  <1>4. CASE PutSchedules
    <2>1. fresh \in Entry
      BY <1>4 DEF PutSchedules, PutInProgress
    <2> QED
      BY <1>4, <2>1 DEF PutSchedules
  <1>5. CASE PutAttaches
    BY <1>5 DEF PutAttaches, FutureAttached, PutEnds
  <1>6. ASSUME NEW k \in Key, Remove(k) PROVE TypeOK'
    BY <1>6 DEF Remove
  <1>7. ASSUME NEW e \in Entry, TaskStarts(e) \/ CloseCancels(e) PROVE TypeOK'
    BY <1>7 DEF TaskStarts, CloseCancels, Cancelled
  <1>8. ASSUME NEW e \in Entry, TaskRemoves(e) PROVE TypeOK'
    BY <1>8 DEF TaskRemoves, Cleaned
  <1>9. CASE CloseBegins \/ CloseShutsDown
    BY <1>9 DEF CloseBegins, CloseShutsDown
  <1>10. CASE Tick
    BY <1>10 DEF Tick
  <1>11. CASE UNCHANGED vars
    BY <1>11 DEF vars
  <1> QED
    BY <1>1, <1>2, <1>3, <1>4, <1>5, <1>6, <1>7, <1>8, <1>9, <1>10, <1>11, StepCases

(* The clock that counts a cleanup down also ages its entry.              *)
LEMMA EarlyStep ==
  ASSUME TypeOK, CleanupNotEarly, PutInProgress, [Next]_vars
  PROVE  CleanupNotEarly'
  <1> USE CacheAssumption DEF TypeOK, CleanupNotEarly
  <1>1. ASSUME NEW k \in Key, NEW e \in Entry, PutStores(k, e) PROVE CleanupNotEarly'
    BY <1>1 DEF PutStores, Unreferenced
  <1>2. CASE PutCancels
    BY <1>2 DEF PutCancels, Cancelled
  <1>3. CASE PutSchedules
    BY <1>3 DEF PutSchedules, PutInProgress
  <1>4. ASSUME NEW e \in Entry, TaskStarts(e) PROVE CleanupNotEarly'
    BY <1>4 DEF TaskStarts
  <1>5. ASSUME NEW e \in Entry, TaskRemoves(e) \/ CloseCancels(e) PROVE CleanupNotEarly'
    BY <1>5 DEF TaskRemoves, CloseCancels, Cancelled
  <1>6. CASE CloseShutsDown
    BY <1>6 DEF CloseShutsDown
  <1>7. CASE Tick
    BY <1>7 DEF Tick
  <1>8. CASE UNCHANGED <<age, task, left>>
    BY <1>8
  <1>9. CASE UNCHANGED vars
    BY <1>9, <1>8 DEF vars
  <1> QED
    BY <1>1, <1>2, <1>3, <1>4, <1>5, <1>6, <1>7, <1>8, <1>9, StepCases
    DEF PutThrowsNull, PutRejected, PutAttaches, Remove, CloseBegins

(* put() keeps its own entry and the one it replaced apart.               *)
LEMMA ProgressStep ==
  ASSUME TypeOK, EntryKnowsKey, PutInProgress, [Next]_vars
  PROVE  PutInProgress'
  <1> USE CacheAssumption DEF TypeOK, EntryKnowsKey, PutInProgress
  <1>1. ASSUME NEW k \in Key, NEW e \in Entry, PutStores(k, e) PROVE PutInProgress'
    BY <1>1 DEF PutStores, Unreferenced
  <1>2. CASE PutCancels
    BY <1>2 DEF PutCancels, Cancelled
  <1>3. CASE PutThrowsNull \/ PutRejected \/ PutAttaches
    BY <1>3 DEF PutThrowsNull, PutRejected, PutAttaches, PutEnds
  <1>4. CASE PutSchedules
    BY <1>4 DEF PutSchedules
  <1>5. ASSUME NEW k \in Key, Remove(k) PROVE PutInProgress'
    BY <1>5 DEF Remove
  <1>6. ASSUME NEW e \in Entry, TaskStarts(e) PROVE PutInProgress'
    BY <1>6 DEF TaskStarts
  <1>7. ASSUME NEW e \in Entry, TaskRemoves(e) PROVE PutInProgress'
    BY <1>7 DEF TaskRemoves, Cleaned
  <1>8. ASSUME NEW e \in Entry, CloseCancels(e) PROVE PutInProgress'
    BY <1>8 DEF CloseCancels, Cancelled
  <1>9. CASE CloseBegins \/ CloseShutsDown \/ Tick
    BY <1>9 DEF CloseBegins, CloseShutsDown, Tick
  <1>10. CASE UNCHANGED vars
    BY <1>10 DEF vars
  <1> QED
    BY <1>1, <1>2, <1>3, <1>4, <1>5, <1>6, <1>7, <1>8, <1>9, <1>10, StepCases

(* A put that is over has attached its future, unless close() came first. *)
LEMMA FutureStep ==
  ASSUME TypeOK, PutInProgress, FutureSet, [Next]_vars
  PROVE  FutureSet'
  <1> USE CacheAssumption DEF TypeOK, PutInProgress, FutureSet
  <1>1. ASSUME NEW k \in Key, NEW e \in Entry, PutStores(k, e) PROVE FutureSet'
    BY <1>1 DEF PutStores, Unreferenced
  <1>2. CASE PutCancels \/ PutSchedules
    BY <1>2 DEF PutCancels, PutSchedules
  <1>3. CASE PutThrowsNull \/ PutRejected
    BY <1>3 DEF PutThrowsNull, PutRejected, PutEnds
  <1>4. CASE PutAttaches
    BY <1>4 DEF PutAttaches, FutureAttached, PutEnds
  <1>5. ASSUME NEW k \in Key, Remove(k) PROVE FutureSet'
    BY <1>5 DEF Remove
  <1>6. ASSUME NEW e \in Entry, TaskStarts(e) \/ CloseCancels(e) PROVE FutureSet'
    BY <1>6 DEF TaskStarts, CloseCancels
  <1>7. ASSUME NEW e \in Entry, TaskRemoves(e) PROVE FutureSet'
    BY <1>7 DEF TaskRemoves, Cleaned
  <1>8. CASE CloseBegins \/ CloseShutsDown \/ Tick
    BY <1>8 DEF CloseBegins, CloseShutsDown, Tick
  <1>9. CASE UNCHANGED vars
    BY <1>9 DEF vars
  <1> QED
    BY <1>1, <1>2, <1>3, <1>4, <1>5, <1>6, <1>7, <1>8, <1>9, StepCases

(* Only the replaced entry's cleanup is cancelled, and the entry a        *)
(* cleanup was for is gone when it ends.                                  *)
LEMMA CleanupStep ==
  ASSUME TypeOK, EntryKnowsKey, PutInProgress, FutureSet, EntryHasCleanup, [Next]_vars
  PROVE  EntryHasCleanup'
  <1> USE CacheAssumption DEF TypeOK, PutInProgress, EntryHasCleanup
  <1>1. ASSUME NEW k \in Key, NEW e \in Entry, PutStores(k, e) PROVE EntryHasCleanup'
    BY <1>1 DEF PutStores, Unreferenced
  <1>2. CASE PutCancels
    BY <1>2 DEF PutCancels, Cancelled
  <1>3. CASE PutThrowsNull
    BY <1>3 DEF PutThrowsNull, FutureSet
  <1>4. CASE PutRejected
    BY <1>4 DEF PutRejected
  <1>5. CASE PutSchedules
    BY <1>5 DEF PutSchedules
  <1>6. CASE PutAttaches
    BY <1>6 DEF PutAttaches, PutEnds
  <1>7. ASSUME NEW k \in Key, Remove(k) PROVE EntryHasCleanup'
    BY <1>7 DEF Remove
  <1>8. ASSUME NEW e \in Entry, TaskStarts(e) PROVE EntryHasCleanup'
    BY <1>8 DEF TaskStarts
  <1>9. ASSUME NEW e \in Entry, TaskRemoves(e) PROVE EntryHasCleanup'
    BY <1>9 DEF TaskRemoves, Cleaned, EntryKnowsKey
  <1>10. ASSUME NEW e \in Entry, CloseCancels(e) PROVE EntryHasCleanup'
    BY <1>10 DEF CloseCancels
  <1>11. CASE CloseBegins \/ CloseShutsDown \/ Tick
    BY <1>11 DEF CloseBegins, CloseShutsDown, Tick
  <1>12. CASE UNCHANGED vars
    BY <1>12 DEF vars
  <1> QED
    BY <1>1, <1>2, <1>3, <1>4, <1>5, <1>6, <1>7, <1>8, <1>9, <1>10, <1>11, <1>12, StepCases

(* Nothing is scheduled once shutdownNow() has run.                       *)
LEMMA ClosedStep ==
  ASSUME TypeOK, ClosedSchedulesNothing, [Next]_vars
  PROVE  ClosedSchedulesNothing'
  <1> USE DEF TypeOK, ClosedSchedulesNothing
  <1>1. CASE PutCancels
    BY <1>1 DEF PutCancels, Cancelled
  <1>2. CASE PutSchedules
    BY <1>2 DEF PutSchedules
  <1>3. ASSUME NEW e \in Entry, TaskStarts(e) \/ TaskRemoves(e) \/ CloseCancels(e)
        PROVE  ClosedSchedulesNothing'
    BY <1>3 DEF TaskStarts, TaskRemoves, CloseCancels, Cancelled
  <1>4. CASE CloseBegins \/ CloseShutsDown
    BY <1>4 DEF CloseBegins, CloseShutsDown
  <1>5. CASE UNCHANGED <<task, state>>
    BY <1>5
  <1>6. CASE UNCHANGED vars
    BY <1>6, <1>5 DEF vars
  <1> QED
    BY <1>1, <1>2, <1>3, <1>4, <1>5, <1>6, StepCases
    DEF PutStores, PutThrowsNull, PutRejected, PutAttaches, Remove, Tick

(* One step of the cache keeps every part of the invariant.               *)
LEMMA StepInv == IInv /\ [Next]_vars => IInv'
  BY TypeStep, KnowsStep, EarlyStep, ProgressStep, FutureStep, CleanupStep, ClosedStep
  DEF IInv

(* The invariant of the cache, cleanup of every entry included.           *)
THEOREM Invariance == Spec => []IInv
  BY InitInv, StepInv, PTL DEF Spec

(* put() dereferences no missing future while the cache is open.          *)
THEOREM NoNullFuture == Spec => []PreviousHasFuture
  <1>1. IInv => PreviousHasFuture
    BY DEF IInv, FutureSet, PreviousHasFuture
  <1>2. Spec => []IInv
    BY Invariance
  <1> QED
    BY <1>1, <1>2, PTL

(* Every step of the cache is a step of the abstract cache or none.       *)
LEMMA RefinesStep == IInv /\ [Next]_vars => [Promise!Next]_(Promise!vars)
  <1> SUFFICES ASSUME IInv, [Next]_vars PROVE [Promise!Next]_(Promise!vars)
    OBVIOUS
  <1> USE CacheAssumption DEF IInv, TypeOK, Promise!Next, Promise!vars
  <1>1. ASSUME NEW k \in Key, NEW e \in Entry, PutStores(k, e) PROVE Promise!Put(k, e)
    BY <1>1 DEF PutStores, Unreferenced, Promise!Put
  <1>2. ASSUME NEW k \in Key, Remove(k) PROVE Promise!Remove(k)
    BY <1>2 DEF Remove, Promise!Remove
  <1>3. ASSUME NEW e \in Entry, TaskRemoves(e)
        PROVE  Promise!Expire(key[e]) \/ UNCHANGED Promise!vars
    BY <1>3 DEF TaskRemoves, Cleaned, CleanupNotEarly, Promise!Expire
  <1>4. CASE Tick
    BY <1>4 DEF Tick, Promise!Tick
  <1>5. CASE UNCHANGED <<map, age, removed>>
    BY <1>5
  <1>6. CASE UNCHANGED vars
    BY <1>6 DEF vars
  <1> QED
    BY <1>1, <1>2, <1>3, <1>4, <1>5, <1>6, StepCases
    DEF PutCancels, PutThrowsNull, PutSchedules, PutRejected, PutAttaches, TaskStarts,
        CloseCancels, CloseBegins, CloseShutsDown

(* TimeoutCache implements the cache its callers rely on.                 *)
THEOREM Refinement == Spec => ImplementsCache
  <1>1. Init => Promise!Init
    BY DEF Init, Promise!Init
  <1>2. Spec => []IInv
    BY Invariance
  <1> QED
    BY <1>1, <1>2, RefinesStep, PTL DEF Spec, ImplementsCache, Promise!Spec
====
