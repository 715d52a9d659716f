---- MODULE Cache ----
(***************************************************************************)
(* What TimeoutCache promises: a key holds the value last put there until  *)
(* it is removed, put again, or as old as its timeout, and no cleanup that *)
(* belongs to an older value takes it away earlier.                        *)
(***************************************************************************)
EXTENDS Naturals

CONSTANTS Key,          \* the keys: session cookies
          Entry,        \* one CacheValues object per put
          None,
          Timeout       \* the timeout of a put, in ticks of the clock

VARIABLES map,          \* the entry each key holds
          age,          \* ticks since an entry was put, up to Timeout
          removed       \* the keys that are empty because a caller removed them

vars == <<map, age, removed>>

Init == /\ map = [k \in Key |-> None]
        /\ age = [e \in Entry |-> 0]
        /\ removed = {}

Put(k, e) == /\ \A l \in Key : map[l] # e
             /\ map' = [map EXCEPT ![k] = e]
             /\ age' = [age EXCEPT ![e] = 0]
             /\ removed' = removed \ {k}

Remove(k) == /\ map' = [map EXCEPT ![k] = None]
             /\ removed' = removed \cup {k}
             /\ UNCHANGED age

Expire(k) == /\ map[k] # None
             /\ age[map[k]] = Timeout
             /\ map' = [map EXCEPT ![k] = None]
             /\ UNCHANGED <<age, removed>>

Tick == /\ age' = [e \in Entry |-> IF age[e] < Timeout THEN age[e] + 1 ELSE Timeout]
        /\ UNCHANGED <<map, removed>>

Next == \/ Tick
        \/ \E k \in Key : Remove(k) \/ Expire(k) \/ \E e \in Entry : Put(k, e)

Spec == Init /\ [][Next]_vars
====
