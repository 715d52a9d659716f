---- MODULE SliceStream ----
(***************************************************************************)
(* What a client of a track is promised, as if every slice were sent in    *)
(* one piece: whole slices, in the order in which the encoder pushed them, *)
(* beginning with an IDR, and none of them twice. A slice may be missing,  *)
(* for the queue of a slow client overflows. For AAC a slice is an access  *)
(* unit, and any of them may be the first.                                 *)
(***************************************************************************)
EXTENDS Naturals

CONSTANTS
    Slice,          \* what the encoder may push: records with codec, length, idr
    Pushes,         \* how many it pushes
    Streams         \* how many times the client plays the track

VARIABLES
    slices,         \* the slices the encoder pushes
    pushed,         \* how many it has pushed
    delivered       \* those each stream has delivered

vars == <<slices, pushed, delivered>>

Stream == 1..Streams

Init == /\ slices \in [1..Pushes -> Slice]
        /\ pushed = 0
        /\ delivered = [t \in Stream |-> {}]

Push == /\ pushed < Pushes
        /\ pushed' = pushed + 1
        /\ UNCHANGED <<slices, delivered>>

Deliver(t) ==
    \E n \in 1..pushed :
        /\ \A u \in Stream : n \notin delivered[u]
        /\ \A m \in delivered[t] : m < n
        /\ delivered[t] = {} => slices[n].idr
        /\ delivered' = [delivered EXCEPT ![t] = @ \cup {n}]
        /\ UNCHANGED <<slices, pushed>>

Next == Push \/ \E t \in Stream : Deliver(t)

Spec == Init /\ [][Next]_vars
====
