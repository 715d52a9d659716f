---- MODULE RtspSession ----
(***************************************************************************)
(* What an RTSP session of a StreamConnection promises, without its        *)
(* packetizers, threads and locks: a track is configured only in an open   *)
(* session, plays only once configured, and the session closes exactly     *)
(* when a stop leaves no track configured ("Also close the RTSP session    *)
(* when done with all the streams").                                       *)
(***************************************************************************)
CONSTANT Track                  \* the tracks of the presentation

VARIABLES session,              \* whether an RTSP session is open
          track                 \* "init", "ready" or "playing", per track

vars == <<session, track>>

TypeOK == /\ session \in BOOLEAN
          /\ track \in [Track -> {"init", "ready", "playing"}]

Init == /\ session = FALSE
        /\ track = [t \in Track |-> "init"]

Open == /\ ~session
        /\ session' = TRUE
        /\ UNCHANGED track

Setup(t) == /\ session
            /\ track[t] = "init"
            /\ track' = [track EXCEPT ![t] = "ready"]
            /\ UNCHANGED session

Play(t) == /\ session
           /\ track[t] = "ready"
           /\ track' = [track EXCEPT ![t] = "playing"]
           /\ UNCHANGED session

(* A configured track leaves the session; the session itself stays open.  *)
Release(t) == /\ track[t] # "init"
              /\ track' = [track EXCEPT ![t] = "init"]
              /\ UNCHANGED session

(* The end of a stop: it closes the session when no track is left.        *)
Close == /\ session
         /\ \A t \in Track : track[t] = "init"
         /\ session' = FALSE
         /\ UNCHANGED track

Next == \/ Open
        \/ Close
        \/ \E t \in Track : Setup(t) \/ Play(t) \/ Release(t)

Spec == Init /\ [][Next]_vars
====
