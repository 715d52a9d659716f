---- MODULE MCStreamServer ----
(* Two threads of the pool. Two connections meet close() in every way: a  *)
(* GET and its POST, or one that is not registered yet. Without close(),  *)
(* a third one waits for a thread or uses the same cookie.                *)
EXTENDS StreamServer

CONSTANTS c1, c2, c3

MCTwo == {c1, c2}
MCThree == {c1, c2, c3}

(* The server stays open and clients fall silent.                         *)
OpenSpec ==
    /\ Init /\ [][Next /\ UNCHANGED closing]_vars
    /\ Fairness /\ ClientsFallSilent
====
