---- MODULE MCRequestReader ----
(* A buffer of 300 bytes. Requests with blocks between them, of every     *)
(* kind of size: small, at the sign of the low byte, at the second byte,  *)
(* at the sign of the high byte, at the length of the buffer; or with a   *)
(* body; or with a request in the middle whose answer is the last. TCP    *)
(* may cut a stream around each item's start, its fourth byte and its     *)
(* end.                                                                   *)
EXTENDS RequestReader, FiniteSetsExt

Request(n) == [kind |-> "request", text |-> 20, body |-> n, final |-> FALSE, hi |-> 0, lo |-> 0]
LastRequest == [Request(0) EXCEPT !.final = TRUE]
Block(h, l) == [kind |-> "block", text |-> 0, body |-> 0, final |-> FALSE, hi |-> h, lo |-> l]

MCItems ==
    {<<Request(0), Block(hl[1], hl[2]), Request(0)>> :
        hl \in {<<0, 0>>, <<0, 20>>, <<0, 127>>, <<0, 128>>, <<0, 255>>,
                <<1, 0>>, <<1, 128>>, <<1, 44>>, <<1, 45>>, <<128, 1>>}}
    \cup {<<Block(0, 127), Request(0), Block(1, 0), Block(0, 20), Request(0)>>}
    \cup {<<Request(n), Block(0, 20), Request(0)>> : n \in {1, 7}}
    \cup {<<Request(0), LastRequest, Block(0, 20), Request(0)>>}

(* Where item i of s starts.                                              *)
Start(s, i) == MapThenSumSet(LAMBDA j : Length(s[j]), 1..(i - 1))

Around(p) == {p - 1, p, p + 2, p + 3, p + 4, p + 9}
MCCuts(s) ==
    {c \in UNION {Around(Start(s, i)) : i \in 1..(Len(s) + 1)} :
        c \in 1..Start(s, Len(s) + 1)}

MCStreams == {[items |-> s, cuts |-> MCCuts(s)] : s \in MCItems}
====
