---- MODULE ConnectionRegistry ----
(***************************************************************************)
(* What the server promises of its connections, without handlers, threads, *)
(* requests and tunnels: push() feeds only connections that are registered *)
(* and open, whoever set their tracks up; a connection leaves the registry *)
(* only when it is shut, and stays shut; and close() is over only when no  *)
(* connection is open that was registered when it began its walk. Of a     *)
(* connection that registers during the walk nothing is promised.          *)
(***************************************************************************)
CONSTANT Conn                   \* the connections clients may open

VARIABLES life,                 \* "new", "accepted", "registered" or "gone"
          open,                 \* the connections whose socket is open
          fed,                  \* those that push() gives slices and that can send
          closing,              \* "no", "on" or "over": where close() is
          due                   \* what was registered when it began its walk

closes == <<closing, due>>
vars == <<life, open, fed, closes>>

Init == /\ life = [c \in Conn |-> "new"]
        /\ open = {}
        /\ fed = {}
        /\ closing = "no"
        /\ due = {}

Moves(c, from, to) == /\ life[c] = from
                      /\ life' = [life EXCEPT ![c] = to]

Accept(c) == /\ Moves(c, "new", "accepted")
             /\ open' = open \cup {c}
             /\ UNCHANGED <<fed, closes>>

Register(c) == /\ Moves(c, "accepted", "registered")
               /\ UNCHANGED <<open, fed, closes>>

(* A SETUP that reaches c, which may be the POST of another connection.   *)
Feed(c) == /\ life[c] = "registered" /\ c \in open
           /\ fed' = fed \cup {c}
           /\ UNCHANGED <<life, open, closes>>

Starve(c) == /\ c \in fed
             /\ fed' = fed \ {c}
             /\ UNCHANGED <<life, open, closes>>

(* By the connection's own handler, before it removes it, or by close().  *)
Shut(c) == /\ life[c] = "registered" /\ c \in open
           /\ open' = open \ {c}
           /\ fed' = fed \ {c}
           /\ UNCHANGED <<life, closes>>

Remove(c) == /\ c \notin open
             /\ Moves(c, "registered", "gone")
             /\ UNCHANGED <<open, fed, closes>>

CloseBegins == /\ closing = "no"
               /\ closing' = "on"
               /\ due' = {c \in Conn : life[c] = "registered"}
               /\ UNCHANGED <<life, open, fed>>

CloseEnds == /\ closing = "on"
             /\ due \cap open = {}
             /\ closing' = "over"
             /\ UNCHANGED <<life, open, fed, due>>

Next == \/ CloseBegins \/ CloseEnds
        \/ \E c \in Conn : \/ Accept(c) \/ Register(c) \/ Feed(c) \/ Starve(c)
                           \/ Shut(c) \/ Remove(c)

Spec == Init /\ [][Next]_vars
====
