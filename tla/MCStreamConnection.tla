---- MODULE MCStreamConnection ----
(* One connection for TLC: two packetizers are enough for a track that is *)
(* stopped and configured again while its old thread is still sending,    *)
(* and for video and audio at once; one POST at a time, any number of     *)
(* them one after the other.                                              *)
EXTENDS StreamConnection

CONSTANTS p1, p2, post1

MCPacketizer == {p1, p2}
MCPost == {post1}

(* Bounds on a tunnel. Its GET comes before any SETUP on the connection;  *)
(* its POSTs set up audio over TCP only, and video over both; once one of *)
(* them has set up something on the closed connection, no other request   *)
(* follows, since all that it could still do is set up the other track:   *)
(* any reply is written to the closed socket.                             *)
GetIsFirst ==
    (pc["handler"] = "idle" /\ pc'["handler"] = "polling") =>
        \A p \in Packetizer : thread[p] = "unused"

PostsAreBounded ==
    \A c \in Post : (pc[c] = "idle" /\ pc'[c] # "idle") =>
        /\ ~late
        /\ pc'[c] = "setup" => kind'[request'[c]] # <<"audio", "udp">>

TunnelsAreBounded == GetIsFirst /\ PostsAreBounded

BoundedSpec == Init /\ [][Next /\ TunnelsAreBounded]_vars /\ Fairness

(* A join times out only for a thread that is inside a send over TCP,     *)
(* the case the comment of RTPVideoPacketizer.close() describes; every    *)
(* other thread is assumed to end within CLOSE_TIMEOUT.                   *)
OnlySendsOutliveTheJoin ==
    \A c \in Caller :
        (joining[c] # None /\ joining'[c] = None) =>
            \/ thread[joining[c]] \in {"built", "ended"}
            \/ thread[joining[c]] = "send" /\ kind[joining[c]][2] = "tcp"

SlowReaderSpec == Init /\ [][Next /\ TunnelsAreBounded /\ OnlySendsOutliveTheJoin]_vars
====
