---- MODULE StreamConnection ----
(***************************************************************************)
(* One RTSP connection: StreamConnection.java with the streaming threads   *)
(* of RTPVideoPacketizer / RTPAudioPacketizer, driven by the connection's  *)
(* handler (TCPConnection.handle and StreamServer's rtsp* methods), by the *)
(* application thread that runs StreamServer.close(), and, once a GET has  *)
(* made the connection an RTSP-over-HTTP tunnel, by the handlers of POST   *)
(* connections, which work on this one, also when it has been closed.      *)
(*                                                                         *)
(* Java's `synchronized` methods of the connection are one atomic step     *)
(* each, except stopRTP, which joins the streaming thread for at most      *)
(* CLOSE_TIMEOUT while it holds the monitor.                               *)
(***************************************************************************)
CONSTANTS
    Packetizer,     \* identities of the packetizers the connection may create
    Post,           \* the handlers of POST connections that may work on it at once
    None            \* Java's null

Track == {"video", "audio"}             \* RTP stream 1 and stream 2
Transport == {"udp", "tcp"}
Requester == {"handler"} \cup Post
Caller == Requester \cup {"app"}

ASSUME NoneAssumption == /\ None \notin Packetizer \cup Caller
                         /\ "handler" \notin Post /\ "app" \notin Post

VARIABLES
    slot,           \* mUDPVideoPacketizer ... mTCPAudioPacketizer
    session,        \* mRTSPSession # null
    current,        \* the installed packetizers that begin with mRTPSeq
    streaming,      \* mStreamingH264 and mStreamingAAC
    streams,        \* mStreams of the server: ids of the streams it lists
    socket,         \* whether mSocket is open
    monitor,        \* who is inside a stopRTP of this connection
    pc,             \* where each caller is
    todo,           \* the tracks its PLAY, TEARDOWN or close() has still to serve
    joining,        \* the packetizer whose thread it joins
    request,        \* the packetizer its SETUP is about to build
    kind,           \* the slot a packetizer was built for
    thread,         \* where its streaming thread is
    interrupted,    \* whether it was interrupted
    ports,          \* whether its UDP sockets are open
    late            \* history: a session was opened after close() ended the last

connection == <<slot, session, current, socket, late>>
caller == <<monitor, pc, todo, joining, request>>
packetizer == <<kind, ports>>
vars == <<slot, session, current, socket, streaming, streams, monitor, pc, todo,
          joining, request, kind, thread, interrupted, ports, late>>

Slot == Track \X Transport
ThreadState == {"unused", "asked", "leaked", "built", "started", "flagged", "loop", "send",
                "stopping", "unflagged", "ended"}

(* The kind of a packetizer that was never asked for.                     *)
NoKind == <<"video", "udp">>

(* The states in which a packetizer has a live thread.                    *)
Alive == {"started", "flagged", "loop", "send", "stopping", "unflagged"}

TypeOK ==
    /\ slot \in [Slot -> Packetizer \cup {None}]
    /\ session \in BOOLEAN
    /\ current \in SUBSET Packetizer
    /\ streaming \in [Track -> BOOLEAN]
    /\ streams \in SUBSET Packetizer
    /\ socket \in BOOLEAN
    /\ monitor \in Caller \cup {None}
    /\ pc \in [Caller -> {"none", "idle", "polling", "setup", "play", "teardown",
                          "close", "done"}]
    /\ todo \in [Caller -> SUBSET Track]
    /\ joining \in [Caller -> Packetizer \cup {None}]
    /\ request \in [Requester -> Packetizer \cup {None}]
    /\ kind \in [Packetizer -> Slot]
    /\ thread \in [Packetizer -> ThreadState]
    /\ interrupted \in [Packetizer -> BOOLEAN]
    /\ ports \in [Packetizer -> BOOLEAN]
    /\ late \in BOOLEAN

Init ==
    /\ slot = [s \in Slot |-> None]
    /\ session = FALSE
    /\ current = {}
    /\ streaming = [t \in Track |-> FALSE]
    /\ streams = {}
    /\ socket = TRUE
    /\ monitor = None
    /\ pc = [c \in Caller |-> IF c \in Post THEN "none" ELSE "idle"]
    /\ todo = [c \in Caller |-> {}]
    /\ joining = [c \in Caller |-> None]
    /\ request = [c \in Requester |-> None]
    /\ kind = [p \in Packetizer |-> NoKind]
    /\ thread = [p \in Packetizer |-> "unused"]
    /\ interrupted = [p \in Packetizer |-> FALSE]
    /\ ports = [p \in Packetizer |-> FALSE]
    /\ late = FALSE

----------------------------------------------------------------------------
(* Helpers                                                                *)

Goto(c, label) == pc' = [pc EXCEPT ![c] = label]

Free == monitor = None

(* The streams are always served video first.                             *)
FirstOf(T) == IF "video" \in T THEN "video" ELSE "audio"

(* Caller c is done with track t; the last track of a PLAY or a TEARDOWN  *)
(* takes a handler back to reading requests.                              *)
Served(c, t) ==
    /\ todo' = [todo EXCEPT ![c] = @ \ {t}]
    /\ IF pc[c] # "close" /\ todo[c] = {t} THEN Goto(c, "idle") ELSE UNCHANGED pc

(* The packetizers of track t.                                            *)
Installed(t) == {slot[<<t, x>>] : x \in Transport} \ {None}

(* "already configured": a track has one packetizer, of either transport. *)
SameTransportConfigured(s) == slot[s] # None
Configured(s) == Installed(s[1]) # {}

(* rtspSetup opens a session, which draws a new mRTPSeq, only when        *)
(* getRTSPSessionID() is null.                                            *)
ReopenSession == session' = TRUE /\ current' = {}
EnsureSession == /\ session' = TRUE
                 /\ IF session THEN UNCHANGED current ELSE current' = {}

(* The handler's close() has stopped both streams, and with them ended    *)
(* the session: what is opened from now on, nobody will close.            *)
HandlerHasStopped == pc["handler"] \in {"close", "done"} /\ todo["handler"] = {}
NotesLate == late' = (late \/ HandlerHasStopped)

(* An exception or a return out of handleConnection: TCPConnection.handle *)
(* closes its own connection, which is this one only for its own handler. *)
(* After a POST of the tunnel there may be another one.                   *)
Fails(c) ==
    IF c = "handler"
    THEN Goto(c, "close") /\ todo' = [todo EXCEPT ![c] = Track]
    ELSE Goto(c, "idle") /\ todo' = [todo EXCEPT ![c] = {}]

----------------------------------------------------------------------------
(* RTSP over HTTP                                                         *)

(* GET /video/h264: the connection is put into mTunnelCache, from where   *)
(* POST handlers take it, and its own handler reads no more requests.     *)
HandlerPolls ==
    /\ pc["handler"] = "idle" /\ socket
    /\ pc' = [c \in Caller |-> IF c = "handler" THEN "polling"
                             ELSE IF c \in Post THEN "idle" ELSE pc[c]]
    /\ UNCHANGED <<connection, streaming, streams, monitor, todo, joining, request,
                   packetizer, thread, interrupted>>

----------------------------------------------------------------------------
(* SETUP                                                                  *)

(* A request whose Transport header is missing or malformed is refused    *)
(* with 400, after the session was opened.                                *)
SetupBadTransport(c) ==
    /\ pc[c] = "idle" /\ Free
    /\ EnsureSession /\ NotesLate
    /\ UNCHANGED <<slot, socket, streaming, streams, caller, packetizer, thread,
                   interrupted>>

(* A packetizer for slot s is named here, so that there is one to build.  *)
(* Bound: a connection of the model builds no more than the packetizers   *)
(* of the constant; a SETUP beyond them is not sent.                      *)
SetupOpens(c, s) ==
    LET p == CHOOSE q \in Packetizer : thread[q] = "unused"
    IN  /\ pc[c] = "idle" /\ Free
        /\ \E q \in Packetizer : thread[q] = "unused"
        /\ EnsureSession /\ NotesLate
        /\ request' = [request EXCEPT ![c] = p]
        /\ kind' = [kind EXCEPT ![p] = s]
        /\ thread' = [thread EXCEPT ![p] = "asked"]
        /\ Goto(c, "setup")
        /\ UNCHANGED <<slot, socket, streaming, streams, monitor, todo, joining, ports,
                       interrupted>>

(* setupVideoUDP, setupVideoTCP, setupAudioUDP, setupAudioTCP. They ask   *)
(* for a session, not for an open socket. On a closed one setTimeout or   *)
(* the reply throws, which is a HandlerQuits, or ends the POST.           *)
SetupBuilds(c) ==
    LET p == request[c] IN
    /\ pc[c] = "setup" /\ Free
    /\ session /\ ~Configured(kind[p])
    /\ slot' = [slot EXCEPT ![kind[p]] = p]
    /\ thread' = [thread EXCEPT ![p] = "built"]
    /\ ports' = [ports EXCEPT ![p] = kind[p][2] = "udp"]
    /\ current' = current \cup {p}
    /\ request' = [request EXCEPT ![c] = None]
    /\ Goto(c, "idle")
    /\ UNCHANGED <<session, socket, streaming, streams, monitor, todo, joining, kind,
                   interrupted, late>>

(* The RTCP port above the RTP port is taken: the constructor throws with *)
(* the RTP socket bound and nobody left to close it.                      *)
SetupBindFails(c) ==
    LET p == request[c] IN
    /\ pc[c] = "setup" /\ Free
    /\ session /\ ~Configured(kind[p]) /\ kind[p][2] = "udp"
    /\ thread' = [thread EXCEPT ![p] = "leaked"]
    /\ ports' = [ports EXCEPT ![p] = TRUE]
    /\ request' = [request EXCEPT ![c] = None]
    /\ Fails(c)
    /\ UNCHANGED <<connection, streaming, streams, monitor, joining, kind, interrupted>>

(* IllegalStateException: no session (another caller closed it between    *)
(* the two calls) or "already configured".                                *)
SetupThrows(c) ==
    LET p == request[c] IN
    /\ pc[c] = "setup" /\ Free
    /\ ~session \/ Configured(kind[p])
    /\ thread' = [thread EXCEPT ![p] = "unused"]
    /\ kind' = [kind EXCEPT ![p] = NoKind]
    /\ request' = [request EXCEPT ![c] = None]
    /\ Fails(c)
    /\ UNCHANGED <<connection, streaming, streams, monitor, joining, ports, interrupted>>

----------------------------------------------------------------------------
(* PLAY and TEARDOWN write their reply first, then act on video and audio *)

(* A PLAY (then label is "play") or a TEARDOWN for the tracks T passes    *)
(* the session check and its reply is written.                            *)
Accept(c, label, T) ==
    /\ pc[c] = "idle" /\ Free /\ session /\ socket
    /\ Goto(c, label)
    /\ todo' = [todo EXCEPT ![c] = T]
    /\ UNCHANGED <<connection, streaming, streams, monitor, joining, request, packetizer,
                   thread, interrupted>>

Play(c, T) == Accept(c, "play", T)
Teardown(c, T) == Accept(c, "teardown", T)

(* playRTP: starts what the track has, if anything.                       *)
PlayStarts(c) ==
    LET t == FirstOf(todo[c])
    IN  /\ pc[c] = "play" /\ Free /\ session
        /\ \A p \in Installed(t) : thread[p] = "built"
        /\ thread' = [p \in Packetizer |->
                        IF p \in Installed(t) THEN "started" ELSE thread[p]]
        /\ Served(c, t)
        /\ UNCHANGED <<connection, streaming, streams, monitor, joining, request,
                       packetizer, interrupted>>

(* "RTSP session non opened" or "already started".                        *)
PlayThrows(c) ==
    /\ pc[c] = "play" /\ Free
    /\ ~session \/ \E p \in Installed(FirstOf(todo[c])) : thread[p] # "built"
    /\ Fails(c)
    /\ UNCHANGED <<connection, streaming, streams, monitor, joining, request, packetizer,
                   thread, interrupted>>

----------------------------------------------------------------------------
(* stopRTP, called by TEARDOWN for its tracks and by close() for both     *)

(* Caller c is in stopRTP for its next track, or enters it.               *)
InStop(c) == /\ pc[c] \in {"teardown", "close"} /\ todo[c] # {}
             /\ monitor \in {None, c}
             /\ joining[c] = None

(* The packetizer stopRTP deals with next: the UDP one before the TCP one. *)
StopTarget(c) ==
    LET t == FirstOf(todo[c])
    IN  IF slot[<<t, "udp">>] # None THEN slot[<<t, "udp">>] ELSE slot[<<t, "tcp">>]

NotInterrupted(p) == interrupted
Interrupt(p) == [interrupted EXCEPT ![p] = TRUE]

EnterUnlocked(c) == UNCHANGED monitor
Enter(c) == monitor' = c

(* close() of the packetizer, up to its join.                             *)
StopInterrupts(c) ==
    LET p == StopTarget(c)
    IN  /\ InStop(c)
        /\ p # None
        /\ Enter(c)
        /\ joining' = [joining EXCEPT ![c] = p]
        /\ interrupted' = Interrupt(p)
        /\ UNCHANGED <<connection, streaming, streams, pc, todo, request, packetizer,
                       thread>>

PortsKept(p) == UNCHANGED ports
PortsClosed(p) == ports' = [ports EXCEPT ![p] = FALSE]

(* The join returned: the thread has ended or never started, CLOSE_TIMEOUT *)
(* is over, or the caller was interrupted. The UDP sockets are closed and *)
(* the slot is forgotten.                                                 *)
StopForgets(c) ==
    LET p == joining[c]
    IN  /\ p # None
        /\ slot' = [slot EXCEPT ![kind[p]] = None]
        /\ current' = current \ {p}
        /\ PortsClosed(p)
        /\ joining' = [joining EXCEPT ![c] = None]
        /\ UNCHANGED <<session, socket, streaming, streams, monitor, pc, todo,
                       request, kind, thread, interrupted, late>>

(* The session ends with its last packetizer, of any track.               *)
SessionOfTrackOnly(t) == session /\ Installed(t) # {}
SessionAfterStop(t) == session /\ \E s \in Slot : slot[s] # None

(* The end of stopRTP(t). close() keeps the monitor for its second stop.  *)
StopReturns(c) ==
    LET t == FirstOf(todo[c])
    IN  /\ InStop(c)
        /\ Installed(t) = {}
        /\ session' = SessionAfterStop(t)
        /\ monitor' = IF pc[c] = "close" /\ todo[c] # {t} THEN c ELSE None
        /\ Served(c, t)
        /\ UNCHANGED <<slot, current, socket, streaming, streams, joining, request,
                       packetizer, thread, interrupted, late>>

----------------------------------------------------------------------------
(* Closing                                                                *)

(* End of stream, a socket error, the read timeout, a refused or unknown  *)
(* request, a reply that cannot be written: the handler stops reading. A  *)
(* polling one leaves when it is interrupted or its entry is gone.        *)
HandlerQuits ==
    /\ pc["handler"] \in {"idle", "polling"}
    /\ Fails("handler")
    /\ UNCHANGED <<connection, streaming, streams, monitor, joining, request, packetizer,
                   thread, interrupted>>

(* StreamServer.close() reaches this connection.                          *)
AppCloses ==
    /\ pc["app"] = "idle"
    /\ Goto("app", "close")
    /\ todo' = [todo EXCEPT !["app"] = Track]
    /\ UNCHANGED <<connection, streaming, streams, monitor, joining, request, packetizer,
                   thread, interrupted>>

SocketStaysOpen == UNCHANGED socket
SocketCloses == socket' = FALSE

(* close() has stopped both streams: TCPConnection.close().               *)
CloseSocket(c) ==
    /\ pc[c] = "close" /\ todo[c] = {}
    /\ SocketCloses
    /\ Goto(c, "done")
    /\ UNCHANGED <<slot, session, current, streaming, streams, monitor, todo, joining,
                   request, packetizer, thread, interrupted, late>>

----------------------------------------------------------------------------
(* The streaming thread: doSend                                           *)

Move(p, from, to) == /\ thread[p] = from
                     /\ thread' = [thread EXCEPT ![p] = to]

(* notifyStreamStarted and notifyStreamStopped raise and lower a flag of  *)
(* the connection, shared by all the packetizers the track ever has.      *)
SetFlag(p, b) == streaming' = [streaming EXCEPT ![kind[p][1]] = b]

ThreadStarts(p) ==
    /\ Move(p, "started", "flagged")
    /\ SetFlag(p, TRUE)
    /\ UNCHANGED <<connection, streams, caller, packetizer, interrupted>>

ThreadListed(p) ==
    /\ Move(p, "flagged", "loop")
    /\ streams' = streams \cup {p}
    /\ UNCHANGED <<connection, streaming, caller, packetizer, interrupted>>

(* A sender report is due or a slice was popped.                          *)
ThreadTakes(p) ==
    /\ Move(p, "loop", "send")
    /\ ~interrupted[p]
    /\ UNCHANGED <<connection, streaming, streams, caller, packetizer, interrupted>>

ThreadSeesInterrupt(p) ==
    /\ Move(p, "loop", "stopping")
    /\ interrupted[p]
    /\ UNCHANGED <<connection, streaming, streams, caller, packetizer, interrupted>>

(* A UDP send needs the packetizer's own sockets, a TCP send the          *)
(* connection's; the latter lasts as long as the client does not read.    *)
CanSend(p) == IF kind[p][2] = "udp" THEN ports[p] ELSE socket

ThreadSends(p) ==
    /\ Move(p, "send", "loop")
    /\ CanSend(p)
    /\ UNCHANGED <<connection, streaming, streams, caller, packetizer, interrupted>>

(* Any exception leaves the loop.                                         *)
ThreadFails(p) ==
    /\ Move(p, "send", "stopping")
    /\ UNCHANGED <<connection, streaming, streams, caller, packetizer, interrupted>>

ThreadSkipsUnflag(p) ==
    /\ Move(p, "stopping", "unflagged")
    /\ UNCHANGED <<connection, streaming, streams, caller, packetizer, interrupted>>

ThreadUnflags(p) ==
    /\ Move(p, "stopping", "unflagged")
    /\ SetFlag(p, FALSE)
    /\ UNCHANGED <<connection, streams, caller, packetizer, interrupted>>

ThreadUnlisted(p) ==
    /\ Move(p, "unflagged", "ended")
    /\ streams' = streams \ {p}
    /\ UNCHANGED <<connection, streaming, caller, packetizer, interrupted>>

----------------------------------------------------------------------------
Requests(c) == \/ SetupBadTransport(c)
               \/ \E s \in Slot : SetupOpens(c, s)
               \/ \E T \in SUBSET Track \ {{}} : Play(c, T) \/ Teardown(c, T)

HandlerStep(c) ==
    \/ SetupBuilds(c) \/ SetupBindFails(c) \/ SetupThrows(c)
    \/ PlayStarts(c) \/ PlayThrows(c)

CloserStep(c) == StopInterrupts(c) \/ StopForgets(c) \/ StopReturns(c) \/ CloseSocket(c)

ThreadStep(p) ==
    \/ ThreadStarts(p) \/ ThreadListed(p) \/ ThreadTakes(p) \/ ThreadSeesInterrupt(p)
    \/ ThreadSends(p) \/ ThreadFails(p) \/ ThreadUnflags(p) \/ ThreadUnlisted(p)

(* Everything has ended: the only state in which nothing happens.         *)
Finished == /\ pc["handler"] = "done" /\ pc["app"] = "done"
            /\ \A c \in Post : pc[c] \in {"none", "idle"}
            /\ \A p \in Packetizer : thread[p] \notin Alive
            /\ UNCHANGED vars

Next == \/ HandlerPolls \/ HandlerQuits \/ AppCloses
        \/ \E c \in Requester : Requests(c) \/ HandlerStep(c)
        \/ \E c \in Caller : CloserStep(c)
        \/ \E p \in Packetizer : ThreadStep(p)
        \/ Finished

Spec == Init /\ [][Next]_vars

(* Threads that are neither blocked in a TCP send nor in a read of an     *)
(* open socket are scheduled. A send on a closed socket throws, and so    *)
(* does the handler's next read or reply, but a polling handler does      *)
(* neither: whether it leaves is StreamServer's matter.                   *)
ThreadRuns(p) ==
    \/ ThreadStarts(p) \/ ThreadListed(p) \/ ThreadTakes(p) \/ ThreadSeesInterrupt(p)
    \/ kind[p][2] = "udp" /\ ThreadSends(p)
    \/ ~CanSend(p) /\ ThreadFails(p)
    \/ ThreadUnflags(p) \/ ThreadUnlisted(p)

CallerRuns(c) ==
    \/ c \in Requester /\ HandlerStep(c)
    \/ CloserStep(c)
    \/ c = "handler" /\ pc[c] = "idle" /\ ~socket /\ HandlerQuits

Fairness == /\ \A c \in Caller : WF_vars(CallerRuns(c))
            /\ \A p \in Packetizer : WF_vars(ThreadRuns(p))

FairSpec == Spec /\ Fairness

----------------------------------------------------------------------------
(* Properties                                                             *)

(* A track never has a UDP and a TCP packetizer at once, so PLAY starts   *)
(* one thread per track and the two never pop the same queue by design    *)
(* (the "already configured" checks of the setup methods).                *)
OneTransportPerTrack ==
    \A t \in Track : slot[<<t, "udp">>] = None \/ slot[<<t, "tcp">>] = None

(* A streaming thread the connection has forgotten was told to stop: a    *)
(* thread that is neither in its slot nor interrupted would stream until  *)
(* the process ends, since stopRTP only reaches what a slot holds.        *)
ForgottenThreadsAreInterrupted ==
    \A p \in Packetizer :
        thread[p] \in Alive => slot[kind[p]] = p \/ interrupted[p]

(* The session outlives every configured track, whichever order the       *)
(* handler's TEARDOWNs and the application's close() come in: a client    *)
(* that still has a track is never answered 455.                          *)
SessionCoversPacketizers ==
    (\E s \in Slot : slot[s] # None) => session

(* A PLAY reply names mRTPSeq, then PLAY starts the packetizers: each of   *)
(* them begins with that number only if no new session was drawn between  *)
(* its SETUP and the PLAY.                                                *)
PlayAnnouncesFirstSeq ==
    \A s \in Slot : slot[s] # None => slot[s] \in current

(* A connection whose handler has closed it, and whose threads are over,  *)
(* leaves nothing behind: no packetizer, session, listed stream, flag or  *)
(* UDP socket, except the RTP socket of a packetizer that could not be    *)
(* built (SetupBindFails), and except what a POST of the tunnel sets up   *)
(* once close() has stopped both streams: its SETUP finds no closed       *)
(* socket before it replies, and nobody closes this connection again.     *)
NothingLeftBehind ==
    (pc["handler"] = "done" /\ \A p \in Packetizer : thread[p] \notin Alive) =>
        /\ streams = {}
        /\ \A t \in Track : ~streaming[t]
        /\ \A p \in Packetizer : ports[p] => thread[p] = "leaked" \/ late
        /\ late \/ (~session /\ \A s \in Slot : slot[s] = None)

(* Once the stop of a UDP track has returned, no packet of it reaches the *)
(* client's ports any more, even if its thread outlived the join: the     *)
(* client may give the ports to its next SETUP. Once the handler has      *)
(* closed the connection nothing is sent at all, on ports or socket; the  *)
(* application's close() only ends what goes over the socket, since a     *)
(* handler may have accepted a PLAY in the meantime. Only two POSTs on a  *)
(* closed tunnel, one with a late SETUP and one with an old PLAY, can     *)
(* start a UDP stream again.                                              *)
Silenced(p) ==
    \/ pc["handler"] = "done" /\ ~late
    \/ kind[p][2] = "tcp" /\ (pc["handler"] = "done" \/ pc["app"] = "done")
    \/ kind[p][2] = "udp" /\ slot[kind[p]] # p

SilentAfterStop ==
    [][\A p \in Packetizer :
          Silenced(p) /\ thread[p] = "send" => thread'[p] # "loop"]_vars

(* "The thread will not terminate now, but will be terminated later when  *)
(* the socket will be closed": once either has closed the connection, its *)
(* handler ends, whatever it was serving, every streaming thread ends,    *)
(* also one that a join gave up on, and no stream of it stays listed. A   *)
(* handler that polls for its POST does not see its socket close.         *)
Closed == \/ pc["handler"] = "done"
          \/ pc["app"] = "done" /\ pc["handler"] # "polling"

CloseEndsEverything ==
    Closed ~> \/ late
              \/ /\ pc["handler"] = "done" /\ streams = {}
                 /\ \A p \in Packetizer : thread[p] \notin Alive

(* "@return true when the H264 stream is playing": a stream that plays    *)
(* and that nobody has stopped is flagged, or push() gives it no slices.  *)
PlayingStreamIsFlagged ==
    \A p \in Packetizer :
        (thread[p] \in {"loop", "send"} /\ ~interrupted[p]) => streaming[kind[p][1]]

----------------------------------------------------------------------------
(* The inductive invariant behind the safety properties.                  *)

(* An installed packetizer knows its slot and has been built.             *)
SlotsKnown ==
    \A s \in Slot : slot[s] # None =>
        /\ kind[slot[s]] = s
        /\ thread[slot[s]] \notin {"unused", "asked", "leaked"}

(* Who joins holds the monitor, has interrupted, and has not forgotten    *)
(* the packetizer yet.                                                    *)
JoinUnderMonitor ==
    \A c \in Caller : joining[c] # None =>
        /\ monitor = c
        /\ slot[kind[joining[c]]] = joining[c]
        /\ interrupted[joining[c]]

(* Every SETUP in progress has a packetizer of its own to build.          *)
SetupHasTarget ==
    \A c \in Requester : pc[c] = "setup" =>
        /\ request[c] \in Packetizer /\ thread[request[c]] = "asked"
        /\ \A d \in Requester : pc[d] = "setup" /\ request[d] = request[c] => d = c

(* The handler of a tunnel serves no request while the POSTs do.          *)
PostExcludes ==
    \A c \in Post : pc[c] # "none" => pc["handler"] \in {"polling", "close", "done"}

(* What the handler's close() has stopped stays so, behind the monitor    *)
(* until it has stopped both tracks, and then for want of a session.      *)
ClosingIsFinal ==
    /\ pc["handler"] = "close" /\ todo["handler"] \notin {Track, {}} =>
          /\ monitor = "handler"
          /\ \A s \in Slot : s[1] \notin todo["handler"] => slot[s] = None
    /\ HandlerHasStopped /\ ~late => ~session
    /\ pc["handler"] = "done" => todo["handler"] = {}

(* The server lists exactly the streams between their two notifications.  *)
ListedWhileRunning ==
    streams = {p \in Packetizer : thread[p] \in {"loop", "send", "stopping", "unflagged"}}

(* A flag is up only while some thread of its track will still lower it.  *)
FlagHasThread ==
    \A t \in Track : streaming[t] =>
        \E p \in Packetizer : /\ kind[p][1] = t
                              /\ thread[p] \in {"flagged", "loop", "send", "stopping"}

PortsHeld ==
    \A p \in Packetizer : ports[p] => slot[kind[p]] = p \/ thread[p] = "leaked"

(* Whoever is done with its close() has closed the socket, for good.      *)
DoneHasClosed == \A c \in Caller : pc[c] = "done" => ~socket

IInv == /\ TypeOK
        /\ SlotsKnown
        /\ JoinUnderMonitor
        /\ SetupHasTarget
        /\ PostExcludes
        /\ OneTransportPerTrack
        /\ ForgottenThreadsAreInterrupted
        /\ SessionCoversPacketizers
        /\ PlayAnnouncesFirstSeq
        /\ ClosingIsFinal
        /\ ListedWhileRunning
        /\ FlagHasThread
        /\ PortsHeld
        /\ DoneHasClosed

----------------------------------------------------------------------------
(* The abstract session this connection implements.                       *)

TrackState(t) ==
    IF Installed(t) = {} THEN "init"
    ELSE IF \E p \in Installed(t) : thread[p] = "built" THEN "ready" ELSE "playing"

Abstract == INSTANCE RtspSession WITH track <- [t \in Track |-> TrackState(t)]

(* The monitor, joins, closers and POSTs together behave as the           *)
(* session the clients are promised.                                      *)
ImplementsSession == Abstract!Spec
====
