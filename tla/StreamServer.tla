---- MODULE StreamServer ----
(***************************************************************************)
(* The life of the server's connections: TCPListener.listen, the fixed     *)
(* thread pool and handle() of TCPConnection, the registry mConnections,   *)
(* the RTSP-over-HTTP tunnel and the MJPEG stream of                       *)
(* StreamServer.handleConnection, and StreamServer.close().                *)
(*                                                                         *)
(* What the RTSP requests do to one connection is in StreamConnection:     *)
(* here a connection has tracks or has none. TimeoutCache is replaced by   *)
(* what it promises, with one cookie, since its keys do not interact.      *)
(***************************************************************************)
EXTENDS Naturals, FiniteSets

CONSTANTS
    Conn,           \* the connections clients may open
    Workers,        \* MAX_CONNECTIONS, the threads of the pool
    None

ASSUME ServerAssumption == /\ None \notin Conn
                           /\ IsFiniteSet(Conn)
                           /\ Workers \in Nat \ {0}

VARIABLES
    listening,      \* the listener's server socket is open
    listener,       \* where the listener's thread is
    incoming,       \* the connection it has accepted
    pc,             \* where the handler of a connection is
    post,           \* whether its rtspSessionCookie is set by a POST
    target,         \* the connection its current request works on
    future,         \* whether its mFuture is assigned
    interrupted,    \* whether cancel(true) has interrupted its handler
    socket,         \* whether its socket is open
    tracks,         \* whether it has packetizers
    mConnections,   \* the registry: push() and close() go through it
    tunnel,         \* mTunnelCache: the GET connection of the cookie
    cache,          \* whether mTunnelCache is open
    app,            \* where StreamServer.close() is
    next,           \* what the iterator of close() returns next
    shutting,       \* what it returned last, until close() has closed that
    visited,        \* what it has returned
    due             \* history: what was registered when it was created

accepting == <<listening, listener, incoming>>
closing == <<app, next, shutting, visited, due>>
vars == <<accepting, pc, post, target, future, interrupted, socket, tracks,
          mConnections, tunnel, cache, closing>>

TypeOK ==
    /\ listening \in BOOLEAN
    /\ listener \in {"accept", "accepted", "submitted", "ended"}
    /\ incoming \in Conn \cup {None}
    /\ pc \in [Conn -> {"new", "queued", "started", "reading", "mjpeg", "granted",
                        "polling", "fetched", "serving", "removing", "leaving", "closed",
                        "ended"}]
    /\ post \in [Conn -> BOOLEAN]
    /\ target \in [Conn -> Conn \cup {None}]
    /\ future \in [Conn -> BOOLEAN]
    /\ interrupted \in [Conn -> BOOLEAN]
    /\ socket \in [Conn -> BOOLEAN]
    /\ tracks \in [Conn -> BOOLEAN]
    /\ mConnections \in SUBSET Conn
    /\ tunnel \in Conn \cup {None}
    /\ cache \in {"open", "shut"}
    /\ app \in {"idle", "cache", "start", "iterate", "done"}
    /\ next \in Conn \cup {None}
    /\ shutting \in Conn \cup {None}
    /\ visited \in SUBSET Conn
    /\ due \in SUBSET Conn

Init ==
    /\ listening = TRUE
    /\ listener = "accept"
    /\ incoming = None
    /\ pc = [c \in Conn |-> "new"]
    /\ post = [c \in Conn |-> FALSE]
    /\ target = [c \in Conn |-> None]
    /\ future = [c \in Conn |-> FALSE]
    /\ interrupted = [c \in Conn |-> FALSE]
    /\ socket = [c \in Conn |-> FALSE]
    /\ tracks = [c \in Conn |-> FALSE]
    /\ mConnections = {}
    /\ tunnel = None
    /\ cache = "open"
    /\ app = "idle"
    /\ next = None
    /\ shutting = None
    /\ visited = {}
    /\ due = {}

(* The handlers a thread of the pool is running.                          *)
Running == {c \in Conn : pc[c] \notin {"new", "queued", "ended"}}

Goto(c, label) == pc' = [pc EXCEPT ![c] = label]

(* The request of c is over: its local c of handleConnection is gone.     *)
Served(c) == target' = [target EXCEPT ![c] = None]

----------------------------------------------------------------------------
(* The listener                                                           *)

ListenerAccepts(c) ==
    /\ listener = "accept" /\ listening /\ pc[c] = "new"
    /\ listener' = "accepted"
    /\ incoming' = c
    /\ socket' = [socket EXCEPT ![c] = TRUE]
    /\ UNCHANGED <<listening, pc, post, target, future, interrupted, tracks,
                   mConnections, tunnel, cache, closing>>

(* The constructor submits handle() to the pool ...                       *)
ListenerSubmits ==
    /\ listener = "accepted"
    /\ listener' = "submitted"
    /\ Goto(incoming, "queued")
    /\ UNCHANGED <<listening, incoming, post, target, future, interrupted, socket, tracks,
                   mConnections, tunnel, cache, closing>>

(* ... and only then knows the future it may have to cancel.              *)
ListenerAssigns ==
    /\ listener = "submitted"
    /\ listener' = "accept"
    /\ incoming' = None
    /\ future' = [future EXCEPT ![incoming] = TRUE]
    /\ UNCHANGED <<listening, pc, post, target, interrupted, socket, tracks,
                   mConnections, tunnel, cache, closing>>

ListenerEnds == listener' = "ended"

(* accept() throws a SocketException on a closed socket, and also when    *)
(* the process has no descriptor left: the listener ends, and closes.     *)
AcceptThrows ==
    /\ listener = "accept"
    /\ ListenerEnds
    /\ listening' = FALSE
    /\ UNCHANGED <<incoming, pc, post, target, future, interrupted, socket, tracks,
                   mConnections, tunnel, cache, closing>>

----------------------------------------------------------------------------
(* handle(): a thread of the pool takes a connection                      *)

WorkerTakes(c) ==
    /\ pc[c] = "queued"
    /\ Cardinality(Running) < Workers
    /\ Goto(c, "started")
    /\ UNCHANGED <<accepting, post, target, future, interrupted, socket, tracks,
                   mConnections, tunnel, cache, closing>>

RegisterLater(c) == UNCHANGED mConnections
Register(c) == mConnections' = mConnections \cup {c}

ConnectionOpened(c) ==
    /\ pc[c] = "started"
    /\ Register(c)
    /\ Goto(c, "reading")
    /\ UNCHANGED <<accepting, post, target, future, interrupted, socket, tracks, tunnel,
                   cache, closing>>

(* End of stream, the read timeout, a refused or unknown request, an      *)
(* exception: handleConnection returns.                                   *)
Leaves(c) ==
    /\ pc[c] \in {"reading", "serving"}
    /\ Goto(c, "leaving")
    /\ Served(c)
    /\ UNCHANGED <<accepting, post, future, interrupted, socket, tracks, mConnections,
                   tunnel, cache, closing>>

(* An RTSP request works on the connection it was read from. A request of *)
(* any other kind but the three below, e.g. a file, is one that leaves    *)
(* the tracks alone and, here, the connection's own: ServesOther.         *)
RtspRequest(c) ==
    /\ pc[c] = "reading" /\ socket[c] /\ ~post[c]
    /\ target' = [target EXCEPT ![c] = c]
    /\ Goto(c, "serving")
    /\ UNCHANGED <<accepting, post, future, interrupted, socket, tracks, mConnections,
                   tunnel, cache, closing>>

----------------------------------------------------------------------------
(* GET /video/mjpeg: the handler is its own streaming thread              *)

MjpegRequest(c) ==
    /\ pc[c] = "reading" /\ socket[c] /\ ~post[c]
    /\ Goto(c, "mjpeg")
    /\ UNCHANGED <<accepting, post, target, future, interrupted, socket, tracks,
                   mConnections, tunnel, cache, closing>>

(* An interrupt, a frame that cannot be written because either end has    *)
(* closed the socket, or no network any more (canStream).                 *)
MjpegEnds(c) ==
    /\ pc[c] = "mjpeg"
    /\ Goto(c, "leaving")
    /\ UNCHANGED <<accepting, post, target, future, interrupted, socket, tracks,
                   mConnections, tunnel, cache, closing>>

(* popFrame times out, or the frame is skipped or written.                *)
MjpegGoesOn(c) ==
    /\ pc[c] = "mjpeg" /\ ~interrupted[c]
    /\ UNCHANGED vars

----------------------------------------------------------------------------
(* RTSP over HTTP: the GET connection                                     *)

(* rtspOverHttpOk has been written.                                       *)
GetRequest(c) ==
    /\ pc[c] = "reading" /\ socket[c] /\ ~post[c]
    /\ Goto(c, "granted")
    /\ UNCHANGED <<accepting, post, target, future, interrupted, socket, tracks,
                   mConnections, tunnel, cache, closing>>

(* mTunnelCache.put stores the entry, but throws when it cannot schedule  *)
(* its cleanup any more.                                                  *)
GetPuts(c) ==
    /\ pc[c] = "granted"
    /\ tunnel' = c
    /\ Goto(c, IF cache = "open" THEN "polling" ELSE "leaving")
    /\ UNCHANGED <<accepting, post, target, future, interrupted, socket, tracks,
                   mConnections, cache, closing>>

PollsOnlyTheCache(c) == tunnel = None
PollsOnlyInterrupts(c) == interrupted[c]
PollEnds(c) == tunnel = None \/ interrupted[c]

GetLeaves(c) ==
    /\ pc[c] = "polling" /\ PollEnds(c)
    /\ Goto(c, "leaving")
    /\ UNCHANGED <<accepting, post, target, future, interrupted, socket, tracks,
                   mConnections, tunnel, cache, closing>>

(* Thread.sleep(1000) in the loop.                                        *)
GetSleeps(c) ==
    /\ pc[c] = "polling" /\ ~PollEnds(c)
    /\ UNCHANGED vars

(* The cleanup of the entry: RTSP_SAFE_TIMEOUT after its last put. Time   *)
(* is left out, so it may come at any moment of an open cache.            *)
EntryExpires ==
    /\ tunnel # None /\ cache = "open"
    /\ tunnel' = None
    /\ UNCHANGED <<accepting, pc, post, target, future, interrupted, socket, tracks,
                   mConnections, cache, closing>>

----------------------------------------------------------------------------
(* RTSP over HTTP: the POST connection                                    *)

PostRequest(c) ==
    /\ pc[c] = "reading" /\ socket[c] /\ ~post[c]
    /\ tunnel # None
    /\ post' = [post EXCEPT ![c] = TRUE]
    /\ UNCHANGED <<accepting, pc, target, future, interrupted, socket, tracks,
                   mConnections, tunnel, cache, closing>>

(* A Base64 request, taken to be an RTSP one: mTunnelCache.get.           *)
PostFetches(c) ==
    /\ pc[c] = "reading" /\ socket[c] /\ post[c]
    /\ target' = [target EXCEPT ![c] = tunnel]
    /\ Goto(c, IF tunnel = None THEN "leaving" ELSE "fetched")
    /\ UNCHANGED <<accepting, post, future, interrupted, socket, tracks, mConnections,
                   tunnel, cache, closing>>

(* mTunnelCache.put with the connection that was fetched, whatever has    *)
(* become of it.                                                          *)
PostRefreshes(c) ==
    /\ pc[c] = "fetched"
    /\ tunnel' = target[c]
    /\ IF cache = "open" THEN Goto(c, "serving") /\ UNCHANGED target
                         ELSE Goto(c, "leaving") /\ Served(c)
    /\ UNCHANGED <<accepting, post, future, interrupted, socket, tracks, mConnections,
                   cache, closing>>

(* After TEARDOWN: "This will shutdown the GET connection".               *)
PostRemoves(c) ==
    /\ pc[c] = "removing"
    /\ tunnel' = None
    /\ Goto(c, "reading")
    /\ UNCHANGED <<accepting, post, target, future, interrupted, socket, tracks,
                   mConnections, cache, closing>>

----------------------------------------------------------------------------
(* The RTSP requests, on the target's session and output stream           *)

(* SETUP builds a packetizer, then replies; setTimeout or write throws on *)
(* a closed socket.                                                       *)
ServesSetup(c) ==
    LET t == target[c]
    IN  /\ pc[c] = "serving"
        /\ tracks' = [tracks EXCEPT ![t] = TRUE]
        /\ Goto(c, IF socket[t] THEN "reading" ELSE "leaving")
        /\ Served(c)
        /\ UNCHANGED <<accepting, post, future, interrupted, socket, mConnections,
                       tunnel, cache, closing>>

(* Requests that leave the tracks as they are, PLAY included.             *)
ServesOther(c) ==
    /\ pc[c] = "serving" /\ socket[target[c]]
    /\ Goto(c, "reading")
    /\ Served(c)
    /\ UNCHANGED <<accepting, post, future, interrupted, socket, tracks, mConnections,
                   tunnel, cache, closing>>

(* TEARDOWN replies, then stops one track or both, or refuses.            *)
ServesTeardown(c) ==
    LET t == target[c]
    IN  /\ pc[c] = "serving" /\ socket[t]
        /\ \E left \in {tracks[t], FALSE} : tracks' = [tracks EXCEPT ![t] = left]
        /\ Goto(c, IF post[c] THEN "removing" ELSE "reading")
        /\ Served(c)
        /\ UNCHANGED <<accepting, post, future, interrupted, socket, mConnections,
                       tunnel, cache, closing>>

----------------------------------------------------------------------------
(* The end of a connection                                                *)

(* StreamConnection.close(): stops both streams, closes the socket.       *)
ShutStreams(c) == /\ tracks' = [tracks EXCEPT ![c] = FALSE]
                  /\ UNCHANGED socket
Shut(c) == /\ tracks' = [tracks EXCEPT ![c] = FALSE]
           /\ socket' = [socket EXCEPT ![c] = FALSE]

(* handle()'s finally: close() ... The handler's locals are gone.         *)
HandlerCloses(c) ==
    /\ pc[c] = "leaving"
    /\ Shut(c)
    /\ Goto(c, "closed")
    /\ post' = [post EXCEPT ![c] = FALSE]
    /\ UNCHANGED <<accepting, target, future, interrupted, mConnections, tunnel, cache,
                   closing>>

KeepRegistered(c) == UNCHANGED mConnections
Unregister(c) == mConnections' = mConnections \ {c}

(* ... then onConnectionClosed.                                           *)
ConnectionClosed(c) ==
    /\ pc[c] = "closed"
    /\ Unregister(c)
    /\ Goto(c, "ended")
    /\ UNCHANGED <<accepting, post, target, future, interrupted, socket, tracks, tunnel,
                   cache, closing>>

----------------------------------------------------------------------------
(* StreamServer.close()                                                   *)

AppClosesListener ==
    /\ app = "idle"
    /\ listening' = FALSE
    /\ app' = "cache"
    /\ UNCHANGED <<listener, incoming, pc, post, target, future, interrupted, socket,
                   tracks, mConnections, tunnel, cache, next, shutting, visited, due>>

AppClosesCache ==
    /\ app = "cache"
    /\ cache' = "shut"
    /\ app' = "start"
    /\ UNCHANGED <<accepting, pc, post, target, future, interrupted, socket, tracks,
                   mConnections, tunnel, next, shutting, visited, due>>

(* The iterator of the queue looks one element ahead, and sees what is    *)
(* there at that moment.                                                  *)
Lookahead(seen) ==
    /\ visited' = seen
    /\ IF mConnections \subseteq seen THEN next' = None
                                      ELSE next' \in mConnections \ seen

AppIterates ==
    /\ app = "start"
    /\ app' = "iterate"
    /\ due' = mConnections
    /\ Lookahead({})
    /\ UNCHANGED <<accepting, pc, post, target, future, interrupted, socket, tracks,
                   mConnections, tunnel, cache, shutting>>

(* next() has looked ahead before the connection it returns is closed ... *)
AppTakesNext ==
    /\ app = "iterate" /\ shutting = None /\ next # None
    /\ shutting' = next
    /\ Lookahead(visited \cup {next})
    /\ UNCHANGED <<accepting, pc, post, target, future, interrupted, socket, tracks,
                   mConnections, tunnel, cache, app, due>>

(* ... by c.close(), which cancels the handler, if its future is known by *)
(* then.                                                                  *)
AppShuts ==
    /\ shutting # None
    /\ Shut(shutting)
    /\ interrupted' = [interrupted EXCEPT ![shutting] = @ \/ future[shutting]]
    /\ shutting' = None
    /\ UNCHANGED <<accepting, pc, post, target, future, mConnections, tunnel, cache, app,
                   next, visited, due>>

AppDone ==
    /\ app = "iterate" /\ shutting = None /\ next = None
    /\ app' = "done"
    /\ visited' = {}
    /\ UNCHANGED <<accepting, pc, post, target, future, interrupted, socket, tracks,
                   mConnections, tunnel, cache, next, shutting, due>>

----------------------------------------------------------------------------
Listener == ListenerSubmits \/ ListenerAssigns \/ AcceptThrows

(* What a client's bytes, or their absence, make a handler do.            *)
Client(c) == \/ ListenerAccepts(c)
             \/ Leaves(c) \/ RtspRequest(c) \/ GetRequest(c) \/ PostRequest(c)
             \/ MjpegRequest(c) \/ MjpegEnds(c)

(* What a handler does by itself.                                         *)
Proceeds(c) ==
    \/ ConnectionOpened(c) \/ HandlerCloses(c) \/ ConnectionClosed(c)
    \/ GetPuts(c) \/ GetLeaves(c) \/ PostRefreshes(c) \/ PostRemoves(c)

Serves(c) == ServesSetup(c) \/ ServesOther(c) \/ ServesTeardown(c)

App == AppClosesCache \/ AppIterates \/ AppTakesNext \/ AppShuts \/ AppDone

(* Nothing is left to do, but to close the server.                        *)
Finished == /\ app \in {"idle", "done"} /\ listener = "ended"
            /\ \A c \in Conn : pc[c] \in {"new", "ended"}
            /\ UNCHANGED vars

Next == \/ Listener \/ AppClosesListener \/ App \/ EntryExpires \/ Finished
        \/ \E c \in Conn : \/ WorkerTakes(c) \/ Client(c) \/ Proceeds(c) \/ Serves(c)
                           \/ PostFetches(c) \/ GetSleeps(c) \/ MjpegGoesOn(c)

Spec == Init /\ [][Next]_vars

(* The threads of the server run; reads and writes of a closed socket     *)
(* fail, but only a frame makes the MJPEG handler write. A reply to a     *)
(* client that does not read may never be written, unless the socket is   *)
(* closed: there is no write timeout. accept() fails only when it must.   *)
Fairness ==
    /\ WF_vars(ListenerSubmits \/ ListenerAssigns)
    /\ WF_vars(~listening /\ AcceptThrows)
    /\ WF_vars(App)
    /\ WF_vars(EntryExpires)
    /\ \A c \in Conn : /\ WF_vars(WorkerTakes(c))
                       /\ WF_vars(Proceeds(c))
                       /\ WF_vars(/\ pc[c] = "serving" /\ ~socket[target[c]]
                                  /\ ServesSetup(c) \/ Leaves(c))
                       /\ WF_vars(~socket[c] /\ Leaves(c))
                       /\ WF_vars(interrupted[c] /\ MjpegEnds(c))

FairSpec == Spec /\ Fairness

(* Every client falls silent or leaves in the end: end of stream, or      *)
(* SOCKET_TIMEOUT. A client that sends requests for ever keeps its thread.*)
ClientsFallSilent ==
    \A c \in Conn : SF_vars(pc[c] = "reading" /\ Leaves(c))

----------------------------------------------------------------------------
(* Properties                                                             *)

(* A connection that has tracks and can still send is in the registry, so *)
(* push() feeds it and close() reaches it, also when the tracks were set  *)
(* up through another connection's POST.                                  *)
OpenTracksAreRegistered ==
    \A c \in Conn : (tracks[c] /\ socket[c]) => c \in mConnections

(* A client can hold a thread for ever: with an MJPEG stream for which    *)
(* the application pushes no frame, or by not reading a reply.            *)
HeldForEver(c) == <>[](pc[c] \in {"mjpeg", "serving"})

(* No waiting connection starves and no tunnel outlives its clients: if   *)
(* clients fall silent and none of them holds its thread, every accepted  *)
(* connection is served and ended, also when GETs hold every thread a     *)
(* POST is waiting for.                                                   *)
ConnectionsEnd ==
    (\E c \in Conn : HeldForEver(c)) \/ \A c \in Conn : pc[c] = "queued" ~> pc[c] = "ended"

(* A handler that close() has cancelled ends, whatever it was doing and   *)
(* whatever its client does.                                              *)
CancelledHandlersEnd ==
    \A c \in Conn : interrupted[c] ~> pc[c] = "ended"

(* "Closes the server and shutdowns all the active connections": when     *)
(* close() returns, no handler runs on an open connection.                *)
CloseShutsActiveConnections ==
    app = "done" => \A c \in Running : ~socket[c]

(* "The streaming is controlled by the POST connection ... The cache is   *)
(* controlled by the POST connection as well": a tunnel is not closed     *)
(* under a POST that is serving a request.                                *)
PostKeepsItsTunnel ==
    \A c \in Conn :
        (app = "idle" /\ post[c] /\ pc[c] = "serving") => socket[target[c]]

----------------------------------------------------------------------------
(* The inductive invariant behind OpenTracksAreRegistered.                *)

(* An open socket belongs to a connection on its way in or being handled. *)
OpenSocketHasHandler ==
    \A c \in Conn : socket[c] => \/ pc[c] \notin {"new", "closed", "ended"}
                                 \/ listener = "accepted" /\ incoming = c

(* Between its registration and its removal a connection is registered.   *)
HandledIsRegistered ==
    \A c \in Conn : pc[c] \notin {"new", "queued", "started", "ended"} <=> c \in mConnections

(* A request works on a connection that was registered once: its own, or  *)
(* one that reached mTunnelCache.                                         *)
Seen == {c \in Conn : pc[c] \notin {"new", "queued", "started"}}
TargetsWereSeen ==
    /\ \A c \in Conn : pc[c] \in {"fetched", "serving"} => target[c] \in Seen
    /\ tunnel # None => tunnel \in Seen
    /\ \A c \in Conn : tracks[c] => c \in Seen

ListenerKnowsItsConnection ==
    /\ listener \in {"accepted", "submitted"} => incoming \in Conn
    /\ listener = "accepted" => pc[incoming] = "new"

(* What the iterator of close() has returned is shut for good, but for the *)
(* last, and what it returns next was registered when it looked.          *)
VisitedAreShut ==
    /\ visited \subseteq Seen /\ \A c \in visited \ {shutting} : ~socket[c]
    /\ next # None => next \in Seen /\ app = "iterate"
    /\ shutting # None => shutting \in visited /\ app = "iterate"

(* The iterator ends only when it has returned what was registered when   *)
(* it was created, or that is not registered any more: when close() has   *)
(* returned, none of it is open.                                          *)
DueAreShut ==
    /\ due \subseteq Seen
    /\ (app = "iterate" /\ next = None) => due \cap mConnections \subseteq visited
    /\ app = "done" => \A c \in due : ~socket[c]

IInv == /\ TypeOK
        /\ OpenSocketHasHandler
        /\ HandledIsRegistered
        /\ TargetsWereSeen
        /\ ListenerKnowsItsConnection
        /\ OpenTracksAreRegistered
        /\ VisitedAreShut
        /\ DueAreShut

----------------------------------------------------------------------------
(* The abstract registry this server implements.                          *)

NotYetAccepted(c) == pc[c] = "new" /\ ~(listener = "accepted" /\ incoming = c)

Life(c) == IF c \in mConnections THEN "registered"
           ELSE IF pc[c] = "ended" THEN "gone"
           ELSE IF NotYetAccepted(c) THEN "new" ELSE "accepted"

ClosingState == CASE app \in {"idle", "cache", "start"} -> "no"
                  [] app = "iterate" -> "on"
                  [] app = "done" -> "over"

Abstract == INSTANCE ConnectionRegistry
              WITH life <- [c \in Conn |-> Life(c)],
                   open <- {c \in Conn : socket[c]},
                   fed <- {c \in Conn : tracks[c] /\ socket[c]},
                   closing <- ClosingState

(* With a handler per connection, a registry that is read while it        *)
(* changes, and requests that work on connections of other handlers, the  *)
(* server keeps the promises of ConnectionRegistry.                       *)
ImplementsRegistry == Abstract!Spec
====
