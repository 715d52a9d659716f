---- MODULE StreamServerProofs ----
(***************************************************************************)
(* The server for any number of connections and any size of the pool: an   *)
(* open connection with tracks is always in the registry, although a POST  *)
(* may set tracks up on a connection another handler is closing.           *)
(***************************************************************************)
EXTENDS StreamServer, TLAPS

(* The steps of one handler, of any kind.                                 *)
HandlerOf(c) == Client(c) \/ Proceeds(c) \/ Serves(c) \/ WorkerTakes(c) \/ PostFetches(c)

(* The actions of Next, by who takes them.                                *)
LEMMA StepCases ==
  ASSUME [Next]_vars
  PROVE  \/ ListenerSubmits \/ ListenerAssigns \/ AcceptThrows
         \/ AppClosesListener \/ AppClosesCache \/ AppIterates \/ AppTakesNext
         \/ AppShuts \/ AppDone \/ EntryExpires
         \/ \E c \in Conn : HandlerOf(c)
         \/ UNCHANGED vars
  BY DEF Next, Listener, App, HandlerOf, Finished, GetSleeps, MjpegGoesOn

(* The actions of a handler, one by one.                                  *)
LEMMA HandlerCases ==
  ASSUME NEW c \in Conn, HandlerOf(c)
  PROVE  \/ ListenerAccepts(c) \/ Leaves(c) \/ RtspRequest(c) \/ GetRequest(c)
         \/ PostRequest(c) \/ ConnectionOpened(c) \/ HandlerCloses(c)
         \/ ConnectionClosed(c) \/ GetPuts(c) \/ GetLeaves(c) \/ PostRefreshes(c)
         \/ PostRemoves(c) \/ ServesSetup(c) \/ ServesOther(c) \/ ServesTeardown(c)
         \/ WorkerTakes(c) \/ PostFetches(c) \/ MjpegRequest(c) \/ MjpegEnds(c)
  BY DEF HandlerOf, Client, Proceeds, Serves

(* A new server: nobody is connected.                                     *)
LEMMA InitInv == Init => IInv
  BY ServerAssumption
  DEF Init, IInv, TypeOK, OpenSocketHasHandler, HandledIsRegistered, TargetsWereSeen,
      ListenerKnowsItsConnection, OpenTracksAreRegistered, VisitedAreShut, DueAreShut

(* Types.                                                                 *)
LEMMA TypeStep ==
  ASSUME TypeOK, TargetsWereSeen, ListenerKnowsItsConnection, [Next]_vars
  PROVE  TypeOK'
  <1> USE DEF TypeOK, accepting, closing
  <1>1. CASE ListenerSubmits
    BY <1>1 DEF ListenerSubmits, Goto
  <1>2. CASE ListenerAssigns
    BY <1>2 DEF ListenerAssigns
  <1>3. CASE AcceptThrows \/ EntryExpires
    BY <1>3 DEF AcceptThrows, ListenerEnds, EntryExpires
  <1>4. CASE AppClosesListener \/ AppClosesCache \/ AppDone
    BY <1>4 DEF AppClosesListener, AppClosesCache, AppDone
  <1>5. CASE AppIterates \/ AppTakesNext
    BY <1>5 DEF AppIterates, AppTakesNext, Lookahead
  <1>6. CASE AppShuts
    BY <1>6 DEF AppShuts, Shut
  <1>7. ASSUME NEW c \in Conn, HandlerOf(c) PROVE TypeOK'
    <2>1. CASE ListenerAccepts(c)
      BY <2>1 DEF ListenerAccepts
    <2>2. CASE Leaves(c) \/ ServesOther(c) \/ RtspRequest(c)
      BY <2>2 DEF Leaves, ServesOther, RtspRequest, Served, Goto
    <2>3. CASE GetRequest(c) \/ PostRequest(c) \/ WorkerTakes(c) \/ GetLeaves(c)
      BY <2>3 DEF GetRequest, PostRequest, WorkerTakes, GetLeaves, Goto
    <2>10. CASE MjpegRequest(c) \/ MjpegEnds(c)
      BY <2>10 DEF MjpegRequest, MjpegEnds, Goto
    <2>4. CASE ConnectionOpened(c) \/ ConnectionClosed(c)
      BY <2>4 DEF ConnectionOpened, ConnectionClosed, Register, Unregister, Goto
    <2>5. CASE HandlerCloses(c)
      BY <2>5 DEF HandlerCloses, Shut, Goto
    <2>6. CASE GetPuts(c) \/ PostRemoves(c)
      BY <2>6 DEF GetPuts, PostRemoves, Goto
    <2>7. CASE PostRefreshes(c)
      BY <2>7 DEF PostRefreshes, Served, Goto
    <2>8. CASE PostFetches(c)
      BY <2>8 DEF PostFetches, Goto
    <2>9. CASE ServesSetup(c) \/ ServesTeardown(c)
      <3>1. target[c] \in Conn
        BY <2>9 DEF ServesSetup, ServesTeardown, TargetsWereSeen, Seen
      <3>2. tracks' \in [Conn -> BOOLEAN] /\ target' \in [Conn -> Conn \cup {None}]
        BY <2>9, <3>1 DEF ServesSetup, ServesTeardown, Served
      <3>3. pc' \in [Conn -> {"new", "queued", "started", "reading", "mjpeg", "granted",
                        "polling", "fetched", "serving", "removing", "leaving", "closed",
                        "ended"}]
        BY <2>9 DEF ServesSetup, ServesTeardown, Goto
      <3> QED
        BY <2>9, <3>2, <3>3 DEF ServesSetup, ServesTeardown
    <2> QED
      BY <1>7, <2>1, <2>2, <2>3, <2>4, <2>5, <2>6, <2>7, <2>8, <2>9, <2>10,
         HandlerCases
  <1>8. CASE UNCHANGED vars
    BY <1>8 DEF vars
  <1> QED
    BY <1>1, <1>2, <1>3, <1>4, <1>5, <1>6, <1>7, <1>8, StepCases

(* The listener submits what it has accepted.                             *)
LEMMA ListenerStep ==
  ASSUME TypeOK, ListenerKnowsItsConnection, [Next]_vars
  PROVE  ListenerKnowsItsConnection'
  <1> USE DEF TypeOK, ListenerKnowsItsConnection, accepting, closing
  <1>1. CASE ListenerSubmits \/ ListenerAssigns
    BY <1>1 DEF ListenerSubmits, ListenerAssigns
  <1>2. CASE AcceptThrows
    BY <1>2 DEF AcceptThrows, ListenerEnds
  <1>3. CASE UNCHANGED <<listener, incoming, pc>>
    BY <1>3
  <1>4. ASSUME NEW c \in Conn, HandlerOf(c) PROVE ListenerKnowsItsConnection'
    <2>1. CASE ListenerAccepts(c)
      BY <2>1 DEF ListenerAccepts
    <2>2. CASE /\ UNCHANGED <<listener, incoming>>
               /\ pc[c] # "new" /\ \E l : Goto(c, l)
      BY <2>2 DEF Goto
    <2> QED
      BY <1>4, <1>3, <2>1, <2>2, HandlerCases
      DEF Leaves, RtspRequest, MjpegRequest, MjpegEnds, GetRequest, PostRequest,
          ConnectionOpened, HandlerCloses,
          ConnectionClosed, GetPuts, GetLeaves, PostRefreshes, PostRemoves, ServesSetup,
          ServesOther, ServesTeardown, WorkerTakes, PostFetches
  <1>5. CASE UNCHANGED vars
    BY <1>5 DEF vars
  <1> QED
    BY <1>1, <1>2, <1>3, <1>4, <1>5, StepCases
    DEF AppClosesListener, AppClosesCache, AppIterates, AppTakesNext, AppShuts,
        AppDone, EntryExpires

(* What a handler's own steps do to where it is: a connection that was    *)
(* handled stays so, and is never new again.                              *)
LEMMA SeenGrows ==
  ASSUME TypeOK, ListenerKnowsItsConnection, [Next]_vars
  PROVE  Seen \subseteq Seen'
  <1> USE DEF TypeOK, Seen, accepting, closing
  <1>1. CASE ListenerSubmits
    BY <1>1 DEF ListenerSubmits, Goto, ListenerKnowsItsConnection
  <1>2. CASE UNCHANGED pc
    BY <1>2
  <1>3. ASSUME NEW c \in Conn, HandlerOf(c) PROVE Seen \subseteq Seen'
    <2>1. CASE \E l : Goto(c, l) /\ (c \in Seen => l \notin {"new", "queued", "started"})
      BY <2>1 DEF Goto
    <2>2. CASE WorkerTakes(c)
      BY <2>2 DEF WorkerTakes, Goto
    <2> QED
      BY <1>3, <1>2, <2>1, <2>2, HandlerCases
      DEF ListenerAccepts, Leaves, RtspRequest, MjpegRequest, MjpegEnds, GetRequest,
          PostRequest, ConnectionOpened,
          HandlerCloses, ConnectionClosed, GetPuts, GetLeaves, PostRefreshes, PostRemoves,
          ServesSetup, ServesOther, ServesTeardown, PostFetches
  <1>4. CASE UNCHANGED vars
    BY <1>4 DEF vars
  <1> QED
    BY <1>1, <1>2, <1>3, <1>4, StepCases
    DEF ListenerAssigns, AcceptThrows, AppClosesListener, AppClosesCache, AppIterates,
        AppTakesNext, AppShuts, AppDone, EntryExpires

(* Only a connection that has been registered is ever served.             *)
LEMMA TargetStep ==
  ASSUME TypeOK, TargetsWereSeen, ListenerKnowsItsConnection, [Next]_vars
  PROVE  TargetsWereSeen'
  <1>1. Seen \subseteq Seen'
    BY SeenGrows
  <1> USE ServerAssumption, <1>1 DEF TypeOK, TargetsWereSeen, accepting, closing
  <1>2. CASE ListenerSubmits
    BY <1>2 DEF ListenerSubmits, Goto
  <1>3. CASE UNCHANGED <<pc, target, tunnel>> /\ tracks' \in {tracks, [tracks EXCEPT ![shutting] = FALSE]}
    BY <1>3
  <1>4. CASE EntryExpires
    BY <1>4 DEF EntryExpires
  <1>5. ASSUME NEW c \in Conn, HandlerOf(c) PROVE TargetsWereSeen'
    <2>1. CASE ListenerAccepts(c) \/ PostRequest(c)
      BY <2>1 DEF ListenerAccepts, PostRequest
    <2>2. CASE Leaves(c) \/ ServesOther(c)
      BY <2>2 DEF Leaves, ServesOther, Served, Goto
    <2>3. CASE RtspRequest(c)
      BY <2>3 DEF RtspRequest, Goto, Seen
    <2>4. CASE GetRequest(c) \/ WorkerTakes(c) \/ GetLeaves(c) \/ ConnectionOpened(c)
               \/ ConnectionClosed(c)
      BY <2>4
      DEF GetRequest, WorkerTakes, GetLeaves, ConnectionOpened, ConnectionClosed, Goto
    <2>11. CASE MjpegRequest(c) \/ MjpegEnds(c)
      BY <2>11 DEF MjpegRequest, MjpegEnds, Goto
    <2>5. CASE HandlerCloses(c)
      BY <2>5 DEF HandlerCloses, Shut, Goto
    <2>6. CASE GetPuts(c)
      BY <2>6 DEF GetPuts, Goto, Seen
    <2>7. CASE PostRefreshes(c)
      BY <2>7 DEF PostRefreshes, Served, Goto
    <2>8. CASE PostRemoves(c)
      BY <2>8 DEF PostRemoves, Goto
    <2>9. CASE PostFetches(c)
      BY <2>9 DEF PostFetches, Goto
    <2>10. CASE ServesSetup(c) \/ ServesTeardown(c)
      <3>1. target[c] \in Seen /\ target[c] \in Conn
        BY <2>10 DEF ServesSetup, ServesTeardown, Seen
      <3>2. \A d \in Conn : tracks'[d] => d \in Seen
        BY <2>10, <3>1 DEF ServesSetup, ServesTeardown
      <3>3. \A d \in Conn : pc'[d] \in {"fetched", "serving"} => target'[d] \in Seen
        BY <2>10 DEF ServesSetup, ServesTeardown, Served, Goto
      <3>4. tunnel' = tunnel
        BY <2>10 DEF ServesSetup, ServesTeardown
      <3> QED
        BY <3>2, <3>3, <3>4
    <2> QED
      BY <1>5, <2>1, <2>2, <2>3, <2>4, <2>5, <2>6, <2>7, <2>8, <2>9, <2>10,
         <2>11, HandlerCases
  <1>6. CASE UNCHANGED vars
    BY <1>6 DEF vars
  <1> QED
    BY <1>2, <1>3, <1>4, <1>5, <1>6, StepCases
    DEF ListenerAssigns, AcceptThrows, AppClosesListener, AppClosesCache, AppIterates,
        AppTakesNext, AppShuts, Shut, AppDone

(* A socket is opened by accept() and closed by the handler's last step   *)
(* but one, if not earlier by the application.                            *)
LEMMA SocketStep ==
  ASSUME TypeOK, OpenSocketHasHandler, ListenerKnowsItsConnection, [Next]_vars
  PROVE  OpenSocketHasHandler'
  <1> USE DEF TypeOK, OpenSocketHasHandler, accepting, closing
  <1>1. CASE ListenerSubmits \/ ListenerAssigns
    BY <1>1 DEF ListenerSubmits, ListenerAssigns, Goto, ListenerKnowsItsConnection
  <1>2. CASE AcceptThrows
    BY <1>2 DEF AcceptThrows, ListenerEnds
  <1>3. CASE /\ UNCHANGED <<pc, listener, incoming>>
             /\ socket' \in {socket, [socket EXCEPT ![shutting] = FALSE]}
    BY <1>3
  <1>4. ASSUME NEW c \in Conn, HandlerOf(c) PROVE OpenSocketHasHandler'
    <2>1. CASE ListenerAccepts(c)
      BY <2>1 DEF ListenerAccepts
    <2>2. CASE HandlerCloses(c)
      BY <2>2 DEF HandlerCloses, Shut, Goto
    <2>3. CASE ConnectionClosed(c)
      BY <2>3 DEF ConnectionClosed, Goto
    <2>4. CASE /\ UNCHANGED <<listener, incoming, socket>>
               /\ \E l : Goto(c, l) /\ l \notin {"new", "closed", "ended"}
      BY <2>4 DEF Goto
    <2> QED
      BY <1>4, <1>3, <2>1, <2>2, <2>3, <2>4, HandlerCases
      DEF Leaves, RtspRequest, MjpegRequest, MjpegEnds, GetRequest, PostRequest,
          ConnectionOpened, GetPuts,
          GetLeaves, PostRefreshes, PostRemoves, ServesSetup, ServesOther, ServesTeardown,
          WorkerTakes, PostFetches
  <1>5. CASE UNCHANGED vars
    BY <1>5 DEF vars
  <1> QED
    BY <1>1, <1>2, <1>3, <1>4, <1>5, StepCases
    DEF AppClosesListener, AppClosesCache, AppIterates, AppTakesNext, AppShuts, Shut, AppDone,
        EntryExpires

(* A handler registers its connection first and removes it last.          *)
LEMMA RegistryStep ==
  ASSUME TypeOK, HandledIsRegistered, ListenerKnowsItsConnection, [Next]_vars
  PROVE  HandledIsRegistered'
  <1> USE DEF TypeOK, HandledIsRegistered, accepting, closing
  <1>1. CASE ListenerSubmits
    BY <1>1 DEF ListenerSubmits, Goto, ListenerKnowsItsConnection
  <1>2. CASE UNCHANGED <<pc, mConnections>>
    BY <1>2
  <1>3. ASSUME NEW c \in Conn, HandlerOf(c) PROVE HandledIsRegistered'
    <2>1. CASE ConnectionOpened(c)
      BY <2>1 DEF ConnectionOpened, Register, Goto
    <2>2. CASE ConnectionClosed(c)
      BY <2>2 DEF ConnectionClosed, Unregister, Goto
    <2>3. CASE WorkerTakes(c)
      BY <2>3 DEF WorkerTakes, Goto
    <2>4. CASE /\ UNCHANGED mConnections
               /\ pc[c] \notin {"new", "queued", "started", "ended"}
               /\ \E l : Goto(c, l) /\ l \notin {"new", "queued", "started", "ended"}
      BY <2>4 DEF Goto
    <2> QED
      BY <1>3, <1>2, <2>1, <2>2, <2>3, <2>4, HandlerCases
      DEF ListenerAccepts, Leaves, RtspRequest, MjpegRequest, MjpegEnds, GetRequest,
          PostRequest, HandlerCloses,
          GetPuts, GetLeaves, PostRefreshes, PostRemoves, ServesSetup, ServesOther,
          ServesTeardown, PostFetches
  <1>4. CASE UNCHANGED vars
    BY <1>4 DEF vars
  <1> QED
    BY <1>1, <1>2, <1>3, <1>4, StepCases
    DEF ListenerAssigns, AcceptThrows, AppClosesListener, AppClosesCache, AppIterates,
        AppTakesNext, AppShuts, AppDone, EntryExpires

(* Tracks make the connection a seen one, its open socket one that has    *)
(* not been closed: so it is registered.                                  *)
LEMMA TracksFollow ==
  ASSUME OpenSocketHasHandler, HandledIsRegistered, TargetsWereSeen,
         ListenerKnowsItsConnection
  PROVE  OpenTracksAreRegistered
  BY DEF OpenSocketHasHandler, HandledIsRegistered, TargetsWereSeen, Seen,
         ListenerKnowsItsConnection, OpenTracksAreRegistered

(* What a registered connection is: a seen one.                           *)
LEMMA RegisteredIsSeen ==
  ASSUME TypeOK, HandledIsRegistered
  PROVE  mConnections \subseteq Seen
  BY DEF TypeOK, HandledIsRegistered, Seen

(* The iterator of close() goes on from what was registered, and nobody   *)
(* opens again what it has shut.                                          *)
LEMMA VisitedStep ==
  ASSUME TypeOK, HandledIsRegistered, ListenerKnowsItsConnection, VisitedAreShut, [Next]_vars
  PROVE  VisitedAreShut'
  <1>1. Seen \subseteq Seen' /\ mConnections \subseteq Seen /\ Seen \subseteq Conn
    BY SeenGrows, RegisteredIsSeen DEF Seen
  <1> USE <1>1 DEF TypeOK, VisitedAreShut, accepting, closing
  <1>2. CASE UNCHANGED <<next, shutting, visited, socket, app>>
    BY <1>2
  <1>3. CASE AppIterates
    BY <1>3 DEF AppIterates, Lookahead
  <1>4. CASE AppTakesNext
    <2>1. next \in Seen /\ app' = "iterate" /\ visited' = visited \cup {next}
          /\ shutting = None /\ shutting' = next /\ socket' = socket
          /\ (next' = None \/ next' \in mConnections)
      BY <1>4 DEF AppTakesNext, Lookahead
    <2> QED
      BY <2>1, ServerAssumption
  <1>8. CASE AppShuts
    BY <1>8 DEF AppShuts, Shut
  <1>5. CASE AppClosesListener \/ AppClosesCache \/ AppDone
    BY <1>5 DEF AppClosesListener, AppClosesCache, AppDone
  <1>6. ASSUME NEW c \in Conn, HandlerOf(c) PROVE VisitedAreShut'
    <2>1. CASE ListenerAccepts(c)
      <3>1. c \notin Seen /\ socket' = [socket EXCEPT ![c] = TRUE] /\ UNCHANGED closing
        BY <2>1 DEF ListenerAccepts, Seen
      <3> QED
        BY <3>1
    <2>2. CASE HandlerCloses(c)
      BY <2>2 DEF HandlerCloses, Shut
    <2> QED
      BY <1>6, <1>2, <2>1, <2>2, HandlerCases
      DEF Leaves, RtspRequest, MjpegRequest, MjpegEnds, GetRequest, PostRequest,
          ConnectionOpened, ConnectionClosed, GetPuts, GetLeaves, PostRefreshes,
          PostRemoves, ServesSetup, ServesOther, ServesTeardown, WorkerTakes, PostFetches
  <1>7. CASE UNCHANGED vars
    BY <1>7 DEF vars
  <1> QED
    BY <1>2, <1>3, <1>4, <1>5, <1>6, <1>7, <1>8, StepCases
    DEF ListenerSubmits, ListenerAssigns, AcceptThrows, EntryExpires

(* The walk of close() misses nothing that was registered when it began:  *)
(* what it has not returned yet is still before it, or has been removed,  *)
(* and what has been removed has been shut.                               *)
LEMMA DueStep ==
  ASSUME TypeOK, OpenSocketHasHandler, HandledIsRegistered, ListenerKnowsItsConnection,
         VisitedAreShut, DueAreShut, [Next]_vars
  PROVE  DueAreShut'
  <1>1. Seen \subseteq Seen' /\ mConnections \subseteq Seen /\ Seen \subseteq Conn
    BY SeenGrows, RegisteredIsSeen DEF Seen
  <1> USE <1>1 DEF DueAreShut, accepting, closing
  <1>2. CASE /\ UNCHANGED <<app, next, visited, due>>
             /\ mConnections' \cap due \subseteq mConnections
             /\ \A c \in due : ~socket[c] => ~socket'[c]
    BY <1>2
  <1>3. CASE AppIterates
    BY <1>3, ServerAssumption DEF TypeOK, AppIterates, Lookahead
  <1>4. CASE AppTakesNext
    BY <1>4, ServerAssumption DEF TypeOK, AppTakesNext, Lookahead
  <1>5. CASE AppShuts
    BY <1>5 DEF TypeOK, AppShuts, Shut
  <1>6. CASE AppDone
    <2>1. ASSUME NEW c \in due, socket[c] PROVE FALSE
      <3>1. c \in mConnections
        BY <2>1
        DEF Seen, OpenSocketHasHandler, HandledIsRegistered, ListenerKnowsItsConnection
      <3>2. c \in visited \ {shutting}
        BY <1>6, <2>1, <3>1, ServerAssumption DEF AppDone
      <3> QED
        BY <2>1, <3>2 DEF VisitedAreShut
    <2> QED
      BY <1>6, <2>1 DEF AppDone
  <1>7. CASE AppClosesListener \/ AppClosesCache
    BY <1>7 DEF AppClosesListener, AppClosesCache
  <1>8. ASSUME NEW c \in Conn, HandlerOf(c) PROVE DueAreShut'
    <2>1. CASE ListenerAccepts(c)
      <3>1. c \notin due /\ socket' = [socket EXCEPT ![c] = TRUE]
            /\ UNCHANGED <<closing, mConnections>>
        BY <2>1 DEF ListenerAccepts, Seen
      <3> QED
        BY <1>2, <3>1 DEF TypeOK
    <2>2. CASE HandlerCloses(c)
      BY <1>2, <2>2 DEF TypeOK, HandlerCloses, Shut
    <2>3. CASE ConnectionOpened(c)
      <3>1. c \notin due /\ mConnections' = mConnections \cup {c}
            /\ UNCHANGED <<closing, socket>>
        BY <2>3 DEF ConnectionOpened, Register, Seen
      <3> QED
        BY <1>2, <3>1
    <2>4. CASE ConnectionClosed(c)
      BY <1>2, <2>4 DEF ConnectionClosed, Unregister
    <2>5. CASE UNCHANGED <<closing, mConnections, socket>>
      BY <1>2, <2>5
    <2> QED
      BY <1>8, <2>1, <2>2, <2>3, <2>4, <2>5, HandlerCases
      DEF Leaves, RtspRequest, MjpegRequest, MjpegEnds, GetRequest, PostRequest,
          GetPuts, GetLeaves, PostRefreshes,
          PostRemoves, ServesSetup, ServesOther, ServesTeardown, WorkerTakes, PostFetches
  <1>9. CASE UNCHANGED vars
    BY <1>2, <1>9 DEF vars
  <1> QED
    BY <1>2, <1>3, <1>4, <1>5, <1>6, <1>7, <1>8, <1>9, StepCases
    DEF ListenerSubmits, ListenerAssigns, AcceptThrows, EntryExpires

(* One step of the server keeps every part of the invariant.              *)
LEMMA StepInv == IInv /\ [Next]_vars => IInv'
  <1> SUFFICES ASSUME IInv, [Next]_vars PROVE IInv'
    OBVIOUS
  <1>1. /\ TypeOK' /\ OpenSocketHasHandler' /\ HandledIsRegistered'
        /\ TargetsWereSeen' /\ ListenerKnowsItsConnection' /\ VisitedAreShut' /\ DueAreShut'
    BY TypeStep, SocketStep, RegistryStep, TargetStep, ListenerStep, VisitedStep, DueStep
    DEF IInv
  <1>2. OpenTracksAreRegistered'
    BY <1>1, TracksFollow, PTL
  <1> QED
    BY <1>1, <1>2 DEF IInv

(* The invariant of the server, for every number of connections and       *)
(* threads.                                                               *)
THEOREM Invariance == Spec => []IInv
  BY InitInv, StepInv, PTL DEF Spec

(* Every open connection with tracks is reached by push() and close().    *)
THEOREM RegistryIsComplete == Spec => []OpenTracksAreRegistered
  <1>1. IInv => OpenTracksAreRegistered
    BY DEF IInv
  <1> QED
    BY <1>1, Invariance, PTL

----------------------------------------------------------------------------
(* Refinement: the server implements ConnectionRegistry.                  *)

(* A connection stays in its stage of life, unless the registry or its    *)
(* first or last step says otherwise.                                     *)
LEMMA LifeKept ==
  ASSUME UNCHANGED mConnections, NEW c \in Conn,
         NotYetAccepted(c)' <=> NotYetAccepted(c), (pc'[c] = "ended") <=> (pc[c] = "ended")
  PROVE  Life(c)' = Life(c)
  BY DEF Life

LEMMA LivesKept ==
  ASSUME UNCHANGED <<mConnections, pc, listener, incoming>>
  PROVE  [c \in Conn |-> Life(c)]' = [c \in Conn |-> Life(c)]
  BY DEF Life, NotYetAccepted

(* A handler that goes on, neither first nor last, keeps every life.      *)
LEMMA LivesGoOn ==
  ASSUME TypeOK, UNCHANGED <<mConnections, listener, incoming>>, NEW c \in Conn, NEW l,
         Goto(c, l), pc[c] \notin {"new", "ended"}, l \notin {"new", "ended"}
  PROVE  [d \in Conn |-> Life(d)]' = [d \in Conn |-> Life(d)]
  <1>1. ASSUME NEW d \in Conn PROVE Life(d)' = Life(d)
    <2>1. NotYetAccepted(d)' <=> NotYetAccepted(d)
      BY DEF TypeOK, Goto, NotYetAccepted
    <2>2. (pc'[d] = "ended") <=> (pc[d] = "ended")
      BY DEF TypeOK, Goto
    <2> QED
      BY <2>1, <2>2, LifeKept
  <1> QED
    BY <1>1

(* One connection moves on in its life, the others stay.                  *)
LEMMA OneLifeMoves ==
  ASSUME NEW c \in Conn, NEW l, Life(c)' = l,
         \A d \in Conn \ {c} : Life(d)' = Life(d)
  PROVE  [d \in Conn |-> Life(d)]' = [[d \in Conn |-> Life(d)] EXCEPT ![c] = l]
  OBVIOUS

(* An open connection is on its way in, or registered.                    *)
LEMMA OpenIsAlive ==
  ASSUME IInv, NEW c \in Conn, socket[c]
  PROVE  /\ Life(c) \in {"accepted", "registered"}
         /\ c \in Seen => c \in mConnections
  BY DEF IInv, TypeOK, OpenSocketHasHandler, HandledIsRegistered, ListenerKnowsItsConnection,
         Seen, Life, NotYetAccepted

LEMMA RefinesInit == Init => Abstract!Init
  <1> SUFFICES ASSUME Init PROVE Abstract!Init
    OBVIOUS
  <1>1. \A c \in Conn : Life(c) = "new" /\ ~socket[c]
    BY DEF Init, Life, NotYetAccepted
  <1>2. ClosingState = "no" /\ due = {}
    BY DEF Init, ClosingState
  <1> QED
    BY <1>1, <1>2 DEF Abstract!Init

(* Each step of a handler is one step of the registry or none.            *)
LEMMA HandlerRefines ==
  ASSUME IInv, NEW c \in Conn, HandlerOf(c)
  PROVE  [Abstract!Next]_(Abstract!vars)
  <1>1. TypeOK /\ TargetsWereSeen
    BY DEF IInv
  <1>2. CASE ListenerAccepts(c)
    <2>1. Life(c) = "new" /\ Life(c)' = "accepted" /\ ~tracks[c]
      BY <1>1, <1>2
      DEF IInv, HandledIsRegistered, TargetsWereSeen, Seen, ListenerAccepts, Life,
          NotYetAccepted
    <2>2. ASSUME NEW d \in Conn \ {c} PROVE Life(d)' = Life(d)
      BY <1>2, LifeKept DEF ListenerAccepts, NotYetAccepted
    <2>3. /\ {d \in Conn : socket'[d]} = {d \in Conn : socket[d]} \cup {c}
          /\ {d \in Conn : tracks'[d] /\ socket'[d]} = {d \in Conn : tracks[d] /\ socket[d]}
      BY <1>1, <1>2, <2>1 DEF TypeOK, ListenerAccepts
    <2>4. UNCHANGED <<ClosingState, due>>
      BY <1>2 DEF ListenerAccepts, closing, ClosingState
    <2>5. Abstract!Accept(c)
      BY <2>1, <2>2, <2>3, <2>4, OneLifeMoves DEF Abstract!Accept, Abstract!Moves, Abstract!closes
    <2> QED
      BY <2>5 DEF Abstract!Next
  <1>3. CASE ConnectionOpened(c)
    <2>1. Life(c) = "accepted" /\ Life(c)' = "registered"
      BY <1>1, <1>3
      DEF IInv, HandledIsRegistered, ConnectionOpened, Register, Life, NotYetAccepted
    <2>2. ASSUME NEW d \in Conn \ {c} PROVE Life(d)' = Life(d)
      BY <1>1, <1>3
      DEF TypeOK, ConnectionOpened, Register, Goto, accepting, Life, NotYetAccepted
    <2>3. UNCHANGED <<ClosingState, due, socket, tracks>>
      BY <1>3 DEF ConnectionOpened, closing, ClosingState
    <2>4. Abstract!Register(c)
      BY <2>1, <2>2, <2>3, OneLifeMoves DEF Abstract!Register, Abstract!Moves, Abstract!closes
    <2> QED
      BY <2>4 DEF Abstract!Next
  <1>4. CASE HandlerCloses(c)
    <2>1. [d \in Conn |-> Life(d)]' = [d \in Conn |-> Life(d)]
      BY <1>1, <1>4, LivesGoOn DEF HandlerCloses, accepting
    <2>2. /\ {d \in Conn : socket'[d]} = {d \in Conn : socket[d]} \ {c}
          /\ {d \in Conn : tracks'[d] /\ socket'[d]} = {d \in Conn : tracks[d] /\ socket[d]} \ {c}
      BY <1>1, <1>4 DEF TypeOK, HandlerCloses, Shut
    <2>3. UNCHANGED <<ClosingState, due>> /\ Life(c) = "registered"
      BY <1>4 DEF IInv, HandledIsRegistered, Life, HandlerCloses, closing, ClosingState
    <2>4. CASE socket[c]
      <3>1. Abstract!Shut(c)
        BY <2>1, <2>2, <2>3, <2>4 DEF Abstract!Shut, Abstract!closes
      <3> QED
        BY <3>1 DEF Abstract!Next
    <2>5. CASE ~socket[c]
      BY <2>1, <2>2, <2>3, <2>5 DEF Abstract!vars, Abstract!closes
    <2> QED
      BY <2>4, <2>5
  <1>5. CASE ConnectionClosed(c)
    <2>1. Life(c) = "registered" /\ Life(c)' = "gone" /\ ~socket[c]
      BY <1>1, <1>5
      DEF TypeOK, IInv, HandledIsRegistered, OpenSocketHasHandler, ListenerKnowsItsConnection,
          ConnectionClosed, Unregister, Goto, Life
    <2>2. ASSUME NEW d \in Conn \ {c} PROVE Life(d)' = Life(d)
      BY <1>1, <1>5
      DEF TypeOK, ConnectionClosed, Unregister, Goto, accepting, Life, NotYetAccepted
    <2>3. UNCHANGED <<ClosingState, due, socket, tracks>>
      BY <1>5 DEF ConnectionClosed, closing, ClosingState
    <2>4. Abstract!Remove(c)
      BY <2>1, <2>2, <2>3, OneLifeMoves DEF Abstract!Remove, Abstract!Moves, Abstract!closes
    <2> QED
      BY <2>4 DEF Abstract!Next
  <1>6. CASE ServesSetup(c) \/ ServesTeardown(c)
    <2>0. PICK t \in Conn : t = target[c] /\ t \in Seen
      BY <1>1, <1>6 DEF TargetsWereSeen, Seen, ServesSetup, ServesTeardown
    <2>1. [d \in Conn |-> Life(d)]' = [d \in Conn |-> Life(d)]
      <3>1. PICK l \in {"reading", "leaving", "removing"} : Goto(c, l)
        BY <1>6 DEF ServesSetup, ServesTeardown
      <3> QED
        BY <1>1, <1>6, <3>1, LivesGoOn DEF ServesSetup, ServesTeardown, accepting
    <2>2. UNCHANGED <<ClosingState, due, socket>>
      BY <1>6 DEF ServesSetup, ServesTeardown, closing, ClosingState
    <2>3. CASE tracks' = tracks \/ ~socket[t]
      <3>1. {d \in Conn : tracks'[d] /\ socket'[d]} = {d \in Conn : tracks[d] /\ socket[d]}
        BY <1>1, <1>6, <2>0, <2>2, <2>3 DEF TypeOK, ServesSetup, ServesTeardown
      <3> QED
        BY <2>1, <2>2, <3>1 DEF Abstract!vars, Abstract!closes
    <2>4. CASE tracks' = [tracks EXCEPT ![t] = TRUE] /\ socket[t]
      <3>1. {d \in Conn : tracks'[d] /\ socket'[d]} = {d \in Conn : tracks[d] /\ socket[d]} \cup {t}
        BY <1>1, <2>2, <2>4 DEF TypeOK
      <3>2. Life(t) = "registered"
        BY <2>0, <2>4, OpenIsAlive DEF Life
      <3>3. Abstract!Feed(t)
        BY <2>1, <2>2, <2>4, <3>1, <3>2 DEF Abstract!Feed, Abstract!closes
      <3> QED
        BY <3>3 DEF Abstract!Next
    <2>5. CASE tracks' = [tracks EXCEPT ![t] = FALSE] /\ tracks[t] /\ socket[t]
      <3>1. {d \in Conn : tracks'[d] /\ socket'[d]} = {d \in Conn : tracks[d] /\ socket[d]} \ {t}
        BY <1>1, <2>2, <2>5 DEF TypeOK
      <3>2. Abstract!Starve(t)
        BY <2>1, <2>2, <2>5, <3>1 DEF Abstract!Starve, Abstract!closes
      <3> QED
        BY <3>2 DEF Abstract!Next
    <2> QED
      <3>1. tracks' = tracks \/ \E b \in BOOLEAN : tracks' = [tracks EXCEPT ![t] = b]
        BY <1>6, <1>1, <2>0 DEF ServesSetup, ServesTeardown, TypeOK
      <3>2. ASSUME tracks' = [tracks EXCEPT ![t] = FALSE], ~tracks[t] PROVE tracks' = tracks
        BY <1>1, <3>2 DEF TypeOK
      <3> QED
        BY <2>3, <2>4, <2>5, <3>1, <3>2
  <1>7. ASSUME UNCHANGED <<listener, incoming, mConnections, socket, tracks, closing>>,
               \/ UNCHANGED pc
               \/ /\ pc[c] \notin {"new", "ended"}
                  /\ \E l : Goto(c, l) /\ l \notin {"new", "ended"}
        PROVE  UNCHANGED Abstract!vars
    <2>1. [d \in Conn |-> Life(d)]' = [d \in Conn |-> Life(d)]
      BY <1>1, <1>7, LivesKept, LivesGoOn
    <2>2. UNCHANGED <<ClosingState, due>>
      BY <1>7 DEF closing, ClosingState
    <2> QED
      BY <1>7, <2>1, <2>2 DEF Abstract!vars, Abstract!closes
  <1> QED
    BY <1>2, <1>3, <1>4, <1>5, <1>6, <1>7, HandlerCases
    DEF accepting, Leaves, RtspRequest, MjpegRequest, MjpegEnds, GetRequest, PostRequest,
        GetPuts, GetLeaves, PostRefreshes, PostRemoves, ServesOther, WorkerTakes,
        PostFetches

(* Closing what the iterator has returned shuts a connection of the       *)
(* registry, unless its own handler has done so already.                  *)
LEMMA ShutRefines ==
  ASSUME IInv, AppShuts
  PROVE  [Abstract!Next]_(Abstract!vars)
  <1>1. PICK c \in Conn :
           /\ c \in Seen
           /\ tracks' = [tracks EXCEPT ![c] = FALSE]
           /\ socket' = [socket EXCEPT ![c] = FALSE]
    BY DEF AppShuts, Shut, IInv, VisitedAreShut, Seen
  <1>2. /\ [d \in Conn |-> Life(d)]' = [d \in Conn |-> Life(d)]
        /\ UNCHANGED <<ClosingState, due>>
    BY LivesKept DEF AppShuts, accepting, ClosingState
  <1>3. /\ {d \in Conn : socket'[d]} = {d \in Conn : socket[d]} \ {c}
        /\ {d \in Conn : tracks'[d] /\ socket'[d]}
             = {d \in Conn : tracks[d] /\ socket[d]} \ {c}
    BY <1>1 DEF IInv, TypeOK
  <1>4. CASE socket[c]
    <2>1. Life(c) = "registered"
      BY <1>1, <1>4, OpenIsAlive DEF Life
    <2>2. Abstract!Shut(c)
      BY <1>1, <1>2, <1>3, <1>4, <2>1 DEF Abstract!Shut, Abstract!closes
    <2> QED
      BY <2>2 DEF Abstract!Next
  <1>5. CASE ~socket[c]
    BY <1>2, <1>3, <1>5 DEF Abstract!vars, Abstract!closes
  <1> QED
    BY <1>4, <1>5

(* Each step of the server is one step of the registry or none.           *)
LEMMA RefinesStep ==
  ASSUME IInv, IInv', [Next]_vars
  PROVE  [Abstract!Next]_(Abstract!vars)
  <1>1. ASSUME UNCHANGED <<listener, incoming, pc, mConnections, socket, tracks>>,
               UNCHANGED <<ClosingState, due>>
        PROVE  UNCHANGED Abstract!vars
    BY <1>1, LivesKept DEF Abstract!vars, Abstract!closes
  <1>2. CASE ListenerSubmits
    <2>1. ASSUME NEW d \in Conn PROVE Life(d)' = Life(d)
      BY <1>2, LifeKept
      DEF IInv, TypeOK, ListenerKnowsItsConnection, ListenerSubmits, Goto, NotYetAccepted
    <2>2. UNCHANGED <<ClosingState, due>>
      BY <1>2 DEF ListenerSubmits, closing, ClosingState
    <2> QED
      BY <1>2, <2>1, <2>2 DEF ListenerSubmits, Abstract!vars, Abstract!closes
  <1>3. CASE ListenerAssigns \/ AcceptThrows
    <2>1. ASSUME NEW d \in Conn PROVE Life(d)' = Life(d)
      BY <1>3, LifeKept DEF ListenerAssigns, AcceptThrows, ListenerEnds, NotYetAccepted
    <2>2. UNCHANGED <<ClosingState, due>>
      BY <1>3 DEF ListenerAssigns, AcceptThrows, closing, ClosingState
    <2> QED
      BY <1>3, <2>1, <2>2 DEF ListenerAssigns, AcceptThrows, Abstract!vars, Abstract!closes
  <1>4. CASE AppIterates
    <2>1. mConnections = {d \in Conn : Life(d) = "registered"}
      BY DEF IInv, TypeOK, Life
    <2>2. Abstract!CloseBegins
      BY <1>4, <2>1, LivesKept DEF AppIterates, accepting, ClosingState, Abstract!CloseBegins
    <2> QED
      BY <2>2 DEF Abstract!Next
  <1>5. CASE AppClosesListener \/ AppClosesCache \/ AppTakesNext \/ EntryExpires
    <2>1. UNCHANGED <<ClosingState, due>>
      BY <1>5
      DEF AppClosesListener, AppClosesCache, AppTakesNext, EntryExpires, closing, ClosingState
    <2> QED
      BY <1>1, <1>5, <2>1
      DEF AppClosesListener, AppClosesCache, AppTakesNext, EntryExpires, accepting
  <1>9. CASE AppDone
    <2>1. \A c \in due : ~socket'[c]
      BY <1>9 DEF AppDone, IInv, DueAreShut
    <2>2. due \cap {d \in Conn : socket[d]} = {}
      BY <1>9, <2>1 DEF AppDone
    <2>3. Abstract!CloseEnds
      BY <1>9, <2>2, LivesKept DEF AppDone, accepting, ClosingState, Abstract!CloseEnds
    <2> QED
      BY <2>3 DEF Abstract!Next
  <1>6. CASE AppShuts
    BY <1>6, ShutRefines
  <1>7. ASSUME NEW c \in Conn, HandlerOf(c) PROVE [Abstract!Next]_(Abstract!vars)
    BY <1>7, HandlerRefines
  <1>8. CASE UNCHANGED vars
    BY <1>1, <1>8 DEF vars, accepting, closing, ClosingState
  <1> QED
    BY <1>2, <1>3, <1>4, <1>5, <1>6, <1>7, <1>8, <1>9, StepCases

(* The server, with its handlers, tunnels and the iterator of close(),    *)
(* implements the registry.                                               *)
THEOREM Refinement == Spec => ImplementsRegistry
  BY RefinesInit, RefinesStep, Invariance, PTL DEF Spec, ImplementsRegistry, Abstract!Spec
====
