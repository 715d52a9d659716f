---- MODULE StreamConnectionProofs ----
(***************************************************************************)
(* The safety of a StreamConnection for any number of packetizers and of   *)
(* POSTs that share its tunnel: IInv is inductive, and the properties the  *)
(* runs check follow from it.                                              *)
(***************************************************************************)
EXTENDS StreamConnection, TLAPS

(* Who is who among the callers.                                          *)
LEMMA Callers ==
  /\ Requester \subseteq Caller /\ "handler" \in Requester /\ Post \subseteq Requester
  /\ "app" \in Caller /\ "app" \notin Requester
  /\ "handler" \notin Post /\ None \notin Caller /\ None \notin Packetizer
  BY NoneAssumption DEF Caller, Requester

(* The actions of Next, one by one.                                       *)
LEMMA StepCases ==
  ASSUME Next
  PROVE  \/ HandlerPolls
         \/ \E c \in Requester : SetupBadTransport(c)
         \/ \E c \in Requester, s \in Slot : SetupOpens(c, s)
         \/ \E c \in Requester : SetupBuilds(c)
         \/ \E c \in Requester : SetupBindFails(c)
         \/ \E c \in Requester : SetupThrows(c)
         \/ \E c \in Requester, T \in SUBSET Track \ {{}} : Play(c, T) \/ Teardown(c, T)
         \/ \E c \in Requester : PlayStarts(c)
         \/ \E c \in Requester : PlayThrows(c)
         \/ HandlerQuits \/ AppCloses
         \/ \E c \in Caller : StopInterrupts(c)
         \/ \E c \in Caller : StopForgets(c)
         \/ \E c \in Caller : StopReturns(c)
         \/ \E c \in Caller : CloseSocket(c)
         \/ \E p \in Packetizer : ThreadStep(p)
         \/ UNCHANGED vars
  BY DEF Next, Requests, HandlerStep, CloserStep, Finished

(* A SETUP names a packetizer that was not used yet.                      *)
LEMMA OpenedWasUnused ==
  ASSUME TypeOK, NEW c \in Requester, NEW s \in Slot, SetupOpens(c, s)
  PROVE  \E p \in Packetizer :
            /\ thread[p] = "unused"
            /\ request' = [request EXCEPT ![c] = p]
            /\ kind' = [kind EXCEPT ![p] = s]
            /\ thread' = [thread EXCEPT ![p] = "asked"]
  BY DEF SetupOpens

(* What a SETUP builds was named by it, and is not built.                 *)
LEMMA AskedIsOwned ==
  ASSUME TypeOK, SetupHasTarget, NEW c \in Requester, pc[c] = "setup"
  PROVE  /\ request[c] \in Packetizer
         /\ thread[request[c]] = "asked"
         /\ kind[request[c]] \in Slot
  BY DEF TypeOK, SetupHasTarget

(* A slot belongs to a track, and there are tracks.                       *)
LEMMA SlotTrack == Track # {} /\ \A s \in Slot : s[1] \in Track
  BY DEF Slot, Track

(* A streaming thread only ever moves itself.                             *)
LEMMA ThreadMovesItself ==
  ASSUME TypeOK, NEW p \in Packetizer, ThreadStep(p)
  PROVE  /\ thread[p] \in Alive
         /\ \E to \in (Alive \cup {"ended"}) \ {"started"} :
               thread' = [thread EXCEPT ![p] = to]
         /\ UNCHANGED <<connection, caller, packetizer, interrupted>>
  BY DEF TypeOK, ThreadStep, Alive, Move, ThreadStarts, ThreadListed, ThreadTakes,
         ThreadSeesInterrupt, ThreadSends, ThreadFails, ThreadUnflags, ThreadUnlisted

(* Steps that only move a handler, or open a session.                     *)
Quiet == \/ HandlerPolls \/ HandlerQuits \/ AppCloses
         \/ \E c \in Requester : SetupBadTransport(c) \/ PlayThrows(c)
         \/ \E c \in Requester, T \in SUBSET Track : Play(c, T) \/ Teardown(c, T)

LEMMA QuietSteps ==
  ASSUME Quiet
  PROVE  UNCHANGED <<slot, streaming, streams, socket, monitor, joining, request,
                     kind, ports, thread, interrupted>>
  BY DEF Quiet, HandlerPolls, HandlerQuits, AppCloses, SetupBadTransport, PlayThrows, Play,
         Teardown, Accept, connection, caller, packetizer

----------------------------------------------------------------------------
(* Types. *)
LEMMA TypeStep ==
  ASSUME TypeOK, SetupHasTarget, [Next]_vars
  PROVE  TypeOK'
  <1>1. CASE UNCHANGED <<vars>>
    BY <1>1 DEF TypeOK, vars
  <1>2. ASSUME NEW c \in Requester, SetupBadTransport(c) PROVE TypeOK'
    BY <1>2
    DEF TypeOK, SetupBadTransport, EnsureSession, NotesLate, caller, packetizer
  <1>3. ASSUME NEW c \in Requester, NEW s \in Slot, SetupOpens(c, s) PROVE TypeOK'
    BY <1>3, OpenedWasUnused, Callers
    DEF TypeOK, SetupOpens, EnsureSession, NotesLate, ThreadState, Goto
  <1>4. ASSUME NEW c \in Requester, SetupBuilds(c) PROVE TypeOK'
    BY <1>4, AskedIsOwned, Callers
    DEF TypeOK, SetupBuilds, Goto, ThreadState
  <1>5. ASSUME NEW c \in Requester, SetupBindFails(c) PROVE TypeOK'
    BY <1>5, AskedIsOwned, Callers
    DEF TypeOK, SetupBindFails, Fails, Goto, ThreadState, connection
  <1>6. ASSUME NEW c \in Requester, SetupThrows(c) PROVE TypeOK'
    <2>1. NoKind \in Slot
      BY DEF NoKind, Slot, Track, Transport
    <2> QED
      BY <1>6, <2>1, AskedIsOwned, Callers
      DEF TypeOK, SetupThrows, Fails, Goto, ThreadState, connection
  <1>7. ASSUME NEW c \in Requester, NEW T \in SUBSET Track \ {{}}, Play(c, T) \/ Teardown(c, T)
        PROVE  TypeOK'
    BY <1>7, Callers
    DEF TypeOK, Play, Teardown, Accept, Goto, connection, packetizer
  <1>8. ASSUME NEW c \in Requester, PlayStarts(c) PROVE TypeOK'
    BY <1>8, Callers
    DEF TypeOK, PlayStarts, Served, Goto, ThreadState, connection,
        packetizer
  <1>9. ASSUME NEW c \in Requester, PlayThrows(c) PROVE TypeOK'
    BY <1>9, Callers
    DEF TypeOK, PlayThrows, Fails, Goto, connection, packetizer
  <1>10. CASE HandlerQuits
    BY <1>10, Callers
    DEF TypeOK, HandlerQuits, Fails, Goto, connection, packetizer
  <1>11. CASE AppCloses
    BY <1>11, Callers
    DEF TypeOK, AppCloses, Goto, connection, packetizer
  <1>12. ASSUME NEW c \in Caller, StopInterrupts(c) PROVE TypeOK'
    <2>1. StopTarget(c) \in Packetizer
      BY <1>12 DEF TypeOK, StopInterrupts, StopTarget, Slot, FirstOf, Track, Transport
    <2> QED
      BY <1>12, <2>1 DEF TypeOK, StopInterrupts, Interrupt, Enter, connection, packetizer
  <1>13. ASSUME NEW c \in Caller, StopForgets(c) PROVE TypeOK'
    BY <1>13
    DEF TypeOK, StopForgets, PortsClosed
  <1>14. ASSUME NEW c \in Caller, StopReturns(c) PROVE TypeOK'
    BY <1>14
    DEF TypeOK, StopReturns, Served, SessionAfterStop, Goto, packetizer
  <1>15. ASSUME NEW c \in Caller, CloseSocket(c) PROVE TypeOK'
    BY <1>15
    DEF TypeOK, CloseSocket, SocketCloses, Goto, packetizer
  <1>16. ASSUME NEW p \in Packetizer, ThreadStep(p) PROVE TypeOK'
    <2>1. kind[p][1] \in Track
      BY DEF TypeOK, Slot
    <2>2. streaming' \in [Track -> BOOLEAN] /\ streams' \in SUBSET Packetizer
      BY <1>16, <2>1
      DEF TypeOK, ThreadStep, SetFlag, ThreadStarts, ThreadListed, ThreadTakes,
         ThreadSeesInterrupt, ThreadSends, ThreadFails, ThreadUnflags, ThreadUnlisted
    <2>3. thread' \in [Packetizer -> ThreadState]
      BY <1>16, ThreadMovesItself DEF TypeOK, Alive, ThreadState
    <2> QED
      BY <1>16, <2>2, <2>3, ThreadMovesItself DEF TypeOK, connection, caller, packetizer
  <1>17. CASE HandlerPolls
    BY <1>17 DEF TypeOK, HandlerPolls, connection, packetizer
  <1> QED
    BY <1>1, <1>2, <1>3, <1>4, <1>5, <1>6, <1>7, <1>8, <1>9, <1>10, <1>11, <1>12,
       <1>13, <1>14, <1>15, <1>16, <1>17, StepCases
    DEF vars, connection, caller, packetizer

(* A slot only ever receives what SETUP has just built for it. *)
LEMMA SlotsStep ==
  ASSUME TypeOK, SetupHasTarget, SlotsKnown, [Next]_vars
  PROVE  SlotsKnown'
  <1>1. CASE UNCHANGED <<slot, kind, thread>>
    BY <1>1 DEF SlotsKnown
  <1>2. ASSUME NEW c \in Requester, SetupBuilds(c) PROVE SlotsKnown'
    BY <1>2, AskedIsOwned, NoneAssumption
    DEF TypeOK, SlotsKnown, SetupBuilds
  <1>3. ASSUME NEW c \in Requester, SetupBindFails(c) PROVE SlotsKnown'
    BY <1>3, AskedIsOwned, NoneAssumption
    DEF TypeOK, SlotsKnown, SetupBindFails, connection
  <1>4. ASSUME NEW c \in Requester, PlayStarts(c) PROVE SlotsKnown'
    BY <1>4
    DEF TypeOK, SlotsKnown, PlayStarts, connection, packetizer
  <1>5. ASSUME NEW c \in Caller, StopForgets(c) PROVE SlotsKnown'
    BY <1>5
    DEF TypeOK, SlotsKnown, StopForgets
  <1>6. ASSUME NEW p \in Packetizer, ThreadStep(p) PROVE SlotsKnown'
    BY <1>6, ThreadMovesItself
    DEF TypeOK, SlotsKnown, Alive, connection, packetizer
  <1>7. ASSUME NEW c \in Requester, NEW s \in Slot, SetupOpens(c, s) PROVE SlotsKnown'
    BY <1>7, OpenedWasUnused, NoneAssumption DEF TypeOK, SlotsKnown, SetupOpens
  <1>8. ASSUME NEW c \in Requester, SetupThrows(c) PROVE SlotsKnown'
    BY <1>8, AskedIsOwned, NoneAssumption
    DEF TypeOK, SlotsKnown, SetupThrows, connection
  <1>9. CASE Quiet
    BY <1>1, <1>9, QuietSteps
  <1> QED
    BY <1>1, <1>2, <1>3, <1>4, <1>5, <1>6, <1>7, <1>8, <1>9, StepCases
    DEF vars, connection, packetizer, Quiet, StopInterrupts, StopReturns, CloseSocket

(* The monitor keeps everybody else away from a packetizer that is joined. *)
LEMMA JoinStep ==
  ASSUME TypeOK, SetupHasTarget, SlotsKnown, JoinUnderMonitor, [Next]_vars
  PROVE  JoinUnderMonitor'
  <1>1. CASE UNCHANGED <<joining, monitor, slot, kind, interrupted>>
    BY <1>1 DEF JoinUnderMonitor
  <1>2. ASSUME NEW c \in Requester, SetupBuilds(c) PROVE JoinUnderMonitor'
    BY <1>2, NoneAssumption
    DEF TypeOK, JoinUnderMonitor, SetupBuilds, Free
  <1>3. ASSUME NEW c \in Requester, SetupBindFails(c) PROVE JoinUnderMonitor'
    BY <1>3, NoneAssumption
    DEF TypeOK, JoinUnderMonitor, SetupBindFails, Free, connection
  <1>4. ASSUME NEW c \in Caller, StopInterrupts(c) PROVE JoinUnderMonitor'
    <2>1. /\ StopTarget(c) \in Packetizer
          /\ \E s \in Slot : slot[s] = StopTarget(c)
      BY <1>4 DEF TypeOK, StopInterrupts, StopTarget, Slot, FirstOf, Track, Transport
    <2>2. slot[kind[StopTarget(c)]] = StopTarget(c)
      BY <1>4, <2>1, NoneAssumption DEF SlotsKnown
    <2> QED
      BY <1>4, <2>1, <2>2, NoneAssumption
      DEF TypeOK, JoinUnderMonitor, StopInterrupts, InStop, Interrupt, Enter, connection,
          packetizer
  <1>5. ASSUME NEW c \in Caller, StopForgets(c) PROVE JoinUnderMonitor'
    BY <1>5, NoneAssumption
    DEF TypeOK, SlotsKnown, JoinUnderMonitor, StopForgets
  <1>6. ASSUME NEW c \in Caller, StopReturns(c) PROVE JoinUnderMonitor'
    BY <1>6, NoneAssumption
    DEF TypeOK, JoinUnderMonitor, StopReturns, InStop, packetizer
  <1>7. ASSUME NEW c \in Requester, NEW s \in Slot, SetupOpens(c, s) PROVE JoinUnderMonitor'
    BY <1>7, NoneAssumption DEF TypeOK, JoinUnderMonitor, SetupOpens, Free
  <1>8. ASSUME NEW c \in Requester, SetupThrows(c) PROVE JoinUnderMonitor'
    BY <1>8, NoneAssumption DEF TypeOK, JoinUnderMonitor, SetupThrows, Free, connection
  <1>9. CASE Quiet
    BY <1>1, <1>9, QuietSteps
  <1> QED
    BY <1>1, <1>2, <1>3, <1>4, <1>5, <1>6, <1>7, <1>8, <1>9, StepCases, ThreadMovesItself
    DEF vars, connection, caller, packetizer, Quiet, PlayStarts, CloseSocket

(* A SETUP in progress keeps an unused packetizer to build. *)
LEMMA TargetStep ==
  ASSUME TypeOK, SlotsKnown, SetupHasTarget, [Next]_vars
  PROVE  SetupHasTarget'
  <1>1. CASE UNCHANGED <<pc, request, thread>>
    BY <1>1 DEF SetupHasTarget
  <1>2. ASSUME UNCHANGED <<request, thread>>, NEW c \in Caller, NEW l, l # "setup", Goto(c, l)
        PROVE  SetupHasTarget'
    BY <1>2, Callers DEF TypeOK, SetupHasTarget, Goto
  <1>3. ASSUME NEW c \in Requester, NEW s \in Slot, SetupOpens(c, s) PROVE SetupHasTarget'
    <2>1. PICK p \in Packetizer : /\ thread[p] = "unused"
                                  /\ request' = [request EXCEPT ![c] = p]
                                  /\ thread' = [thread EXCEPT ![p] = "asked"]
      BY <1>3, OpenedWasUnused
    <2>2. pc' = [pc EXCEPT ![c] = "setup"]
      BY <1>3 DEF SetupOpens, Goto
    <2> QED
      BY <2>1, <2>2, Callers DEF TypeOK, SetupHasTarget
  <1>4. ASSUME NEW c \in Requester, pc[c] = "setup", NEW l, l # "setup", Goto(c, l),
               NEW x, request' = [request EXCEPT ![c] = None],
               thread' = [thread EXCEPT ![request[c]] = x]
        PROVE  SetupHasTarget'
    BY <1>4, Callers DEF TypeOK, SetupHasTarget, Goto
  <1>5. ASSUME NEW c \in Requester, SetupBuilds(c) PROVE SetupHasTarget'
    BY <1>4, <1>5 DEF SetupBuilds
  <1>6. ASSUME NEW c \in Requester, SetupBindFails(c) PROVE SetupHasTarget'
    BY <1>4, <1>6 DEF SetupBindFails, Fails
  <1>7. ASSUME NEW c \in Requester, SetupThrows(c) PROVE SetupHasTarget'
    BY <1>4, <1>7 DEF SetupThrows, Fails
  <1>8. ASSUME NEW c \in Requester, NEW T \in SUBSET Track \ {{}}, Play(c, T) \/ Teardown(c, T)
        PROVE  SetupHasTarget'
    BY <1>2, <1>8, Callers DEF Play, Teardown, Accept
  <1>9. ASSUME NEW c \in Requester, PlayStarts(c) PROVE SetupHasTarget'
    <2>1. \A p \in Packetizer : thread[p] = "asked" => thread'[p] = "asked"
      BY <1>9 DEF PlayStarts
    <2>2. UNCHANGED pc \/ Goto(c, "idle")
      BY <1>9 DEF PlayStarts, Served
    <2> QED
      BY <1>9, <2>1, <2>2, Callers DEF TypeOK, SetupHasTarget, PlayStarts, Goto
  <1>10. ASSUME NEW c \in Requester, PlayThrows(c) PROVE SetupHasTarget'
    BY <1>2, <1>10, Callers DEF PlayThrows, Fails
  <1>11. CASE HandlerQuits \/ AppCloses
    BY <1>2, <1>11, Callers DEF HandlerQuits, AppCloses, Fails
  <1>12. CASE HandlerPolls
    BY <1>12, Callers DEF TypeOK, SetupHasTarget, HandlerPolls
  <1>13. ASSUME NEW c \in Caller, StopReturns(c) PROVE SetupHasTarget'
    BY <1>1, <1>2, <1>13 DEF StopReturns, Served
  <1>14. ASSUME NEW c \in Caller, CloseSocket(c) PROVE SetupHasTarget'
    BY <1>2, <1>14 DEF CloseSocket
  <1>15. ASSUME NEW p \in Packetizer, ThreadStep(p) PROVE SetupHasTarget'
    BY <1>15, ThreadMovesItself
    DEF TypeOK, SetupHasTarget, Alive, caller
  <1> QED
    BY <1>1, <1>3, <1>5, <1>6, <1>7, <1>8, <1>9, <1>10, <1>11, <1>12, <1>13, <1>14,
       <1>15, StepCases
    DEF vars, connection, caller, packetizer, SetupBadTransport, StopInterrupts,
        StopForgets

(* A polling handler serves nothing, and never comes back to its requests. *)
LEMMA PostStep ==
  ASSUME TypeOK, PostExcludes, [Next]_vars
  PROVE  PostExcludes'
  <1>1. CASE UNCHANGED pc
    BY <1>1 DEF PostExcludes
  <1>2. ASSUME NEW c \in Caller, NEW l, Goto(c, l), pc[c] \notin {"none", "polling"},
               c = "handler" /\ pc[c] \in {"close", "done"} => l = "done"
        PROVE  PostExcludes'
    BY <1>2, Callers DEF TypeOK, PostExcludes, Goto
  <1>3. ASSUME NEW c \in Requester, NEW s \in Slot, SetupOpens(c, s) PROVE PostExcludes'
    BY <1>2, <1>3, Callers DEF SetupOpens
  <1>4. ASSUME NEW c \in Requester, SetupBuilds(c) PROVE PostExcludes'
    BY <1>2, <1>4, Callers DEF SetupBuilds
  <1>5. ASSUME NEW c \in Requester, SetupBindFails(c) \/ SetupThrows(c) PROVE PostExcludes'
    BY <1>2, <1>5, Callers DEF SetupBindFails, SetupThrows, Fails
  <1>6. ASSUME NEW c \in Requester, NEW T \in SUBSET Track \ {{}}, Play(c, T) \/ Teardown(c, T)
        PROVE  PostExcludes'
    BY <1>2, <1>6, Callers DEF Play, Teardown, Accept
  <1>7. ASSUME NEW c \in Requester, PlayStarts(c) PROVE PostExcludes'
    BY <1>1, <1>2, <1>7, Callers DEF PlayStarts, Served
  <1>8. ASSUME NEW c \in Requester, PlayThrows(c) PROVE PostExcludes'
    BY <1>2, <1>8, Callers DEF PlayThrows, Fails
  <1>9. CASE HandlerQuits
    BY <1>9, Callers DEF TypeOK, PostExcludes, HandlerQuits, Fails, Goto
  <1>10. CASE HandlerPolls
    BY <1>10, Callers DEF TypeOK, PostExcludes, HandlerPolls
  <1>11. CASE AppCloses
    BY <1>2, <1>11, Callers DEF AppCloses
  <1>12. ASSUME NEW c \in Caller, StopReturns(c) PROVE PostExcludes'
    BY <1>1, <1>2, <1>12 DEF StopReturns, Served, InStop
  <1>13. ASSUME NEW c \in Caller, CloseSocket(c) PROVE PostExcludes'
    BY <1>2, <1>13 DEF CloseSocket
  <1> QED
    BY <1>1, <1>3, <1>4, <1>5, <1>6, <1>7, <1>8, <1>9, <1>10, <1>11, <1>12, <1>13,
       StepCases, ThreadMovesItself
    DEF vars, connection, caller, packetizer, SetupBadTransport, StopInterrupts,
        StopForgets

(* The "already configured" checks look at both transports of the track. *)
LEMMA TransportStep ==
  ASSUME TypeOK, SetupHasTarget, OneTransportPerTrack, [Next]_vars
  PROVE  OneTransportPerTrack'
  <1>1. CASE UNCHANGED <<slot>>
    BY <1>1 DEF OneTransportPerTrack
  <1>2. ASSUME NEW c \in Requester, SetupBuilds(c) PROVE OneTransportPerTrack'
    <2>0. PICK s \in Slot : s = kind[request[c]]
      BY <1>2, AskedIsOwned DEF SetupBuilds
    <2>1. slot' = [slot EXCEPT ![s] = request[c]]
      BY <1>2, <2>0 DEF SetupBuilds
    <2>2. slot[<<s[1], "udp">>] = None /\ slot[<<s[1], "tcp">>] = None
      BY <1>2, <2>0 DEF SetupBuilds, Configured, Installed, Transport
    <2>3. ASSUME NEW t \in Track
          PROVE  slot'[<<t, "udp">>] = None \/ slot'[<<t, "tcp">>] = None
      <3>1. CASE s = <<t, "udp">>
        BY <2>1, <2>2, <3>1 DEF TypeOK, Slot, Transport
      <3>2. CASE s = <<t, "tcp">>
        BY <2>1, <2>2, <3>2 DEF TypeOK, Slot, Transport
      <3>3. CASE s # <<t, "udp">> /\ s # <<t, "tcp">>
        BY <2>1, <3>3 DEF TypeOK, OneTransportPerTrack, Slot, Transport
      <3> QED
        BY <3>1, <3>2, <3>3
    <2> QED
      BY <2>3 DEF OneTransportPerTrack
  <1>3. ASSUME NEW c \in Caller, StopForgets(c) PROVE OneTransportPerTrack'
    BY <1>3
    DEF TypeOK, OneTransportPerTrack, StopForgets, Slot, Track, Transport
  <1>4. CASE Quiet
    BY <1>1, <1>4, QuietSteps
  <1> QED
    BY <1>1, <1>2, <1>3, <1>4, StepCases, ThreadMovesItself
    DEF vars, connection, packetizer, Quiet, SetupOpens, SetupBindFails, SetupThrows,
        PlayStarts, StopInterrupts, StopReturns, CloseSocket

(* A slot is forgotten only after its thread was interrupted, and a thread starts
   only from a slot. *)
LEMMA ForgottenStep ==
  ASSUME TypeOK, SetupHasTarget, SlotsKnown, JoinUnderMonitor,
         ForgottenThreadsAreInterrupted, [Next]_vars
  PROVE  ForgottenThreadsAreInterrupted'
  <1>1. CASE UNCHANGED <<slot, kind, thread, interrupted>>
    BY <1>1 DEF ForgottenThreadsAreInterrupted
  <1>2. ASSUME NEW c \in Requester, SetupBuilds(c) PROVE ForgottenThreadsAreInterrupted'
    <2>1. slot[kind[request[c]]] = None
      BY <1>2, AskedIsOwned DEF SetupBuilds, Configured, Installed, Slot, Transport
    <2> QED
      BY <1>2, <2>1, AskedIsOwned, NoneAssumption
      DEF TypeOK, ForgottenThreadsAreInterrupted, Alive, SetupBuilds
  <1>3. ASSUME NEW c \in Requester, SetupBindFails(c) PROVE ForgottenThreadsAreInterrupted'
    BY <1>3, AskedIsOwned
    DEF TypeOK, ForgottenThreadsAreInterrupted, Alive, SetupBindFails, connection
  <1>4. ASSUME NEW c \in Requester, PlayStarts(c) PROVE ForgottenThreadsAreInterrupted'
    BY <1>4
    DEF TypeOK, SlotsKnown, ForgottenThreadsAreInterrupted, Alive, PlayStarts,
        Installed, FirstOf, Slot, Track, Transport, connection, packetizer
  <1>5. ASSUME NEW c \in Caller, StopInterrupts(c) PROVE ForgottenThreadsAreInterrupted'
    BY <1>5
    DEF TypeOK, ForgottenThreadsAreInterrupted, StopInterrupts, Interrupt,
        connection, packetizer
  <1>6. ASSUME NEW c \in Caller, StopForgets(c) PROVE ForgottenThreadsAreInterrupted'
    BY <1>6
    DEF TypeOK, JoinUnderMonitor, ForgottenThreadsAreInterrupted, StopForgets
  <1>7. ASSUME NEW p \in Packetizer, ThreadStep(p) PROVE ForgottenThreadsAreInterrupted'
    BY <1>7, ThreadMovesItself
    DEF TypeOK, ForgottenThreadsAreInterrupted, Alive, connection, packetizer
  <1>8. ASSUME NEW c \in Requester, NEW s \in Slot, SetupOpens(c, s)
        PROVE  ForgottenThreadsAreInterrupted'
    BY <1>8, OpenedWasUnused DEF TypeOK, ForgottenThreadsAreInterrupted, Alive, SetupOpens
  <1>9. ASSUME NEW c \in Requester, SetupThrows(c) PROVE ForgottenThreadsAreInterrupted'
    BY <1>9, AskedIsOwned
    DEF TypeOK, ForgottenThreadsAreInterrupted, Alive, SetupThrows, connection
  <1>10. CASE Quiet
    BY <1>1, <1>10, QuietSteps
  <1> QED
    BY <1>1, <1>2, <1>3, <1>4, <1>5, <1>6, <1>7, <1>8, <1>9, <1>10, StepCases
    DEF vars, connection, packetizer, Quiet, StopReturns, CloseSocket

(* stopRTP looks at all four slots before it closes the session. *)
LEMMA SessionStep ==
  ASSUME TypeOK, SetupHasTarget, SessionCoversPacketizers, [Next]_vars
  PROVE  SessionCoversPacketizers'
  <1>1. CASE UNCHANGED <<slot, session>>
    BY <1>1 DEF SessionCoversPacketizers
  <1>2. ASSUME NEW c \in Requester, SetupBadTransport(c) PROVE SessionCoversPacketizers'
    BY <1>2
    DEF SessionCoversPacketizers, SetupBadTransport, EnsureSession
  <1>3. ASSUME NEW c \in Requester, NEW s \in Slot, SetupOpens(c, s) PROVE SessionCoversPacketizers'
    BY <1>3
    DEF SessionCoversPacketizers, SetupOpens, EnsureSession
  <1>4. ASSUME NEW c \in Requester, SetupBuilds(c) PROVE SessionCoversPacketizers'
    BY <1>4
    DEF SessionCoversPacketizers, SetupBuilds
  <1>5. ASSUME NEW c \in Caller, StopForgets(c) PROVE SessionCoversPacketizers'
    BY <1>5
    DEF TypeOK, SessionCoversPacketizers, StopForgets
  <1>6. ASSUME NEW c \in Caller, StopReturns(c) PROVE SessionCoversPacketizers'
    BY <1>6
    DEF SessionCoversPacketizers, StopReturns, SessionAfterStop
  <1> QED
    BY <1>1, <1>2, <1>3, <1>4, <1>5, <1>6, StepCases, ThreadMovesItself
    DEF vars, connection, caller, packetizer, HandlerPolls, SetupBindFails, SetupThrows,
        Play, Teardown, Accept, PlayStarts, PlayThrows, HandlerQuits, AppCloses,
        StopInterrupts, CloseSocket

(* No session is drawn anew under an installed packetizer. *)
LEMMA SeqStep ==
  ASSUME TypeOK, SetupHasTarget, SlotsKnown, SessionCoversPacketizers,
         PlayAnnouncesFirstSeq, [Next]_vars
  PROVE  PlayAnnouncesFirstSeq'
  <1>1. CASE UNCHANGED <<slot, current>>
    BY <1>1 DEF PlayAnnouncesFirstSeq
  <1>2. ASSUME NEW c \in Requester, SetupBadTransport(c) PROVE PlayAnnouncesFirstSeq'
    BY <1>2
    DEF SessionCoversPacketizers, PlayAnnouncesFirstSeq, SetupBadTransport,
        EnsureSession
  <1>3. ASSUME NEW c \in Requester, NEW s \in Slot, SetupOpens(c, s) PROVE PlayAnnouncesFirstSeq'
    BY <1>3
    DEF SessionCoversPacketizers, PlayAnnouncesFirstSeq, SetupOpens, EnsureSession
  <1>4. ASSUME NEW c \in Requester, SetupBuilds(c) PROVE PlayAnnouncesFirstSeq'
    BY <1>4, AskedIsOwned
    DEF TypeOK, PlayAnnouncesFirstSeq, SetupBuilds
  <1>5. ASSUME NEW c \in Caller, StopForgets(c) PROVE PlayAnnouncesFirstSeq'
    BY <1>5
    DEF TypeOK, SlotsKnown, PlayAnnouncesFirstSeq, StopForgets
  <1> QED
    BY <1>1, <1>2, <1>3, <1>4, <1>5, StepCases, ThreadMovesItself
    DEF vars, connection, caller, packetizer, HandlerPolls, SetupBindFails, SetupThrows,
        Play, Teardown, Accept, PlayStarts, PlayThrows, HandlerQuits, AppCloses,
        StopInterrupts, StopReturns, CloseSocket

(* What the handler has closed stays closed. *)
LEMMA ClosingStep ==
  ASSUME TypeOK, SetupHasTarget, JoinUnderMonitor, ClosingIsFinal, [Next]_vars
  PROVE  ClosingIsFinal'
  <1>0. "handler" \in Caller /\ None # "handler"
    BY Callers
  <1>1. CASE UNCHANGED <<pc["handler"], todo["handler"], slot, session, monitor, late>>
    BY <1>1 DEF ClosingIsFinal, HandlerHasStopped
  <1>2. ASSUME pc'["handler"] \notin {"close", "done"} PROVE ClosingIsFinal'
    BY <1>2 DEF ClosingIsFinal, HandlerHasStopped
  <1>3. ASSUME pc'["handler"] = "close", todo'["handler"] = Track PROVE ClosingIsFinal'
    BY <1>3, SlotTrack DEF ClosingIsFinal, HandlerHasStopped
  <1>4. ASSUME NEW c \in Requester, SetupBadTransport(c) PROVE ClosingIsFinal'
    BY <1>0, <1>4
    DEF ClosingIsFinal, HandlerHasStopped, SetupBadTransport, NotesLate, Free, caller
  <1>5. ASSUME NEW c \in Requester, NEW s \in Slot, SetupOpens(c, s) PROVE ClosingIsFinal'
    <2>1. pc'["handler"] \in {pc["handler"], "setup"}
      BY <1>0, <1>5 DEF TypeOK, SetupOpens, Goto
    <2> QED
      BY <1>0, <1>5, <2>1 DEF ClosingIsFinal, HandlerHasStopped, SetupOpens, NotesLate, Free
  <1>6. ASSUME NEW c \in Requester, SetupBuilds(c) PROVE ClosingIsFinal'
    <2>1. pc'["handler"] \in {pc["handler"], "idle"}
      BY <1>0, <1>6 DEF TypeOK, SetupBuilds, Goto
    <2> QED
      BY <1>0, <1>6, <2>1 DEF ClosingIsFinal, HandlerHasStopped, SetupBuilds, Free
  <1>7. ASSUME NEW c \in Requester, Fails(c), UNCHANGED <<slot, session, monitor, late>>
        PROVE  ClosingIsFinal'
    <2>1. CASE c = "handler"
      BY <1>0, <1>3, <1>7, <2>1 DEF TypeOK, Fails, Goto
    <2>2. CASE c # "handler"
      BY <1>0, <1>1, <1>7, <2>2 DEF TypeOK, Fails, Goto
    <2> QED
      BY <2>1, <2>2
  <1>8. ASSUME NEW c \in Requester, SetupBindFails(c) \/ SetupThrows(c) \/ PlayThrows(c)
        PROVE  ClosingIsFinal'
    BY <1>7, <1>8 DEF SetupBindFails, SetupThrows, PlayThrows, connection
  <1>9. CASE HandlerQuits
    BY <1>7, <1>9, Callers DEF HandlerQuits, connection
  <1>10. ASSUME NEW c \in Requester, NEW T \in SUBSET Track \ {{}}, Play(c, T) \/ Teardown(c, T)
        PROVE  ClosingIsFinal'
    <2>1. CASE c = "handler"
      BY <1>0, <1>2, <1>10, <2>1 DEF TypeOK, Play, Teardown, Accept, Goto
    <2>2. CASE c # "handler"
      BY <1>0, <1>1, <1>10, <2>2 DEF TypeOK, Play, Teardown, Accept, Goto, connection
    <2> QED
      BY <2>1, <2>2
  <1>11. ASSUME NEW c \in Requester, PlayStarts(c) PROVE ClosingIsFinal'
    <2>1. CASE c = "handler"
      BY <1>0, <1>2, <1>11, <2>1 DEF TypeOK, PlayStarts, Served, Goto
    <2>2. CASE c # "handler"
      BY <1>0, <1>1, <1>11, <2>2 DEF TypeOK, PlayStarts, Served, Goto, connection
    <2> QED
      BY <2>1, <2>2
  <1>12. CASE HandlerPolls
    BY <1>0, <1>2, <1>12 DEF TypeOK, HandlerPolls
  <1>13. CASE AppCloses
    BY <1>0, <1>1, <1>13, Callers DEF TypeOK, AppCloses, Goto, connection
  <1>14. ASSUME NEW c \in Caller, StopInterrupts(c) PROVE ClosingIsFinal'
    BY <1>0, <1>14
    DEF ClosingIsFinal, HandlerHasStopped, StopInterrupts, InStop, Enter, connection
  <1>15. ASSUME NEW c \in Caller, StopForgets(c) PROVE ClosingIsFinal'
    BY <1>15
    DEF TypeOK, ClosingIsFinal, HandlerHasStopped, StopForgets
  <1>16. ASSUME NEW c \in Caller, StopReturns(c) PROVE ClosingIsFinal'
    <2>1. CASE c # "handler"
      <3>1. UNCHANGED <<pc["handler"], todo["handler"], slot, late>> /\ (session' => session)
        BY <1>0, <1>16, <2>1 DEF TypeOK, StopReturns, Served, Goto, SessionAfterStop
      <3>2. monitor # "handler"
        BY <1>0, <1>16, <2>1 DEF StopReturns, InStop
      <3> QED
        BY <3>1, <3>2 DEF ClosingIsFinal, HandlerHasStopped
    <2>2. CASE c = "handler" /\ pc["handler"] # "close"
      <3>1. pc'["handler"] \in {"idle", "teardown"}
        BY <1>0, <1>16, <2>2 DEF TypeOK, StopReturns, InStop, Served, Goto
      <3> QED
        BY <1>2, <3>1
    <2>3. CASE c = "handler" /\ pc["handler"] = "close"
      <3>1. PICK t \in Track : t = FirstOf(todo["handler"])
        BY DEF FirstOf, Track
      <3>2. /\ pc' = pc /\ slot' = slot
            /\ todo'["handler"] = todo["handler"] \ {t}
            /\ monitor' = IF todo["handler"] # {t} THEN "handler" ELSE None
            /\ session' = (session /\ \E s \in Slot : slot[s] # None)
        BY <1>0, <1>16, <2>3, <3>1 DEF TypeOK, StopReturns, Served, SessionAfterStop
      <3>3. \A s \in Slot : s[1] = t => slot[s] = None
        <4>1. \A x \in Transport : slot[<<t, x>>] = None
          BY <1>16, <2>3, <3>1 DEF StopReturns, Installed
        <4>2. \A s \in Slot : s = <<s[1], s[2]>> /\ s[2] \in Transport
          BY DEF Slot
        <4> QED
          BY <4>1, <4>2
      <3>4. \A s \in Slot : s[1] \notin todo'["handler"] => slot[s] = None
        <4>1. CASE todo["handler"] = Track
          BY <3>2, <3>3, <4>1, SlotTrack
        <4>2. CASE todo["handler"] # Track
          BY <1>16, <2>3, <3>2, <3>3, <4>2 DEF ClosingIsFinal, StopReturns, InStop
        <4> QED
          BY <4>1, <4>2
      <3>5. todo'["handler"] # {} => monitor' = "handler"
        BY <3>2
      <3>6. todo'["handler"] = {} => ~session'
        BY <3>2, <3>4
      <3> QED
        BY <2>3, <3>2, <3>4, <3>5, <3>6 DEF ClosingIsFinal, HandlerHasStopped
    <2> QED
      BY <2>1, <2>2, <2>3
  <1>17. ASSUME NEW c \in Caller, CloseSocket(c) PROVE ClosingIsFinal'
    BY <1>0, <1>17
    DEF TypeOK, ClosingIsFinal, HandlerHasStopped, CloseSocket, Goto
  <1>18. ASSUME NEW p \in Packetizer, ThreadStep(p) PROVE ClosingIsFinal'
    BY <1>1, <1>18, ThreadMovesItself DEF connection, caller
  <1>19. CASE UNCHANGED vars
    BY <1>1, <1>19 DEF vars
  <1> QED
    BY <1>4, <1>5, <1>6, <1>8, <1>9, <1>10, <1>11, <1>12, <1>13, <1>14, <1>15, <1>16,
       <1>17, <1>18, <1>19, StepCases

(* Every thread that lists its stream takes it off the list. *)
LEMMA ListedStep ==
  ASSUME TypeOK, SetupHasTarget, SlotsKnown, ListedWhileRunning, [Next]_vars
  PROVE  ListedWhileRunning'
  <1>1. CASE UNCHANGED <<streams, thread>>
    BY <1>1 DEF ListedWhileRunning
  <1>2. ASSUME NEW c \in Requester, SetupBuilds(c) PROVE ListedWhileRunning'
    BY <1>2, AskedIsOwned
    DEF TypeOK, ListedWhileRunning, SetupBuilds
  <1>3. ASSUME NEW c \in Requester, SetupBindFails(c) PROVE ListedWhileRunning'
    BY <1>3, AskedIsOwned
    DEF TypeOK, ListedWhileRunning, SetupBindFails
  <1>4. ASSUME NEW c \in Requester, PlayStarts(c) PROVE ListedWhileRunning'
    BY <1>4
    DEF TypeOK, ListedWhileRunning, PlayStarts
  <1>5. ASSUME NEW p \in Packetizer, ThreadStep(p) PROVE ListedWhileRunning'
    BY <1>5
    DEF TypeOK, ListedWhileRunning, ThreadStep, Move, ThreadStarts, ThreadListed,
        ThreadTakes, ThreadSeesInterrupt, ThreadSends, ThreadFails, ThreadUnflags,
        ThreadUnlisted
  <1>6. ASSUME NEW c \in Requester, NEW s \in Slot, SetupOpens(c, s) PROVE ListedWhileRunning'
    BY <1>6, OpenedWasUnused DEF TypeOK, ListedWhileRunning, SetupOpens
  <1>7. ASSUME NEW c \in Requester, SetupThrows(c) PROVE ListedWhileRunning'
    BY <1>7, AskedIsOwned DEF TypeOK, ListedWhileRunning, SetupThrows
  <1>8. CASE Quiet
    BY <1>1, <1>8, QuietSteps
  <1> QED
    BY <1>1, <1>2, <1>3, <1>4, <1>5, <1>6, <1>7, <1>8, StepCases
    DEF vars, connection, packetizer, Quiet, StopInterrupts, StopForgets, StopReturns, CloseSocket

(* Every thread that raises the flag of its track lowers it. *)
LEMMA FlagStep ==
  ASSUME TypeOK, SetupHasTarget, SlotsKnown, FlagHasThread, [Next]_vars
  PROVE  FlagHasThread'
  <1>1. CASE UNCHANGED <<streaming, kind, thread>>
    BY <1>1 DEF FlagHasThread
  <1>2. ASSUME NEW c \in Requester, SetupBuilds(c) PROVE FlagHasThread'
    BY <1>2, AskedIsOwned
    DEF TypeOK, FlagHasThread, SetupBuilds
  <1>3. ASSUME NEW c \in Requester, SetupBindFails(c) PROVE FlagHasThread'
    BY <1>3, AskedIsOwned
    DEF TypeOK, FlagHasThread, SetupBindFails
  <1>4. ASSUME NEW c \in Requester, PlayStarts(c) PROVE FlagHasThread'
    BY <1>4
    DEF TypeOK, FlagHasThread, PlayStarts, packetizer
  <1>5. ASSUME NEW p \in Packetizer, ThreadStep(p) PROVE FlagHasThread'
    <2>1. kind[p][1] \in Track
      BY DEF TypeOK, Slot
    <2> QED
      BY <1>5, <2>1
      DEF TypeOK, FlagHasThread, SetFlag, packetizer, ThreadStep, Move, ThreadStarts,
          ThreadListed, ThreadTakes, ThreadSeesInterrupt, ThreadSends, ThreadFails,
          ThreadUnflags, ThreadUnlisted
  <1>6. ASSUME NEW c \in Requester, NEW s \in Slot, SetupOpens(c, s) PROVE FlagHasThread'
    BY <1>6, OpenedWasUnused DEF TypeOK, FlagHasThread, SetupOpens
  <1>7. ASSUME NEW c \in Requester, SetupThrows(c) PROVE FlagHasThread'
    BY <1>7, AskedIsOwned DEF TypeOK, FlagHasThread, SetupThrows
  <1>8. CASE Quiet
    BY <1>1, <1>8, QuietSteps
  <1> QED
    BY <1>1, <1>2, <1>3, <1>4, <1>5, <1>6, <1>7, <1>8, StepCases
    DEF vars, connection, packetizer, Quiet, StopInterrupts, StopForgets, StopReturns, CloseSocket

(* Forgetting a packetizer closes its sockets. *)
LEMMA PortsStep ==
  ASSUME TypeOK, SetupHasTarget, SlotsKnown, JoinUnderMonitor, PortsHeld, [Next]_vars
  PROVE  PortsHeld'
  <1>1. CASE UNCHANGED <<ports, slot, kind, thread>>
    BY <1>1 DEF PortsHeld
  <1>2. ASSUME NEW c \in Requester, SetupBuilds(c) PROVE PortsHeld'
    <2>1. slot[kind[request[c]]] = None
      BY <1>2, AskedIsOwned DEF SetupBuilds, Configured, Installed, Slot, Transport
    <2> QED
      BY <1>2, <2>1, AskedIsOwned, NoneAssumption DEF TypeOK, PortsHeld, SetupBuilds
  <1>3. ASSUME NEW c \in Requester, SetupBindFails(c) PROVE PortsHeld'
    BY <1>3, AskedIsOwned
    DEF TypeOK, PortsHeld, SetupBindFails, connection
  <1>4. ASSUME NEW c \in Requester, PlayStarts(c) PROVE PortsHeld'
    BY <1>4
    DEF TypeOK, PortsHeld, PlayStarts, connection, packetizer
  <1>5. ASSUME NEW c \in Caller, StopForgets(c) PROVE PortsHeld'
    BY <1>5
    DEF TypeOK, JoinUnderMonitor, PortsHeld, StopForgets, PortsClosed
  <1>6. ASSUME NEW p \in Packetizer, ThreadStep(p) PROVE PortsHeld'
    BY <1>6, ThreadMovesItself
    DEF TypeOK, PortsHeld, Alive, connection, packetizer
  <1>7. ASSUME NEW c \in Requester, NEW s \in Slot, SetupOpens(c, s) PROVE PortsHeld'
    BY <1>7, OpenedWasUnused, NoneAssumption DEF TypeOK, PortsHeld, SlotsKnown, SetupOpens
  <1>8. ASSUME NEW c \in Requester, SetupThrows(c) PROVE PortsHeld'
    BY <1>8, AskedIsOwned, NoneAssumption
    DEF TypeOK, PortsHeld, SlotsKnown, SetupThrows, connection
  <1>9. CASE Quiet
    BY <1>1, <1>9, QuietSteps
  <1> QED
    BY <1>1, <1>2, <1>3, <1>4, <1>5, <1>6, <1>7, <1>8, <1>9, StepCases
    DEF vars, connection, packetizer, Quiet, StopInterrupts, StopReturns, CloseSocket

(* Nobody opens the socket again. *)
LEMMA DoneStep ==
  ASSUME TypeOK, DoneHasClosed, [Next]_vars
  PROVE  DoneHasClosed'
  <1>1. CASE UNCHANGED <<socket, pc>>
    BY <1>1 DEF DoneHasClosed
  <1>2. ASSUME socket' = socket, NEW d \in Caller, NEW l, l # "done", Goto(d, l)
        PROVE  DoneHasClosed'
    BY <1>2 DEF TypeOK, DoneHasClosed, Goto
  <1>3. ASSUME NEW c \in Requester, SetupBuilds(c) \/ \E s \in Slot : SetupOpens(c, s)
        PROVE  DoneHasClosed'
    BY <1>2, <1>3, Callers DEF SetupBuilds, SetupOpens
  <1>4. ASSUME NEW c \in Requester, SetupBindFails(c) \/ SetupThrows(c) \/ PlayThrows(c)
        PROVE  DoneHasClosed'
    BY <1>2, <1>4, Callers DEF SetupBindFails, SetupThrows, PlayThrows, Fails, connection
  <1>5. CASE HandlerQuits
    BY <1>2, <1>5, Callers DEF HandlerQuits, Fails, connection
  <1>6. CASE HandlerPolls
    BY <1>6, Callers DEF TypeOK, DoneHasClosed, HandlerPolls, connection
  <1>7. CASE AppCloses
    BY <1>2, <1>7, Callers DEF AppCloses, connection
  <1>8. ASSUME NEW c \in Requester, NEW T \in SUBSET Track \ {{}}, Play(c, T) \/ Teardown(c, T)
        PROVE  DoneHasClosed'
    BY <1>2, <1>8, Callers DEF Play, Teardown, Accept, connection
  <1>9. ASSUME NEW c \in Requester, PlayStarts(c) PROVE DoneHasClosed'
    BY <1>1, <1>2, <1>9, Callers DEF PlayStarts, Served, connection
  <1>10. ASSUME NEW c \in Caller, StopReturns(c) PROVE DoneHasClosed'
    BY <1>1, <1>2, <1>10 DEF StopReturns, Served
  <1>11. ASSUME NEW c \in Caller, CloseSocket(c) PROVE DoneHasClosed'
    BY <1>11 DEF CloseSocket, SocketCloses, DoneHasClosed
  <1> QED
    BY <1>1, <1>3, <1>4, <1>5, <1>6, <1>7, <1>8, <1>9, <1>10, <1>11, StepCases,
       ThreadMovesItself
    DEF vars, connection, caller, packetizer, SetupBadTransport, StopInterrupts, StopForgets

----------------------------------------------------------------------------
(* The inductive invariant: base case and step.                           *)
LEMMA InitInv == Init => IInv
  <1> SUFFICES ASSUME Init PROVE IInv
    OBVIOUS
  <1>1. TypeOK
    <2>1. NoKind \in Slot
      BY DEF NoKind, Slot, Track, Transport
    <2>2. "unused" \in ThreadState
      BY DEF ThreadState
    <2> QED
      BY <2>1, <2>2 DEF Init, TypeOK
  <1>2. SlotsKnown /\ OneTransportPerTrack /\ SessionCoversPacketizers
        /\ PlayAnnouncesFirstSeq
    BY DEF Init, SlotsKnown, OneTransportPerTrack, SessionCoversPacketizers,
           PlayAnnouncesFirstSeq, Slot, Track, Transport
  <1>3. \A c \in Caller : pc[c] \in {"none", "idle"} /\ (c \in Post => pc[c] = "none")
    BY DEF Init
  <1>4. JoinUnderMonitor
    BY DEF Init, JoinUnderMonitor
  <1>5. SetupHasTarget /\ PostExcludes /\ ClosingIsFinal /\ DoneHasClosed
    BY <1>3, Callers
    DEF SetupHasTarget, PostExcludes, ClosingIsFinal, HandlerHasStopped, DoneHasClosed
  <1>6. ForgottenThreadsAreInterrupted /\ ListedWhileRunning /\ FlagHasThread /\ PortsHeld
    BY DEF Init, ForgottenThreadsAreInterrupted, ListedWhileRunning, FlagHasThread,
           PortsHeld, Alive
  <1> QED
    BY <1>1, <1>2, <1>4, <1>5, <1>6 DEF IInv

(* One step of the connection keeps every part of the invariant.          *)
LEMMA StepInv == IInv /\ [Next]_vars => IInv'
  BY TypeStep, SlotsStep, JoinStep, TargetStep, PostStep, TransportStep, ForgottenStep,
     SessionStep, SeqStep, ClosingStep, ListedStep, FlagStep, PortsStep, DoneStep
  DEF IInv

(* The whole invariant the run MCStreamConnection checks, for any number  *)
(* of packetizers and of POSTs at once.                                   *)
THEOREM Invariance == Spec => []IInv
  BY InitInv, StepInv, PTL DEF Spec

(* Type correctness.                                                      *)
THEOREM TypeCorrect == Spec => []TypeOK
  BY Invariance, PTL DEF IInv

(* UDP and TCP packetizers of one track exclude each other.               *)
THEOREM TransportsExclude == Spec => []OneTransportPerTrack
  BY Invariance, PTL DEF IInv

(* No streaming thread is out of reach and still told to run.             *)
THEOREM NoRunawayThread == Spec => []ForgottenThreadsAreInterrupted
  BY Invariance, PTL DEF IInv

(* The session lasts as long as any track is configured.                  *)
THEOREM SessionOutlivesTracks == Spec => []SessionCoversPacketizers
  BY Invariance, PTL DEF IInv

(* PLAY announces the sequence number its packetizers begin with.         *)
THEOREM PlaySeqIsFirst == Spec => []PlayAnnouncesFirstSeq
  BY Invariance, PTL DEF IInv

(* A connection whose handler has closed it, and whose threads are over,  *)
(* is listed and flagged nowhere; unless a POST opened a session on it    *)
(* after close() had stopped both streams, it holds nothing at all.       *)
THEOREM ClosedConnectionIsClean == Spec => []NothingLeftBehind
  <1>1. IInv => NothingLeftBehind
    <2> SUFFICES ASSUME IInv, pc["handler"] = "done",
                        \A p \in Packetizer : thread[p] \notin Alive
                 PROVE  /\ streams = {}
                        /\ \A t \in Track : ~streaming[t]
                        /\ \A p \in Packetizer : ports[p] => thread[p] = "leaked" \/ late
                        /\ late \/ (~session /\ \A s \in Slot : slot[s] = None)
      BY DEF NothingLeftBehind
    <2>1. late \/ (~session /\ \A s \in Slot : slot[s] = None)
      BY DEF IInv, ClosingIsFinal, HandlerHasStopped, SessionCoversPacketizers
    <2>2. streams = {}
      BY DEF IInv, ListedWhileRunning, Alive
    <2>3. \A t \in Track : ~streaming[t]
      BY DEF IInv, FlagHasThread, Alive
    <2>4. \A p \in Packetizer : ports[p] => thread[p] = "leaked" \/ late
      BY <2>1, NoneAssumption DEF IInv, TypeOK, PortsHeld
    <2> QED
      BY <2>1, <2>2, <2>3, <2>4
  <1> QED
    BY <1>1, Invariance, PTL

(* A UDP track is silent once its stop has returned, a TCP track once     *)
(* either caller has closed the connection, and a connection whose        *)
(* handler has closed it until a POST opens another session.              *)
THEOREM StopSilences == Spec => SilentAfterStop
  <1>1. ASSUME IInv, [Next]_vars, NEW p \in Packetizer, Silenced(p), thread[p] = "send"
        PROVE  thread'[p] # "loop"
    <2>0. /\ kind[p] \in Slot /\ kind[p][2] \in Transport
          /\ "handler" \in Caller /\ "app" \in Caller
      BY <1>1, Callers DEF IInv, TypeOK, Slot
    <2>1. ~CanSend(p)
      <3>1. CASE kind[p][2] = "tcp"
        BY <1>1, <2>0, <3>1 DEF IInv, DoneHasClosed, Silenced, CanSend
      <3>2. CASE kind[p][2] = "udp"
        <4>1. slot[kind[p]] # p
          <5>1. CASE pc["handler"] = "done" /\ ~late
            BY <1>1, <2>0, <5>1, NoneAssumption
            DEF IInv, ClosingIsFinal, HandlerHasStopped, SessionCoversPacketizers
          <5>2. CASE kind[p][2] = "udp" /\ slot[kind[p]] # p
            BY <5>2
          <5> QED
            BY <1>1, <3>2, <5>1, <5>2 DEF Silenced
        <4> QED
          BY <1>1, <3>2, <4>1 DEF IInv, PortsHeld, CanSend
      <3> QED
        BY <2>0, <3>1, <3>2 DEF Transport
    <2>2. ASSUME NEW q \in Packetizer, ThreadStep(q) PROVE thread'[p] # "loop"
      BY <1>1, <2>1, <2>2
      DEF IInv, TypeOK, ThreadStep, Move, ThreadStarts, ThreadListed, ThreadTakes,
          ThreadSeesInterrupt, ThreadSends, ThreadFails, ThreadUnflags, ThreadUnlisted
    <2>3. ASSUME NEW c \in Requester,
                 SetupBuilds(c) \/ SetupBindFails(c) \/ SetupThrows(c)
          PROVE  thread'[p] # "loop"
      BY <1>1, <2>3, AskedIsOwned
      DEF IInv, TypeOK, SetupBuilds, SetupBindFails, SetupThrows
    <2>4. ASSUME NEW c \in Requester, NEW s \in Slot, SetupOpens(c, s)
          PROVE  thread'[p] # "loop"
      BY <1>1, <2>4, OpenedWasUnused DEF IInv, TypeOK
    <2>5. ASSUME NEW c \in Requester, PlayStarts(c) PROVE thread'[p] # "loop"
      BY <1>1, <2>5 DEF IInv, TypeOK, PlayStarts
    <2>6. CASE UNCHANGED thread
      BY <1>1, <2>6
    <2>7. CASE Quiet
      BY <2>6, <2>7, QuietSteps
    <2> QED
      BY <1>1, <2>2, <2>3, <2>4, <2>5, <2>6, <2>7, StepCases
      DEF vars, Quiet, StopInterrupts, StopForgets, StopReturns, CloseSocket
  <1>2. IInv /\ [Next]_vars =>
          [\A p \in Packetizer : Silenced(p) /\ thread[p] = "send" => thread'[p] # "loop"]_vars
    BY <1>1
  <1> QED
    BY <1>2, Invariance, PTL DEF Spec, SilentAfterStop

----------------------------------------------------------------------------
(* Refinement: the connection implements RtspSession.                     *)

(* A track that keeps its packetizers, none of them built or started,     *)
(* keeps its abstract state.                                              *)
LEMMA TrackStateKept ==
  ASSUME NEW t \in Track, Installed(t)' = Installed(t),
         \A p \in Installed(t) : (thread'[p] = "built") <=> (thread[p] = "built")
  PROVE  TrackState(t)' = TrackState(t)
  BY DEF TrackState

(* While the slots stay, so does what a track has installed.              *)
LEMMA InstalledKept ==
  ASSUME UNCHANGED slot
  PROVE  \A t \in Track : Installed(t)' = Installed(t)
  BY DEF Installed

(* Neither slots nor threads change: the abstract tracks do not.          *)
LEMMA TracksKept ==
  ASSUME UNCHANGED <<slot, thread>>
  PROVE  \A t \in Track : TrackState(t)' = TrackState(t)
  BY DEF TrackState, Installed

(* What a track has installed, transport by transport.                    *)
LEMMA InstalledKnown ==
  ASSUME TypeOK, SlotsKnown, NEW t \in Track, NEW p \in Installed(t)
  PROVE  /\ p \in Packetizer
         /\ kind[p][1] = t
         /\ slot[kind[p]] = p
         /\ thread[p] \notin {"unused", "asked", "leaked"}
  <1>1. PICK x \in Transport : p = slot[<<t, x>>] /\ p # None
    BY DEF Installed
  <1>2. <<t, x>> \in Slot
    BY DEF Slot
  <1> QED
    BY <1>1, <1>2 DEF TypeOK, SlotsKnown

(* With one transport per track, a track holds one packetizer at most.    *)
LEMMA InstalledAlone ==
  ASSUME TypeOK, OneTransportPerTrack, NEW t \in Track, NEW x \in Transport,
         slot[<<t, x>>] # None
  PROVE  Installed(t) = {slot[<<t, x>>]}
  BY DEF Installed, OneTransportPerTrack, Transport

(* Writing one slot leaves the other track alone.                         *)
LEMMA OtherTrackKept ==
  ASSUME TypeOK, NEW s \in Slot, NEW v, slot' = [slot EXCEPT ![s] = v],
         NEW t \in Track, t # s[1]
  PROVE  Installed(t)' = Installed(t)
  <1>1. \A x \in Transport : <<t, x>> \in Slot /\ <<t, x>> # s
    BY DEF Slot
  <1>2. \A x \in Transport : slot'[<<t, x>>] = slot[<<t, x>>]
    BY <1>1 DEF TypeOK
  <1> QED
    BY <1>2 DEF Installed

(* The abstract tracks after a step that moves only one of them.          *)
LEMMA OneTrackMoves ==
  ASSUME NEW t0 \in Track, NEW v, TrackState(t0)' = v,
         \A t \in Track : t # t0 => TrackState(t)' = TrackState(t)
  PROVE  [t \in Track |-> TrackState(t)']
           = [[t \in Track |-> TrackState(t)] EXCEPT ![t0] = v]
  OBVIOUS

(* A new connection is a closed abstract session.                         *)
LEMMA RefinesInit == Init => Abstract!Init
  <1> SUFFICES ASSUME Init PROVE Abstract!Init
    OBVIOUS
  <1>1. \A t \in Track : Installed(t) = {}
    BY DEF Init, Installed, Slot
  <1> QED
    BY <1>1 DEF Init, Abstract!Init, TrackState

(* Each action is one abstract step or none.                              *)
LEMMA RefinesStep ==
  ASSUME IInv, IInv', [Next]_vars
  PROVE  [Abstract!Next]_(Abstract!vars)
  <1> USE DEF IInv
  <1>1. ASSUME UNCHANGED <<slot, thread, session>>
        PROVE  UNCHANGED Abstract!vars
    BY <1>1, TracksKept DEF Abstract!vars
  <1>2. ASSUME UNCHANGED <<slot, thread>>, EnsureSession
        PROVE  UNCHANGED Abstract!vars \/ Abstract!Open
    BY <1>2, TracksKept DEF Abstract!vars, Abstract!Open, EnsureSession, TypeOK
  <1>3. ASSUME NEW c \in Requester, SetupBuilds(c)
        PROVE  Abstract!Next
    <2>0. PICK p \in Packetizer, s \in Slot : p = request[c] /\ s = kind[p]
      BY <1>3, AskedIsOwned DEF SetupBuilds
    <2>9. PICK t0 \in Track : t0 = s[1]
      BY SlotTrack
    <2>1. s = <<t0, s[2]>> /\ s[2] \in Transport /\ thread[p] = "asked"
      BY <1>3, <2>0, <2>9, AskedIsOwned DEF SetupBuilds, Slot
    <2>2. Installed(t0) = {} /\ session /\ session' = session
      BY <1>3, <2>0, <2>9 DEF SetupBuilds, Configured
    <2>3. slot' = [slot EXCEPT ![s] = p] /\ thread' = [thread EXCEPT ![p] = "built"]
      BY <1>3, <2>0 DEF SetupBuilds
    <2>4. Installed(t0)' = {p}
      <3>1. slot'[<<t0, s[2]>>] = p /\ p # None
        BY <2>1, <2>3, NoneAssumption DEF TypeOK
      <3>2. \A x \in Transport : slot[<<t0, x>>] = None
        BY <2>2 DEF Installed
      <3>3. \A x \in Transport : x # s[2] => slot'[<<t0, x>>] = None
        <4>1. \A x \in Transport : x # s[2] => <<t0, x>> # s
          BY <2>1
        <4> QED
          BY <2>3, <3>2, <4>1 DEF TypeOK, Slot
      <3> QED
        BY <2>1, <3>1, <3>3 DEF Installed
    <2>5. TrackState(t0) = "init" /\ TrackState(t0)' = "ready"
      BY <2>2, <2>3, <2>4 DEF TrackState, TypeOK
    <2>6. ASSUME NEW t \in Track, t # t0 PROVE TrackState(t)' = TrackState(t)
      <3>1. Installed(t)' = Installed(t)
        BY <2>9, <2>3, <2>6, OtherTrackKept
      <3>2. \A q \in Installed(t) : thread'[q] = thread[q]
        BY <2>1, <2>3, InstalledKnown DEF TypeOK
      <3> QED
        BY <3>1, <3>2, TrackStateKept
    <2>7. Abstract!Setup(t0)
      BY <2>2, <2>5, <2>6, OneTrackMoves DEF Abstract!Setup
    <2> QED
      BY <2>7 DEF Abstract!Next
  <1>4. ASSUME NEW p \in Packetizer, thread[p] \in {"unused", "asked"}, NEW x, x # "built",
               thread' = [thread EXCEPT ![p] = x], UNCHANGED slot
        PROVE  \A t \in Track : TrackState(t)' = TrackState(t)
    <2> SUFFICES ASSUME NEW t \in Track PROVE TrackState(t)' = TrackState(t)
      OBVIOUS
    <2>1. Installed(t)' = Installed(t)
      BY <1>4, InstalledKept
    <2>2. \A q \in Installed(t) : thread'[q] = thread[q] \/ q = p
      BY <1>4, InstalledKnown DEF TypeOK
    <2>3. p \notin Installed(t)
      BY <1>4, InstalledKnown
    <2> QED
      BY <2>1, <2>2, <2>3, TrackStateKept
  <1>5. ASSUME NEW c \in Requester, PlayStarts(c)
        PROVE  [Abstract!Next]_(Abstract!vars)
    <2>0. PICK t0 \in Track : t0 = FirstOf(todo[c])
      BY DEF FirstOf, Track
    <2>1. t0 \in Track /\ session /\ session' = session /\ slot' = slot
      BY <1>5 DEF PlayStarts, connection
    <2>2. \A t \in Track : Installed(t)' = Installed(t)
      BY <2>1, InstalledKept
    <2>3. ASSUME NEW t \in Track, t # t0 PROVE TrackState(t)' = TrackState(t)
      <3>1. \A p \in Installed(t) : thread'[p] = thread[p]
        BY <1>5, <2>0, <2>3, InstalledKnown DEF PlayStarts
      <3> QED
        BY <2>2, <3>1, TrackStateKept
    <2>4. CASE Installed(t0) = {}
      BY <2>1, <2>2, <2>3, <2>4 DEF TrackState, Abstract!vars
    <2>5. CASE Installed(t0) # {}
      <3>1. \A p \in Installed(t0) : thread[p] = "built" /\ thread'[p] = "started"
        BY <1>5, <2>0, InstalledKnown DEF PlayStarts
      <3>2. TrackState(t0) = "ready" /\ TrackState(t0)' = "playing"
        BY <2>2, <2>5, <3>1 DEF TrackState
      <3>3. Abstract!Play(t0)
        BY <2>1, <2>3, <3>2, OneTrackMoves DEF Abstract!Play
      <3> QED
        BY <2>1, <3>3 DEF Abstract!Next
    <2> QED
      BY <2>4, <2>5
  <1>6. ASSUME NEW c \in Caller, StopForgets(c)
        PROVE  Abstract!Next
    <2>1. PICK p \in Packetizer : p = joining[c] /\ slot[kind[p]] = p /\ kind[p] \in Slot
      BY <1>6 DEF StopForgets, TypeOK, JoinUnderMonitor
    <2>0. PICK t0 \in Track : t0 = kind[p][1]
      BY <2>1, SlotTrack
    <2>2. t0 \in Track /\ kind[p] = <<t0, kind[p][2]>> /\ kind[p][2] \in Transport
      BY <2>0, <2>1 DEF Slot
    <2>3. Installed(t0) = {p}
      BY <2>1, <2>2, NoneAssumption, InstalledAlone
    <2>4. slot' = [slot EXCEPT ![kind[p]] = None] /\ UNCHANGED <<session, thread>>
      BY <1>6, <2>1 DEF StopForgets
    <2>5. Installed(t0)' = {}
      <3>1. \A x \in Transport : slot[<<t0, x>>] \in {p, None} /\ <<t0, x>> \in Slot
        BY <2>2, <2>3 DEF Installed, Slot
      <3>2. \A x \in Transport : x # kind[p][2] => slot[<<t0, x>>] = None
        <4>1. ASSUME NEW x \in Transport, slot[<<t0, x>>] = p PROVE x = kind[p][2]
          BY <2>1, <3>1, <4>1, NoneAssumption DEF SlotsKnown
        <4> QED
          BY <3>1, <4>1
      <3>3. \A x \in Transport : slot'[<<t0, x>>] = None
        BY <2>2, <2>4, <3>1, <3>2 DEF TypeOK
      <3> QED
        BY <3>3 DEF Installed
    <2>6. TrackState(t0) # "init" /\ TrackState(t0)' = "init"
      BY <2>3, <2>5 DEF TrackState
    <2>7. ASSUME NEW t \in Track, t # t0 PROVE TrackState(t)' = TrackState(t)
      <3>1. Installed(t)' = Installed(t)
        BY <2>0, <2>1, <2>4, <2>7, OtherTrackKept
      <3> QED
        BY <2>4, <3>1, TrackStateKept
    <2> QED
      <3>1. Abstract!Release(t0)
        BY <2>2, <2>4, <2>6, <2>7, OneTrackMoves DEF Abstract!Release
      <3> QED
        BY <2>2, <3>1 DEF Abstract!Next
  <1>7. ASSUME NEW c \in Caller, StopReturns(c)
        PROVE  UNCHANGED Abstract!vars \/ Abstract!Close
    <2>1. UNCHANGED <<slot, thread>> /\ session' = SessionAfterStop(FirstOf(todo[c]))
      BY <1>7 DEF StopReturns, packetizer
    <2>2. \A t \in Track : TrackState(t)' = TrackState(t)
      BY <2>1, TracksKept
    <2>3. CASE session' = session
      BY <2>2, <2>3 DEF Abstract!vars
    <2>4. CASE session' # session
      <3>1. session /\ ~session' /\ \A s \in Slot : slot[s] = None
        BY <2>1, <2>4 DEF SessionAfterStop, TypeOK
      <3>2. \A t \in Track : Installed(t) = {}
        BY <3>1 DEF Installed, Slot
      <3> QED
        BY <2>2, <3>1, <3>2 DEF Abstract!Close, TrackState
    <2> QED
      BY <2>3, <2>4
  <1>8. ASSUME NEW p \in Packetizer, ThreadStep(p)
        PROVE  UNCHANGED Abstract!vars
    <2>1. UNCHANGED <<slot, session>> /\ \A q \in Packetizer :
            (thread'[q] = "built") <=> (thread[q] = "built")
      BY <1>8, ThreadMovesItself DEF TypeOK, Alive, connection
    <2>2. \A t \in Track : TrackState(t)' = TrackState(t)
      BY <2>1, InstalledKept, InstalledKnown, TrackStateKept
    <2> QED
      BY <2>1, <2>2 DEF Abstract!vars
  <1>9. ASSUME NEW c \in Requester, SetupBadTransport(c)
        PROVE  [Abstract!Next]_(Abstract!vars)
    BY <1>2, <1>9 DEF SetupBadTransport, Abstract!Next
  <1>10. ASSUME NEW c \in Requester, NEW s \in Slot, SetupOpens(c, s)
         PROVE  [Abstract!Next]_(Abstract!vars)
    <2>1. \A t \in Track : TrackState(t)' = TrackState(t)
      BY <1>4, <1>10, OpenedWasUnused DEF SetupOpens
    <2> QED
      BY <1>10, <2>1
      DEF SetupOpens, EnsureSession, TypeOK, Abstract!vars, Abstract!Open, Abstract!Next
  <1>11. ASSUME NEW c \in Requester, SetupBindFails(c) \/ SetupThrows(c)
         PROVE  UNCHANGED Abstract!vars
    <2>1. \A t \in Track : TrackState(t)' = TrackState(t)
      BY <1>4, <1>11, AskedIsOwned DEF SetupBindFails, SetupThrows, connection
    <2> QED
      BY <1>11, <2>1 DEF SetupBindFails, SetupThrows, connection, Abstract!vars
  <1>12. CASE UNCHANGED <<slot, thread, session>>
    BY <1>1, <1>12
  <1> QED
    BY <1>3, <1>5, <1>6, <1>7, <1>8, <1>9, <1>10, <1>11, <1>12, StepCases
    DEF vars, connection, HandlerPolls, Play, Teardown, Accept, PlayThrows, HandlerQuits,
        AppCloses, StopInterrupts, CloseSocket, Abstract!Next

(* The connection, with its monitor, joins and threads, implements the    *)
(* session of RtspSession.                                                *)
THEOREM Refinement == Spec => ImplementsSession
  BY RefinesInit, RefinesStep, Invariance, PTL DEF Spec, ImplementsSession, Abstract!Spec
====
