---- MODULE MediaStreamProofs ----
(***************************************************************************)
(* A track's streams for every packet size above 14, every capacity of the *)
(* queue and any number of slices and streams: their packets are well      *)
(* formed and reassemble, and doSend implements SliceStream.               *)
(***************************************************************************)
EXTENDS MediaStream, TLAPS

(* The steps of one streaming thread and of the handler that drives it.   *)
StreamStep(t) == \/ Plays(t) \/ Stops(t) \/ ClearsSlices(t) \/ Started(t)
                 \/ SeesInterrupt(t) \/ PopsAndSkips(t) \/ PopsAndSends(t)
                 \/ SendsNAL(t) \/ SendsFragment(t) \/ SendsAudioMuxElement(t)
                 \/ AudioTooLong(t) \/ SendFails(t) \/ Stopped(t)

(* The actions of Next, by who takes them.                                *)
LEMMA StepCases ==
  ASSUME [Next]_vars
  PROVE  PushChecks \/ PushOffers \/ (\E t \in Stream : StreamStep(t)) \/ UNCHANGED vars
  BY DEF Next, StreamStep

(* A sequence number of two bytes wraps with its counter.                 *)
LEMMA SuccessorWraps ==
  ASSUME NEW n \in Nat, n > 0
  PROVE  n % SeqModulus = (((n - 1) % SeqModulus) + 1) % SeqModulus
  <1> DEFINE M == SeqModulus
             r == (n - 1) % M
             q == (n - 1) \div M
  <1>1. M \in Nat \ {0} /\ n - 1 \in Nat
    BY StreamAssumption
  <1>2. r \in 0..M - 1 /\ q \in Nat /\ n - 1 = M * q + r
    BY <1>1, SMT
  <1> HIDE DEF r, q
  <1>3. CASE r + 1 < M
    <2>1. (r + 1) % M = r + 1
      BY <1>1, <1>2, <1>3
    <2>2. n = M * q + (r + 1)
      BY <1>2, <1>1
    <2>3. n % M = r + 1
      BY <2>2, <1>1, <1>2, <1>3
    <2> QED
      BY <2>1, <2>3 DEF r
  <1>4. CASE r + 1 = M
    <2>1. (r + 1) % M = 0
      BY <1>1, <1>4
    <2>2. n = M * (q + 1)
      BY <1>2, <1>1, <1>4
    <2>3. n % M = 0
      BY <2>2, <1>1, <1>2
    <2> QED
      BY <2>1, <2>3 DEF r
  <1> QED
    BY <1>1, <1>2, <1>3, <1>4

(* The head and the tail of a queue, by position.                         *)
LEMMA HeadAndTail ==
  ASSUME queue \in Seq(Number), queue # <<>>
  PROVE  /\ Len(queue) \in Nat \ {0}
         /\ Head(queue) = queue[1] /\ Head(queue) \in Number
         /\ Tail(queue) \in Seq(Number)
         /\ Len(Tail(queue)) = Len(queue) - 1
         /\ \A i \in 1..Len(queue) - 1 : Tail(queue)[i] = queue[i + 1]
  OBVIOUS

(* A queue with one more slice, or as it was.                             *)
LEMMA OfferedSlices ==
  ASSUME queue \in Seq(Number), offering \in Number
  PROVE  /\ Offered \in Seq(Number)
         /\ Len(Offered) \in {Len(queue), Len(queue) + 1}
         /\ \A i \in 1..Len(queue) : Offered[i] = queue[i]
         /\ Len(Offered) = Len(queue) + 1 => Offered[Len(queue) + 1] = offering
  BY DEF Offered

(* Numbers are positive naturals and no null.                             *)
LEMMA Numbers ==
  /\ \A n \in Number : n \in Nat /\ n # None
  /\ \A f \in [Number -> Slice], n \in Number : f[n].length \in Nat /\ f[n].idr \in BOOLEAN
                                           /\ f[n].codec \in {"h264", "aac"}
  /\ \A p \in Packet : p # None
  BY StreamAssumption DEF Number, Packet

(* Nothing is pushed, queued or sent at first.                            *)
LEMMA InitInv == Init => IInv
  <1> SUFFICES ASSUME Init PROVE IInv
    OBVIOUS
  <1> USE StreamAssumption DEF Init
  <1>1. TypeOK
    <2>1. FirstSeq \in Nat /\ 0 \in 0..Pushes /\ queue \in Seq(Number)
      OBVIOUS
    <2> QED
      BY <2>1 DEF TypeOK
  <1>2. QueueInOrder /\ SequenceInOrder
    BY DEF QueueInOrder, SequenceInOrder
  <1>3. TakenInOrder /\ StartsWithIDR
    BY DEF TakenInOrder, Taken, StartsWithIDR
  <1>4. SendingInOrder
    BY DEF SendingInOrder, InSlice
  <1>5. OneIsStale
    BY DEF OneIsStale
  <1>6. PacketsWellFormed /\ AtMostOneStaleSlice
    BY DEF PacketsWellFormed, AtMostOneStaleSlice, Stale
  <1> QED
    BY <1>1, <1>2, <1>3, <1>4, <1>5, <1>6 DEF IInv

(* A thread that sends has a slice with something left of it.             *)
LEMMA Sending ==
  ASSUME TypeOK, SendingInOrder, NEW t \in Stream, pc[t] = "send"
  PROVE  /\ slice[t] \in Number
         /\ slices[slice[t]].length \in Nat
         /\ offset[t] \in Nat /\ FirstOffset(slice[t]) <= offset[t]
         /\ offset[t] <= slices[slice[t]].length
         /\ IsAudio(slice[t]) => offset[t] = 0 /\ 1 <= slices[slice[t]].length
         /\ ~IsAudio(slice[t]) => FirstOffset(slice[t]) = 5
         /\ ~IsAudio(slice[t]) /\ ~Fits(slice[t]) => offset[t] < slices[slice[t]].length
  <1> USE StreamAssumption, Numbers DEF TypeOK, SendingInOrder, InSlice, Fits
  <1>1. slice[t] \in Number /\ slices[slice[t]].length \in Nat
    OBVIOUS
  <1> QED
    BY <1>1 DEF FirstOffset, NoData

(* The end of a fragment lies behind its start, and the fragment fits.    *)
LEMMA Fragments ==
  ASSUME TypeOK, SendingInOrder, NEW t \in Stream, pc[t] = "send",
         ~IsAudio(slice[t]), ~Fits(slice[t])
  PROVE  /\ FragmentEnd(t) \in Nat
         /\ offset[t] < FragmentEnd(t)
         /\ FragmentEnd(t) <= slices[slice[t]].length
         /\ FragmentEnd(t) - offset[t] + 14 <= PacketSize
         /\ offset[t] = 5 => FragmentEnd(t) < slices[slice[t]].length
  BY StreamAssumption, Sending DEF FragmentEnd, Fits

(* The packet of a slice that fits in one, and what follows it.           *)
LEMMA WholeSent ==
  ASSUME TypeOK, SendingInOrder, NEW t \in Stream, SendsNAL(t)
  PROVE  /\ pc[t] = "send" /\ slice[t] \in Number /\ offset[t] = FirstOffset(slice[t])
         /\ pc'[t] = "loop" /\ slice'[t] = None
         /\ delivered'[t] = delivered[t] \cup {slice[t]}
         /\ mSeq'[t] = mSeq[t] + 1
         /\ packet'[t] \in Packet /\ packet'[t] # None
         /\ packet'[t].slice = slice[t] /\ packet'[t].seq = mSeq[t] % SeqModulus
         /\ packet'[t].from = 4 /\ packet'[t].to = slices[slice[t]].length
         /\ packet'[t].first /\ packet'[t].last
         /\ packet'[t].length = slices[slice[t]].length + 8
  <1> DEFINE p == [slice |-> slice[t], seq |-> mSeq[t] % SeqModulus, from |-> 4,
                   to |-> slices[slice[t]].length, first |-> TRUE, last |-> TRUE,
                   length |-> slices[slice[t]].length + 8, size |-> 0]
  <1>1. pc[t] = "send" /\ slice[t] \in Number /\ slices[slice[t]].length \in Nat
    BY Sending DEF SendsNAL
  <1>2. mSeq[t] % SeqModulus \in 0..SeqModulus - 1
    BY StreamAssumption DEF TypeOK
  <1>3. p \in Packet
    BY <1>1, <1>2 DEF Packet
  <1>4. packet'[t] = p
    BY DEF SendsNAL, Sends, TypeOK
  <1>5. packet'[t] \in Packet /\ packet'[t] # None
    BY <1>3, <1>4, Numbers
  <1>6. /\ pc'[t] = "loop" /\ slice'[t] = None /\ offset[t] = FirstOffset(slice[t])
        /\ delivered'[t] = delivered[t] \cup {slice[t]}
        /\ mSeq'[t] = mSeq[t] + 1
    BY <1>1 DEF SendsNAL, Sends, SliceSent, NextSeq, Goto, TypeOK, SendingInOrder, InSlice
  <1> QED
    BY <1>1, <1>4, <1>5, <1>6

(* The packet of an access unit.                                          *)
LEMMA AudioSent ==
  ASSUME TypeOK, SendingInOrder, NEW t \in Stream, SendsAudioMuxElement(t)
  PROVE  /\ pc[t] = "send" /\ slice[t] \in Number /\ offset[t] = FirstOffset(slice[t])
         /\ pc'[t] = "loop" /\ slice'[t] = None
         /\ delivered'[t] = delivered[t] \cup {slice[t]}
         /\ mSeq'[t] = mSeq[t] + 1
         /\ packet'[t] \in Packet /\ packet'[t] # None
         /\ packet'[t].slice = slice[t] /\ packet'[t].seq = mSeq[t] % SeqModulus
         /\ packet'[t].from = 0 /\ packet'[t].to = slices[slice[t]].length
         /\ packet'[t].first /\ packet'[t].last
         /\ packet'[t].length = slices[slice[t]].length + 16
         /\ packet'[t].size = AuSize(slice[t])
  <1> DEFINE p == [slice |-> slice[t], seq |-> mSeq[t] % SeqModulus, from |-> 0,
                   to |-> slices[slice[t]].length, first |-> TRUE, last |-> TRUE,
                   length |-> slices[slice[t]].length + 16, size |-> AuSize(slice[t])]
  <1>1. pc[t] = "send" /\ slice[t] \in Number /\ slices[slice[t]].length \in Nat
    BY Sending DEF SendsAudioMuxElement
  <1>2. mSeq[t] % SeqModulus \in 0..SeqModulus - 1 /\ AuSize(slice[t]) \in Nat
    BY <1>1, StreamAssumption DEF TypeOK, AuSize
  <1>3. p \in Packet
    BY <1>1, <1>2 DEF Packet
  <1>4. packet'[t] = p
    BY DEF SendsAudioMuxElement, Sends, TypeOK
  <1>5. packet'[t] \in Packet /\ packet'[t] # None
    BY <1>3, <1>4, Numbers
  <1>6. /\ pc'[t] = "loop" /\ slice'[t] = None /\ offset[t] = FirstOffset(slice[t])
        /\ delivered'[t] = delivered[t] \cup {slice[t]}
        /\ mSeq'[t] = mSeq[t] + 1
    BY <1>1 DEF SendsAudioMuxElement, Sends, SliceSent, NextSeq, Goto, TypeOK,
                SendingInOrder, InSlice
  <1> QED
    BY <1>1, <1>4, <1>5, <1>6

(* The packet of a fragment; with the last one its slice is sent.         *)
LEMMA FragmentSent ==
  ASSUME TypeOK, SendingInOrder, NEW t \in Stream, SendsFragment(t)
  PROVE  /\ pc[t] = "send" /\ slice[t] \in Number
         /\ mSeq'[t] = mSeq[t] + 1 /\ offset'[t] = FragmentEnd(t)
         /\ packet'[t] \in Packet /\ packet'[t] # None
         /\ packet'[t].slice = slice[t] /\ packet'[t].seq = mSeq[t] % SeqModulus
         /\ packet'[t].from = offset[t] /\ packet'[t].to = FragmentEnd(t)
         /\ FirstOffset(slice[t]) = 5
         /\ packet'[t].first <=> offset[t] = 5
         /\ packet'[t].last <=> FragmentEnd(t) = slices[slice[t]].length
         /\ packet'[t].length = FragmentEnd(t) - offset[t] + 14
         /\ \/ /\ FragmentEnd(t) = slices[slice[t]].length
               /\ pc'[t] = "loop" /\ slice'[t] = None
               /\ delivered'[t] = delivered[t] \cup {slice[t]}
            \/ /\ FragmentEnd(t) # slices[slice[t]].length
               /\ UNCHANGED <<pc, slice, delivered>>
  <1> DEFINE last == FragmentEnd(t) = slices[slice[t]].length
             p == [slice |-> slice[t], seq |-> mSeq[t] % SeqModulus,
                   from |-> offset[t], to |-> FragmentEnd(t),
                   first |-> offset[t] = 5 /\ ~last, last |-> last,
                   length |-> FragmentEnd(t) - offset[t] + 14, size |-> 0]
  <1>1. /\ pc[t] = "send" /\ slice[t] \in Number /\ offset[t] \in Nat
        /\ FragmentEnd(t) \in Nat /\ offset[t] < FragmentEnd(t)
        /\ FirstOffset(slice[t]) = 5 /\ (offset[t] = 5 => ~last)
    BY Sending, Fragments DEF SendsFragment
  <1>2. mSeq[t] % SeqModulus \in 0..SeqModulus - 1
    BY StreamAssumption DEF TypeOK
  <1>3. p \in Packet
    BY <1>1, <1>2 DEF Packet
  <1>4. packet'[t] = p
    BY DEF SendsFragment, Sends, TypeOK
  <1>5. packet'[t] \in Packet /\ packet'[t] # None
    BY <1>3, <1>4, Numbers
  <1>6. \/ /\ last /\ pc'[t] = "loop" /\ slice'[t] = None
           /\ delivered'[t] = delivered[t] \cup {slice[t]}
        \/ /\ ~last
           /\ UNCHANGED <<pc, slice, delivered>>
    BY DEF SendsFragment, SliceSent, Goto, TypeOK
  <1>7. mSeq'[t] = mSeq[t] + 1 /\ offset'[t] = FragmentEnd(t)
    BY DEF SendsFragment, Sends, NextSeq, TypeOK
  <1>8. /\ packet'[t].slice = slice[t] /\ packet'[t].seq = mSeq[t] % SeqModulus
        /\ packet'[t].from = offset[t] /\ packet'[t].to = FragmentEnd(t)
        /\ packet'[t].length = FragmentEnd(t) - offset[t] + 14
    BY <1>4
  <1>9. packet'[t].first = (offset[t] = 5 /\ ~last) /\ packet'[t].last = last
    <2>1. p.first = (offset[t] = 5 /\ ~last) /\ p.last = last
      OBVIOUS
    <2> HIDE DEF p
    <2> QED
      BY <1>4, <2>1, Zenon
  <1>10. (packet'[t].first <=> offset[t] = 5) /\ (packet'[t].last <=> last)
    BY <1>1, <1>9
  <1> QED
    BY <1>1, <1>5, <1>6, <1>7, <1>8, <1>9, <1>10

(* Types.                                                                 *)
LEMMA TypeStep ==
  ASSUME TypeOK, SendingInOrder, [Next]_vars
  PROVE  TypeOK'
  <1> USE StreamAssumption DEF TypeOK, encoder, thread
  <1>1. CASE PushChecks
    BY <1>1 DEF PushChecks, Number
  <1>2. CASE PushOffers
    <2>1. queue' \in Seq(Number)
      BY <1>2, OfferedSlices DEF PushOffers
    <2> QED
      BY <1>2, <2>1 DEF PushOffers
  <1>3. ASSUME NEW t \in Stream, StreamStep(t) PROVE TypeOK'
    <2>1. CASE Plays(t) \/ Stops(t)
      BY <2>1 DEF Plays, Stops, Goto
    <2>2. CASE ClearsSlices(t)
      BY <2>2 DEF ClearsSlices, ClearedSlices, Goto
    <2>3. CASE Started(t) \/ SeesInterrupt(t) \/ AudioTooLong(t) \/ SendFails(t) \/ Stopped(t)
      BY <2>3 DEF Started, SeesInterrupt, AudioTooLong, SendFails, Stopped, Goto
    <2>4. CASE PopsAndSkips(t)
      BY <2>4, HeadAndTail DEF PopsAndSkips
    <2>5. CASE PopsAndSends(t)
      BY <2>5, HeadAndTail DEF PopsAndSends, FirstOffset, Goto
    <2>6. CASE SendsNAL(t) \/ SendsAudioMuxElement(t)
      <3>1. slice[t] \in Number /\ packet'[t] \in Packet /\ mSeq'[t] \in Nat
        BY <2>6, WholeSent, AudioSent
      <3>2. /\ packet' = [packet EXCEPT ![t] = packet'[t]]
            /\ mSeq' = [mSeq EXCEPT ![t] = mSeq'[t]]
        BY <2>6 DEF SendsNAL, SendsAudioMuxElement, Sends
      <3>3. packet' \in [Stream -> Packet \cup {None}] /\ mSeq' \in [Stream -> Nat]
        BY <3>1, <3>2
      <3>4. /\ slice' \in [Stream -> Number \cup {None}]
            /\ packets' \in [Stream -> Nat] /\ delivered' \in [Stream -> SUBSET Number]
        <4>1. SliceSent(t)
          BY <2>6 DEF SendsNAL, SendsAudioMuxElement
        <4> QED
          BY <3>1, <4>1 DEF SliceSent
      <3>5. /\ UNCHANGED <<slices, pushed, offering, queue, streaming, interrupted, sync,
                           offset, cleared>>
            /\ pc' = [pc EXCEPT ![t] = "loop"]
        BY <2>6 DEF SendsNAL, SendsAudioMuxElement, SliceSent, Goto
      <3> QED
        BY <2>6, <3>3, <3>4, <3>5
    <2>7. CASE SendsFragment(t)
      <3>1. slice[t] \in Number /\ packet'[t] \in Packet /\ mSeq'[t] \in Nat
        BY <2>7, FragmentSent
      <3>2. FragmentEnd(t) \in Nat
        BY <2>7, Fragments DEF SendsFragment
      <3>3. /\ packet' = [packet EXCEPT ![t] = packet'[t]]
            /\ mSeq' = [mSeq EXCEPT ![t] = mSeq'[t]]
        BY <2>7 DEF SendsFragment, Sends
      <3>4. packet' \in [Stream -> Packet \cup {None}] /\ mSeq' \in [Stream -> Nat]
        BY <3>1, <3>3
      <3>5. offset' \in [Stream -> Nat]
        BY <2>7, <3>2 DEF SendsFragment
      <3>6. \/ SliceSent(t)
            \/ UNCHANGED <<pc, slice, packets, delivered>>
        BY <2>7 DEF SendsFragment
      <3>7. /\ slice' \in [Stream -> Number \cup {None}]
            /\ packets' \in [Stream -> Nat] /\ delivered' \in [Stream -> SUBSET Number]
            /\ pc' \in [Stream -> {"unused", "started", "flagged", "loop", "send",
                                  "stopping", "ended"}]
        <4>1. CASE SliceSent(t)
          BY <3>1, <4>1 DEF SliceSent, Goto
        <4>2. CASE UNCHANGED <<pc, slice, packets, delivered>>
          BY <4>2
        <4> QED
          BY <3>6, <4>1, <4>2
      <3>8. UNCHANGED <<slices, pushed, offering, queue, streaming, interrupted, sync,
                       cleared>>
        BY <2>7 DEF SendsFragment
      <3> QED
        BY <3>4, <3>5, <3>7, <3>8
    <2> QED
      BY <1>3, <2>1, <2>2, <2>3, <2>4, <2>5, <2>6, <2>7 DEF StreamStep
  <1>4. CASE UNCHANGED vars
    BY <1>4 DEF vars
  <1> QED
    BY <1>1, <1>2, <1>3, <1>4, StepCases

(* The queue stays in the order of the pushes.                            *)
LEMMA QueueStep ==
  ASSUME TypeOK, QueueInOrder, [Next]_vars
  PROVE  QueueInOrder'
  <1> USE StreamAssumption DEF TypeOK, QueueInOrder, encoder
  <1>0. \A i \in 1..Len(queue) : queue[i] \in Nat
    BY DEF Number
  <1>1. CASE PushChecks
    <2>1. queue' = queue /\ pushed' = pushed + 1 /\ offering' \in {pushed + 1, None}
      BY <1>1 DEF PushChecks
    <2>2. \A i \in 1..Len(queue) : queue[i] < pushed + 1
      BY <1>0
    <2> QED
      BY <1>0, <2>1, <2>2
  <1>2. CASE PushOffers
    <2>1. queue' = Offered /\ offering \in Number /\ offering' = None /\ pushed' = pushed
      BY <1>2 DEF PushOffers
    <2>2. \A i \in 1..Len(queue') :
             \/ i \in 1..Len(queue) /\ queue'[i] = queue[i]
             \/ i = Len(queue) + 1 /\ queue'[i] = offering
      BY <2>1, OfferedSlices
    <2>3. \A i, j \in 1..Len(queue') : i < j => i \in 1..Len(queue)
      BY <2>1, OfferedSlices
    <2>4. offering = pushed /\ \A i \in 1..Len(queue) : queue[i] < offering
      BY <1>2 DEF PushOffers
    <2>5. ASSUME NEW i \in 1..Len(queue'), NEW j \in 1..Len(queue'), i < j
          PROVE  queue'[i] < queue'[j]
      <3>1. i \in 1..Len(queue) /\ queue'[i] = queue[i]
        BY <2>1, <2>5, <2>3, OfferedSlices
      <3>2. CASE j \in 1..Len(queue)
        <4>1. queue'[j] = queue[j]
          BY <2>1, <3>2, OfferedSlices
        <4> QED
          BY <2>5, <3>1, <3>2, <4>1
      <3>3. CASE j = Len(queue) + 1 /\ queue'[j] = offering
        BY <2>4, <3>1, <3>3
      <3> QED
        BY <2>2, <3>2, <3>3
    <2>6. ASSUME NEW i \in 1..Len(queue') PROVE queue'[i] <= pushed'
      <3>1. CASE i \in 1..Len(queue) /\ queue'[i] = queue[i]
        BY <2>1, <3>1
      <3>2. CASE queue'[i] = offering
        BY <2>1, <2>4, <3>2
      <3> QED
        BY <2>2, <3>1, <3>2
    <2> QED
      BY <2>1, <2>5, <2>6
  <1>3. ASSUME NEW t \in Stream, StreamStep(t) PROVE QueueInOrder'
    <2>1. CASE queue' = queue
      BY <1>3, <2>1 DEF StreamStep, Plays, Stops, ClearsSlices, Started, SeesInterrupt,
         PopsAndSkips, PopsAndSends, SendsNAL, SendsFragment, SendsAudioMuxElement,
         AudioTooLong, SendFails, Stopped
    <2>2. CASE ClearsSlices(t)
      BY <2>2 DEF ClearsSlices, ClearedSlices
    <2>3. CASE PopsAndSkips(t) \/ PopsAndSends(t)
      <3>1. queue # <<>> /\ queue' = Tail(queue) /\ UNCHANGED <<pushed, offering>>
        BY <2>3 DEF PopsAndSkips, PopsAndSends
      <3>2. \A i \in 1..Len(queue') : i + 1 \in 1..Len(queue) /\ queue'[i] = queue[i + 1]
        BY <3>1, HeadAndTail
      <3>3. ASSUME NEW i \in 1..Len(queue'), NEW j \in 1..Len(queue'), i < j
            PROVE  queue'[i] < queue'[j]
        <4>1. /\ i + 1 \in 1..Len(queue) /\ queue'[i] = queue[i + 1]
              /\ j + 1 \in 1..Len(queue) /\ queue'[j] = queue[j + 1]
          BY <3>2
        <4>2. i + 1 < j + 1
          BY <3>3
        <4> QED
          BY <4>1, <4>2
      <3>4. \A i \in 1..Len(queue') : queue'[i] <= pushed
        BY <3>2
      <3>5. offering # None => \A i \in 1..Len(queue') : queue'[i] < offering
        BY <3>2
      <3> QED
        BY <3>1, <3>3, <3>4, <3>5
    <2> QED
      BY <1>3, <2>1, <2>2, <2>3 DEF StreamStep, Plays, Stops, Started, SeesInterrupt,
         SendsNAL, SendsFragment, SendsAudioMuxElement, AudioTooLong, SendFails, Stopped
  <1>4. CASE UNCHANGED vars
    BY <1>4 DEF vars
  <1> QED
    BY <1>1, <1>2, <1>3, <1>4, StepCases

(* A slice is taken by the step that pops it, and stays taken.            *)
LEMMA TakenChange ==
  ASSUME TypeOK, SendingInOrder, NEW t \in Stream, StreamStep(t)
  PROVE  /\ \A u \in Stream \ {t} : Taken(u)' = Taken(u) /\ slice'[u] = slice[u]
                                    /\ delivered'[u] = delivered[u]
         /\ IF PopsAndSends(t)
            THEN /\ slice[t] = None /\ slice'[t] = Head(queue)
                 /\ delivered'[t] = delivered[t]
                 /\ Taken(t)' = Taken(t) \cup {Head(queue)}
            ELSE /\ Taken(t)' = Taken(t)
                 /\ \/ slice'[t] = slice[t] /\ delivered'[t] = delivered[t]
                    \/ slice'[t] = None
  <1> USE DEF TypeOK, thread
  <1>1. CASE PopsAndSends(t)
    <2>1. slice[t] = None /\ queue # <<>>
      BY <1>1 DEF PopsAndSends, SendingInOrder, InSlice
    <2>2. slice' = [slice EXCEPT ![t] = Head(queue)] /\ delivered' = delivered
      BY <1>1 DEF PopsAndSends
    <2>3. Head(queue) # None
      BY <2>1, HeadAndTail, Numbers
    <2> QED
      BY <1>1, <2>1, <2>2, <2>3 DEF Taken
  <1>2. CASE UNCHANGED <<slice, delivered>> /\ ~PopsAndSends(t)
    BY <1>2 DEF Taken
  <1>3. CASE SliceSent(t) /\ pc[t] = "send" /\ ~PopsAndSends(t)
    <2>1. slice[t] \in Number /\ slice[t] # None
      BY <1>3, Sending, Numbers
    <2>2. /\ slice' = [slice EXCEPT ![t] = None]
          /\ delivered' = [delivered EXCEPT ![t] = @ \cup {slice[t]}]
      BY <1>3 DEF SliceSent
    <2>3. Taken(t)' = Taken(t)
      BY <2>1, <2>2 DEF Taken
    <2> QED
      BY <1>3, <2>2, <2>3 DEF Taken
  <1>4. \/ UNCHANGED <<slice, delivered>> \/ PopsAndSends(t)
        \/ SliceSent(t) /\ pc[t] = "send" /\ ~PopsAndSends(t)
    BY DEF StreamStep, Plays, Stops, ClearsSlices, Started, SeesInterrupt, PopsAndSkips,
           SendsNAL, SendsFragment, SendsAudioMuxElement, AudioTooLong, SendFails,
           Stopped, PopsAndSends
  <1> QED
    BY <1>1, <1>2, <1>3, <1>4

(* What a streaming thread does to the queue.                             *)
LEMMA QueueChange ==
  ASSUME TypeOK, NEW t \in Stream, StreamStep(t)
  PROVE  /\ UNCHANGED <<slices, pushed, offering>>
         /\ \/ queue' = queue /\ ~PopsAndSends(t) /\ cleared' = cleared
            \/ ClearsSlices(t) /\ queue' = <<>> /\ ~PopsAndSends(t)
            \/ queue # <<>> /\ queue' = Tail(queue) /\ cleared' = cleared
  BY DEF StreamStep, Plays, Stops, ClearsSlices, Started, SeesInterrupt, PopsAndSkips,
         SendsNAL, SendsFragment, SendsAudioMuxElement, AudioTooLong, SendFails, Stopped,
         PopsAndSends, encoder, ClearedSlices

(* What is taken stays in front of what is queued.                        *)
LEMMA TakenStep ==
  ASSUME TypeOK, QueueInOrder, TakenInOrder, SendingInOrder, [Next]_vars
  PROVE  TakenInOrder'
  <1> USE StreamAssumption
  <1>0. \A u \in Stream : \A n \in Taken(u) : n \in Number /\ n \in Nat /\ n # None
    BY Numbers DEF TypeOK, Taken
  <1>1. CASE PushChecks
    <2>1. /\ UNCHANGED <<queue, slice, delivered>>
          /\ pushed \in Nat /\ pushed' = pushed + 1 /\ offering' \in {pushed + 1, None}
      BY <1>1 DEF PushChecks, thread, TypeOK
    <2>2. \A u \in Stream : Taken(u)' = Taken(u)
      BY <2>1 DEF Taken
    <2> QED
      BY <1>0, <2>1, <2>2 DEF TakenInOrder
  <1>2. CASE PushOffers
    <2>1. /\ UNCHANGED <<pushed, slice, delivered>>
          /\ queue' = Offered /\ offering \in Number /\ offering = pushed /\ offering' = None
      BY <1>2 DEF PushOffers, thread, TypeOK, QueueInOrder
    <2>2. \A u \in Stream : Taken(u)' = Taken(u)
      BY <2>1 DEF Taken
    <2>3. \A u \in Stream : \A n \in Taken(u) : n < offering
      BY <1>0, <2>1 DEF TakenInOrder, Number
    <2>4. \A i \in 1..Len(queue') :
             (i \in 1..Len(queue) /\ queue'[i] = queue[i]) \/ queue'[i] = offering
      BY <2>1, OfferedSlices DEF TypeOK
    <2>5. \A u \in Stream : \A n \in Taken(u)' : \A i \in 1..Len(queue') : n < queue'[i]
      BY <2>2, <2>3, <2>4 DEF TakenInOrder
    <2> QED
      BY <1>0, <2>1, <2>2, <2>5 DEF TakenInOrder
  <1>3. ASSUME NEW t \in Stream, StreamStep(t) PROVE TakenInOrder'
    <2>1. UNCHANGED <<pushed, offering>>
      BY <1>3, QueueChange
    <2>2. CASE PopsAndSends(t)
      <3>1. queue # <<>> /\ queue' = Tail(queue)
        BY <2>2 DEF PopsAndSends
      <3> DEFINE h == Head(queue)
      <3>2. h \in Number /\ h = queue[1] /\ 1 \in 1..Len(queue)
        BY <3>1, HeadAndTail DEF TypeOK
      <3>3. \A i \in 1..Len(queue') : i + 1 \in 1..Len(queue) /\ queue'[i] = queue[i + 1]
        BY <3>1, HeadAndTail DEF TypeOK
      <3>4. \A i \in 1..Len(queue') : h < queue'[i]
        BY <3>2, <3>3 DEF QueueInOrder
      <3>5. h <= pushed /\ h # offering
        BY <3>2, Numbers DEF QueueInOrder
      <3>6. /\ Taken(t)' = Taken(t) \cup {h} /\ slice'[t] = h /\ delivered'[t] = delivered[t]
            /\ \A u \in Stream \ {t} : Taken(u)' = Taken(u) /\ slice'[u] = slice[u]
                                       /\ delivered'[u] = delivered[u]
        BY <1>3, <2>2, TakenChange
      <3>7. \A u \in Stream : \A n \in Taken(u) : n < h
        BY <3>2 DEF TakenInOrder
      <3> HIDE DEF h
      <3>8. \A u \in Stream : h \notin Taken(u)
        BY <1>0, <3>7
      <3>9. \A u \in Stream : \A n \in Taken(u)' :
               n <= pushed' /\ n # offering' /\ \A i \in 1..Len(queue') : n < queue'[i]
        <4>1. \A u \in Stream : \A n \in Taken(u) : \A i \in 1..Len(queue') : n < queue'[i]
          BY <3>3 DEF TakenInOrder
        <4> QED
          BY <2>1, <3>4, <3>5, <3>6, <4>1 DEF TakenInOrder
      <3>10. \A n \in delivered[t] : n < h
        BY <3>7 DEF Taken
      <3>11. \A u \in Stream : slice'[u] # None => \A n \in delivered'[u] : n < slice'[u]
        BY <3>6, <3>10 DEF TakenInOrder
      <3>12. \A u, v \in Stream : u # v => Taken(u)' \cap Taken(v)' = {}
        BY <3>6, <3>8 DEF TakenInOrder
      <3> QED
        BY <3>9, <3>11, <3>12 DEF TakenInOrder
    <2>3. CASE ~PopsAndSends(t)
      <3>1. /\ \A u \in Stream : Taken(u)' = Taken(u)
            /\ \A u \in Stream : \/ slice'[u] = slice[u] /\ delivered'[u] = delivered[u]
                                 \/ slice'[u] = None
        BY <1>3, <2>3, TakenChange
      <3>2. \A u \in Stream : \A n \in Taken(u) : \A i \in 1..Len(queue') : n < queue'[i]
        <4>1. CASE queue' = queue \/ queue' = <<>>
          BY <4>1 DEF TakenInOrder
        <4>2. CASE queue # <<>> /\ queue' = Tail(queue)
          <5>1. \A i \in 1..Len(queue') : i + 1 \in 1..Len(queue) /\ queue'[i] = queue[i + 1]
            BY <4>2, HeadAndTail DEF TypeOK
          <5> QED
            BY <5>1 DEF TakenInOrder
        <4> QED
          BY <1>3, <4>1, <4>2, QueueChange
      <3> QED
        BY <2>1, <3>1, <3>2 DEF TakenInOrder
    <2> QED
      BY <2>2, <2>3
  <1>4. CASE UNCHANGED vars
    BY <1>4 DEF vars, thread, encoder, TakenInOrder, Taken
  <1> QED
    BY <1>1, <1>2, <1>3, <1>4, StepCases

(* A thread leaves the locals of the others alone.                        *)
LEMMA OthersUnchanged ==
  ASSUME TypeOK, NEW t \in Stream, StreamStep(t), NEW u \in Stream, u # t
  PROVE  /\ pc'[u] = pc[u] /\ sync'[u] = sync[u] /\ slice'[u] = slice[u]
         /\ offset'[u] = offset[u] /\ mSeq'[u] = mSeq[u] /\ packet'[u] = packet[u]
         /\ cleared'[u] = cleared[u] /\ delivered'[u] = delivered[u]
  <1> USE DEF TypeOK, thread, Goto
  <1>1. CASE Plays(t) \/ Stops(t) \/ ClearsSlices(t) \/ Started(t) \/ SeesInterrupt(t)
    BY <1>1 DEF Plays, Stops, ClearsSlices, Started, SeesInterrupt
  <1>2. CASE PopsAndSkips(t) \/ PopsAndSends(t) \/ AudioTooLong(t) \/ SendFails(t)
            \/ Stopped(t)
    BY <1>2 DEF PopsAndSkips, PopsAndSends, AudioTooLong, SendFails, Stopped
  <1>3. CASE SendsNAL(t) \/ SendsFragment(t) \/ SendsAudioMuxElement(t)
    BY <1>3 DEF SendsNAL, SendsFragment, SendsAudioMuxElement, Sends, SliceSent
  <1> QED
    BY <1>1, <1>2, <1>3 DEF StreamStep

(* The encoder leaves the threads alone.                                  *)
LEMMA EncoderOnly ==
  ASSUME PushChecks \/ PushOffers \/ UNCHANGED vars
  PROVE  UNCHANGED <<slices, pc, sync, slice, offset, mSeq, packets, packet, cleared,
                     delivered>>
  BY DEF PushChecks, PushOffers, vars, thread

(* A thread knows where it is in its slice.                               *)
LEMMA SendingStep ==
  ASSUME TypeOK, SendingInOrder, [Next]_vars
  PROVE  SendingInOrder'
  <1>1. CASE PushChecks \/ PushOffers \/ UNCHANGED vars
    BY <1>1, EncoderOnly DEF SendingInOrder, InSlice, Fits, NoData, FirstOffset, IsAudio
  <1>2. ASSUME NEW t \in Stream, StreamStep(t) PROVE SendingInOrder'
    <2>1. slices' = slices
      BY <1>2, QueueChange
    <2>2. \A u \in Stream : InSlice(u)
      BY DEF SendingInOrder
    <2>3. \A u \in Stream \ {t} : InSlice(u)'
      BY <1>2, <2>1, <2>2, OthersUnchanged DEF InSlice, Fits, NoData, FirstOffset, IsAudio
    <2>4. InSlice(t)'
      <3>1. CASE Plays(t) \/ Stops(t) \/ ClearsSlices(t) \/ Started(t)
        BY <2>1, <2>2, <3>1
        DEF Plays, Stops, ClearsSlices, Started, Goto, thread, TypeOK, InSlice, Fits,
            NoData, FirstOffset, IsAudio
      <3>2. CASE SeesInterrupt(t) \/ AudioTooLong(t) \/ SendFails(t) \/ Stopped(t)
        BY <2>1, <2>2, <3>2
        DEF SeesInterrupt, AudioTooLong, SendFails, Stopped, Goto, thread, TypeOK, InSlice
      <3>3. CASE PopsAndSkips(t)
        BY <2>1, <2>2, <3>3
        DEF PopsAndSkips, thread, InSlice, Fits, NoData, FirstOffset, IsAudio
      <3>4. CASE PopsAndSends(t)
        <4>1. pc[t] = "loop" /\ queue # <<>> /\ ~Skipped(t, Head(queue))
          BY <3>4 DEF PopsAndSends
        <4>2. Head(queue) \in Number /\ Head(queue) # None
          BY <4>1, HeadAndTail, Numbers DEF TypeOK
        <4>3. slices[Head(queue)].length \in Nat
          BY <4>2, Numbers DEF TypeOK
        <4>4. ~NoData(Head(queue)) /\ slices[Head(queue)].length >= FirstOffset(Head(queue))
          BY <4>1, <4>3 DEF Skipped, NoData, FirstOffset
        <4>5. /\ pc'[t] = "send" /\ slice'[t] = Head(queue)
              /\ offset'[t] = FirstOffset(Head(queue))
              /\ UNCHANGED <<packet, delivered>>
          BY <3>4 DEF PopsAndSends, Goto, TypeOK
        <4> QED
          BY <2>1, <2>2, <4>1, <4>2, <4>3, <4>4, <4>5
             DEF InSlice, NoData, FirstOffset, IsAudio
      <3>5. CASE SendsNAL(t) \/ SendsAudioMuxElement(t)
        <4>1. /\ pc'[t] = "loop" /\ slice'[t] = None /\ packet'[t].last
              /\ packet'[t].slice \in delivered'[t]
          BY <3>5, WholeSent, AudioSent
        <4> QED
          BY <4>1 DEF InSlice
      <3>6. CASE SendsFragment(t)
        <4>1. pc[t] = "send" /\ ~IsAudio(slice[t]) /\ ~Fits(slice[t])
          BY <3>6 DEF SendsFragment
        <4>2. /\ slice[t] \in Number /\ slices[slice[t]].length \in Nat
              /\ offset[t] \in Nat /\ 5 <= offset[t] /\ FirstOffset(slice[t]) = 5
              /\ FragmentEnd(t) \in Nat /\ offset[t] < FragmentEnd(t)
              /\ FragmentEnd(t) <= slices[slice[t]].length
          BY <4>1, Sending, Fragments
        <4>3. packet'[t] # None
          BY <3>6, FragmentSent
        <4>4. CASE FragmentEnd(t) = slices[slice[t]].length
          <5>1. /\ pc'[t] = "loop" /\ slice'[t] = None /\ packet'[t].last
                /\ packet'[t].slice \in delivered'[t]
            BY <3>6, <4>4, FragmentSent
          <5> QED
            BY <5>1 DEF InSlice
        <4>5. CASE FragmentEnd(t) # slices[slice[t]].length
          <5>1. /\ pc'[t] = "send" /\ slice'[t] = slice[t] /\ slice[t] # None
                /\ offset'[t] = FragmentEnd(t)
                /\ ~packet'[t].last /\ packet'[t].slice = slice[t]
                /\ packet'[t].to = FragmentEnd(t)
            BY <3>6, <4>1, <4>2, <4>5, FragmentSent, Numbers
          <5>2. FragmentEnd(t) < slices[slice[t]].length /\ FragmentEnd(t) > 5
            BY <4>2, <4>5
          <5>3. ~NoData(slice[t])
            BY <2>2, <4>1 DEF InSlice
          <5>4. /\ ~NoData(slice[t])' /\ ~IsAudio(slice[t])' /\ ~Fits(slice[t])'
                /\ FirstOffset(slice[t])' = 5
            BY <2>1, <4>1, <4>2, <5>1, <5>3 DEF Fits, NoData, FirstOffset, IsAudio
          <5> QED
            BY <2>1, <4>2, <4>3, <5>1, <5>2, <5>4 DEF InSlice
        <4> QED
          BY <4>4, <4>5
      <3> QED
        BY <1>2, <3>1, <3>2, <3>3, <3>4, <3>5, <3>6 DEF StreamStep
    <2> QED
      BY <2>3, <2>4 DEF SendingInOrder
  <1> QED
    BY <1>1, <1>2, StepCases

(* The number of a packet is the one before mSeq.                         *)
LEMMA SequenceStep ==
  ASSUME TypeOK, SendingInOrder, SequenceInOrder, [Next]_vars
  PROVE  SequenceInOrder'
  <1>1. CASE PushChecks \/ PushOffers \/ UNCHANGED vars
    BY <1>1, EncoderOnly DEF SequenceInOrder
  <1>2. ASSUME NEW t \in Stream, StreamStep(t) PROVE SequenceInOrder'
    <2>1. CASE SendsNAL(t) \/ SendsFragment(t) \/ SendsAudioMuxElement(t)
      <3>1. mSeq[t] \in Nat /\ mSeq'[t] = mSeq[t] + 1
        BY <2>1, WholeSent, AudioSent, FragmentSent DEF TypeOK
      <3>2. packet'[t].seq = mSeq[t] % SeqModulus
        BY <2>1, WholeSent, AudioSent, FragmentSent
      <3>3. packet'[t] # None
        BY <2>1, WholeSent, AudioSent, FragmentSent
      <3> QED
        BY <1>2, <3>1, <3>2, <3>3, OthersUnchanged DEF SequenceInOrder
    <2>2. CASE UNCHANGED <<mSeq, packet>>
      BY <2>2 DEF SequenceInOrder
    <2> QED
      BY <1>2, <2>1, <2>2 DEF StreamStep, Plays, Stops, ClearsSlices, Started,
         SeesInterrupt, PopsAndSkips, PopsAndSends, AudioTooLong, SendFails, Stopped, thread
  <1> QED
    BY <1>1, <1>2, StepCases

(* A stream begins with an IDR.                                           *)
LEMMA StartStep ==
  ASSUME TypeOK, SendingInOrder, StartsWithIDR, [Next]_vars
  PROVE  StartsWithIDR'
  <1>1. CASE PushChecks \/ PushOffers \/ UNCHANGED vars
    BY <1>1, EncoderOnly DEF StartsWithIDR
  <1>2. ASSUME NEW t \in Stream, StreamStep(t) PROVE StartsWithIDR'
    <2>1. slices' = slices
      BY <1>2, QueueChange
    <2>2. CASE SendsNAL(t) \/ SendsFragment(t) \/ SendsAudioMuxElement(t)
      <3>1. slice[t] \in Number /\ slice[t] # None
        BY <2>2, WholeSent, AudioSent, FragmentSent, Numbers
      <3>2. sync[t] /\ sync' = sync
        BY <2>2, <3>1 DEF StartsWithIDR, SendsNAL, SendsFragment, SendsAudioMuxElement
      <3>3. \/ pc'[t] = "loop" /\ delivered'[t] # {}
            \/ UNCHANGED <<pc, slice, delivered>>
        <4>1. \/ pc'[t] = "loop" /\ delivered'[t] = delivered[t] \cup {slice[t]}
              \/ UNCHANGED <<pc, slice, delivered>>
          BY <2>2, WholeSent, AudioSent, FragmentSent
        <4> QED
          BY <4>1
      <3> QED
        BY <1>2, <2>1, <3>2, <3>3, OthersUnchanged DEF StartsWithIDR
    <2>3. CASE PopsAndSends(t)
      <3>1. /\ ~Skipped(t, Head(queue)) /\ pc[t] = "loop" /\ pc'[t] = "send"
            /\ slice'[t] = Head(queue) /\ sync'[t] /\ delivered'[t] = delivered[t]
        BY <2>3 DEF PopsAndSends, TypeOK, Goto
      <3>2. delivered[t] = {} => slices[Head(queue)].idr
        BY <3>1 DEF Skipped, StartsWithIDR
      <3> QED
        BY <1>2, <2>1, <3>1, <3>2, OthersUnchanged DEF StartsWithIDR
    <2>4. CASE Started(t) \/ Plays(t) \/ Stops(t) \/ ClearsSlices(t) \/ SeesInterrupt(t)
               \/ PopsAndSkips(t) \/ AudioTooLong(t) \/ SendFails(t) \/ Stopped(t)
      <3>1. UNCHANGED <<slices, sync, slice, delivered>>
        BY <2>4 DEF Started, Plays, Stops, ClearsSlices, SeesInterrupt, PopsAndSkips,
                    AudioTooLong, SendFails, Stopped, thread
      <3>2. \/ pc'[t] = pc[t]
            \/ pc'[t] \in {"started", "flagged", "loop"} /\ pc[t] \in {"unused", "started", "flagged"}
            \/ pc'[t] \in {"stopping", "ended"}
        BY <2>4 DEF Started, Plays, Stops, ClearsSlices, SeesInterrupt, PopsAndSkips,
                    AudioTooLong, SendFails, Stopped, Goto, TypeOK
      <3> QED
        BY <1>2, <3>1, <3>2, OthersUnchanged DEF StartsWithIDR
    <2> QED
      BY <1>2, <2>2, <2>3, <2>4 DEF StreamStep
  <1> QED
    BY <1>1, <1>2, StepCases

(* One slice at most is older than the stream that may send it.           *)
LEMMA StaleStep ==
  ASSUME TypeOK, QueueInOrder, SendingInOrder, OneIsStale, [Next]_vars
  PROVE  OneIsStale'
  <1> DEFINE Near(u) == Taken(u) \cup Queued \cup ({offering} \ {None})
             NotYet(u) == pc[u] \in {"unused", "started"}
             Clean(u) == slice[u] = None /\ delivered[u] = {}
             One(u) == /\ cleared[u] <= pushed
                       /\ \A m, n \in Near(u) : m <= cleared[u] /\ n <= cleared[u] => m = n
  <1>0. \A u \in Stream : IF NotYet(u) THEN Clean(u) ELSE One(u)
    BY DEF OneIsStale
  <1>1. SUFFICES \A u \in Stream : IF NotYet(u)' THEN Clean(u)' ELSE One(u)'
    BY DEF OneIsStale
  <1>2. pushed \in Nat /\ \A u \in Stream : cleared[u] \in Nat
    BY StreamAssumption DEF TypeOK
  <1>3. CASE PushChecks
    <2>1. /\ UNCHANGED <<queue, slice, delivered, pc, cleared>>
          /\ pushed' = pushed + 1 /\ offering = None /\ offering' \in {pushed + 1, None}
      BY <1>3 DEF PushChecks, thread
    <2>2. \A u \in Stream : Near(u)' \subseteq Near(u) \cup {pushed + 1}
      BY <2>1 DEF Taken, Queued
    <2>3. \A u \in Stream : One(u) => One(u)'
      BY <1>2, <2>1, <2>2
    <2> HIDE DEF One
    <2> QED
      BY <1>0, <2>1, <2>3
  <1>4. CASE PushOffers
    <2>1. /\ UNCHANGED <<slice, delivered, pc, cleared, pushed>>
          /\ queue' = Offered /\ offering \in Number /\ offering' = None
      BY <1>4 DEF PushOffers, thread, TypeOK
    <2>2. Queued' \subseteq Queued \cup {offering}
      <3>1. \A i \in 1..Len(queue') :
               (i \in 1..Len(queue) /\ queue'[i] = queue[i]) \/ queue'[i] = offering
        BY <2>1, OfferedSlices DEF TypeOK
      <3> QED
        BY <3>1 DEF Queued
    <2>3. offering # None
      BY <2>1, Numbers
    <2>4. \A u \in Stream : Near(u)' \subseteq Near(u)
      BY <2>1, <2>2, <2>3 DEF Taken
    <2>5. \A u \in Stream : One(u) => One(u)'
      BY <2>1, <2>4
    <2> HIDE DEF One
    <2> QED
      BY <1>0, <2>1, <2>5
  <1>5. ASSUME NEW t \in Stream, StreamStep(t)
        PROVE  \A u \in Stream : IF NotYet(u)' THEN Clean(u)' ELSE One(u)'
    <2>1. UNCHANGED <<pushed, offering>>
      BY <1>5, QueueChange
    <2>2. Queued' \subseteq Queued
      <3>1. CASE queue' = queue \/ queue' = <<>>
        BY <3>1 DEF Queued
      <3>2. CASE queue # <<>> /\ queue' = Tail(queue)
        <4>1. \A i \in 1..Len(queue') : i + 1 \in 1..Len(queue) /\ queue'[i] = queue[i + 1]
          BY <3>2, HeadAndTail DEF TypeOK
        <4> QED
          BY <4>1 DEF Queued
      <3> QED
        BY <1>5, <3>1, <3>2, QueueChange
    <2>3. PopsAndSends(t) => Head(queue) \in Queued
      BY HeadAndTail DEF PopsAndSends, Queued, TypeOK
    <2>4. \A u \in Stream : Near(u)' \subseteq Near(u)
      <3>1. \A u \in Stream : Taken(u)' \subseteq Taken(u) \cup Queued
        BY <1>5, <2>3, TakenChange
      <3> QED
        BY <2>1, <2>2, <3>1
    <2>5. ASSUME NEW u \in Stream \ {t} PROVE IF NotYet(u)' THEN Clean(u)' ELSE One(u)'
      <3>1. pc'[u] = pc[u] /\ slice'[u] = slice[u] /\ delivered'[u] = delivered[u]
            /\ cleared'[u] = cleared[u]
        BY <1>5, OthersUnchanged
      <3>2. One(u) => One(u)'
        BY <2>1, <2>4, <3>1
      <3> HIDE DEF One
      <3> QED
        BY <1>0, <3>1, <3>2
    <2>6. CASE ClearsSlices(t)
      <3>1. /\ Clean(t) /\ cleared'[t] = pushed /\ queue' = <<>> /\ pc'[t] = "flagged"
            /\ UNCHANGED <<slice, delivered>>
        BY <1>0, <2>6 DEF ClearsSlices, ClearedSlices, Goto, thread, TypeOK
      <3>2. Near(t)' \subseteq {offering}
        BY <2>1, <3>1 DEF Taken, Queued
      <3>3. One(t)'
        BY <1>2, <2>1, <3>1, <3>2
      <3> QED
        BY <2>5, <3>1, <3>3
    <2>7. CASE Plays(t)
      <3>1. NotYet(t) /\ NotYet(t)' /\ UNCHANGED <<slice, delivered>>
        BY <2>7 DEF Plays, Goto, thread, TypeOK
      <3> QED
        BY <1>0, <2>5, <3>1
    <2>8. CASE ~ClearsSlices(t) /\ ~Plays(t)
      <3>1. cleared'[t] = cleared[t]
        BY <1>5, <2>8, QueueChange
      <3>2. \/ NotYet(t) /\ NotYet(t)' /\ UNCHANGED <<slice, delivered>>
            \/ ~NotYet(t) /\ ~NotYet(t)'
        BY <1>5, <2>8 DEF StreamStep, Stops, Started, SeesInterrupt, PopsAndSkips,
           PopsAndSends, SendsNAL, SendsFragment, SendsAudioMuxElement, AudioTooLong,
           SendFails, Stopped, SliceSent, Goto,
           thread, TypeOK
      <3>3. One(t) => One(t)'
        BY <2>1, <2>4, <3>1
      <3> HIDE DEF One
      <3> QED
        BY <1>0, <2>5, <3>2, <3>3
    <2> QED
      BY <2>6, <2>7, <2>8
  <1>6. CASE UNCHANGED vars
    BY <1>0, <1>6 DEF vars, thread, encoder, Taken, Queued
  <1> QED
    BY <1>3, <1>4, <1>5, <1>6, StepCases

(* Every packet that is sent is well formed.                              *)
LEMMA PacketsStep ==
  ASSUME TypeOK, SendingInOrder, PacketsWellFormed, [Next]_vars
  PROVE  PacketsWellFormed'
  <1>1. CASE PushChecks \/ PushOffers \/ UNCHANGED vars
    BY <1>1, EncoderOnly DEF PacketsWellFormed, WellFormed, IsAudio
  <1>2. ASSUME NEW t \in Stream, StreamStep(t) PROVE PacketsWellFormed'
    <2>1. slices' = slices
      BY <1>2, QueueChange
    <2>2. SUFFICES packet'[t] # packet[t] => WellFormed(packet[t])'
      BY <1>2, <2>1, OthersUnchanged DEF PacketsWellFormed, WellFormed, IsAudio
    <2>3. CASE SendsNAL(t)
      <3>1. /\ ~IsAudio(slice[t]) /\ Fits(slice[t])
            /\ slices[slice[t]].length \in Nat /\ 5 <= slices[slice[t]].length
        BY <2>3, Sending DEF SendsNAL
      <3>2. /\ packet'[t].slice = slice[t] /\ packet'[t].first /\ packet'[t].last
            /\ packet'[t].from = 4 /\ packet'[t].to = slices[slice[t]].length
            /\ packet'[t].length = slices[slice[t]].length + 8
        BY <2>3, WholeSent
      <3> QED
        BY <2>1, <3>1, <3>2, StreamAssumption DEF WellFormed, Fits, IsAudio
    <2>4. CASE SendsFragment(t)
      <3>1. /\ ~IsAudio(slice[t])
            /\ slices[slice[t]].length \in Nat /\ offset[t] \in Nat /\ 5 <= offset[t]
            /\ FragmentEnd(t) \in Nat /\ offset[t] < FragmentEnd(t)
            /\ FragmentEnd(t) <= slices[slice[t]].length
            /\ FragmentEnd(t) - offset[t] + 14 <= PacketSize
            /\ offset[t] = 5 => FragmentEnd(t) < slices[slice[t]].length
        BY <2>4, Sending, Fragments DEF SendsFragment
      <3>2. /\ packet'[t].slice = slice[t]
            /\ packet'[t].from = offset[t] /\ packet'[t].to = FragmentEnd(t)
            /\ packet'[t].first <=> offset[t] = 5
            /\ packet'[t].last <=> FragmentEnd(t) = slices[slice[t]].length
            /\ packet'[t].length = FragmentEnd(t) - offset[t] + 14
        BY <2>4, FragmentSent
      <3> QED
        BY <2>1, <3>1, <3>2, StreamAssumption DEF WellFormed, IsAudio
    <2>5. CASE SendsAudioMuxElement(t)
      <3>1. /\ pc[t] = "send" /\ IsAudio(slice[t]) /\ AudioCopied(slice[t])
            /\ slices[slice[t]].length \in Nat
        BY <2>5, Sending DEF SendsAudioMuxElement
      <3>2. /\ packet'[t].slice = slice[t] /\ packet'[t].first /\ packet'[t].last
            /\ packet'[t].from = 0 /\ packet'[t].to = slices[slice[t]].length
            /\ packet'[t].length = slices[slice[t]].length + 16
            /\ packet'[t].size = AuSize(slice[t])
        BY <2>5, AudioSent
      <3>3. 1 <= slices[slice[t]].length
        BY <3>1, Sending
      <3>4. AuSize(slice[t]) = slices[slice[t]].length
        BY <3>1, StreamAssumption DEF AuSize, AudioCopied
      <3> QED
        BY <2>1, <3>1, <3>2, <3>3, <3>4, StreamAssumption
        DEF WellFormed, AudioCopied, IsAudio
    <2>6. CASE packet' = packet
      BY <2>6
    <2> QED
      BY <1>2, <2>3, <2>4, <2>5, <2>6 DEF StreamStep, Plays, Stops, ClearsSlices, Started,
         SeesInterrupt, PopsAndSkips, PopsAndSends, AudioTooLong, SendFails, Stopped, thread
  <1> QED
    BY <1>1, <1>2, StepCases

(* What a stream has taken is part of what may be older than it.          *)
LEMMA StaleBound == OneIsStale => AtMostOneStaleSlice
  <1> SUFFICES ASSUME OneIsStale, NEW t \in Stream, NEW m \in Stale(t), NEW n \in Stale(t)
               PROVE  m = n
    BY DEF AtMostOneStaleSlice
  <1>1. m \in Taken(t) /\ n \in Taken(t) /\ m <= cleared[t] /\ n <= cleared[t]
    BY DEF Stale, Taken
  <1>2. CASE pc[t] \in {"unused", "started"}
    BY <1>1, <1>2 DEF OneIsStale, Taken
  <1>3. CASE pc[t] \notin {"unused", "started"}
    BY <1>1, <1>3 DEF OneIsStale
  <1> QED
    BY <1>2, <1>3

(* The invariant is inductive.                                            *)
LEMMA NextInv == IInv /\ [Next]_vars => IInv'
  <1> SUFFICES ASSUME IInv, [Next]_vars PROVE IInv'
    OBVIOUS
  <1> USE DEF IInv
  <1>1. TypeOK' /\ QueueInOrder'
    BY TypeStep, QueueStep
  <1>2. TakenInOrder' /\ SendingInOrder'
    BY TakenStep, SendingStep
  <1>3. SequenceInOrder' /\ StartsWithIDR'
    BY SequenceStep, StartStep
  <1>4. OneIsStale' /\ PacketsWellFormed'
    BY StaleStep, PacketsStep
  <1>5. AtMostOneStaleSlice'
    BY <1>4, StaleBound, PTL
  <1> QED
    BY <1>1, <1>2, <1>3, <1>4, <1>5

(* Queue, threads and packets are always in order: a thread that is still *)
(* sending when the next stream begins takes nothing from it.             *)
THEOREM Invariance == Spec => []IInv
  BY InitInv, NextInv, PTL DEF Spec

(* Every packet of every stream can be understood by itself and fits in   *)
(* the array rtp, whatever RTP_PACKET_SIZE and the lengths of the slices. *)
THEOREM PacketForm == Spec => []PacketsWellFormed
  <1>1. IInv => PacketsWellFormed
    BY DEF IInv
  <1> QED
    BY <1>1, Invariance, PTL

(* clearSlices() spares one slice at most.                                *)
THEOREM Freshness == Spec => []AtMostOneStaleSlice
  <1>1. IInv => AtMostOneStaleSlice
    BY DEF IInv
  <1> QED
    BY <1>1, Invariance, PTL

(* A packet that is sent goes on where the one before it ended.           *)
LEMMA PacketFollows ==
  ASSUME IInv, NEW t \in Stream,
         SendsNAL(t) \/ SendsFragment(t) \/ SendsAudioMuxElement(t)
  PROVE  IF packet[t] = None THEN packet'[t].seq = FirstSeq /\ packet'[t].first
                             ELSE Follows(packet[t], packet'[t])
  <1> USE DEF IInv
  <1>1. /\ pc[t] = "send" /\ slice[t] \in Number /\ slice[t] # None
        /\ packet'[t].slice = slice[t] /\ packet'[t].seq = mSeq[t] % SeqModulus
        /\ mSeq[t] \in Nat
    BY WholeSent, AudioSent, FragmentSent, Numbers DEF TypeOK
  <1>2. /\ packet'[t].first <=> offset[t] = FirstOffset(slice[t])
        /\ offset[t] # FirstOffset(slice[t]) => packet'[t].from = offset[t]
    BY WholeSent, AudioSent, FragmentSent
  <1>3. offset[t] \in Nat /\ FirstOffset(slice[t]) <= offset[t] /\ FirstOffset(slice[t]) \in Nat
    BY <1>1, Sending DEF FirstOffset
  <1>4. InSlice(t)
    BY DEF SendingInOrder
  <1>5. CASE packet[t] = None
    <2>1. mSeq[t] = FirstSeq
      BY <1>5 DEF SequenceInOrder
    <2>2. FirstSeq % SeqModulus = FirstSeq
      BY StreamAssumption
    <2>3. offset[t] = FirstOffset(slice[t])
      BY <1>1, <1>3, <1>4, <1>5 DEF InSlice
    <2> QED
      BY <1>1, <1>2, <1>5, <2>1, <2>2, <2>3
  <1>6. CASE packet[t] # None
    <2>1. packet'[t].seq = (packet[t].seq + 1) % SeqModulus
      <3>1. mSeq[t] > 0 /\ packet[t].seq = (mSeq[t] - 1) % SeqModulus
        BY <1>6 DEF SequenceInOrder
      <3> QED
        BY <1>1, <3>1, SuccessorWraps
    <2>2. CASE offset[t] = FirstOffset(slice[t])
      <3>1. packet[t].last /\ packet[t].slice \in delivered[t]
        BY <1>1, <1>4, <1>6, <2>2 DEF InSlice
      <3>2. packet[t].slice < slice[t]
        BY <1>1, <3>1 DEF TakenInOrder
      <3> QED
        BY <1>1, <1>2, <1>6, <2>1, <2>2, <3>1, <3>2 DEF Follows
    <2>3. CASE offset[t] # FirstOffset(slice[t])
      <3>1. /\ ~packet[t].last /\ packet[t].slice = slice[t] /\ packet[t].to = offset[t]
        BY <1>1, <1>3, <1>4, <2>3 DEF InSlice
      <3> QED
        BY <1>1, <1>2, <1>6, <2>1, <2>3, <3>1 DEF Follows
    <2> QED
      BY <2>2, <2>3
  <1> QED
    BY <1>5, <1>6

(* The packets of a stream put its slices together again.                 *)
THEOREM Reassembly == Spec => PacketsReassemble
  <1> DEFINE Reassembles ==
        \A t \in Stream : packet'[t] # packet[t] =>
           IF packet[t] = None THEN packet'[t].seq = FirstSeq /\ packet'[t].first
                               ELSE Follows(packet[t], packet'[t])
  <1>1. IInv /\ [Next]_vars => [Reassembles]_vars
    <2> SUFFICES ASSUME IInv, [Next]_vars PROVE Reassembles
      OBVIOUS
    <2>1. CASE PushChecks \/ PushOffers \/ UNCHANGED vars
      BY <2>1, EncoderOnly
    <2>2. ASSUME NEW t \in Stream, StreamStep(t) PROVE Reassembles
      <3>1. \A u \in Stream \ {t} : packet'[u] = packet[u]
        BY <2>2, OthersUnchanged DEF IInv
      <3>2. CASE SendsNAL(t) \/ SendsFragment(t) \/ SendsAudioMuxElement(t)
        BY <3>1, <3>2, PacketFollows
      <3>3. CASE packet' = packet
        BY <3>3
      <3> QED
        BY <2>2, <3>2, <3>3 DEF StreamStep, Plays, Stops, ClearsSlices, Started,
           SeesInterrupt, PopsAndSkips, PopsAndSends, AudioTooLong, SendFails, Stopped,
           thread
    <2> QED
      BY <2>1, <2>2, StepCases
  <1> QED
    BY <1>1, Invariance, PTL DEF Spec, PacketsReassemble

(* A slice that was sent completely is delivered: the last one its thread *)
(* took, which no other thread can have sent.                             *)
LEMMA SliceDelivered ==
  ASSUME IInv, NEW t \in Stream, pc[t] = "send", slice[t] \in Number,
         delivered' = [delivered EXCEPT ![t] = @ \cup {slice[t]}],
         UNCHANGED <<slices, pushed>>
  PROVE  Client!Deliver(t)
  <1> USE DEF IInv
  <1>1. slice[t] # None /\ slice[t] \in Taken(t)
    BY Numbers DEF Taken
  <1>2. slice[t] \in 1..pushed
    BY <1>1, StreamAssumption DEF TakenInOrder, Number, TypeOK
  <1>3. \A m \in delivered[t] : m < slice[t]
    BY <1>1 DEF TakenInOrder
  <1>4. \A u \in Stream : slice[t] \notin delivered[u]
    <2>1. slice[t] \notin delivered[t]
      BY <1>3 DEF Number
    <2>2. \A u \in Stream \ {t} : slice[t] \notin delivered[u]
      BY <1>1 DEF TakenInOrder, Taken
    <2> QED
      BY <2>1, <2>2
  <1>5. delivered[t] = {} => slices[slice[t]].idr
    BY DEF StartsWithIDR
  <1> QED
    BY <1>2, <1>3, <1>4, <1>5 DEF Client!Deliver, Client!Stream, Stream

(* doSend implements SliceStream, where a slice is sent in one piece.     *)
THEOREM Refinement == Spec => ImplementsSliceStream
  <1>1. Init => Client!Init
    BY DEF Init, Client!Init, Client!Stream, Stream, Number
  <1>2. IInv /\ [Next]_vars => [Client!Next]_(Client!vars)
    <2> SUFFICES ASSUME IInv, [Next]_vars
                 PROVE  Client!Next \/ UNCHANGED Client!vars
      OBVIOUS
    <2>1. CASE PushChecks
      BY <2>1 DEF PushChecks, thread, Client!Next, Client!Push
    <2>2. CASE PushOffers \/ UNCHANGED vars
      BY <2>2 DEF PushOffers, vars, thread, encoder, Client!vars
    <2>3. ASSUME NEW t \in Stream, StreamStep(t)
          PROVE  Client!Next \/ UNCHANGED Client!vars
      <3>1. UNCHANGED <<slices, pushed>>
        BY <2>3, QueueChange DEF IInv
      <3>2. CASE SliceSent(t) /\ (SendsNAL(t) \/ SendsFragment(t) \/ SendsAudioMuxElement(t))
        <4>1. /\ pc[t] = "send" /\ slice[t] \in Number
              /\ delivered' = [delivered EXCEPT ![t] = @ \cup {slice[t]}]
          BY <3>2, Sending
          DEF SliceSent, SendsNAL, SendsFragment, SendsAudioMuxElement, IInv
        <4>2. Client!Deliver(t)
          BY <3>1, <4>1, SliceDelivered
        <4> QED
          BY <4>2 DEF Client!Next, Client!Stream, Stream
      <3>3. CASE delivered' = delivered
        BY <3>1, <3>3 DEF Client!vars
      <3> QED
        BY <2>3, <3>2, <3>3 DEF StreamStep, Plays, Stops, ClearsSlices, Started,
           SeesInterrupt, PopsAndSkips, PopsAndSends, SendsNAL, SendsFragment,
           SendsAudioMuxElement, AudioTooLong, SendFails,
           Stopped, thread
    <2> QED
      BY <2>1, <2>2, <2>3, StepCases
  <1> QED
    BY <1>1, <1>2, Invariance, PTL DEF Spec, ImplementsSliceStream, Client!Spec
====
