---- MODULE MediaStream ----
(***************************************************************************)
(* One track of one connection, packet by packet: the encoder's thread in  *)
(* StreamConnection.push, the track's queue, and the doSend of its         *)
(* packetizer, RTPVideoPacketizer with sendNAL and sendFragmentedNAL, or   *)
(* RTPAudioPacketizer with sendAudioMuxElement.                            *)
(*                                                                         *)
(* The client may play, tear down and play again. stopRTP waits            *)
(* CLOSE_TIMEOUT for the streaming thread and then goes on without it, so  *)
(* the thread of one stream may still be sending when the next one runs:   *)
(* both share the queue and the flag.                                      *)
(*                                                                         *)
(* A slice of H.264 is its length, with the four bytes of the start code,  *)
(* and whether its NAL type is 5. One of AAC is an access unit, which      *)
(* stands by itself as an IDR does. Offsets are offsets into its array.    *)
(***************************************************************************)
EXTENDS Naturals, Sequences

CONSTANTS
    Slice,          \* what the encoders may push: records with codec, length, idr
    Pushes,         \* bound: how many slices it pushes
    Streams,        \* bound: how many times the client plays the track
    Capacity,       \* QUEUE_CAPACITY
    PacketSize,     \* RTP_PACKET_SIZE, the length of the array rtp
    SizeModulus,    \* 2^13: the AU header has 13 bits of data.length
    SeqModulus,     \* 2^16: the header has two bytes of mSeq
    FirstSeq,       \* those of mRTPSeq
    None

Stream == 1..Streams
Number == 1..Pushes

Packet == [slice : Number, seq : 0..SeqModulus - 1, from : Nat, to : Nat,
           first : BOOLEAN, last : BOOLEAN, length : Nat, size : Nat]

ASSUME StreamAssumption ==
    /\ Slice \subseteq [codec : {"h264", "aac"}, length : Nat, idr : BOOLEAN]
    /\ \A s \in Slice : s.codec = "aac" => s.idr
    /\ Pushes \in Nat /\ Streams \in Nat
    /\ Capacity \in Nat \ {0}
    /\ PacketSize \in Nat /\ PacketSize > 14
    /\ SizeModulus \in Nat \ {0} /\ PacketSize < SizeModulus + 16
    /\ SeqModulus \in Nat \ {0}
    /\ FirstSeq \in 0..SeqModulus - 1
    /\ None \notin Number \cup Packet

VARIABLES
    slices,         \* the slices the encoder pushes, in order
    pushed,         \* how many calls of push it has begun
    offering,       \* the slice whose offer() is pending, else None
    queue,          \* mSliceQueue or mAudioQueue
    streaming,      \* mStreamingH264 or mStreamingAAC
    pc,             \* where each streaming thread is
    interrupted,    \* whether stopRTP has interrupted it
    sync,           \* its local sync; for AAC whether it has sent anything
    slice,          \* the slice it is sending
    offset,         \* the offset of the bytes it sends next
    mSeq,           \* its packetizer's mSeq
    packets,        \* its local packets, which the RTCP reports announce
    packet,         \* the packet it has sent last
    cleared,        \* how many slices were pushed when it cleared the queue
    delivered       \* the slices it has sent completely

encoder == <<pushed, offering>>
thread == <<sync, slice, offset, mSeq, packets, packet, delivered>>
vars == <<slices, encoder, queue, streaming, pc, interrupted, thread, cleared>>

TypeOK ==
    /\ slices \in [Number -> Slice]
    /\ pushed \in 0..Pushes
    /\ offering \in Number \cup {None}
    /\ queue \in Seq(Number)
    /\ streaming \in BOOLEAN
    /\ pc \in [Stream -> {"unused", "started", "flagged", "loop", "send", "stopping",
                          "ended"}]
    /\ interrupted \in [Stream -> BOOLEAN]
    /\ sync \in [Stream -> BOOLEAN]
    /\ slice \in [Stream -> Number \cup {None}]
    /\ offset \in [Stream -> Nat]
    /\ mSeq \in [Stream -> Nat]
    /\ packets \in [Stream -> Nat]
    /\ packet \in [Stream -> Packet \cup {None}]
    /\ cleared \in [Stream -> 0..Pushes]
    /\ delivered \in [Stream -> SUBSET Number]

(* A track has one codec.                                                 *)
Init ==
    /\ \E codec \in {"h264", "aac"} : slices \in [Number -> {s \in Slice : s.codec = codec}]
    /\ pushed = 0
    /\ offering = None
    /\ queue = <<>>
    /\ streaming = FALSE
    /\ pc = [t \in Stream |-> "unused"]
    /\ interrupted = [t \in Stream |-> FALSE]
    /\ sync = [t \in Stream |-> FALSE]
    /\ slice = [t \in Stream |-> None]
    /\ offset = [t \in Stream |-> 0]
    /\ mSeq = [t \in Stream |-> FirstSeq]
    /\ packets = [t \in Stream |-> 0]
    /\ packet = [t \in Stream |-> None]
    /\ cleared = [t \in Stream |-> 0]
    /\ delivered = [t \in Stream |-> {}]

Goto(t, label) == pc' = [pc EXCEPT ![t] = label]

----------------------------------------------------------------------------
(* push(): the flag is read first, the queue is filled afterwards         *)

PushChecks ==
    /\ offering = None /\ pushed < Pushes
    /\ pushed' = pushed + 1
    /\ offering' = IF streaming THEN pushed + 1 ELSE None
    /\ UNCHANGED <<slices, queue, streaming, pc, interrupted, thread, cleared>>

(* QUEUE_WRITE_TIMEOUT: a queue that stays full loses the slice.          *)
Offered == IF Len(queue) < Capacity THEN Append(queue, offering) ELSE queue

PushOffers ==
    /\ offering # None
    /\ queue' = Offered
    /\ offering' = None
    /\ UNCHANGED <<slices, pushed, streaming, pc, interrupted, thread, cleared>>

----------------------------------------------------------------------------
(* playRTP and stopRTP, as the handler calls them                         *)

(* A new packetizer is built only after the one before was stopped.       *)
Plays(t) ==
    /\ pc[t] = "unused"
    /\ t > 1 => interrupted[t - 1]
    /\ Goto(t, "started")
    /\ UNCHANGED <<slices, encoder, queue, streaming, interrupted, thread, cleared>>

Stops(t) ==
    /\ pc[t] # "unused" /\ ~interrupted[t]
    /\ interrupted' = [interrupted EXCEPT ![t] = TRUE]
    /\ UNCHANGED <<slices, encoder, queue, streaming, pc, thread, cleared>>

----------------------------------------------------------------------------
(* doSend()                                                               *)

SlicesKept == queue
ClearedSlices == <<>>

ClearsSlices(t) ==
    /\ pc[t] = "started"
    /\ queue' = ClearedSlices
    /\ cleared' = [cleared EXCEPT ![t] = pushed]
    /\ Goto(t, "flagged")
    /\ UNCHANGED <<slices, encoder, streaming, interrupted, thread>>

Started(t) ==
    /\ pc[t] = "flagged"
    /\ streaming' = TRUE
    /\ Goto(t, "loop")
    /\ UNCHANGED <<slices, encoder, queue, interrupted, thread, cleared>>

(* At the head of the loop, or out of popSlice: an InterruptedException.  *)
SeesInterrupt(t) ==
    /\ pc[t] = "loop" /\ interrupted[t]
    /\ Goto(t, "stopping")
    /\ UNCHANGED <<slices, encoder, queue, streaming, interrupted, thread, cleared>>

(* What begins at FirstOffset is cut into fragments: the NAL without its  *)
(* start code and header. An access unit is not cut.                      *)
IsAudio(n) == slices[n].codec = "aac"
FirstOffset(n) == IF IsAudio(n) THEN 0 ELSE 5

(* Audio without data is skipped, a slice without a NAL type, and every   *)
(* slice before an IDR.                                                   *)
NoData(n) == slices[n].length < (IF IsAudio(n) THEN 1 ELSE 5)
SkipsNothing(t, n) == NoData(n)
Skipped(t, n) == NoData(n) \/ (~sync[t] /\ ~slices[n].idr)

PopsAndSkips(t) ==
    /\ pc[t] = "loop" /\ ~interrupted[t] /\ queue # <<>>
    /\ Skipped(t, Head(queue))
    /\ queue' = Tail(queue)
    /\ UNCHANGED <<slices, encoder, streaming, pc, interrupted, thread, cleared>>

PopsAndSends(t) ==
    /\ pc[t] = "loop" /\ ~interrupted[t] /\ queue # <<>>
    /\ ~Skipped(t, Head(queue))
    /\ queue' = Tail(queue)
    /\ sync' = [sync EXCEPT ![t] = TRUE]
    /\ slice' = [slice EXCEPT ![t] = Head(queue)]
    /\ offset' = [offset EXCEPT ![t] = FirstOffset(Head(queue))]
    /\ Goto(t, "send")
    /\ UNCHANGED <<slices, encoder, streaming, interrupted, mSeq, packets, packet,
                   cleared, delivered>>

SliceSent(t) ==
    /\ packets' = [packets EXCEPT ![t] = @ + 1]
    /\ delivered' = [delivered EXCEPT ![t] = @ \cup {slice[t]}]
    /\ slice' = [slice EXCEPT ![t] = None]
    /\ Goto(t, "loop")

FitsPayload(n) == slices[n].length - 4 <= PacketSize
Fits(n) == slices[n].length + 8 <= PacketSize

(* The packet that is sent has the low bytes of mSeq; mSeq goes on.       *)
NextSeqOfSlice(t) == mSeq[t] + (IF Fits(slice[t]) THEN 1 ELSE 0)
NextSeq(t) == mSeq[t] + 1

Sends(t, from, to, first, last, length, size) ==
    /\ packet' = [packet EXCEPT ![t] =
           [slice |-> slice[t], seq |-> mSeq[t] % SeqModulus, from |-> from, to |-> to,
            first |-> first, last |-> last, length |-> length, size |-> size]]
    /\ mSeq' = [mSeq EXCEPT ![t] = NextSeq(t)]

(* A single NAL unit packet: the whole slice but its start code.          *)
SendsNAL(t) ==
    /\ pc[t] = "send" /\ ~IsAudio(slice[t]) /\ Fits(slice[t])
    /\ LET length == slices[slice[t]].length
       IN  Sends(t, 4, length, TRUE, TRUE, length + 8, 0)
    /\ SliceSent(t)
    /\ UNCHANGED <<slices, encoder, queue, streaming, interrupted, sync, offset, cleared>>

(* The end of the fragment that begins at offset.                         *)
FragmentEndLate(t) ==
    IF slices[slice[t]].length - offset[t] <= PacketSize - 13
    THEN slices[slice[t]].length ELSE offset[t] + (PacketSize - 14)
FragmentEnd(t) ==
    IF slices[slice[t]].length - offset[t] <= PacketSize - 14
    THEN slices[slice[t]].length ELSE offset[t] + (PacketSize - 14)

(* FU-A: two bytes take the place of the NAL header, which every fragment *)
(* repeats. An interrupt does not stop a slice half-way.                  *)
SendsFragment(t) ==
    LET to == FragmentEnd(t)
        last == to = slices[slice[t]].length
    IN  /\ pc[t] = "send" /\ ~IsAudio(slice[t]) /\ ~Fits(slice[t])
        /\ Sends(t, offset[t], to, offset[t] = 5 /\ ~last, last, to - offset[t] + 14, 0)
        /\ offset' = [offset EXCEPT ![t] = to]
        /\ IF last THEN SliceSent(t)
                   ELSE UNCHANGED <<pc, slice, packets, delivered>>
        /\ UNCHANGED <<slices, encoder, queue, streaming, interrupted, sync, cleared>>

(* The check of doSend forgets the AU header section, four bytes: data    *)
(* that passes it may still be too long for the array.                    *)
AudioChecked(n) == slices[n].length + 12 <= PacketSize
AudioCopied(n) == slices[n].length + 16 <= PacketSize

(* au_header[2] and [3]: the size is shifted by the three bits of the     *)
(* AU-Index, and what is above its thirteen bits is lost.                 *)
AuSize(n) == slices[n].length % SizeModulus

SendsAudioMuxElement(t) ==
    /\ pc[t] = "send" /\ IsAudio(slice[t])
    /\ AudioChecked(slice[t]) /\ AudioCopied(slice[t])
    /\ LET length == slices[slice[t]].length
       IN  Sends(t, 0, length, TRUE, TRUE, length + 16, AuSize(slice[t]))
    /\ SliceSent(t)
    /\ UNCHANGED <<slices, encoder, queue, streaming, interrupted, sync, offset, cleared>>

(* UnsupportedOperationException of the check, or the exception of the    *)
(* copy: either ends the stream.                                          *)
AudioTooLong(t) ==
    /\ pc[t] = "send" /\ IsAudio(slice[t])
    /\ ~AudioChecked(slice[t]) \/ ~AudioCopied(slice[t])
    /\ Goto(t, "stopping")
    /\ UNCHANGED <<slices, encoder, queue, streaming, interrupted, thread, cleared>>

(* rtpSend or rtcpSend throws: the socket is closed, the network is gone. *)
SendFails(t) ==
    /\ pc[t] \in {"loop", "send"}
    /\ Goto(t, "stopping")
    /\ UNCHANGED <<slices, encoder, queue, streaming, interrupted, thread, cleared>>

Stopped(t) ==
    /\ pc[t] = "stopping"
    /\ streaming' = FALSE
    /\ Goto(t, "ended")
    /\ UNCHANGED <<slices, encoder, queue, interrupted, thread, cleared>>

----------------------------------------------------------------------------
Next == \/ PushChecks \/ PushOffers
        \/ \E t \in Stream :
              \/ Plays(t) \/ Stops(t) \/ ClearsSlices(t) \/ Started(t)
              \/ SeesInterrupt(t) \/ PopsAndSkips(t) \/ PopsAndSends(t)
              \/ SendsNAL(t) \/ SendsFragment(t) \/ SendsAudioMuxElement(t)
              \/ AudioTooLong(t) \/ SendFails(t) \/ Stopped(t)

Spec == Init /\ [][Next]_vars

----------------------------------------------------------------------------
(* Properties                                                             *)

(* A packet fits in the array rtp. One of H.264 is never the first and    *)
(* the last fragment at once; one of AAC is a whole access unit, and its  *)
(* AU header announces as many bytes as it carries.                       *)
WellFormed(p) ==
    LET n == slices[p.slice].length
    IN  /\ p.length <= PacketSize
        /\ p.from < p.to /\ p.to <= n
        /\ p.last <=> p.to = n
        /\ IF IsAudio(p.slice)
           THEN p.first /\ p.last /\ p.from = 0 /\ p.size = p.to - p.from
           ELSE /\ (p.first /\ p.last) => p.from = 4
                /\ p.first <=> p.from \in {4, 5}

(* Every packet a thread sends can be understood by itself, whatever the  *)
(* length of the slice and of the packets: sendFragmentedNAL and the AU   *)
(* header of doSend.                                                      *)
PacketsWellFormed ==
    \A t \in Stream : packet[t] # None => WellFormed(packet[t])

(* Packet q may follow p on the wire: its sequence number is the next one *)
(* and it goes on where p ended, in the same slice or with the start of a *)
(* later one.                                                             *)
Follows(p, q) ==
    /\ q.seq = (p.seq + 1) % SeqModulus
    /\ IF p.last THEN q.first /\ p.slice < q.slice
                 ELSE ~q.first /\ q.slice = p.slice /\ q.from = p.to

(* The packets of a stream put its slices together again without a gap,   *)
(* from the sequence number that PLAY announced and across its wrap.      *)
PacketsReassemble ==
    [][\A t \in Stream : packet'[t] # packet[t] =>
           IF packet[t] = None THEN packet'[t].seq = FirstSeq /\ packet'[t].first
                               ELSE Follows(packet[t], packet'[t])]_vars

(* The slices of stream t so far that were pushed before it began.        *)
Stale(t) == {n \in delivered[t] \cup ({slice[t]} \ {None}) : n <= cleared[t]}

(* clearSlices() spares at most the slice whose push() had already read   *)
(* the flag of the stream before: a stream sends at most one such slice.  *)
AtMostOneStaleSlice ==
    \A t \in Stream : \A m, n \in Stale(t) : m = n

(* "Sender's packet count": what a sender report announces is the number  *)
(* of RTP packets the stream has sent.                                    *)
ReportCountsPackets ==
    \A t \in Stream : pc[t] = "loop" => packets[t] = mSeq[t] - FirstSeq

(* The client gets whole slices or access units, in order, from an IDR    *)
(* on, none twice: doSend implements SliceStream.                         *)
Client == INSTANCE SliceStream
ImplementsSliceStream == Client!Spec

----------------------------------------------------------------------------
(* The inductive invariant behind the properties                          *)

(* The queue holds slices in the order in which they were pushed, and the *)
(* one whose offer() is pending comes after them.                         *)
QueueInOrder ==
    /\ \A i, j \in 1..Len(queue) : i < j => queue[i] < queue[j]
    /\ \A i \in 1..Len(queue) : queue[i] <= pushed
    /\ offering # None => /\ offering = pushed
                          /\ \A i \in 1..Len(queue) : queue[i] < offering

(* The slices that thread t has taken out of the queue.                   *)
Taken(t) == delivered[t] \cup ({slice[t]} \ {None})

(* What was taken came before what is queued, and was taken once.         *)
TakenInOrder ==
    \A t \in Stream :
        /\ \A n \in Taken(t) : /\ n <= pushed /\ n # offering
                               /\ \A i \in 1..Len(queue) : n < queue[i]
        /\ slice[t] # None => \A n \in delivered[t] : n < slice[t]
        /\ \A u \in Stream \ {t} : Taken(t) \cap Taken(u) = {}

(* Where thread t is in the slice it sends.                               *)
InSlice(t) ==
    /\ pc[t] \in {"unused", "started", "flagged", "loop"} => slice[t] = None
    /\ pc[t] \in {"unused", "started", "flagged"} => packet[t] = None
    /\ pc[t] = "send" =>
          /\ slice[t] # None
          /\ ~NoData(slice[t])
          /\ FirstOffset(slice[t]) <= offset[t] /\ offset[t] <= slices[slice[t]].length
          /\ (IsAudio(slice[t]) \/ Fits(slice[t])) => offset[t] = FirstOffset(slice[t])
          /\ offset[t] > FirstOffset(slice[t]) =>
                /\ packet[t] # None /\ ~packet[t].last
                /\ packet[t].slice = slice[t] /\ packet[t].to = offset[t]
                /\ offset[t] < slices[slice[t]].length
    /\ (packet[t] # None
           /\ (pc[t] = "loop" \/ (pc[t] = "send" /\ offset[t] = FirstOffset(slice[t])))) =>
          packet[t].last /\ packet[t].slice \in delivered[t]

SendingInOrder == \A t \in Stream : InSlice(t)

SequenceInOrder ==
    \A t \in Stream : IF packet[t] = None
                      THEN mSeq[t] = FirstSeq
                      ELSE mSeq[t] > 0 /\ packet[t].seq = (mSeq[t] - 1) % SeqModulus

StartsWithIDR ==
    \A t \in Stream :
        /\ pc[t] \in {"unused", "started", "flagged"} => ~sync[t]
        /\ ~sync[t] => slice[t] = None /\ delivered[t] = {}
        /\ (pc[t] = "send" /\ delivered[t] = {}) => slices[slice[t]].idr
        /\ (pc[t] = "loop" /\ sync[t]) => delivered[t] # {}

(* A thread that has not cleared the queue has taken nothing; afterwards  *)
(* one slice at most is older than that, taken, queued or still offered.  *)
Queued == {queue[i] : i \in 1..Len(queue)}
OneIsStale ==
    \A t \in Stream :
        IF pc[t] \in {"unused", "started"}
        THEN slice[t] = None /\ delivered[t] = {}
        ELSE /\ cleared[t] <= pushed
             /\ \A m, n \in Taken(t) \cup Queued \cup ({offering} \ {None}) :
                    m <= cleared[t] /\ n <= cleared[t] => m = n

IInv == /\ TypeOK
        /\ QueueInOrder
        /\ TakenInOrder
        /\ SendingInOrder
        /\ SequenceInOrder
        /\ StartsWithIDR
        /\ OneIsStale
        /\ PacketsWellFormed
        /\ AtMostOneStaleSlice
====
