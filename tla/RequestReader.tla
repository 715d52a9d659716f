---- MODULE RequestReader ----
(***************************************************************************)
(* StreamServer.getRequest and the part of handleConnection that reads a   *)
(* body: how a handler finds the requests in the bytes of a TCP stream, in *)
(* which a client may interleave RTCP blocks ($, channel, two bytes of     *)
(* size, payload).                                                         *)
(*                                                                         *)
(* Bytes are counted, not spelled: a reader that is not at the start of an *)
(* item takes for one what is none. From then on it is followed only until *)
(* it ends, and what it may serve on the way is not counted.               *)
(***************************************************************************)
EXTENDS Integers, Sequences, FiniteSets

CONSTANTS
    Streams,        \* what clients send: the items, and the lengths of the
                    \* prefixes of it that TCP may have delivered at a time
    SocketReadBuffer \* SOCKET_READ_BUFFER, the length of the buffer

Byte == 0..255

Item == [kind : {"request", "block"},
         text : Nat,        \* the length of a request up to its blank line,
         body : Nat,        \* and of the body after it
         final : BOOLEAN,   \* whether its answer is the last: see Serves
         hi : Byte,         \* the size of a block's payload
         lo : Byte]

ASSUME StreamsAssumption ==
    /\ Streams \subseteq [items : Seq(Item), cuts : SUBSET Nat]
    /\ \A s \in Streams : \A i \in DOMAIN s.items :
           s.items[i].kind = "request" => s.items[i].text > 4

ASSUME BufferAssumption == SocketReadBuffer \in Nat

VARIABLES
    stream,         \* what this client sends
    arrived,        \* how many bytes of it have arrived
    eof,            \* whether the client has closed its side
    pc,             \* where the handler is
    item,           \* the item it is reading
    end,            \* where this item ends
    at,             \* how many bytes it has read
    size,           \* size and read of the loop that drops a block
    read,
    served,         \* how many requests it has served
    why             \* why it has ended

network == <<stream, arrived, eof>>
dropping == <<size, read>>
vars == <<network, pc, item, end, at, dropping, served, why>>

Current == stream.items[item]

Length(i) == IF i.kind = "block" THEN 4 + 256 * i.hi + i.lo ELSE i.text + i.body

TypeOK ==
    /\ stream \in Streams
    /\ arrived \in Nat
    /\ eof \in BOOLEAN
    /\ pc \in {"request", "drop", "line", "body", "serve", "garbage", "ended"}
    /\ item \in 1..(Len(stream.items) + 1)
    /\ end \in Nat
    /\ at \in Nat
    /\ size \in Int
    /\ read \in Int
    /\ served \in Nat
    /\ why \in {"", "eof", "short", "range", "timeout", "answered"}

(* Where item i ends when it starts at position p; p itself when the      *)
(* client has nothing more to send.                                       *)
EndOf(i, p) == p + IF i <= Len(stream.items) THEN Length(stream.items[i]) ELSE 0

Init ==
    /\ stream \in Streams
    /\ arrived = 0
    /\ eof = FALSE
    /\ pc = "request"
    /\ item = 1
    /\ end = EndOf(1, 0)
    /\ at = 0
    /\ size = 0
    /\ read = 0
    /\ served = 0
    /\ why = ""

----------------------------------------------------------------------------
(* The client                                                             *)

Arrives ==
    /\ ~eof
    /\ arrived' \in {c \in stream.cuts : c > arrived}
    /\ UNCHANGED <<stream, eof, pc, item, end, at, dropping, served, why>>

ClientCloses ==
    /\ ~eof
    /\ eof' = TRUE
    /\ UNCHANGED <<stream, arrived, pc, item, end, at, dropping, served, why>>

----------------------------------------------------------------------------
(* The handler. A read returns what has arrived, at most count bytes, and *)
(* -1 at the end of the stream; it blocks when there is neither.          *)

Available == arrived - at
Taken(count) == IF count < Available THEN count ELSE Available

Ends(reason) ==
    /\ pc' = "ended"
    /\ why' = reason

(* SocketTimeoutException, in any read                                    *)
TimesOut ==
    /\ pc \in {"request", "drop", "line", "body", "garbage"}
    /\ Available = 0 /\ ~eof
    /\ Ends("timeout")
    /\ UNCHANGED <<network, item, end, at, dropping, served>>

(* The first four bytes, in one read, tell what it is.                    *)
ReadsTooLittle ==
    /\ pc = "request"
    /\ \/ Available = 0 /\ eof /\ Ends("eof")
       \/ Available \in 1..3 /\ Ends("short")
    /\ UNCHANGED <<network, item, end, at, dropping, served>>

(* Bytes are signed in Java.                                              *)
SignedByte(b) == IF b < 128 THEN b ELSE b - 256
SwappedSize(i) == 256 * SignedByte(i.lo) + SignedByte(i.hi)
BlockSize(i) == 256 * SignedByte(i.hi) + SignedByte(i.lo)

ReadsBlock ==
    /\ pc = "request" /\ Available >= 4
    /\ item <= Len(stream.items) /\ Current.kind = "block"
    /\ pc' = "drop"
    /\ at' = at + 4
    /\ size' = BlockSize(Current)
    /\ read' = 0
    /\ UNCHANGED <<network, item, end, served, why>>

ReadsRequest ==
    /\ pc = "request" /\ Available >= 4
    /\ item <= Len(stream.items) /\ Current.kind = "request"
    /\ pc' = "line"
    /\ at' = at + 4
    /\ UNCHANGED <<network, item, end, dropping, served, why>>

(* The handler goes on with what comes next: an item, or bytes that are   *)
(* the rest of this one.                                                  *)
GoesOn ==
    IF at = end
      THEN /\ pc' = "request"
           /\ item' = item + 1
           /\ end' = EndOf(item + 1, end)
      ELSE pc' = "garbage" /\ UNCHANGED <<item, end>>

(* connection.read(buffer, 0, size - read)                                *)
WholeSize == size
Count == size - read
Drops ==
    /\ pc = "drop" /\ read < size
    /\ Count <= SocketReadBuffer /\ Available > 0
    /\ at' = at + Taken(Count)
    /\ read' = read + Taken(Count)
    /\ UNCHANGED <<network, pc, item, end, size, served, why>>

(* At the end of the stream the loop adds -1, and asks for more each time *)
(* ...                                                                    *)
DropsNothingAtEof ==
    /\ pc = "drop" /\ read < size
    /\ Count <= SocketReadBuffer /\ Available = 0 /\ eof
    /\ UNCHANGED vars

DropsAtEof ==
    /\ pc = "drop" /\ read < size
    /\ Count <= SocketReadBuffer /\ Available = 0 /\ eof
    /\ read' = read - 1
    /\ UNCHANGED <<network, pc, item, end, at, size, served, why>>

(* ... until it asks for more than the buffer holds.                      *)
DropThrows ==
    /\ pc = "drop" /\ read < size
    /\ Count > SocketReadBuffer
    /\ Ends("range")
    /\ UNCHANGED <<network, item, end, at, dropping, served>>

DropEnds ==
    /\ pc = "drop" /\ read >= size
    /\ GoesOn
    /\ UNCHANGED <<network, at, dropping, served, why>>

(* readLine, until a line is empty or the stream ends                     *)
TextEnd == end - Current.body
ReadsLines ==
    /\ pc = "line" /\ Available > 0
    /\ at' = at + Taken(TextEnd - at)
    /\ pc' = IF at' < TextEnd THEN "line" ELSE IF Current.body > 0 THEN "body" ELSE "serve"
    /\ UNCHANGED <<network, item, end, dropping, served, why>>

(* A request whose end is missing is served as it is, or is none.         *)
LinesEnd ==
    /\ pc = "line" /\ Available = 0 /\ eof
    /\ Ends("eof") \/ (pc' = "serve" /\ UNCHANGED why)
    /\ UNCHANGED <<network, item, end, at, dropping, served>>

(* connection.read(body): once, whatever it returns                       *)
ReadsBody ==
    /\ pc = "body" /\ (Available > 0 \/ eof)
    /\ pc' = "serve"
    /\ at' = at + Taken(Current.body)
    /\ UNCHANGED <<network, item, end, dropping, served, why>>

(* The handler returns after an answer like 400, 405 or 503, a GET that   *)
(* does not keep the connection alive, or an exception of a request; what *)
(* the server knows at that moment, e.g. canStream, may decide it.        *)
ServesOn == /\ GoesOn
            /\ UNCHANGED why
ServesLast == /\ Ends("answered")
              /\ UNCHANGED <<item, end>>

Serves ==
    /\ pc = "serve"
    /\ served' = served + 1
    /\ IF Current.final THEN ServesLast ELSE ServesOn
    /\ UNCHANGED <<network, at, dropping>>

(* Bytes that are no item: a request nobody knows ends the handler, a     *)
(* block that is none may swallow whatever follows.                       *)
ReadsGarbage ==
    /\ pc = "garbage"
    /\ \/ /\ Available > 0 /\ at' = arrived
          /\ \/ UNCHANGED <<pc, why>>
             \/ \E reason \in {"short", "range", "answered"} : Ends(reason)
       \/ Available = 0 /\ eof /\ Ends("eof") /\ UNCHANGED at
    /\ UNCHANGED <<network, item, end, dropping, served>>

----------------------------------------------------------------------------
Reads ==
    \/ ReadsTooLittle \/ ReadsBlock \/ ReadsRequest
    \/ Drops \/ DropsAtEof \/ DropThrows \/ DropEnds
    \/ ReadsLines \/ LinesEnd \/ ReadsBody \/ ReadsGarbage

Finished == pc = "ended" /\ UNCHANGED vars

Next == Arrives \/ ClientCloses \/ TimesOut \/ Reads \/ Serves \/ Finished

Spec == Init /\ [][Next]_vars

(* The handler's thread runs, and the network delivers what was sent to a *)
(* handler that still reads. Serving is not fair: a reply to a client     *)
(* that does not read may never be written, since writes have no timeout. *)
FairSpec ==
    /\ Spec
    /\ WF_vars(Reads)
    /\ WF_vars(pc # "ended" /\ Arrives)
    /\ WF_vars(TimesOut)

----------------------------------------------------------------------------
(* Properties                                                             *)

(* "If we received an interleaved packet just drop it": whatever its size *)
(* field says, dropping a block takes no byte of what follows it, and     *)
(* reading a request takes no byte of the next one.                       *)
NeverPastItem == pc \notin {"garbage", "ended"} => at <= end

(* A reader loses its place only after a block whose size has a byte that *)
(* is negative in Java, or after a body that one read did not return, or  *)
(* at the end of the stream.                                              *)
LostPlaceHasCause ==
    pc = "garbage" =>
        \/ Current.kind = "block" /\ (Current.hi >= 128 \/ Current.lo >= 128)
        \/ Current.kind = "request" /\ (Current.body > 0 \/ eof)

(* The requests of this stream, those that no earlier request's answer    *)
(* keeps from being served, and whether its blocks can be dropped.        *)
Requests == {i \in DOMAIN stream.items : stream.items[i].kind = "request"}
Reached == {i \in Requests : \A j \in Requests : j < i => ~stream.items[j].final}
Plain(i) == IF i.kind = "block" THEN /\ i.hi < 128 /\ i.lo < 128
                                     /\ 256 * i.hi + i.lo <= SocketReadBuffer
                                ELSE i.body = 0

(* A client that does not read its replies can hold the handler for ever. *)
HeldForEver == <>[](pc = "serve")

(* Every request of a client whose blocks have such sizes is served, up   *)
(* to the first whose answer ends the handler, however TCP cuts the       *)
(* stream, unless four bytes arrive apart or the client is silent for too *)
(* long, leaves or does not read.                                         *)
PlainStreamIsServed ==
    \/ HeldForEver
    \/ (\A i \in DOMAIN stream.items : Plain(stream.items[i]))
          ~> (served = Cardinality(Reached) \/ why \in {"short", "timeout"} \/ eof)

(* The handler ends once the client has closed, wherever it was: also in  *)
(* the loop that adds -1. A reply that cannot be written holds it.        *)
HandlerEndsAfterClose ==
    HeldForEver \/ (eof ~> pc = "ended")

----------------------------------------------------------------------------
(* The inductive invariant.                                               *)

(* A reader that has its place is at the start of an item, or as far      *)
(* within it as its loop has counted.                                     *)
PayloadStart == end - Length(Current) + 4
DropKeepsCount ==
    /\ Current.kind = "block" /\ size = BlockSize(Current)
    /\ PayloadStart <= at
    /\ \/ read = at - PayloadStart
       \/ eof /\ at = arrived /\ read < at - PayloadStart

HasPlace ==
    /\ pc \in {"drop", "line", "body", "serve", "garbage"} => item <= Len(stream.items)
    /\ pc = "request" => end = EndOf(item, at)
    /\ pc = "drop" => DropKeepsCount
    /\ pc \in {"line", "body", "serve"} => Current.kind = "request"
    /\ pc = "line" => at < TextEnd
    /\ pc = "body" => Current.body > 0 /\ at = TextEnd
    /\ pc = "serve" => at = end \/ Current.body > 0 \/ eof

Placed == TypeOK /\ NeverPastItem /\ LostPlaceHasCause /\ HasPlace

(* A reader that has its place has served every request before the item   *)
(* it is in, once, and no other. What one that has lost its place may     *)
(* serve is not counted.                                                  *)
Before(n) == {i \in Requests : i < n}
ServedInOrder ==
    /\ served <= Cardinality(Before(item + 1))
    /\ pc \notin {"garbage", "ended"} => served = Cardinality(Before(item))

IInv == Placed /\ ServedInOrder
====
