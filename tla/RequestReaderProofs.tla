---- MODULE RequestReaderProofs ----
(***************************************************************************)
(* The reader for every stream of requests and blocks, every way TCP may   *)
(* cut it and every length of the buffer: it never reads past the item it  *)
(* is at, and loses its place for the causes LostPlaceHasCause names only. *)
(***************************************************************************)
EXTENDS RequestReader, FiniteSetTheorems, TLAPS

(* The fields of an item.                                                 *)
LEMMA Fields ==
  ASSUME NEW i \in Item
  PROVE  /\ i.kind \in {"request", "block"}
         /\ i.text \in Nat /\ i.body \in Nat
         /\ i.hi \in 0..255 /\ i.lo \in 0..255
  BY DEF Item, Byte

LEMMA SignedBytes ==
  ASSUME NEW b \in 0..255
  PROVE  SignedByte(b) \in Int /\ SignedByte(b) <= b /\ (b < 128 => SignedByte(b) = b)
  BY DEF SignedByte

(* A size that is put together from signed bytes is never too large, and  *)
(* it is right when neither byte is negative.                             *)
LEMMA SizeBound ==
  ASSUME NEW i \in Item, i.kind = "block"
  PROVE  /\ BlockSize(i) \in Int
         /\ BlockSize(i) <= Length(i) - 4
         /\ Length(i) \in Nat /\ Length(i) >= 4
         /\ (i.hi < 128 /\ i.lo < 128) => BlockSize(i) = Length(i) - 4
  <1> DEFINE a == i.hi
             b == i.lo
             h == SignedByte(a)
             l == SignedByte(b)
             size1 == BlockSize(i)
             length == Length(i)
  <1>1. a \in 0..255 /\ b \in 0..255
    BY Fields
  <1>2. /\ h \in Int /\ h <= a /\ (a < 128 => h = a)
        /\ l \in Int /\ l <= b /\ (b < 128 => l = b)
    BY <1>1, SignedBytes
  <1>3. size1 = 256 * h + l /\ length = 4 + 256 * a + b
    BY DEF BlockSize, Length
  <1> HIDE DEF a, b, h, l, size1, length
  <1>4. size1 \in Int /\ size1 <= length - 4 /\ length \in Nat /\ length >= 4
    BY <1>1, <1>2, <1>3
  <1>5. a < 128 /\ b < 128 => size1 = length - 4
    BY <1>1, <1>2, <1>3
  <1> QED
    BY <1>4, <1>5 DEF a, b, size1, length

(* An item that is no block is a request with its body.                   *)
LEMMA RequestLength ==
  ASSUME NEW i \in Item, i.kind = "request"
  PROVE  Length(i) \in Nat /\ Length(i) = i.text + i.body /\ i.body <= Length(i)
  <1>1. Length(i) = i.text + i.body
    BY DEF Length
  <1> QED
    BY <1>1, Fields

LEMMA LengthIsNat ==
  ASSUME NEW i \in Item
  PROVE  Length(i) \in Nat
  BY Fields, SizeBound, RequestLength

(* The items of a stream.                                                 *)
LEMMA Items ==
  ASSUME NEW s \in Streams, NEW i \in 1..Len(s.items)
  PROVE  /\ s.items[i] \in Item
         /\ Length(s.items[i]) \in Nat
         /\ s.items[i].kind = "request" => s.items[i].text > 4
  <1>1. s.items \in Seq(Item)
    BY StreamsAssumption
  <1>2. s.items[i] \in Item /\ i \in DOMAIN s.items
    BY <1>1
  <1>3. s.items[i].kind = "request" => s.items[i].text > 4
    BY <1>2, StreamsAssumption
  <1> QED
    BY <1>2, <1>3, LengthIsNat

LEMMA Positions ==
  ASSUME NEW s \in Streams
  PROVE  Len(s.items) \in Nat /\ s.cuts \in SUBSET Nat
  BY StreamsAssumption

(* The item a reader is in.                                               *)
LEMMA CurrentItem ==
  ASSUME TypeOK, item <= Len(stream.items)
  PROVE  /\ Current \in Item
         /\ Length(Current) \in Nat
         /\ Current.body \in Nat /\ Current.text \in Nat
         /\ Current.kind = "request" =>
                Current.text > 4 /\ Length(Current) = Current.text + Current.body
         /\ EndOf(item, at) = at + Length(Current)
  <1>1. stream \in Streams /\ item \in 1..(Len(stream.items) + 1)
    BY DEF TypeOK
  <1>2. Len(stream.items) \in Nat
    BY <1>1, Positions
  <1>3. item \in 1..Len(stream.items)
    BY <1>1, <1>2
  <1>4. /\ Current \in Item /\ Length(Current) \in Nat
        /\ Current.kind = "request" => Current.text > 4
    BY <1>1, <1>3, Items DEF Current
  <1>5. EndOf(item, at) = at + Length(Current)
    BY DEF EndOf, Current
  <1>6. Current.body \in Nat /\ Current.text \in Nat
    BY <1>4, Fields
  <1>7. Current.kind = "request" => Length(Current) = Current.text + Current.body
    BY <1>4, RequestLength
  <1> QED
    BY <1>4, <1>5, <1>6, <1>7

(* Where the next item starts, or the stream ends.                        *)
LEMMA Ending ==
  ASSUME NEW s \in Streams, NEW i \in 1..(Len(s.items) + 1), NEW p \in Nat, stream = s
  PROVE  EndOf(i, p) \in Nat /\ p <= EndOf(i, p)
  <1>1. Len(s.items) \in Nat
    BY Positions
  <1>2. CASE i <= Len(s.items)
    <2>1. i \in 1..Len(s.items)
      BY <1>1, <1>2
    <2>2. Length(s.items[i]) \in Nat
      BY <2>1, Items
    <2>3. EndOf(i, p) = p + Length(s.items[i])
      BY <1>2 DEF EndOf
    <2> QED
      BY <2>2, <2>3
  <1>3. CASE ~(i <= Len(s.items))
    <2>1. EndOf(i, p) = p + 0
      BY <1>3 DEF EndOf
    <2> QED
      BY <2>1
  <1> QED
    BY <1>2, <1>3

(* What does not change with the item.                                    *)
LEMMA SameItem ==
  ASSUME UNCHANGED <<stream, item, end>>
  PROVE  /\ Current' = Current /\ TextEnd' = TextEnd /\ PayloadStart' = PayloadStart
         /\ Current.kind' = Current.kind
  BY DEF Current, TextEnd, PayloadStart

LEMMA InitPlaced == Init => Placed
  <1> SUFFICES ASSUME Init PROVE Placed
    OBVIOUS
  <1>1. stream \in Streams /\ Len(stream.items) \in Nat
    BY Positions DEF Init
  <1>2. 1 \in 1..(Len(stream.items) + 1)
    BY <1>1
  <1>3. EndOf(1, 0) \in Nat /\ 0 <= EndOf(1, 0)
    BY <1>1, <1>2, Ending
  <1>4. item = 1 /\ end \in Nat /\ at = 0 /\ at <= end
    BY <1>3 DEF Init
  <1>5. item \in 1..(Len(stream.items) + 1) /\ at \in Nat
    BY <1>2, <1>4
  <1>6. pc = "request" /\ why = "" /\ eof \in BOOLEAN
    BY Zenon DEF Init
  <1>7. arrived \in Nat /\ size \in Int /\ read \in Int /\ served \in Nat
    <2>1. arrived = 0 /\ size = 0 /\ read = 0 /\ served = 0
      BY Zenon DEF Init
    <2> QED
      BY <2>1
  <1>8. TypeOK
    BY <1>1, <1>4, <1>5, <1>6, <1>7 DEF TypeOK
  <1> QED
    BY <1>4, <1>8 DEF Init, Placed, NeverPastItem, LostPlaceHasCause, HasPlace

(* Going on from the end of an item to the next one, or losing the place. *)
LEMMA GoesOnWell ==
  ASSUME Placed, GoesOn, item <= Len(stream.items),
         UNCHANGED <<stream, arrived, eof, at, size, read, why>>, served' \in Nat,
         at # end => \/ Current.kind = "block" /\ (Current.hi >= 128 \/ Current.lo >= 128)
                     \/ Current.kind = "request" /\ (Current.body > 0 \/ eof)
  PROVE  Placed'
  <1>1. stream \in Streams /\ item \in 1..(Len(stream.items) + 1) /\ end \in Nat
    BY DEF Placed, TypeOK
  <1>2. Len(stream.items) \in Nat
    BY <1>1, Positions
  <1>3. CASE at = end
    <2>1. pc' = "request" /\ item' = item + 1 /\ end' = EndOf(item + 1, end)
      BY <1>3 DEF GoesOn
    <2>2. item' \in 1..(Len(stream.items) + 1)
      BY <1>1, <1>2, <2>1
    <2>3. end' = EndOf(item', at) /\ EndOf(item, at)' = EndOf(item', at)
      BY <1>3, <2>1 DEF EndOf
    <2>4. end' \in Nat /\ at' <= end'
      BY <1>1, <1>3, <2>2, <2>3, Ending
    <2>5. TypeOK'
      BY <2>1, <2>2, <2>4 DEF Placed, TypeOK
    <2>6. HasPlace'
      BY <2>1, <2>3 DEF HasPlace, EndOf
    <2> QED
      BY <2>1, <2>4, <2>5, <2>6 DEF Placed, NeverPastItem, LostPlaceHasCause
  <1>4. CASE at # end
    <2>1. pc' = "garbage" /\ UNCHANGED <<item, end>>
      BY <1>4 DEF GoesOn
    <2>2. TypeOK' /\ HasPlace'
      BY <2>1 DEF Placed, TypeOK, HasPlace
    <2> QED
      BY <1>4, <2>1, <2>2 DEF Placed, NeverPastItem, LostPlaceHasCause, Current
  <1> QED
    BY <1>3, <1>4

(* The client's steps: only a handler that waits sees what arrives.       *)
LEMMA ClientStep ==
  ASSUME Placed, Arrives \/ ClientCloses
  PROVE  Placed'
  <1>1. stream \in Streams /\ stream.cuts \in SUBSET Nat
    BY Positions DEF Placed, TypeOK
  <1>2. arrived' \in Nat /\ eof' \in BOOLEAN /\ ~eof
    BY <1>1 DEF Placed, TypeOK, Arrives, ClientCloses
  <1>3. UNCHANGED <<stream, pc, item, end, at, size, read, served, why>>
    BY DEF Arrives, ClientCloses, dropping
  <1>4. TypeOK'
    BY <1>2, <1>3 DEF Placed, TypeOK
  <1>5. NeverPastItem' /\ LostPlaceHasCause'
    BY <1>2, <1>3 DEF Placed, NeverPastItem, LostPlaceHasCause, Current
  <1>6. DropKeepsCount => DropKeepsCount'
    BY <1>2, <1>3, SameItem DEF DropKeepsCount
  <1>7. HasPlace'
    BY <1>2, <1>3, <1>6, SameItem DEF Placed, HasPlace, EndOf
  <1> QED
    BY <1>4, <1>5, <1>7 DEF Placed

(* The first four bytes.                                                  *)
LEMMA StartStep ==
  ASSUME Placed, ReadsBlock \/ ReadsRequest
  PROVE  Placed'
  <1>1. /\ pc = "request" /\ item <= Len(stream.items) /\ at' = at + 4
        /\ UNCHANGED <<network, item, end, served, why>>
    BY DEF ReadsBlock, ReadsRequest
  <1>2. TypeOK /\ at \in Nat /\ end = EndOf(item, at)
    BY <1>1 DEF Placed, TypeOK, HasPlace
  <1>3. /\ Current \in Item /\ Length(Current) \in Nat /\ Current.body \in Nat
        /\ end = at + Length(Current)
        /\ Current.kind = "request" =>
               Current.text > 4 /\ Length(Current) = Current.text + Current.body
        /\ Current.text \in Nat
    BY <1>1, <1>2, CurrentItem
  <1>4. Current' = Current /\ TextEnd' = TextEnd /\ PayloadStart' = PayloadStart
    BY <1>1, SameItem DEF network
  <1>5. LostPlaceHasCause'
    BY <1>1 DEF ReadsBlock, ReadsRequest, LostPlaceHasCause
  <1>6. CASE ReadsBlock
    <2>1. /\ pc' = "drop" /\ Current.kind = "block"
          /\ size' = BlockSize(Current) /\ read' = 0
      BY <1>6 DEF ReadsBlock
    <2>2. BlockSize(Current) \in Int /\ Length(Current) >= 4
      BY <1>3, <2>1, SizeBound
    <2>3. at' \in Nat /\ at' <= end
      BY <1>1, <1>2, <1>3, <2>2
    <2>4. PayloadStart = at'
      BY <1>1, <1>2, <1>3 DEF PayloadStart
    <2>5. DropKeepsCount'
      BY <1>1, <1>2, <1>4, <2>1, <2>3, <2>4 DEF DropKeepsCount
    <2>6. TypeOK'
      <3>1. size' \in Int /\ read' \in Int /\ UNCHANGED <<stream, arrived, eof>>
        BY <1>1, <2>1, <2>2 DEF network
      <3> QED
        BY <1>1, <1>2, <2>1, <2>3, <3>1 DEF TypeOK
    <2>7. NeverPastItem' /\ HasPlace'
      BY <1>1, <2>1, <2>3, <2>5 DEF NeverPastItem, HasPlace, network
    <2> QED
      BY <1>5, <2>6, <2>7 DEF Placed
  <1>7. CASE ReadsRequest
    <2>1. pc' = "line" /\ Current.kind = "request" /\ UNCHANGED <<size, read>>
      BY <1>7 DEF ReadsRequest, dropping
    <2>2. TextEnd = at + Current.text
      BY <1>2, <1>3, <2>1 DEF TextEnd
    <2>3. at' \in Nat /\ at' <= end /\ at' < TextEnd
      BY <1>1, <1>2, <1>3, <2>1, <2>2
    <2>4. TypeOK'
      BY <1>1, <1>2, <2>1, <2>3 DEF TypeOK, network
    <2>5. NeverPastItem' /\ HasPlace'
      BY <1>1, <1>4, <2>1, <2>3 DEF NeverPastItem, HasPlace, network
    <2> QED
      BY <1>5, <2>4, <2>5 DEF Placed
  <1> QED
    BY <1>6, <1>7

(* The loop that drops a block.                                           *)
LEMMA DropStep ==
  ASSUME Placed, Drops \/ DropsAtEof \/ DropEnds
  PROVE  Placed'
  <1>1. pc = "drop"
    BY DEF Drops, DropsAtEof, DropEnds
  <1>2. /\ TypeOK /\ item <= Len(stream.items) /\ DropKeepsCount /\ at <= end
        /\ at \in Nat /\ end \in Nat /\ size \in Int /\ read \in Int /\ arrived \in Nat
    BY <1>1 DEF Placed, TypeOK, HasPlace, NeverPastItem
  <1>3. Current \in Item /\ Length(Current) \in Nat
    BY <1>2, CurrentItem
  <1>4. /\ Current.kind = "block" /\ size = BlockSize(Current) /\ PayloadStart <= at
        /\ read <= at - PayloadStart
        /\ read = at - PayloadStart \/ (eof /\ at = arrived)
    BY <1>2, <1>3 DEF DropKeepsCount, PayloadStart
  <1>5. /\ PayloadStart \in Int /\ PayloadStart + size <= end
        /\ (Current.hi < 128 /\ Current.lo < 128) => PayloadStart + size = end
    <2>1. /\ size <= Length(Current) - 4
          /\ (Current.hi < 128 /\ Current.lo < 128) => size = Length(Current) - 4
      BY <1>3, <1>4, SizeBound
    <2> QED
      BY <1>2, <1>3, <2>1 DEF PayloadStart
  <1>6. CASE Drops
    <2>1. /\ UNCHANGED <<stream, arrived, eof, pc, item, end, size, served, why>>
          /\ read < size /\ arrived - at > 0
          /\ at' = at + Taken(Count) /\ read' = read + Taken(Count)
      BY <1>6 DEF Drops, network, Available
    <2>2. read = at - PayloadStart
      BY <1>2, <1>4, <2>1
    <2>3. Taken(Count) \in Nat /\ Taken(Count) <= size - read
      BY <1>2, <2>1 DEF Taken, Count, Available
    <2>4. /\ at' \in Nat /\ read' \in Int /\ read' = at' - PayloadStart
          /\ PayloadStart <= at' /\ at' <= end
      BY <1>2, <1>4, <1>5, <2>1, <2>2, <2>3
    <2>5. Current' = Current /\ PayloadStart' = PayloadStart
      BY <2>1, SameItem
    <2>6. DropKeepsCount'
      BY <1>4, <2>1, <2>4, <2>5 DEF DropKeepsCount
    <2>7. TypeOK'
      BY <1>2, <2>1, <2>4 DEF TypeOK
    <2> QED
      BY <1>1, <1>2, <2>1, <2>4, <2>6, <2>7
      DEF Placed, NeverPastItem, LostPlaceHasCause, HasPlace
  <1>7. CASE DropsAtEof
    <2>1. /\ UNCHANGED <<stream, arrived, eof, pc, item, end, at, size, served, why>>
          /\ arrived - at = 0 /\ eof /\ read' = read - 1
      BY <1>7 DEF DropsAtEof, network, Available
    <2>2. at = arrived /\ read' \in Int /\ read' < at - PayloadStart
      BY <1>2, <1>4, <1>5, <2>1
    <2>3. Current' = Current /\ PayloadStart' = PayloadStart
      BY <2>1, SameItem
    <2>4. DropKeepsCount'
      BY <1>4, <2>1, <2>2, <2>3 DEF DropKeepsCount
    <2>5. TypeOK'
      BY <1>2, <2>1, <2>2 DEF TypeOK
    <2> QED
      BY <1>1, <1>2, <2>1, <2>4, <2>5
      DEF Placed, NeverPastItem, LostPlaceHasCause, HasPlace
  <1>8. CASE DropEnds
    <2>1. /\ GoesOn /\ UNCHANGED <<stream, arrived, eof, at, size, read, served, why>>
          /\ read >= size
      BY <1>8 DEF DropEnds, network, dropping
    <2>2. Current.hi < 128 /\ Current.lo < 128 => at = end
      BY <1>2, <1>4, <1>5, <2>1
    <2>3. Current.hi \in 0..255 /\ Current.lo \in 0..255
      BY <1>3, Fields
    <2>4. at # end => Current.kind = "block" /\ (Current.hi >= 128 \/ Current.lo >= 128)
      BY <1>4, <2>2, <2>3
    <2>5. served' \in Nat
      BY <1>2, <2>1 DEF TypeOK
    <2> QED
      BY <1>2, <2>1, <2>4, <2>5, GoesOnWell
  <1> QED
    BY <1>6, <1>7, <1>8

(* The text of a request and its body.                                    *)
LEMMA RequestStep ==
  ASSUME Placed, ReadsLines \/ LinesEnd \/ ReadsBody \/ Serves
  PROVE  Placed'
  <1>1. pc \in {"line", "body", "serve"}
    BY DEF ReadsLines, LinesEnd, ReadsBody, Serves
  <1>2. /\ TypeOK /\ item <= Len(stream.items) /\ Current.kind = "request" /\ at <= end
        /\ at \in Nat /\ end \in Nat /\ arrived \in Nat
    BY <1>1 DEF Placed, TypeOK, HasPlace, NeverPastItem
  <1>3. Current.body \in Nat
    BY <1>2, CurrentItem
  <1>4. TextEnd \in Int /\ TextEnd <= end /\ TextEnd + Current.body = end
    BY <1>2, <1>3 DEF TextEnd
  <1>5. CASE ReadsLines
    <2>1. /\ UNCHANGED <<stream, arrived, eof, item, end, size, read, served, why>>
          /\ arrived - at > 0 /\ pc = "line" /\ at' = at + Taken(TextEnd - at)
          /\ pc' = IF at' < TextEnd THEN "line"
                   ELSE IF Current.body > 0 THEN "body" ELSE "serve"
      BY <1>5 DEF ReadsLines, network, dropping, Available
    <2>2. at < TextEnd
      BY <2>1 DEF Placed, HasPlace
    <2>3. at' \in Nat /\ at' <= TextEnd
      BY <1>2, <1>4, <2>1, <2>2 DEF Taken, Available
    <2>4. Current' = Current /\ TextEnd' = TextEnd
      BY <2>1, SameItem
    <2>5. TypeOK'
      BY <1>2, <2>1, <2>3 DEF TypeOK
    <2>6. /\ pc' \in {"line", "body", "serve"} /\ at' <= end
          /\ pc' = "line" => at' < TextEnd
          /\ pc' = "body" => Current.body > 0 /\ at' = TextEnd
          /\ pc' = "serve" => at' = end
      BY <1>2, <1>3, <1>4, <2>1, <2>3
    <2>7. HasPlace'
      BY <1>2, <2>1, <2>4, <2>6 DEF HasPlace
    <2> QED
      BY <2>1, <2>5, <2>6, <2>7 DEF Placed, NeverPastItem, LostPlaceHasCause
  <1>6. CASE LinesEnd
    <2>1. /\ UNCHANGED <<stream, arrived, eof, item, end, at, size, read, served>> /\ eof
          /\ \/ pc' = "serve" /\ why' = why
             \/ pc' = "ended" /\ why' = "eof"
      BY <1>6 DEF LinesEnd, Ends, network, dropping
    <2>2. TypeOK'
      BY <1>2, <2>1 DEF TypeOK
    <2>3. Current' = Current
      BY <2>1, SameItem
    <2>4. HasPlace'
      BY <1>2, <2>1, <2>3 DEF HasPlace
    <2> QED
      BY <1>2, <2>1, <2>2, <2>4 DEF Placed, NeverPastItem, LostPlaceHasCause
  <1>7. CASE ReadsBody
    <2>1. /\ UNCHANGED <<stream, arrived, eof, item, end, size, read, served, why>>
          /\ pc = "body" /\ pc' = "serve"
          /\ arrived - at > 0 \/ eof
          /\ at' = at + Taken(Current.body)
      BY <1>7 DEF ReadsBody, network, dropping, Available
    <2>2. Current.body > 0 /\ at = TextEnd
      BY <2>1 DEF Placed, HasPlace
    <2>3. at' \in Nat /\ at' <= end
      BY <1>2, <1>3, <1>4, <2>1, <2>2 DEF Taken, Available
    <2>4. Current' = Current
      BY <2>1, SameItem
    <2>5. TypeOK'
      BY <1>2, <2>1, <2>3 DEF TypeOK
    <2>6. HasPlace'
      BY <1>2, <2>1, <2>2, <2>4 DEF HasPlace
    <2> QED
      BY <2>1, <2>3, <2>5, <2>6 DEF Placed, NeverPastItem, LostPlaceHasCause
  <1>8. CASE Serves
    <2>1. /\ UNCHANGED <<stream, arrived, eof, at, size, read>>
          /\ pc = "serve" /\ served' = served + 1
          /\ ServesLast \/ ServesOn
      BY <1>8 DEF Serves, network, dropping
    <2>2. at = end \/ Current.body > 0 \/ eof
      BY <2>1 DEF Placed, HasPlace
    <2>3. served' \in Nat
      <3>1. served \in Nat
        BY <1>2 DEF TypeOK
      <3> QED
        BY <2>1, <3>1
    <2>4. CASE ServesOn
      BY <1>2, <2>1, <2>2, <2>3, <2>4, GoesOnWell DEF ServesOn
    <2>5. CASE ServesLast
      <3>1. UNCHANGED <<item, end>> /\ pc' = "ended" /\ why' = "answered"
        BY <2>5 DEF ServesLast, Ends
      <3>2. TypeOK'
        BY <1>2, <2>1, <2>3, <3>1 DEF TypeOK
      <3> QED
        BY <2>1, <3>1, <3>2 DEF Placed, NeverPastItem, LostPlaceHasCause, HasPlace
    <2> QED
      BY <2>1, <2>4, <2>5
  <1> QED
    BY <1>5, <1>6, <1>7, <1>8

(* Ending, and reading what is no item any more.                          *)
LEMMA OtherStep ==
  ASSUME Placed, TimesOut \/ ReadsTooLittle \/ DropThrows \/ ReadsGarbage
  PROVE  Placed'
  <1>1. UNCHANGED <<stream, arrived, eof, item, end, size, read, served>>
    BY DEF TimesOut, ReadsTooLittle, DropThrows, ReadsGarbage, network, dropping
  <1>2. /\ at' \in {at, arrived}
        /\ \/ pc' = "ended" /\ why' \in {"eof", "short", "range", "timeout", "answered"}
           \/ pc = "garbage" /\ UNCHANGED <<pc, why>>
    BY DEF TimesOut, ReadsTooLittle, DropThrows, ReadsGarbage, Ends
  <1>3. TypeOK'
    BY <1>1, <1>2 DEF Placed, TypeOK
  <1>4. LostPlaceHasCause'
    BY <1>1, <1>2 DEF Placed, LostPlaceHasCause, Current
  <1> QED
    BY <1>1, <1>2, <1>3, <1>4 DEF Placed, NeverPastItem, HasPlace

(* The items of a stream are numbered from one.                          *)
LEMMA ItemNumbers ==
  ASSUME NEW s \in Streams
  PROVE  Len(s.items) \in Nat /\ DOMAIN s.items = 1..Len(s.items)
  <1>1. s.items \in Seq(Item)
    BY StreamsAssumption
  <1> QED
    BY <1>1

(* There are finitely many requests among them.                           *)
LEMMA RequestNumbers ==
  ASSUME TypeOK
  PROVE  /\ Requests \subseteq Nat \ {0} /\ IsFiniteSet(Requests)
         /\ item \in Nat
         /\ item <= Len(stream.items) => item \in DOMAIN stream.items
  <1> DEFINE last == Len(stream.items)
  <1>1. stream \in Streams /\ item \in 1..(last + 1)
    BY DEF TypeOK
  <1>2. last \in Nat /\ DOMAIN stream.items = 1..last
    BY <1>1, ItemNumbers
  <1>3. Requests \subseteq 1..last
    BY <1>2 DEF Requests
  <1> HIDE DEF last
  <1>4. IsFiniteSet(1..last)
    BY <1>2, FS_Interval
  <1>5. IsFiniteSet(Requests)
    BY <1>3, <1>4, FS_Subset
  <1>6. item \in Nat /\ (item <= last => item \in 1..last) /\ 1..last \subseteq Nat \ {0}
    BY <1>1, <1>2
  <1> QED
    BY <1>2, <1>3, <1>5, <1>6 DEF last

(* The requests of a stream, one item further.                            *)
LEMMA RequestsBefore ==
  ASSUME TypeOK, NEW n \in Nat
  PROVE  /\ IsFiniteSet(Before(n)) /\ Cardinality(Before(n)) \in Nat
         /\ Cardinality(Before(n + 1)) =
                Cardinality(Before(n)) + (IF n \in Requests THEN 1 ELSE 0)
         /\ Cardinality(Before(n)) <= Cardinality(Before(n + 1))
  <1>1. IsFiniteSet(Requests) /\ Requests \subseteq Nat
    BY RequestNumbers
  <1>2. IsFiniteSet(Before(n))
    BY <1>1, FS_Subset DEF Before
  <1>3. Cardinality(Before(n)) \in Nat
    BY <1>2, FS_CardinalityType
  <1>4. CASE n \in Requests
    <2>1. Before(n + 1) = Before(n) \cup {n} /\ n \notin Before(n)
      <3>1. \A i \in Requests : i < n + 1 <=> i < n \/ i = n
        BY <1>1
      <3>2. ~(n < n)
        OBVIOUS
      <3> QED
        BY <1>4, <3>1, <3>2 DEF Before
    <2>2. Cardinality(Before(n + 1)) = Cardinality(Before(n)) + 1
      BY <1>2, <2>1, FS_AddElement
    <2> QED
      BY <1>2, <1>3, <1>4, <2>2
  <1>5. CASE n \notin Requests
    <2>1. Before(n + 1) = Before(n)
      <3>1. \A i \in Requests : i < n + 1 <=> i < n
        BY <1>1, <1>5
      <3> QED
        BY <3>1 DEF Before
    <2> QED
      BY <1>2, <1>3, <1>5, <2>1
  <1> QED
    BY <1>4, <1>5

(* Only Serves counts a request, and only the end of an item goes on.     *)
LEMMA ServedStep ==
  ASSUME IInv, [Next]_vars
  PROVE  ServedInOrder'
  <1>1. /\ Placed /\ TypeOK /\ ServedInOrder /\ item \in Nat /\ served \in Nat
        /\ item <= Len(stream.items) => item \in DOMAIN stream.items
    <2>1. Placed /\ TypeOK /\ ServedInOrder /\ served \in Nat
      BY DEF IInv, Placed, TypeOK
    <2> QED
      BY <2>1, RequestNumbers
  <1>2. /\ Cardinality(Before(item)) \in Nat
        /\ Cardinality(Before(item + 1)) \in Nat
        /\ Cardinality(Before(item + 1)) =
               Cardinality(Before(item)) + (IF item \in Requests THEN 1 ELSE 0)
        /\ Cardinality(Before(item + 1)) <= Cardinality(Before((item + 1) + 1))
    <2>1. item + 1 \in Nat
      BY <1>1
    <2>2. Cardinality(Before(item + 1)) \in Nat
      BY <1>1, <2>1, RequestsBefore
    <2>3. Cardinality(Before(item + 1)) <= Cardinality(Before((item + 1) + 1))
      BY <1>1, <2>1, RequestsBefore
    <2> QED
      BY <1>1, <2>2, <2>3, RequestsBefore
  <1>3. CASE /\ UNCHANGED <<stream, item, served>>
             /\ pc \in {"garbage", "ended"} => pc' \in {"garbage", "ended"}
    BY <1>1, <1>3 DEF ServedInOrder, Before, Requests
  <1>4. CASE DropEnds
    <2>1. /\ GoesOn /\ served' = served /\ stream' = stream /\ pc = "drop"
          /\ Current.kind = "block"
      BY <1>1, <1>4 DEF DropEnds, network, Placed, HasPlace, DropKeepsCount
    <2>2. item \notin Requests
      BY <2>1 DEF Requests, Current
    <2>3. served = Cardinality(Before(item)) /\ served = Cardinality(Before(item + 1))
      BY <1>1, <1>2, <2>1, <2>2 DEF ServedInOrder
    <2>4. CASE pc' = "request" /\ item' = item + 1
      BY <1>2, <2>1, <2>3, <2>4 DEF ServedInOrder, Before, Requests
    <2>5. CASE pc' = "garbage" /\ item' = item
      BY <1>2, <2>1, <2>3, <2>5 DEF ServedInOrder, Before, Requests
    <2> QED
      BY <2>1, <2>4, <2>5 DEF GoesOn
  <1>5. CASE Serves
    <2>1. /\ ServesOn \/ ServesLast
          /\ served' = served + 1 /\ stream' = stream /\ pc = "serve"
          /\ Current.kind = "request" /\ item <= Len(stream.items)
      BY <1>1, <1>5 DEF Serves, network, Placed, HasPlace
    <2>2. item \in Requests
      BY <1>1, <2>1 DEF Requests, Current
    <2>3. served = Cardinality(Before(item)) /\ served' = Cardinality(Before(item + 1))
      BY <1>1, <1>2, <2>1, <2>2 DEF ServedInOrder
    <2>4. CASE pc' = "request" /\ item' = item + 1
      BY <1>2, <2>1, <2>3, <2>4 DEF ServedInOrder, Before, Requests
    <2>5. CASE pc' \in {"garbage", "ended"} /\ item' = item
      BY <1>2, <2>1, <2>3, <2>5 DEF ServedInOrder, Before, Requests
    <2> QED
      BY <2>1, <2>4, <2>5 DEF ServesOn, ServesLast, Ends, GoesOn
  <1>6. CASE Arrives \/ ClientCloses \/ UNCHANGED vars \/ Finished
    BY <1>3, <1>6 DEF Arrives, ClientCloses, Finished, vars, network
  <1>7. CASE TimesOut \/ ReadsTooLittle \/ DropThrows \/ ReadsGarbage
    BY <1>3, <1>7
    DEF TimesOut, ReadsTooLittle, DropThrows, ReadsGarbage, Ends, network
  <1>8. CASE ReadsBlock \/ ReadsRequest \/ Drops \/ DropsAtEof
    BY <1>3, <1>8 DEF ReadsBlock, ReadsRequest, Drops, DropsAtEof, network
  <1>9. CASE ReadsLines \/ LinesEnd \/ ReadsBody
    BY <1>3, <1>9 DEF ReadsLines, LinesEnd, ReadsBody, network
  <1> QED
    BY <1>4, <1>5, <1>6, <1>7, <1>8, <1>9 DEF Next, Reads

LEMMA InitInv == Init => IInv
  <1> SUFFICES ASSUME Init PROVE IInv
    OBVIOUS
  <1>1. Placed /\ TypeOK
    BY InitPlaced DEF Placed
  <1>2. item = 1 /\ served = 0
    BY Zenon DEF Init
  <1>3. Requests \subseteq Nat \ {0}
    BY <1>1, RequestNumbers
  <1>4. Before(1) = {}
    <2>1. \A i \in Requests : ~(i < 1)
      BY <1>3
    <2> QED
      BY <2>1 DEF Before
  <1>5. Cardinality(Before(1)) = 0
    BY <1>4, FS_EmptySet
  <1>6. Cardinality(Before(1)) <= Cardinality(Before(1 + 1))
    BY <1>1, RequestsBefore
  <1> QED
    BY <1>1, <1>2, <1>5, <1>6 DEF IInv, ServedInOrder

(* The inductive invariant of the reader: it keeps its place, as far into *)
(* an item as the loop that reads it has counted.                         *)
THEOREM Invariance == Spec => []IInv
  <1>1. Placed /\ [Next]_vars => Placed'
    <2> SUFFICES ASSUME Placed, [Next]_vars PROVE Placed'
      OBVIOUS
    <2>1. CASE UNCHANGED vars
      <3>1. UNCHANGED <<stream, arrived, eof, pc, item, end, at, size, read, served, why>>
        BY <2>1 DEF vars, network, dropping
      <3>2. TypeOK'
        BY <3>1 DEF Placed, TypeOK
      <3>3. NeverPastItem' /\ LostPlaceHasCause'
        BY <3>1 DEF Placed, NeverPastItem, LostPlaceHasCause, Current
      <3>4. DropKeepsCount => DropKeepsCount'
        BY <3>1, SameItem DEF DropKeepsCount
      <3>5. HasPlace'
        BY <3>1, <3>4, SameItem DEF Placed, HasPlace, EndOf
      <3> QED
        BY <3>2, <3>3, <3>5 DEF Placed
    <2> QED
      BY <2>1, ClientStep, StartStep, DropStep, RequestStep, OtherStep
      DEF Next, Reads, Finished
  <1>2. IInv /\ [Next]_vars => IInv'
    BY <1>1, ServedStep DEF IInv
  <1> QED
    BY <1>2, InitInv, PTL DEF Spec

(* Dropping a block never takes a byte of what follows it, and reading a  *)
(* request never takes one of the next.                                   *)
THEOREM ReadsWithinItems == Spec => []NeverPastItem
  <1>1. IInv => NeverPastItem
    BY DEF IInv, Placed
  <1> QED
    BY <1>1, Invariance, PTL

(* The place in a stream is lost after a negative byte of a size, or in a *)
(* request with a body or at the end of the stream, only.                 *)
THEOREM PlaceIsKept == Spec => []LostPlaceHasCause
  <1>1. IInv => LostPlaceHasCause
    BY DEF IInv, Placed
  <1> QED
    BY <1>1, Invariance, PTL

(* However TCP cuts the stream, a reader that has its place has served    *)
(* every request before it once, and until it loses it serves none of     *)
(* them a second time.                                                    *)
THEOREM ServedOnce == Spec => [](ServedInOrder /\ served <= Cardinality(Requests))
  <1>1. IInv => served <= Cardinality(Requests)
    <2> SUFFICES ASSUME IInv PROVE served <= Cardinality(Requests)
      OBVIOUS
    <2>1. TypeOK /\ ServedInOrder /\ item \in Nat /\ served \in Nat
      <3>1. TypeOK /\ ServedInOrder /\ served \in Nat
        BY DEF IInv, Placed, TypeOK
      <3> QED
        BY <3>1, RequestNumbers
    <2>2. IsFiniteSet(Requests)
      BY <2>1, RequestNumbers
    <2>3. Before(item + 1) \subseteq Requests
      BY DEF Before
    <2>4. Cardinality(Before(item + 1)) <= Cardinality(Requests)
      BY <2>2, <2>3, FS_Subset
    <2>5. Cardinality(Before(item + 1)) \in Nat /\ Cardinality(Requests) \in Nat
      <3>1. item + 1 \in Nat
        BY <2>1
      <3>2. Cardinality(Before(item + 1)) \in Nat
        BY <2>1, <3>1, RequestsBefore
      <3> QED
        BY <2>2, <3>2, FS_CardinalityType
    <2> QED
      BY <2>1, <2>4, <2>5 DEF ServedInOrder
  <1>2. IInv => ServedInOrder
    BY DEF IInv
  <1> QED
    BY <1>1, <1>2, Invariance, PTL
====
