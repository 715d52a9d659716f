# RTSPPublish: the verified model of its RTSP server

This directory holds TLA+ modules for the RTSP server of this repository
(`src/rtspserver`, a Java library) and for the publisher that feeds it with
encoded video and audio (`src/publish`, Kotlin), the TLC configurations that
model-check them, and theorems about them that TLAPS proves. `PROJECT.json` says
which definition stands for which lines of the source.

Paths below are relative to
`src/rtspserver/src/main/java/cn/com/ava/rtspserver/network/` unless they begin
with `src/`; those of the publisher are relative to
`src/publish/src/main/java/cn/com/ava/publish/`.

## 1. The system

An encoder thread of the application calls `StreamServer.push()`. Clients
connect over TCP, speak RTSP (`DESCRIBE`, `SETUP`, `PLAY`, `TEARDOWN`, ...) and
get RTP packets over UDP or interleaved with the RTSP replies.

| component | state it keeps | operations | talks to |
|---|---|---|---|
| `StreamServer` | registry `mConnections`, `mStreams`, tunnel cache, SPS/PPS/audio configuration | `push`, `handleConnection` and its request handlers, connection and stream callbacks, `close` | everything below |
| `TCPListener`, `TCPConnection` | server socket, pool of `MAX_CONNECTIONS` threads; per connection its socket and `mFuture` | `listen`, `handle`, `close` | callbacks into `StreamServer` |
| `StreamConnection` | RTSP session, four packetizer slots, streaming flags, slice queues | `openRTSPSession`, `setup*`, `playRTP`, `stopRTP`, `close`, `push`, `pop*` | packetizers, `StreamServer` |
| `RTP*Packetizer`, `UDP*`, `TCP*` | one streaming thread, sequence number, counters, UDP sockets | `play`, `doSend`, `sendNAL`, `sendFragmentedNAL`, `close` | pops from the connection's queue, raises and lowers its flag |
| `TimeoutCache` | map of cookies to GET connections, one executor thread | `put`, `get`, `remove`, cleanup tasks, `close` | used by the RTSP-over-HTTP tunnel |
| `getRequest`, `readLine`, `read` | where a handler is in its client's byte stream | requests, bodies, interleaved blocks | the socket |
| `DDNSClient` and its subclasses | a `Timer`, its period, a flag | `start`, `updateDDNS`, `parseResult`, `close` | HTTP; started and closed by `setupDDNSClient` |
| `PortMapper` | a port mapping | `close` | UPnP library |
| `VideoStreamController`, `H264VideoEncProcessor` | a `MediaCodec`, an output thread, a Handler | start, pause, resume, stop, release | listener of the owner |
| `AndroidAudioStreamController`, `AudioRecordProcessor`, `AudioEncoder` | a recorder and its thread, a `MediaCodec`, a Handler, an output thread | the same | listener of the owner |
| `CameraLivingView`, `ScreenRecordService` | own both controllers | set-up, release, callbacks | `StreamServer.push` |

What runs concurrently: the listener, up to ten handlers, one streaming thread per
played track, the executor of the cache, the threads of the DDNS client's timers,
and those of the application: its main thread (`close`, set-up, release), the
recorder, and a Handler and an output thread for each encoder (`push`). The
monitor of a `StreamConnection` serialises its `synchronized` methods; `stopRTP`
keeps it while it joins a streaming thread for at most `CLOSE_TIMEOUT`. Flags and
queues are read and written without it.

What makes it hard:

* a join that gives up leaves a thread nobody refers to, which shares the queue
  and the flag with the thread that replaces it;
* `close()` of the application and the handler close the same connection;
* `close()` walks a registry that connections enter and leave meanwhile;
* a POST of the tunnel works on the session and the socket of *another*
  handler's connection, found through a cache whose entries expire, and goes on
  with it when that handler has closed it;
* cleanups of the cache race newer puts of the same key;
* slices of any length are cut into packets of fixed size, with sequence
  numbers that wrap; the queue overflows when a client is slow;
* requests and interleaved blocks share one byte stream, which TCP cuts anywhere
  and a client may leave at any byte;
* an update of the DDNS client outlives the timer that was cancelled under it,
  and its answer closes or restarts whatever there is by then;
* an encoder is stopped while four threads use it, and its parameter sets are
  told once, to whoever listens at that moment.

`PROJECT.json` lists these and the smaller ones as hazards, each at its line.

What makes each component correct, in a sentence:

* connection: it behaves as one RTSP session, its threads end, nothing it opened
  stays behind;
* packetizer: the packets of a stream put whole slices together again, in order;
* cache: a value stays until it is removed, replaced or old, and is then dropped;
* server: whatever can stream is in the registry, every accepted connection ends
  once its client is silent, and `close()` ends what it cancels;
* request reader: no request is read into the next one, and the place is lost for
  known reasons only;
* DDNS client: at most one timer, whose flag tells the truth, and quiet when closed;
* publisher: nobody uses a codec that is stopped, everything ends on release, and
  the server describes the slices it is given.

## 2. The modules

| module | models |
|---|---|
| `RtspSession` | abstract: what a session promises (open, setup, play, release, close) |
| `StreamConnection` | one connection: `SETUP`, `PLAY`, `TEARDOWN` of its own handler or of a tunnel's POSTs, `stopRTP`, both closers, the threads of its packetizers |
| `Cache` | abstract: a map whose values go only when asked or when old |
| `TimeoutCache` | `TimeoutCache.java`, with `put` in its steps outside the lock of the map |
| `ConnectionRegistry` | abstract: which connections are fed, and what closing the server means for them |
| `StreamServer` | listener, pool, handlers, registry, tunnel, MJPEG handlers, `StreamServer.close()` |
| `RequestReader` | `getRequest` and the reading of bodies in `handleConnection`, over a byte stream |
| `SliceStream` | abstract: whole slices or access units, in order, from an IDR on, none twice |
| `MediaStream` | `push`, the queue and the `doSend` of both packetizers, with `sendNAL`, `sendFragmentedNAL`, `sendAudioMuxElement`, for two successive streaming threads |
| `Publisher` | both owners of the encoders, the encoders with their threads, the recorder, the parameter sets in `StreamServer` |
| `DDNSClient` | `DDNSClient.java`, `DuckDNSClient.parseResult` and `setupDDNSClient` |
| `MC*` | the instances for TLC |
| `*Proofs` | the theorems |

How they fit: the server is the outer layer. `StreamServer` sees of each
connection only whether it has tracks, and of its client only that it sends
requests; `StreamConnection` is that connection opened up, `RequestReader` its
handler's step from one request to the next; `MediaStream` is one of its streaming
threads opened up to single packets; and `TimeoutCache` is the tunnel cache that
`StreamServer` uses by its promise. `Publisher` is what calls `push`: it ends in the
parameter sets of the server, where `MediaStream` begins with slices.
`DDNSClient` shares with the server only the calls of its owner. Each
refinement (`ImplementsSession`, `ImplementsCache`, `ImplementsRegistry`,
`ImplementsSliceStream`) is checked by TLC and proved.

### StreamConnection

State: `slot` is the four packetizer fields; `session` is `mRTSPSession # null`;
`current` are the installed packetizers whose `mSeq` began with the `mRTPSeq` of the
open session; `streaming` is `mStreamingH264`/`mStreamingAAC`; `streams` are the
entries of this connection in the server's `mStreams`; `monitor` is who is in a
`stopRTP`. A packetizer has its `kind`, `thread`, `interrupted` and `ports`.

Three kinds of caller exist: the handler, the application's `close()`, and, once a
GET has made the connection a tunnel (`HandlerPolls`), the handlers of POST
connections, which run `rtspSetup`, `rtspPlay` and `rtspTeardown` on it
(`StreamServer.java:617-655`). `pc` and `todo` say which tracks a caller has still
to serve, `request` names the packetizer that its `SETUP` is about to build. A
`synchronized` method is one step, guarded by a free monitor; `stopRTP` is three
(`StopInterrupts`, `StopForgets` when the join returns, `StopReturns`).
`StopForgets` is not guarded by the state of the thread: the join may time out in
any of them. `SETUP` is two steps, since `openRTSPSession` and `setup*` are two
calls and another caller may close or set up in between. An exception closes the
connection of the handler it ends (`Fails`): this one when it is the connection's
own handler, and not when it is a POST. Requests that change nothing (`OPTIONS`,
`DESCRIBE`, `GET_PARAMETER`) have no action.

A POST that has fetched the connection keeps it. When the entry expires, the GET
handler closes the connection, and a `SETUP` of the POST then still opens a
session and builds a packetizer, UDP sockets included, before it touches the
closed socket; nobody closes this connection again. `late` remembers that a
session was opened after `close()` had stopped both streams: it is a history
variable for the properties that name this case.

The streaming thread is `doSend` from `notifyStreamStarted` to
`notifyStreamStopped`, with the flag of the connection and the callback to the
server in two steps each.

### TimeoutCache

`put` is `synchronized`, but the cleanups, `get`, `remove` and `close` are not: so
it has four steps (store, cancel the previous entry's cleanup, schedule, attach
the future) and two ways to throw. A cleanup that has started is not stopped
by `cancel(false)`, nor by an interrupt. Time is a `Tick`: an entry's cleanup is
due `Timeout` ticks after it was scheduled. The variables `age` and `removed` are
looked at by the promise only.

### StreamServer

`pc` of a connection is where its handler is. `future` and the two steps
`ListenerSubmits`, `ListenerAssigns` model the constructor of `TCPConnection`,
which submits `handle()` before it assigns `mFuture`. `AppIterates`,
`AppTakesNext` and `AppShuts` model `StreamServer.java:208-209`, a loop over the
weakly consistent iterator of `ConcurrentLinkedQueue`: `next()` holds one element
ahead and looks for another one before it returns; `c.close()` comes after that,
and may take seconds. So a connection that registers during the last `c.close()`
is missed. `due` is what was registered when the iterator was created. The tunnel
has one cookie, for keys do not interact; expiry may come at any time while the
cache is open.

A handler of `GET /video/mjpeg` is its own streaming thread: it stays in `mjpeg`,
on its thread of the pool, until an interrupt, a failed write or the loss of the
network. `Client` is what a client's bytes or silence make a handler do,
`Proceeds` what it does by itself, and `Serves` the requests, whose reply is a
write that may block.

### RequestReader

Bytes are counted, not spelled. A `stream` is the sequence of items a client
sends, requests (the length of their text and of their body) and blocks (the two
bytes of their size), and the lengths at which TCP may cut it. `at` is how many
bytes the handler has read, `end` where the item ends that it believes to read. A
reader at the start of an item recognises it; one that is elsewhere (`garbage`)
reads on, ends in one of the ways a handler ends, or waits; it is not followed
further, and what it may serve is not counted. An item is `final` when its answer
ends the handler: 400, 405 and 503, a GET without `keep-alive`, an exception of a
request (`StreamServer.java:409-412`, 605-613, 636-639, 655-664). `SignedByte` is
the sign extension of Java's `byte`, which `StreamServer.java:745` does not mask,
and `DropsAtEof` the -1 that line 748 adds to its count. What a request means is
left to `StreamServer`.

### MediaStream

A slice is its codec, its length and whether it is an IDR; an AAC access unit
is a slice that is never cut and stands by itself. `PushChecks` reads the flag,
`PushOffers` fills the queue; a queue that stays full loses the slice. Packets are
records of the bytes they carry (`from`, `to`, offsets into the slice), the FU-A
start and end bits, the sequence number, the length in the array `rtp`, and the
size that the AU header announces. The 14 bytes of overhead are the RTP header,
the FU indicator and header; 12 of them are there for a single NAL unit, which
leaves out the 4 bytes of the start code. Audio needs 16 and checks 12:
`AudioTooLong` has the exception of either.

### Publisher

`owner` is one of the two owners, and `pc` its thread, from set-up (`initEncoders`
or `onCreate`) over `live` to release. The camera's view sets its listeners after
it has started the encoders, the service before; the view gets its server when the
activity's binding is there. `out` is the output thread of each encoder: it reads
`isStart`, dequeues nothing, a new format or data, and calls the listener. A
recorder whose `AudioRecord` is not initialised starts no thread
(`AudioRecordProcessor.kt:52`). `blocks` and `busy` are the queue and the running
block of each Handler, `rec` is the recorder's thread. `server` is what `push` has
stored, by the number of the format it is from, so that sets of two formats can be
told apart. A `MediaCodec` throws outside its started state, and an uncaught
exception ends the process: `crashed` names its thrower, and nothing happens after
it. The code does not exclude the exceptions `unprepared`, `block` and
`secondStart`; the model has them.

### DDNSClient

`live` are the timers that are not cancelled, `task` is what the thread of each
timer does: an update holds no monitor, so it goes on when its timer is cancelled,
and its answer acts on the client as it then is. `Outage` reads `mPeriod` as an
argument, `Restarts` enters `start` later. A `long` is four words of 16 bits
(TLC's integers have 32), so `Thousandfold` has the overflow of `period * 1000`.

## 3. The runs

| run | specification | states | result |
|---|---|---|---|
| `connection` | `BoundedSpec`, two packetizers, one POST at a time | 643,032 | 5 invariants, 3 temporal properties hold |
| `connection_flag` | `SlowReaderSpec` | - | `PlayingStreamIsFlagged` is violated |
| `timeout_cache` | `FairSpec`, 2 keys, 3 entries, timeout 1 | 160,596 | 2 invariants, 2 temporal properties hold |
| `server` | `FairSpec`, 2 connections, 2 threads, with `close()` | 63,918 | 2 invariants, 2 temporal properties hold |
| `server_pool` | `OpenSpec`, 3 connections, 2 threads, no `close()` | 45,120 | 1 liveness property holds |
| `server_close` | as `server` | - | `CloseShutsActiveConnections` is violated |
| `server_tunnel` | as `server` | - | `PostKeepsItsTunnel` is violated |
| `media_stream` | `Spec`, 3 slices, 2 streams, queue of 2 | 1,328,760 | 3 invariants, 2 temporal properties hold |
| `media_report` | as `media_stream` | - | `ReportCountsPackets` is violated |
| `publisher` | `FairSpec`, 2 video formats, 1 waiting block | 359,842 | 5 invariants, 3 liveness properties hold |
| `requests` | `FairSpec`, 14 streams of 3 to 5 items, a buffer of 300 | 18,235 | 3 invariants, 2 liveness properties hold |
| `ddns` | `FairSpec`, 3 timers, 5 answers 911 | 102,948 | 3 invariants, 2 temporal properties hold |

What the passing runs show:

* `connection`. A track never has two packetizers (part of `IInv`), a thread the
  connection has forgotten was told to stop (`ForgottenThreadsAreInterrupted`),
  the session is open while a track is configured (`SessionCoversPacketizers`),
  `PLAY` announces the number its packetizers begin with
  (`PlayAnnouncesFirstSeq`), a closed connection leaves nothing behind but the
  socket of a failed `SETUP` (`NothingLeftBehind`). A UDP stream is silent once
  its stop has returned, a TCP stream once either has closed the connection, and a
  connection that its handler has closed sends nothing at all (`SilentAfterStop`).
  Whoever closes, handler and threads all end (`CloseEndsEverything`), unless the
  handler polls, which `CancelledHandlersEnd` and `ConnectionsEnd` are about. The
  exception to the last three is `late`: a POST that opens a session on the closed
  connection leaves the session, its packetizer and its UDP sockets behind, and
  two such POSTs, one with the `SETUP` and one with an old `PLAY`, can even start
  the stream. What holds then too: the connection is listed and flagged nowhere
  once its threads are over, TCP streams stay silent, and everything else that is
  checked. `ImplementsSession`: with its monitor, joins, closers and requests of
  several handlers it is the session of `RtspSession`.
* `timeout_cache`. `put` never dereferences a missing future while the cache is
  open, entries left alone expire, and no cleanup takes a newer entry away
  (`ImplementsCache`).
* `server`, `server_pool`. A connection with tracks and an open socket is in the
  registry, also when they were set up through another handler; a handler that
  `close()` cancels ends whatever it does, MJPEG included; GETs that hold
  `close()` cancels ends whatever it does, MJPEG included; GETs that hold every
  thread give way to the POST that waits for one, unless a client holds a thread
  by a reply it does not read or an MJPEG stream without frames (`HeldForEver`).
  `ImplementsRegistry`: with a handler per connection, a registry that is walked
  while it changes and requests that work on other handlers' connections, `push`
  feeds registered, open connections only, a connection leaves the registry only
  when it is shut and is never opened again, and `close()` returns only when
  nothing is open that was registered when its walk began. It promises nothing of
  a connection that registers during the walk, which it may meet or miss:
  `server_close` shows one that is missed.
* `media_stream`. Every packet fits and is well formed, an AU header announces
  the bytes that follow it, the packets of a stream put its slices together again
  over the wrap of the sequence number, at most one slice is older than its
  stream, and slices arrive whole, in order, from an IDR on, none twice.
* `publisher`. No output thread uses a codec that is not started, or pushes once
  its codec is released (`OutputThreadsAreSafe`), no block waits for the AAC codec
  once it is stopped (`NoBlockOutlivesAudio`), what `DESCRIBE` finds is of one
  format save between two pushes (`ParameterSetsMatch`), and slices are of the
  format that is described (`SlicesMatchDescription`). `release()` returns unless
  the video thread is paused (`ReleaseEnds`), the recorder ends unless it is
  stopped before its first step (`RecorderEnds`), and a server that is there
  before the first format can be described in the end
  (`EarlyServerIsDescribable`). Each exception is real, and the model has it: a
  paused `release()` waits for ever, an early stop is lost, and a server or
  listener that comes after the first format answers 503 for ever.
* `requests`. Dropping a block or reading a request takes nothing of what follows
  (`NeverPastItem`), so the place can only be lost by reading too little: in a
  block with a byte of its size above 127, which is negative in Java, after a body
  that one read did not return, or at the end of the stream (`LostPlaceHasCause`).
  Of a stream with small blocks and no bodies every request is served up to the
  first whose answer ends the handler, unless TCP delivers the first four bytes of
  an item apart (`PlainStreamIsServed`): a `SETUP` that is refused with 503 is the
  last request, whatever follows it. Both liveness properties except a client that
  does not read a reply (`HeldForEver`). The loop that adds -1 at the end of the
  stream ends too, with an exception, since it soon asks for more than the buffer
  holds (`HandlerEndsAfterClose`).
* `ddns`. However starts and closes overlap there is one timer at most, and
  `isStarted()` tells the truth (`OneTimer`), though `setupDDNSClient` asks and
  starts in two calls. A client that is closed while no update is under way stays
  so until a network is set up (`ClosedStaysQuiet`); one that is under way may
  start it again, also after `StreamServer.close()`. A started client updates again
  (`StartedUpdates`). An answer 911 makes the period a thousand times longer; it
  takes five, half an hour apart, until it wraps and `schedule` throws on the
  timer's thread (`FourOutagesAreSurvived`).

What the violations show, each against a comment of the source:

* `connection_flag`: a thread stuck in a TCP send outlives the join; the client
  configures and plays the track again, the new thread raises the flag, and the
  old one lowers it on its way out. `isStreamingH264()` is then false for a stream
  that plays, and `push` gives it nothing (`StreamConnection.java:238` against 265).
  `SlowReaderSpec` lets the join time out only for a thread in a TCP send, the
  case `RTPVideoPacketizer.close()` describes.
* `server_close`: a connection that is queued, accepted or registered behind the
  iterator, also during the last `c.close()`, is still served after `close()` has
  returned (`StreamServer.java:208` against 202).
* `server_tunnel`: the entry expires between `get` and `put` of a POST; the POST
  puts a closed connection back (`StreamServer.java:624` against 592-595).
  `StreamConnection` has what such a POST can do there (`late`).
* `media_report`: the "sender's packet count" counts slices
  (`RTPVideoPacketizer.java:212` against 169).

Bounds, and why they are enough:

* Two packetizers: one track stopped and configured again while its old thread
  still runs, or two tracks at once. A third would meet either of the two in the
  same way; the theorems hold for any number.
* One POST at a time on the tunnel (`MCPost`), and any number of them one after
  the other: with the other callers that is two that set up and close at once. Two
  at once were checked with one packetizer. `TunnelsAreBounded` leaves out what
  adds states without new cases: a GET that comes after a `SETUP` on its own
  connection, audio of POSTs over UDP, and further requests once one is `late`
  (they could set up the other track; any reply fails). The theorems are about
  `Spec`, without these bounds and for any set of POSTs.
* Three entries on two keys: the entry of a put, the one it replaces and another
  key's. An entry nothing refers to is used again, so the number of puts is not
  bounded. `Timeout = 1` lets a cleanup be due before, while and after its
  key is put again.
* Two connections are a GET and its POST, or one that races `close()`. Three
  connections on two threads let every thread be held by GETs while a POST waits.
  Each connection is handled once.
* `PacketSize = 17` leaves three bytes of payload in a fragment. The lengths are
  an IDR that just fits (9), one of two full fragments (11), a slice of three
  fragments with the last one shorter (12), one without a NAL (4), and audio that
  is empty (0), just fits (1), passes the check but not the copy (5) and does not
  pass (6). Three slices and `Capacity = 2` overflow the queue; `SeqModulus = 4`
  with `FirstSeq = 3` wraps between any two packets; `SizeModulus = 2` is the
  smallest that tells the sizes of audio that fits apart. Two streams are the
  thread that outlived its join and the next one.
* Two formats of the video encoder replace a description once; a third would
  replace the second as the second does the first. One waiting block besides the
  running one is enough for a queue that is emptied or not.
* The 14 streams have a block of every kind of size between two requests: empty,
  small, at either side of the sign of each byte, at and just above the length of
  the buffer; several items in a row; bodies of one and of more bytes; and a
  request in the middle whose answer is the last. TCP cuts around the start, the
  fourth byte and the end of each item. `SocketReadBuffer` is 300 instead of 2048
  for sizes to pass it.
* Three timers: the client's, one that was cancelled under an update, and one more
  for the next start. `MaxOutages = 5` reaches the wrap: from 600 seconds it is the
  fifth answer.

Deadlock is checked in all modules but `MediaStream`, where a state in which
everything has ended is an explicit step (`Finished`, `Ended`; the cache has no such
state: time goes on). `MediaStream` has a bounded encoder and bounded `PLAY`s, so
it stops, and its runs do not check it.

Fairness. A Java thread that can run does run: hence weak fairness of the
handler's, the closers', the listener's, the encoders', the recorder's, the
timers' and the streaming threads' own steps. Nothing is assumed of clients:
reading a request, accepting a connection, a TCP send on an open socket and a
reply (`Serves` of `StreamServer` and of `RequestReader`) carry no fairness, for a
client may neither write nor read, and writes have no timeout
(`TCPConnection.java:179-183`). On a closed socket a read, a write and `accept`
fail, so `~socket /\ HandlerQuits`, `~CanSend /\ ThreadFails`, `~listening /\
AcceptThrows` and the end of a handler whose reply goes to a closed socket are
fair. In `StreamConnection` a reply is in the step that accepts the request, which
is not fair; a handler that polls leaves without fairness. Waiting for a thread of
the pool and expiry of an entry are fair; an executor thread comes round to each
due cleanup (strong fairness, for other cleanups take it meanwhile). Beyond that:

* Only `server_pool` assumes that each client falls silent in the end
  (`ClientsFallSilent`): the socket timeout ends its handler then, while a client
  that sends requests for ever keeps its thread. Of clients that do not read and of
  MJPEG streams without frames it assumes nothing: they keep their thread, and
  `ConnectionsEnd` names them as its exception.
* `requests`: the network delivers what was sent (weak fairness of `Arrives`), and
  a read that waits times out. Whether a client closes, and whether it reads its
  replies, is its own matter.
* `publisher`: whether and when the owner leaves, pauses or connects the view's
  server is not fair. `EncoderIsFed`, strong fairness, says that a video encoder
  which is fed announces its format in the end.
* `ddns`: an update ends, as its connection has timeouts, and a live timer fires.

Assumed of the environment, because nothing in the source says so:

* `Publisher`: `release()` comes after set-up, `pause` and `resume` come in
  between, all from the thread of the owner; the camera's server belongs to
  `RTSPServerService`, which `release()` does not close; a write to a flag is seen
  at once, although the flags are not volatile.
* `DDNSClient`: one application thread calls `setWiFiAvailable`,
  `setMobileAvailable` and `close`; a `long` field is read whole. By the bound,
  one timer always has no update under way.

## 4. The proofs

All theorems hold for every value of the constants that satisfies the named
assumptions: `NoneAssumption`, `CacheAssumption`, `ServerAssumption`,
`StreamAssumption`, `PublisherAssumption`, `StreamsAssumption`, `BufferAssumption`
and `TimerAssumption`. They say that null is not an object, that the timeout, the
pool, the queue and the moduli are positive, that bounds are natural numbers, that
a packet has room for a fragment (`PacketSize > 14`; in the code 1400 over UDP,
1450 for video and 2000 for audio over TCP) and no audio that fits it is too long
for the AU header (`PacketSize < SizeModulus + 16`; in the code 8192), and that a
request is longer than the four bytes that are read first.

In each module `IInv` is the inductive invariant, a conjunction of named
parts. TLC checks it in a run, then `*Proofs` shows that it holds initially and
that every step keeps it, one lemma per part and one case per action.

* `StreamConnectionProofs`. The safety properties are not inductive: a packetizer
  may be forgotten only by who joins it, so `JoinUnderMonitor` ties the join to
  the monitor, the slot and the interrupt; `SlotsKnown` lets `stopRTP` find the
  slot of what it joined; `SetupHasTarget` keeps the packetizers of concurrent
  `SETUP`s apart; `PostExcludes` says that the handler of a tunnel serves nothing
  itself while POSTs do. `ClosingIsFinal` says that what the handler's close has
  stopped stays stopped: between its two stops because it keeps the monitor, and
  after them because there is no session, until a `late` one is opened;
  `ListedWhileRunning`, `FlagHasThread` and `PortsHeld` account for what a thread
  leaves. `ClosedConnectionIsClean` follows from these. `StopSilences` is an
  action property from `PortsHeld` and `DoneHasClosed`: a caller that is done has
  closed the socket. `Refinement` maps each step to at most one step of
  `RtspSession`.
* `TimeoutCacheProofs`. `EntryHasCleanup` needs `FutureSet` (else a put could fail
  before it schedules) and `PutInProgress`. `CleanupNotEarly` ties a cleanup's
  remaining time to its entry's age, and `EntryKnowsKey` lets the cleanup find
  its key: together they make every removal an `Expire` of `Cache` (`Refinement`).
* `StreamServerProofs`. A POST may give tracks to a connection of another handler:
  `TargetsWereSeen` follows connections through the tunnel, `HandledIsRegistered`
  and `OpenSocketHasHandler` then place an open one in the registry.
  `VisitedAreShut` says that what the iterator of `close()` has returned stays
  shut, but for the one that is being closed, although handlers may still serve
  requests; `DueAreShut` says that an iterator which has nothing left has returned
  whatever was registered when it was created and still is: so when the last
  `c.close()` is over, none of it is open. `Refinement` maps each step to at most
  one step of `ConnectionRegistry`, those of a handler (`HandlerRefines`) and the
  shutting by the walk (`ShutRefines`).
* `MediaStreamProofs`. `SendingInOrder` is the loop invariant of
  `sendFragmentedNAL`; `SequenceInOrder` relates `mSeq` to the last packet;
  `QueueInOrder` and `TakenInOrder` say that queue, threads and the pending offer
  hold disjoint, ordered slices; `OneIsStale` counts those older than a stream.
  `PacketForm`, `Reassembly`, `Freshness` and `Refinement` follow, for every packet
  size, slice length and number of streams.
* `PublisherProofs`. `RunningHasCodec` follows an output thread from its start to
  the join, by where the owner is; `AudioQueueIsClosed` says that a looper which
  has quit takes no block any more. `ServerFollowsFormat` says what the server has
  of the current format at each step of the output thread: the difficulty is that
  a listener which is attached between the two pushes of the first format gets its
  PPS only, and that one that is attached stays until the thread has ended or the
  process has.
* `RequestReaderProofs`. `HasPlace` says where the reader is within its item;
  `DropKeepsCount` is the loop invariant of the drop, which counts what was read,
  or less at the end of the stream. `ServedInOrder` counts the requests before the
  reader's item; `ServedOnce` follows from it with the cardinality of that set:
  however TCP cuts the stream, no request is skipped or served twice while the
  reader has its place; what is served after it is lost is not counted.
  `SizeBound` is the arithmetic under it: the size that Java computes is never
  above the one that was sent, and equal to it when both bytes are below 128.
* `DDNSClientProofs`. `CloseKeepsOneTimer` and `StartKeepsOneTimer` give what the
  two methods do under the monitor, whoever calls them; every action is one of
  them, or leaves the client alone. `NoUpdateAfterClose` follows from `OneTimer`,
  since no thread of a timer is left to restart it. `PeriodFollowsOutages` is the
  invariant behind `SurvivesFourOutages`: a chain of restarts begins anew with
  each start of the application, while an answer to the old chain may still
  restart with a longer period, and yet no period has grown more often than there
  were outages. The five periods that are left are computed (`GrownValues`).

Only model-checked: liveness (`CloseEndsEverything`, `EntriesExpire`,
`CancelledHandlersEnd`, `ConnectionsEnd`, `ReleaseEnds`, `RecorderEnds`,
`EarlyServerIsDescribable`, `PlainStreamIsServed`, `HandlerEndsAfterClose`,
`StartedUpdates`), which rests on fairness, outside the prover's reach. Every
invariant, action property and refinement that a passing run checks is proved.

## 5. What is not modelled

Left out for good:

* The native code under `src/rtspserver/src/main/jni` (live555, libsdk, librtsp,
  librtp, 133,310 lines of C and C++, most of the repository's text). It is
  third-party code that is not part of the program: both `externalNativeBuild`
  blocks of `src/rtspserver/build.gradle` (lines 17 and 36) are commented out,
  `native_lib.cpp` uses variables that are commented out in it, and no class loads
  a library. A model of it would say nothing of this system.
* Wording of requests and replies, header fields, authentication, HTTP file,
  sensor and status replies, JPEG compression, time stamps, the bytes of RTP and
  RTCP headers, the text of the SDP and the bits of the audio configuration.
* `getBase64Request`, which takes what one read returns for one request: whether it
  is one depends on its text. For the same reason buffers have no content in
  `Publisher`; the recorder's only buffer, which a posted block copies late, is out.
* `PortMapper` (two calls of the UPnP library), stateless helpers, the Android user
  interface and binder, `CameraView`, the screen recorder modules the server
  does not use.

Simplified: a write of a reply that fails is a `HandlerQuits`; the queue's write
timeout is a lost slice; the tunnel cache in `StreamServer` is its promise; `remove`
of the cache is one step; a `StreamServer` in `Publisher` is its parameter sets.

To follow:

1. An abstract specification of what `Publisher` promises to the server, and its
   refinement.
2. Composition: `StreamServer` over `TimeoutCache` itself, and the media stream's
   flag and queue over `StreamConnection`'s threads.
