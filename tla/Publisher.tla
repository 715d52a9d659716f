---- MODULE Publisher ----
(***************************************************************************)
(* The publishing side: the owner of the encoders (CameraLivingView or     *)
(* ScreenRecordService), the two encoders with their output thread and     *)
(* their Handler thread, the recorder thread, and the parameter sets that  *)
(* reach StreamServer.                                                     *)
(*                                                                         *)
(* A codec call outside the codec's started state throws                   *)
(* IllegalStateException, and an exception nobody catches ends the Android *)
(* process: `crashed` names what threw it.                                 *)
(***************************************************************************)
EXTENDS Naturals

CONSTANTS
    MaxFormats,     \* bound: how often each encoder announces an output format
    MaxBlocks       \* bound: blocks waiting in a Handler's queue

Kind == {"video", "audio"}

ASSUME PublisherAssumption == MaxFormats \in [Kind -> Nat] /\ MaxBlocks \in Nat

VARIABLES
    owner,          \* who owns the encoders: "camera" or "screen"
    pc,             \* where the owner's thread is
    listening,      \* the controllers whose mListener is set
    connected,      \* rtspService (camera) or mRtspServer (screen) is not null
    codec,          \* the state of each MediaCodec
    isStart,        \* isStart of H264VideoEncProcessor and of AudioEncoder
    paused,         \* isPausing of the video thread, isPause of the recorder
    out,            \* where each output thread is: H264VideoEncProcessor, Drain
    formats,        \* how many output formats it has dequeued
    looper,         \* each encoder's Handler thread: none, on, quit
    blocks,         \* the blocks posted to it
    busy,           \* whether it is running one
    rec,            \* where the recorder's thread is
    isRecording,    \* its flag
    recorder,       \* whether AudioRecord is recording
    stopped,        \* whether stopRecording has run, and before the thread: early
    server,         \* mSPS, mPPS and mAudioCfg of StreamServer, by format; 0 is null
    crashed         \* what has ended the process

ownerVars == <<owner, pc, listening, connected>>
handlerVars == <<looper, blocks, busy>>
recorderVars == <<rec, isRecording, recorder, stopped>>
vars == <<ownerVars, codec, isStart, paused, out, formats, handlerVars, recorderVars,
          server, crashed>>

Parameter == {"sps", "pps", "config"}

TypeOK ==
    /\ owner \in {"camera", "screen"}
    /\ pc \in {"listen", "video", "recorder", "handler", "audio", "serve", "live",
               "joinVideo", "quitVideo", "stopRecorder", "joinRecorder", "quitAudio",
               "joinAudio", "releaseAudio", "done"}
    /\ listening \in SUBSET Kind
    /\ connected \in BOOLEAN
    /\ codec \in [Kind -> {"configured", "started", "stopped", "released"}]
    /\ isStart \in [Kind -> BOOLEAN]
    /\ paused \in [Kind -> BOOLEAN]
    /\ out \in [Kind -> {"new", "top", "pausing", "dequeue", "data", "sps", "pps",
                         "config", "ended"}]
    /\ formats \in [Kind -> Nat]
    /\ looper \in [Kind -> {"none", "on", "quit"}]
    /\ blocks \in [Kind -> Nat]
    /\ busy \in [Kind -> BOOLEAN]
    /\ rec \in {"new", "ready", "top", "pausing", "read", "offer", "ended"}
    /\ isRecording \in BOOLEAN
    /\ recorder \in BOOLEAN
    /\ stopped \in {"no", "early", "yes"}
    /\ server \in [Parameter -> Nat]
    /\ crashed \in {"no", "unprepared", "block", "thread", "secondStart"}

(* The camera's owner sets its listeners last, the screen's first.        *)
Init ==
    /\ owner \in {"camera", "screen"}
    /\ pc = IF owner = "screen" THEN "listen" ELSE "video"
    /\ listening = {}
    /\ connected = FALSE
    /\ codec = [k \in Kind |-> "configured"]
    /\ isStart = [k \in Kind |-> FALSE]
    /\ paused = [k \in Kind |-> FALSE]
    /\ out = [k \in Kind |-> "new"]
    /\ formats = [k \in Kind |-> 0]
    /\ looper = [k \in Kind |-> IF k = "video" THEN "on" ELSE "none"]
    /\ blocks = [k \in Kind |-> 0]
    /\ busy = [k \in Kind |-> FALSE]
    /\ rec = "new"
    /\ isRecording = FALSE
    /\ recorder = FALSE
    /\ stopped = "no"
    /\ server = [p \in Parameter |-> 0]
    /\ crashed = "no"

(* A call of the codec of k: it throws unless the codec is started.       *)
Uses(k, who) == crashed' = IF codec[k] = "started" THEN crashed ELSE who

----------------------------------------------------------------------------
(* The owner sets up: initEncoders of the view, onCreate of the service.  *)

SetsListeners ==
    /\ pc = "listen"
    /\ listening' = Kind
    /\ pc' = IF owner = "screen" THEN "video" ELSE "live"
    /\ UNCHANGED <<owner, connected, codec, isStart, paused, out, formats, handlerVars,
                   recorderVars, server, crashed>>

(* startEncoding                                                          *)
StartsVideo ==
    /\ pc = "video" /\ pc' = "recorder"
    /\ codec' = [codec EXCEPT !["video"] = "started"]
    /\ isStart' = [isStart EXCEPT !["video"] = TRUE]
    /\ out' = [out EXCEPT !["video"] = "top"]
    /\ UNCHANGED <<owner, listening, connected, paused, formats, handlerVars,
                   recorderVars, server, crashed>>

(* startRecording: the recorder's thread starts, unless the AudioRecord   *)
(* could not be initialized, which leaves its listener without a block ...*)
StartsRecorder ==
    /\ pc = "recorder" /\ pc' = "handler"
    /\ \/ recorder' = TRUE /\ rec' = "ready"
       \/ UNCHANGED <<recorder, rec>>
    /\ UNCHANGED <<owner, listening, connected, codec, isStart, paused, out, formats,
                   handlerVars, isRecording, stopped, server, crashed>>

(* ... before prepareEncode makes the Handler it posts to ...             *)
MakesHandler ==
    /\ pc = "handler" /\ pc' = "audio"
    /\ looper' = [looper EXCEPT !["audio"] = "on"]
    /\ UNCHANGED <<owner, listening, connected, codec, isStart, paused, out, formats,
                   blocks, busy, recorderVars, server, crashed>>

(* ... and starts the codec that its blocks use.                          *)
StartsAudio ==
    /\ pc = "audio" /\ pc' = IF owner = "screen" THEN "serve" ELSE "listen"
    /\ codec' = [codec EXCEPT !["audio"] = "started"]
    /\ isStart' = [isStart EXCEPT !["audio"] = TRUE]
    /\ out' = [out EXCEPT !["audio"] = "top"]
    /\ UNCHANGED <<owner, listening, connected, paused, formats, handlerVars,
                   recorderVars, server, crashed>>

(* The service creates its server last; the view is given rtspService     *)
(* when the activity's binding is there, which may be at any time.        *)
Connects ==
    /\ ~connected
    /\ connected' = TRUE
    /\ \/ owner = "screen" /\ pc = "serve" /\ pc' = "live"
       \/ owner = "camera" /\ UNCHANGED pc
    /\ UNCHANGED <<owner, listening, codec, isStart, paused, out, formats, handlerVars,
                   recorderVars, server, crashed>>

----------------------------------------------------------------------------
(* The owner leaves: release of the view, onDestroy of the service.       *)

KeepsStart(k) == UNCHANGED isStart
ClearsStart(k) == isStart' = [isStart EXCEPT ![k] = FALSE]

StopsVideo ==
    /\ pc = "live" /\ owner = "camera" /\ pc' = "joinVideo"
    /\ ClearsStart("video")
    /\ UNCHANGED <<owner, listening, connected, codec, paused, out, formats, handlerVars,
                   recorderVars, server, crashed>>

(* join() has no bound.                                                   *)
JoinTimesOut(k) == TRUE
Joined(k) == out[k] = "ended"

JoinsVideo ==
    /\ pc = "joinVideo" /\ pc' = "quitVideo"
    /\ Joined("video")
    /\ codec' = [codec EXCEPT !["video"] = "stopped"]
    /\ UNCHANGED <<owner, listening, connected, isStart, paused, out, formats, handlerVars,
                   recorderVars, server, crashed>>

(* Only now the Handler's blocks are removed.                             *)
ReleasesVideo ==
    /\ pc = "quitVideo" /\ pc' = "stopRecorder"
    /\ codec' = [codec EXCEPT !["video"] = "released"]
    /\ looper' = [looper EXCEPT !["video"] = "quit"]
    /\ blocks' = [blocks EXCEPT !["video"] = 0]
    /\ listening' = listening \ {"video"}
    /\ UNCHANGED <<owner, connected, isStart, paused, out, formats, busy, recorderVars,
                   server, crashed>>

KeepsRecording == UNCHANGED isRecording
ClearsRecording == isRecording' = FALSE

StopsRecorder ==
    /\ pc = "stopRecorder" /\ pc' = "joinRecorder"
    /\ ClearsRecording
    /\ paused' = [paused EXCEPT !["audio"] = FALSE]
    /\ stopped' = IF rec = "ready" THEN "early" ELSE "yes"
    /\ UNCHANGED <<owner, listening, connected, codec, isStart, out, formats, handlerVars,
                   rec, recorder, server, crashed>>

(* join(100) returns whether the thread has ended or not. The recorder is *)
(* stopped and its listener taken away.                                   *)
JoinsRecorder ==
    /\ pc = "joinRecorder" /\ pc' = "quitAudio"
    /\ recorder' = FALSE
    /\ UNCHANGED <<owner, listening, connected, codec, isStart, paused, out, formats,
                   handlerVars, rec, isRecording, stopped, server, crashed>>

(* quitSafely and removeCallbacksAndMessages                              *)
LeavesQueue(k) == UNCHANGED blocks
EmptiesQueue(k) == blocks' = [blocks EXCEPT ![k] = 0]

QuitsAudio ==
    /\ pc = "quitAudio" /\ pc' = "joinAudio"
    /\ looper' = [looper EXCEPT !["audio"] = "quit"]
    /\ EmptiesQueue("audio")
    /\ ClearsStart("audio")
    /\ UNCHANGED <<owner, listening, connected, codec, paused, out, formats, busy,
                   recorderVars, server, crashed>>

JoinsAudio ==
    /\ pc = "joinAudio" /\ pc' = "releaseAudio"
    /\ Joined("audio")
    /\ codec' = [codec EXCEPT !["audio"] = "stopped"]
    /\ UNCHANGED <<owner, listening, connected, isStart, paused, out, formats, handlerVars,
                   recorderVars, server, crashed>>

ReleasesAudio ==
    /\ pc = "releaseAudio" /\ pc' = "done"
    /\ codec' = [codec EXCEPT !["audio"] = "released"]
    /\ listening' = {}
    /\ UNCHANGED <<owner, connected, isStart, paused, out, formats, handlerVars,
                   recorderVars, server, crashed>>

(* onDestroy starts the video encoder where it should stop it: neither    *)
(* the codec nor the thread can be started twice.                         *)
DestroysScreen ==
    /\ pc = "live" /\ owner = "screen"
    /\ listening' = {}
    /\ crashed' = "secondStart"
    /\ UNCHANGED <<owner, pc, connected, codec, isStart, paused, out, formats, handlerVars,
                   recorderVars, server>>

(* pauseEncoding and resumeEncoding, pause and resume of the controllers  *)
Pauses(k) ==
    /\ pc = "live" /\ owner = "camera"
    /\ paused' = [paused EXCEPT ![k] = ~@]
    /\ UNCHANGED <<ownerVars, codec, isStart, out, formats, handlerVars, recorderVars,
                   server, crashed>>

----------------------------------------------------------------------------
(* The output threads: H264VideoEncProcessor and DrainEncodeDataProcessor *)

OutGoto(k, label) == out' = [out EXCEPT ![k] = label]

ChecksStart(k) ==
    /\ out[k] = "top"
    /\ OutGoto(k, IF ~isStart[k] THEN "ended"
                  ELSE IF k = "video" THEN "pausing" ELSE "dequeue")
    /\ UNCHANGED <<ownerVars, codec, isStart, paused, formats, handlerVars, recorderVars,
                   server, crashed>>

(* The video thread sleeps here while it is paused, whatever isStart is.  *)
GoesOn ==
    /\ out["video"] = "pausing" /\ ~paused["video"]
    /\ OutGoto("video", "dequeue")
    /\ UNCHANGED <<ownerVars, codec, isStart, paused, formats, handlerVars, recorderVars,
                   server, crashed>>

(* The video encoder is fed with frames once everything is set up. Frames *)
(* of the camera are blocks of its Handler, the screen's go to its        *)
(* surface.                                                               *)
Fed(k) == k = "video" =>
    pc \notin {"listen", "video", "recorder", "handler", "audio", "serve"}

(* dequeueOutputBuffer: an encoder announces its format before its data.  *)
DequeuesNothing(k) ==
    /\ out[k] = "dequeue" /\ OutGoto(k, "top")
    /\ Uses(k, "thread")
    /\ UNCHANGED <<ownerVars, codec, isStart, paused, formats, handlerVars, recorderVars,
                   server>>

DequeuesFormat(k) ==
    /\ out[k] = "dequeue" /\ Fed(k) /\ formats[k] < MaxFormats[k]
    /\ OutGoto(k, IF k = "video" THEN "sps" ELSE "config")
    /\ formats' = [formats EXCEPT ![k] = @ + 1]
    /\ Uses(k, "thread")
    /\ UNCHANGED <<ownerVars, codec, isStart, paused, handlerVars, recorderVars, server>>

DequeuesData(k) ==
    /\ out[k] = "dequeue" /\ Fed(k) /\ formats[k] > 0
    /\ OutGoto(k, "data")
    /\ Uses(k, "thread")
    /\ UNCHANGED <<ownerVars, codec, isStart, paused, formats, handlerVars, recorderVars,
                   server>>

(* The listeners' chain: mListener of the controller, the owner's         *)
(* callback, push() of the server, all but the last with a null check.    *)
Attached(k) == k \in listening /\ connected

(* push() stores a parameter; nobody keeps one for a later listener.      *)
DeliverOnce(k, p) ==
    server' = IF Attached(k) /\ (p = "sps" => server[p] = 0)
                THEN [server EXCEPT ![p] = formats[k]] ELSE server
Deliver(k, p) ==
    server' = IF Attached(k) THEN [server EXCEPT ![p] = formats[k]] ELSE server

PushesSpsOnly ==
    /\ out["video"] = "sps" /\ OutGoto("video", "top")
    /\ Deliver("video", "sps")
    /\ UNCHANGED <<ownerVars, codec, isStart, paused, formats, handlerVars, recorderVars,
                   crashed>>

PushesSps ==
    /\ out["video"] = "sps" /\ OutGoto("video", "pps")
    /\ Deliver("video", "sps")
    /\ UNCHANGED <<ownerVars, codec, isStart, paused, formats, handlerVars, recorderVars,
                   crashed>>

PushesPps ==
    /\ out["video"] = "pps" /\ OutGoto("video", "top")
    /\ Deliver("video", "pps")
    /\ UNCHANGED <<ownerVars, codec, isStart, paused, formats, handlerVars, recorderVars,
                   crashed>>

PushesConfig ==
    /\ out["audio"] = "config" /\ OutGoto("audio", "top")
    /\ Deliver("audio", "config")
    /\ UNCHANGED <<ownerVars, codec, isStart, paused, formats, handlerVars, recorderVars,
                   crashed>>

(* onVData or onAData, then releaseOutputBuffer                           *)
PushesData(k) ==
    /\ out[k] = "data" /\ OutGoto(k, "top")
    /\ Uses(k, "thread")
    /\ UNCHANGED <<ownerVars, codec, isStart, paused, formats, handlerVars, recorderVars,
                   server>>

Output(k) ==
    \/ ChecksStart(k) \/ DequeuesNothing(k) \/ DequeuesFormat(k) \/ DequeuesData(k)
    \/ PushesData(k)
    \/ k = "video" /\ (GoesOn \/ PushesSps \/ PushesPps)
    \/ k = "audio" /\ PushesConfig

----------------------------------------------------------------------------
(* The Handler threads                                                    *)

(* post() on a Handler whose looper has quit does nothing.                *)
Post(k) == blocks' = [blocks EXCEPT ![k] = IF looper[k] = "on" THEN @ + 1 ELSE @]

(* process() offers a frame of the camera.                                *)
OffersFrame ==
    /\ owner = "camera" /\ Fed("video") /\ pc # "done"
    /\ blocks["video"] < MaxBlocks
    /\ Post("video")
    /\ UNCHANGED <<ownerVars, codec, isStart, paused, out, formats, looper, busy,
                   recorderVars, server, crashed>>

(* mCodec of the video controller is null once it is released.            *)
BlockUses(k) == IF k = "video" /\ codec[k] = "released"
                  THEN UNCHANGED crashed
                  ELSE Uses(k, "block")

BlockStarts(k) ==
    /\ ~busy[k] /\ blocks[k] > 0
    /\ busy' = [busy EXCEPT ![k] = TRUE]
    /\ blocks' = [blocks EXCEPT ![k] = @ - 1]
    /\ BlockUses(k)
    /\ UNCHANGED <<ownerVars, codec, isStart, paused, out, formats, looper, recorderVars,
                   server>>

(* It fills an input buffer, or had got none.                             *)
BlockEnds(k) ==
    /\ busy[k]
    /\ busy' = [busy EXCEPT ![k] = FALSE]
    /\ BlockUses(k) \/ UNCHANGED crashed
    /\ UNCHANGED <<ownerVars, codec, isStart, paused, out, formats, looper, blocks,
                   recorderVars, server>>

----------------------------------------------------------------------------
(* The recorder's thread                                                  *)

RecGoto(label) ==
    /\ rec' = label
    /\ UNCHANGED <<ownerVars, codec, isStart, paused, out, formats, looper, busy, recorder,
                   stopped, server>>

(* run() sets the flag itself.                                            *)
RecorderBegins ==
    /\ rec = "ready" /\ RecGoto("top")
    /\ isRecording' = TRUE
    /\ UNCHANGED <<blocks, crashed>>

RecorderChecks ==
    /\ rec = "top" /\ RecGoto(IF isRecording THEN "pausing" ELSE "ended")
    /\ UNCHANGED <<isRecording, blocks, crashed>>

(* Its pause loop looks at isRecording as well.                           *)
LeavesPause == ~(paused["audio"] /\ isRecording)

RecorderGoesOn ==
    /\ rec = "pausing" /\ LeavesPause /\ RecGoto("read")
    /\ UNCHANGED <<isRecording, blocks, crashed>>

(* read() fails once the recorder is stopped.                             *)
RecorderReads ==
    /\ rec = "read" /\ RecGoto(IF recorder THEN "offer" ELSE "top")
    /\ UNCHANGED <<isRecording, blocks, crashed>>

(* offerEncode uses a property that prepareEncode initializes.            *)
RecorderOffers ==
    /\ rec = "offer" /\ RecGoto("top")
    /\ blocks["audio"] < MaxBlocks
    /\ IF recorder
         THEN /\ Post("audio")
              /\ crashed' = IF looper["audio"] = "none" THEN "unprepared" ELSE crashed
         ELSE UNCHANGED <<blocks, crashed>>
    /\ UNCHANGED isRecording

Recorder ==
    \/ RecorderBegins \/ RecorderChecks \/ RecorderGoesOn
    \/ RecorderReads \/ RecorderOffers

----------------------------------------------------------------------------
SetUp == SetsListeners \/ StartsVideo \/ StartsRecorder \/ MakesHandler \/ StartsAudio

Release ==
    \/ JoinsVideo \/ ReleasesVideo \/ StopsRecorder \/ JoinsRecorder
    \/ QuitsAudio \/ JoinsAudio \/ ReleasesAudio

Step ==
    \/ SetUp \/ Connects \/ StopsVideo \/ Release \/ DestroysScreen
    \/ OffersFrame \/ Recorder
    \/ \E k \in Kind : Pauses(k) \/ Output(k) \/ BlockStarts(k) \/ BlockEnds(k)

(* The process is gone, or every thread has ended.                        *)
Finished ==
    /\ crashed # "no" \/ pc = "done"
    /\ UNCHANGED vars

Next == (crashed = "no" /\ Step) \/ Finished

Spec == Init /\ [][Next]_vars

(* The threads run. When the owner leaves, whether the application pauses *)
(* and what the codecs have to offer is not theirs to decide.             *)
Fairness ==
    /\ WF_vars(crashed = "no" /\ (SetUp \/ (owner = "screen" /\ Connects) \/ Release))
    /\ WF_vars(crashed = "no" /\ Recorder)
    /\ \A k \in Kind : /\ WF_vars(crashed = "no" /\ Output(k))
                       /\ WF_vars(crashed = "no" /\ (BlockStarts(k) \/ BlockEnds(k)))

(* The video encoder gets frames: in the end it announces a format.       *)
EncoderIsFed == SF_vars(crashed = "no" /\ DequeuesFormat("video"))

FairSpec == Spec /\ Fairness /\ EncoderIsFed

----------------------------------------------------------------------------
(* Properties                                                             *)

(* No output thread calls a codec that is not started, or pushes once     *)
(* release() has returned: the owner joins it, without a bound, before it *)
(* stops the codec and takes the listener away.                           *)
OutputThreadsAreSafe ==
    /\ crashed # "thread"
    /\ \A k \in Kind : out[k] \in {"dequeue", "data"} => codec[k] = "started"
    /\ \A k \in Kind : codec[k] = "released" => out[k] = "ended" /\ k \notin listening

(* Once the AAC codec is stopped, no block waits to use it: at most the   *)
(* one that runs already, since quitSafely and removeCallbacks come       *)
(* first. (For the video codec they come last, and it does not hold.)     *)
NoBlockOutlivesAudio ==
    codec["audio"] \in {"stopped", "released"} => blocks["audio"] = 0

(* rtspDescribe answers with parameter sets, and not with 503.            *)
Describable == server["sps"] # 0 /\ server["pps"] # 0

(* What DESCRIBE finds belongs together, save between the two pushes of a *)
(* new format, when the server has its SPS with the PPS before it.        *)
ParameterSetsMatch ==
    Describable => \/ server["sps"] = server["pps"]
                   \/ out["video"] = "pps" /\ server["sps"] = server["pps"] + 1

(* The slices a server gets are of the format it describes: a new format  *)
(* replaces both parameter sets before its first slice is pushed.         *)
SlicesMatchDescription ==
    (out["video"] = "data" /\ Describable) =>
        \A p \in {"sps", "pps"} : server[p] = formats["video"]

(* release() returns: no join waits for ever, unless the video thread was *)
(* paused, whose loop does not look at isStart.                           *)
ReleaseEnds ==
    (pc = "joinVideo" /\ ~paused["video"]) ~> (pc = "done" \/ crashed # "no")

(* The recorder's thread, if it was started, ends after stopRecording,    *)
(* unless this came before its first step, which sets the flag again.     *)
RecorderEnds == stopped = "yes" ~> (rec \in {"new", "ended"} \/ crashed # "no")

(* A server that is connected before the video encoder announces its      *)
(* first format can be described in the end.                              *)
EarlyServerIsDescribable ==
    (Attached("video") /\ formats["video"] = 0)
        ~> (Describable \/ pc # "live" \/ paused["video"] \/ crashed # "no")

----------------------------------------------------------------------------
(* The inductive invariant.                                               *)

(* A thread that runs has a started codec.                                *)
RunningHasCodec ==
    /\ crashed # "thread"
    /\ pc = "video" \/ (pc = "listen" /\ owner = "screen") => out["video"] = "new"
    /\ \A k \in Kind : out[k] \notin {"new", "ended"} => codec[k] = "started"
    /\ pc \in {"quitVideo", "stopRecorder", "joinRecorder", "quitAudio", "joinAudio",
               "releaseAudio", "done"} => out["video"] = "ended"
    /\ pc \in {"releaseAudio", "done"} => out["audio"] = "ended"
    /\ \A k \in Kind : codec[k] = "released" => out[k] = "ended" /\ k \notin listening
    /\ codec["video"] = "released" => pc \in {"stopRecorder", "joinRecorder", "quitAudio",
                                             "joinAudio", "releaseAudio", "done"}
    /\ codec["audio"] = "released" => pc = "done"

AudioQueueIsClosed ==
    /\ pc \in {"joinAudio", "releaseAudio", "done"} =>
           looper["audio"] = "quit" /\ blocks["audio"] = 0
    /\ codec["audio"] \in {"stopped", "released"} => pc \in {"releaseAudio", "done"}

(* What the server has of video format f, by how far its pushes are.      *)
ServerFollowsFormat ==
    LET f == formats["video"]
        s == server["sps"]
        p == server["pps"]
    IN  /\ out["video"] = "sps" => f # 0 /\ s \in {0, f - 1} /\ p \in {0, f - 1}
        /\ out["video"] = "pps" => /\ f # 0 /\ s \in {0, f} /\ p \in {0, f - 1}
                                   /\ s = 0 => p = 0
        /\ out["video"] \notin {"sps", "pps"} => s \in {0, f} /\ p \in {0, f}
        /\ (out["video"] # "pps" /\ s # 0) => p = s
        /\ s # 0 \/ p # 0 => Attached("video") \/ out["video"] = "ended" \/ crashed # "no"

IInv == /\ TypeOK
        /\ RunningHasCodec
        /\ AudioQueueIsClosed
        /\ ServerFollowsFormat
====
