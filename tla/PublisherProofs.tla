---- MODULE PublisherProofs ----
(***************************************************************************)
(* The publisher for any number of formats and any length of the Handlers' *)
(* queues: the joins keep the output threads away from stopped codecs, and *)
(* what the server describes is the format of the slices it gets.          *)
(***************************************************************************)
EXTENDS Publisher, TLAPS

(* Nothing but an exception ends the process.                             *)
LEMMA StepCases ==
  ASSUME [Next]_vars
  PROVE  (crashed = "no" /\ Step) \/ UNCHANGED vars
  BY DEF Next, Finished

LEMMA InitInv == Init => IInv
  <1> SUFFICES ASSUME Init PROVE IInv
    OBVIOUS
  <1>1. TypeOK
    BY DEF Init, TypeOK, Kind, Parameter
  <1>2. RunningHasCodec /\ AudioQueueIsClosed
    BY DEF Init, RunningHasCodec, AudioQueueIsClosed, Kind
  <1>3. ServerFollowsFormat
    BY DEF Init, ServerFollowsFormat, Kind, Parameter
  <1> QED
    BY <1>1, <1>2, <1>3 DEF IInv

LEMMA Kinds == "video" \in Kind /\ "audio" \in Kind
  BY DEF Kind

LEMMA Parameters == "sps" \in Parameter /\ "pps" \in Parameter /\ "config" \in Parameter
  BY DEF Parameter

(* Types, one group of actions after the other.                           *)
LEMMA TypeStep ==
  ASSUME TypeOK, Step
  PROVE  TypeOK'
  <1> USE Kinds, Parameters DEF TypeOK, ownerVars, handlerVars, recorderVars
  <1>1. CASE SetUp \/ Connects
    <2>1. CASE SetsListeners
      BY <2>1 DEF SetsListeners
    <2>2. CASE Connects
      BY <2>2 DEF Connects
    <2>3. CASE StartsVideo
      BY <2>3 DEF StartsVideo
    <2>4. CASE StartsAudio
      BY <2>4 DEF StartsAudio
    <2>5. CASE StartsRecorder
      BY <2>5 DEF StartsRecorder
    <2>6. CASE MakesHandler
      BY <2>6 DEF MakesHandler
    <2> QED
      BY <1>1, <2>1, <2>2, <2>3, <2>4, <2>5, <2>6 DEF SetUp
  <1>2. CASE StopsVideo
    BY <1>2 DEF StopsVideo, ClearsStart
  <1>3. CASE DestroysScreen
    BY <1>3 DEF DestroysScreen
  <1>4. CASE Release
    <2>1. CASE JoinsVideo
      BY <2>1 DEF JoinsVideo
    <2>2. CASE ReleasesVideo
      BY <2>2 DEF ReleasesVideo
    <2>3. CASE StopsRecorder
      BY <2>3 DEF StopsRecorder, ClearsRecording
    <2>4. CASE JoinsRecorder
      BY <2>4 DEF JoinsRecorder
    <2>5. CASE QuitsAudio
      BY <2>5 DEF QuitsAudio, EmptiesQueue, ClearsStart
    <2>6. CASE JoinsAudio
      BY <2>6 DEF JoinsAudio
    <2>7. CASE ReleasesAudio
      BY <2>7 DEF ReleasesAudio
    <2> QED
      BY <1>4, <2>1, <2>2, <2>3, <2>4, <2>5, <2>6, <2>7 DEF Release
  <1>5. CASE OffersFrame
    BY <1>5 DEF OffersFrame, Post
  <1>6. CASE Recorder
    <2>1. CASE RecorderOffers
      <3>1. blocks' \in [Kind -> Nat]
        BY <2>1 DEF RecorderOffers, Post
      <3> QED
        BY <2>1, <3>1 DEF RecorderOffers, RecGoto
    <2>2. CASE RecorderBegins
      BY <2>2 DEF RecorderBegins, RecGoto
    <2>3. CASE RecorderChecks
      BY <2>3 DEF RecorderChecks, RecGoto
    <2>4. CASE RecorderGoesOn \/ RecorderReads
      BY <2>4 DEF RecorderGoesOn, RecorderReads, RecGoto
    <2> QED
      BY <1>6, <2>1, <2>2, <2>3, <2>4 DEF Recorder
  <1>7. ASSUME NEW k \in Kind, Pauses(k)
        PROVE  TypeOK'
    BY <1>7 DEF Pauses
  <1>8. ASSUME NEW k \in Kind, BlockStarts(k) \/ BlockEnds(k)
        PROVE  TypeOK'
    <2>1. crashed' \in {"no", "unprepared", "block", "thread", "secondStart"}
      BY <1>8 DEF BlockStarts, BlockEnds, BlockUses, Uses
    <2>2. blocks' \in [Kind -> Nat]
      BY <1>8 DEF BlockStarts, BlockEnds
    <2>3. busy' \in [Kind -> BOOLEAN]
      BY <1>8 DEF BlockStarts, BlockEnds
    <2> QED
      BY <1>8, <2>1, <2>2, <2>3 DEF BlockStarts, BlockEnds
  <1>9. ASSUME NEW k \in Kind, Output(k)
        PROVE  TypeOK'
    <2>1. CASE ChecksStart(k) \/ GoesOn
      BY <2>1 DEF ChecksStart, GoesOn, OutGoto
    <2>2. CASE DequeuesNothing(k) \/ DequeuesFormat(k) \/ DequeuesData(k) \/ PushesData(k)
      BY <2>2 DEF DequeuesNothing, DequeuesFormat, DequeuesData, PushesData, OutGoto, Uses
    <2>3. CASE PushesSps \/ PushesPps \/ PushesConfig
      BY <2>3 DEF PushesSps, PushesPps, PushesConfig, OutGoto, Deliver
    <2> QED
      BY <1>9, <2>1, <2>2, <2>3 DEF Output
  <1> QED
    BY <1>1, <1>2, <1>3, <1>4, <1>5, <1>6, <1>7, <1>8, <1>9 DEF Step

(* The owner stops a codec only when its output thread has ended.         *)
LEMMA RunningStep ==
  ASSUME TypeOK, RunningHasCodec, Step
  PROVE  RunningHasCodec'
  <1> USE DEF TypeOK, RunningHasCodec, Kind, ownerVars, handlerVars, recorderVars
  <1>1. CASE SetUp \/ Connects
    BY <1>1 DEF SetUp, Connects, SetsListeners, StartsVideo, StartsRecorder, MakesHandler,
                StartsAudio
  <1>2. CASE StopsVideo \/ DestroysScreen
    BY <1>2 DEF StopsVideo, DestroysScreen
  <1>3. CASE JoinsVideo \/ ReleasesVideo \/ StopsRecorder \/ JoinsRecorder
    BY <1>3 DEF JoinsVideo, Joined, ReleasesVideo, StopsRecorder, JoinsRecorder
  <1>4. CASE QuitsAudio \/ JoinsAudio \/ ReleasesAudio
    BY <1>4 DEF QuitsAudio, JoinsAudio, Joined, ReleasesAudio
  <1>5. CASE OffersFrame
    BY <1>5 DEF OffersFrame
  <1>6. CASE Recorder
    BY <1>6 DEF Recorder, RecorderBegins, RecorderChecks, RecorderGoesOn, RecorderReads,
                RecorderOffers, RecGoto
  <1>7. ASSUME NEW k \in Kind, Pauses(k) \/ BlockStarts(k) \/ BlockEnds(k)
        PROVE  RunningHasCodec'
    BY <1>7 DEF Pauses, BlockStarts, BlockEnds, BlockUses, Uses
  <1>8. ASSUME NEW k \in Kind, Output(k)
        PROVE  RunningHasCodec'
    <2>1. CASE ChecksStart(k) \/ GoesOn
      BY <2>1 DEF ChecksStart, GoesOn, OutGoto
    <2>2. CASE DequeuesNothing(k) \/ DequeuesFormat(k) \/ DequeuesData(k) \/ PushesData(k)
      BY <2>2 DEF DequeuesNothing, DequeuesFormat, DequeuesData, PushesData, OutGoto, Uses
    <2>3. CASE PushesSps \/ PushesPps \/ PushesConfig
      BY <2>3 DEF PushesSps, PushesPps, PushesConfig, OutGoto
    <2> QED
      BY <1>8, <2>1, <2>2, <2>3 DEF Output
  <1> QED
    BY <1>1, <1>2, <1>3, <1>4, <1>5, <1>6, <1>7, <1>8 DEF Step, Release

(* A Handler that has quit takes no block any more.                       *)
LEMMA QueueStep ==
  ASSUME TypeOK, AudioQueueIsClosed, Step
  PROVE  AudioQueueIsClosed'
  <1> USE DEF TypeOK, AudioQueueIsClosed, Kind, ownerVars, handlerVars, recorderVars
  <1>1. CASE SetUp \/ Connects
    BY <1>1 DEF SetUp, Connects, SetsListeners, StartsVideo, StartsRecorder, MakesHandler,
                StartsAudio
  <1>2. CASE StopsVideo \/ DestroysScreen
    BY <1>2 DEF StopsVideo, DestroysScreen
  <1>3. CASE JoinsVideo \/ ReleasesVideo \/ StopsRecorder \/ JoinsRecorder
    BY <1>3 DEF JoinsVideo, ReleasesVideo, StopsRecorder, JoinsRecorder
  <1>4. CASE QuitsAudio \/ JoinsAudio \/ ReleasesAudio
    BY <1>4 DEF QuitsAudio, JoinsAudio, ReleasesAudio, EmptiesQueue
  <1>5. CASE OffersFrame \/ Recorder
    BY <1>5 DEF OffersFrame, Recorder, RecorderBegins, RecorderChecks, RecorderGoesOn,
                RecorderReads, RecorderOffers, RecGoto, Post
  <1>6. ASSUME NEW k \in Kind, Pauses(k) \/ BlockStarts(k) \/ BlockEnds(k)
        PROVE  AudioQueueIsClosed'
    BY <1>6 DEF Pauses, BlockStarts, BlockEnds
  <1>7. ASSUME NEW k \in Kind, Output(k)
        PROVE  AudioQueueIsClosed'
    BY <1>7 DEF Output, ChecksStart, GoesOn, DequeuesNothing, DequeuesFormat, DequeuesData,
                PushesData, PushesSps, PushesPps, PushesConfig
  <1> QED
    BY <1>1, <1>2, <1>3, <1>4, <1>5, <1>6, <1>7 DEF Step, Release

(* Only the video thread and the owner's listeners matter to the          *)
(* parameter sets, and a listener is taken away when the thread has ended.*)
LEMMA ServerStep ==
  ASSUME TypeOK, RunningHasCodec, ServerFollowsFormat, crashed = "no", Step
  PROVE  ServerFollowsFormat'
  <1> USE DEF TypeOK, Kind, Parameter, ownerVars, handlerVars, recorderVars
  <1>1. CASE SetUp \/ Connects
    <2>1. CASE SetsListeners \/ Connects
      BY <2>1 DEF SetsListeners, Connects, ServerFollowsFormat, Attached
    <2>2. CASE StartsVideo
      BY <2>2 DEF StartsVideo, RunningHasCodec, ServerFollowsFormat, Attached
    <2>3. CASE StartsAudio \/ StartsRecorder \/ MakesHandler
      BY <2>3 DEF StartsAudio, StartsRecorder, MakesHandler, ServerFollowsFormat, Attached
    <2> QED
      BY <1>1, <2>1, <2>2, <2>3 DEF SetUp
  <1>2. CASE StopsVideo \/ DestroysScreen
    BY <1>2 DEF StopsVideo, DestroysScreen, ServerFollowsFormat, Attached
  <1>3. CASE JoinsVideo \/ StopsRecorder \/ JoinsRecorder \/ QuitsAudio \/ JoinsAudio
    BY <1>3 DEF JoinsVideo, StopsRecorder, JoinsRecorder, QuitsAudio, JoinsAudio,
                ServerFollowsFormat, Attached
  <1>4. CASE ReleasesVideo \/ ReleasesAudio
    BY <1>4 DEF ReleasesVideo, ReleasesAudio, RunningHasCodec, ServerFollowsFormat, Attached
  <1>5. CASE OffersFrame \/ Recorder
    BY <1>5 DEF OffersFrame, Recorder, RecorderBegins, RecorderChecks, RecorderGoesOn,
                RecorderReads, RecorderOffers, RecGoto, ServerFollowsFormat, Attached
  <1>6. ASSUME NEW k \in Kind, Pauses(k) \/ BlockStarts(k) \/ BlockEnds(k)
        PROVE  ServerFollowsFormat'
    BY <1>6 DEF Pauses, BlockStarts, BlockEnds, BlockUses, Uses, ServerFollowsFormat,
                Attached
  <1>7. ASSUME NEW k \in Kind, Output(k)
        PROVE  ServerFollowsFormat'
    <2>1. CASE ChecksStart(k) \/ GoesOn
      BY <2>1 DEF ChecksStart, GoesOn, OutGoto, ServerFollowsFormat, Attached
    <2>2. CASE DequeuesNothing(k) \/ DequeuesData(k) \/ PushesData(k)
      BY <2>2 DEF DequeuesNothing, DequeuesData, PushesData, OutGoto, ServerFollowsFormat,
                  Attached, Uses
    <2>3. CASE DequeuesFormat(k)
      BY <2>3 DEF DequeuesFormat, OutGoto, ServerFollowsFormat, Attached, Uses
    <2>4. CASE PushesSps
      BY <2>4 DEF PushesSps, Deliver, OutGoto, ServerFollowsFormat, Attached
    <2>5. CASE PushesPps
      BY <2>5 DEF PushesPps, Deliver, OutGoto, ServerFollowsFormat, Attached
    <2>6. CASE PushesConfig
      BY <2>6 DEF PushesConfig, Deliver, OutGoto, ServerFollowsFormat, Attached
    <2> QED
      BY <1>7, <2>1, <2>2, <2>3, <2>4, <2>5, <2>6 DEF Output
  <1> QED
    BY <1>1, <1>2, <1>3, <1>4, <1>5, <1>6, <1>7 DEF Step, Release

(* The inductive invariant of the publisher.                              *)
THEOREM Invariance == Spec => []IInv
  <1>1. IInv /\ [Next]_vars => IInv'
    <2> SUFFICES ASSUME IInv, [Next]_vars PROVE IInv'
      OBVIOUS
    <2>1. CASE crashed = "no" /\ Step
      BY <2>1, TypeStep, RunningStep, QueueStep, ServerStep DEF IInv
    <2>2. CASE UNCHANGED vars
      BY <2>2 DEF vars, ownerVars, handlerVars, recorderVars, IInv, TypeOK,
                  RunningHasCodec, AudioQueueIsClosed, ServerFollowsFormat, Attached
    <2> QED
      BY <2>1, <2>2, StepCases
  <1> QED
    BY <1>1, InitInv, PTL DEF Spec

(* No output thread ever calls a stopped codec, or pushes what the codec  *)
(* had when it was released, whatever the owner does.                     *)
THEOREM SafeOutputThreads == Spec => []OutputThreadsAreSafe
  <1>1. IInv => OutputThreadsAreSafe
    BY DEF IInv, TypeOK, RunningHasCodec, OutputThreadsAreSafe
  <1> QED
    BY <1>1, Invariance, PTL

(* No block waits for the AAC codec once it is stopped.                   *)
THEOREM NoLateAudio == Spec => []NoBlockOutlivesAudio
  <1>1. IInv => NoBlockOutlivesAudio
    BY DEF IInv, AudioQueueIsClosed, NoBlockOutlivesAudio
  <1> QED
    BY <1>1, Invariance, PTL

(* DESCRIBE finds an SPS with its PPS, save between their two pushes.     *)
THEOREM MatchingSets == Spec => []ParameterSetsMatch
  <1>1. IInv => ParameterSetsMatch
    BY DEF IInv, TypeOK, Kind, Parameter, ServerFollowsFormat, ParameterSetsMatch,
           Describable
  <1> QED
    BY <1>1, Invariance, PTL

(* The slices a describable server gets are of the described format.      *)
THEOREM DescribedSlices == Spec => []SlicesMatchDescription
  <1>1. IInv => SlicesMatchDescription
    BY DEF IInv, TypeOK, Kind, Parameter, ServerFollowsFormat, SlicesMatchDescription,
           Describable
  <1> QED
    BY <1>1, Invariance, PTL
====
