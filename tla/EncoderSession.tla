--------------------------- MODULE EncoderSession ---------------------------
(***************************************************************************)
(* What of the rendered pictures gets into the H264 stream, and with which *)
(* metadata: the fresh-render gate, the NVENC session with the frames it   *)
(* holds back, source time that may go backwards, and the packets of an    *)
(* output.  The render thread takes native commands and encodes in the     *)
(* render-target callback; a ROS subscriber comes and goes on a thread of  *)
(* its own.  How the ROS queue and the RTP queue go on from there is in    *)
(* RosStream and RtpPacer.                                                 *)
(*                                                                         *)
(* External: a sensor that was inactive first shows the picture, and the   *)
(* time, of before (fresh_render_gate.h); NVENC puts out the frames of a   *)
(* session in order and starts it with an IDR.                             *)
(***************************************************************************)
EXTENDS H264Packets

CONSTANTS
  AccessUnits,     \* NVENC's outputs: sequences of [code, nal]
  MaxHeld,         \* frames NVENC may hold back (kMaximumPendingEncodedFrames)
  MaxTime,         \* bound: source time
  MaxFrames,       \* bound: frames submitted and accepted
  MaxChanges,      \* bound: commands, connections, captures, resets, failures
  None

ASSUME SessionAssumption ==
  /\ MaxHeld \in Nat /\ MaxTime \in Nat
  /\ MaxFrames \in Nat /\ MaxChanges \in Nat

\* What NVENC puts out are access units.
ASSUME UnitsAssumption == \A unit \in AccessUnits : IsAccessUnit(unit)

VARIABLES
  \* Demand: native, ROS, capture.
  desiredActive, awaitingStart, rosConsumersActive, snapshotNeedsRender,
  renderPhase,           \* "post", "starting", "commanded", "target"
  callback,              \* the ROS callback: between its critical sections
  \* The sensor.
  sensorActive,
  replay,                \* it still shows the picture of before
  sourceTime,            \* LastMeasurementTime
  \* The gate.
  rosFreshRenderGeneration, observedGeneration, sourceTimeFloor,
  \* The session: whether it exists, the frames NVENC holds, their metadata,
  \* the source time seen last (and, a history, the one submitted last),
  \* whether there was one before; the epoch of the ROS branch and whether it
  \* waits for its first IDR; the force-IDR flag.
  session,
  cleanupEncoderRequested,
  encodedFrameIndex,     \* the transport clock
  \* The output of this callback: unit, packets made of it (whether the pacer
  \* takes them is in RtpPacer); the last ones published.
  output, packets, lastTimestamp, published,
  \* History and bounds.
  overlapped,            \* a command and a first connection overlapped
  missed,                \* time went back before the session had looked at it
  changes

demandVars == <<desiredActive, awaitingStart, rosConsumersActive,
                snapshotNeedsRender>>
sensorVars == <<sensorActive, replay, sourceTime>>
gateVars == <<rosFreshRenderGeneration, observedGeneration, sourceTimeFloor>>
outputVars == <<output, packets, lastTimestamp, published>>
vars == <<demandVars, renderPhase, callback, sensorVars, gateVars, session,
          cleanupEncoderRequested, encodedFrameIndex, outputVars, overlapped,
          missed, changes>>

NoOutput == [frame |-> None, metadata |-> None, unit |-> <<>>]

Init ==
  /\ desiredActive = FALSE /\ awaitingStart = FALSE
  /\ rosConsumersActive = FALSE /\ snapshotNeedsRender = FALSE
  /\ renderPhase = "post" /\ callback = "idle"
  /\ sensorActive = FALSE /\ replay = FALSE /\ sourceTime = 0
  /\ rosFreshRenderGeneration = 0 /\ observedGeneration = 0
  /\ sourceTimeFloor = None
  /\ session = [exists |-> FALSE, held |-> <<>>, pending |-> <<>>,
                last |-> None, submitted |-> 0, ever |-> FALSE, epoch |-> 1,
                opening |-> TRUE, force |-> FALSE]
  /\ cleanupEncoderRequested = FALSE /\ encodedFrameIndex = 0
  /\ output = NoOutput /\ packets = <<>>
  /\ lastTimestamp = None /\ published = None
  /\ overlapped = FALSE /\ missed = FALSE /\ changes = 0

Change == changes < MaxChanges /\ changes' = changes + 1

----------------------------------------------------------------------------
(* The steps of a session, as functions of it. *)

\* BeginROSEpoch.
EpochBegun(s) ==
  [s EXCEPT !.epoch = @ + 1, !.opening = TRUE, !.force = TRUE]

\* DestroyEncoder.
Destroyed(s) ==
  [s EXCEPT !.exists = FALSE, !.held = <<>>, !.pending = <<>>, !.last = None,
            !.submitted = 0]

\* Mutant: a session of the earlier timeline lives on.
WentBackAndLives(s) == EpochBegun(s)

WentBack(s) == Destroyed(EpochBegun(s))

\* ObserveSourceTime.
Observed(s, time) ==
  [(IF s.last # None /\ time < s.last THEN WentBack(s) ELSE s)
     EXCEPT !.last = time]

\* EnsureEncoder: a new session is an epoch of its own, unless the one that is
\* waiting for its IDR can be it.  It forgets the source time just observed.
Ensured(s) ==
  IF s.exists THEN s
  ELSE LET d == Destroyed(s)
           e == IF d.ever /\ ~d.opening THEN EpochBegun(d) ELSE d
       IN  [e EXCEPT !.exists = TRUE, !.ever = TRUE, !.force = TRUE]

\* Mutant: the transport clock belongs to the session.
IndexOfSession(s) == IF s.exists THEN encodedFrameIndex ELSE 0

IndexFor(s) == encodedFrameIndex

----------------------------------------------------------------------------
(* The render thread after rendering: native commands and demand. *)

\* OnPostRender follows a render of any camera, of this one or not.
IsPostRender == renderPhase \in {"post", "target"}

\* ApplyNativeControl up to the exchange of desiredActive_.  The mutation slot
\* has one command at a time.
TakeCommand(active) ==
  /\ IsPostRender /\ ~awaitingStart
  /\ Change
  /\ renderPhase' = IF active /\ ~desiredActive THEN "starting" ELSE "commanded"
  /\ desiredActive' = active /\ awaitingStart' = active
  /\ session' = [session EXCEPT !.force = @ \/ (active /\ ~desiredActive)]
  /\ overlapped' = (overlapped \/ callback = "looked")
  /\ output' = NoOutput /\ packets' = <<>>
  /\ UNCHANGED <<rosConsumersActive, snapshotNeedsRender, callback, sensorVars,
                 gateVars, cleanupEncoderRequested, encodedFrameIndex,
                 lastTimestamp, published, missed>>

\* The rest of OnPostRender.  A session nobody needs gets a last callback.
RenderDemand ==
  LET needed == desiredActive \/ rosConsumersActive \/ snapshotNeedsRender
  IN  /\ sensorActive' = (needed \/ session.exists)
      /\ replay' = (replay \/ (~sensorActive /\ sensorActive'))
      /\ cleanupEncoderRequested' =
           (cleanupEncoderRequested \/ (~needed /\ session.exists))
      /\ renderPhase' = IF sensorActive' THEN "target" ELSE "post"

\* A start of a stream nobody has arms the gate, then the demand.
ApplyCommand ==
  /\ renderPhase \in {"starting", "commanded"}
  /\ rosFreshRenderGeneration' =
       IF renderPhase = "starting" /\ ~rosConsumersActive
         THEN rosFreshRenderGeneration + 1 ELSE rosFreshRenderGeneration
  /\ RenderDemand
  /\ UNCHANGED <<demandVars, callback, sourceTime, observedGeneration,
                 sourceTimeFloor, session, encodedFrameIndex, outputVars,
                 overlapped, missed, changes>>

PostRenderIdle ==
  /\ IsPostRender
  /\ RenderDemand
  /\ output' = NoOutput /\ packets' = <<>>
  /\ UNCHANGED <<demandVars, callback, sourceTime, gateVars, session,
                 encodedFrameIndex, lastTimestamp, published, overlapped,
                 missed, changes>>

----------------------------------------------------------------------------
(* The render-target callback. *)

\* The picture of a callback, and its time.  As long as a sensor that was
\* inactive replays, its time stands still.
\* Failures, and times that go back, are counted.
Rendered(time, failures) ==
  /\ sensorActive /\ renderPhase = "target" /\ renderPhase' = "post"
  /\ sourceTime' = time
  /\ replay' = (replay /\ time = sourceTime)
  /\ UNCHANGED <<rosConsumersActive, snapshotNeedsRender, callback,
                 sensorActive, rosFreshRenderGeneration>>
  /\ time <= sourceTime + 1
  /\ changes' = changes + failures + (IF time < sourceTime THEN 1 ELSE 0)
  /\ changes' <= MaxChanges
  /\ cleanupEncoderRequested' = FALSE

ShouldEncode == desiredActive \/ rosConsumersActive

\* No stream is in demand: a session is released when that was asked for.
TargetIdle(time) ==
  /\ Rendered(time, 0) /\ ~ShouldEncode
  /\ session' = IF cleanupEncoderRequested /\ ~snapshotNeedsRender
                  THEN Destroyed(session) ELSE session
  /\ UNCHANGED <<desiredActive, awaitingStart, observedGeneration,
                 sourceTimeFloor, encodedFrameIndex, outputVars, overlapped,
                 missed>>

IsNewGeneration == rosFreshRenderGeneration # observedGeneration

\* FreshRenderGate::Observe meets a new generation: the floor is taken, and
\* what NVENC holds goes away.
TargetDiscard(time) ==
  /\ Rendered(time, 0) /\ ShouldEncode /\ IsNewGeneration
  /\ observedGeneration' = rosFreshRenderGeneration
  /\ sourceTimeFloor' = time
  /\ session' = [Destroyed(session) EXCEPT !.force = TRUE]
  /\ UNCHANGED <<desiredActive, awaitingStart, encodedFrameIndex, outputVars,
                 overlapped, missed>>

\* Mutant: one discarded callback is enough.
IsAccepted1(time) == ~IsNewGeneration

\* Only a callback whose time is not the floor's.
IsAccepted(time) == ~IsNewGeneration /\ sourceTimeFloor # time

TargetWait(time) ==
  /\ Rendered(time, 0) /\ ShouldEncode /\ ~IsNewGeneration /\ ~IsAccepted(time)
  /\ UNCHANGED <<desiredActive, awaitingStart, observedGeneration,
                 sourceTimeFloor, session, encodedFrameIndex, outputVars,
                 overlapped, missed>>

\* A render that is accepted, with the session it meets.
Accepted(time, failures) ==
  /\ Rendered(time, failures) /\ ShouldEncode /\ IsAccepted(time)
  /\ encodedFrameIndex < MaxFrames
  /\ sourceTimeFloor' = None
  /\ UNCHANGED observedGeneration
  /\ missed' = (missed \/ (session.exists /\ session.last = None
                             /\ time < session.submitted))

\* FailNativeEncoderTransition: a start that is awaited is withdrawn.
Fails(s) ==
  /\ session' = IF awaitingStart THEN Destroyed(s) ELSE s
  /\ desiredActive' = (desiredActive /\ ~awaitingStart)
  /\ awaitingStart' = FALSE
  /\ overlapped' = (overlapped \/ (awaitingStart /\ callback = "looked"))

\* The texture, the session or the copy is not to be had; nothing is submitted.
EncodeNotSubmitted(time) ==
  /\ Accepted(time, 1)
  /\ \/ Fails(session)
     \/ Fails(Destroyed(Observed(session, time)))
     \/ Fails(Ensured(Observed(session, time)))
  /\ UNCHANGED <<encodedFrameIndex, outputVars>>

Frame(s, time) ==
  [timestamp |-> IndexFor(session), time |-> time,
   dormant |-> replay', key |-> s.force]

Metadata(frame) == [timestamp |-> frame.timestamp, time |-> frame.time]

\* The frame is with NVENC and its metadata in pendingEncodedFrames_.
Submitted(s, frame) ==
  [s EXCEPT !.held = Append(@, frame), !.pending = Append(@, Metadata(frame)),
            !.force = FALSE, !.submitted = frame.time]

\* NVENC refuses it, its output cannot be locked, or it holds back too much:
\* the session is given up in an epoch of its own.
EncodeBreaks(time) ==
  LET s == Ensured(Observed(session, time))
      n == Submitted(s, Frame(s, time))
  IN  /\ Accepted(time, IF Len(n.held) > MaxHeld THEN 0 ELSE 1)
      /\ Fails(Destroyed(EpochBegun(n)))
      /\ UNCHANGED <<encodedFrameIndex, outputVars>>

Encoded(s) ==
  /\ session' = s
  /\ encodedFrameIndex' = IndexFor(session) + 1
  /\ awaitingStart' = FALSE
  /\ UNCHANGED <<desiredActive, overlapped>>

\* NV_ENC_ERR_NEED_MORE_INPUT.
EncodeHeld(time) ==
  LET s == Ensured(Observed(session, time))
      n == Submitted(s, Frame(s, time))
  IN  /\ Accepted(time, 0) /\ Len(n.held) <= MaxHeld
      /\ Encoded(n)
      /\ UNCHANGED outputVars

\* Mutant: the metadata of the frame submitted last.
TakeNewest(pending, timestamp) == Len(pending)

\* TakePendingEncodedFrame: the metadata with the timestamp NVENC gives back.
TakePending(pending, timestamp) ==
  SelectInSeq(pending, LAMBDA metadata : metadata.timestamp = timestamp)

\* EnqueueROSAccessUnit, but for its queue: an epoch that waits for its IDR
\* gets no delta.
IsPublished(s, key) == rosConsumersActive /\ (key \/ ~s.opening)

\* The session without the frame whose output it was, as the end of
\* SendH264AccessUnit leaves it.
WithoutFrame(s, found, opening, force) ==
  [s EXCEPT !.held = Tail(@), !.pending = RemoveAt(@, found),
            !.opening = opening, !.force = force]

\* An output that SendH264AccessUnit returns FALSE for: its frame was encoded
\* all the same.
SendFails(s) ==
  /\ Fails(s)
  /\ encodedFrameIndex' = IndexFor(session) + 1

\* NVENC puts out the oldest frame it has: a forced one is an IDR, one that
\* follows may be.  The pacer may refuse a delta that is behind the queue or
\* too large, after the ROS branch has had it (EnqueueRTPAccessUnit).
EncodeOutput(time) ==
  LET s == Ensured(Observed(session, time))
      n == Submitted(s, Frame(s, time))
      frame == n.held[1]
      found == TakePending(n.pending, frame.timestamp)
      metadata == n.pending[found]
  IN  /\ \E unit \in AccessUnits, failures \in {0, 1} :
           LET nals == SplitAnnexB(AnnexB(unit))
               key == IsKeyframe(nals)
               opening == n.opening /\ ~(rosConsumersActive /\ key)
               force == rosConsumersActive /\ n.opening /\ ~key
           IN  /\ Accepted(time, failures)
               /\ frame.key => key
               /\ output' = [frame |-> frame, metadata |-> metadata, unit |-> unit]
               /\ packets' = IF desiredActive THEN Packetize(nals) ELSE <<>>
               /\ published' = IF IsPublished(n, key)
                                 THEN [epoch |-> n.epoch, time |-> metadata.time]
                                 ELSE published
               /\ \/ /\ failures = 0
                     /\ Encoded(WithoutFrame(n, found, opening, force))
                  \/ /\ failures = 1 /\ desiredActive /\ ~key
                     /\ SendFails(WithoutFrame(n, found, opening, TRUE))
      /\ lastTimestamp' = frame.timestamp

\* SendH264AccessUnit finds no NAL unit in the output: its frame is gone, and
\* neither branch has seen it.
EncodeLost(time) ==
  LET s == Ensured(Observed(session, time))
      n == Submitted(s, Frame(s, time))
      found == TakePending(n.pending, n.held[1].timestamp)
  IN  /\ Accepted(time, 1)
      /\ SendFails(WithoutFrame(n, found, n.opening, FALSE))
      /\ UNCHANGED outputVars

Target(time) ==
  \/ TargetIdle(time) \/ TargetDiscard(time) \/ TargetWait(time)
  \/ EncodeNotSubmitted(time) \/ EncodeBreaks(time) \/ EncodeHeld(time)
  \/ EncodeOutput(time) \/ EncodeLost(time)

----------------------------------------------------------------------------
(* The ROS subscriber callbacks, and captures. *)

\* OnROSSubscriberConnected: its first critical section and the epoch, a look
\* at the native stream, and the demand.
Connect ==
  /\ callback = "idle" /\ ~rosConsumersActive
  /\ Change
  /\ callback' = "epoch"
  /\ session' = EpochBegun(session)
  /\ UNCHANGED <<demandVars, renderPhase, sensorVars, gateVars,
                 cleanupEncoderRequested, encodedFrameIndex, outputVars,
                 overlapped, missed>>

ConnectLooks ==
  /\ callback = "epoch" /\ callback' = "looked"
  /\ rosFreshRenderGeneration' =
       IF desiredActive THEN rosFreshRenderGeneration
       ELSE rosFreshRenderGeneration + 1
  /\ UNCHANGED <<demandVars, renderPhase, sensorVars, observedGeneration,
                 sourceTimeFloor, session, cleanupEncoderRequested,
                 encodedFrameIndex, outputVars, overlapped, missed, changes>>

ConnectActivates ==
  /\ callback = "looked" /\ callback' = "idle"
  /\ rosConsumersActive' = TRUE
  /\ overlapped' = (overlapped \/ renderPhase = "starting")
  /\ UNCHANGED <<desiredActive, awaitingStart, snapshotNeedsRender, renderPhase,
                 sensorVars, gateVars, session, cleanupEncoderRequested,
                 encodedFrameIndex, outputVars, missed, changes>>

\* OnROSSubscriberDisconnected, of the only one.
Disconnect ==
  /\ callback = "idle" /\ rosConsumersActive
  /\ rosConsumersActive' = FALSE
  /\ UNCHANGED <<desiredActive, awaitingStart, snapshotNeedsRender, renderPhase,
                 callback, sensorVars, gateVars, session,
                 cleanupEncoderRequested, encodedFrameIndex, outputVars,
                 overlapped, missed, changes>>

\* A capture wants a render, and has it.
CaptureChanges ==
  /\ snapshotNeedsRender' = ~snapshotNeedsRender
  /\ IF snapshotNeedsRender' THEN Change ELSE UNCHANGED changes
  /\ UNCHANGED <<desiredActive, awaitingStart, rosConsumersActive, renderPhase,
                 callback, sensorVars, gateVars, session,
                 cleanupEncoderRequested, encodedFrameIndex, outputVars,
                 overlapped, missed>>

Next ==
  \/ \E active \in BOOLEAN : TakeCommand(active)
  \/ ApplyCommand \/ PostRenderIdle
  \/ \E time \in 0..MaxTime : Target(time)
  \/ Connect \/ ConnectLooks \/ ConnectActivates \/ Disconnect
  \/ CaptureChanges

Spec == Init /\ [][Next]_vars

----------------------------------------------------------------------------
(* Properties. *)

Times == 0..MaxTime
Metadatas == [timestamp : 0..MaxFrames, time : Times]
FramesOfNVENC == [timestamp : 0..MaxFrames, time : Times,
                  dormant : BOOLEAN, key : BOOLEAN]

\* The type invariant: the values that the render thread, the gate, the
\* session and an output take.
TypeOK ==
  /\ {desiredActive, awaitingStart, rosConsumersActive, snapshotNeedsRender,
      sensorActive, replay, cleanupEncoderRequested, overlapped, missed}
       \subseteq BOOLEAN
  /\ renderPhase \in {"post", "starting", "commanded", "target"}
  /\ callback \in {"idle", "epoch", "looked"}
  /\ sourceTime \in Times /\ sourceTimeFloor \in Times \cup {None}
  /\ rosFreshRenderGeneration \in Nat /\ observedGeneration \in Nat
  /\ session.held \in Seq(FramesOfNVENC) /\ session.pending \in Seq(Metadatas)
  /\ session.last \in Times \cup {None} /\ session.epoch \in Nat
  /\ encodedFrameIndex \in 0..MaxFrames
  /\ output = NoOutput \/ (/\ output.frame \in FramesOfNVENC
                          /\ output.metadata \in Metadatas
                          /\ output.unit \in AccessUnits)
  /\ changes \in 0..MaxChanges

\* A picture from before the sensor was inactive is neither in NVENC nor in an
\* output (the gate of postRenderTargetUpdate: "It must not feed either NVENC's
\* delayed-output state or the new ROS epoch").  The exception: a command and a
\* first connection that overlapped may each leave the gate to the other.
DormantIsNotEncoded ==
  ~overlapped =>
    /\ \A i \in DOMAIN session.held : ~session.held[i].dormant
    /\ output.frame # None => ~output.frame.dormant

\* An output goes out with the source time of the very picture it shows, also
\* when NVENC held pictures back, failed, or was set up anew in between
\* (TakePendingEncodedFrame, and what DestroyEncoder clears).
OutputHasItsMetadata ==
  output.frame # None => output.metadata = Metadata(output.frame)

\* The transport clock never goes back, through however many sessions
\* (EnsureEncoder: "Keep it monotonic for the entire camera-plugin lifetime").
TimestampsIncrease ==
  [][/\ output' # output /\ output'.frame # None /\ lastTimestamp # None
     => lastTimestamp' > lastTimestamp]_vars

\* Within an epoch of the ROS branch source time does not go back, whatever the
\* simulation does (ObserveSourceTime).  The exception: EnsureEncoder makes a
\* new session forget the time of its first picture, so a step back that comes
\* right after that picture opens no epoch.
EpochKeepsItsTimeline ==
  [][/\ published # None /\ published'.epoch = published.epoch /\ ~missed'
     => published'.time >= published.time]_published

\* What a receiver puts together again from the RTP packets of an output are
\* its NALs, and the packets are those of RFC 6184 (SplitAnnexB and
\* SendH264AccessUnit).
PacketsCarryTheUnit ==
  (output.frame # None /\ desiredActive) =>
    /\ Depacketize(packets) = NalsOf(output.unit)
    /\ AreWellFormed(packets)
=============================================================================
