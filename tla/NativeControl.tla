--------------------------- MODULE NativeControl ---------------------------
(***************************************************************************)
(* The native mutation path of xgc_media_camera_plugin.cpp: one request is *)
(* admitted on the XRPC executor (HandleControlRequest), handed to the     *)
(* Gazebo render thread through a one-record mailbox (nativeCommand_),     *)
(* acknowledged by what the encoder, the RTP pacer and the ROS data worker *)
(* really did, and answered on the executor (FlushControl).                *)
(*                                                                         *)
(* Threads: the executor (Dispatch and FlushSources are serialised by the  *)
(* host's sources_mutex_, so each is one step), the render thread (a       *)
(* render-target callback, then a post-render event; the stores of a       *)
(* failed transition that the executor can observe apart are steps),       *)
(* the RTP pacer, the ROS data worker and the ROS subscriber callbacks.    *)
(* The capture transaction, the ROS epochs and the pacer's batches appear  *)
(* here only as far as this path reads them; SnapshotCapture, RosStream    *)
(* and RtpPacer have them in full.                                         *)
(***************************************************************************)
EXTENDS Integers, Sequences, FiniteSets

CONSTANTS
  Requests,       \* request ids clients use; a client may send one again
  Jpegs,          \* values of jpeg_quality
  Calibrations,   \* CameraInfo records
  InitJpeg,       \* the authored snapshot quality
  InitCal,        \* the record derived from the native projection in Load
  None,           \* an empty std::optional
  ReceiptSlots,   \* controlReceipts_ (32 in the code)
  Watchers,       \* slots of controlWatchers_ (4 in the code)
  MaxHeld,        \* kMaximumPendingEncodedFrames (4 in the code)
  MaxRevision,    \* bound: mutations stop being admitted at this revision
  MaxEvents,      \* bound: captures stop being admitted at this event
  MaxDisturbances \* bound: changes of ROS demand and resets of simulation time

Ops == {"config", "start", "stop", "request-keyframe"}
Config == [active : BOOLEAN, jpeg : Jpegs, cal : Calibrations]
Command == [revision : Nat, kind : Ops, active : BOOLEAN, jpeg : Jpegs,
            cal : Calibrations \cup {None}]
Mutation == [id : Requests, op : Ops, revision : Nat, cal : BOOLEAN,
             late : BOOLEAN]
Metadata == [revision : Nat, cal : Calibrations]
Receipt == [id : Requests \cup {None}, stage : {"completed", "failed"}]

ASSUME ValuesAssumption ==
  /\ InitJpeg \in Jpegs /\ InitCal \in Calibrations
  /\ None \notin Jpegs \cup Calibrations \cup Requests
  /\ None \notin Command /\ None \notin Mutation /\ None \notin Metadata
  /\ None \notin Nat
ASSUME BoundsAssumption ==
  /\ ReceiptSlots \in Nat \ {0} /\ MaxHeld \in Nat
  /\ MaxRevision \in Nat /\ MaxEvents \in Nat /\ MaxDisturbances \in Nat

VARIABLES
  \* the executor's
  desiredRevision, appliedRevision, desiredConfig, appliedConfig,
  pendingControl, controlReceipts, controlEventRevision, controlWatchers,
  \* the mailbox and the acknowledgement atomics
  nativeCommand, nativeAppliedRevision, nativeFailedRevision,
  nativeAppliedActive, nativeLifecycleState, publishedCalibrationRevision,
  \* the render thread's
  desiredActive, jpegQuality, forceKeyframe, awaitingNativeControl,
  sensorActive, cleanupEncoderRequested, encoderResourcesActive,
  pendingEncodedFrames, freshGate, renderPhase,
  \* the pacer's, the ROS data worker's and the capture's
  rtpQueued, rtpInFlight, calibrationMetadata, rosCameraInfoPending,
  workerCameraInfo, rosWorkerRunning, rosConsumersActive, disturbances, capture,
  \* history: the last answer of a revision, the revisions the render thread
  \* took, and whether an admitted mutation was ever dropped at its deadline
  outcome, consumed, everDropped

answers == <<appliedRevision, appliedConfig, controlReceipts,
             controlEventRevision, controlWatchers>>
acks == <<nativeAppliedRevision, nativeFailedRevision, nativeAppliedActive>>
encoder == <<encoderResourcesActive, pendingEncodedFrames>>
render == <<desiredActive, jpegQuality, forceKeyframe, awaitingNativeControl,
            sensorActive, cleanupEncoderRequested, encoder, freshGate,
            renderPhase>>
rtp == <<rtpQueued, rtpInFlight>>
calibration == <<calibrationMetadata, rosCameraInfoPending>>
worker == <<workerCameraInfo, rosWorkerRunning, publishedCalibrationRevision>>
demand == <<rosConsumersActive, disturbances>>
history == <<outcome, consumed, everDropped>>
vars == <<desiredRevision, desiredConfig, pendingControl, answers,
          nativeCommand, acks, nativeLifecycleState, render, rtp, calibration,
          worker, demand, capture, history>>

Revisions == 1..MaxRevision

(***************************************************************************)
(* Load: the sensor is dormant, the authored configuration is revision 1   *)
(* and counts as applied, and the worker starts once a ROS master is seen. *)
(***************************************************************************)
Init ==
  /\ desiredRevision = 1 /\ appliedRevision = 1
  /\ desiredConfig = [active |-> FALSE, jpeg |-> InitJpeg, cal |-> InitCal]
  /\ appliedConfig = desiredConfig
  /\ pendingControl = None
  /\ controlReceipts = <<>> /\ controlEventRevision = 0
  /\ controlWatchers = [w \in Watchers |-> None]
  /\ nativeCommand = None
  /\ nativeAppliedRevision = 1 /\ nativeFailedRevision = 0
  /\ nativeAppliedActive = FALSE /\ nativeLifecycleState = "idle"
  /\ publishedCalibrationRevision = 0
  /\ desiredActive = FALSE /\ jpegQuality = InitJpeg
  /\ forceKeyframe = TRUE /\ awaitingNativeControl = None
  /\ sensorActive = FALSE /\ cleanupEncoderRequested = FALSE
  /\ encoderResourcesActive = FALSE /\ pendingEncodedFrames = <<>>
  /\ freshGate = "open" /\ renderPhase = "post"
  /\ rtpQueued = FALSE /\ rtpInFlight = FALSE
  /\ calibrationMetadata = [revision |-> 1, cal |-> InitCal]
  /\ rosCameraInfoPending = FALSE /\ workerCameraInfo = None
  /\ rosWorkerRunning = FALSE
  /\ rosConsumersActive = FALSE /\ disturbances = 0
  /\ capture = "none"
  /\ outcome = [r \in Revisions |-> "none"]
  /\ consumed = {} /\ everDropped = FALSE

-----------------------------------------------------------------------------
(***************************************************************************)
(* The XRPC executor.                                                      *)
(***************************************************************************)

\* Mutant: the newest receipt is not looked at.
RememberedOlder(id) ==
  \E i \in DOMAIN controlReceipts :
    i # Len(controlReceipts) /\ controlReceipts[i].id = id

\* The request_id of a receipt that is still in the ring.
Remembered(id) == \E i \in DOMAIN controlReceipts : controlReceipts[i].id = id

\* What a mutation asks for, given the configuration it starts from.
DesiredConfigs(op) ==
  CASE op = "start" -> {[desiredConfig EXCEPT !.active = TRUE]}
    [] op = "stop"  -> {[desiredConfig EXCEPT !.active = FALSE]}
    [] op = "request-keyframe" -> {desiredConfig}
    [] op = "config" -> {[desiredConfig EXCEPT !.jpeg = q] : q \in Jpegs}

\* Mutant: a mutation is admitted while another one is pending.
AdmitBusy(id, op, desired, carriesCal) ==
  /\ desiredRevision < MaxRevision
  /\ op = "request-keyframe" => nativeAppliedActive
  /\ ~Remembered(id)
  /\ desiredRevision' = desiredRevision + 1
  /\ desiredConfig' = desired
  /\ nativeCommand' =
       [revision |-> desiredRevision', kind |-> op,
        active |-> IF op = "config" THEN desiredActive ELSE desired.active,
        jpeg |-> desired.jpeg,
        cal |-> IF carriesCal THEN desired.cal ELSE None]
  /\ UNCHANGED nativeLifecycleState
  /\ pendingControl' = [id |-> id, op |-> op, revision |-> desiredRevision',
                        cal |-> carriesCal, late |-> FALSE]
  /\ UNCHANGED <<answers, acks, render, rtp, calibration, worker, demand,
                 capture, history>>

\* HandleControlRequest for start, stop, request-keyframe and PATCH config,
\* with every refusal (429 busy, 409 conflict) that leaves the state alone as
\* a guard.  carriesCal: the PATCH holds a calibration record.
Admit(id, op, desired, carriesCal) ==
  /\ desiredRevision < MaxRevision
  /\ pendingControl = None
  /\ op = "request-keyframe" => nativeAppliedActive
  /\ ~Remembered(id)
  /\ desiredRevision' = desiredRevision + 1
  /\ desiredConfig' = desired
  /\ nativeCommand' =
       [revision |-> desiredRevision', kind |-> op,
        active |-> IF op = "config" THEN desiredActive ELSE desired.active,
        jpeg |-> desired.jpeg,
        cal |-> IF carriesCal THEN desired.cal ELSE None]
  /\ nativeLifecycleState' =
       CASE op = "start" -> "starting" [] op = "stop" -> "stopping"
         [] OTHER -> nativeLifecycleState
  /\ pendingControl' = [id |-> id, op |-> op, revision |-> desiredRevision',
                        cal |-> carriesCal, late |-> FALSE]
  /\ UNCHANGED <<answers, acks, render, rtp, calibration, worker, demand,
                 capture, history>>

AdmitMutation(id, op) ==
  \E desired \in DesiredConfigs(op) : Admit(id, op, desired, FALSE)

\* The PATCH holds a calibration; jpeg_quality may come with it.
AdmitCalibration(id) ==
  \E c \in Calibrations, q \in Jpegs :
    Admit(id, "config", [desiredConfig EXCEPT !.cal = c, !.jpeg = q], TRUE)

\* The caller's deadline passes, or the caller goes away.
ControlDeadline ==
  /\ pendingControl # None /\ ~pendingControl.late
  /\ pendingControl' = [pendingControl EXCEPT !.late = TRUE]
  /\ UNCHANGED <<desiredRevision, desiredConfig, answers, nativeCommand, acks,
                 nativeLifecycleState, render, rtp, calibration, worker,
                 demand, capture, history>>

\* GET observe/{after}: held only while after is the current event revision.
Observe(w) ==
  /\ controlWatchers[w] = None
  /\ controlWatchers' = [controlWatchers EXCEPT ![w] = controlEventRevision]
  /\ UNCHANGED <<desiredRevision, desiredConfig, pendingControl,
                 appliedRevision, appliedConfig, controlReceipts,
                 controlEventRevision, nativeCommand, acks,
                 nativeLifecycleState, render, rtp, calibration, worker,
                 demand, capture, history>>

\* POST capture, as far as it creates render demand and, later, a receipt.
AdmitCapture ==
  /\ capture = "none" /\ controlEventRevision < MaxEvents
  /\ capture' = "wanted"
  /\ UNCHANGED <<desiredRevision, desiredConfig, pendingControl, answers,
                 nativeCommand, acks, nativeLifecycleState, render, rtp,
                 calibration, worker, demand, history>>

\* The three things FlushControl can do with the pending mutation.
IsFailed == pendingControl # None /\ nativeFailedRevision = pendingControl.revision

\* Mutant: a calibration is answered before the topic carries it.
IsAppliedUnpublished ==
  pendingControl # None /\ nativeAppliedRevision = pendingControl.revision

IsApplied ==
  /\ pendingControl # None
  /\ nativeAppliedRevision = pendingControl.revision
  /\ pendingControl.cal =>
       publishedCalibrationRevision = pendingControl.revision

\* Mutant: a late mutation is dropped even when the render thread has it.
IsDroppedAnyway == pendingControl # None /\ pendingControl.late

IsDropped ==
  /\ pendingControl # None /\ pendingControl.late
  /\ nativeCommand # None /\ nativeCommand.revision = pendingControl.revision

Answer(verdict) ==
  /\ pendingControl' = None
  /\ outcome' = [outcome EXCEPT ![pendingControl.revision] = verdict]

\* The captures FlushCapture answers in this pass (0 or 1 receipts).
FlushCapture(done) ==
  /\ done => capture = "submitted"
  /\ capture' = IF done THEN "none" ELSE capture

Receipts(mutation, done) ==
  (IF mutation = None THEN <<>> ELSE <<mutation>>)
    \o (IF done THEN <<[id |-> None, stage |-> "completed"]>> ELSE <<>>)

\* Mutant: the observers are looked at before the receipts are remembered.
RememberTooLate(mutation, done) ==
  LET new == Receipts(mutation, done)
      all == controlReceipts \o new
      extra == IF Len(all) > ReceiptSlots THEN Len(all) - ReceiptSlots ELSE 0
  IN  /\ controlReceipts' = SubSeq(all, extra + 1, Len(all))
      /\ controlEventRevision' = controlEventRevision + Len(new)
      /\ \E gone \in SUBSET Watchers :
           controlWatchers' =
             [w \in Watchers |->
                IF controlWatchers[w] = None \/ w \in gone
                     \/ controlWatchers[w] < controlEventRevision
                  THEN None ELSE controlWatchers[w]]

\* RememberReceipt for what this pass finished, then the watchers: one that
\* is behind is answered, any other may be cancelled or time out.
Remember(mutation, done) ==
  LET new == Receipts(mutation, done)
      all == controlReceipts \o new
      extra == IF Len(all) > ReceiptSlots THEN Len(all) - ReceiptSlots ELSE 0
  IN  /\ controlReceipts' = SubSeq(all, extra + 1, Len(all))
      /\ controlEventRevision' = controlEventRevision + Len(new)
      /\ \E gone \in SUBSET Watchers :
           controlWatchers' =
             [w \in Watchers |->
                IF controlWatchers[w] = None \/ w \in gone
                     \/ controlWatchers[w] < controlEventRevision'
                  THEN None ELSE controlWatchers[w]]

FlushControl(done) ==
  /\ FlushCapture(done)
  /\ IF IsFailed
       THEN /\ Answer("failed")
            /\ Remember([id |-> pendingControl.id, stage |-> "failed"], done)
            /\ UNCHANGED <<appliedRevision, appliedConfig, nativeCommand,
                           everDropped>>
     ELSE IF IsApplied
       THEN /\ appliedRevision' = pendingControl.revision
            /\ appliedConfig' =
                 [desiredConfig EXCEPT !.active = nativeAppliedActive]
            /\ Answer("completed")
            /\ Remember([id |-> pendingControl.id, stage |-> "completed"], done)
            /\ UNCHANGED <<nativeCommand, everDropped>>
     ELSE IF IsDropped
       THEN /\ nativeCommand' = None
            /\ everDropped' = TRUE
            /\ Answer("dropped")
            /\ Remember([id |-> pendingControl.id, stage |-> "failed"], done)
            /\ UNCHANGED <<appliedRevision, appliedConfig>>
     ELSE /\ Remember(None, done)
          /\ UNCHANGED <<appliedRevision, appliedConfig, nativeCommand,
                         pendingControl, outcome, everDropped>>
  /\ UNCHANGED <<desiredRevision, desiredConfig, acks, nativeLifecycleState,
                 render, rtp, calibration, worker, demand, consumed>>

-----------------------------------------------------------------------------
(***************************************************************************)
(* The render thread.  renderPhase: "target" is the render-target callback *)
(* of an active sensor, "post" the post-render event.  In between are the  *)
(* stores of a failed transition: its revision is visible in "settle", the *)
(* demand is withdrawn in "deactivate", the acknowledged flag in "fault",  *)
(* the state in "release".                                                 *)
(***************************************************************************)
SnapshotNeedsRender == capture = "wanted"
ShouldEncode == desiredActive \/ rosConsumersActive
Awaits(ops) == awaitingNativeControl # None /\ awaitingNativeControl.kind \in ops

\* CompleteNativeControl: the active flag and state, then the revision.
CompleteNativeControl(command) ==
  /\ nativeAppliedRevision' = command.revision
  /\ nativeAppliedActive' =
       CASE command.kind = "start" -> TRUE [] command.kind = "stop" -> FALSE
         [] OTHER -> nativeAppliedActive
  /\ nativeLifecycleState' =
       CASE command.kind = "start" -> "active" [] command.kind = "stop" -> "idle"
         [] OTHER -> nativeLifecycleState
  /\ UNCHANGED nativeFailedRevision

NothingCompletes == UNCHANGED <<acks, nativeLifecycleState>>

\* Mutant: a stop leaves the pacer's queue alone.
ConsumeKeepsQueue(command) ==
  /\ nativeCommand' = None
  /\ consumed' = consumed \cup {command.revision}
  /\ desiredActive' = command.active
  /\ jpegQuality' = command.jpeg
  /\ forceKeyframe' =
       (forceKeyframe \/ command.kind = "request-keyframe"
          \/ (command.active /\ ~desiredActive))
  /\ freshGate' = IF command.active /\ ~desiredActive /\ ~rosConsumersActive
                    THEN "armed" ELSE freshGate
  /\ UNCHANGED rtpQueued
  /\ IF command.cal = None
       THEN UNCHANGED calibration
       ELSE /\ calibrationMetadata' =
                 [revision |-> command.revision, cal |-> command.cal]
            /\ rosCameraInfoPending' = TRUE

\* Mutant: a command without calibration overwrites the calibration.
ConsumeAnyCalibration(command) ==
  /\ nativeCommand' = None
  /\ consumed' = consumed \cup {command.revision}
  /\ desiredActive' = command.active
  /\ jpegQuality' = command.jpeg
  /\ forceKeyframe' =
       (forceKeyframe \/ command.kind = "request-keyframe"
          \/ (command.active /\ ~desiredActive))
  /\ freshGate' = IF command.active /\ ~desiredActive /\ ~rosConsumersActive
                    THEN "armed" ELSE freshGate
  /\ rtpQueued' = (rtpQueued /\ command.active)
  /\ calibrationMetadata' = [revision |-> command.revision, cal |-> command.cal]
  /\ rosCameraInfoPending' = TRUE

\* Mutant: a calibration is handed over and the worker is not told of it.
ConsumeUnannounced(command) ==
  /\ nativeCommand' = None
  /\ consumed' = consumed \cup {command.revision}
  /\ desiredActive' = command.active
  /\ jpegQuality' = command.jpeg
  /\ forceKeyframe' =
       (forceKeyframe \/ command.kind = "request-keyframe"
          \/ (command.active /\ ~desiredActive))
  /\ freshGate' = IF command.active /\ ~desiredActive /\ ~rosConsumersActive
                    THEN "armed" ELSE freshGate
  /\ rtpQueued' = (rtpQueued /\ command.active)
  /\ IF command.cal = None
       THEN UNCHANGED calibration
       ELSE /\ calibrationMetadata' =
                 [revision |-> command.revision, cal |-> command.cal]
            /\ UNCHANGED rosCameraInfoPending

\* ApplyNativeControl took a command.  The try_locks may fail, so a pass may
\* also take none.
Consume(command) ==
  /\ nativeCommand' = None
  /\ consumed' = consumed \cup {command.revision}
  /\ desiredActive' = command.active
  /\ jpegQuality' = command.jpeg
  /\ forceKeyframe' =
       (forceKeyframe \/ command.kind = "request-keyframe"
          \/ (command.active /\ ~desiredActive))
  /\ freshGate' = IF command.active /\ ~desiredActive /\ ~rosConsumersActive
                    THEN "armed" ELSE freshGate
  /\ rtpQueued' = (rtpQueued /\ command.active)
  /\ IF command.cal = None
       THEN UNCHANGED calibration
       ELSE /\ calibrationMetadata' =
                 [revision |-> command.revision, cal |-> command.cal]
            /\ rosCameraInfoPending' = TRUE

\* CompleteNativeStopIfDrained, read after ApplyNativeControl in one pass.
StopIsDrained ==
  /\ Awaits({"stop"})
  /\ ~rtpInFlight
  /\ rosConsumersActive \/ ~encoderResourcesActive

\* The rest of OnPostRender: demand keeps the sensor on, an idle encoder is
\* given one more callback to release itself, and only then the sensor stops.
RenderDemand ==
  LET should == desiredActive' \/ rosConsumersActive \/ SnapshotNeedsRender
  IN  /\ sensorActive' = (should \/ encoderResourcesActive)
      /\ cleanupEncoderRequested' =
           (cleanupEncoderRequested \/ (~should /\ encoderResourcesActive))
      /\ renderPhase' = IF sensorActive' THEN "target" ELSE "post"

\* A consumed kind is acknowledged later, except a configuration, which is
\* applied by the hand-over itself.
PostRenderConsume ==
  /\ renderPhase = "post" /\ nativeCommand # None
  /\ Consume(nativeCommand)
  /\ IF nativeCommand.kind = "config"
       THEN /\ CompleteNativeControl(nativeCommand)
            /\ UNCHANGED awaitingNativeControl
       ELSE IF /\ nativeCommand.kind = "stop" /\ ~rtpInFlight
               /\ rosConsumersActive \/ ~encoderResourcesActive
       THEN /\ CompleteNativeControl(nativeCommand)
            /\ awaitingNativeControl' = None
       ELSE /\ awaitingNativeControl' = nativeCommand
            /\ NothingCompletes
  /\ RenderDemand
  /\ UNCHANGED <<desiredRevision, desiredConfig, pendingControl, answers,
                 encoder, rtpInFlight, worker, demand, capture, outcome,
                 everDropped>>

PostRenderIdle ==
  /\ renderPhase = "post"
  /\ UNCHANGED <<desiredActive, jpegQuality, forceKeyframe, freshGate>>
  /\ IF StopIsDrained
       THEN /\ CompleteNativeControl(awaitingNativeControl)
            /\ awaitingNativeControl' = None
       ELSE NothingCompletes /\ UNCHANGED awaitingNativeControl
  /\ RenderDemand
  /\ UNCHANGED <<desiredRevision, desiredConfig, pendingControl, answers,
                 nativeCommand, encoder, rtp, calibration, worker, demand,
                 capture, history>>

(***************************************************************************)
(* postRenderTargetUpdate.  EncodeResults is the set of ways               *)
(* EncodeRenderedFrame can end, by NVENC, OpenGL and RTP back-pressure; a  *)
(* pending frame is the revision of the force-IDR it was submitted for, or *)
(* 0.                                                                      *)
(***************************************************************************)
\* The encoder a frame is submitted to: the present one, or one created for
\* it, after a reset when simulation time moved backwards (ClearRTPQueue is
\* skipped when a ROS epoch is already pending).
Ensured(reset) ==
  IF encoderResourcesActive /\ ~reset
    THEN {[held |-> pendingEncodedFrames, force |-> forceKeyframe,
           queued |-> rtpQueued]}
    ELSE {[held |-> <<>>, force |-> TRUE, queued |-> q] :
            q \in IF reset THEN {FALSE} ELSE {rtpQueued, FALSE}}

\* The revision stamped on a frame submitted with the force-IDR flag.
Stamp(force) ==
  IF force /\ Awaits({"request-keyframe"}) THEN awaitingNativeControl.revision
  ELSE 0

\* No encoder, or the frame never reached it: the force flag is still set.
NotSubmitted(reset) ==
  {[ok |-> FALSE, force |-> forceKeyframe \/ reset, ready |-> FALSE,
    held |-> <<>>, queued |-> rtpQueued /\ ~reset, idr |-> 0]}
  \cup {[ok |-> FALSE, force |-> e.force, ready |-> TRUE, held |-> e.held,
         queued |-> e.queued, idr |-> 0] : e \in Ensured(reset)}

\* NVENC refused the frame, lost its metadata or retained too many: the
\* encoder is rebuilt for the next one.
Rebuilt == {[ok |-> FALSE, force |-> TRUE, ready |-> FALSE, held |-> <<>>,
             queued |-> FALSE, idr |-> 0]}

\* NV_ENC_ERR_NEED_MORE_INPUT within the grace window.
Delayed(e) ==
  LET held == Append(e.held, Stamp(e.force))
  IN  IF Len(held) > MaxHeld THEN {}
      ELSE {[ok |-> TRUE, force |-> FALSE, ready |-> TRUE, held |-> held,
             queued |-> e.queued, idr |-> 0]}

\* SendH264AccessUnit for the oldest pending frame: an unusable bitstream, or
\* an access unit that is offered to the pacer while RTP is demanded.  A
\* queued access unit is replaced by an IDR; a delta that finds one drops the
\* chain, and a delta that is too large is refused.
Output(e) ==
  LET held == Append(e.held, Stamp(e.force))
      stamp == Head(held)
      result(ok, force, queued, idr) ==
        [ok |-> ok, force |-> force, ready |-> TRUE, held |-> Tail(held),
         queued |-> queued, idr |-> idr]
      idr == IF desiredActive THEN result(TRUE, FALSE, TRUE, stamp)
             ELSE result(TRUE, FALSE, e.queued, stamp)
      delta == IF ~desiredActive THEN {result(TRUE, FALSE, e.queued, 0)}
               ELSE IF e.queued THEN {result(FALSE, TRUE, FALSE, 0)}
               ELSE {result(TRUE, FALSE, TRUE, 0),
                     result(FALSE, TRUE, FALSE, 0)}
  IN  {result(FALSE, FALSE, e.queued, 0), idr}
        \cup (IF stamp = 0 THEN delta ELSE {})

EncodeResults(reset) ==
  NotSubmitted(reset) \cup Rebuilt
    \cup UNION {Delayed(e) \cup Output(e) : e \in Ensured(reset)}

\* CaptureSnapshot submits the readback of this render, unless it is one to
\* skip or the PBO of an earlier one is still being polled.
CaptureStep ==
  \/ UNCHANGED capture
  \/ SnapshotNeedsRender /\ capture' = "submitted"

TargetCommon ==
  /\ cleanupEncoderRequested' = FALSE
  /\ CaptureStep
  /\ UNCHANGED <<desiredRevision, desiredConfig, pendingControl, answers,
                 nativeCommand, desiredActive, jpegQuality, sensorActive,
                 rtpInFlight, calibration, worker, rosConsumersActive, history>>

\* No stream demand: the last callback of an idle encoder releases it.
TargetIdle ==
  /\ renderPhase = "target" /\ ~ShouldEncode
  /\ IF cleanupEncoderRequested /\ ~SnapshotNeedsRender
       THEN encoderResourcesActive' = FALSE /\ pendingEncodedFrames' = <<>>
       ELSE UNCHANGED encoder
  /\ renderPhase' = "post"
  /\ NothingCompletes
  /\ UNCHANGED <<forceKeyframe, awaitingNativeControl, freshGate, rtpQueued,
                 disturbances>>
  /\ TargetCommon

\* FreshRenderGate: the first callback of a new activation is discarded with
\* the encoder; renders are then awaited until their source time differs.
TargetStale ==
  /\ renderPhase = "target" /\ ShouldEncode
  /\ \/ /\ freshGate = "armed"
        /\ freshGate' = "waiting"
        /\ encoderResourcesActive' = FALSE /\ pendingEncodedFrames' = <<>>
        /\ forceKeyframe' = TRUE /\ rtpQueued' = FALSE
     \/ /\ freshGate = "waiting"
        /\ UNCHANGED <<freshGate, encoder, forceKeyframe, rtpQueued>>
  /\ renderPhase' = "post"
  /\ NothingCompletes
  /\ UNCHANGED <<awaitingNativeControl, disturbances>>
  /\ TargetCommon

\* One frame is encoded with result r, reset when source time moved back.
Encoded(reset, r) ==
  /\ reset => disturbances < MaxDisturbances
  /\ disturbances' = disturbances + (IF reset THEN 1 ELSE 0)
  /\ forceKeyframe' = r.force
  /\ encoderResourcesActive' = r.ready /\ pendingEncodedFrames' = r.held
  /\ rtpQueued' = r.queued

\* A fresh render is encoded.  A stamped IDR output acknowledges the force-IDR
\* it was submitted for; an accepted frame acknowledges a start.
TargetEncode ==
  /\ renderPhase = "target" /\ ShouldEncode
  /\ freshGate \in {"open", "waiting"} /\ freshGate' = "open"
  /\ \E reset \in BOOLEAN : \E r \in EncodeResults(reset) :
       /\ r.ok
       /\ Encoded(reset, r)
       /\ IF \/ Awaits({"start"})
             \/ /\ Awaits({"request-keyframe"})
                /\ r.idr = awaitingNativeControl.revision
            THEN /\ CompleteNativeControl(awaitingNativeControl)
                 /\ awaitingNativeControl' = None
            ELSE NothingCompletes /\ UNCHANGED awaitingNativeControl
  /\ renderPhase' = "post"
  /\ TargetCommon

\* EncodeRenderedFrame returned false: FailNativeEncoderTransition publishes
\* the failed revision before it withdraws the stream.
TargetFail ==
  /\ renderPhase = "target" /\ ShouldEncode
  /\ freshGate \in {"open", "waiting"} /\ freshGate' = "open"
  /\ \E reset \in BOOLEAN : \E r \in EncodeResults(reset) :
       ~r.ok /\ Encoded(reset, r)
  /\ IF Awaits({"start", "request-keyframe"})
       THEN /\ nativeFailedRevision' = awaitingNativeControl.revision
            /\ renderPhase' = "settle"
       ELSE /\ UNCHANGED nativeFailedRevision
            /\ renderPhase' = "post"
  /\ UNCHANGED <<awaitingNativeControl, nativeAppliedRevision,
                 nativeAppliedActive, nativeLifecycleState>>
  /\ TargetCommon

\* The rest of FailNativeEncoderTransition, store by store: the demand,
WithdrawDemand ==
  /\ renderPhase = "settle" /\ renderPhase' = "deactivate"
  /\ awaitingNativeControl' = None /\ desiredActive' = FALSE
  /\ UNCHANGED <<encoder, rtpQueued>> /\ NothingCompletes

\* ... the flag a start had acknowledged,
WithdrawActive ==
  /\ renderPhase = "deactivate" /\ renderPhase' = "fault"
  /\ nativeAppliedActive' = FALSE
  /\ UNCHANGED <<awaitingNativeControl, desiredActive, encoder, rtpQueued,
                 nativeAppliedRevision, nativeFailedRevision,
                 nativeLifecycleState>>

\* Mutant: the state the status reports is left as it was.
ReportFaultSilently ==
  /\ renderPhase = "fault" /\ renderPhase' = "release"
  /\ UNCHANGED <<awaitingNativeControl, desiredActive, encoder, rtpQueued>>
  /\ NothingCompletes

\* ... the state the status reports,
ReportFault ==
  /\ renderPhase = "fault" /\ renderPhase' = "release"
  /\ nativeLifecycleState' = "faulted"
  /\ UNCHANGED <<awaitingNativeControl, desiredActive, encoder, rtpQueued,
                 acks>>

\* ... and only then the pacer's queue and the encoder.
ReleaseEncoder ==
  /\ renderPhase = "release" /\ renderPhase' = "post"
  /\ rtpQueued' = FALSE
  /\ encoderResourcesActive' = FALSE /\ pendingEncodedFrames' = <<>>
  /\ UNCHANGED <<awaitingNativeControl, desiredActive>> /\ NothingCompletes

SettleFailure ==
  /\ WithdrawDemand \/ WithdrawActive \/ ReportFault \/ ReleaseEncoder
  /\ UNCHANGED <<desiredRevision, desiredConfig, pendingControl, answers,
                 nativeCommand, jpegQuality, forceKeyframe, sensorActive,
                 cleanupEncoderRequested, freshGate, rtpInFlight, calibration,
                 worker, demand, capture, history>>

-----------------------------------------------------------------------------
(***************************************************************************)
(* The RTP pacer, the ROS data worker and the ROS subscriber callbacks.    *)
(***************************************************************************)
PacerTake ==
  /\ rtpQueued /\ ~rtpInFlight
  /\ rtpQueued' = FALSE /\ rtpInFlight' = TRUE
  /\ UNCHANGED <<desiredRevision, desiredConfig, pendingControl, answers,
                 nativeCommand, acks, nativeLifecycleState, render,
                 calibration, worker, demand, capture, history>>

PacerDone ==
  /\ rtpInFlight
  /\ rtpInFlight' = FALSE
  /\ UNCHANGED <<desiredRevision, desiredConfig, pendingControl, answers,
                 nativeCommand, acks, nativeLifecycleState, render, rtpQueued,
                 calibration, worker, demand, capture, history>>

\* RegisterROSPublisher: the master appeared, the worker starts with the
\* latest record.
RosMasterAppears ==
  /\ ~rosWorkerRunning
  /\ rosWorkerRunning' = TRUE /\ rosCameraInfoPending' = TRUE
  /\ UNCHANGED <<desiredRevision, desiredConfig, pendingControl, answers,
                 nativeCommand, acks, nativeLifecycleState, render, rtp,
                 calibrationMetadata, workerCameraInfo,
                 publishedCalibrationRevision, demand, capture, history>>

\* ROSPublisherLoop takes the record under the mutex ...
WorkerTake ==
  /\ rosWorkerRunning /\ workerCameraInfo = None /\ rosCameraInfoPending
  /\ workerCameraInfo' = calibrationMetadata
  /\ rosCameraInfoPending' = FALSE
  /\ UNCHANGED <<desiredRevision, desiredConfig, pendingControl, answers,
                 nativeCommand, acks, nativeLifecycleState, render, rtp,
                 calibrationMetadata, rosWorkerRunning,
                 publishedCalibrationRevision, demand, capture, history>>

\* ... and PublishCameraInfo publishes it without.
WorkerPublish ==
  /\ workerCameraInfo # None
  /\ publishedCalibrationRevision' = workerCameraInfo.revision
  /\ workerCameraInfo' = None
  /\ UNCHANGED <<desiredRevision, desiredConfig, pendingControl, answers,
                 nativeCommand, acks, nativeLifecycleState, render, rtp,
                 calibration, rosWorkerRunning, demand, capture, history>>

\* The first subscriber arrives or the last one leaves.
RosDemandChanges ==
  /\ rosWorkerRunning /\ disturbances < MaxDisturbances
  /\ disturbances' = disturbances + 1
  /\ rosConsumersActive' = ~rosConsumersActive
  /\ forceKeyframe' = (forceKeyframe \/ rosConsumersActive')
  /\ freshGate' = IF rosConsumersActive' /\ ~desiredActive THEN "armed"
                  ELSE freshGate
  /\ UNCHANGED <<desiredRevision, desiredConfig, pendingControl, answers,
                 nativeCommand, acks, nativeLifecycleState, desiredActive,
                 jpegQuality, awaitingNativeControl, sensorActive,
                 cleanupEncoderRequested, encoder, renderPhase, rtp,
                 calibration, worker, capture, history>>

-----------------------------------------------------------------------------
Executor ==
  \/ \E id \in Requests :
       \/ \E op \in Ops : AdmitMutation(id, op)
       \/ AdmitCalibration(id)
  \/ ControlDeadline \/ AdmitCapture
  \/ \E done \in BOOLEAN : FlushControl(done)
  \/ \E w \in Watchers : Observe(w)
Render == \/ PostRenderConsume \/ PostRenderIdle \/ TargetIdle \/ TargetStale
          \/ TargetEncode \/ TargetFail \/ SettleFailure
Others == \/ PacerTake \/ PacerDone \/ RosMasterAppears \/ WorkerTake
          \/ WorkerPublish \/ RosDemandChanges

Next == Executor \/ Render \/ Others

(***************************************************************************)
(* Fairness.  The executor polls every 10 ms and flushes; a request's      *)
(* deadline passes; Gazebo keeps rendering and its renders advance source  *)
(* time; the two try_locks fail only while another thread is inside a      *)
(* short critical section; the pacer and the worker run; a ROS master      *)
(* appears.                                                                *)
(***************************************************************************)
Fairness ==
  /\ WF_vars(FlushControl(FALSE))
  /\ WF_vars(ControlDeadline)
  /\ WF_vars(Render) /\ SF_vars(PostRenderConsume)
  /\ SF_vars(TargetEncode \/ TargetFail)
  /\ WF_vars(PacerTake \/ PacerDone)
  /\ WF_vars(RosMasterAppears) /\ WF_vars(WorkerTake) /\ WF_vars(WorkerPublish)

Spec == Init /\ [][Next]_vars
FairSpec == Spec /\ Fairness

-----------------------------------------------------------------------------
(***************************************************************************)
(* Properties.                                                             *)
(***************************************************************************)

\* Every variable holds a value the code can store in it.
TypeOK ==
  /\ desiredRevision \in Nat /\ appliedRevision \in Nat
  /\ desiredConfig \in Config /\ appliedConfig \in Config
  /\ pendingControl \in Mutation \cup {None}
  /\ controlReceipts \in Seq(Receipt) /\ controlEventRevision \in Nat
  /\ controlWatchers \in [Watchers -> Nat \cup {None}]
  /\ nativeCommand \in Command \cup {None}
  /\ awaitingNativeControl \in Command \cup {None}
  /\ nativeAppliedRevision \in Nat /\ nativeFailedRevision \in Nat
  /\ nativeAppliedActive \in BOOLEAN
  /\ nativeLifecycleState \in {"idle", "starting", "active", "stopping", "faulted"}
  /\ publishedCalibrationRevision \in Nat
  /\ desiredActive \in BOOLEAN /\ jpegQuality \in Jpegs
  /\ forceKeyframe \in BOOLEAN /\ sensorActive \in BOOLEAN
  /\ cleanupEncoderRequested \in BOOLEAN /\ encoderResourcesActive \in BOOLEAN
  /\ pendingEncodedFrames \in Seq(Nat)
  /\ freshGate \in {"open", "armed", "waiting"}
  /\ renderPhase \in
       {"target", "settle", "deactivate", "fault", "release", "post"}
  /\ rtpQueued \in BOOLEAN /\ rtpInFlight \in BOOLEAN
  /\ calibrationMetadata \in Metadata /\ rosCameraInfoPending \in BOOLEAN
  /\ workerCameraInfo \in Metadata \cup {None}
  /\ rosWorkerRunning \in BOOLEAN
  /\ rosConsumersActive \in BOOLEAN /\ disturbances \in Nat
  /\ capture \in {"none", "wanted", "submitted"}
  /\ outcome \in [Revisions -> {"none", "completed", "failed", "dropped"}]
  /\ consumed \in SUBSET Nat /\ everDropped \in BOOLEAN

\* Who holds the record of a revision: the mailbox, the render thread, or an
\* acknowledgement the executor has yet to read.
Holders(r) ==
  {h \in {"mailbox", "render", "applied", "failed"} :
     \/ h = "mailbox" /\ nativeCommand # None /\ nativeCommand.revision = r
     \/ h = "render" /\ awaitingNativeControl # None
                     /\ awaitingNativeControl.revision = r
                     /\ renderPhase # "settle"
     \/ h = "applied" /\ nativeAppliedRevision = r
     \/ h = "failed" /\ nativeFailedRevision = r}

\* The one pending mutation is always in exactly one place, and no record is
\* in flight for a mutation that was already answered: it can neither get lost
\* between the threads (the slot would stay busy) nor act after its reply.
MutationHasOneHolder ==
  /\ pendingControl # None =>
       \E h \in {"mailbox", "render", "applied", "failed"} :
         Holders(pendingControl.revision) = {h}
  /\ nativeCommand # None =>
       pendingControl # None /\ pendingControl.revision = nativeCommand.revision
  /\ (awaitingNativeControl # None /\ renderPhase # "settle") =>
       /\ pendingControl # None
       /\ pendingControl.revision = awaitingNativeControl.revision

\* A 504 is only given for a mutation the render thread never took, and a
\* mutation it took is only ever answered by what the render thread reported:
\* "caller cancellation is not rollback".
DeadlineMeansNotApplied ==
  \A r \in Revisions :
    /\ outcome[r] = "dropped" => r \notin consumed
    /\ outcome[r] \in {"completed", "failed"} => r \in consumed

\* An acknowledged stop is silent: until a later start no access unit of this
\* stream is queued or being sent.
StoppedIsSilent ==
  nativeLifecycleState = "idle" => ~desiredActive /\ ~rtpQueued /\ ~rtpInFlight

\* The state "active" is only reported while the stream really is in demand,
\* with the sensor kept on for it; in between the stores of a failed transition,
\* which withdraw the demand first and the state last, the status still says it.
ActiveIsServed ==
  nativeLifecycleState = "active" =>
    /\ sensorActive
    /\ (nativeAppliedActive /\ desiredActive) \/ renderPhase \in {"deactivate", "fault"}

\* With no mutation pending, the applied configuration the status reports is what
\* the render thread and the CameraInfo topic really use.  A mutation dropped at
\* its deadline leaves its values in desiredConfig_; the JPEG quality among them
\* comes into use with the next mutation that completes, and only then is it
\* reported, but a calibration never does and is (README.md, section 4).
AppliedConfigIsReal ==
  pendingControl = None =>
    /\ (~everDropped \/ appliedRevision = desiredRevision) =>
         appliedConfig.jpeg = jpegQuality
    /\ ~everDropped =>
         /\ appliedConfig.cal = calibrationMetadata.cal
         /\ (publishedCalibrationRevision # 0 /\ appliedConfig.cal # InitCal) =>
              publishedCalibrationRevision = calibrationMetadata.revision

\* A mutation's request id that is retried while its receipt is still held is
\* refused: no two of the ring's mutation receipts are of one request.  (The
\* request ids of captures are left out.)
RetryIsNotReplayed ==
  \A i, j \in DOMAIN controlReceipts :
    (controlReceipts[i].id = controlReceipts[j].id /\ controlReceipts[i].id # None)
      => i = j

\* A pending mutation is eventually answered, whatever became of it, so the
\* source's one slot is free again; for a keyframe request only while no
\* mutation was ever dropped (see RenderAcknowledges).
MutationIsAnswered ==
  \A r \in 2..MaxRevision :
    (pendingControl # None /\ pendingControl.revision = r
       /\ (pendingControl.op = "request-keyframe" => ~everDropped))
      ~> (pendingControl = None \/ pendingControl.revision # r)

\* A held observer has seen every event up to now: whatever one FlushControl
\* pass answers, it tells the observers in the same pass, so none of them sits
\* out its deadline with an event it was never told of.
ObserverMissesNothing ==
  \A w \in Watchers :
    controlWatchers[w] # None => controlWatchers[w] = controlEventRevision

\* "If the render owns it, keep the record until its real acknowledgement":
\* that acknowledgement comes.
RenderAcknowledges ==
  (awaitingNativeControl # None) ~> (awaitingNativeControl = None)
=============================================================================
