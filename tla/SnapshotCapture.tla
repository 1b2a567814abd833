--------------------------- MODULE SnapshotCapture ---------------------------
(***************************************************************************)
(* POST capture of xgc_media_camera_plugin.cpp, for the sensors of one     *)
(* CameraSourceControlHost: a host-wide reservation (capture_reserved_),   *)
(* one snapshot_ record per sensor that the executor, the render thread    *)
(* and the sensor's JPEG worker change under snapshotMutex_, a readback    *)
(* that is either asynchronous (a PBO and a fence, polled by later         *)
(* renders) or synchronous, an optional force-IDR, and removal of the      *)
(* sensor at any time.                                                     *)
(*                                                                         *)
(* Gazebo renders its sensors one after the other on one thread, so there  *)
(* is one renderer; the executor is one thread too.  A picture is known by *)
(* the capture it was taken for and by whether its render began after that *)
(* capture was admitted.                                                   *)
(***************************************************************************)
EXTENDS Integers, FiniteSets

CONSTANTS
  Sensors,        \* the sensors registered with the host
  Streamed,       \* those whose H264 stream clients use
  None,           \* no picture, no sensor
  MaxCaptures     \* bound: captures admitted, over all sensors

ASSUME CapturesAssumption == MaxCaptures \in Nat /\ Streamed \subseteq Sensors
Picture == [gen : Nat, fresh : BOOLEAN]
ASSUME NoneIsNoValue == None \notin Sensors \cup Picture

VARIABLES
  captureReserved,      \* the host's
  \* the executor's, one per sensor; executor is where it is inside a request
  captureReply, late, captureSlotHeld, captureKeyframeGeneration, executor,
  \* under snapshotMutex_
  snapshot, snapshotGeneration, passesToSkip,
  \* the force-IDR handshake's atomics
  forceKeyframe, keyframePending, keyframeApplied, keyframeFailed,
  \* the render thread's
  renderer, sensorActive, replay, freshRender, readback, pboAvailable,
  \* the JPEG workers'
  encodeJob, workerHand,
  \* the stream and the removal of a sensor
  stream, removal,
  \* history: the last answer a sensor's capture got
  answer

executorVars == <<captureReply, late, captureSlotHeld,
                  captureKeyframeGeneration, executor>>
snapshotVars == <<snapshot, snapshotGeneration, passesToSkip>>
handshake == <<keyframePending, keyframeApplied, keyframeFailed>>
gpuVars == <<sensorActive, replay, freshRender>>
readbackVars == <<readback, pboAvailable>>
workerVars == <<encodeJob, workerHand>>
vars == <<captureReserved, executorVars, snapshotVars, forceKeyframe,
          handshake, renderer, gpuVars, readbackVars, workerVars, stream,
          removal, answer>>

\* SnapshotResult{}: no id, so nothing is wanted.
NoSnapshot == [wanted |-> FALSE, gen |-> 0, completed |-> FALSE,
               submitted |-> FALSE, failed |-> FALSE, picture |-> None]
NoRender == [at |-> None, stage |-> "idle", hand |-> None, forced |-> FALSE]
Each(value) == [s \in Sensors |-> value]

Init ==
  /\ captureReserved = FALSE
  /\ captureReply = Each(FALSE) /\ late = Each(FALSE)
  /\ captureSlotHeld = Each(FALSE) /\ captureKeyframeGeneration = Each(0)
  /\ executor = [at |-> None, stage |-> "idle"]
  /\ snapshot = Each(NoSnapshot) /\ snapshotGeneration = Each(0)
  /\ passesToSkip = Each(0)
  /\ forceKeyframe = Each(FALSE) /\ keyframePending = Each(0)
  /\ keyframeApplied = Each(0) /\ keyframeFailed = Each(0)
  /\ renderer = NoRender
  /\ sensorActive = Each(FALSE) /\ replay = Each(FALSE)
  /\ freshRender = Each(FALSE)
  /\ readback = Each(None) /\ pboAvailable = Each(TRUE)
  /\ encodeJob = Each(None) /\ workerHand = Each(None)
  /\ stream = Each("idle") /\ removal = Each("present")
  /\ answer = Each(None)

-----------------------------------------------------------------------------
(***************************************************************************)
(* The executor.                                                           *)
(***************************************************************************)
Admitted ==
  {c \in Sensors \X (1..MaxCaptures) : c[2] <= snapshotGeneration[c[1]]}
Idle == executor.stage = "idle"

\* POST capture up to its critical section: the host's slot is taken, and the
\* render pass under way (or a dormant sensor's replay) will be skipped.
AdmitCapture(s, keyframe) ==
  /\ Idle /\ removal[s] = "present"
  /\ Cardinality(Admitted) < MaxCaptures
  /\ keyframe => stream[s] \in {"active", "stopping"}
  /\ ~captureReserved /\ captureReserved' = TRUE
  /\ LET gen == snapshotGeneration[s] + 1
     IN  /\ snapshotGeneration' = [snapshotGeneration EXCEPT ![s] = gen]
         /\ snapshot' = [snapshot EXCEPT
                           ![s] = [NoSnapshot EXCEPT !.wanted = TRUE,
                                                     !.gen = gen]]
         /\ captureKeyframeGeneration' =
              [captureKeyframeGeneration EXCEPT
                 ![s] = IF keyframe THEN gen ELSE 0]
  /\ passesToSkip' = [passesToSkip EXCEPT ![s] = 1]
  /\ freshRender' = [freshRender EXCEPT ![s] = FALSE]
  /\ captureSlotHeld' = [captureSlotHeld EXCEPT ![s] = TRUE]
  /\ captureReply' = [captureReply EXCEPT ![s] = TRUE]
  /\ late' = [late EXCEPT ![s] = FALSE]
  /\ executor' = IF keyframe THEN [at |-> s, stage |-> "pending"]
                 ELSE executor
  /\ UNCHANGED <<forceKeyframe, handshake, renderer, sensorActive, replay,
                 readbackVars, workerVars, stream, removal, answer>>

\* The force-IDR request: first whose it is ...
AdmitPending ==
  /\ executor.stage = "pending"
  /\ keyframePending' = [keyframePending EXCEPT
                           ![executor.at] = captureKeyframeGeneration[executor.at]]
  /\ executor' = [executor EXCEPT !.stage = "force"]
  /\ UNCHANGED <<captureReserved, captureReply, late, captureSlotHeld,
                 captureKeyframeGeneration, snapshotVars, forceKeyframe,
                 keyframeApplied, keyframeFailed, renderer, gpuVars,
                 readbackVars, workerVars, stream, removal, answer>>

\* ... then the flag the render thread exchanges.
AdmitForce ==
  /\ executor.stage = "force"
  /\ forceKeyframe' = [forceKeyframe EXCEPT ![executor.at] = TRUE]
  /\ executor' = [at |-> None, stage |-> "idle"]
  /\ UNCHANGED <<captureReserved, captureReply, late, captureSlotHeld,
                 captureKeyframeGeneration, snapshotVars, handshake, renderer,
                 gpuVars, readbackVars, workerVars, stream, removal, answer>>

\* Mutant: the flag is raised before it is known whose it is.
AdmitKeyframeSwapped ==
  /\ \/ /\ executor.stage = "pending"
        /\ forceKeyframe' = [forceKeyframe EXCEPT ![executor.at] = TRUE]
        /\ executor' = [executor EXCEPT !.stage = "force"]
        /\ UNCHANGED keyframePending
     \/ /\ executor.stage = "force"
        /\ keyframePending' = [keyframePending EXCEPT
             ![executor.at] = captureKeyframeGeneration[executor.at]]
        /\ executor' = [at |-> None, stage |-> "idle"]
        /\ UNCHANGED forceKeyframe
  /\ UNCHANGED <<captureReserved, captureReply, late, captureSlotHeld,
                 captureKeyframeGeneration, snapshotVars, keyframeApplied,
                 keyframeFailed, renderer, gpuVars, readbackVars, workerVars,
                 stream, removal, answer>>

AdmitKeyframe == AdmitPending \/ AdmitForce

\* The capture's four seconds end, or its caller goes away.
CaptureDeadline(s) ==
  /\ captureReply[s] /\ ~late[s]
  /\ late' = [late EXCEPT ![s] = TRUE]
  /\ UNCHANGED <<captureReserved, captureReply, captureSlotHeld,
                 captureKeyframeGeneration, executor, snapshotVars,
                 forceKeyframe, handshake, renderer, gpuVars, readbackVars,
                 workerVars, stream, removal, answer>>

\* The force-IDR of this capture has not been acknowledged.
KeyframeMissing(s) ==
  /\ captureKeyframeGeneration[s] # 0
  /\ keyframeApplied[s] # captureKeyframeGeneration[s]
KeyframeRefused(s) == keyframeFailed[s] = captureKeyframeGeneration[s]

\* The work is done and may be answered ...
Answerable(s) ==
  snapshot[s].completed /\ (KeyframeMissing(s) => KeyframeRefused(s))
\* Mutant: the deadline does not wait for submitted work.
OverdueRegardless(s) == ~snapshot[s].completed /\ late[s]

\* ... or none was submitted in time.
Overdue(s) ==
  /\ ~snapshot[s].completed /\ late[s]
  /\ ~snapshot[s].submitted /\ readback[s] = None

\* FlushCapture, when it does not return early.
FlushCapture(s) ==
  /\ Idle /\ removal[s] = "present" /\ captureReply[s]
  /\ Answerable(s) \/ Overdue(s)
  /\ answer' = [answer EXCEPT
                  ![s] = [gen |-> snapshotGeneration[s],
                          ok |-> /\ snapshot[s].completed
                                 /\ ~snapshot[s].failed
                                 /\ ~KeyframeMissing(s),
                          picture |-> snapshot[s].picture]]
  /\ snapshot' = [snapshot EXCEPT ![s] = NoSnapshot]
  /\ passesToSkip' = [passesToSkip EXCEPT ![s] = 0]
  /\ captureReply' = [captureReply EXCEPT ![s] = FALSE]
  /\ captureReserved' = FALSE
  /\ captureSlotHeld' = [captureSlotHeld EXCEPT ![s] = FALSE]
  /\ UNCHANGED <<late, captureKeyframeGeneration, executor,
                 snapshotGeneration, forceKeyframe, handshake, renderer,
                 gpuVars, readbackVars, workerVars, stream, removal>>

-----------------------------------------------------------------------------
(***************************************************************************)
(* The render thread.                                                      *)
(***************************************************************************)
NeedsRender(s) ==
  \/ readback[s] # None
  \/ snapshot[s].wanted /\ ~snapshot[s].completed /\ ~snapshot[s].submitted

\* OnPostRender's demand, the H264 stream's being stream = "active".  A sensor
\* that wakes up replays its last render once.
PostRender(s) ==
  /\ renderer = NoRender /\ removal[s] = "present"
  /\ sensorActive' = [sensorActive EXCEPT
                        ![s] = stream[s] = "active" \/ NeedsRender(s)]
  /\ replay' = [replay EXCEPT
                  ![s] = (replay[s] \/ ~sensorActive[s]) /\ sensorActive'[s]]
  /\ UNCHANGED <<captureReserved, executorVars, snapshotVars, forceKeyframe,
                 handshake, renderer, freshRender, readbackVars, workerVars,
                 stream, removal, answer>>

\* The render of an active sensor; its callback follows.
Render(s) ==
  /\ renderer = NoRender /\ removal[s] = "present" /\ sensorActive[s]
  /\ renderer' = [NoRender EXCEPT !.at = s, !.stage = "capture"]
  /\ freshRender' = [freshRender EXCEPT ![s] = ~replay[s]]
  /\ replay' = [replay EXCEPT ![s] = FALSE]
  /\ UNCHANGED <<captureReserved, executorVars, snapshotVars, forceKeyframe,
                 handshake, sensorActive, readbackVars, workerVars, stream,
                 removal, answer>>

\* After the capture the callback encodes the render for the stream.
CaptureIsDone(s) ==
  renderer' = IF stream[s] = "active" THEN [NoRender EXCEPT !.at = s, !.stage = "encode"]
              ELSE NoRender

RenderLeaves == <<captureReserved, executorVars, snapshotGeneration,
                  forceKeyframe, handshake, gpuVars, stream, removal, answer>>

\* Mutant: any open capture takes the picture.
IsForAny(s, picture) == snapshot[s].wanted /\ ~snapshot[s].completed

\* The snapshot is still the one this picture was taken for.
IsFor(s, picture) == snapshot[s].gen = picture.gen /\ ~snapshot[s].completed

\* CompleteSnapshotFailure ends whatever capture is open.
SnapshotFails(s) ==
  snapshot' = IF snapshot[s].wanted /\ ~snapshot[s].completed
                THEN [snapshot EXCEPT ![s].completed = TRUE,
                                      ![s].failed = TRUE]
                ELSE snapshot

\* QueueSnapshotEncode: the worker has one place.
CanQueue(s) == encodeJob[s] = None
Queue(s, picture) == encodeJob' = [encodeJob EXCEPT ![s] = picture]

\* Mutant: if (snapshotRenderPassesToSkip_-- > 0).
BeginCapturePostDecrement ==
  LET s == renderer.at
  IN  /\ renderer.stage = "capture" /\ readback[s] = None
      /\ passesToSkip' = [passesToSkip EXCEPT ![s] =
                            IF NeedsRender(s) THEN @ - 1 ELSE @]
      /\ IF ~NeedsRender(s) \/ passesToSkip[s] > 0 THEN CaptureIsDone(s)
         ELSE renderer' = [renderer EXCEPT
                !.stage = "issue",
                !.hand = [gen |-> snapshot[s].gen, fresh |-> freshRender[s]]]
      /\ UNCHANGED <<snapshot, readbackVars, workerVars, RenderLeaves>>

\* CaptureSnapshot before it leaves its critical section.
BeginCapture ==
  LET s == renderer.at
  IN  /\ renderer.stage = "capture" /\ readback[s] = None
      /\ IF ~NeedsRender(s) \/ passesToSkip[s] > 0
           THEN /\ passesToSkip' =
                     [passesToSkip EXCEPT
                        ![s] = IF NeedsRender(s) THEN @ - 1 ELSE @]
                /\ CaptureIsDone(s)
           ELSE /\ renderer' = [renderer EXCEPT
                     !.stage = "issue",
                     !.hand = [gen |-> snapshot[s].gen,
                               fresh |-> freshRender[s]]]
                /\ UNCHANGED passesToSkip
      /\ UNCHANGED <<snapshot, readbackVars, workerVars, RenderLeaves>>

\* IssueSnapshotPBOReadback: the snapshot is looked at again after the GPU
\* calls.
IssueReadback ==
  LET s == renderer.at
  IN  /\ renderer.stage = "issue" /\ pboAvailable[s]
      /\ IF IsFor(s, renderer.hand)
           THEN /\ snapshot' = [snapshot EXCEPT ![s].submitted = TRUE]
                /\ readback' = [readback EXCEPT ![s] = renderer.hand]
           ELSE UNCHANGED <<snapshot, readback>>
      /\ CaptureIsDone(s)
      /\ UNCHANGED <<passesToSkip, pboAvailable, workerVars, RenderLeaves>>

\* CaptureSnapshotSynchronously, for good once a PBO step failed.
ReadSynchronously ==
  LET s == renderer.at
  IN  /\ renderer.stage = "issue"
      /\ pboAvailable' = [pboAvailable EXCEPT ![s] = FALSE]
      /\ IF ~IsFor(s, renderer.hand) THEN UNCHANGED <<snapshot, encodeJob>>
         ELSE IF CanQueue(s)
           THEN /\ snapshot' = [snapshot EXCEPT ![s].submitted = TRUE]
                /\ Queue(s, renderer.hand)
         ELSE /\ snapshot' = [snapshot EXCEPT ![s].submitted = TRUE,
                                              ![s].completed = TRUE,
                                              ![s].failed = TRUE]
              /\ UNCHANGED encodeJob
      /\ CaptureIsDone(s)
      /\ UNCHANGED <<passesToSkip, readback, workerHand, RenderLeaves>>

\* The texture is gone, its size is invalid, or the blit throws.
CaptureFails ==
  LET s == renderer.at
  IN  /\ renderer.stage = "issue"
      /\ SnapshotFails(s)
      /\ CaptureIsDone(s)
      /\ UNCHANGED <<passesToSkip, readbackVars, workerVars, RenderLeaves>>

\* PollSnapshotPBOReadback: the fence has not signalled ...
PollWaits ==
  LET s == renderer.at
  IN  /\ renderer.stage = "capture" /\ readback[s] # None
      /\ CaptureIsDone(s)
      /\ UNCHANGED <<snapshot, passesToSkip, readbackVars, workerVars,
                     RenderLeaves>>

\* ... or the picture goes to the worker ...
PollSucceeds ==
  LET s == renderer.at
  IN  /\ renderer.stage = "capture" /\ readback[s] # None
      /\ readback' = [readback EXCEPT ![s] = None]
      /\ IF CanQueue(s) THEN Queue(s, readback[s]) /\ UNCHANGED snapshot
         ELSE SnapshotFails(s) /\ UNCHANGED encodeJob
      /\ CaptureIsDone(s)
      /\ UNCHANGED <<passesToSkip, pboAvailable, workerHand, RenderLeaves>>

\* ... or it is lost, and the capture is taken again, synchronously
\* (RearmSnapshotAfterPBOFailure).
PollFails ==
  LET s == renderer.at
      again == IsFor(s, readback[s])
  IN  /\ renderer.stage = "capture" /\ readback[s] # None
      /\ readback' = [readback EXCEPT ![s] = None]
      /\ pboAvailable' = [pboAvailable EXCEPT ![s] = FALSE]
      /\ snapshot' = IF again THEN [snapshot EXCEPT ![s].submitted = FALSE]
                     ELSE snapshot
      /\ passesToSkip' = [passesToSkip EXCEPT ![s] = IF again THEN 0 ELSE @]
      /\ CaptureIsDone(s)
      /\ UNCHANGED <<workerVars, RenderLeaves>>

\* EncodeRenderedFrame exchanges the flag ...
ExchangeForce ==
  LET s == renderer.at
  IN  /\ renderer.stage = "encode"
      /\ renderer' = [renderer EXCEPT !.stage = "stamp",
                                      !.forced = forceKeyframe[s]]
      /\ forceKeyframe' = [forceKeyframe EXCEPT ![s] = FALSE]
      /\ UNCHANGED <<captureReserved, executorVars, snapshotVars, handshake,
                     gpuVars, readbackVars, workerVars, stream, removal,
                     answer>>

\* ... then reads whose IDR it is.  The output of a forced frame is an IDR,
\* and acknowledges the request it was stamped with.
EncodeFrame ==
  LET s == renderer.at
  IN  /\ renderer.stage = "stamp"
      /\ IF renderer.forced /\ keyframePending[s] # 0
           THEN /\ keyframeApplied' =
                     [keyframeApplied EXCEPT ![s] = keyframePending[s]]
                /\ keyframePending' = [keyframePending EXCEPT ![s] = 0]
           ELSE UNCHANGED <<keyframeApplied, keyframePending>>
      /\ renderer' = NoRender
      /\ UNCHANGED <<captureReserved, executorVars, snapshotVars,
                     forceKeyframe, keyframeFailed, gpuVars, readbackVars,
                     workerVars, stream, removal, answer>>

\* A failed frame refuses whichever capture's IDR is pending.
EncodeFails ==
  LET s == renderer.at
  IN  /\ renderer.stage \in {"encode", "stamp"}
      /\ keyframeFailed' = [keyframeFailed EXCEPT
           ![s] = IF keyframePending[s] = 0 THEN @ ELSE keyframePending[s]]
      /\ keyframePending' = [keyframePending EXCEPT ![s] = 0]
      /\ forceKeyframe' \in {forceKeyframe, [forceKeyframe EXCEPT ![s] = TRUE]}
      /\ renderer' = NoRender
      /\ UNCHANGED <<captureReserved, executorVars, snapshotVars,
                     keyframeApplied, gpuVars, readbackVars, workerVars,
                     stream, removal, answer>>

-----------------------------------------------------------------------------
(***************************************************************************)
(* The JPEG worker of a sensor, its stream and its removal.                *)
(***************************************************************************)
WorkerTake(s) ==
  /\ encodeJob[s] # None /\ workerHand[s] = None
  /\ removal[s] \in {"present", "unregistered"}
  /\ workerHand' = [workerHand EXCEPT ![s] = encodeJob[s]]
  /\ encodeJob' = [encodeJob EXCEPT ![s] = None]
  /\ UNCHANGED <<captureReserved, executorVars, snapshotVars, forceKeyframe,
                 handshake, renderer, gpuVars, readbackVars, stream, removal,
                 answer>>

\* The encoded picture, or its failure, becomes the snapshot it was taken for.
WorkerDeliver(s) ==
  /\ workerHand[s] # None
  /\ \E failed \in BOOLEAN :
       snapshot' = IF IsFor(s, workerHand[s])
                     THEN [snapshot EXCEPT ![s].completed = TRUE,
                                           ![s].failed = failed,
                                           ![s].submitted = FALSE,
                                           ![s].picture = workerHand[s]]
                     ELSE snapshot
  /\ workerHand' = [workerHand EXCEPT ![s] = None]
  /\ UNCHANGED <<captureReserved, executorVars, snapshotGeneration,
                 passesToSkip, forceKeyframe, handshake, renderer, gpuVars,
                 readbackVars, encodeJob, stream, removal, answer>>

\* NativeControl's start, stop and completed stop, as far as a capture reads
\* them: nativeAppliedActive_ outlives desiredActive_ while a stop drains.
StreamChanges(s) ==
  /\ s \in Streamed /\ removal[s] = "present" /\ renderer.at # s
  /\ stream' = [stream EXCEPT ![s] = CASE @ = "idle" -> "active"
                                       [] @ = "active" -> "stopping"
                                       [] @ = "stopping" -> "idle"]
  /\ forceKeyframe' = [forceKeyframe EXCEPT ![s] = @ \/ stream[s] = "idle"]
  /\ UNCHANGED <<captureReserved, executorVars, snapshotVars, handshake,
                 renderer, gpuVars, readbackVars, workerVars, removal, answer>>

\* ~XGCMediaCameraPlugin: the render target is gone.  StopControlServer
\* unregisters under the host's mutex and answers the caller ...
Unregister(s) ==
  /\ Idle /\ removal[s] = "present" /\ renderer.at # s
  /\ removal' = [removal EXCEPT ![s] = "unregistered"]
  /\ captureReply' = [captureReply EXCEPT ![s] = FALSE]
  /\ answer' = IF captureReply[s]
                 THEN [answer EXCEPT ![s] = [gen |-> snapshotGeneration[s],
                                             ok |-> FALSE, picture |-> None]]
                 ELSE answer
  /\ UNCHANGED <<captureReserved, late, captureSlotHeld,
                 captureKeyframeGeneration, executor, snapshotVars,
                 forceKeyframe, handshake, renderer, gpuVars, readbackVars,
                 workerVars, stream>>

\* ... StopSnapshotEncoder drops the job ...
StopSnapshotEncoder(s) ==
  /\ removal[s] = "unregistered"
  /\ removal' = [removal EXCEPT ![s] = "joining"]
  /\ encodeJob' = [encodeJob EXCEPT ![s] = None]
  /\ UNCHANGED <<captureReserved, executorVars, snapshotVars, forceKeyframe,
                 handshake, renderer, gpuVars, readbackVars, workerHand,
                 stream, answer>>

\* Mutant: the slot is given back before the worker is joined.
ReleaseUnjoined(s) ==
  /\ removal[s] = "joining"
  /\ removal' = [removal EXCEPT ![s] = "removed"]
  /\ captureReserved' = (captureReserved /\ ~captureSlotHeld[s])
  /\ captureSlotHeld' = [captureSlotHeld EXCEPT ![s] = FALSE]
  /\ UNCHANGED <<captureReply, late, captureKeyframeGeneration, executor,
                 snapshotVars, forceKeyframe, handshake, renderer, gpuVars,
                 readbackVars, workerVars, stream, answer>>

\* ... joins the worker, and only then gives the slot back.
ReleaseRemoved(s) ==
  /\ removal[s] = "joining" /\ workerHand[s] = None
  /\ removal' = [removal EXCEPT ![s] = "removed"]
  /\ captureReserved' = (captureReserved /\ ~captureSlotHeld[s])
  /\ captureSlotHeld' = [captureSlotHeld EXCEPT ![s] = FALSE]
  /\ UNCHANGED <<captureReply, late, captureKeyframeGeneration, executor,
                 snapshotVars, forceKeyframe, handshake, renderer, gpuVars,
                 readbackVars, workerVars, stream, answer>>

-----------------------------------------------------------------------------
Renderer == \/ BeginCapture \/ IssueReadback \/ ReadSynchronously
            \/ CaptureFails \/ PollWaits \/ PollSucceeds \/ PollFails
            \/ ExchangeForce \/ EncodeFrame \/ EncodeFails
Worker(s) == WorkerTake(s) \/ WorkerDeliver(s)
Removal(s) == Unregister(s) \/ StopSnapshotEncoder(s) \/ ReleaseRemoved(s)

Next ==
  \/ AdmitKeyframe \/ Renderer
  \/ \E s \in Sensors :
       \/ \E keyframe \in BOOLEAN : AdmitCapture(s, keyframe)
       \/ CaptureDeadline(s) \/ FlushCapture(s) \/ PostRender(s) \/ Render(s)
       \/ Worker(s) \/ StreamChanges(s) \/ Removal(s)

(***************************************************************************)
(* Fairness.  The executor polls every 10 ms; a deadline passes; Gazebo    *)
(* renders every active sensor again and again, one after the other (so    *)
(* PostRender and Render of one sensor are disabled now and then by        *)
(* another's); a fence signals or fails; the worker runs; a destructor     *)
(* that was entered goes on.  Nobody is obliged to remove a sensor or to   *)
(* change its stream.                                                      *)
(***************************************************************************)
Fairness ==
  /\ WF_vars(AdmitKeyframe) /\ WF_vars(Renderer)
  /\ SF_vars(PollSucceeds \/ PollFails)
  /\ \A s \in Sensors :
       /\ WF_vars(CaptureDeadline(s)) /\ SF_vars(FlushCapture(s))
       /\ SF_vars(PostRender(s)) /\ SF_vars(Render(s))
       /\ WF_vars(Worker(s))
       /\ WF_vars(StopSnapshotEncoder(s)) /\ WF_vars(ReleaseRemoved(s))

Spec == Init /\ [][Next]_vars
FairSpec == Spec /\ Fairness

-----------------------------------------------------------------------------
(***************************************************************************)
(* Properties.                                                             *)
(***************************************************************************)
Snapshot == [wanted : BOOLEAN, gen : Nat, completed : BOOLEAN,
             submitted : BOOLEAN, failed : BOOLEAN,
             picture : Picture \cup {None}]

\* Every variable holds a value the code can store in it.
TypeOK ==
  /\ captureReserved \in BOOLEAN
  /\ captureReply \in [Sensors -> BOOLEAN] /\ late \in [Sensors -> BOOLEAN]
  /\ captureSlotHeld \in [Sensors -> BOOLEAN]
  /\ captureKeyframeGeneration \in [Sensors -> Nat]
  /\ executor \in [at : Sensors \cup {None}, stage : {"idle", "pending", "force"}]
  /\ snapshot \in [Sensors -> Snapshot]
  /\ snapshotGeneration \in [Sensors -> Nat] /\ passesToSkip \in [Sensors -> 0..1]
  /\ forceKeyframe \in [Sensors -> BOOLEAN]
  /\ keyframePending \in [Sensors -> Nat]
  /\ keyframeApplied \in [Sensors -> Nat] /\ keyframeFailed \in [Sensors -> Nat]
  /\ renderer \in [at : Sensors \cup {None}, forced : BOOLEAN,
                   stage : {"idle", "capture", "issue", "encode", "stamp"},
                   hand : Picture \cup {None}]
  /\ sensorActive \in [Sensors -> BOOLEAN] /\ replay \in [Sensors -> BOOLEAN]
  /\ freshRender \in [Sensors -> BOOLEAN]
  /\ readback \in [Sensors -> Picture \cup {None}]
  /\ pboAvailable \in [Sensors -> BOOLEAN]
  /\ encodeJob \in [Sensors -> Picture \cup {None}]
  /\ workerHand \in [Sensors -> Picture \cup {None}]
  /\ stream \in [Sensors -> {"idle", "active", "stopping"}]
  /\ removal \in [Sensors -> {"present", "unregistered", "joining", "removed"}]
  /\ answer \in [Sensors -> {None} \cup
                 [gen : Nat, ok : BOOLEAN, picture : Picture \cup {None}]]

\* Capture work of a sensor that still exists: a readback the GPU has not
\* finished, a picture queued for the JPEG worker or in its hands.
HasWork(s) ==
  /\ removal[s] # "removed"
  /\ readback[s] # None \/ encodeJob[s] # None \/ workerHand[s] # None

\* "The one slot remains reserved until any submitted GPU/worker work
\* finishes": work exists only for the sensor that owns the host's slot, so it
\* never overlaps another capture's, whatever timed out or was removed; and a
\* reservation has one owner, that will give it back.
WorkOwnsTheSlot ==
  /\ captureReserved => \E s \in Sensors : captureSlotHeld[s]
  /\ \A s \in Sensors :
       /\ HasWork(s) => captureSlotHeld[s]
       /\ captureSlotHeld[s] =>
            captureReserved /\ \A t \in Sensors \ {s} : ~captureSlotHeld[t]

\* A successful capture is answered with the picture of a render that was
\* taken for it and that began after it was admitted: never with the dormant
\* sensor's replay, nor with late work of an earlier capture.
AnswerIsFresh ==
  \A s \in Sensors :
    (answer[s] # None /\ answer[s].ok) =>
      /\ answer[s].picture # None
      /\ answer[s].picture.gen = answer[s].gen
      /\ answer[s].picture.fresh

\* Every capture ends and gives the slot back, whatever fails; one that asked
\* for a keyframe does as long as the stream it asked it of stays active.
CaptureEnds ==
  \A s \in Sensors :
    captureSlotHeld[s] ~>
      \/ ~captureSlotHeld[s]
      \/ captureKeyframeGeneration[s] # 0 /\ stream[s] # "active"

\* The same without the exception: "the capture budget four seconds".
CaptureBudgetHolds ==
  \A s \in Sensors : captureSlotHeld[s] ~> ~captureSlotHeld[s]
=============================================================================
