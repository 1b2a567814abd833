------------------------- MODULE NativeControlProofs -------------------------
(***************************************************************************)
(* What holds of NativeControl for every set of clients, calibrations and  *)
(* observers, every depth of the encoder's pipeline and of the receipt     *)
(* ring, and any number of mutations: the types, the safety invariants     *)
(* (none of them is inductive by itself: each is strengthened by what the  *)
(* handlers rely on without saying so), and that every step is one of      *)
(* ControlContract.                                                        *)
(***************************************************************************)
EXTENDS NativeRefinement, SequenceTheorems, TLAPS

(***************************************************************************)
(* Type correctness.                                                       *)
(***************************************************************************)

\* HandleControlRequest asks for a complete configuration: the operation
\* changes one field of the one desired so far.
LEMMA DesiredIsConfig ==
  ASSUME desiredConfig \in Config, NEW op \in Ops, NEW d \in DesiredConfigs(op)
  PROVE  d \in Config
<1>1. CASE op = "config"
  <2>1. PICK q \in Jpegs : d = [desiredConfig EXCEPT !.jpeg = q]
    BY <1>1 DEF DesiredConfigs
  <2> QED BY <2>1 DEF Config
<1>2. CASE op # "config"
  <2>1. \/ d = desiredConfig
        \/ \E b \in BOOLEAN : d = [desiredConfig EXCEPT !.active = b]
    BY <1>2 DEF DesiredConfigs, Ops
  <2> QED BY <2>1 DEF Config
<1> QED BY <1>1, <1>2

\* Admission stores a whole command in the mailbox and a whole record in
\* pendingControl.
LEMMA AdmitRecords ==
  ASSUME TypeOK, NEW id \in Requests, NEW op \in Ops, NEW d \in Config,
         NEW c \in BOOLEAN, Admit(id, op, d, c)
  PROVE  /\ nativeCommand' \in Command /\ nativeCommand' # None
         /\ pendingControl' \in Mutation /\ pendingControl' # None
<1>1. desiredRevision' \in Nat
  BY DEF Admit, TypeOK
<1>2. d.active \in BOOLEAN /\ d.jpeg \in Jpegs /\ d.cal \in Calibrations
  BY DEF Config
<1>3. nativeCommand' \in Command
  <2> DEFINE active == IF op = "config" THEN desiredActive ELSE d.active
             cal == IF c THEN d.cal ELSE None
  <2>1. active \in BOOLEAN /\ cal \in Calibrations \cup {None}
    BY <1>2 DEF TypeOK
  <2>2. nativeCommand' = [revision |-> desiredRevision', kind |-> op,
          active |-> active, jpeg |-> d.jpeg, cal |-> cal]
    BY DEF Admit
  <2> HIDE DEF active, cal
  <2> QED BY <1>1, <1>2, <2>1, <2>2 DEF Command
<1>4. pendingControl' \in Mutation
  BY <1>1 DEF Admit, Mutation
<1> QED BY <1>3, <1>4, ValuesAssumption

\* Every path of HandleControlRequest that mutates is one of these admissions.
LEMMA AdmissionIsAdmit ==
  ASSUME TypeOK,
         \E id \in Requests : \/ \E op \in Ops : AdmitMutation(id, op)
                              \/ AdmitCalibration(id)
  PROVE  \E id \in Requests, op \in Ops, d \in Config, c \in BOOLEAN :
           /\ Admit(id, op, d, c)
           /\ op \in {"config", "request-keyframe"} => d.active = desiredConfig.active
           /\ op = "start" => d.active
           /\ op = "stop" => ~d.active
           /\ op # "config" => d.jpeg = desiredConfig.jpeg
           /\ c \/ d.cal = desiredConfig.cal
           /\ c => op = "config"
<1>1. ASSUME NEW id \in Requests, NEW op \in Ops, AdmitMutation(id, op)
      PROVE  \E d \in Config :
               /\ Admit(id, op, d, FALSE)
               /\ op \in {"config", "request-keyframe"} => d.active = desiredConfig.active
               /\ op = "start" => d.active
               /\ op = "stop" => ~d.active
               /\ op # "config" => d.jpeg = desiredConfig.jpeg
               /\ d.cal = desiredConfig.cal
  <2>1. PICK d \in DesiredConfigs(op) : Admit(id, op, d, FALSE)
    BY <1>1 DEF AdmitMutation
  <2>2. d \in Config
    BY DesiredIsConfig DEF TypeOK
  <2>3. desiredConfig \in Config
    BY DEF TypeOK
  <2>4. /\ op \in {"config", "request-keyframe"} => d.active = desiredConfig.active
        /\ op = "start" => d.active
        /\ op = "stop" => ~d.active
        /\ op # "config" => d.jpeg = desiredConfig.jpeg
        /\ d.cal = desiredConfig.cal
    <3>1. CASE op = "config"
      <4>1. PICK q \in Jpegs : d = [desiredConfig EXCEPT !.jpeg = q]
        BY <3>1 DEF DesiredConfigs
      <4> QED BY <2>3, <3>1, <4>1 DEF Config
    <3>2. CASE op # "config"
      BY <2>3, <3>2 DEF DesiredConfigs, Config, Ops
    <3> QED BY <3>1, <3>2
  <2> QED BY <2>1, <2>2, <2>4
<1>2. ASSUME NEW id \in Requests, AdmitCalibration(id)
      PROVE  \E d \in Config : /\ Admit(id, "config", d, TRUE)
                               /\ d.active = desiredConfig.active
  <2>1. PICK k \in Calibrations, q \in Jpegs :
          Admit(id, "config", [desiredConfig EXCEPT !.cal = k, !.jpeg = q], TRUE)
    BY <1>2 DEF AdmitCalibration
  <2>2. /\ [desiredConfig EXCEPT !.cal = k, !.jpeg = q] \in Config
        /\ [desiredConfig EXCEPT !.cal = k, !.jpeg = q].active = desiredConfig.active
    BY DEF TypeOK, Config
  <2> QED BY <2>1, <2>2
<1> QED
  BY <1>1, <1>2 DEF Ops

\* Admission changes the revision, the configuration and the state the status
\* reports within their types.
LEMMA AdmitTypeOK ==
  ASSUME TypeOK, NEW id \in Requests, NEW op \in Ops, NEW d \in Config,
         NEW c \in BOOLEAN, Admit(id, op, d, c)
  PROVE  TypeOK'
<1>1. desiredRevision' \in Nat /\ desiredConfig' \in Config
  BY DEF Admit, TypeOK
<1>2. nativeLifecycleState' \in {"idle", "starting", "active", "stopping", "faulted"}
  BY DEF Admit, TypeOK
<1>3. nativeCommand' \in Command /\ pendingControl' \in Mutation
  BY AdmitRecords
<1>4. UNCHANGED <<answers, acks, render, rtp, calibration, worker, demand,
                  capture, history>>
  BY DEF Admit
<1> QED
  BY <1>1, <1>2, <1>3, <1>4
  DEF TypeOK, answers, acks, encoder, render, rtp, calibration, worker, demand,
      history

\* A receipt that is remembered is one FlushControl or FlushCapture made.
LEMMA ReceiptsType ==
  ASSUME NEW m \in Receipt \cup {None}, NEW done \in BOOLEAN
  PROVE  Receipts(m, done) \in Seq(Receipt)
<1>1. [id |-> None, stage |-> "completed"] \in Receipt
  BY DEF Receipt
<1>2. CASE m = None
  BY <1>1, <1>2 DEF Receipts
<1>3. CASE m # None
  BY <1>1, <1>3 DEF Receipts
<1> QED BY <1>2, <1>3

\* RememberReceipt and the observers: the ring holds receipts, an observer
\* waits behind an event revision or is gone.
LEMMA RememberTypeOK ==
  ASSUME TypeOK, NEW m \in Receipt \cup {None}, NEW done \in BOOLEAN,
         Remember(m, done)
  PROVE  /\ controlReceipts' \in Seq(Receipt) /\ controlEventRevision' \in Nat
         /\ controlWatchers' \in [Watchers -> Nat \cup {None}]
<1> DEFINE new == Receipts(m, done)
           all == controlReceipts \o new
           extra == IF Len(all) > ReceiptSlots THEN Len(all) - ReceiptSlots ELSE 0
<1>1. new \in Seq(Receipt) /\ Len(new) \in Nat
  BY ReceiptsType
<1>2. all \in Seq(Receipt) /\ Len(all) \in Nat
  BY <1>1, ConcatProperties, LenProperties DEF TypeOK
<1>3. /\ controlReceipts' = SubSeq(all, extra + 1, Len(all))
      /\ controlEventRevision' = controlEventRevision + Len(new)
  BY DEF Remember
<1>4. extra \in Nat
  BY <1>2, BoundsAssumption
<1>5. controlReceipts' \in Seq(Receipt)
  <2> HIDE DEF all, extra
  <2>1. \A i \in extra + 1..Len(all) : all[i] \in Receipt
    BY <1>2, <1>4, ElementOfSeq
  <2> QED BY <1>2, <1>3, <1>4, <2>1, SubSeqProperties
<1>6. controlWatchers' \in [Watchers -> Nat \cup {None}]
  <2>1. PICK gone \in SUBSET Watchers :
          controlWatchers' =
            [w \in Watchers |->
               IF controlWatchers[w] = None \/ w \in gone
                    \/ controlWatchers[w] < controlEventRevision'
                 THEN None ELSE controlWatchers[w]]
    BY DEF Remember
  <2>2. \A w \in Watchers : controlWatchers[w] \in Nat \cup {None}
    BY DEF TypeOK
  <2> QED BY <2>1, <2>2
<1> HIDE DEF new, all, extra
<1>7. controlEventRevision' \in Nat
  BY <1>1, <1>3 DEF TypeOK
<1> QED
  BY <1>5, <1>6, <1>7
\* One FlushControl pass, whichever of its three ways it goes.
LEMMA FlushTypeOK ==
  ASSUME TypeOK, NEW done \in BOOLEAN, FlushControl(done)
  PROVE  TypeOK'
<1>1. capture' \in {"none", "wanted", "submitted"}
  BY DEF FlushControl, FlushCapture, TypeOK
<1>2. /\ controlReceipts' \in Seq(Receipt) /\ controlEventRevision' \in Nat
      /\ controlWatchers' \in [Watchers -> Nat \cup {None}]
  <2>1. pendingControl # None =>
          \A s \in {"completed", "failed"} : [id |-> pendingControl.id, stage |-> s] \in Receipt
    BY DEF TypeOK, Mutation, Receipt
  <2>2. \E m \in Receipt \cup {None} : Remember(m, done)
    BY <2>1 DEF FlushControl, IsFailed, IsApplied, IsDropped
  <2> QED BY <2>2, RememberTypeOK
<1>3. /\ appliedRevision' \in Nat /\ appliedConfig' \in Config
      /\ pendingControl' \in Mutation \cup {None}
      /\ nativeCommand' \in Command \cup {None}
      /\ outcome' \in [Revisions -> {"none", "completed", "failed", "dropped"}]
      /\ everDropped' \in BOOLEAN
  <2>1. CASE IsFailed
    BY <2>1 DEF FlushControl, Answer, TypeOK
  <2>2. CASE ~IsFailed /\ IsApplied
    <3>1. pendingControl.revision \in Nat
      BY <2>2 DEF IsApplied, TypeOK, Mutation
    <3>2. [desiredConfig EXCEPT !.active = nativeAppliedActive] \in Config
      BY DEF TypeOK, Config
    <3> QED BY <2>2, <3>1, <3>2 DEF FlushControl, Answer, TypeOK
  <2>3. CASE ~IsFailed /\ ~IsApplied /\ IsDropped
    BY <2>3 DEF FlushControl, Answer, TypeOK
  <2>4. CASE ~IsFailed /\ ~IsApplied /\ ~IsDropped
    BY <2>4 DEF FlushControl, TypeOK
  <2> QED BY <2>1, <2>2, <2>3, <2>4
<1> QED
  BY <1>1, <1>2, <1>3
  DEF FlushControl, TypeOK, acks, encoder, render, rtp, calibration, worker, demand

\* The executor's handlers and its poll.
LEMMA ExecutorTypeOK == TypeOK /\ Executor => TypeOK'
<1> SUFFICES ASSUME TypeOK, Executor PROVE TypeOK'
  OBVIOUS
<1>1. CASE \E id \in Requests : \/ \E op \in Ops : AdmitMutation(id, op)
                                \/ AdmitCalibration(id)
  BY <1>1, AdmissionIsAdmit, AdmitTypeOK
<1>2. CASE ControlDeadline
  <2>1. [pendingControl EXCEPT !.late = TRUE] \in Mutation
    BY <1>2 DEF ControlDeadline, TypeOK, Mutation
  <2> QED
    BY <1>2, <2>1 DEF ControlDeadline, TypeOK, answers, acks, encoder, render,
                      rtp, calibration, worker, demand, history
<1>3. CASE AdmitCapture
  BY <1>3 DEF AdmitCapture, TypeOK, answers, acks, encoder, render, rtp,
              calibration, worker, demand, history
<1>4. ASSUME NEW done \in BOOLEAN, FlushControl(done) PROVE TypeOK'
  BY <1>4, FlushTypeOK
<1>5. ASSUME NEW w \in Watchers, Observe(w) PROVE TypeOK'
  BY <1>5 DEF Observe, TypeOK, acks, encoder, render, rtp, calibration, worker,
              demand, history
<1> QED
  BY <1>1, <1>2, <1>3, <1>4, <1>5 DEF Executor
\* Where the render thread is.
Phases == {"target", "settle", "deactivate", "fault", "release", "post"}
USE DEF Phases

\* An acknowledgement carries a revision the client was given.
LEMMA CompleteTypeOK ==
  ASSUME TypeOK, NEW command \in Command, CompleteNativeControl(command)
  PROVE  /\ nativeAppliedRevision' \in Nat /\ nativeFailedRevision' \in Nat
         /\ nativeAppliedActive' \in BOOLEAN
         /\ nativeLifecycleState' \in
              {"idle", "starting", "active", "stopping", "faulted"}
  BY DEF CompleteNativeControl, TypeOK, Command

\* OnPostRender: whatever it takes over, the demand and the sensor's state
\* follow from it.
LEMMA PostRenderTypeOK ==
  TypeOK /\ (PostRenderConsume \/ PostRenderIdle) => TypeOK'
<1> SUFFICES ASSUME TypeOK, PostRenderConsume \/ PostRenderIdle PROVE TypeOK'
  OBVIOUS
<1>1. CASE PostRenderConsume
  <2>1. /\ nativeCommand \in Command /\ nativeCommand.revision \in Nat
        /\ nativeCommand.active \in BOOLEAN /\ nativeCommand.jpeg \in Jpegs
        /\ nativeCommand.cal \in Calibrations \cup {None}
    BY <1>1 DEF PostRenderConsume, TypeOK, Command
  <2>2. calibrationMetadata' \in Metadata /\ rosCameraInfoPending' \in BOOLEAN
    <3>1. CASE nativeCommand.cal = None
      BY <1>1, <3>1 DEF PostRenderConsume, Consume, TypeOK, calibration
    <3>2. CASE nativeCommand.cal # None
      BY <1>1, <2>1, <3>2 DEF PostRenderConsume, Consume, Metadata
    <3> QED BY <3>1, <3>2
  <2>3. /\ nativeCommand' = None /\ consumed' \in SUBSET Nat
        /\ desiredActive' \in BOOLEAN /\ jpegQuality' \in Jpegs
        /\ forceKeyframe' \in BOOLEAN /\ rtpQueued' \in BOOLEAN
        /\ freshGate' \in {"open", "armed", "waiting"}
    BY <1>1, <2>1 DEF PostRenderConsume, Consume, TypeOK
  <2>4. /\ nativeAppliedRevision' \in Nat /\ nativeFailedRevision' \in Nat
        /\ nativeAppliedActive' \in BOOLEAN
        /\ nativeLifecycleState' \in
             {"idle", "starting", "active", "stopping", "faulted"}
        /\ awaitingNativeControl' \in Command \cup {None}
    <3>1. CASE CompleteNativeControl(nativeCommand)
      BY <1>1, <2>1, <3>1, CompleteTypeOK DEF PostRenderConsume, TypeOK
    <3>2. CASE NothingCompletes /\ awaitingNativeControl' = nativeCommand
      BY <2>1, <3>2 DEF NothingCompletes, acks, TypeOK
    <3> QED BY <1>1, <3>1, <3>2 DEF PostRenderConsume
  <2>5. /\ sensorActive' \in BOOLEAN /\ cleanupEncoderRequested' \in BOOLEAN
        /\ renderPhase' \in Phases
    BY <1>1, <2>3 DEF PostRenderConsume, RenderDemand, TypeOK
  <2> QED
    BY <1>1, <2>2, <2>3, <2>4, <2>5
    DEF PostRenderConsume, TypeOK, answers, encoder, worker, demand
<1>2. CASE PostRenderIdle
  <2>1. /\ nativeAppliedRevision' \in Nat /\ nativeFailedRevision' \in Nat
        /\ nativeAppliedActive' \in BOOLEAN
        /\ nativeLifecycleState' \in
             {"idle", "starting", "active", "stopping", "faulted"}
        /\ awaitingNativeControl' \in Command \cup {None}
    <3>1. CASE StopIsDrained
      <4>1. awaitingNativeControl \in Command
        BY <3>1 DEF StopIsDrained, Awaits, TypeOK
      <4> QED BY <1>2, <3>1, <4>1, CompleteTypeOK DEF PostRenderIdle
    <3>2. CASE ~StopIsDrained
      BY <1>2, <3>2 DEF PostRenderIdle, NothingCompletes, acks, TypeOK
    <3> QED BY <3>1, <3>2
  <2>2. /\ sensorActive' \in BOOLEAN /\ cleanupEncoderRequested' \in BOOLEAN
        /\ renderPhase' \in Phases
    BY <1>2 DEF PostRenderIdle, RenderDemand, TypeOK
  <2> QED
    BY <1>2, <2>1, <2>2
    DEF PostRenderIdle, TypeOK, answers, encoder, rtp, calibration, worker,
        demand, history
<1> QED BY <1>1, <1>2

\* EncodeRenderedFrame hands back frames it holds by the revision of their
\* force-IDR, whatever NVENC, OpenGL and the pacer's queue make of the frame.
EncodeResult == [ok : BOOLEAN, force : BOOLEAN, ready : BOOLEAN, held : Seq(Nat),
                 queued : BOOLEAN, idr : Nat]
Input == [held : Seq(Nat), force : BOOLEAN, queued : BOOLEAN]

\* Every way EncodeRenderedFrame can end is one of these results.
LEMMA EncodeResultsType ==
  ASSUME TypeOK, NEW reset \in BOOLEAN
  PROVE  EncodeResults(reset) \subseteq EncodeResult
<1>1. <<>> \in Seq(Nat)
  OBVIOUS
<1>2. Ensured(reset) \subseteq Input
  <2>1. CASE encoderResourcesActive /\ ~reset
    BY <2>1 DEF Ensured, Input, TypeOK
  <2>2. CASE ~(encoderResourcesActive /\ ~reset)
    <3>1. \A q \in BOOLEAN : [held |-> <<>>, force |-> TRUE, queued |-> q] \in Input
      BY <1>1 DEF Input
    <3>2. rtpQueued \in BOOLEAN
      BY DEF TypeOK
    <3>3. SUFFICES ASSUME NEW e \in Ensured(reset) PROVE e \in Input
      OBVIOUS
    <3>4. PICK q \in BOOLEAN : e = [held |-> <<>>, force |-> TRUE, queued |-> q]
      BY <2>2, <3>2 DEF Ensured
    <3> QED BY <3>1, <3>4
  <2> QED BY <2>1, <2>2
<1>3. \A force \in BOOLEAN : Stamp(force) \in Nat
  BY DEF Stamp, Awaits, TypeOK, Command
<1>4. NotSubmitted(reset) \subseteq EncodeResult
  <2>1. [ok |-> FALSE, force |-> forceKeyframe \/ reset, ready |-> FALSE,
         held |-> <<>>, queued |-> rtpQueued /\ ~reset, idr |-> 0] \in EncodeResult
    BY <1>1 DEF EncodeResult, TypeOK
  <2>2. ASSUME NEW e \in Ensured(reset)
        PROVE  [ok |-> FALSE, force |-> e.force, ready |-> TRUE, held |-> e.held,
                queued |-> e.queued, idr |-> 0] \in EncodeResult
    BY <1>2 DEF EncodeResult, Input
  <2> QED BY <2>1, <2>2 DEF NotSubmitted
<1>5. Rebuilt \subseteq EncodeResult
  BY <1>1 DEF Rebuilt, EncodeResult
<1>6. ASSUME NEW e \in Input
      PROVE  Delayed(e) \cup Output(e) \subseteq EncodeResult
  <2> DEFINE held == Append(e.held, Stamp(e.force))
  <2>1. /\ e.held \in Seq(Nat) /\ e.queued \in BOOLEAN /\ Stamp(e.force) \in Nat
    BY <1>3, <1>6 DEF Input
  <2>2. held \in Seq(Nat) /\ held # <<>>
    BY <2>1, AppendProperties
  <2>3. Head(held) \in Nat /\ Tail(held) \in Seq(Nat)
    BY <2>2, HeadTailProperties
  <2>4. Delayed(e) \subseteq EncodeResult
    <3>1. [ok |-> TRUE, force |-> FALSE, ready |-> TRUE, held |-> held,
           queued |-> e.queued, idr |-> 0] \in EncodeResult
      BY <2>1, <2>2 DEF EncodeResult
    <3> QED BY <3>1 DEF Delayed
  <2>5. ASSUME NEW ok \in BOOLEAN, NEW force \in BOOLEAN, NEW queued \in BOOLEAN,
               NEW idr \in Nat
        PROVE  [ok |-> ok, force |-> force, ready |-> TRUE, held |-> Tail(held),
                queued |-> queued, idr |-> idr] \in EncodeResult
    BY <2>3, <2>5 DEF EncodeResult
  <2>6. Output(e) \subseteq EncodeResult
    <3> SUFFICES ASSUME NEW x \in Output(e) PROVE x \in EncodeResult
      OBVIOUS
    <3>1. PICK ok \in BOOLEAN, force \in BOOLEAN,
               queued \in {e.queued, TRUE, FALSE}, idr \in {Head(held), 0} :
             x = [ok |-> ok, force |-> force, ready |-> TRUE, held |-> Tail(held),
                  queued |-> queued, idr |-> idr]
      BY ONLY x \in Output(e), ZenonT(30) DEF Output
    <3> HIDE DEF held
    <3>2. queued \in BOOLEAN
      BY ONLY <2>1, queued \in {e.queued, TRUE, FALSE}
    <3>3. idr \in Nat
      BY ONLY <2>3, idr \in {Head(held), 0}
    <3> QED
      BY ONLY <2>5, <3>1, <3>2, <3>3, ok \in BOOLEAN, force \in BOOLEAN
  <2> QED BY <2>4, <2>6
<1> QED
  BY <1>2, <1>4, <1>5, <1>6 DEF EncodeResults
\* What every way through the render-target callback leaves in its type.
LEMMA TargetCommonTypeOK ==
  ASSUME TypeOK, TargetCommon,
         renderPhase' \in Phases,
         encoderResourcesActive' \in BOOLEAN, pendingEncodedFrames' \in Seq(Nat),
         forceKeyframe' \in BOOLEAN, freshGate' \in {"open", "armed", "waiting"},
         rtpQueued' \in BOOLEAN, disturbances' \in Nat,
         awaitingNativeControl' \in Command \cup {None},
         nativeAppliedRevision' \in Nat, nativeFailedRevision' \in Nat,
         nativeAppliedActive' \in BOOLEAN,
         nativeLifecycleState' \in
           {"idle", "starting", "active", "stopping", "faulted"}
  PROVE  TypeOK'
<1>1. capture' \in {"none", "wanted", "submitted"} /\ cleanupEncoderRequested' = FALSE
  BY DEF TargetCommon, CaptureStep, TypeOK
<1>2. UNCHANGED <<desiredRevision, desiredConfig, pendingControl, answers,
                  nativeCommand, desiredActive, jpegQuality, sensorActive,
                  rtpInFlight, calibration, worker, rosConsumersActive, history>>
  BY DEF TargetCommon
<1> QED
  BY <1>1, <1>2, ZenonT(60) DEF TypeOK, answers, calibration, worker, history

\* A render-target callback that encodes a frame, with any result.
LEMMA EncodedType ==
  ASSUME TypeOK, NEW reset \in BOOLEAN, NEW r \in EncodeResults(reset),
         Encoded(reset, r)
  PROVE  /\ forceKeyframe' \in BOOLEAN /\ encoderResourcesActive' \in BOOLEAN
         /\ pendingEncodedFrames' \in Seq(Nat) /\ rtpQueued' \in BOOLEAN
         /\ disturbances' \in Nat
<1>1. r \in EncodeResult
  BY EncodeResultsType
<1>2. disturbances' \in Nat
  BY DEF Encoded, TypeOK
<1> QED
  BY <1>1, <1>2 DEF Encoded, EncodeResult

\* postRenderTargetUpdate, and the stores of FailNativeEncoderTransition.
LEMMA TargetTypeOK ==
  TypeOK /\ (TargetIdle \/ TargetStale \/ TargetEncode \/ TargetFail \/ SettleFailure)
    => TypeOK'
<1> SUFFICES ASSUME TypeOK, TargetIdle \/ TargetStale \/ TargetEncode
                              \/ TargetFail \/ SettleFailure
             PROVE  TypeOK'
  OBVIOUS
<1>1. <<>> \in Seq(Nat)
  OBVIOUS
<1>2. CASE TargetIdle
  <2>1. encoderResourcesActive' \in BOOLEAN /\ pendingEncodedFrames' \in Seq(Nat)
    BY <1>1, <1>2 DEF TargetIdle, TypeOK, encoder
  <2>2. TargetCommon /\ renderPhase' = "post"
    BY <1>2 DEF TargetIdle
  <2> QED
    BY <1>2, <2>1, <2>2, TargetCommonTypeOK
    DEF TargetIdle, TypeOK, NothingCompletes, acks
<1>3. CASE TargetStale
  <2>1. /\ encoderResourcesActive' \in BOOLEAN /\ pendingEncodedFrames' \in Seq(Nat)
        /\ forceKeyframe' \in BOOLEAN /\ freshGate' \in {"open", "armed", "waiting"}
        /\ rtpQueued' \in BOOLEAN
    BY <1>1, <1>3 DEF TargetStale, TypeOK, encoder
  <2>2. TargetCommon /\ renderPhase' = "post"
    BY <1>3 DEF TargetStale
  <2> QED
    BY <1>3, <2>1, <2>2, TargetCommonTypeOK
    DEF TargetStale, TypeOK, NothingCompletes, acks
<1>4. CASE TargetEncode
  <2> DEFINE Acknowledges ==
               \/ /\ awaitingNativeControl # None
                  /\ CompleteNativeControl(awaitingNativeControl)
                  /\ awaitingNativeControl' = None
               \/ NothingCompletes /\ UNCHANGED awaitingNativeControl
  <2>0. PICK reset \in BOOLEAN :
          \E r \in EncodeResults(reset) : Encoded(reset, r) /\ Acknowledges
    BY <1>4 DEF TargetEncode, Awaits
  <2>1. PICK r \in EncodeResults(reset) : Encoded(reset, r) /\ Acknowledges
    BY <2>0
  <2>2. /\ awaitingNativeControl' \in Command \cup {None}
        /\ nativeAppliedRevision' \in Nat /\ nativeFailedRevision' \in Nat
        /\ nativeAppliedActive' \in BOOLEAN
        /\ nativeLifecycleState' \in
             {"idle", "starting", "active", "stopping", "faulted"}
    <3>1. CASE /\ awaitingNativeControl # None
               /\ CompleteNativeControl(awaitingNativeControl)
               /\ awaitingNativeControl' = None
      <4>1. awaitingNativeControl \in Command
        BY <3>1 DEF TypeOK
      <4> QED BY <3>1, <4>1, CompleteTypeOK
    <3>2. CASE NothingCompletes /\ UNCHANGED awaitingNativeControl
      BY <3>2 DEF NothingCompletes, acks, TypeOK
    <3> QED BY <2>1, <3>1, <3>2
  <2>3. TargetCommon /\ renderPhase' = "post" /\ freshGate' = "open"
    BY <1>4 DEF TargetEncode
  <2> QED
    BY <2>1, <2>2, <2>3, EncodedType, TargetCommonTypeOK
<1>5. CASE TargetFail
  <2>0. PICK reset \in BOOLEAN : \E r \in EncodeResults(reset) : Encoded(reset, r)
    BY <1>5 DEF TargetFail
  <2>1. PICK r \in EncodeResults(reset) : Encoded(reset, r)
    BY <2>0
  <2>2. nativeFailedRevision' \in Nat /\ renderPhase' \in Phases
    BY <1>5 DEF TargetFail, Awaits, TypeOK, Command
  <2>3. /\ TargetCommon /\ freshGate' = "open"
        /\ UNCHANGED <<awaitingNativeControl, nativeAppliedRevision,
                       nativeAppliedActive, nativeLifecycleState>>
    BY <1>5 DEF TargetFail
  <2>4. /\ awaitingNativeControl' \in Command \cup {None}
        /\ nativeAppliedRevision' \in Nat /\ nativeAppliedActive' \in BOOLEAN
        /\ nativeLifecycleState' \in
             {"idle", "starting", "active", "stopping", "faulted"}
    BY <2>3 DEF TypeOK
  <2> QED
    BY <2>1, <2>2, <2>3, <2>4, EncodedType, TargetCommonTypeOK
<1>6. CASE SettleFailure
  <2>1. /\ awaitingNativeControl' \in Command \cup {None}
        /\ desiredActive' \in BOOLEAN /\ nativeAppliedActive' \in BOOLEAN
        /\ nativeLifecycleState' \in
             {"idle", "starting", "active", "stopping", "faulted"}
        /\ rtpQueued' \in BOOLEAN /\ encoderResourcesActive' \in BOOLEAN
        /\ pendingEncodedFrames' \in Seq(Nat)
        /\ renderPhase' \in Phases
    <3>1. CASE WithdrawDemand
      BY <3>1 DEF WithdrawDemand, TypeOK, NothingCompletes, acks, encoder
    <3>2. CASE WithdrawActive
      BY <3>2 DEF WithdrawActive, TypeOK, encoder
    <3>3. CASE ReportFault
      BY <3>3 DEF ReportFault, TypeOK, acks, encoder
    <3>4. CASE ReleaseEncoder
      BY <1>1, <3>4 DEF ReleaseEncoder, TypeOK, NothingCompletes, acks
    <3> QED BY <1>6, <3>1, <3>2, <3>3, <3>4 DEF SettleFailure
  <2>2. UNCHANGED <<desiredRevision, desiredConfig, pendingControl, answers,
                    nativeCommand, nativeAppliedRevision, nativeFailedRevision,
                    jpegQuality, forceKeyframe, sensorActive,
                    cleanupEncoderRequested, freshGate, rtpInFlight,
                    calibration, worker, demand, capture, history>>
    BY <1>6 DEF SettleFailure, WithdrawDemand, WithdrawActive, ReportFault,
                ReleaseEncoder, NothingCompletes, acks
  <2> QED
    BY <2>1, <2>2 DEF TypeOK, answers, calibration, worker, demand, history
<1> QED BY <1>2, <1>3, <1>4, <1>5, <1>6

\* The pacer, the ROS data worker and the subscriber callbacks.
LEMMA OthersTypeOK == TypeOK /\ Others => TypeOK'
<1> SUFFICES ASSUME TypeOK, Others PROVE TypeOK'
  OBVIOUS
<1> USE DEF TypeOK, answers, acks
<1>1. CASE PacerTake \/ PacerDone
  <2>1. rtpQueued' \in BOOLEAN /\ rtpInFlight' \in BOOLEAN
    BY <1>1 DEF PacerTake, PacerDone
  <2>2. UNCHANGED <<desiredRevision, desiredConfig, pendingControl, answers,
                    nativeCommand, acks, nativeLifecycleState, render,
                    calibration, worker, demand, capture, history>>
    BY <1>1 DEF PacerTake, PacerDone
  <2> QED
    BY <2>1, <2>2 DEF render, encoder, calibration, worker, demand, history
<1>2. CASE RosMasterAppears
  BY <1>2 DEF RosMasterAppears, encoder, render, rtp, demand, history
<1>3. CASE WorkerTake
  <2>1. workerCameraInfo' \in Metadata \cup {None} /\ rosCameraInfoPending' \in BOOLEAN
    BY <1>3 DEF WorkerTake
  <2>2. UNCHANGED <<desiredRevision, desiredConfig, pendingControl, answers,
                    nativeCommand, acks, nativeLifecycleState, render, rtp,
                    calibrationMetadata, rosWorkerRunning,
                    publishedCalibrationRevision, demand, capture, history>>
    BY <1>3 DEF WorkerTake
  <2> QED
    BY <2>1, <2>2 DEF encoder, render, rtp, demand, history
<1>4. CASE WorkerPublish
  BY <1>4 DEF WorkerPublish, Metadata, encoder, render, rtp, calibration, demand,
              history
<1>5. CASE RosDemandChanges
  BY <1>5 DEF RosDemandChanges, encoder, rtp, calibration, worker, history
<1> QED BY <1>1, <1>2, <1>3, <1>4, <1>5 DEF Others

\* Load's initial values are values the code can store.
LEMMA InitTypeOK == Init => TypeOK
<1> SUFFICES ASSUME Init PROVE TypeOK
  OBVIOUS
<1>1. controlReceipts \in Seq(Receipt) /\ pendingEncodedFrames \in Seq(Nat)
  BY DEF Init
<1>2. desiredConfig \in Config /\ appliedConfig \in Config
  BY ValuesAssumption DEF Init, Config
<1>3. calibrationMetadata \in Metadata
  BY ValuesAssumption DEF Init, Metadata
<1> QED
  BY <1>1, <1>2, <1>3, ValuesAssumption DEF Init, TypeOK

\* No handler stores anything else.
LEMMA StepTypeOK == TypeOK /\ [Next]_vars => TypeOK'
<1>1. TypeOK /\ UNCHANGED vars => TypeOK'
  BY DEF TypeOK, vars, answers, acks, encoder, render, rtp, calibration, worker,
         demand, history
<1> QED
  BY <1>1, ExecutorTypeOK, PostRenderTypeOK, TargetTypeOK, OthersTypeOK
  DEF Next, Render

\* Every variable of the mutation path holds a value the code can store in it,
\* whatever the clients, the encoder and the ROS side do.
THEOREM TypeCorrect == Spec => []TypeOK
BY InitTypeOK, StepTypeOK, PTL DEF Spec

-----------------------------------------------------------------------------
(***************************************************************************)
(* One holder.  The mutation in flight is the newest one; the mailbox, a   *)
(* render thread that is not settling a failure, and the two               *)
(* acknowledgements exclude each other, and hold nothing older.            *)
(***************************************************************************)
Settling == renderPhase = "settle"
Owned == awaitingNativeControl # None /\ ~Settling

RevisionsAreKnown ==
  /\ nativeAppliedRevision <= desiredRevision
  /\ nativeFailedRevision <= desiredRevision
  /\ pendingControl # None => pendingControl.revision = desiredRevision
RecordsArePending ==
  /\ nativeCommand # None =>
       pendingControl # None /\ nativeCommand.revision = desiredRevision
  /\ Owned =>
       pendingControl # None /\ awaitingNativeControl.revision = desiredRevision
OneHolder ==
  LET mailbox == nativeCommand # None
      applied == nativeAppliedRevision = desiredRevision
      failed  == nativeFailedRevision = desiredRevision
  IN  pendingControl # None =>
        \/ mailbox /\ ~Owned /\ ~applied /\ ~failed
        \/ ~mailbox /\ Owned /\ ~applied /\ ~failed
        \/ ~mailbox /\ ~Owned /\ applied /\ ~failed
        \/ ~mailbox /\ ~Owned /\ ~applied /\ failed
HolderInv == RevisionsAreKnown /\ RecordsArePending /\ OneHolder

\* Load: nothing is in flight and revision 1 counts as applied.
LEMMA InitHolder == Init => HolderInv
  BY DEF Init, HolderInv, RevisionsAreKnown, RecordsArePending, OneHolder, Owned,
         Settling

\* The handlers of the executor: admission fills an empty mailbox, FlushControl
\* ends the mutation where it finds it.
LEMMA ExecutorHolder == TypeOK /\ HolderInv /\ Executor => HolderInv'
<1> SUFFICES ASSUME TypeOK, HolderInv, Executor PROVE HolderInv'
  OBVIOUS
<1> USE DEF HolderInv, RevisionsAreKnown, RecordsArePending, OneHolder, Owned,
            Settling
<1>1. ASSUME NEW id \in Requests, NEW op \in Ops, NEW d \in Config, NEW c \in BOOLEAN,
             Admit(id, op, d, c)
      PROVE  HolderInv'
  <2>1. /\ pendingControl = None /\ desiredRevision' = desiredRevision + 1
        /\ pendingControl'.revision = desiredRevision'
        /\ nativeCommand'.revision = desiredRevision'
        /\ UNCHANGED <<nativeAppliedRevision, nativeFailedRevision,
                       awaitingNativeControl, renderPhase>>
    BY <1>1 DEF Admit, acks, render
  <2>2. pendingControl' # None /\ nativeCommand' # None
    BY <1>1, AdmitRecords
  <2> QED
    BY <2>1, <2>2 DEF TypeOK
<1>2. CASE ControlDeadline
  <2>1. pendingControl # None /\ pendingControl \in Mutation
    BY <1>2 DEF ControlDeadline, TypeOK
  <2>2. [pendingControl EXCEPT !.late = TRUE] \in Mutation
    BY <2>1 DEF Mutation
  <2>3. pendingControl' # None /\ pendingControl'.revision = pendingControl.revision
    BY <1>2, <2>1, <2>2, ValuesAssumption DEF ControlDeadline, Mutation
  <2> QED
    BY <1>2, <2>1, <2>3 DEF ControlDeadline, acks, render
<1>3. ASSUME NEW done \in BOOLEAN, FlushControl(done) PROVE HolderInv'
  <2>1. UNCHANGED <<desiredRevision, nativeAppliedRevision, nativeFailedRevision,
                    awaitingNativeControl, renderPhase>>
    BY <1>3 DEF FlushControl, acks, render
  <2>2. CASE IsFailed \/ IsApplied
    BY <1>3, <2>1, <2>2 DEF FlushControl, Answer, IsFailed, IsApplied
  <2>3. CASE ~IsFailed /\ ~IsApplied /\ IsDropped
    BY <1>3, <2>1, <2>3 DEF FlushControl, Answer, IsDropped
  <2>4. CASE ~IsFailed /\ ~IsApplied /\ ~IsDropped
    BY <1>3, <2>1, <2>4 DEF FlushControl
  <2> QED BY <2>2, <2>3, <2>4
<1>4. ASSUME NEW w \in Watchers, Observe(w) PROVE HolderInv'
  BY <1>4 DEF Observe, acks, render
<1>5. CASE AdmitCapture
  BY <1>5 DEF AdmitCapture, acks, render
<1> QED
  BY <1>1, <1>2, <1>3, <1>4, <1>5, AdmissionIsAdmit DEF Executor
\* The render thread: what it takes out of the mailbox it either owns or has
\* acknowledged, what it owns it acknowledges once, and a failure is published
\* while the record is still set.
LEMMA RenderHolder == TypeOK /\ HolderInv /\ Render => HolderInv'
<1> SUFFICES ASSUME TypeOK, HolderInv, Render PROVE HolderInv'
  OBVIOUS
<1> USE DEF HolderInv, RevisionsAreKnown, RecordsArePending, OneHolder, Owned,
            Settling
<1>0. desiredRevision \in Nat /\ desiredRevision <= desiredRevision
  BY DEF TypeOK
<1>1. CASE PostRenderConsume
  <2>1. /\ ~Settling /\ nativeCommand # None /\ awaitingNativeControl = None
        /\ nativeCommand' = None /\ UNCHANGED <<desiredRevision, pendingControl>>
        /\ renderPhase' # "settle"
    BY <1>1 DEF PostRenderConsume, Consume, RenderDemand
  <2>2. CASE CompleteNativeControl(nativeCommand) /\ awaitingNativeControl' = None
    BY <1>0, <2>1, <2>2 DEF CompleteNativeControl
  <2>3. CASE NothingCompletes /\ awaitingNativeControl' = nativeCommand
    BY <2>1, <2>3 DEF NothingCompletes, acks
  <2> QED BY <1>1, <2>1, <2>2, <2>3 DEF PostRenderConsume
<1>2. CASE PostRenderIdle
  <2>1. /\ ~Settling /\ renderPhase' # "settle"
        /\ UNCHANGED <<desiredRevision, pendingControl, nativeCommand>>
    BY <1>2 DEF PostRenderIdle, RenderDemand
  <2>2. CASE StopIsDrained
    BY <1>0, <1>2, <2>1, <2>2 DEF PostRenderIdle, CompleteNativeControl, StopIsDrained,
                            Awaits
  <2>3. CASE ~StopIsDrained
    BY <1>2, <2>1, <2>3 DEF PostRenderIdle, NothingCompletes, acks
  <2> QED BY <2>2, <2>3
<1>3. CASE TargetIdle \/ TargetStale
  BY <1>3 DEF TargetIdle, TargetStale, TargetCommon, NothingCompletes, acks
<1>4. CASE TargetEncode
  <2>1. /\ ~Settling /\ renderPhase' # "settle"
        /\ UNCHANGED <<desiredRevision, pendingControl, nativeCommand>>
    BY <1>4 DEF TargetEncode, TargetCommon
  <2>2. CASE /\ awaitingNativeControl # None
             /\ CompleteNativeControl(awaitingNativeControl)
             /\ awaitingNativeControl' = None
    BY <1>0, <2>1, <2>2 DEF CompleteNativeControl
  <2>3. CASE NothingCompletes /\ UNCHANGED awaitingNativeControl
    BY <2>1, <2>3 DEF NothingCompletes, acks
  <2> QED BY <1>4, <2>2, <2>3 DEF TargetEncode, Awaits
<1>5. CASE TargetFail
  <2>1. /\ ~Settling
        /\ UNCHANGED <<desiredRevision, pendingControl, nativeCommand,
                       awaitingNativeControl, nativeAppliedRevision>>
    BY <1>5 DEF TargetFail, TargetCommon
  <2>2. CASE Awaits({"start", "request-keyframe"})
    <3>1. Owned /\ nativeFailedRevision' = desiredRevision /\ Settling'
      BY <1>5, <2>1, <2>2 DEF TargetFail, Awaits
    <3> QED BY <1>0, <2>1, <3>1
  <2>3. CASE ~Awaits({"start", "request-keyframe"})
    BY <1>5, <2>1, <2>3 DEF TargetFail
  <2> QED BY <2>2, <2>3
<1>6. CASE SettleFailure
  <2>1. UNCHANGED <<desiredRevision, pendingControl, nativeCommand,
                    nativeAppliedRevision, nativeFailedRevision>>
    BY <1>6 DEF SettleFailure, WithdrawDemand, WithdrawActive, ReportFault,
                ReleaseEncoder, NothingCompletes, acks
  <2>2. \/ awaitingNativeControl' = None /\ Settling
        \/ UNCHANGED awaitingNativeControl /\ ~Settling /\ ~Settling'
    BY <1>6 DEF SettleFailure, WithdrawDemand, WithdrawActive, ReportFault,
                ReleaseEncoder
  <2> QED BY <2>1, <2>2
<1> QED BY <1>1, <1>2, <1>3, <1>4, <1>5, <1>6 DEF Render

\* No step of the mutation path loses or duplicates the record.
LEMMA StepHolder == TypeOK /\ HolderInv /\ [Next]_vars => HolderInv'
<1>1. HolderInv /\ (Others \/ UNCHANGED vars) => HolderInv'
  BY DEF Others, PacerTake, PacerDone, RosMasterAppears, WorkerTake, WorkerPublish,
         RosDemandChanges, vars, acks, render, HolderInv, RevisionsAreKnown,
         RecordsArePending, OneHolder, Owned, Settling
<1> QED
  BY <1>1, ExecutorHolder, RenderHolder DEF Next

\* HandleControlRequest's slot and the render thread's record stay in step.
LEMMA HolderInvariant == Spec => [](TypeOK /\ HolderInv)
<1>1. Init => TypeOK /\ HolderInv
  BY InitTypeOK, InitHolder
<1>2. (TypeOK /\ HolderInv) /\ [Next]_vars => (TypeOK /\ HolderInv)'
  BY StepTypeOK, StepHolder
<1> QED BY <1>1, <1>2, PTL DEF Spec

\* The record of the pending mutation is in exactly one place, and no record is
\* in flight for a mutation that was already answered: the hand-over between
\* HandleControlRequest, ApplyNativeControl, CompleteNativeControl and
\* FlushControl neither loses nor duplicates it.
THEOREM OneHolderAlways == Spec => []MutationHasOneHolder
<1>1. ASSUME TypeOK, HolderInv PROVE MutationHasOneHolder
  <2> USE <1>1 DEF HolderInv, RevisionsAreKnown, RecordsArePending, OneHolder,
                   Owned, Settling
  <2>1. ASSUME pendingControl # None
        PROVE  \E h \in {"mailbox", "render", "applied", "failed"} :
                 Holders(pendingControl.revision) = {h}
    <3> DEFINE mailbox == nativeCommand # None
               applied == nativeAppliedRevision = desiredRevision
               failed == nativeFailedRevision = desiredRevision
    <3>1. pendingControl.revision = desiredRevision
      BY <2>1
    <3>2. \A h \in {"mailbox", "render", "applied", "failed"} :
            h \in Holders(desiredRevision) <=>
              \/ h = "mailbox" /\ mailbox
              \/ h = "render" /\ Owned
              \/ h = "applied" /\ applied
              \/ h = "failed" /\ failed
      BY DEF Holders
    <3>3. Holders(desiredRevision) \subseteq {"mailbox", "render", "applied", "failed"}
      BY DEF Holders
    <3>4. \/ mailbox /\ ~Owned /\ ~applied /\ ~failed
          \/ ~mailbox /\ Owned /\ ~applied /\ ~failed
          \/ ~mailbox /\ ~Owned /\ applied /\ ~failed
          \/ ~mailbox /\ ~Owned /\ ~applied /\ failed
      BY <2>1
    <3> HIDE DEF mailbox, applied, failed
    <3> HIDE <1>1 DEF Owned, HolderInv
    <3>5. \/ Holders(desiredRevision) = {"mailbox"}
          \/ Holders(desiredRevision) = {"render"}
          \/ Holders(desiredRevision) = {"applied"}
          \/ Holders(desiredRevision) = {"failed"}
      BY <3>2, <3>3, <3>4
    <3> QED BY <3>1, <3>5
  <2>2. nativeCommand # None =>
          pendingControl # None /\ pendingControl.revision = nativeCommand.revision
    OBVIOUS
  <2>3. (awaitingNativeControl # None /\ renderPhase # "settle") =>
          /\ pendingControl # None
          /\ pendingControl.revision = awaitingNativeControl.revision
    OBVIOUS
  <2> QED BY <2>1, <2>2, <2>3 DEF MutationHasOneHolder
<1> QED BY <1>1, HolderInvariant, PTL
(***************************************************************************)
(* A deadline is only answered for what was not applied.  The render       *)
(* thread has taken the pending revision exactly when the mailbox is       *)
(* empty, and no revision is answered or taken before it is admitted.      *)
(***************************************************************************)
ConsumedInv ==
  /\ \A r \in consumed : r <= desiredRevision
  /\ \A r \in Revisions : outcome[r] # "none" =>
       r <= desiredRevision /\ (pendingControl # None => r # desiredRevision)
  /\ pendingControl # None =>
       (nativeCommand = None <=> desiredRevision \in consumed)

\* FlushControl answers a mutation by what the mailbox and the acknowledgements
\* say of it, and the render thread takes it only out of the mailbox.
LEMMA StepConsumed ==
  TypeOK /\ HolderInv /\ ConsumedInv /\ [Next]_vars => ConsumedInv'
<1> SUFFICES ASSUME TypeOK, HolderInv, ConsumedInv, [Next]_vars PROVE ConsumedInv'
  OBVIOUS
<1>0. /\ desiredRevision \in Nat /\ consumed \in SUBSET Nat
      /\ outcome \in [Revisions -> {"none", "completed", "failed", "dropped"}]
      /\ Revisions \subseteq Nat
  BY BoundsAssumption DEF TypeOK, Revisions
<1>1. ASSUME NEW id \in Requests, NEW op \in Ops, NEW d \in Config,
             NEW c \in BOOLEAN, Admit(id, op, d, c)
      PROVE  ConsumedInv'
  <2>1. /\ desiredRevision' = desiredRevision + 1 /\ nativeCommand' # None
        /\ UNCHANGED <<consumed, outcome>>
    BY <1>1, AdmitRecords DEF Admit, history
  <2> QED BY <1>0, <2>1 DEF ConsumedInv
<1>2. CASE ControlDeadline
  BY <1>2 DEF ControlDeadline, ConsumedInv, history
<1>3. ASSUME NEW done \in BOOLEAN, FlushControl(done) PROVE ConsumedInv'
  <2>1. UNCHANGED <<desiredRevision, consumed>>
    BY <1>3 DEF FlushControl
  <2>2. CASE pendingControl # None /\ \E verdict : Answer(verdict)
    <3>1. /\ pendingControl' = None
          /\ \A r \in Revisions : r # desiredRevision => outcome'[r] = outcome[r]
      BY <1>0, <2>2 DEF Answer, HolderInv, RevisionsAreKnown
    <3> QED BY <1>0, <2>1, <2>2, <3>1 DEF ConsumedInv
  <2>3. CASE UNCHANGED <<pendingControl, outcome, nativeCommand>>
    BY <2>1, <2>3 DEF ConsumedInv
  <2> QED
    BY <1>3, <2>2, <2>3 DEF FlushControl, IsFailed, IsApplied, IsDropped
<1>4. CASE PostRenderConsume
  <2>1. /\ pendingControl # None /\ nativeCommand.revision = desiredRevision
        /\ consumed' = consumed \cup {nativeCommand.revision}
        /\ nativeCommand' = None
        /\ UNCHANGED <<desiredRevision, pendingControl, outcome>>
    BY <1>4 DEF PostRenderConsume, Consume, HolderInv, RecordsArePending
  <2> QED BY <1>0, <2>1 DEF ConsumedInv
<1>5. CASE UNCHANGED <<desiredRevision, pendingControl, nativeCommand, outcome,
                       consumed>>
  BY <1>5 DEF ConsumedInv
<1>6. ASSUME \/ AdmitCapture \/ \E w \in Watchers : Observe(w)
             \/ PostRenderIdle \/ TargetIdle \/ TargetStale \/ TargetEncode
             \/ TargetFail \/ SettleFailure \/ Others \/ UNCHANGED vars
      PROVE  ConsumedInv'
  BY <1>5, <1>6
  DEF AdmitCapture, Observe, PostRenderIdle, TargetIdle, TargetStale,
      TargetEncode, TargetFail, TargetCommon, SettleFailure, Others, PacerTake,
      PacerDone, RosMasterAppears, WorkerTake, WorkerPublish, RosDemandChanges,
      vars, history
<1> QED
  BY <1>1, <1>2, <1>3, <1>4, <1>6, AdmissionIsAdmit DEF Next, Executor, Render

\* What was answered says whether it was taken.
LEMMA StepDeadline ==
  TypeOK /\ HolderInv /\ ConsumedInv /\ DeadlineMeansNotApplied /\ [Next]_vars
    => DeadlineMeansNotApplied'
<1> SUFFICES ASSUME TypeOK, HolderInv, ConsumedInv, DeadlineMeansNotApplied,
                    [Next]_vars
             PROVE  DeadlineMeansNotApplied'
  OBVIOUS
<1>1. ASSUME NEW done \in BOOLEAN, FlushControl(done)
      PROVE  DeadlineMeansNotApplied'
  <2>1. UNCHANGED consumed /\ outcome \in [Revisions -> {"none", "completed", "failed", "dropped"}]
    BY <1>1 DEF FlushControl, TypeOK
  <2>2. pendingControl # None => pendingControl.revision = desiredRevision
    BY DEF HolderInv, RevisionsAreKnown
  <2>3. CASE /\ pendingControl # None /\ nativeCommand = None
             /\ Answer("completed") \/ Answer("failed")
    BY <2>1, <2>2, <2>3 DEF Answer, ConsumedInv, DeadlineMeansNotApplied
  <2>4. CASE pendingControl # None /\ nativeCommand # None /\ Answer("dropped")
    BY <2>1, <2>2, <2>4 DEF Answer, ConsumedInv, DeadlineMeansNotApplied
  <2>5. CASE UNCHANGED outcome
    BY <2>1, <2>5 DEF DeadlineMeansNotApplied
  <2>6. IsFailed \/ IsApplied => nativeCommand = None
    BY <2>2 DEF IsFailed, IsApplied, HolderInv, OneHolder
  <2> QED
    BY <1>1, <2>3, <2>4, <2>5, <2>6 DEF FlushControl, IsFailed, IsApplied, IsDropped
<1>2. CASE PostRenderConsume
  <2>1. /\ consumed' = consumed \cup {desiredRevision} /\ UNCHANGED outcome
        /\ pendingControl # None
    BY <1>2 DEF PostRenderConsume, Consume, HolderInv, RecordsArePending
  <2> QED BY <2>1 DEF ConsumedInv, DeadlineMeansNotApplied
<1>3. CASE UNCHANGED <<outcome, consumed>>
  BY <1>3 DEF DeadlineMeansNotApplied
<1>4. ASSUME NEW id \in Requests, NEW op \in Ops, NEW d \in Config,
             NEW c \in BOOLEAN, Admit(id, op, d, c)
      PROVE  UNCHANGED <<outcome, consumed>>
  BY <1>4 DEF Admit, history
<1>5. ASSUME \/ ControlDeadline \/ AdmitCapture \/ \E w \in Watchers : Observe(w)
             \/ PostRenderIdle \/ TargetIdle \/ TargetStale \/ TargetEncode
             \/ TargetFail \/ SettleFailure \/ Others \/ UNCHANGED vars
      PROVE  UNCHANGED <<outcome, consumed>>
  BY <1>5
  DEF ControlDeadline, AdmitCapture, Observe, PostRenderIdle, TargetIdle,
      TargetStale, TargetEncode, TargetFail, TargetCommon, SettleFailure, Others,
      PacerTake, PacerDone, RosMasterAppears, WorkerTake, WorkerPublish,
      RosDemandChanges, vars, history
<1> QED
  BY <1>1, <1>2, <1>3, <1>4, <1>5, AdmissionIsAdmit DEF Next, Executor, Render

\* A 504 is given only for a mutation the render thread never took, and what it
\* took is only answered by what it reported: "caller cancellation is not
\* rollback" (FlushControl).
THEOREM DeadlineIsNotRollback == Spec => []DeadlineMeansNotApplied
<1>1. Init => ConsumedInv /\ DeadlineMeansNotApplied
  BY DEF Init, ConsumedInv, DeadlineMeansNotApplied
<1>2. TypeOK /\ HolderInv /\ (ConsumedInv /\ DeadlineMeansNotApplied) /\ [Next]_vars
        => (ConsumedInv /\ DeadlineMeansNotApplied)'
  BY StepConsumed, StepDeadline
<1> QED BY <1>1, <1>2, HolderInvariant, PTL DEF Spec
(***************************************************************************)
(* The reported state.  "idle" and "active" are reached only by the        *)
(* acknowledgement of a stop and of a start, and left as the next one is   *)
(* admitted; in between no command that is still on its way to the render  *)
(* thread may carry the other value of the active flag, which is why the   *)
(* desired configuration has to agree with "active" as well.               *)
(* A failed transition withdraws them store by store (Failing), and the    *)
(* executor may admit the next command in between.                         *)
(***************************************************************************)
Failing == renderPhase \in {"deactivate", "fault", "release"}
QueueFollowsDemand == ~desiredActive => ~rtpQueued \/ Failing
TargetIsActive == renderPhase = "target" => sensorActive
IdleIsSilent ==
  nativeLifecycleState = "idle" =>
    ~desiredActive /\ ~rtpInFlight /\ ~nativeAppliedActive /\ ~Failing /\ ~Settling
FaultIsReported == renderPhase = "release" => nativeLifecycleState # "active"
DesiredAgrees ==
  nativeLifecycleState \in {"starting", "active"} => desiredConfig.active
MailboxAgrees ==
  nativeCommand # None =>
    /\ nativeCommand.kind = "start" => nativeCommand.active /\ desiredConfig.active
    /\ nativeCommand.kind = "stop" => ~nativeCommand.active
    /\ nativeCommand.kind = "request-keyframe" => nativeLifecycleState # "idle"
    /\ nativeLifecycleState = "idle" => ~nativeCommand.active
    /\ nativeLifecycleState = "active" => nativeCommand.active \/ Failing
OwnedAgrees ==
  Owned =>
    /\ awaitingNativeControl.kind = "start" => desiredActive /\ desiredConfig.active
    /\ awaitingNativeControl.kind = "stop" => ~desiredActive
    /\ awaitingNativeControl.kind = "request-keyframe" =>
         nativeLifecycleState # "idle"
ServiceInv ==
  /\ QueueFollowsDemand /\ TargetIsActive /\ IdleIsSilent /\ ActiveIsServed
  /\ FaultIsReported
  /\ DesiredAgrees /\ MailboxAgrees /\ OwnedAgrees
serviceVars ==
  <<desiredActive, rtpQueued, rtpInFlight, nativeLifecycleState,
    nativeAppliedActive, sensorActive, desiredConfig, nativeCommand,
    awaitingNativeControl, renderPhase>>

\* Load: the sensor is dormant.
LEMMA InitService == Init => ServiceInv
  BY DEF Init, ServiceInv, QueueFollowsDemand, TargetIsActive, IdleIsSilent,
         FaultIsReported, Failing, Settling, ActiveIsServed, DesiredAgrees,
         MailboxAgrees, OwnedAgrees, Owned

\* EncodeRenderedFrame queues an access unit for the pacer only on demand.
LEMMA EncodeQueuesOnDemand ==
  ASSUME TypeOK, NEW reset \in BOOLEAN, NEW r \in EncodeResults(reset), r.queued
  PROVE  desiredActive \/ rtpQueued
<1>1. SUFFICES ASSUME ~desiredActive, ~rtpQueued PROVE ~r.queued
  OBVIOUS
<1>2. rtpQueued = FALSE
  BY <1>1 DEF TypeOK
<1>3. ASSUME NEW e \in Ensured(reset) PROVE ~e.queued
  <2>1. CASE encoderResourcesActive /\ ~reset
    BY <1>2, <2>1 DEF Ensured
  <2>2. CASE ~(encoderResourcesActive /\ ~reset)
    <3>1. PICK q \in (IF reset THEN {FALSE} ELSE {rtpQueued, FALSE}) :
            e = [held |-> <<>>, force |-> TRUE, queued |-> q]
      BY <2>2 DEF Ensured
    <3>2. q = FALSE
      BY <1>2, <3>1
    <3> QED BY <3>1, <3>2
  <2> QED BY <2>1, <2>2
<1>4. ASSUME NEW x \in NotSubmitted(reset) PROVE ~x.queued
  <2>1. \/ x = [ok |-> FALSE, force |-> forceKeyframe \/ reset, ready |-> FALSE,
                held |-> <<>>, queued |-> rtpQueued /\ ~reset, idr |-> 0]
        \/ \E e \in Ensured(reset) :
             x = [ok |-> FALSE, force |-> e.force, ready |-> TRUE,
                  held |-> e.held, queued |-> e.queued, idr |-> 0]
    BY DEF NotSubmitted
  <2>2. CASE x = [ok |-> FALSE, force |-> forceKeyframe \/ reset, ready |-> FALSE,
                  held |-> <<>>, queued |-> rtpQueued /\ ~reset, idr |-> 0]
    <3>1. x.queued = (rtpQueued /\ ~reset)
      BY <2>2, Zenon
    <3> QED BY <1>2, <3>1
  <2> QED BY <1>3, <2>1, <2>2
<1>5. \A x \in Rebuilt : ~x.queued
  BY DEF Rebuilt
<1>6. \A e \in Ensured(reset) : \A x \in Delayed(e) : ~x.queued
  BY <1>3 DEF Delayed
<1>7. \A e \in Ensured(reset) : \A x \in Output(e) : ~x.queued
  BY <1>1, <1>3 DEF Output
<1> QED
  BY <1>4, <1>5, <1>6, <1>7 DEF EncodeResults

\* Admission withdraws "idle" or "active" as it asks for the other one, and any
\* other command carries the flag the render thread has.
LEMMA AdmitService ==
  ASSUME TypeOK, HolderInv, ServiceInv, NEW id \in Requests, NEW op \in Ops,
         NEW d \in Config, NEW c \in BOOLEAN, Admit(id, op, d, c),
         op \in {"config", "request-keyframe"} => d.active = desiredConfig.active,
         op = "start" => d.active, op = "stop" => ~d.active
  PROVE  ServiceInv'
<1>1. /\ pendingControl = None /\ desiredConfig' = d
      /\ nativeCommand'.kind = op
      /\ nativeCommand'.active = IF op = "config" THEN desiredActive ELSE d.active
      /\ op = "request-keyframe" => nativeAppliedActive
      /\ op = "start" => nativeLifecycleState' = "starting"
      /\ op = "stop" => nativeLifecycleState' = "stopping"
      /\ op \in {"config", "request-keyframe"} => UNCHANGED nativeLifecycleState
      /\ UNCHANGED <<desiredActive, rtpQueued, rtpInFlight, nativeAppliedActive,
                     sensorActive, awaitingNativeControl, renderPhase>>
  BY DEF Admit, acks, render, rtp
<1>2. ~Owned
  BY <1>1 DEF HolderInv, RecordsArePending
<1> USE DEF ServiceInv
<1>3. ~Owned'
  BY <1>1, <1>2 DEF Owned, Settling
<1>4. QueueFollowsDemand' /\ TargetIsActive' /\ OwnedAgrees'
  BY <1>1, <1>3 DEF QueueFollowsDemand, TargetIsActive, OwnedAgrees, Failing
<1>5. IdleIsSilent' /\ ActiveIsServed' /\ DesiredAgrees' /\ FaultIsReported'
  <2>1. IdleIsSilent'
    BY <1>1 DEF IdleIsSilent, Failing, Settling, Ops
  <2>2. ActiveIsServed' /\ DesiredAgrees' /\ FaultIsReported'
    BY <1>1 DEF FaultIsReported, ActiveIsServed, DesiredAgrees, Ops
  <2> QED BY <2>1, <2>2
<1>6. MailboxAgrees'
  <2>1. CASE op = "start" \/ op = "stop"
    BY <1>1, <2>1 DEF MailboxAgrees
  <2>2. CASE op = "request-keyframe"
    BY <1>1, <2>2 DEF MailboxAgrees, IdleIsSilent, DesiredAgrees
  <2>3. CASE op = "config"
    BY <1>1, <2>3 DEF MailboxAgrees, IdleIsSilent, ActiveIsServed, Failing
  <2> QED BY <2>1, <2>2, <2>3 DEF Ops
<1> QED BY <1>4, <1>5, <1>6

\* FlushControl only empties the mailbox.
LEMMA FlushService ==
  ASSUME ServiceInv, NEW done \in BOOLEAN, FlushControl(done)
  PROVE  ServiceInv'
<1>1. /\ nativeCommand' \in {None, nativeCommand}
      /\ UNCHANGED <<desiredActive, rtpQueued, rtpInFlight, nativeLifecycleState,
                     nativeAppliedActive, sensorActive, desiredConfig,
                     awaitingNativeControl, renderPhase>>
  BY DEF FlushControl, acks, render, rtp
<1> QED
  BY <1>1 DEF ServiceInv, QueueFollowsDemand, TargetIsActive, IdleIsSilent,
              FaultIsReported, Failing, Settling, ActiveIsServed, DesiredAgrees,
              MailboxAgrees, OwnedAgrees, Owned

\* OnPostRender takes the active flag over with the command, keeps the sensor
\* on for whatever is in demand, and acknowledges a stop once the pacer drained.
LEMMA PostRenderService ==
  TypeOK /\ HolderInv /\ ServiceInv /\ (PostRenderConsume \/ PostRenderIdle)
    => ServiceInv'
<1> SUFFICES ASSUME TypeOK, HolderInv, ServiceInv,
                    PostRenderConsume \/ PostRenderIdle
             PROVE  ServiceInv'
  OBVIOUS
<1> USE DEF ServiceInv
<1>1. CASE PostRenderConsume
  <2>1. /\ nativeCommand # None /\ nativeCommand' = None
        /\ desiredActive' = nativeCommand.active
        /\ rtpQueued' = (rtpQueued /\ nativeCommand.active)
        /\ UNCHANGED <<rtpInFlight, desiredConfig>>
    BY <1>1 DEF PostRenderConsume, Consume
  <2>2. /\ desiredActive' => sensorActive'
        /\ renderPhase' = "target" => sensorActive'
        /\ renderPhase = "post" /\ renderPhase' \in {"target", "post"}
    BY <1>1 DEF PostRenderConsume, RenderDemand
  <2>3. \/ /\ nativeCommand.kind = "config"
           /\ UNCHANGED <<nativeAppliedActive, nativeLifecycleState>>
           /\ awaitingNativeControl' = awaitingNativeControl
        \/ /\ nativeCommand.kind = "stop" /\ ~rtpInFlight
           /\ ~nativeAppliedActive' /\ nativeLifecycleState' = "idle"
           /\ awaitingNativeControl' = None
        \/ /\ UNCHANGED <<nativeAppliedActive, nativeLifecycleState>>
           /\ awaitingNativeControl' = nativeCommand
    BY <1>1 DEF PostRenderConsume, CompleteNativeControl, NothingCompletes, acks
  <2>4. awaitingNativeControl = None
    BY <1>1 DEF PostRenderConsume, HolderInv, RecordsArePending, OneHolder, Owned,
                Settling
  <2>5. QueueFollowsDemand' /\ TargetIsActive' /\ MailboxAgrees' /\ FaultIsReported'
    <3>1. ~Failing
      BY <2>2 DEF Failing
    <3>2. QueueFollowsDemand'
      BY <2>1, <3>1 DEF QueueFollowsDemand
    <3> QED
      BY <2>1, <2>2, <3>2 DEF TargetIsActive, MailboxAgrees, FaultIsReported
  <2>6. IdleIsSilent'
    <3>1. ~Failing' /\ ~Settling'
      BY <2>2 DEF Failing, Settling
    <3> QED BY <2>1, <2>3, <3>1 DEF IdleIsSilent, MailboxAgrees
  <2>7. ActiveIsServed' /\ DesiredAgrees'
    <3>1. nativeLifecycleState' = "active" =>
            nativeLifecycleState = "active" /\ nativeAppliedActive'
              /\ nativeCommand.active
      BY <2>1, <2>2, <2>3 DEF ActiveIsServed, MailboxAgrees, Failing
    <3>2. ActiveIsServed'
      BY <2>1, <2>2, <3>1 DEF ActiveIsServed
    <3>3. DesiredAgrees'
      BY <2>1, <2>3 DEF DesiredAgrees
    <3> QED BY <3>2, <3>3
  <2>8. OwnedAgrees'
    BY <2>1, <2>3, <2>4 DEF OwnedAgrees, Owned, MailboxAgrees
  <2> QED BY <2>5, <2>6, <2>7, <2>8
<1>2. CASE PostRenderIdle
  <2>1. /\ renderPhase = "post"
        /\ UNCHANGED <<desiredActive, rtpQueued, rtpInFlight, desiredConfig,
                       nativeCommand>>
    BY <1>2 DEF PostRenderIdle, rtp
  <2>2. /\ desiredActive' => sensorActive'
        /\ renderPhase' = "target" => sensorActive'
        /\ renderPhase = "post" /\ renderPhase' \in {"target", "post"}
    BY <1>2 DEF PostRenderIdle, RenderDemand
  <2>3. CASE StopIsDrained
    <3>1. /\ Owned /\ awaitingNativeControl.kind = "stop" /\ ~rtpInFlight
          /\ ~nativeAppliedActive' /\ nativeLifecycleState' = "idle"
          /\ awaitingNativeControl' = None
      BY <1>2, <2>1, <2>3 DEF PostRenderIdle, StopIsDrained, Awaits, Owned,
                              Settling, CompleteNativeControl
    <3>2. nativeCommand = None
      BY <3>1 DEF HolderInv, RecordsArePending, OneHolder
    <3>3. ~Failing /\ ~Failing' /\ ~Settling'
      BY <2>2 DEF Failing, Settling
    <3>4. QueueFollowsDemand' /\ TargetIsActive' /\ FaultIsReported'
      BY <2>1, <2>2, <3>3 DEF QueueFollowsDemand, TargetIsActive, FaultIsReported
    <3>5. IdleIsSilent' /\ ActiveIsServed' /\ DesiredAgrees'
      BY <2>1, <3>1, <3>3
      DEF IdleIsSilent, ActiveIsServed, DesiredAgrees, OwnedAgrees
    <3>6. MailboxAgrees' /\ OwnedAgrees'
      BY <2>1, <3>1, <3>2 DEF MailboxAgrees, OwnedAgrees, Owned
    <3> QED BY <3>4, <3>5, <3>6
  <2>4. CASE ~StopIsDrained
    <3>1. UNCHANGED <<nativeAppliedActive, nativeLifecycleState,
                      awaitingNativeControl>>
      BY <1>2, <2>4 DEF PostRenderIdle, NothingCompletes, acks
    <3>2. ~Failing /\ ~Failing' /\ ~Settling /\ ~Settling'
      BY <2>2 DEF Failing, Settling
    <3>3. QueueFollowsDemand' /\ TargetIsActive'
      BY <2>1, <2>2, <3>2 DEF QueueFollowsDemand, TargetIsActive
    <3>4. IdleIsSilent' /\ DesiredAgrees' /\ FaultIsReported'
      BY <2>1, <2>2, <3>1, <3>2 DEF IdleIsSilent, DesiredAgrees, FaultIsReported
    <3>5. ActiveIsServed'
      BY <2>1, <2>2, <3>1 DEF ActiveIsServed
    <3>6. MailboxAgrees' /\ OwnedAgrees'
      BY <2>1, <3>1, <3>2 DEF MailboxAgrees, OwnedAgrees, Owned
    <3> QED BY <3>3, <3>4, <3>5, <3>6
  <2> QED BY <2>3, <2>4
<1> QED BY <1>1, <1>2

\* postRenderTargetUpdate: a start is acknowledged while its demand is still
\* there, and FailNativeEncoderTransition reports "faulted".
LEMMA TargetService ==
  TypeOK /\ HolderInv /\ ServiceInv
    /\ (TargetIdle \/ TargetStale \/ TargetEncode \/ TargetFail \/ SettleFailure)
    => ServiceInv'
<1> SUFFICES ASSUME TypeOK, HolderInv, ServiceInv,
                    TargetIdle \/ TargetStale \/ TargetEncode \/ TargetFail
                      \/ SettleFailure
             PROVE  ServiceInv'
  OBVIOUS
<1> USE DEF ServiceInv, QueueFollowsDemand, TargetIsActive, IdleIsSilent,
            FaultIsReported, Failing, Settling, ActiveIsServed, DesiredAgrees,
            MailboxAgrees, OwnedAgrees
<1>1. CASE TargetIdle \/ TargetStale
  <2>1. /\ renderPhase = "target" /\ renderPhase' = "post"
        /\ rtpQueued' = rtpQueued \/ rtpQueued' = FALSE
        /\ UNCHANGED <<desiredActive, rtpInFlight, nativeLifecycleState,
                       nativeAppliedActive, sensorActive, desiredConfig,
                       nativeCommand, awaitingNativeControl>>
    BY <1>1 DEF TargetIdle, TargetStale, TargetCommon, NothingCompletes, acks
  <2> QED BY <2>1 DEF Owned
<1>2. CASE TargetEncode \/ TargetFail
  <2>1. /\ renderPhase = "target"
        /\ UNCHANGED <<desiredActive, rtpInFlight, sensorActive, desiredConfig,
                       nativeCommand>>
        /\ \/ renderPhase' = "post"
           \/ /\ renderPhase' = "settle" /\ awaitingNativeControl # None
              /\ awaitingNativeControl.kind \in {"start", "request-keyframe"}
    BY <1>2 DEF TargetEncode, TargetFail, TargetCommon, Awaits
  <2>2. rtpQueued' => desiredActive \/ rtpQueued
    <3>1. PICK reset \in BOOLEAN : \E r \in EncodeResults(reset) : Encoded(reset, r)
      BY <1>2 DEF TargetEncode, TargetFail
    <3>2. PICK r \in EncodeResults(reset) : rtpQueued' = r.queued
      BY <3>1 DEF Encoded
    <3> QED BY <3>2, EncodeQueuesOnDemand
  <2>3. CASE UNCHANGED <<nativeAppliedActive, nativeLifecycleState,
                         awaitingNativeControl>>
    <3>1. renderPhase' = "settle" => nativeLifecycleState # "idle"
      BY <2>1 DEF Owned
    <3>2. Owned' => Owned
      BY <2>1, <2>3 DEF Owned
    <3> QED BY <2>1, <2>2, <2>3, <3>1, <3>2
  <2>4. CASE /\ Owned /\ renderPhase' = "post" /\ awaitingNativeControl.kind \in {"start", "request-keyframe"}
             /\ CompleteNativeControl(awaitingNativeControl)
             /\ awaitingNativeControl' = None
    <3>1. nativeCommand = None
      BY <2>4 DEF HolderInv, RecordsArePending, OneHolder
    <3>2. CASE awaitingNativeControl.kind = "start"
      <4>1. nativeLifecycleState' = "active" /\ nativeAppliedActive'
        BY <2>4, <3>2 DEF CompleteNativeControl
      <4> QED BY <2>1, <2>2, <2>4, <3>1, <3>2, <4>1 DEF Owned
    <3>3. CASE awaitingNativeControl.kind # "start"
      <4>1. UNCHANGED <<nativeLifecycleState, nativeAppliedActive>>
        BY <2>4, <3>3 DEF CompleteNativeControl
      <4> QED BY <2>1, <2>2, <2>4, <3>1, <4>1 DEF Owned
    <3> QED BY <3>2, <3>3
  <2>5. CASE TargetEncode
    <3>1. \/ NothingCompletes /\ UNCHANGED awaitingNativeControl
          \/ /\ awaitingNativeControl # None
             /\ awaitingNativeControl.kind \in {"start", "request-keyframe"}
             /\ CompleteNativeControl(awaitingNativeControl)
             /\ awaitingNativeControl' = None /\ renderPhase' = "post"
      BY <2>5 DEF TargetEncode, Awaits
    <3> QED
      BY <2>1, <2>3, <2>4, <3>1 DEF NothingCompletes, acks, Owned
  <2>6. CASE TargetFail
    BY <2>3, <2>6 DEF TargetFail
  <2> QED BY <1>2, <2>5, <2>6
<1>3. CASE SettleFailure
  <2>1. UNCHANGED <<rtpInFlight, sensorActive, desiredConfig, nativeCommand>>
    BY <1>3 DEF SettleFailure
  <2>2. CASE WithdrawDemand
    <3>1. /\ renderPhase = "settle" /\ renderPhase' = "deactivate"
          /\ awaitingNativeControl' = None /\ desiredActive' = FALSE
          /\ UNCHANGED <<rtpQueued, nativeLifecycleState, nativeAppliedActive>>
      BY <2>2 DEF WithdrawDemand, NothingCompletes, acks
    <3> QED BY <2>1, <3>1 DEF Owned
  <2>3. CASE WithdrawActive
    <3>1. /\ renderPhase = "deactivate" /\ renderPhase' = "fault"
          /\ nativeAppliedActive' = FALSE
          /\ UNCHANGED <<rtpQueued, nativeLifecycleState, awaitingNativeControl,
                         desiredActive>>
      BY <2>3 DEF WithdrawActive
    <3> QED BY <2>1, <3>1 DEF Owned
  <2>4. CASE ReportFault
    <3>1. /\ renderPhase = "fault" /\ renderPhase' = "release"
          /\ nativeLifecycleState' = "faulted"
          /\ UNCHANGED <<rtpQueued, nativeAppliedActive, awaitingNativeControl,
                         desiredActive>>
      BY <2>4 DEF ReportFault, acks
    <3> QED BY <2>1, <3>1 DEF Owned
  <2>5. CASE ReleaseEncoder
    <3>1. /\ renderPhase = "release" /\ renderPhase' = "post"
          /\ rtpQueued' = FALSE
          /\ UNCHANGED <<nativeLifecycleState, nativeAppliedActive,
                         awaitingNativeControl, desiredActive>>
      BY <2>5 DEF ReleaseEncoder, NothingCompletes, acks
    <3> QED BY <2>1, <3>1 DEF Owned
  <2> QED BY <1>3, <2>2, <2>3, <2>4, <2>5 DEF SettleFailure
<1> QED BY <1>1, <1>2, <1>3

\* The pacer takes only what is queued; the others leave the state alone.
LEMMA OthersService == ServiceInv /\ Others => ServiceInv'
<1> SUFFICES ASSUME ServiceInv, Others PROVE ServiceInv'
  OBVIOUS
<1> USE DEF ServiceInv, QueueFollowsDemand, TargetIsActive, IdleIsSilent,
            FaultIsReported, Failing, Settling, ActiveIsServed, DesiredAgrees,
            MailboxAgrees, OwnedAgrees, Owned
<1>1. CASE PacerTake
  BY <1>1 DEF PacerTake, acks, render
<1>2. CASE PacerDone
  BY <1>2 DEF PacerDone, acks, render
<1>3. CASE RosMasterAppears \/ WorkerTake \/ WorkerPublish \/ RosDemandChanges
  BY <1>3 DEF RosMasterAppears, WorkerTake, WorkerPublish, RosDemandChanges,
              acks, render, rtp
<1> QED BY <1>1, <1>2, <1>3 DEF Others

\* No step lets the reported state run ahead of the stream.
LEMMA StepService == TypeOK /\ HolderInv /\ ServiceInv /\ [Next]_vars => ServiceInv'
<1> SUFFICES ASSUME TypeOK, HolderInv, ServiceInv, [Next]_vars PROVE ServiceInv'
  OBVIOUS
<1>1. CASE UNCHANGED serviceVars
  BY <1>1 DEF serviceVars, ServiceInv, QueueFollowsDemand, TargetIsActive,
              IdleIsSilent, FaultIsReported, Failing, Settling, ActiveIsServed,
              DesiredAgrees, MailboxAgrees, OwnedAgrees, Owned
<1>2. ASSUME ControlDeadline \/ AdmitCapture \/ (\E w \in Watchers : Observe(w))
               \/ UNCHANGED vars
      PROVE  UNCHANGED serviceVars
  BY <1>2 DEF ControlDeadline, AdmitCapture, Observe, vars, serviceVars, acks,
              render, rtp
<1> QED
  BY <1>1, <1>2, AdmissionIsAdmit, AdmitService, FlushService, PostRenderService,
     TargetService, OthersService
  DEF Next, Executor, Render

\* The reported state, the commands under way and the stream always agree.
LEMMA ServiceInvariant == Spec => []ServiceInv
BY InitService, StepService, HolderInvariant, PTL DEF Spec

\* An acknowledged stop is silent until the next start: no access unit of the
\* stream is in the pacer's queue or being sent (CompleteNativeStopIfDrained).
THEOREM StoppedStaysSilent == Spec => []StoppedIsSilent
<1>1. ServiceInv => StoppedIsSilent
  BY DEF ServiceInv, IdleIsSilent, QueueFollowsDemand, StoppedIsSilent
<1> QED BY <1>1, ServiceInvariant, PTL

\* The status says "active" only while the stream is in demand, acknowledged and
\* its sensor kept on, whatever was dropped, failed or reset before; the one
\* exception is between the stores of FailNativeEncoderTransition, which
\* withdraws the demand and the flag before it reports "faulted".
THEOREM ActiveStaysServed == Spec => []ActiveIsServed
<1>1. ServiceInv => ActiveIsServed
  BY DEF ServiceInv
<1> QED BY <1>1, ServiceInvariant, PTL
(***************************************************************************)
(* What a step of a handler changes of what the clients can learn: the     *)
(* configuration, the record of the mutation, the acknowledgements and the *)
(* calibration of the topic.                                               *)
(***************************************************************************)
askedVars == <<desiredRevision, desiredConfig>>
answeredVars == <<appliedRevision, appliedConfig, everDropped>>
ackedVars == <<nativeAppliedRevision, nativeFailedRevision>>
usedVars == <<jpegQuality, calibrationMetadata>>
topicVars == <<rosCameraInfoPending, workerCameraInfo, rosWorkerRunning,
               publishedCalibrationRevision>>

Admits(op, d, c) ==
  /\ pendingControl = None
  /\ desiredRevision' = desiredRevision + 1 /\ desiredConfig' = d
  /\ pendingControl' # None
  /\ pendingControl'.op = op /\ pendingControl'.revision = desiredRevision'
  /\ pendingControl'.cal = c /\ pendingControl'.late = FALSE
  /\ nativeCommand' # None
  /\ nativeCommand'.kind = op /\ nativeCommand'.jpeg = d.jpeg
  /\ nativeCommand'.cal = IF c THEN d.cal ELSE None
  /\ c => op = "config"
  /\ c \/ d.cal = desiredConfig.cal
  /\ op # "config" => d.jpeg = desiredConfig.jpeg
  /\ UNCHANGED <<answeredVars, ackedVars, usedVars, topicVars,
                 awaitingNativeControl, renderPhase>>
Expires ==
  /\ pendingControl # None /\ ~pendingControl.late
  /\ pendingControl' # None /\ pendingControl'.late = TRUE
  /\ pendingControl'.op = pendingControl.op /\ pendingControl'.cal = pendingControl.cal
  /\ pendingControl'.revision = pendingControl.revision
  /\ pendingControl'.id = pendingControl.id
  /\ UNCHANGED <<askedVars, answeredVars, ackedVars, usedVars, topicVars,
                 nativeCommand, awaitingNativeControl, renderPhase>>
Ends(answer) ==
  /\ pendingControl # None /\ pendingControl' = None
  /\ \/ /\ answer = "completed" /\ nativeCommand = None
        /\ nativeAppliedRevision = desiredRevision
        /\ pendingControl.cal => publishedCalibrationRevision = desiredRevision
        /\ appliedRevision' = desiredRevision
        /\ appliedConfig'.jpeg = desiredConfig.jpeg
        /\ appliedConfig'.cal = desiredConfig.cal
        /\ UNCHANGED <<nativeCommand, everDropped>>
     \/ /\ answer = "failed" /\ nativeCommand = None
        /\ nativeFailedRevision = desiredRevision
        /\ UNCHANGED <<answeredVars, nativeCommand>>
     \/ /\ answer = "dropped" /\ nativeCommand # None /\ pendingControl.late
        /\ nativeCommand' = None /\ everDropped' = TRUE
        /\ UNCHANGED <<appliedRevision, appliedConfig>>
  /\ UNCHANGED <<askedVars, ackedVars, usedVars, topicVars, awaitingNativeControl,
                 renderPhase>>
Consumes ==
  /\ nativeCommand # None /\ nativeCommand' = None /\ awaitingNativeControl = None
  /\ jpegQuality' = nativeCommand.jpeg
  /\ IF nativeCommand.cal = None
       THEN UNCHANGED <<calibrationMetadata, rosCameraInfoPending>>
       ELSE /\ calibrationMetadata' =
                 [revision |-> nativeCommand.revision, cal |-> nativeCommand.cal]
            /\ rosCameraInfoPending' = TRUE
  /\ \/ /\ nativeAppliedRevision' = nativeCommand.revision
        /\ awaitingNativeControl' = None
     \/ /\ nativeCommand.kind # "config"
        /\ nativeAppliedRevision' = nativeAppliedRevision
        /\ awaitingNativeControl' = nativeCommand
  /\ renderPhase = "post" /\ renderPhase' # "settle"
  /\ UNCHANGED <<askedVars, answeredVars, pendingControl, nativeFailedRevision,
                 workerCameraInfo, rosWorkerRunning, publishedCalibrationRevision>>
Renders ==
  /\ \/ /\ Owned /\ ~Owned'
        /\ nativeAppliedRevision' = awaitingNativeControl.revision
        /\ nativeFailedRevision' = nativeFailedRevision
     \/ /\ Owned /\ ~Owned' /\ awaitingNativeControl.kind # "config"
        /\ nativeFailedRevision' = awaitingNativeControl.revision
        /\ nativeAppliedRevision' = nativeAppliedRevision
     \/ /\ (Owned' <=> Owned) /\ (Owned => awaitingNativeControl' = awaitingNativeControl)
        /\ UNCHANGED ackedVars
  /\ UNCHANGED <<askedVars, answeredVars, usedVars, topicVars, pendingControl,
                 nativeCommand>>
Publishes ==
  /\ \/ /\ workerCameraInfo # None /\ workerCameraInfo' = None
        /\ publishedCalibrationRevision' = workerCameraInfo.revision
        /\ UNCHANGED <<rosCameraInfoPending, rosWorkerRunning>>
     \/ /\ rosWorkerRunning /\ workerCameraInfo = None /\ rosCameraInfoPending
        /\ workerCameraInfo' = calibrationMetadata /\ ~rosCameraInfoPending'
        /\ UNCHANGED <<rosWorkerRunning, publishedCalibrationRevision>>
     \/ /\ ~rosWorkerRunning /\ rosWorkerRunning' /\ rosCameraInfoPending'
        /\ UNCHANGED <<workerCameraInfo, publishedCalibrationRevision>>
  /\ UNCHANGED <<askedVars, answeredVars, ackedVars, usedVars, pendingControl,
                 nativeCommand, awaitingNativeControl, renderPhase>>
IsQuiet ==
  UNCHANGED <<askedVars, answeredVars, ackedVars, usedVars, topicVars,
              pendingControl, nativeCommand, awaitingNativeControl, renderPhase>>

\* Each step of the handlers is one of these.
LEMMA StepEffect ==
  ASSUME TypeOK, HolderInv, [Next]_vars
  PROVE  \/ \E op \in Ops, d \in Config, c \in BOOLEAN : Admits(op, d, c)
         \/ Expires \/ Consumes \/ Renders \/ Publishes \/ IsQuiet
         \/ \E answer \in {"completed", "failed", "dropped"} : Ends(answer)
<1> USE DEF askedVars, answeredVars, ackedVars, usedVars, topicVars
<1>1. ASSUME NEW id \in Requests, NEW op \in Ops, NEW d \in Config, NEW c \in BOOLEAN,
             Admit(id, op, d, c), c => op = "config", c \/ d.cal = desiredConfig.cal,
             op # "config" => d.jpeg = desiredConfig.jpeg
      PROVE  Admits(op, d, c)
  <2>1. nativeCommand' # None /\ pendingControl' # None
    BY <1>1, AdmitRecords
  <2>2. UNCHANGED <<answeredVars, ackedVars, usedVars, topicVars,
                    awaitingNativeControl, renderPhase>>
    BY <1>1 DEF Admit, answers, acks, render, calibration, worker, history
  <2> QED
    BY <1>1, <2>1, <2>2 DEF Admit, Admits
<1>2. CASE \E id \in Requests : \/ \E op \in Ops : AdmitMutation(id, op)
                                \/ AdmitCalibration(id)
  <2>1. PICK id \in Requests, op \in Ops, d \in Config, c \in BOOLEAN :
          /\ Admit(id, op, d, c)
          /\ c => op = "config"
          /\ c \/ d.cal = desiredConfig.cal
          /\ op # "config" => d.jpeg = desiredConfig.jpeg
    BY <1>2, AdmissionIsAdmit
  <2> QED
    BY <1>1, <2>1
<1>3. CASE ControlDeadline
  <2>1. pendingControl # None /\ pendingControl \in Mutation
    BY <1>3 DEF ControlDeadline, TypeOK
  <2>2. pendingControl' \in Mutation
    BY <1>3, <2>1 DEF ControlDeadline, Mutation
  <2>3. pendingControl' # None
    BY <2>2, ValuesAssumption
  <2>4. UNCHANGED <<askedVars, answeredVars, ackedVars, usedVars, topicVars,
                    nativeCommand, awaitingNativeControl, renderPhase>>
    BY <1>3 DEF ControlDeadline, answers, acks, render, calibration, worker, history
  <2>5. /\ pendingControl'.late = TRUE /\ pendingControl'.op = pendingControl.op
        /\ pendingControl'.cal = pendingControl.cal
        /\ pendingControl'.revision = pendingControl.revision
        /\ pendingControl'.id = pendingControl.id
    BY <1>3, <2>1 DEF ControlDeadline, Mutation
  <2>6. ~pendingControl.late
    BY <1>3 DEF ControlDeadline
  <2> QED
    BY <2>1, <2>3, <2>4, <2>5, <2>6 DEF Expires
<1>4. ASSUME NEW done \in BOOLEAN, FlushControl(done)
      PROVE  IsQuiet \/ \E answer \in {"completed", "failed", "dropped"} : Ends(answer)
  <2>1. UNCHANGED <<askedVars, ackedVars, usedVars, topicVars, awaitingNativeControl,
                    renderPhase>>
    BY <1>4 DEF FlushControl, acks, render, calibration, worker
  <2>2. pendingControl # None => pendingControl.revision = desiredRevision
    BY DEF HolderInv, RevisionsAreKnown
  <2>3. CASE IsFailed
    <3>1. /\ pendingControl # None /\ pendingControl' = None
          /\ nativeFailedRevision = desiredRevision
          /\ UNCHANGED <<answeredVars, nativeCommand>>
      BY <1>4, <2>2, <2>3 DEF FlushControl, IsFailed, Answer
    <3>2. nativeCommand = None
      BY <3>1 DEF HolderInv, OneHolder
    <3>3. Ends("failed")
      BY <2>1, <3>1, <3>2 DEF Ends
    <3> QED
      BY <3>3
  <2>4. CASE ~IsFailed /\ IsApplied
    <3>1. /\ pendingControl # None /\ pendingControl' = None
          /\ nativeAppliedRevision = desiredRevision
          /\ pendingControl.cal => publishedCalibrationRevision = desiredRevision
          /\ appliedRevision' = desiredRevision
          /\ appliedConfig' = [desiredConfig EXCEPT !.active = nativeAppliedActive]
          /\ UNCHANGED <<nativeCommand, everDropped>>
      BY <1>4, <2>2, <2>4 DEF FlushControl, IsApplied, Answer
    <3>2. nativeCommand = None
      BY <3>1 DEF HolderInv, OneHolder
    <3>3. appliedConfig'.jpeg = desiredConfig.jpeg /\ appliedConfig'.cal = desiredConfig.cal
      BY <3>1 DEF TypeOK, Config
    <3>4. Ends("completed")
      BY <2>1, <3>1, <3>2, <3>3 DEF Ends
    <3> QED
      BY <3>4
  <2>5. CASE ~IsFailed /\ ~IsApplied /\ IsDropped
    <3>1. Ends("dropped")
      BY <1>4, <2>1, <2>5 DEF FlushControl, IsDropped, Answer, Ends
    <3> QED
      BY <3>1
  <2>6. CASE ~IsFailed /\ ~IsApplied /\ ~IsDropped
    BY <1>4, <2>1, <2>6 DEF FlushControl, IsQuiet
  <2> QED
    BY <2>3, <2>4, <2>5, <2>6
<1>5. CASE (\E w \in Watchers : Observe(w)) \/ AdmitCapture \/ UNCHANGED vars
  BY <1>5 DEF Observe, AdmitCapture, vars, answers, acks, render, calibration, worker,
     history, IsQuiet
<1>6. CASE PostRenderConsume
  <2>1. /\ nativeCommand # None /\ renderPhase = "post" /\ renderPhase' # "settle"
        /\ UNCHANGED <<askedVars, answeredVars, pendingControl,
                       workerCameraInfo, rosWorkerRunning,
                       publishedCalibrationRevision>>
    BY <1>6 DEF PostRenderConsume, RenderDemand, answers, worker
  <2>2. /\ nativeCommand' = None /\ jpegQuality' = nativeCommand.jpeg
        /\ IF nativeCommand.cal = None
             THEN UNCHANGED <<calibrationMetadata, rosCameraInfoPending>>
             ELSE /\ calibrationMetadata' =
                       [revision |-> nativeCommand.revision, cal |-> nativeCommand.cal]
                  /\ rosCameraInfoPending' = TRUE
    BY <1>6 DEF PostRenderConsume, Consume, calibration
  <2>3. awaitingNativeControl = None
    BY <2>1 DEF HolderInv, RecordsArePending, OneHolder, Owned, Settling
  <2>4. /\ \/ /\ nativeAppliedRevision' = nativeCommand.revision
              /\ awaitingNativeControl' = None
           \/ /\ nativeCommand.kind # "config"
              /\ nativeAppliedRevision' = nativeAppliedRevision
              /\ awaitingNativeControl' = nativeCommand
        /\ nativeFailedRevision' = nativeFailedRevision
    BY <1>6, <2>3 DEF PostRenderConsume, CompleteNativeControl, NothingCompletes, acks
  <2>5. Consumes
    BY <2>1, <2>2, <2>3, <2>4 DEF Consumes
  <2> QED
    BY <2>5
<1>7. CASE PostRenderIdle
  <2>1. /\ UNCHANGED <<askedVars, answeredVars, usedVars, topicVars, pendingControl,
                       nativeCommand>>
        /\ renderPhase = "post" /\ renderPhase' # "settle"
    BY <1>7 DEF PostRenderIdle, RenderDemand, answers, calibration, worker, history
  <2>2. CASE StopIsDrained
    <3>1. /\ Owned /\ ~Owned'
          /\ nativeAppliedRevision' = awaitingNativeControl.revision
          /\ nativeFailedRevision' = nativeFailedRevision
      BY <1>7, <2>1, <2>2 DEF PostRenderIdle, StopIsDrained, Awaits,
         CompleteNativeControl, Owned, Settling
    <3> QED
      BY <2>1, <3>1 DEF Renders
  <2>3. CASE ~StopIsDrained
    <3>1. /\ (Owned' <=> Owned) /\ awaitingNativeControl' = awaitingNativeControl
          /\ UNCHANGED ackedVars
      BY <1>7, <2>1, <2>3 DEF PostRenderIdle, NothingCompletes, acks, Owned, Settling
    <3> QED
      BY <2>1, <3>1 DEF Renders
  <2> QED
    BY <2>2, <2>3
<1>8. CASE TargetIdle \/ TargetStale \/ TargetEncode \/ TargetFail
  <2>1. /\ UNCHANGED <<askedVars, answeredVars, usedVars, topicVars, pendingControl,
                       nativeCommand>>
        /\ renderPhase = "target"
    BY <1>8 DEF TargetIdle, TargetStale, TargetEncode, TargetFail, TargetCommon,
       answers, calibration, worker, history
  <2>2. CASE TargetIdle \/ TargetStale
    <3>1. /\ (Owned' <=> Owned) /\ awaitingNativeControl' = awaitingNativeControl
          /\ UNCHANGED ackedVars
      BY <2>1, <2>2 DEF TargetIdle, TargetStale, NothingCompletes, acks, Owned, Settling
    <3> QED
      BY <2>1, <3>1 DEF Renders
  <2>3. CASE TargetEncode
    <3>1. renderPhase' = "post"
      BY <2>3 DEF TargetEncode
    <3>2. CASE /\ awaitingNativeControl # None
               /\ CompleteNativeControl(awaitingNativeControl)
               /\ awaitingNativeControl' = None
      BY <2>1, <3>1, <3>2 DEF CompleteNativeControl, Owned, Settling, Renders
    <3>3. CASE NothingCompletes /\ UNCHANGED awaitingNativeControl
      BY <2>1, <3>1, <3>3 DEF NothingCompletes, acks, Owned, Settling, Renders
    <3> QED
      BY <2>3, <3>2, <3>3 DEF TargetEncode, Awaits
  <2>4. CASE TargetFail
    <3>1. CASE Awaits({"start", "request-keyframe"})
      BY <2>1, <2>4, <3>1 DEF TargetFail, Awaits, Owned, Settling, Renders
    <3>2. CASE ~Awaits({"start", "request-keyframe"})
      BY <2>1, <2>4, <3>2 DEF TargetFail, Owned, Settling, Renders
    <3> QED
      BY <3>1, <3>2
  <2> QED
    BY <1>8, <2>2, <2>3, <2>4
<1>9. CASE SettleFailure
  <2>1. /\ UNCHANGED <<askedVars, answeredVars, ackedVars, usedVars, topicVars,
                       pendingControl, nativeCommand>>
        /\ Owned' <=> Owned
        /\ Owned => awaitingNativeControl' = awaitingNativeControl
    <3>1. UNCHANGED <<nativeAppliedRevision, nativeFailedRevision>>
      BY <1>9 DEF SettleFailure, WithdrawDemand, WithdrawActive, ReportFault,
                  ReleaseEncoder, NothingCompletes, acks
    <3>2. \/ awaitingNativeControl' = None /\ Settling
          \/ UNCHANGED awaitingNativeControl /\ ~Settling /\ ~Settling'
      BY <1>9 DEF SettleFailure, WithdrawDemand, WithdrawActive, ReportFault,
                  ReleaseEncoder, Settling
    <3>3. UNCHANGED <<desiredRevision, desiredConfig, pendingControl, answers,
                      nativeCommand, jpegQuality, calibration, worker, history>>
      BY <1>9 DEF SettleFailure
    <3> QED
      BY <3>1, <3>2, <3>3 DEF answers, calibration, worker, history, Owned
  <2> QED
    BY <2>1 DEF Renders
<1>10. CASE Others
  <2>1. CASE RosMasterAppears \/ WorkerTake \/ WorkerPublish
    BY <2>1 DEF RosMasterAppears, WorkerTake, WorkerPublish, answers, acks, render,
       calibration, history, Publishes
  <2>2. CASE PacerTake \/ PacerDone \/ RosDemandChanges
    BY <2>2 DEF PacerTake, PacerDone, RosDemandChanges, answers, acks, render,
       calibration, worker, history, IsQuiet
  <2> QED
    BY <1>10, <2>1, <2>2 DEF Others
<1> QED
  BY <1>2, <1>3, <1>4, <1>5, <1>6, <1>7, <1>8, <1>9, <1>10 DEF Next, Executor, Render

(***************************************************************************)
(* The reported configuration.  The mailbox holds what was asked for last, *)
(* and what the render thread has taken is what it uses.  Without a        *)
(* mutation that was dropped nothing else was ever asked for; with one,    *)
(* the quality agrees again once a later mutation completes.               *)
(***************************************************************************)
HandOverInv ==
  /\ appliedRevision <= desiredRevision
  /\ nativeCommand # None =>
       /\ nativeCommand.kind = pendingControl.op
       /\ nativeCommand.jpeg = desiredConfig.jpeg
       /\ nativeCommand.cal = IF pendingControl.cal THEN desiredConfig.cal ELSE None
  /\ Owned => /\ awaitingNativeControl.kind = pendingControl.op
              /\ awaitingNativeControl.kind # "config"
  /\ pendingControl # None =>
       /\ appliedRevision < desiredRevision
       /\ pendingControl.cal => pendingControl.op = "config"
       /\ nativeFailedRevision = desiredRevision => pendingControl.op # "config"
InUseInv ==
  /\ pendingControl # None /\ nativeCommand = None =>
       /\ jpegQuality = desiredConfig.jpeg
       /\ pendingControl.cal => /\ calibrationMetadata.revision = desiredRevision
                                /\ calibrationMetadata.cal = desiredConfig.cal
  /\ pendingControl = None /\ (~everDropped \/ appliedRevision = desiredRevision) =>
       appliedConfig.jpeg = jpegQuality
  /\ ~everDropped =>
       /\ pendingControl = None \/ pendingControl.op # "config" =>
            appliedConfig.jpeg = desiredConfig.jpeg
       /\ pendingControl = None \/ ~pendingControl.cal =>
            /\ appliedConfig.cal = desiredConfig.cal
            /\ calibrationMetadata.cal = desiredConfig.cal

\* The CameraInfo topic.  It carries the authored record or the latest one,
\* which the worker has then let go of; a calibration waits in the mailbox
\* only after the one before was published.
Latest == calibrationMetadata.revision
TopicInv ==
  /\ Latest \in Nat /\ 1 <= Latest /\ Latest <= desiredRevision
  /\ nativeCommand # None => Latest < desiredRevision
  /\ Latest = 1 => calibrationMetadata.cal = InitCal
  /\ pendingControl = None \/ ~pendingControl.cal \/ nativeCommand # None =>
       Latest = 1 \/ publishedCalibrationRevision = Latest
  /\ publishedCalibrationRevision <= Latest
  /\ workerCameraInfo # None =>
       /\ workerCameraInfo.revision \in {1, Latest}
       /\ publishedCalibrationRevision < workerCameraInfo.revision
  /\ rosCameraInfoPending =>
       /\ publishedCalibrationRevision < Latest
       /\ workerCameraInfo # None => workerCameraInfo.revision < Latest
  /\ ~rosWorkerRunning => publishedCalibrationRevision = 0 /\ workerCameraInfo = None
ConfigInv == HandOverInv /\ InUseInv /\ TopicInv

LEMMA InitConfig == Init => ConfigInv
  BY ValuesAssumption
  DEF Init, ConfigInv, HandOverInv, InUseInv, TopicInv, Latest, Owned, Settling

\* The values those compare.
LEMMA ConfigTypes ==
  ASSUME TypeOK
  PROVE  /\ desiredRevision \in Nat /\ appliedRevision \in Nat
         /\ publishedCalibrationRevision \in Nat
         /\ pendingControl # None => pendingControl.cal \in BOOLEAN
         /\ desiredConfig.cal \in Calibrations /\ desiredConfig.cal # None
         /\ calibrationMetadata # None
         /\ workerCameraInfo # None => workerCameraInfo.revision \in Nat
  BY ValuesAssumption DEF TypeOK, Config, Mutation, Metadata

LEMMA StepConfig == TypeOK /\ HolderInv /\ ConfigInv /\ [Next]_vars => ConfigInv'
<1> SUFFICES ASSUME TypeOK, HolderInv, ConfigInv, [Next]_vars PROVE ConfigInv'
  OBVIOUS
<1>t. /\ desiredRevision \in Nat /\ appliedRevision \in Nat
      /\ publishedCalibrationRevision \in Nat
      /\ pendingControl # None => pendingControl.cal \in BOOLEAN
      /\ desiredConfig.cal \in Calibrations /\ desiredConfig.cal # None
      /\ calibrationMetadata # None
      /\ workerCameraInfo # None => workerCameraInfo.revision \in Nat
  BY ConfigTypes
<1>h. HandOverInv /\ InUseInv /\ TopicInv
  BY DEF ConfigInv
<1>r. /\ nativeCommand # None => nativeCommand.revision = desiredRevision
                                  /\ pendingControl # None
      /\ Owned => awaitingNativeControl.revision = desiredRevision
                    /\ pendingControl # None /\ nativeCommand = None
      /\ nativeFailedRevision <= desiredRevision /\ nativeFailedRevision \in Nat
  BY DEF HolderInv, RevisionsAreKnown, RecordsArePending, OneHolder, TypeOK
<1> USE DEF askedVars, answeredVars, ackedVars, usedVars, topicVars
<1>1. ASSUME NEW op \in Ops, NEW d \in Config, NEW c \in BOOLEAN, Admits(op, d, c)
      PROVE  ConfigInv'
  <2>1. nativeCommand = None /\ ~Owned /\ ~Owned'
    BY <1>r, <1>1 DEF Admits, Owned, Settling
  <2>2. HandOverInv'
    BY <1>h, <1>r, <1>t, <1>1, <2>1 DEF Admits, HandOverInv
  <2>3. InUseInv'
    BY <1>h, <1>t, <1>1, <2>1 DEF Admits, InUseInv
  <2>4. TopicInv'
    BY <1>h, <1>t, <1>1, <2>1 DEF Admits, TopicInv, Latest
  <2> QED
    BY <2>2, <2>3, <2>4 DEF ConfigInv
<1>2. CASE Expires
  <2>1. HandOverInv'
    BY <1>h, <1>2 DEF Expires, HandOverInv, Owned, Settling
  <2>2. InUseInv'
    BY <1>h, <1>2 DEF Expires, InUseInv
  <2>3. TopicInv'
    BY <1>h, <1>2 DEF Expires, TopicInv, Latest
  <2> QED
    BY <2>1, <2>2, <2>3 DEF ConfigInv
<1>3. ASSUME NEW answer \in {"completed", "failed", "dropped"}, Ends(answer)
      PROVE  ConfigInv'
  <2>1. ~Owned'
    <3>1. ~Owned
      BY <1>r, <1>3 DEF Ends, HolderInv, OneHolder
    <3> QED
      BY <1>3, <3>1 DEF Ends, Owned, Settling
  <2>2. nativeCommand' = None /\ pendingControl' = None /\ pendingControl # None
    BY <1>3 DEF Ends
  <2>3. HandOverInv'
    BY <1>h, <1>t, <1>3, <2>1, <2>2 DEF Ends, HandOverInv
  <2>4. InUseInv'
    <3>1. CASE answer = "completed"
      BY <1>h, <1>t, <1>3, <2>2, <3>1 DEF Ends, InUseInv
    <3>2. CASE answer = "failed"
      BY <1>h, <1>t, <1>3, <2>2, <3>2 DEF Ends, InUseInv, HandOverInv
    <3>3. CASE answer = "dropped"
      BY <1>h, <1>t, <1>3, <2>2, <3>3 DEF Ends, InUseInv, HandOverInv
    <3> QED
      BY <3>1, <3>2, <3>3
  <2>5. TopicInv'
    <3>1. CASE answer = "completed"
      BY <1>h, <1>t, <1>3, <2>2, <3>1 DEF Ends, TopicInv, InUseInv, Latest
    <3>2. CASE answer = "failed"
      BY <1>h, <1>t, <1>3, <2>2, <3>2 DEF Ends, TopicInv, HandOverInv, Latest
    <3>3. CASE answer = "dropped"
      BY <1>h, <1>t, <1>3, <2>2, <3>3 DEF Ends, TopicInv, Latest
    <3> QED
      BY <3>1, <3>2, <3>3
  <2> QED
    BY <2>3, <2>4, <2>5 DEF ConfigInv
<1>4. CASE Consumes
  <2>1. /\ nativeCommand # None /\ pendingControl # None /\ nativeCommand' = None
        /\ nativeCommand.kind = pendingControl.op
        /\ nativeCommand.jpeg = desiredConfig.jpeg
        /\ nativeCommand.cal = IF pendingControl.cal THEN desiredConfig.cal ELSE None
        /\ nativeCommand.revision = desiredRevision
        /\ nativeFailedRevision # desiredRevision
    BY <1>h, <1>r, <1>4 DEF Consumes, HandOverInv, HolderInv, OneHolder
  <2>2. UNCHANGED <<desiredRevision, desiredConfig, appliedRevision, appliedConfig,
                    everDropped, pendingControl, nativeFailedRevision,
                    workerCameraInfo, rosWorkerRunning, publishedCalibrationRevision>>
    BY <1>4 DEF Consumes
  <2>3. /\ jpegQuality' = desiredConfig.jpeg
        /\ pendingControl.cal => /\ calibrationMetadata' =
                                      [revision |-> desiredRevision, cal |-> desiredConfig.cal]
                                 /\ rosCameraInfoPending' = TRUE
        /\ ~pendingControl.cal => UNCHANGED <<calibrationMetadata, rosCameraInfoPending>>
    BY <1>t, <1>4, <2>1 DEF Consumes
  <2>4. Owned' => awaitingNativeControl'.kind = pendingControl.op
                    /\ awaitingNativeControl'.kind # "config"
    BY <1>4, <2>1 DEF Consumes, Owned
  <2>5. HandOverInv'
    BY <1>h, <2>1, <2>2, <2>4 DEF HandOverInv
  <2>6. InUseInv'
    BY <1>h, <2>1, <2>2, <2>3 DEF InUseInv
  <2>7. CASE pendingControl.cal
    <3>1. Latest' = desiredRevision /\ calibrationMetadata'.cal = desiredConfig.cal
      BY <2>3, <2>7 DEF Latest
    <3>2. /\ Latest < desiredRevision /\ publishedCalibrationRevision <= Latest
          /\ Latest \in Nat /\ 1 <= Latest
          /\ Latest = 1 \/ publishedCalibrationRevision = Latest
      BY <1>h, <2>1 DEF TopicInv
    <3>3. workerCameraInfo # None => /\ workerCameraInfo.revision = 1
                                     /\ publishedCalibrationRevision < 1
      BY <1>h, <1>t, <3>2 DEF TopicInv
    <3>4. ~rosWorkerRunning => publishedCalibrationRevision = 0 /\ workerCameraInfo = None
      BY <1>h DEF TopicInv
    <3>5. TopicInv'
      BY <1>t, <2>1, <2>2, <2>7, <3>1, <3>2, <3>3, <3>4 DEF TopicInv
    <3> QED
      BY <2>5, <2>6, <3>5 DEF ConfigInv
  <2>8. CASE ~pendingControl.cal
    <3>1. TopicInv'
      BY <1>h, <2>1, <2>2, <2>3, <2>8 DEF TopicInv, Latest
    <3> QED
      BY <2>5, <2>6, <3>1 DEF ConfigInv
  <2> QED
    BY <2>7, <2>8
<1>5. CASE Renders
  <2>1. UNCHANGED <<desiredRevision, desiredConfig, appliedRevision, appliedConfig,
                    everDropped, jpegQuality, calibrationMetadata, rosCameraInfoPending,
                    workerCameraInfo, rosWorkerRunning, publishedCalibrationRevision,
                    pendingControl, nativeCommand>>
    BY <1>5 DEF Renders
  <2>2. /\ Owned' => Owned /\ awaitingNativeControl' = awaitingNativeControl
        /\ nativeFailedRevision' = nativeFailedRevision
             \/ (Owned /\ awaitingNativeControl.kind # "config")
    BY <1>5 DEF Renders
  <2>3. HandOverInv'
    BY <1>h, <2>1, <2>2 DEF HandOverInv
  <2>4. InUseInv' /\ TopicInv'
    BY <1>h, <2>1 DEF InUseInv, TopicInv, Latest
  <2> QED
    BY <2>3, <2>4 DEF ConfigInv
<1>6. CASE Publishes
  <2>1. UNCHANGED <<desiredRevision, desiredConfig, appliedRevision, appliedConfig,
                    everDropped, jpegQuality, calibrationMetadata, pendingControl,
                    nativeCommand, nativeFailedRevision, awaitingNativeControl,
                    renderPhase>>
    BY <1>6 DEF Publishes
  <2>2. HandOverInv' /\ InUseInv'
    BY <1>h, <2>1 DEF HandOverInv, InUseInv, Owned, Settling
  <2>3. TopicInv'
    <3>1. CASE /\ workerCameraInfo # None /\ workerCameraInfo' = None
               /\ publishedCalibrationRevision' = workerCameraInfo.revision
               /\ UNCHANGED <<rosCameraInfoPending, rosWorkerRunning>>
      BY <1>h, <1>t, <2>1, <3>1 DEF TopicInv, Latest
    <3>2. CASE /\ rosWorkerRunning /\ workerCameraInfo = None /\ rosCameraInfoPending
               /\ workerCameraInfo' = calibrationMetadata /\ ~rosCameraInfoPending'
               /\ UNCHANGED <<rosWorkerRunning, publishedCalibrationRevision>>
      BY <1>h, <1>t, <2>1, <3>2 DEF TopicInv, Latest
    <3>3. CASE /\ ~rosWorkerRunning /\ rosWorkerRunning' /\ rosCameraInfoPending'
               /\ UNCHANGED <<workerCameraInfo, publishedCalibrationRevision>>
      BY <1>h, <1>t, <2>1, <3>3 DEF TopicInv, Latest
    <3> QED
      BY <1>6, <3>1, <3>2, <3>3 DEF Publishes
  <2> QED
    BY <2>2, <2>3 DEF ConfigInv
<1>7. CASE IsQuiet
  BY <1>h, <1>7 DEF IsQuiet, ConfigInv, HandOverInv, InUseInv, TopicInv, Latest, Owned,
     Settling
<1> QED
  BY <1>1, <1>2, <1>3, <1>4, <1>5, <1>6, <1>7, StepEffect

\* What was asked for, handed over, used and published stay in step.
LEMMA ConfigInvariant == Spec => []ConfigInv
BY InitConfig, StepConfig, HolderInvariant, PTL DEF Spec

\* With no mutation pending, the configuration that FlushControl reports as
\* applied is the one the render thread and the CameraInfo topic use, as far
\* as no mutation was dropped at its deadline.
THEOREM ReportedIsInUse == Spec => []AppliedConfigIsReal
<1>1. ConfigInv => AppliedConfigIsReal
  BY DEF ConfigInv, InUseInv, TopicInv, Latest, AppliedConfigIsReal
<1> QED
  BY <1>1, ConfigInvariant, PTL

(***************************************************************************)
(* The contract.  Each step of the threads is one step of ControlContract, *)
(* or none, with the mapping of NativeRefinement.                          *)
(***************************************************************************)
Record == IF pendingControl = None THEN None
          ELSE [revision |-> pendingControl.revision, cal |-> pendingControl.cal,
                late |-> pendingControl.late]
InUse == [jpeg |-> jpegQuality, cal |-> calibrationMetadata.cal]

LEMMA ContractInit == Init => Contract!Init
  BY DEF Init, Contract!Init, Contract!Authored, Holder, Patched

\* Who has the record, after it was taken or before.
LEMMA HolderReads ==
  ASSUME TypeOK, HolderInv, pendingControl # None
  PROVE  /\ pendingControl.revision = desiredRevision
         /\ nativeCommand # None => Holder = "mailbox"
         /\ Owned => Holder = "render"
         /\ nativeCommand = None /\ nativeAppliedRevision = desiredRevision
              => Holder = "applied"
         /\ nativeCommand = None /\ nativeFailedRevision = desiredRevision
              => Holder = "failed"
  BY DEF HolderInv, RevisionsAreKnown, OneHolder, Holder

LEMMA ContractStep ==
  ASSUME TypeOK, HolderInv, ConfigInv, [Next]_vars
  PROVE  [Contract!Next]_(Contract!vars)
<1> USE DEF askedVars, answeredVars, ackedVars, usedVars, topicVars
<1>t. /\ desiredRevision \in Nat /\ publishedCalibrationRevision \in Nat
      /\ pendingControl # None => pendingControl.cal \in BOOLEAN
      /\ desiredConfig.cal # None
  BY ConfigTypes
<1>h. HandOverInv /\ InUseInv /\ TopicInv
  BY DEF ConfigInv
<1>p. pendingControl # None => pendingControl.revision = desiredRevision
  BY DEF HolderInv, RevisionsAreKnown
<1>r. pendingControl # None => Record # None
  BY RecordAssumption DEF Record, TypeOK, Mutation
<1>1. ASSUME NEW op \in Ops, NEW d \in Config, NEW c \in BOOLEAN, Admits(op, d, c)
      PROVE  Contract!Next
  <2>1. /\ Holder' = "mailbox"
        /\ Record = None
        /\ Record' = [revision |-> desiredRevision', cal |-> c, late |-> FALSE]
    BY <1>1 DEF Admits, Holder, Record
  <2>2. Patched(desiredConfig)' = [jpeg |-> d.jpeg, cal |-> d.cal]
    BY <1>1 DEF Admits, Patched
  <2>3. c \/ d.cal = Patched(desiredConfig).cal
    BY <1>1 DEF Admits, Patched
  <2>4. /\ desiredRevision' = desiredRevision + 1
        /\ UNCHANGED <<appliedRevision, Patched(appliedConfig), InUse,
                       calibrationMetadata.revision, publishedCalibrationRevision>>
    BY <1>1 DEF Admits, Patched, InUse
  <2>5. Contract!Admit([jpeg |-> d.jpeg, cal |-> d.cal], c)
    BY <2>1, <2>2, <2>3, <2>4 DEF Contract!Admit, Record, InUse
  <2>6. d.jpeg \in Jpegs /\ d.cal \in Calibrations
    BY DEF Config
  <2> QED
    BY <2>5, <2>6 DEF Contract!Next
<1>2. CASE Expires
  <2>1. /\ Record # None /\ (Record.late <=> pendingControl.late) /\ ~pendingControl.late
        /\ Record' = [Record EXCEPT !.late = TRUE]
    <3>1. /\ pendingControl # None /\ ~pendingControl.late
          /\ pendingControl' # None /\ pendingControl'.late = TRUE
          /\ pendingControl'.revision = pendingControl.revision
          /\ pendingControl'.cal = pendingControl.cal
      BY <1>2 DEF Expires
    <3>2. /\ Record \in [revision : Nat, cal : BOOLEAN, late : BOOLEAN]
          /\ Record.revision = pendingControl.revision
          /\ Record.cal <=> pendingControl.cal
          /\ Record.late <=> pendingControl.late
      <4>1. /\ pendingControl.revision \in Nat /\ pendingControl.cal \in BOOLEAN
            /\ pendingControl.late \in BOOLEAN
        BY <1>t, <1>p, <3>1 DEF TypeOK, Mutation
      <4> QED
        BY <3>1, <4>1 DEF Record
    <3>3. /\ Record' \in [revision : Nat, cal : BOOLEAN, late : BOOLEAN]
          /\ Record'.revision = pendingControl.revision
          /\ Record'.cal <=> pendingControl.cal
          /\ Record'.late
      <4>1. /\ pendingControl.revision \in Nat /\ pendingControl.cal \in BOOLEAN
        BY <1>t, <1>p, <3>1 DEF TypeOK, Mutation
      <4>2. Record' = [revision |-> pendingControl.revision, cal |-> pendingControl.cal,
                       late |-> TRUE]
        BY <3>1 DEF Record
      <4> QED
        BY <4>1, <4>2
    <3> HIDE DEF Record
    <3>4. Record' = [Record EXCEPT !.late = TRUE]
      <4>1. \A x, y \in [revision : Nat, cal : BOOLEAN, late : BOOLEAN] :
              y.revision = x.revision /\ (y.cal <=> x.cal) /\ y.late
              => y = [x EXCEPT !.late = TRUE]
        OBVIOUS
      <4> QED
        BY ONLY <3>2, <3>3, <4>1
    <3>5. Record.late <=> pendingControl.late
      BY <3>2
    <3> QED
      BY <1>r, <3>1, <3>4, <3>5
  <2>2. Holder' = Holder
    BY <1>2 DEF Expires, Holder
  <2>3. UNCHANGED <<desiredRevision, Patched(desiredConfig), appliedRevision,
                    Patched(appliedConfig), InUse, calibrationMetadata.revision,
                    publishedCalibrationRevision>>
    BY <1>2 DEF Expires, Patched, InUse
  <2>4. Contract!Deadline
    BY <2>1, <2>2, <2>3 DEF Contract!Deadline, Record, InUse
  <2> QED
    BY <2>4 DEF Contract!Next
<1>3. ASSUME NEW answer \in {"completed", "failed", "dropped"}, Ends(answer)
      PROVE  Contract!Next
  <2>1. /\ pendingControl # None /\ Record # None /\ Record' = None /\ Holder' = "nobody"
        /\ Record.revision = desiredRevision /\ Record.cal = pendingControl.cal
        /\ Record.late = pendingControl.late
    BY <1>3, <1>p, <1>r DEF Ends, Record, Holder
  <2>2. UNCHANGED <<desiredRevision, Patched(desiredConfig), InUse,
                    calibrationMetadata.revision, publishedCalibrationRevision>>
    BY <1>3 DEF Ends, Patched, InUse
  <2>3. Contract!Answered
    BY <2>1, <2>2 DEF Contract!Answered, Record, InUse
  <2>4. CASE answer = "completed"
    <3>1. Holder = "applied"
      BY <1>3, <2>1, <2>4, HolderReads DEF Ends
    <3>2. /\ Record.cal => publishedCalibrationRevision = Record.revision
          /\ appliedRevision' = Record.revision
          /\ Patched(appliedConfig)' = Patched(desiredConfig)
      BY <1>3, <2>1, <2>4 DEF Ends, Patched
    <3>3. Contract!AnswerCompleted
      BY <2>3, <3>1, <3>2 DEF Contract!AnswerCompleted, Record
    <3> QED
      BY <3>3 DEF Contract!Next, Contract!Answer
  <2>5. CASE answer = "failed"
    <3>1. Holder = "failed"
      BY <1>3, <2>1, <2>5, HolderReads DEF Ends
    <3>2. UNCHANGED <<appliedRevision, Patched(appliedConfig)>>
      BY <1>3, <2>5 DEF Ends, Patched
    <3>3. Contract!AnswerFailed
      BY <2>3, <3>1, <3>2 DEF Contract!AnswerFailed
    <3> QED
      BY <3>3 DEF Contract!Next, Contract!Answer
  <2>6. CASE answer = "dropped"
    <3>1. Holder = "mailbox" /\ Record.late
      BY <1>3, <2>1, <2>6, HolderReads DEF Ends
    <3>2. UNCHANGED <<appliedRevision, Patched(appliedConfig)>>
      BY <1>3, <2>6 DEF Ends, Patched
    <3>3. Contract!AnswerDropped
      BY <2>3, <3>1, <3>2 DEF Contract!AnswerDropped, Record
    <3> QED
      BY <3>3 DEF Contract!Next, Contract!Answer
  <2> QED
    BY <2>4, <2>5, <2>6
<1>4. CASE Consumes
  <2>1. /\ nativeCommand # None /\ pendingControl # None /\ nativeCommand' = None
        /\ nativeCommand.kind = pendingControl.op
        /\ nativeCommand.jpeg = desiredConfig.jpeg
        /\ nativeCommand.cal = IF pendingControl.cal THEN desiredConfig.cal ELSE None
        /\ nativeCommand.revision = desiredRevision
        /\ nativeAppliedRevision # desiredRevision
        /\ nativeFailedRevision # desiredRevision
        /\ pendingControl.cal => nativeCommand.kind = "config"
    BY <1>h, <1>4 DEF Consumes, HandOverInv, HolderInv, RecordsArePending, OneHolder
  <2>2. Holder = "mailbox"
    BY <2>1 DEF Holder
  <2>3. Holder' \in {"render", "applied"} /\ (pendingControl.cal => Holder' = "applied")
    BY <1>4, <1>p, <2>1 DEF Consumes, Holder
  <2>4. /\ UNCHANGED <<desiredRevision, Patched(desiredConfig), appliedRevision,
                       Patched(appliedConfig), Record, publishedCalibrationRevision>>
        /\ Record.cal = pendingControl.cal /\ Record.revision = desiredRevision
    BY <1>4, <1>p, <2>1 DEF Consumes, Patched, Record
  <2>5. jpegQuality' = desiredConfig.jpeg
    BY <1>4, <2>1 DEF Consumes
  <2>6. CASE pendingControl.cal
    <3>1. /\ InUse' = Patched(desiredConfig)
          /\ calibrationMetadata.revision' = desiredRevision
      BY <1>t, <1>4, <2>1, <2>5, <2>6 DEF Consumes, InUse, Patched
    <3>2. Contract!Take
      BY <2>2, <2>3, <2>4, <2>6, <3>1 DEF Contract!Take, Record, InUse
    <3> QED
      BY <3>2 DEF Contract!Next
  <2>7. CASE ~pendingControl.cal
    <3>1. /\ InUse' = [InUse EXCEPT !.jpeg = Patched(desiredConfig).jpeg]
          /\ calibrationMetadata.revision' = calibrationMetadata.revision
      BY <1>4, <2>1, <2>5, <2>7 DEF Consumes, InUse, Patched
    <3>2. Contract!Take
      BY <2>2, <2>3, <2>4, <2>7, <3>1 DEF Contract!Take, Record, InUse
    <3> QED
      BY <3>2 DEF Contract!Next
  <2> QED
    BY <2>6, <2>7
<1>5. CASE Renders
  <2>1. UNCHANGED <<desiredRevision, Patched(desiredConfig), appliedRevision,
                    Patched(appliedConfig), Record, InUse,
                    calibrationMetadata.revision, publishedCalibrationRevision>>
    BY <1>5 DEF Renders, Patched, Record, InUse
  <2>2. UNCHANGED <<pendingControl, nativeCommand, desiredRevision>>
    BY <1>5 DEF Renders
  <2>3. CASE Owned /\ \/ nativeAppliedRevision' = awaitingNativeControl.revision
                      \/ /\ nativeFailedRevision' = awaitingNativeControl.revision
                         /\ nativeAppliedRevision' = nativeAppliedRevision
    <3>1. /\ pendingControl # None /\ nativeCommand = None
          /\ awaitingNativeControl.revision = desiredRevision
          /\ nativeAppliedRevision # desiredRevision
      BY <2>3 DEF HolderInv, RecordsArePending, OneHolder
    <3>2. Holder = "render"
      BY <2>3, <3>1, HolderReads
    <3>3. Holder' \in {"applied", "failed"}
      BY <1>p, <2>2, <2>3, <3>1 DEF Holder
    <3>4. Contract!Acknowledge
      BY <2>1, <3>2, <3>3 DEF Contract!Acknowledge, Record, InUse
    <3> QED
      BY <3>4 DEF Contract!Next
  <2>4. CASE UNCHANGED ackedVars
    <3>1. Holder' = Holder
      BY <2>2, <2>4 DEF Holder
    <3>2. UNCHANGED Contract!vars
      BY <2>1, <3>1 DEF Contract!vars, Record, InUse
    <3> QED
      BY <3>2
  <2> QED
    BY <1>5, <2>3, <2>4 DEF Renders
<1>6. CASE Publishes
  <2>1. /\ UNCHANGED <<desiredRevision, Patched(desiredConfig), appliedRevision,
                       Patched(appliedConfig), Record, InUse,
                       calibrationMetadata.revision>>
        /\ Holder' = Holder
    BY <1>6 DEF Publishes, Patched, Record, InUse, Holder
  <2>2. CASE publishedCalibrationRevision' = publishedCalibrationRevision
    <3>1. UNCHANGED Contract!vars
      BY <2>1, <2>2 DEF Contract!vars, Record, InUse
    <3> QED
      BY <3>1
  <2>3. CASE /\ workerCameraInfo # None
             /\ publishedCalibrationRevision' = workerCameraInfo.revision
    <3>1. /\ publishedCalibrationRevision' \in {1, calibrationMetadata.revision}
          /\ publishedCalibrationRevision < publishedCalibrationRevision'
      BY <1>h, <2>3 DEF TopicInv, Latest
    <3>2. Contract!PublishCalibration
      BY <2>1, <3>1 DEF Contract!PublishCalibration, Record, InUse
    <3> QED
      BY <3>2 DEF Contract!Next
  <2> QED
    BY <1>6, <2>2, <2>3 DEF Publishes
<1>7. CASE IsQuiet
  <2>1. UNCHANGED Contract!vars
    BY <1>7 DEF IsQuiet, Contract!vars, Holder, Patched
  <2> QED
    BY <2>1
<1> QED
  BY <1>1, <1>2, <1>3, <1>4, <1>5, <1>6, <1>7, StepEffect

\* The mailbox, the two acknowledgement revisions and the threads that read
\* them apart keep the promises of ControlContract: a mutation is applied at
\* most once, taken back only while the render thread has not taken it, and
\* answered once, by what became of it.
THEOREM ContractImplemented == Spec => ContractIsKept
BY ContractInit, ContractStep, HolderInvariant, ConfigInvariant, PTL
   DEF Spec, ContractIsKept, Contract!Spec

-----------------------------------------------------------------------------
(***************************************************************************)
(* The ring of receipts and the observers.  A request id enters the ring   *)
(* only when the mutation that carries it is answered, and that mutation   *)
(* was admitted only because the ring did not hold its id, so the argument *)
(* carries the second half along: the pending mutation's id is not held.   *)
(***************************************************************************)
PendingIsNew == pendingControl # None => ~Remembered(pendingControl.id)
RingInv == RetryIsNotReplayed /\ PendingIsNew /\ ObserverMissesNothing

\* Remember moves the ring along by k places: a receipt it holds then was there
\* before, is the mutation's, last, or is a capture's.
LEMMA RingMovesAlong ==
  ASSUME TypeOK, NEW m \in Receipt \cup {None}, NEW done \in BOOLEAN,
         Remember(m, done)
  PROVE  \E k \in Nat : \A i \in DOMAIN controlReceipts' :
           /\ i \in Nat
           /\ \/ /\ i + k \in DOMAIN controlReceipts
                 /\ controlReceipts'[i] = controlReceipts[i + k]
              \/ /\ m # None /\ i + k = Len(controlReceipts) + 1
                 /\ controlReceipts'[i] = m
              \/ controlReceipts'[i].id = None
<1> DEFINE ring == controlReceipts
           new == Receipts(m, done)
           all == ring \o new
           extra == IF Len(all) > ReceiptSlots THEN Len(all) - ReceiptSlots ELSE 0
<1>1. new \in Seq(Receipt) /\ Len(new) \in Nat
  BY ReceiptsType
<1>2. ring \in Seq(Receipt) /\ Len(ring) \in Nat
  BY DEF TypeOK
<1>3. all \in Seq(Receipt) /\ Len(all) = Len(ring) + Len(new)
  BY <1>1, <1>2
<1>4. extra \in Nat /\ extra <= Len(all)
  BY <1>1, <1>2, <1>3, BoundsAssumption
<1>5. controlReceipts' = SubSeq(all, extra + 1, Len(all))
  BY DEF Remember
<1>6. ASSUME NEW n \in 1..Len(new)
      PROVE  \/ m # None /\ n = 1 /\ new[n] = m
             \/ new[n].id = None
  <2>1. CASE m = None
    BY <1>6, <2>1 DEF Receipts
  <2>2. CASE m # None
    BY <1>6, <2>2 DEF Receipts
  <2> QED
    BY <2>1, <2>2
<1>7. \A p \in 1..Len(all) :
        \/ p \in 1..Len(ring) /\ all[p] = ring[p]
        \/ \E n \in 1..Len(new) : p = Len(ring) + n /\ all[p] = new[n]
  <2>1. \A p \in 1..Len(all) :
          IF p <= Len(ring) THEN all[p] = ring[p] ELSE all[p] = new[p - Len(ring)]
    BY <1>1, <1>2, <1>3
  <2> HIDE DEF all, new
  <2>2. ASSUME NEW p \in 1..Len(all), p > Len(ring)
        PROVE  \E n \in 1..Len(new) : p = Len(ring) + n /\ all[p] = new[n]
    <3> DEFINE n == p - Len(ring)
    <3>1. n \in 1..Len(new) /\ p = Len(ring) + n
      BY <1>1, <1>2, <1>3, <2>2
    <3>2. all[p] = new[n]
      BY <1>2, <2>1, <2>2
    <3> HIDE DEF n
    <3> QED
      BY <3>1, <3>2
  <2> QED
    BY <1>2, <1>3, <2>1, <2>2
<1> HIDE DEF all, extra, new
<1>8. /\ DOMAIN controlReceipts' = 1..Len(all) - extra
      /\ \A i \in 1..Len(all) - extra : controlReceipts'[i] = all[extra + i]
  BY <1>1, <1>2, <1>3, <1>4, <1>5
<1>9. ASSUME NEW i \in DOMAIN controlReceipts'
      PROVE  /\ i \in Nat
             /\ \/ i + extra \in DOMAIN ring /\ controlReceipts'[i] = ring[i + extra]
                \/ m # None /\ i + extra = Len(ring) + 1 /\ controlReceipts'[i] = m
                \/ controlReceipts'[i].id = None
  <2>1. /\ i \in Nat /\ i + extra \in 1..Len(all)
        /\ controlReceipts'[i] = all[i + extra]
    BY <1>1, <1>2, <1>3, <1>4, <1>8
  <2>2. CASE i + extra \in 1..Len(ring) /\ all[i + extra] = ring[i + extra]
    BY <1>2, <2>1, <2>2
  <2>3. ASSUME NEW n \in 1..Len(new), i + extra = Len(ring) + n,
               all[i + extra] = new[n]
        PROVE  \/ m # None /\ i + extra = Len(ring) + 1 /\ controlReceipts'[i] = m
               \/ controlReceipts'[i].id = None
    BY <1>6, <2>1, <2>3
  <2> QED
    BY <1>7, <2>1, <2>2, <2>3
<1> QED
  BY <1>4, <1>9

\* An answer puts an id into the ring that was not there; what it does not
\* answer stays out of it.
LEMMA RememberRing ==
  ASSUME TypeOK, RingInv, NEW m \in Receipt \cup {None}, NEW done \in BOOLEAN,
         Remember(m, done), m # None => ~Remembered(m.id)
  PROVE  /\ RetryIsNotReplayed'
         /\ ObserverMissesNothing'
         /\ \A id \in Requests :
              (~Remembered(id) /\ (m # None => m.id # id)) => ~Remembered(id)'
<1> DEFINE ring == controlReceipts
<1>1. PICK k \in Nat : \A i \in DOMAIN controlReceipts' :
        /\ i \in Nat
        /\ \/ i + k \in DOMAIN ring /\ controlReceipts'[i] = ring[i + k]
           \/ m # None /\ i + k = Len(ring) + 1 /\ controlReceipts'[i] = m
           \/ controlReceipts'[i].id = None
  BY RingMovesAlong
<1>2. ASSUME NEW i \in DOMAIN controlReceipts', NEW j \in DOMAIN controlReceipts',
             controlReceipts'[i].id = controlReceipts'[j].id,
             controlReceipts'[i].id # None
      PROVE  i = j
  <2>1. i \in Nat /\ j \in Nat
    BY <1>1
  <2>2. CASE /\ i + k \in DOMAIN ring /\ controlReceipts'[i] = ring[i + k]
             /\ j + k \in DOMAIN ring /\ controlReceipts'[j] = ring[j + k]
    <3>1. i + k = j + k
      BY <1>2, <2>2 DEF RingInv, RetryIsNotReplayed
    <3> QED
      BY <2>1, <3>1
  <2>3. CASE m # None /\ i + k = Len(ring) + 1 /\ j + k = Len(ring) + 1
    <3>1. Len(ring) \in Nat
      BY DEF TypeOK
    <3> QED
      BY <2>1, <2>3, <3>1
  <2>4. CASE /\ m # None /\ controlReceipts'[i] = m
             /\ j + k \in DOMAIN ring /\ controlReceipts'[j] = ring[j + k]
    BY <1>2, <2>4 DEF Remembered
  <2>5. CASE /\ m # None /\ controlReceipts'[j] = m
             /\ i + k \in DOMAIN ring /\ controlReceipts'[i] = ring[i + k]
    BY <1>2, <2>5 DEF Remembered
  <2> QED
    BY <1>1, <1>2, <2>2, <2>3, <2>4, <2>5
<1>3. ASSUME NEW id \in Requests, ~Remembered(id), m # None => m.id # id
      PROVE  ~Remembered(id)'
  <2>1. id # None
    BY ValuesAssumption
  <2> QED
    BY <1>1, <1>3, <2>1 DEF Remembered
<1>4. ASSUME NEW w \in Watchers, controlWatchers'[w] # None
      PROVE  controlWatchers'[w] = controlEventRevision'
  <2>1. PICK gone \in SUBSET Watchers :
          controlWatchers' =
            [v \in Watchers |->
               IF controlWatchers[v] = None \/ v \in gone
                    \/ controlWatchers[v] < controlEventRevision'
                 THEN None ELSE controlWatchers[v]]
    BY DEF Remember
  <2>2. /\ controlWatchers'[w] = controlWatchers[w] /\ controlWatchers[w] # None
        /\ ~(controlWatchers[w] < controlEventRevision')
    BY <1>4, <2>1
  <2>3. controlWatchers[w] = controlEventRevision /\ controlEventRevision \in Nat
    BY <2>2 DEF RingInv, ObserverMissesNothing, TypeOK
  <2>4. \E n \in Nat : controlEventRevision' = controlEventRevision + n
    <3>1. Len(Receipts(m, done)) \in Nat
      BY ReceiptsType
    <3>2. controlEventRevision' = controlEventRevision + Len(Receipts(m, done))
      BY DEF Remember
    <3> QED
      BY <3>1, <3>2
  <2> QED
    BY <2>2, <2>3, <2>4
<1>5. RetryIsNotReplayed'
  BY <1>2 DEF RetryIsNotReplayed
<1>6. ObserverMissesNothing'
  BY <1>4 DEF ObserverMissesNothing
<1> QED
  BY <1>3, <1>5, <1>6

\* What a step of the handlers does to the ring, the observers and the id of
\* the pending mutation.
LEMMA StepRing == TypeOK /\ HolderInv /\ RingInv /\ [Next]_vars => RingInv'
<1> SUFFICES ASSUME TypeOK, RingInv, [Next]_vars
             PROVE  RingInv'
  OBVIOUS
<1> DEFINE Kept == UNCHANGED <<controlReceipts, controlEventRevision>>
<1>1. ASSUME Kept, UNCHANGED controlWatchers,
             pendingControl' = None \/ pendingControl'.id = pendingControl.id,
             pendingControl' # None => pendingControl # None
      PROVE  RingInv'
  BY <1>1 DEF RingInv, RetryIsNotReplayed, PendingIsNew, ObserverMissesNothing,
     Remembered
<1>2. CASE \E id \in Requests : \/ \E op \in Ops : AdmitMutation(id, op)
                                \/ AdmitCalibration(id)
  <2>1. PICK id \in Requests, op \in Ops, d \in Config, c \in BOOLEAN :
          Admit(id, op, d, c)
    BY <1>2, AdmissionIsAdmit
  <2>2. /\ ~Remembered(id) /\ pendingControl'.id = id
        /\ UNCHANGED <<controlReceipts, controlEventRevision, controlWatchers>>
    BY <2>1 DEF Admit, answers
  <2> QED
    BY <2>2 DEF RingInv, RetryIsNotReplayed, PendingIsNew, ObserverMissesNothing,
       Remembered
<1>3. CASE ControlDeadline
  <2>1. pendingControl # None /\ pendingControl \in Mutation
    BY <1>3 DEF ControlDeadline, TypeOK
  <2>2. pendingControl'.id = pendingControl.id
    BY <1>3, <2>1 DEF ControlDeadline, Mutation
  <2>3. Kept /\ UNCHANGED controlWatchers
    BY <1>3 DEF ControlDeadline, answers
  <2> QED
    BY <1>1, <2>1, <2>2, <2>3
<1>4. CASE AdmitCapture
  BY <1>1, <1>4 DEF AdmitCapture, answers
<1>5. ASSUME NEW done \in BOOLEAN, FlushControl(done)
      PROVE  RingInv'
  <2>1. CASE IsFailed \/ IsApplied \/ IsDropped
    <3>1. PICK s \in {"completed", "failed"} :
            Remember([id |-> pendingControl.id, stage |-> s], done)
      BY <1>5, <2>1 DEF FlushControl
    <3>2. pendingControl # None /\ pendingControl' = None
      BY <1>5, <2>1 DEF FlushControl, Answer, IsFailed, IsApplied, IsDropped
    <3> DEFINE m == [id |-> pendingControl.id, stage |-> s]
    <3>3. m \in Receipt \cup {None} /\ m.id = pendingControl.id
      BY <3>2 DEF TypeOK, Mutation, Receipt
    <3>4. ~Remembered(m.id)
      BY <3>2, <3>3 DEF RingInv, PendingIsNew
    <3>5. Remember(m, done)
      BY <3>1
    <3> HIDE DEF m
    <3>6. RetryIsNotReplayed' /\ ObserverMissesNothing'
      BY <3>3, <3>4, <3>5, RememberRing
    <3> QED
      BY <3>2, <3>6 DEF RingInv, PendingIsNew
  <2>2. CASE ~(IsFailed \/ IsApplied \/ IsDropped)
    <3>1. Remember(None, done) /\ pendingControl' = pendingControl
      BY <1>5, <2>2 DEF FlushControl
    <3>2. /\ RetryIsNotReplayed' /\ ObserverMissesNothing'
          /\ \A id \in Requests : ~Remembered(id) => ~Remembered(id)'
      BY <3>1, RememberRing
    <3>3. pendingControl # None =>
            /\ pendingControl.id \in Requests
            /\ ~Remembered(pendingControl.id)
      BY DEF TypeOK, Mutation, RingInv, PendingIsNew
    <3> QED
      BY <3>1, <3>2, <3>3 DEF RingInv, PendingIsNew, Remembered
  <2> QED
    BY <2>1, <2>2
<1>6. ASSUME NEW w \in Watchers, Observe(w)
      PROVE  RingInv'
  <2>1. /\ UNCHANGED <<controlReceipts, controlEventRevision, pendingControl>>
        /\ controlWatchers' = [controlWatchers EXCEPT ![w] = controlEventRevision]
    BY <1>6 DEF Observe
  <2>2. ObserverMissesNothing'
    BY <2>1 DEF TypeOK, RingInv, ObserverMissesNothing
  <2> QED
    BY <2>1, <2>2 DEF RingInv, RetryIsNotReplayed, PendingIsNew, Remembered
<1>7. CASE Render
  <2>1. Kept /\ UNCHANGED <<controlWatchers, pendingControl>>
    BY <1>7 DEF Render, PostRenderConsume, PostRenderIdle, TargetIdle, TargetStale,
       TargetEncode, TargetFail, TargetCommon, SettleFailure, answers
  <2> QED
    BY <1>1, <2>1
<1>8. CASE Others
  <2>1. Kept /\ UNCHANGED <<controlWatchers, pendingControl>>
    BY <1>8 DEF Others, PacerTake, PacerDone, RosMasterAppears, WorkerTake,
       WorkerPublish, RosDemandChanges, answers
  <2> QED
    BY <1>1, <2>1
<1>9. CASE UNCHANGED vars
  BY <1>1, <1>9 DEF vars, answers
<1> QED
  BY <1>2, <1>3, <1>4, <1>5, <1>6, <1>7, <1>8, <1>9 DEF Next, Executor

LEMMA RingInvariant == Spec => []RingInv
<1>1. Init => RingInv
  BY DEF Init, RingInv, RetryIsNotReplayed, PendingIsNew, ObserverMissesNothing
<1> QED
  BY <1>1, StepRing, HolderInvariant, PTL DEF Spec

\* HandleControlRequest refuses a request id the ring still holds, and that is
\* enough, with the id of the mutation that is still pending not in the ring
\* either: a retried mutation is not carried out and answered a second time
\* while a client could still ask for the answer of the first.
THEOREM RetriesAreRefused == Spec => []RetryIsNotReplayed
<1>1. RingInv => RetryIsNotReplayed
  BY DEF RingInv
<1> QED
  BY <1>1, RingInvariant, PTL

\* FlushControl answers the observers after it has remembered the receipts of
\* the pass, so none of them is left behind an event.
THEOREM ObserversKeepUp == Spec => []ObserverMissesNothing
<1>1. RingInv => ObserverMissesNothing
  BY DEF RingInv
<1> QED
  BY <1>1, RingInvariant, PTL
=============================================================================
