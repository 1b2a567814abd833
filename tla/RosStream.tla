----------------------------- MODULE RosStream -----------------------------
(***************************************************************************)
(* The encoded ROS branch of xgc_media_camera_plugin.cpp: NVENC output is  *)
(* copied by the render thread into a bounded queue (EnqueueROSAccessUnit) *)
(* and published by a worker (ROSPublisherLoop); subscriber callbacks and  *)
(* encoder resets open new epochs (AdvanceROSEpochLocked), and a           *)
(* generation number withdraws what was taken from the queue before.       *)
(*                                                                         *)
(* A step is a critical section of rosPublisherMutex_ or rosConsumerMutex_ *)
(* or an access of the two atomics (rosConsumersActive_, forceKeyframe_)   *)
(* outside of them, so every window between two locks is open.  The        *)
(* subscriber callbacks are one thread (AsyncSpinner(1)).                  *)
(***************************************************************************)
EXTENDS Integers, Sequences, FiniteSets

CONSTANTS
  None,           \* no frame in hand
  Capacity,       \* rosPublisherQueueCapacity_ (1 to 128, default 8)
  MaxDelay,       \* access units NVENC may hold back (4 in the code)
  MaxUnits,       \* bound: access units offered to the branch
  MaxDisturbances \* bound: connections and encoder or source-time resets

ASSUME CapacityAssumption == Capacity \in Nat \ {0}
ASSUME StreamBoundsAssumption ==
  MaxDelay \in Nat /\ MaxUnits \in Nat /\ MaxDisturbances \in Nat

\* What NVENC makes of a submission: an IDR or a delta.
AccessUnit == [key : BOOLEAN]
\* A queued access unit.  unit numbers what the render thread offered, orphan
\* marks one that was queued after the last consumer had left.
Frame == [epoch : Nat, seq : Nat, key : BOOLEAN, dropped : Nat,
          generation : Nat, unit : Nat, orphan : BOOLEAN]
StreamInfo == [epoch : Nat, generation : Nat]
ASSUME NoneIsNothing == None \notin Frame /\ None \notin StreamInfo
                          /\ None \notin AccessUnit

VARIABLES
  \* under rosConsumerMutex_
  callbacksEnabled, connectionCount,
  \* atomics
  rosConsumersActive, forceKeyframe,
  \* under rosPublisherMutex_
  rosFrameQueue, streamEpoch, nextSequence, rosWaitingForIDR, rosDropped,
  rosGeneration, rosStreamInfoPending, rosCameraInfoPending, rosStopping,
  \* where the callback thread, the render thread and the worker are, and what
  \* NVENC holds back
  callback, renderUnit, renderStage, held, workerStage, workerItem,
  \* the destructor's StopROSPublisher
  stopStage,
  \* history: the last published frame, the epochs StreamInfo was published
  \* for, units offered, connections and resets so far, and the units turned
  \* away for want of an IDR since the epoch was opened or an IDR was lost
  lastPublished, announced, units, connects, resets, waited

consumerVars == <<callbacksEnabled, connectionCount>>
queueVars == <<rosFrameQueue, streamEpoch, nextSequence, rosWaitingForIDR,
               rosDropped, rosGeneration, waited>>
publisherVars == <<queueVars, rosStreamInfoPending, rosCameraInfoPending,
                   rosStopping>>
renderVars == <<renderUnit, renderStage, held, units, resets>>
workerVars == <<workerStage, workerItem, lastPublished, announced>>
callbackVars == <<consumerVars, callback, connects>>
vars == <<callbackVars, rosConsumersActive, forceKeyframe, publisherVars,
          renderVars, workerVars, stopStage>>

\* RegisterROSPublisher has run: both latched messages are pending.
Init ==
  /\ callbacksEnabled = TRUE /\ connectionCount = 0
  /\ rosConsumersActive = FALSE /\ forceKeyframe = TRUE
  /\ rosFrameQueue = <<>> /\ streamEpoch = 1 /\ nextSequence = 0
  /\ rosWaitingForIDR = TRUE /\ rosDropped = 0 /\ rosGeneration = 0
  /\ rosStreamInfoPending = TRUE /\ rosCameraInfoPending = TRUE
  /\ rosStopping = FALSE
  /\ callback = "idle" /\ connects = 0
  /\ renderUnit = None /\ renderStage = "idle" /\ held = <<>>
  /\ units = 0 /\ resets = 0
  /\ workerStage = "idle" /\ workerItem = None
  /\ lastPublished = None /\ announced = {} /\ waited = 0
  /\ stopStage = "running"

-----------------------------------------------------------------------------
\* Mutant: the first access unit of the new epoch may be a delta.
AdvanceEpochAnywhere(also) ==
  /\ rosDropped' = rosDropped + Len(rosFrameQueue) + also
  /\ rosFrameQueue' = <<>>
  /\ streamEpoch' = streamEpoch + 1
  /\ nextSequence' = 0 /\ waited' = 0
  /\ UNCHANGED rosWaitingForIDR
  /\ rosGeneration' = rosGeneration + 1
  /\ rosStreamInfoPending' = TRUE

\* Mutant: the new epoch is not announced.
AdvanceEpochSilently(also) ==
  /\ rosDropped' = rosDropped + Len(rosFrameQueue) + also
  /\ rosFrameQueue' = <<>>
  /\ streamEpoch' = streamEpoch + 1
  /\ nextSequence' = 0 /\ waited' = 0
  /\ rosWaitingForIDR' = TRUE
  /\ rosGeneration' = rosGeneration + 1
  /\ UNCHANGED rosStreamInfoPending

\* AdvanceROSEpochLocked: what is queued, and `also`, counts as dropped.
AdvanceEpoch(also) ==
  /\ rosDropped' = rosDropped + Len(rosFrameQueue) + also
  /\ rosFrameQueue' = <<>>
  /\ streamEpoch' = streamEpoch + 1
  /\ nextSequence' = 0 /\ waited' = 0
  /\ rosWaitingForIDR' = TRUE
  /\ rosGeneration' = rosGeneration + 1
  /\ rosStreamInfoPending' = TRUE

-----------------------------------------------------------------------------
(***************************************************************************)
(* The subscriber callbacks.  A connection of either topic counts.         *)
(***************************************************************************)

\* OnROSSubscriberConnected, first lock.  A later consumer only asks for an
\* IDR; the first one goes on to open an epoch.
Connect ==
  /\ callback = "idle" /\ callbacksEnabled
  /\ connects + resets < MaxDisturbances
  /\ connects' = connects + 1
  /\ connectionCount' = connectionCount + 1
  /\ IF connectionCount = 0
       THEN callback' = "open" /\ UNCHANGED forceKeyframe
       ELSE forceKeyframe' = TRUE /\ UNCHANGED callback
  /\ UNCHANGED <<callbacksEnabled, rosConsumersActive, publisherVars,
                 renderVars, workerVars, stopStage>>

\* BeginROSEpoch(STREAM_START), under the publisher's lock ...
ConnectEpoch ==
  /\ callback = "open"
  /\ IF rosStopping
       THEN callback' = "activate"
            /\ UNCHANGED <<queueVars, rosStreamInfoPending>>
       ELSE callback' = "force" /\ AdvanceEpoch(0)
  /\ UNCHANGED <<consumerVars, connects, rosConsumersActive, forceKeyframe,
                 rosCameraInfoPending, rosStopping, renderVars, workerVars,
                 stopStage>>

\* ... its request for an IDR after the lock ...
ConnectForce ==
  /\ callback = "force"
  /\ forceKeyframe' = TRUE
  /\ callback' = "activate"
  /\ UNCHANGED <<consumerVars, connects, rosConsumersActive, publisherVars,
                 renderVars, workerVars, stopStage>>

\* Mutant: a connection that was on its way re-activates a stopped branch.
ConnectActivateAlways ==
  /\ callback = "activate"
  /\ rosConsumersActive' = TRUE
  /\ callback' = "idle"
  /\ UNCHANGED <<consumerVars, connects, forceKeyframe, publisherVars,
                 renderVars, workerVars, stopStage>>

\* ... and only then the consumer becomes visible to the render thread.
ConnectActivate ==
  /\ callback = "activate"
  /\ rosConsumersActive' =
       (rosConsumersActive \/ (callbacksEnabled /\ connectionCount > 0))
  /\ callback' = "idle"
  /\ UNCHANGED <<consumerVars, connects, forceKeyframe, publisherVars,
                 renderVars, workerVars, stopStage>>

\* OnROSSubscriberDisconnected, first lock.
Disconnect ==
  /\ callback = "idle" /\ callbacksEnabled /\ connectionCount > 0
  /\ connectionCount' = connectionCount - 1
  /\ IF connectionCount = 1
       THEN rosConsumersActive' = FALSE /\ callback' = "withdraw"
       ELSE UNCHANGED <<rosConsumersActive, callback>>
  /\ UNCHANGED <<callbacksEnabled, connects, forceKeyframe, publisherVars,
                 renderVars, workerVars, stopStage>>

\* The last consumer left: withdraw what is queued or in the worker's hands.
DisconnectWithdraw ==
  /\ callback = "withdraw"
  /\ IF rosStopping THEN UNCHANGED queueVars
     ELSE /\ rosDropped' = rosDropped + Len(rosFrameQueue)
          /\ rosFrameQueue' = <<>>
          /\ rosGeneration' = rosGeneration + 1
          /\ UNCHANGED <<streamEpoch, nextSequence, rosWaitingForIDR, waited>>
  /\ callback' = "idle"
  /\ UNCHANGED <<consumerVars, connects, rosConsumersActive, forceKeyframe,
                 rosStreamInfoPending, rosCameraInfoPending, rosStopping,
                 renderVars, workerVars, stopStage>>

-----------------------------------------------------------------------------
(***************************************************************************)
(* The render thread.                                                      *)
(***************************************************************************)

\* EncodeRenderedFrame: the force flag is exchanged with the submission, which
\* is encoded as an IDR when it was set and may be one at the end of a GOP.
\* NVENC puts out the oldest unit it has, or holds it back.
Encode ==
  /\ renderStage = "idle"
  /\ \E key \in BOOLEAN :
       LET all == Append(held, [key |-> key])
       IN  /\ forceKeyframe => key
           /\ \/ /\ renderStage' = "output"
                 /\ renderUnit' = Head(all) /\ held' = Tail(all)
              \/ /\ Len(all) <= MaxDelay /\ held' = all
                 /\ UNCHANGED <<renderStage, renderUnit>>
  /\ forceKeyframe' = FALSE
  /\ UNCHANGED <<callbackVars, rosConsumersActive, publisherVars, units,
                 resets, workerVars, stopStage>>

\* SendH264AccessUnit finds no NAL unit in the output: it is lost to both
\* branches, an IDR as well as a delta, and nothing is asked for.
Loses ==
  /\ renderStage = "output"
  /\ renderStage' = "idle" /\ renderUnit' = None
  /\ waited' = IF renderUnit.key THEN 0 ELSE waited
  /\ UNCHANGED <<callbackVars, rosConsumersActive, forceKeyframe, rosFrameQueue,
                 streamEpoch, nextSequence, rosWaitingForIDR, rosDropped,
                 rosGeneration, rosStreamInfoPending, rosCameraInfoPending,
                 rosStopping, held, units, resets, workerVars, stopStage>>

\* EnqueueROSAccessUnit before its lock: no consumer, no copy.
Offer ==
  /\ renderStage = "output"
  /\ IF rosConsumersActive
       THEN renderStage' = "offered" /\ units < MaxUnits /\ UNCHANGED renderUnit
       ELSE renderStage' = "idle" /\ renderUnit' = None
  /\ UNCHANGED <<callbackVars, rosConsumersActive, forceKeyframe,
                 publisherVars, held, units, resets, workerVars, stopStage>>

\* Mutant: the count that was reported is reported again by the next epoch.
QueuedKeepsCount(queue, epoch, seq, waiting, dropped, generation) ==
  /\ rosFrameQueue' =
       Append(queue, [epoch |-> epoch, seq |-> seq, key |-> renderUnit.key,
                      dropped |-> IF waiting THEN dropped ELSE 0,
                      generation |-> generation, unit |-> units + 1,
                      orphan |-> ~rosConsumersActive])
  /\ streamEpoch' = epoch /\ nextSequence' = seq + 1 /\ waited' = 0
  /\ rosWaitingForIDR' = FALSE
  /\ rosDropped' = dropped
  /\ rosGeneration' = generation

\* The access unit is put on the queue; the first of an epoch carries the count
\* of what was dropped before it.
Queued(queue, epoch, seq, waiting, dropped, generation) ==
  /\ rosFrameQueue' =
       Append(queue, [epoch |-> epoch, seq |-> seq, key |-> renderUnit.key,
                      dropped |-> IF waiting THEN dropped ELSE 0,
                      generation |-> generation, unit |-> units + 1,
                      orphan |-> ~rosConsumersActive])
  /\ streamEpoch' = epoch /\ nextSequence' = seq + 1 /\ waited' = 0
  /\ rosWaitingForIDR' = FALSE
  /\ rosDropped' = IF waiting THEN 0 ELSE dropped
  /\ rosGeneration' = generation

\* Mutant: one access unit too many.
FullLate == Len(rosFrameQueue) > Capacity

Full == Len(rosFrameQueue) >= Capacity

\* The ways EnqueueROSAccessUnit ends under its lock: the branch is stopping,
Refused ==
  /\ rosStopping
  /\ UNCHANGED <<queueVars, rosStreamInfoPending, forceKeyframe>>

\* a full queue gives way to a new epoch, opened by the access unit itself
\* when it is an IDR,
Overflows ==
  /\ ~rosStopping /\ Full
  /\ IF renderUnit.key
       THEN /\ Queued(<<>>, streamEpoch + 1, 0, TRUE,
                      rosDropped + Len(rosFrameQueue), rosGeneration + 1)
            /\ rosStreamInfoPending' = TRUE
            /\ UNCHANGED forceKeyframe
       ELSE AdvanceEpoch(1) /\ forceKeyframe' = TRUE

\* Mutant: the IDR a new epoch waits for is not asked for again.
AwaitsIDRSilently ==
  /\ ~rosStopping /\ ~Full /\ rosWaitingForIDR /\ ~renderUnit.key
  /\ rosDropped' = rosDropped + 1 /\ waited' = waited + 1
  /\ UNCHANGED <<rosFrameQueue, streamEpoch, nextSequence, rosWaitingForIDR,
                 rosGeneration, rosStreamInfoPending, forceKeyframe>>

\* a new epoch still waits for its IDR,
AwaitsIDR ==
  /\ ~rosStopping /\ ~Full /\ rosWaitingForIDR /\ ~renderUnit.key
  /\ rosDropped' = rosDropped + 1 /\ waited' = waited + 1
  /\ forceKeyframe' = TRUE
  /\ UNCHANGED <<rosFrameQueue, streamEpoch, nextSequence, rosWaitingForIDR,
                 rosGeneration, rosStreamInfoPending>>

\* or the access unit is the epoch's next.
IsQueued ==
  /\ ~rosStopping /\ ~Full /\ (rosWaitingForIDR => renderUnit.key)
  /\ Queued(rosFrameQueue, streamEpoch, nextSequence, rosWaitingForIDR,
            rosDropped, rosGeneration)
  /\ UNCHANGED <<rosStreamInfoPending, forceKeyframe>>

Enqueue ==
  /\ renderStage = "offered"
  /\ units' = units + 1
  /\ Refused \/ Overflows \/ AwaitsIDR \/ IsQueued
  /\ renderStage' = "idle" /\ renderUnit' = None
  /\ UNCHANGED <<callbackVars, rosConsumersActive, rosCameraInfoPending,
                 rosStopping, held, resets, workerVars, stopStage>>

\* ROSHasPendingEpoch.
HasPendingEpoch == rosWaitingForIDR /\ nextSequence = 0

\* The encoder is destroyed or created anew, what it held back with it.
\* ObserveSourceTime, EnsureEncoder or a failed encode begin an epoch and ask
\* for an IDR; behind an epoch that is pending already EnsureEncoder only
\* announces it again.
EncoderReset ==
  /\ renderStage = "idle" /\ connects + resets < MaxDisturbances
  /\ resets' = resets + 1
  /\ held' = <<>> /\ forceKeyframe' = TRUE
  /\ \/ ~rosStopping /\ AdvanceEpoch(0)
     \/ /\ rosStopping \/ HasPendingEpoch
        /\ rosStreamInfoPending' \in {rosStreamInfoPending, TRUE}
        /\ UNCHANGED queueVars
  /\ UNCHANGED <<callbackVars, rosConsumersActive, rosCameraInfoPending,
                 rosStopping, renderUnit, renderStage, units, workerVars,
                 stopStage>>

-----------------------------------------------------------------------------
(***************************************************************************)
(* The worker: takes one item under the lock, looks at the generation      *)
(* under it again, and publishes without it.                               *)
(***************************************************************************)
Take ==
  /\ workerStage = "idle" /\ ~rosStopping
  /\ \/ /\ rosCameraInfoPending
        /\ rosCameraInfoPending' = FALSE
        /\ UNCHANGED <<workerStage, workerItem, rosStreamInfoPending,
                       rosFrameQueue>>
     \/ /\ ~rosCameraInfoPending /\ rosStreamInfoPending
        /\ rosStreamInfoPending' = FALSE
        /\ workerStage' = "info"
        /\ workerItem' = [epoch |-> streamEpoch, generation |-> rosGeneration]
        /\ UNCHANGED <<rosCameraInfoPending, rosFrameQueue>>
     \/ /\ ~rosCameraInfoPending /\ ~rosStreamInfoPending
        /\ rosFrameQueue # <<>>
        /\ rosFrameQueue' = Tail(rosFrameQueue)
        /\ workerStage' = "frame"
        /\ workerItem' = Head(rosFrameQueue)
        /\ UNCHANGED <<rosCameraInfoPending, rosStreamInfoPending>>
  /\ UNCHANGED <<callbackVars, rosConsumersActive, forceKeyframe, streamEpoch,
                 nextSequence, rosWaitingForIDR, rosDropped, rosGeneration,
                 waited, rosStopping, renderVars, lastPublished, announced, stopStage>>

\* The generation check at the head of PublishStreamInfo and PublishROSFrame.
CheckGeneration ==
  /\ workerStage \in {"info", "frame"}
  /\ IF workerItem.generation = rosGeneration
       THEN /\ workerStage' = IF workerStage = "info" THEN "announce"
                              ELSE "publish"
            /\ UNCHANGED workerItem
       ELSE workerStage' = "idle" /\ workerItem' = None
  /\ UNCHANGED <<callbackVars, rosConsumersActive, forceKeyframe,
                 publisherVars, renderVars, lastPublished, announced, stopStage>>

Publish ==
  /\ \/ /\ workerStage = "announce"
        /\ announced' = announced \cup {workerItem.epoch}
        /\ UNCHANGED lastPublished
     \/ /\ workerStage = "publish"
        /\ lastPublished' = workerItem
        /\ UNCHANGED announced
  /\ workerStage' = "idle" /\ workerItem' = None
  /\ UNCHANGED <<callbackVars, rosConsumersActive, forceKeyframe,
                 publisherVars, renderVars, stopStage>>

-----------------------------------------------------------------------------
(***************************************************************************)
(* StopROSPublisher: withdraw the queue, disable the callbacks, join.      *)
(***************************************************************************)
\* Mutant: what is queued stays queued.
StopPublishingKeepsQueue ==
  /\ stopStage = "running"
  /\ stopStage' = "stopping"
  /\ rosStopping' = TRUE
  /\ rosStreamInfoPending' = FALSE
  /\ rosGeneration' = rosGeneration + 1
  /\ UNCHANGED <<callbackVars, rosConsumersActive, forceKeyframe,
                 rosFrameQueue, streamEpoch, nextSequence, rosWaitingForIDR,
                 rosDropped, waited, rosCameraInfoPending, renderVars,
                 workerVars>>

StopPublishing ==
  /\ stopStage = "running"
  /\ stopStage' = "stopping"
  /\ rosStopping' = TRUE
  /\ rosFrameQueue' = <<>> /\ rosStreamInfoPending' = FALSE
  /\ rosGeneration' = rosGeneration + 1
  /\ UNCHANGED <<callbackVars, rosConsumersActive, forceKeyframe, streamEpoch,
                 nextSequence, rosWaitingForIDR, rosDropped, waited,
                 rosCameraInfoPending, renderVars, workerVars>>

StopCallbacks ==
  /\ stopStage = "stopping"
  /\ stopStage' = "joining"
  /\ callbacksEnabled' = FALSE /\ connectionCount' = 0
  /\ rosConsumersActive' = FALSE
  /\ UNCHANGED <<callback, connects, forceKeyframe, publisherVars, renderVars,
                 workerVars>>

StopJoin ==
  /\ stopStage = "joining" /\ workerStage = "idle"
  /\ stopStage' = "stopped"
  /\ UNCHANGED <<callbackVars, rosConsumersActive, forceKeyframe,
                 publisherVars, renderVars, workerVars>>

-----------------------------------------------------------------------------
Callbacks == \/ Connect \/ ConnectEpoch \/ ConnectForce \/ ConnectActivate
             \/ Disconnect \/ DisconnectWithdraw
RenderThread == Encode \/ Loses \/ Offer \/ Enqueue \/ EncoderReset
Worker == Take \/ CheckGeneration \/ Publish
Stop == StopPublishing \/ StopCallbacks \/ StopJoin

Next == Callbacks \/ RenderThread \/ Worker \/ Stop

Spec == Init /\ [][Next]_vars

-----------------------------------------------------------------------------
(***************************************************************************)
(* Properties.                                                             *)
(***************************************************************************)

\* Every variable holds a value the code can store in it.
TypeOK ==
  /\ callbacksEnabled \in BOOLEAN /\ connectionCount \in Nat
  /\ rosConsumersActive \in BOOLEAN /\ forceKeyframe \in BOOLEAN
  /\ rosFrameQueue \in Seq(Frame) /\ Len(rosFrameQueue) <= Capacity
  /\ streamEpoch \in Nat /\ nextSequence \in Nat
  /\ rosWaitingForIDR \in BOOLEAN /\ rosDropped \in Nat
  /\ rosGeneration \in Nat
  /\ rosStreamInfoPending \in BOOLEAN /\ rosCameraInfoPending \in BOOLEAN
  /\ rosStopping \in BOOLEAN
  /\ callback \in {"idle", "open", "force", "activate", "withdraw"}
  /\ renderUnit \in AccessUnit \cup {None}
  /\ held \in Seq(AccessUnit) /\ Len(held) <= MaxDelay
  /\ renderStage \in {"idle", "output", "offered"}
  /\ workerStage \in {"idle", "info", "frame", "announce", "publish"}
  /\ workerItem \in Frame \cup StreamInfo \cup {None}
  /\ stopStage \in {"running", "stopping", "joining", "stopped"}
  /\ lastPublished \in Frame \cup {None} /\ announced \in SUBSET Nat
  /\ units \in Nat /\ connects \in Nat /\ resets \in Nat /\ waited \in Nat

\* The demand flag the render thread reads never outlives the last consumer:
\* a connection callback that was on its way while the branch was stopped
\* does not switch it back on.
DemandHasConsumer ==
  rosConsumersActive => callbacksEnabled /\ connectionCount > 0

\* Once the destructor has joined the worker, nothing is queued any more and
\* nothing is being published.
StoppedIsQuiet ==
  stopStage = "stopped" => rosFrameQueue = <<>> /\ workerStage = "idle"

PublishesFrame == lastPublished' # lastPublished

\* The sidecar's promise to a recorder: (epoch, frame_sequence) only grows, an
\* epoch opens with an IDR numbered zero, and inside an epoch every number
\* is there, whatever the callbacks, overflows and resets did between.  The
\* one exception is an access unit that was queued after the last consumer
\* had left.
PublishedInOrder ==
  [][PublishesFrame =>
       LET new == lastPublished'
           old == lastPublished
           continues == old # None /\ new.epoch = old.epoch
       IN  /\ old # None => new.epoch >= old.epoch
           /\ continues => new.seq > old.seq
           /\ ~new.orphan =>
                IF continues THEN new.seq = old.seq + 1
                             ELSE new.seq = 0 /\ new.key]_vars

\* The metadata of an epoch is on its latched topic before the first of its
\* frames is published.
InfoBeforeFrames ==
  [][PublishesFrame /\ ~lastPublished'.orphan =>
       lastPublished'.epoch \in announced]_vars

\* The access units of the encoder that a recorder did not get before this one.
Missing(new, old) == new.unit - (IF old = None THEN 0 ELSE old.unit) - 1

\* dropped_frames_before never claims a loss that did not happen (after an
\* orphan the two are not comparable: it was published behind units that are
\* still to be reported).
DroppedIsNotOvercounted ==
  [][(PublishesFrame /\ (lastPublished # None => ~lastPublished.orphan)) =>
       lastPublished'.dropped <= Missing(lastPublished', lastPublished)]_vars

\* A new epoch is opened by an IDR soon: it turns away what NVENC held back when
\* the IDR was asked for and at most two deltas more, the one that was offered
\* already and the one that asks again.  The request cannot get lost between the
\* callbacks, which raise the flag, and the render thread, which exchanges it
\* and may throw its IDR away; an IDR whose output is lost starts the count anew.
EpochOpensSoon == waited <= MaxDelay + 2
=============================================================================
