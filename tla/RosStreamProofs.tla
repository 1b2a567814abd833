-------------------------- MODULE RosStreamProofs --------------------------
(***************************************************************************)
(* The encoded ROS branch, for every queue capacity and any number of      *)
(* access units, connections and resets: who is served, how soon an epoch  *)
(* opens, and what the sidecar says of each frame that is published.       *)
(***************************************************************************)
EXTENDS RosStream, SequenceTheorems, TLAPS

(***************************************************************************)
(* The invariant.  The threads first: what each one carries, and what the  *)
(* stopping destructor has done.                                           *)
(***************************************************************************)
HandInv ==
  /\ workerStage \in {"info", "announce"} => workerItem \in StreamInfo
  /\ workerStage \in {"frame", "publish"} => workerItem \in Frame
  /\ renderStage # "idle" => renderUnit \in AccessUnit
  /\ renderStage = "offered" => units < MaxUnits

StopInv ==
  /\ rosStopping => rosFrameQueue = <<>>
  /\ rosStopping <=> stopStage # "running"
  /\ stopStage = "stopped" => workerStage = "idle"
  /\ callback # "idle" => ~rosConsumersActive
  /\ DemandHasConsumer

\* Where the IDR a new epoch waits for is: in hand, among what NVENC holds
\* back, or still to be asked of it by the flag.  Those before it are turned
\* away.  The flag is raised again with each one, so it is missing only until
\* the first one was.
InHand == IF renderStage = "idle" THEN 0 ELSE 1
Asks(k) == IF k = Len(held) THEN forceKeyframe ELSE held[k + 1].key
IDRIsDue(bound) ==
  \E k \in 0..Len(held) : Asks(k) /\ waited + InHand + k <= bound
OpensSoon == \/ renderStage # "idle" /\ renderUnit.key
             \/ IDRIsDue(MaxDelay + 2)
             \/ waited <= 1
Awaited == ~rosStopping /\ rosWaitingForIDR
             /\ (rosConsumersActive \/ renderStage = "offered")
EpochInv ==
  /\ waited <= MaxDelay + 2
  /\ ~rosWaitingForIDR => waited = 0
  /\ Awaited => OpensSoon
  /\ ~rosStopping /\ callback \in {"force", "activate"} =>
       waited <= 1 /\ (renderStage = "offered" => waited = 0)

\* The frames in line: one the worker has taken and will not find withdrawn,
\* then the queue.  Before them comes the last one published, or the one that
\* cannot be called back any more.
Current == workerStage = "frame" /\ workerItem.generation = rosGeneration
First == nextSequence - Len(rosFrameQueue) - (IF Current THEN 1 ELSE 0)
Before == IF workerStage = "publish" THEN workerItem ELSE lastPublished
Unit(frame) == IF frame = None THEN 0 ELSE frame.unit

\* Those in line are of this epoch and numbered one after the other.
QueueInv ==
  /\ nextSequence = 0 <=> rosWaitingForIDR
  /\ Len(rosFrameQueue) <= nextSequence
  /\ \A i \in 1..Len(rosFrameQueue) :
       /\ rosFrameQueue[i].generation = rosGeneration
       /\ rosFrameQueue[i].epoch = streamEpoch
       /\ rosFrameQueue[i].seq = nextSequence - Len(rosFrameQueue) + (i - 1)
       /\ rosFrameQueue[i].seq = 0 => rosFrameQueue[i].key
  /\ workerStage \in {"info", "frame"} => workerItem.generation <= rosGeneration
  /\ Current => /\ workerItem.epoch = streamEpoch
                /\ workerItem.seq = nextSequence - Len(rosFrameQueue) - 1
                /\ workerItem.seq = 0 => workerItem.key

\* The branch serves a consumer, or has opened the epoch of its first one.
Serving ==
  ~rosStopping /\ (rosConsumersActive \/ callback \in {"force", "activate"})
\* A frame in line is published for a consumer.
ServedFrames ==
  \/ \E i \in 1..Len(rosFrameQueue) : ~rosFrameQueue[i].orphan
  \/ Current /\ ~workerItem.orphan

\* The line joins on to what was published: no number is missing.
Joined ==
  IF Before # None /\ Before.epoch = streamEpoch THEN First = Before.seq + 1
                                                 ELSE First = 0
Follows(new, old) ==
  LET continues == old # None /\ new.epoch = old.epoch
  IN  /\ old # None => new.epoch >= old.epoch
      /\ continues => new.seq > old.seq
      /\ ~new.orphan => IF continues THEN new.seq = old.seq + 1
                                     ELSE new.seq = 0 /\ new.key
LineInv ==
  /\ Before # None => /\ Before.epoch <= streamEpoch
                      /\ Before.epoch = streamEpoch => Before.seq < First
  /\ Serving \/ ServedFrames => Joined
  /\ workerStage = "publish" => Follows(workerItem, lastPublished)

\* The epoch a consumer is served from has been announced, or will be before
\* the worker takes its first frame.
Announcing ==
  \/ streamEpoch \in announced
  \/ rosStreamInfoPending
  \/ workerStage = "info" /\ workerItem.epoch = streamEpoch
                          /\ workerItem.generation = rosGeneration
  \/ workerStage = "announce" /\ workerItem.epoch = streamEpoch
InfoInv ==
  /\ Serving \/ ServedFrames => Announcing
  /\ workerStage \in {"frame", "publish"} /\ ~workerItem.orphan =>
       workerItem.epoch \in announced

\* What was dropped, and what is in line, was offered after a frame that is
\* not an orphan.
Comparable(frame) == frame # None => ~frame.orphan
CountedAt(i) ==
  /\ rosFrameQueue[i].unit <= units
  /\ \A j \in 1..Len(rosFrameQueue) :
       i < j => rosFrameQueue[i].unit < rosFrameQueue[j].unit
  /\ rosFrameQueue[i].seq # 0 => rosFrameQueue[i].dropped = 0
  /\ ~rosFrameQueue[i].orphan =>
       rosDropped + (Len(rosFrameQueue) - i) <= units - rosFrameQueue[i].unit
  /\ Unit(Before) < rosFrameQueue[i].unit
  /\ Current => workerItem.unit < rosFrameQueue[i].unit
\* The one the worker has taken.
TakenCounted ==
  /\ Unit(Before) < workerItem.unit
  /\ workerItem.unit <= units
  /\ workerItem.seq # 0 => workerItem.dropped = 0
  /\ ~workerItem.orphan =>
       rosDropped + Len(rosFrameQueue) <= units - workerItem.unit
  /\ Comparable(Before) =>
       workerItem.dropped <= workerItem.unit - Unit(Before) - 1
\* What was dropped and what is in line came after the one before them.
LineCounted ==
  rosDropped + Len(rosFrameQueue) + (IF Current THEN 1 ELSE 0)
    <= units - Unit(Before)
HeadCounted ==
  rosFrameQueue[1].dropped <= rosFrameQueue[1].unit - Unit(Before) - 1
CountInv ==
  /\ Serving /\ ~rosWaitingForIDR => rosDropped = 0
  /\ \A i \in 1..Len(rosFrameQueue) : CountedAt(i)
  /\ Current => TakenCounted
  /\ Unit(Before) <= units
  /\ Comparable(Before) => LineCounted
  /\ Comparable(Before) /\ ~Current /\ rosFrameQueue # <<>> => HeadCounted
  /\ workerStage = "publish" /\ Comparable(lastPublished) =>
       workerItem.dropped <= Missing(workerItem, lastPublished)

Inv == /\ TypeOK /\ HandInv /\ StopInv /\ EpochInv
       /\ QueueInv /\ LineInv /\ InfoInv /\ CountInv

(***************************************************************************)
(* Types, and the queue.                                                   *)
(***************************************************************************)
LEMMA EmptyQueue == <<>> \in Seq(Frame) /\ Len(<<>>) = 0
  BY EmptySeq

LEMMA EmptySmall == <<>> \in Seq(Frame) /\ Len(<<>>) <= Capacity
  BY EmptyQueue, CapacityAssumption

LEMMA Appended ==
  ASSUME NEW q \in Seq(Frame), NEW f \in Frame
  PROVE  /\ Append(q, f) \in Seq(Frame) /\ Len(Append(q, f)) = Len(q) + 1
         /\ \A i \in 1..Len(q) : Append(q, f)[i] = q[i]
         /\ Append(q, f)[Len(q) + 1] = f
  BY AppendProperties

\* An access unit more is submitted to NVENC; the oldest one comes out.
LEMMA Shifted ==
  ASSUME NEW q \in Seq(AccessUnit), NEW u \in AccessUnit
  PROVE  /\ Append(q, u) \in Seq(AccessUnit) /\ Len(q) \in Nat
         /\ Len(Append(q, u)) = Len(q) + 1 /\ Append(q, u)[Len(q) + 1] = u
         /\ \A i \in 1..Len(q) : Append(q, u)[i] = q[i]
         /\ Head(Append(q, u)) \in AccessUnit
         /\ Head(Append(q, u)) = Append(q, u)[1]
         /\ Tail(Append(q, u)) \in Seq(AccessUnit)
         /\ Len(Tail(Append(q, u))) = Len(q)
         /\ \A i \in 1..Len(q) : Tail(Append(q, u))[i] = Append(q, u)[i + 1]
<1> DEFINE a == Append(q, u)
<1>1. /\ a \in Seq(AccessUnit) /\ Len(q) \in Nat /\ Len(a) = Len(q) + 1
      /\ a[Len(q) + 1] = u /\ \A i \in 1..Len(q) : a[i] = q[i]
  BY AppendProperties, LenProperties
<1>2. a # <<>>
  BY <1>1, EmptySeq
<1> HIDE DEF a
<1>3. /\ Head(a) \in AccessUnit /\ Tail(a) \in Seq(AccessUnit)
      /\ Len(Tail(a)) = Len(a) - 1 /\ \A i \in 1..Len(Tail(a)) : Tail(a)[i] = a[i + 1]
  BY ONLY <1>1, <1>2, HeadTailProperties
<1>4. Head(a) = a[1]
  BY ONLY <1>1, <1>2, HeadTailProperties
<1>5. Len(Tail(a)) = Len(q)
  BY ONLY <1>1, <1>3
<1> QED
  BY <1>1, <1>3, <1>4, <1>5 DEF a

LEMMA Taken ==
  ASSUME NEW q \in Seq(Frame), q # <<>>
  PROVE  /\ Tail(q) \in Seq(Frame) /\ Len(Tail(q)) = Len(q) - 1 /\ Len(q) \in Nat
         /\ Len(q) >= 1 /\ Head(q) \in Frame /\ Head(q) = q[1]
         /\ \A i \in 1..Len(Tail(q)) : Tail(q)[i] = q[i + 1]
  BY HeadTailProperties, LenProperties

\* The frame EnqueueROSAccessUnit makes of the access unit.
NewFrame(epoch, seq, waiting, dropped, generation) ==
  [epoch |-> epoch, seq |-> seq, key |-> renderUnit.key,
   dropped |-> IF waiting THEN dropped ELSE 0,
   generation |-> generation, unit |-> units + 1, orphan |-> ~rosConsumersActive]

LEMMA NewFrameType ==
  ASSUME TypeOK, HandInv, renderStage # "idle", NEW epoch \in Nat, NEW seq \in Nat,
         NEW waiting \in BOOLEAN, NEW dropped \in Nat, NEW generation \in Nat
  PROVE  NewFrame(epoch, seq, waiting, dropped, generation) \in Frame
<1>1. renderUnit.key \in BOOLEAN /\ units + 1 \in Nat
  BY DEF TypeOK, HandInv, AccessUnit
<1>2. (IF waiting THEN dropped ELSE 0) \in Nat /\ (~rosConsumersActive) \in BOOLEAN
  BY DEF TypeOK
<1> QED
  BY <1>1, <1>2 DEF NewFrame, Frame

\* AdvanceROSEpochLocked leaves an empty queue and the numbers of a new epoch.
LEMMA Reset ==
  ASSUME streamEpoch + 1 \in Nat, rosGeneration + 1 \in Nat, NEW also \in {0, 1},
         rosDropped + Len(rosFrameQueue) \in Nat, AdvanceEpoch(also)
  PROVE  /\ rosFrameQueue' \in Seq(Frame) /\ Len(rosFrameQueue') <= Capacity
         /\ streamEpoch' \in Nat /\ nextSequence' \in Nat
         /\ rosWaitingForIDR' \in BOOLEAN /\ rosDropped' \in Nat
         /\ rosGeneration' \in Nat /\ waited' \in Nat
         /\ rosStreamInfoPending' \in BOOLEAN
<1>1. rosFrameQueue' \in Seq(Frame) /\ Len(rosFrameQueue') <= Capacity
  BY EmptySmall DEF AdvanceEpoch
<1>2. rosDropped' \in Nat
  <2>1. rosDropped' = (rosDropped + Len(rosFrameQueue)) + also
    BY DEF AdvanceEpoch
  <2> QED
    BY <2>1
<1> QED
  BY <1>1, <1>2 DEF AdvanceEpoch

\* Load: the publisher is registered, nobody is connected.
LEMMA InitTyped == Init => TypeOK
<1> SUFFICES ASSUME Init PROVE TypeOK
  OBVIOUS
<1>1. /\ rosFrameQueue \in Seq(Frame) /\ Len(rosFrameQueue) = 0
      /\ held \in Seq(AccessUnit) /\ Len(held) = 0 /\ MaxDelay \in Nat
  BY EmptyQueue, EmptySeq, StreamBoundsAssumption DEF Init
<1>2. Len(rosFrameQueue) <= Capacity /\ Len(held) <= MaxDelay
  BY ONLY <1>1, CapacityAssumption
<1> QED
  BY <1>1, <1>2 DEF Init, TypeOK

\* Types, for every step.
LEMMA TypedStep == Inv /\ [Next]_vars => TypeOK'
<1> SUFFICES ASSUME Inv, [Next]_vars PROVE TypeOK'
  OBVIOUS
<1>t. TypeOK
  BY DEF Inv
<1>q. /\ rosFrameQueue \in Seq(Frame) /\ Len(rosFrameQueue) \in Nat
      /\ Len(rosFrameQueue) <= Capacity
  BY <1>t, LenProperties DEF TypeOK
<1>a. /\ streamEpoch + 1 \in Nat /\ rosGeneration + 1 \in Nat /\ units + 1 \in Nat
      /\ rosDropped + Len(rosFrameQueue) \in Nat /\ rosDropped + 1 \in Nat
      /\ waited + 1 \in Nat /\ connects + 1 \in Nat /\ resets + 1 \in Nat
      /\ connectionCount + 1 \in Nat /\ (connectionCount > 0 => connectionCount - 1 \in Nat)
  BY <1>t, <1>q DEF TypeOK
<1>1. CASE Connect
  <2>1. connects' \in Nat /\ connectionCount' \in Nat
    BY <1>a, <1>1 DEF Connect
  <2>2. forceKeyframe' \in BOOLEAN /\ callback' \in {"idle", "open", "force", "activate", "withdraw"}
    BY <1>t, <1>1 DEF TypeOK, Connect
  <2>3. UNCHANGED <<callbacksEnabled, rosConsumersActive, publisherVars,
                 renderVars, workerVars, stopStage>>
    BY <1>1 DEF Connect
  <2> QED
    BY <1>t, <2>1, <2>2, <2>3 DEF TypeOK, publisherVars, queueVars, renderVars,
       workerVars
<1>2. CASE ConnectEpoch
  <2>1. CASE rosStopping
    BY <1>t, <2>1, <1>2 DEF TypeOK, ConnectEpoch, queueVars, consumerVars, renderVars, workerVars
  <2>2. CASE ~rosStopping
    <3>1. /\ rosFrameQueue' \in Seq(Frame) /\ Len(rosFrameQueue') <= Capacity
          /\ streamEpoch' \in Nat /\ nextSequence' \in Nat
          /\ rosWaitingForIDR' \in BOOLEAN /\ rosDropped' \in Nat
          /\ rosGeneration' \in Nat /\ waited' \in Nat
          /\ rosStreamInfoPending' \in BOOLEAN
      BY <1>a, <1>2, <2>2, Reset DEF ConnectEpoch
    <3> QED
      BY <1>t, <1>2, <3>1 DEF TypeOK, ConnectEpoch, queueVars, consumerVars, renderVars, workerVars
  <2> QED
    BY <2>1, <2>2
<1>3. CASE ConnectForce
  BY <1>t, <1>3 DEF TypeOK, ConnectForce, consumerVars, publisherVars, queueVars,
     renderVars, workerVars
<1>4. CASE ConnectActivate
  BY <1>t, <1>4 DEF TypeOK, ConnectActivate, consumerVars, publisherVars, queueVars,
     renderVars, workerVars
<1>5. CASE Disconnect
  <2>1. connectionCount' \in Nat
    BY <1>a, <1>5 DEF Disconnect
  <2>2. /\ rosConsumersActive' \in BOOLEAN
        /\ callback' \in {"idle", "open", "force", "activate", "withdraw"}
    BY <1>t, <1>5 DEF TypeOK, Disconnect
  <2>3. UNCHANGED <<callbacksEnabled, connects, forceKeyframe, publisherVars,
                 renderVars, workerVars, stopStage>>
    BY <1>5 DEF Disconnect
  <2> QED
    BY <1>t, <2>1, <2>2, <2>3 DEF TypeOK, publisherVars, queueVars, renderVars,
       workerVars
<1>6. CASE DisconnectWithdraw
  <2>1. /\ rosFrameQueue' \in {rosFrameQueue, <<>>}
        /\ rosDropped' \in {rosDropped, rosDropped + Len(rosFrameQueue)}
        /\ rosGeneration' \in {rosGeneration, rosGeneration + 1}
        /\ UNCHANGED <<streamEpoch, nextSequence, rosWaitingForIDR, waited>>
    BY <1>6 DEF DisconnectWithdraw, queueVars
  <2>2. rosFrameQueue' \in Seq(Frame) /\ Len(rosFrameQueue') <= Capacity
    BY <1>t, <2>1, EmptySmall DEF TypeOK
  <2>3. rosDropped' \in Nat /\ rosGeneration' \in Nat
    BY <1>a, <1>t, <2>1 DEF TypeOK
  <2> QED
    BY <1>t, <1>6, <2>1, <2>2, <2>3 DEF TypeOK, DisconnectWithdraw, consumerVars,
       queueVars, renderVars, workerVars
<1>7. CASE Encode
  <2>1. PICK key \in BOOLEAN :
          LET all == Append(held, [key |-> key])
          IN  \/ /\ renderStage' = "output"
                 /\ renderUnit' = Head(all) /\ held' = Tail(all)
              \/ /\ Len(all) <= MaxDelay /\ held' = all
                 /\ UNCHANGED <<renderStage, renderUnit>>
    BY <1>7 DEF Encode
  <2>2. /\ held \in Seq(AccessUnit) /\ Len(held) <= MaxDelay
        /\ [key |-> key] \in AccessUnit
    BY <1>t DEF TypeOK, AccessUnit
  <2>3. /\ renderStage' \in {"idle", "output", "offered"}
        /\ renderUnit' \in AccessUnit \cup {None}
        /\ held' \in Seq(AccessUnit) /\ Len(held') <= MaxDelay
    <3>1. /\ Append(held, [key |-> key]) \in Seq(AccessUnit)
          /\ Head(Append(held, [key |-> key])) \in AccessUnit
          /\ Tail(Append(held, [key |-> key])) \in Seq(AccessUnit)
          /\ Len(Tail(Append(held, [key |-> key]))) = Len(held)
      BY ONLY <2>2, Shifted
    <3>2. renderStage \in {"idle", "output", "offered"} /\ renderUnit \in AccessUnit \cup {None}
      BY <1>t DEF TypeOK
    <3> QED
      BY ONLY <2>1, <2>2, <3>1, <3>2
  <2>4. forceKeyframe' \in BOOLEAN
    BY <1>7 DEF Encode
  <2>5. UNCHANGED <<callbackVars, rosConsumersActive, publisherVars, units,
                 resets, workerVars, stopStage>>
    BY <1>7 DEF Encode
  <2> QED
    BY <1>t, <2>3, <2>4, <2>5 DEF TypeOK, callbackVars, consumerVars,
       publisherVars, queueVars, workerVars
<1>8. CASE Offer
  BY <1>t, <1>8 DEF TypeOK, Offer, callbackVars, consumerVars, publisherVars,
     queueVars, workerVars
<1>9. CASE Enqueue
  <2>1. /\ renderStage = "offered" /\ units' = units + 1 /\ renderStage' = "idle"
        /\ renderUnit' = None
        /\ UNCHANGED <<callbackVars, rosConsumersActive, rosCameraInfoPending,
                       rosStopping, held, resets, workerVars, stopStage>>
    BY <1>9 DEF Enqueue
  <2>2. ASSUME /\ rosFrameQueue' \in Seq(Frame) /\ Len(rosFrameQueue') <= Capacity
               /\ streamEpoch' \in Nat /\ nextSequence' \in Nat
               /\ rosWaitingForIDR' \in BOOLEAN /\ rosDropped' \in Nat
               /\ rosGeneration' \in Nat /\ waited' \in Nat
               /\ rosStreamInfoPending' \in BOOLEAN
               /\ forceKeyframe' \in BOOLEAN
        PROVE  TypeOK'
    BY <1>t, <1>a, <2>1, <2>2 DEF TypeOK, callbackVars, consumerVars, workerVars
  <2>3. CASE Refused
    BY <1>t, <2>2, <2>3 DEF TypeOK, Refused, queueVars
  <2>4. CASE Overflows
    <3>1. CASE renderUnit.key
      <4> DEFINE frame == NewFrame(streamEpoch + 1, 0, TRUE,
                            rosDropped + Len(rosFrameQueue), rosGeneration + 1)
      <4>1. TypeOK /\ HandInv /\ renderStage # "idle"
        BY <1>t, <2>1 DEF Inv
      <4>2. frame \in Frame
        BY ONLY <1>a, <4>1, NewFrameType
      <4>3. /\ rosFrameQueue' = Append(<<>>, frame)
            /\ streamEpoch' = streamEpoch + 1 /\ nextSequence' = 0 + 1 /\ waited' = 0
            /\ rosWaitingForIDR' = FALSE /\ rosDropped' = 0
            /\ rosGeneration' = rosGeneration + 1
            /\ rosStreamInfoPending' = TRUE /\ UNCHANGED forceKeyframe
        BY <2>4, <3>1 DEF Overflows, Queued, NewFrame
      <4> HIDE DEF frame
      <4>4. rosFrameQueue' \in Seq(Frame) /\ Len(rosFrameQueue') = 0 + 1
        BY ONLY <4>2, <4>3, EmptyQueue, Appended
      <4>5. Len(rosFrameQueue') <= Capacity
        BY ONLY <4>4, CapacityAssumption
      <4>6. /\ streamEpoch' \in Nat /\ nextSequence' \in Nat /\ waited' \in Nat
            /\ rosDropped' \in Nat /\ rosGeneration' \in Nat
        BY ONLY <1>a, <4>3
      <4>7. forceKeyframe' \in BOOLEAN
        BY <1>t, <4>3 DEF TypeOK
      <4> QED
        BY ONLY <2>2, <4>3, <4>4, <4>5, <4>6, <4>7
    <3>2. CASE ~renderUnit.key
      BY <1>a, <2>2, <2>4, <3>2, Reset DEF Overflows
    <3> QED
      BY <3>1, <3>2
  <2>5. CASE AwaitsIDR
    BY <1>t, <1>a, <2>2, <2>5 DEF TypeOK, AwaitsIDR
  <2>6. CASE IsQueued
    <3> DEFINE frame == NewFrame(streamEpoch, nextSequence, rosWaitingForIDR,
                          rosDropped, rosGeneration)
    <3>1. frame \in Frame
      <4>1. /\ TypeOK /\ HandInv /\ renderStage # "idle" /\ streamEpoch \in Nat
            /\ nextSequence \in Nat /\ rosWaitingForIDR \in BOOLEAN
            /\ rosDropped \in Nat /\ rosGeneration \in Nat
        BY <1>t, <2>1 DEF TypeOK, Inv
      <4> QED
        BY ONLY <4>1, NewFrameType
    <3>2. /\ rosFrameQueue' = Append(rosFrameQueue, frame) /\ ~Full
          /\ streamEpoch' = streamEpoch /\ nextSequence' = nextSequence + 1
          /\ waited' = 0 /\ rosWaitingForIDR' = FALSE
          /\ rosDropped' = IF rosWaitingForIDR THEN 0 ELSE rosDropped
          /\ rosGeneration' = rosGeneration
          /\ UNCHANGED <<rosStreamInfoPending, forceKeyframe>>
      BY <2>6 DEF IsQueued, Queued, NewFrame
    <3> HIDE DEF frame
    <3>3. rosFrameQueue' \in Seq(Frame) /\ Len(rosFrameQueue') = Len(rosFrameQueue) + 1
      BY ONLY <1>q, <3>1, <3>2, Appended
    <3>4. Len(rosFrameQueue') <= Capacity
      BY ONLY <1>q, <3>2, <3>3, CapacityAssumption DEF Full
    <3>5. nextSequence' \in Nat /\ rosDropped' \in Nat /\ waited' \in Nat
      BY <1>t, <3>2 DEF TypeOK
    <3> QED
      BY <1>t, <2>2, <3>2, <3>3, <3>4, <3>5 DEF TypeOK
  <2> QED
    BY <1>9, <2>3, <2>4, <2>5, <2>6 DEF Enqueue
<1>10. CASE EncoderReset
  <2>1. /\ forceKeyframe' \in BOOLEAN
        /\ held' \in Seq(AccessUnit) /\ Len(held') <= MaxDelay
    <3>1. held' = <<>> /\ forceKeyframe' = TRUE
      BY <1>10 DEF EncoderReset
    <3>2. MaxDelay \in Nat /\ <<>> \in Seq(AccessUnit) /\ Len(<<>>) = 0
      BY EmptySeq, StreamBoundsAssumption
    <3> QED
      BY ONLY <3>1, <3>2
  <2>2. /\ rosFrameQueue' \in Seq(Frame) /\ Len(rosFrameQueue') <= Capacity
        /\ streamEpoch' \in Nat /\ nextSequence' \in Nat
        /\ rosWaitingForIDR' \in BOOLEAN /\ rosDropped' \in Nat
        /\ rosGeneration' \in Nat /\ waited' \in Nat
        /\ rosStreamInfoPending' \in BOOLEAN
    <3>1. CASE AdvanceEpoch(0)
      BY <1>a, <3>1, Reset
    <3>2. CASE /\ rosStreamInfoPending' \in {rosStreamInfoPending, TRUE}
               /\ UNCHANGED queueVars
      BY <1>t, <3>2 DEF TypeOK, queueVars
    <3> QED
      BY <1>10, <3>1, <3>2 DEF EncoderReset
  <2>3. resets' \in Nat
    BY <1>a, <1>10 DEF EncoderReset
  <2>4. UNCHANGED <<callbackVars, rosConsumersActive, rosCameraInfoPending,
                    rosStopping, renderUnit, renderStage, units, workerVars,
                    stopStage>>
    BY <1>10 DEF EncoderReset
  <2> QED
    BY <1>t, <2>1, <2>2, <2>3, <2>4 DEF TypeOK, callbackVars, consumerVars, workerVars
<1>11. CASE Take
  <2>1. /\ rosCameraInfoPending' \in BOOLEAN /\ rosStreamInfoPending' \in BOOLEAN
        /\ workerStage' \in {"idle", "info", "frame"}
    BY <1>t, <1>11 DEF TypeOK, Take
  <2>2. \/ UNCHANGED <<rosFrameQueue, workerItem>>
        \/ /\ UNCHANGED rosFrameQueue
           /\ workerItem' = [epoch |-> streamEpoch, generation |-> rosGeneration]
        \/ /\ rosFrameQueue # <<>> /\ rosFrameQueue' = Tail(rosFrameQueue)
           /\ workerItem' = Head(rosFrameQueue)
    BY <1>11 DEF Take
  <2>3. [epoch |-> streamEpoch, generation |-> rosGeneration] \in StreamInfo
    BY <1>t DEF TypeOK, StreamInfo
  <2>4. workerItem' \in Frame \cup StreamInfo \cup {None}
    BY <1>t, <1>q, <2>2, <2>3, Taken DEF TypeOK
  <2>5. rosFrameQueue' \in Seq(Frame) /\ Len(rosFrameQueue') <= Capacity
    BY ONLY <1>q, <2>2, Taken, CapacityAssumption
  <2>6. UNCHANGED <<callbackVars, rosConsumersActive, forceKeyframe,
                 streamEpoch, nextSequence, rosWaitingForIDR, rosDropped,
                 rosGeneration, waited, rosStopping, renderVars, lastPublished,
                 announced, stopStage>>
    BY <1>11 DEF Take
  <2> QED
    BY <1>t, <2>1, <2>2, <2>3, <2>4, <2>5, <2>6 DEF TypeOK, callbackVars,
       consumerVars, renderVars
<1>12. CASE CheckGeneration
  BY <1>t, <1>12 DEF TypeOK, CheckGeneration, callbackVars, consumerVars,
     publisherVars, queueVars, renderVars
<1>13. CASE Publish
  <2>1. lastPublished' \in Frame \cup {None} /\ announced' \in SUBSET Nat
    BY <1>t, <1>13 DEF TypeOK, Publish, Inv, HandInv, StreamInfo
  <2> QED
    BY <1>t, <1>13, <2>1 DEF TypeOK, Publish, callbackVars, consumerVars,
       publisherVars, queueVars, renderVars
<1>14. CASE StopPublishing
  <2>1. rosFrameQueue' \in Seq(Frame) /\ Len(rosFrameQueue') <= Capacity
    BY <1>14, EmptySmall DEF StopPublishing
  <2>2. rosGeneration' \in Nat /\ rosStreamInfoPending' \in BOOLEAN /\ rosStopping' \in BOOLEAN
    BY <1>a, <1>14 DEF StopPublishing
  <2> QED
    BY <1>t, <1>14, <2>1, <2>2 DEF TypeOK, StopPublishing, callbackVars,
       consumerVars, renderVars, workerVars
<1>15. CASE StopCallbacks
  <2>1. /\ connectionCount' \in Nat /\ callbacksEnabled' \in BOOLEAN
        /\ rosConsumersActive' \in BOOLEAN
    BY <1>15 DEF StopCallbacks
  <2> QED
    BY <1>t, <1>15, <2>1 DEF TypeOK, StopCallbacks, publisherVars, queueVars,
       renderVars, workerVars
<1>16. CASE StopJoin
  BY <1>t, <1>16 DEF TypeOK, StopJoin, callbackVars, consumerVars, publisherVars,
     queueVars, renderVars, workerVars
<1>17. CASE UNCHANGED vars
  BY <1>t, <1>17 DEF TypeOK, vars, callbackVars, consumerVars, publisherVars,
     queueVars, renderVars, workerVars
<1>18. CASE Loses
  <2>1. waited' \in Nat
    BY <1>t, <1>18 DEF TypeOK, Loses
  <2> QED
    BY <1>t, <1>18, <2>1 DEF TypeOK, Loses, callbackVars, consumerVars, workerVars
<1> QED
  BY <1>1, <1>2, <1>3, <1>4, <1>5, <1>6, <1>7, <1>8, <1>9, <1>10, <1>11, <1>12,
     <1>13, <1>14, <1>15, <1>16, <1>17, <1>18 DEF Next, Callbacks, RenderThread, Worker,
     Stop

\* What each thread carries is what it was given.
LEMMA HandStep == Inv /\ [Next]_vars => HandInv'
<1> SUFFICES ASSUME Inv, [Next]_vars PROVE HandInv'
  OBVIOUS
<1>t. TypeOK
  BY DEF Inv
<1> USE DEF Inv
<1>n. /\ streamEpoch \in Nat /\ nextSequence \in Nat /\ rosGeneration \in Nat
      /\ rosDropped \in Nat /\ units \in Nat /\ waited \in Nat
      /\ rosFrameQueue \in Seq(Frame) /\ Len(rosFrameQueue) \in Nat
  BY <1>t, LenProperties DEF TypeOK
<1>1. CASE Connect
  BY <1>1 DEF HandInv, Connect, publisherVars, queueVars, renderVars, workerVars
<1>2. CASE ConnectEpoch
  BY <1>2 DEF HandInv, ConnectEpoch, AdvanceEpoch, queueVars, consumerVars,
     renderVars, workerVars
<1>3. CASE ConnectForce
  BY <1>3 DEF HandInv, ConnectForce, consumerVars, publisherVars, queueVars,
     renderVars, workerVars
<1>4. CASE ConnectActivate
  BY <1>4 DEF HandInv, ConnectActivate, consumerVars, publisherVars, queueVars,
     renderVars, workerVars
<1>5. CASE Disconnect
  BY <1>5 DEF HandInv, Disconnect, publisherVars, queueVars, renderVars, workerVars
<1>6. CASE DisconnectWithdraw
  BY <1>6 DEF HandInv, DisconnectWithdraw, consumerVars, queueVars, renderVars,
     workerVars
<1>7. CASE Encode
  <2>1. UNCHANGED <<workerStage, workerItem, units>> /\ renderStage' # "offered"
    BY <1>7 DEF Encode, workerVars
  <2>2. renderStage' # "idle" => renderUnit' \in AccessUnit
    <3>1. PICK key \in BOOLEAN :
            \/ renderUnit' = Head(Append(held, [key |-> key]))
            \/ UNCHANGED renderStage
      BY <1>7 DEF Encode
    <3>2. /\ held \in Seq(AccessUnit) /\ [key |-> key] \in AccessUnit
      BY <1>t DEF TypeOK, AccessUnit
    <3>3. Head(Append(held, [key |-> key])) \in AccessUnit
      BY ONLY <3>2, Shifted
    <3> QED
      BY <1>7, <3>1, <3>3 DEF Encode
  <2> QED
    BY <2>1, <2>2 DEF HandInv
<1>8. CASE Offer
  <2>1. UNCHANGED <<workerStage, workerItem, units>>
    BY <1>8 DEF Offer, workerVars
  <2>2. \/ renderStage' = "offered" /\ UNCHANGED renderUnit /\ units < MaxUnits
        \/ renderStage' = "idle"
    BY <1>8 DEF Offer
  <2> QED
    BY <1>8, <2>1, <2>2 DEF HandInv, Offer
<1>9. CASE Enqueue
  BY <1>9 DEF HandInv, Enqueue, callbackVars, consumerVars, workerVars
<1>10. CASE EncoderReset
  BY <1>10 DEF HandInv, EncoderReset, workerVars
<1>11. CASE Take
  <2>1. \/ UNCHANGED <<workerStage, workerItem>>
        \/ /\ workerStage' = "info"
           /\ workerItem' = [epoch |-> streamEpoch, generation |-> rosGeneration]
        \/ /\ rosFrameQueue # <<>> /\ workerStage' = "frame"
           /\ workerItem' = Head(rosFrameQueue)
    BY <1>11 DEF Take
  <2>2. [epoch |-> streamEpoch, generation |-> rosGeneration] \in StreamInfo
    BY <1>n DEF StreamInfo
  <2>3. UNCHANGED <<renderStage, renderUnit, units>>
    BY <1>11 DEF Take, renderVars
  <2> QED
    BY <1>n, <2>1, <2>2, <2>3, Taken DEF HandInv
<1>12. CASE CheckGeneration
  BY <1>12 DEF HandInv, CheckGeneration, callbackVars, consumerVars, publisherVars,
     queueVars, renderVars
<1>13. CASE Publish
  BY <1>13 DEF HandInv, Publish, callbackVars, consumerVars, publisherVars,
     queueVars, renderVars
<1>14. CASE StopPublishing
  BY <1>14 DEF HandInv, StopPublishing, callbackVars, consumerVars, renderVars,
     workerVars
<1>15. CASE StopCallbacks
  BY <1>15 DEF HandInv, StopCallbacks, publisherVars, queueVars, renderVars,
     workerVars
<1>16. CASE StopJoin
  BY <1>16 DEF HandInv, StopJoin, callbackVars, consumerVars, publisherVars,
     queueVars, renderVars, workerVars
<1>17. CASE UNCHANGED vars
  BY <1>17 DEF HandInv, vars, callbackVars, consumerVars, publisherVars, queueVars,
     renderVars, workerVars
<1>18. CASE Loses
  BY <1>18 DEF HandInv, Loses, workerVars
<1> QED
  BY <1>1, <1>2, <1>3, <1>4, <1>5, <1>6, <1>7, <1>8, <1>9, <1>10, <1>11, <1>12,
     <1>13, <1>14, <1>15, <1>16, <1>17, <1>18 DEF Next, Callbacks, RenderThread, Worker,
     Stop

\* A stopping branch has nothing queued, and demand has a consumer.
LEMMA StopStep == Inv /\ [Next]_vars => StopInv'
<1> SUFFICES ASSUME Inv, [Next]_vars PROVE StopInv'
  OBVIOUS
<1>t. TypeOK
  BY DEF Inv
<1> USE DEF Inv
<1>1. CASE Connect
  <2>1. connectionCount \in Nat
    BY <1>t DEF TypeOK
  <2> QED
    BY <1>1, <2>1 DEF StopInv, DemandHasConsumer, Connect, publisherVars, queueVars,
       renderVars, workerVars
<1>2. CASE ConnectEpoch
  BY <1>2 DEF StopInv, DemandHasConsumer, ConnectEpoch, AdvanceEpoch, queueVars,
     consumerVars, renderVars, workerVars
<1>3. CASE ConnectForce
  BY <1>3 DEF StopInv, DemandHasConsumer, ConnectForce, consumerVars, publisherVars,
     queueVars, renderVars, workerVars
<1>4. CASE ConnectActivate
  BY <1>4 DEF StopInv, DemandHasConsumer, ConnectActivate, consumerVars,
     publisherVars, queueVars, renderVars, workerVars
<1>5. CASE Disconnect
  <2>1. connectionCount \in Nat
    BY <1>t DEF TypeOK
  <2> QED
    BY <1>5, <2>1 DEF StopInv, DemandHasConsumer, Disconnect, publisherVars,
       queueVars, renderVars, workerVars
<1>6. CASE DisconnectWithdraw
  BY <1>6 DEF StopInv, DemandHasConsumer, DisconnectWithdraw, consumerVars,
     queueVars, renderVars, workerVars
<1>7. CASE Encode
  BY <1>7 DEF StopInv, DemandHasConsumer, Encode, callbackVars, consumerVars,
     publisherVars, queueVars, workerVars
<1>8. CASE Offer
  BY <1>8 DEF StopInv, DemandHasConsumer, Offer, callbackVars, consumerVars,
     publisherVars, queueVars, workerVars
<1>9. CASE Enqueue
  <2>1. rosStopping => Refused
    BY <1>9 DEF Enqueue, Overflows, AwaitsIDR, IsQueued
  <2>2. rosStopping => UNCHANGED rosFrameQueue
    BY <2>1 DEF Refused, queueVars
  <2>3. UNCHANGED <<callbackVars, rosConsumersActive, rosStopping, stopStage, workerStage>>
    BY <1>9 DEF Enqueue, workerVars
  <2> QED
    BY <2>2, <2>3 DEF StopInv, DemandHasConsumer, callbackVars, consumerVars
<1>10. CASE EncoderReset
  <2>1. UNCHANGED <<callbackVars, rosConsumersActive, rosStopping, workerStage, stopStage>>
    BY <1>10 DEF EncoderReset, workerVars
  <2>2. rosStopping => UNCHANGED rosFrameQueue
    BY <1>10 DEF EncoderReset, queueVars
  <2> QED
    BY <2>1, <2>2 DEF StopInv, DemandHasConsumer, callbackVars, consumerVars
<1>11. CASE Take
  BY <1>11 DEF StopInv, DemandHasConsumer, Take, callbackVars, consumerVars,
     renderVars
<1>12. CASE CheckGeneration
  BY <1>12 DEF StopInv, DemandHasConsumer, CheckGeneration, callbackVars,
     consumerVars, publisherVars, queueVars, renderVars
<1>13. CASE Publish
  BY <1>13 DEF StopInv, DemandHasConsumer, Publish, callbackVars, consumerVars,
     publisherVars, queueVars, renderVars
<1>14. CASE StopPublishing
  BY <1>14 DEF StopInv, DemandHasConsumer, StopPublishing, callbackVars,
     consumerVars, renderVars, workerVars
<1>15. CASE StopCallbacks
  BY <1>15 DEF StopInv, DemandHasConsumer, StopCallbacks, publisherVars, queueVars,
     renderVars, workerVars
<1>16. CASE StopJoin
  BY <1>16 DEF StopInv, DemandHasConsumer, StopJoin, callbackVars, consumerVars,
     publisherVars, queueVars, renderVars, workerVars
<1>17. CASE UNCHANGED vars
  BY <1>17 DEF StopInv, DemandHasConsumer, vars, callbackVars, consumerVars,
     publisherVars, queueVars, renderVars, workerVars
<1>18. CASE Loses
  BY <1>18 DEF StopInv, DemandHasConsumer, Loses, callbackVars, consumerVars,
     workerVars
<1> QED
  BY <1>1, <1>2, <1>3, <1>4, <1>5, <1>6, <1>7, <1>8, <1>9, <1>10, <1>11, <1>12,
     <1>13, <1>14, <1>15, <1>16, <1>17, <1>18 DEF Next, Callbacks, RenderThread, Worker,
     Stop

\* An epoch turns away no more than the deltas that were on their way.
LEMMA EpochStep == Inv /\ [Next]_vars => EpochInv'
<1> SUFFICES ASSUME Inv, [Next]_vars PROVE EpochInv'
  OBVIOUS
<1>t. TypeOK /\ HandInv /\ StopInv /\ EpochInv
  BY DEF Inv
<1>n. /\ waited \in Nat /\ MaxDelay \in Nat
      /\ held \in Seq(AccessUnit) /\ Len(held) \in Nat /\ Len(held) <= MaxDelay
  BY <1>t, LenProperties, StreamBoundsAssumption DEF TypeOK
<1>s. callback # "idle" => ~rosConsumersActive
  BY <1>t DEF StopInv
\* Steps that leave the encoder and the epoch alone; the flag may go up.
<1>k. ASSUME UNCHANGED <<rosWaitingForIDR, waited, renderStage, renderUnit, held>>,
             rosStopping' \/ UNCHANGED rosStopping,
             forceKeyframe => forceKeyframe', forceKeyframe' \in BOOLEAN,
             \/ rosConsumersActive' => rosConsumersActive
             \/ callback = "activate" /\ ~rosStopping,
             \/ callback' \notin {"force", "activate"}
             \/ callback' = callback
             \/ callback \in {"force", "activate"}
             \/ rosStopping
      PROVE  EpochInv'
  <2>1. OpensSoon => OpensSoon'
    <3>1. ASSUME NEW k \in 0..Len(held), Asks(k) PROVE Asks(k)'
      BY <1>k, <3>1 DEF Asks
    <3> QED
      BY <1>k, <3>1 DEF OpensSoon, IDRIsDue, InHand
  <2>2. Awaited' => OpensSoon
    BY <1>k, <1>t DEF Awaited, EpochInv, OpensSoon
  <2>3. /\ waited' <= MaxDelay + 2
        /\ ~rosWaitingForIDR' => waited' = 0
        /\ ~rosStopping' /\ callback' \in {"force", "activate"} =>
             waited' <= 1 /\ (renderStage' = "offered" => waited' = 0)
    BY <1>k, <1>t DEF EpochInv
  <2> QED
    BY <2>1, <2>2, <2>3 DEF EpochInv
\* A step after which the epoch is new, or is open.
<1>z. ASSUME waited' = 0 PROVE EpochInv'
  <2>1. waited' <= MaxDelay + 2 /\ waited' <= 1
    BY ONLY <1>z, <1>n
  <2> QED
    BY <1>z, <2>1 DEF EpochInv, OpensSoon
<1>1. CASE Connect
  <2>1. /\ UNCHANGED <<rosWaitingForIDR, waited, renderStage, renderUnit, held,
                      rosStopping, rosConsumersActive>>
        /\ callback' \notin {"force", "activate"} \/ callback' = callback
        /\ forceKeyframe' = forceKeyframe \/ forceKeyframe' = TRUE
    BY <1>1 DEF Connect, publisherVars, queueVars, renderVars
  <2>2. forceKeyframe => forceKeyframe'
    BY ONLY <2>1, Zenon
  <2>3. forceKeyframe' \in BOOLEAN
    BY <1>t, <2>1 DEF TypeOK
  <2> QED
    BY ONLY <1>k, <2>1, <2>2, <2>3
<1>2. CASE ConnectEpoch
  <2>1. CASE rosStopping
    <3>1. UNCHANGED <<rosWaitingForIDR, waited, renderStage, renderUnit, held,
                      rosStopping, rosConsumersActive, forceKeyframe>>
      BY <1>2, <2>1 DEF ConnectEpoch, queueVars, renderVars
    <3> QED
      BY <1>t, <1>k, <2>1, <3>1 DEF TypeOK
  <2>2. CASE ~rosStopping
    BY <1>2, <1>z, <2>2 DEF ConnectEpoch, AdvanceEpoch
  <2> QED
    BY <2>1, <2>2
<1>3. CASE ConnectForce
  <2>1. /\ UNCHANGED <<rosWaitingForIDR, waited, renderStage, renderUnit, held,
                      rosStopping, rosConsumersActive>>
        /\ callback = "force" /\ forceKeyframe' = TRUE
    BY <1>3 DEF ConnectForce, publisherVars, queueVars, renderVars
  <2> QED
    BY <1>k, <2>1
<1>4. CASE ConnectActivate
  <2>1. /\ UNCHANGED <<rosWaitingForIDR, waited, renderStage, renderUnit, held,
                      rosStopping, forceKeyframe>>
        /\ callback = "activate" /\ callback' = "idle"
    BY <1>4 DEF ConnectActivate, publisherVars, queueVars, renderVars
  <2>2. forceKeyframe' \in BOOLEAN
    BY <1>t, <2>1 DEF TypeOK
  <2>3. CASE rosStopping
    <3>1. rosStopping' /\ ~Awaited'
      BY <2>1, <2>3 DEF Awaited
    <3> QED
      BY <1>t, <2>1, <3>1 DEF EpochInv
  <2>4. CASE ~rosStopping
    BY <1>k, <2>1, <2>2, <2>4
  <2> QED
    BY <2>3, <2>4
<1>5. CASE Disconnect
  <2>1. /\ UNCHANGED <<rosWaitingForIDR, waited, renderStage, renderUnit, held,
                      rosStopping, forceKeyframe>>
        /\ rosConsumersActive' => rosConsumersActive
        /\ callback' \in {callback, "withdraw"}
    BY <1>5 DEF Disconnect, publisherVars, queueVars, renderVars
  <2> QED
    BY <1>t, <1>k, <2>1 DEF TypeOK
<1>6. CASE DisconnectWithdraw
  <2>1. /\ UNCHANGED <<rosWaitingForIDR, waited, renderStage, renderUnit, held,
                      rosStopping, forceKeyframe, rosConsumersActive>>
        /\ callback' = "idle"
    BY <1>6 DEF DisconnectWithdraw, queueVars, renderVars
  <2> QED
    BY <1>t, <1>k, <2>1 DEF TypeOK
<1>7. CASE Encode
  <2>1. PICK key \in BOOLEAN :
          LET all == Append(held, [key |-> key])
          IN  /\ forceKeyframe => key
              /\ \/ /\ renderStage' = "output"
                    /\ renderUnit' = Head(all) /\ held' = Tail(all)
                 \/ /\ Len(all) <= MaxDelay /\ held' = all
                    /\ UNCHANGED <<renderStage, renderUnit>>
    BY <1>7 DEF Encode
  <2> DEFINE all == Append(held, [key |-> key])
  <2>2. /\ all \in Seq(AccessUnit) /\ Len(all) = Len(held) + 1
        /\ all[Len(held) + 1] = [key |-> key]
        /\ \A i \in 1..Len(held) : all[i] = held[i]
        /\ Head(all) = all[1] /\ Len(Tail(all)) = Len(held)
        /\ \A i \in 1..Len(held) : Tail(all)[i] = all[i + 1]
    <3>1. held \in Seq(AccessUnit) /\ [key |-> key] \in AccessUnit
      BY <1>n DEF AccessUnit
    <3> QED
      BY ONLY <3>1, Shifted
  <2>3. /\ forceKeyframe => key
        /\ \/ /\ renderStage' = "output"
              /\ renderUnit' = Head(all) /\ held' = Tail(all)
           \/ /\ held' = all
              /\ UNCHANGED <<renderStage, renderUnit>>
    BY <2>1
  <2> HIDE DEF all
  <2>4. /\ UNCHANGED <<callback, rosConsumersActive, rosStopping, rosWaitingForIDR, waited>>
        /\ renderStage = "idle" /\ renderStage' # "offered"
    BY <1>7 DEF Encode, callbackVars, publisherVars, queueVars
  <2>5. ASSUME NEW k \in 0..Len(held), Asks(k) PROVE all[k + 1].key
    <3>1. CASE k = Len(held)
      BY <2>2, <2>3, <2>5, <3>1 DEF Asks
    <3>2. CASE k # Len(held)
      <4>1. k + 1 \in 1..Len(held)
        BY <1>n, <2>5, <3>2
      <4>2. held[k + 1].key
        BY <2>5, <3>2 DEF Asks
      <4> QED
        BY <2>2, <4>1, <4>2
    <3> QED
      BY <3>1, <3>2
  <2>6. ASSUME NEW k \in 0..Len(held), all[k + 1].key,
               waited + 0 + k <= MaxDelay + 2
        PROVE  OpensSoon'
    <3>1. CASE renderStage' = "output"
      <4>1. renderUnit' = all[1] /\ held' = Tail(all)
        BY <2>2, <2>3, <2>4, <3>1
      <4>2. CASE k = 0
        BY <2>6, <3>1, <4>1, <4>2 DEF OpensSoon
      <4>3. CASE k # 0
        <5>1. k \in 1..Len(held) /\ (k - 1) + 1 = k /\ k - 1 \in 0..Len(held')
              /\ k - 1 # Len(held')
          BY ONLY <1>n, <2>2, <2>6, <4>1, <4>3
        <5>2. held'[k].key
          BY <2>2, <2>6, <4>1, <5>1
        <5>3. Asks(k - 1)'
          BY ONLY <5>1, <5>2 DEF Asks
        <5>4. waited' + 1 + (k - 1) <= MaxDelay + 2
          BY ONLY <1>n, <2>4, <2>6, <5>1
        <5>5. InHand' = 1
          BY <3>1 DEF InHand
        <5> QED
          BY ONLY <5>1, <5>3, <5>4, <5>5 DEF OpensSoon, IDRIsDue
      <4> QED
        BY <4>2, <4>3
    <3>2. CASE held' = all /\ UNCHANGED <<renderStage, renderUnit>>
      <4>1. k \in 0..Len(held') /\ k # Len(held')
        BY ONLY <1>n, <2>2, <2>6, <3>2
      <4>2. Asks(k)'
        BY ONLY <2>6, <3>2, <4>1 DEF Asks
      <4>3. InHand' = 0 /\ waited' = waited
        BY <2>4, <3>2 DEF InHand
      <4> QED
        BY ONLY <2>6, <4>1, <4>2, <4>3 DEF OpensSoon, IDRIsDue
    <3> QED
      BY <2>3, <3>1, <3>2
  <2>7. OpensSoon => OpensSoon'
    <3>1. CASE waited <= 1
      BY <2>4, <3>1 DEF OpensSoon
    <3>2. CASE IDRIsDue(MaxDelay + 2)
      <4>1. InHand = 0
        BY <2>4 DEF InHand
      <4> QED
        BY <2>5, <2>6, <3>2, <4>1 DEF IDRIsDue
    <3> QED
      BY <2>4, <3>1, <3>2 DEF OpensSoon
  <2>8. Awaited' => Awaited
    BY <2>4 DEF Awaited
  <2> QED
    BY <1>t, <2>4, <2>7, <2>8 DEF EpochInv
<1>8. CASE Offer
  <2>1. /\ UNCHANGED <<callback, rosConsumersActive, rosStopping, rosWaitingForIDR,
                      waited, held, forceKeyframe>>
        /\ renderStage = "output"
    BY <1>8 DEF Offer, callbackVars, publisherVars, queueVars
  <2>2. CASE rosConsumersActive
    <3>1. renderStage' = "offered" /\ UNCHANGED renderUnit
      BY <1>8, <2>2 DEF Offer
    <3>2. ASSUME NEW k PROVE Asks(k)' <=> Asks(k)
      BY <2>1 DEF Asks
    <3>3. InHand' = InHand
      BY <2>1, <3>1 DEF InHand
    <3>4. IDRIsDue(MaxDelay + 2)' <=> IDRIsDue(MaxDelay + 2)
      BY <2>1, <3>2, <3>3 DEF IDRIsDue
    <3>5. OpensSoon' <=> OpensSoon
      BY <2>1, <3>1, <3>4 DEF OpensSoon
    <3>6. (Awaited' => Awaited) /\ callback \notin {"force", "activate"}
      BY <1>s, <2>1, <2>2 DEF Awaited
    <3> QED
      BY <1>t, <2>1, <3>5, <3>6 DEF EpochInv
  <2>3. CASE ~rosConsumersActive
    <3>1. renderStage' = "idle"
      BY <1>8, <2>3 DEF Offer
    <3>2. ~Awaited'
      BY <2>1, <2>3, <3>1 DEF Awaited
    <3> QED
      BY <1>t, <2>1, <3>1, <3>2 DEF EpochInv
  <2> QED
    BY <2>2, <2>3
<1>9. CASE Enqueue
  <2>1. /\ renderStage = "offered" /\ renderStage' = "idle"
        /\ UNCHANGED <<callback, rosConsumersActive, rosStopping, held>>
    BY <1>9 DEF Enqueue, callbackVars
  <2>2. CASE Refused
    <3>1. rosStopping' /\ UNCHANGED <<waited, rosWaitingForIDR>>
      BY <2>1, <2>2 DEF Refused, queueVars
    <3> QED
      BY <1>t, <2>1, <3>1 DEF EpochInv, Awaited
  <2>3. CASE Overflows
    BY <1>z, <2>3 DEF Overflows, AdvanceEpoch, Queued
  <2>4. CASE AwaitsIDR
    <3>1. /\ ~rosStopping /\ rosWaitingForIDR /\ ~renderUnit.key
          /\ waited' = waited + 1 /\ forceKeyframe' = TRUE
          /\ UNCHANGED rosWaitingForIDR
      BY <2>4 DEF AwaitsIDR
    <3>2. OpensSoon
      BY <1>t, <2>1, <3>1 DEF EpochInv, Awaited
    <3>3. InHand = 1 /\ InHand' = 0
      BY <2>1 DEF InHand
    <3>4. ASSUME NEW k \in 0..Len(held), Asks(k) \/ k = Len(held),
                 waited + 1 + k <= MaxDelay + 2
          PROVE  OpensSoon' /\ waited' <= MaxDelay + 2
      <4>1. Asks(k)'
        BY <2>1, <3>1, <3>4 DEF Asks
      <4>2. k \in 0..Len(held') /\ waited' + 0 + k <= MaxDelay + 2 /\ waited' <= MaxDelay + 2
        BY ONLY <1>n, <2>1, <3>1, <3>4
      <4> QED
        BY ONLY <3>3, <4>1, <4>2 DEF OpensSoon, IDRIsDue
    <3>5. OpensSoon' /\ waited' <= MaxDelay + 2
      <4>1. CASE IDRIsDue(MaxDelay + 2)
        BY <3>3, <3>4, <4>1 DEF IDRIsDue
      <4>2. CASE waited <= 1
        <5>1. Len(held) \in 0..Len(held) /\ waited + 1 + Len(held) <= MaxDelay + 2
          BY ONLY <1>n, <4>2
        <5> QED
          BY ONLY <3>4, <5>1
      <4> QED
        BY <3>1, <3>2, <4>1, <4>2 DEF OpensSoon
    <3>6. callback' \in {"force", "activate"} => waited' = 1
      BY <1>t, <2>1, <3>1 DEF EpochInv
    <3> QED
      BY <2>1, <3>1, <3>5, <3>6 DEF EpochInv
  <2>5. CASE IsQueued
    BY <1>z, <2>5 DEF IsQueued, Queued
  <2> QED
    BY <1>9, <2>2, <2>3, <2>4, <2>5 DEF Enqueue
<1>10. CASE EncoderReset
  <2>1. /\ UNCHANGED <<callback, rosConsumersActive, rosStopping, renderStage>>
        /\ renderStage = "idle" /\ held' = <<>> /\ forceKeyframe' = TRUE
    BY <1>10 DEF EncoderReset, callbackVars
  <2>2. CASE AdvanceEpoch(0)
    BY <1>z, <2>2 DEF AdvanceEpoch
  <2>3. CASE UNCHANGED queueVars
    <3>1. UNCHANGED <<waited, rosWaitingForIDR>>
      BY <2>3 DEF queueVars
    <3>2. Len(held') = 0 /\ InHand' = 0
      BY <2>1, EmptySeq DEF InHand
    <3>3. Asks(0)'
      BY <2>1, <3>2 DEF Asks
    <3>4. 0 \in 0..Len(held') /\ waited' + 0 + 0 <= MaxDelay + 2
      BY <1>n, <1>t, <3>1, <3>2 DEF EpochInv
    <3>5. OpensSoon'
      BY ONLY <3>2, <3>3, <3>4 DEF OpensSoon, IDRIsDue
    <3> QED
      BY <1>t, <2>1, <3>1, <3>5 DEF EpochInv
  <2> QED
    BY <1>10, <2>2, <2>3 DEF EncoderReset
<1>11. CASE Take
  <2>1. UNCHANGED <<rosWaitingForIDR, waited, renderStage, renderUnit, held,
                    rosStopping, forceKeyframe, rosConsumersActive, callback>>
    BY <1>11 DEF Take, callbackVars, renderVars
  <2> QED
    BY <1>t, <1>k, <2>1 DEF TypeOK
<1>12. CASE CheckGeneration
  <2>1. UNCHANGED <<rosWaitingForIDR, waited, renderStage, renderUnit, held,
                    rosStopping, forceKeyframe, rosConsumersActive, callback>>
    BY <1>12 DEF CheckGeneration, callbackVars, publisherVars, queueVars, renderVars
  <2> QED
    BY <1>t, <1>k, <2>1 DEF TypeOK
<1>13. CASE Publish
  <2>1. UNCHANGED <<rosWaitingForIDR, waited, renderStage, renderUnit, held,
                    rosStopping, forceKeyframe, rosConsumersActive, callback>>
    BY <1>13 DEF Publish, callbackVars, publisherVars, queueVars, renderVars
  <2> QED
    BY <1>t, <1>k, <2>1 DEF TypeOK
<1>14. CASE StopPublishing
  <2>1. /\ UNCHANGED <<rosWaitingForIDR, waited>> /\ rosStopping'
    BY <1>14 DEF StopPublishing
  <2> QED
    BY <1>t, <2>1 DEF EpochInv, Awaited
<1>15. CASE StopCallbacks
  <2>1. /\ UNCHANGED <<rosWaitingForIDR, waited, renderStage, renderUnit, held,
                      rosStopping, forceKeyframe, callback>>
        /\ ~rosConsumersActive'
    BY <1>15 DEF StopCallbacks, publisherVars, queueVars, renderVars
  <2> QED
    BY <1>t, <1>k, <2>1 DEF TypeOK
<1>16. CASE StopJoin
  <2>1. UNCHANGED <<rosWaitingForIDR, waited, renderStage, renderUnit, held,
                    rosStopping, forceKeyframe, rosConsumersActive, callback>>
    BY <1>16 DEF StopJoin, callbackVars, publisherVars, queueVars, renderVars
  <2> QED
    BY <1>t, <1>k, <2>1 DEF TypeOK
<1>17. CASE UNCHANGED vars
  <2>1. UNCHANGED <<rosWaitingForIDR, waited, renderStage, renderUnit, held,
                    rosStopping, forceKeyframe, rosConsumersActive, callback>>
    BY <1>17 DEF vars, callbackVars, publisherVars, queueVars, renderVars
  <2> QED
    BY <1>t, <1>k, <2>1 DEF TypeOK
<1>18. CASE Loses
  <2>1. /\ UNCHANGED <<callback, rosConsumersActive, rosStopping, rosWaitingForIDR,
                      held, forceKeyframe>>
        /\ renderStage = "output" /\ renderStage' = "idle"
    BY <1>18 DEF Loses, callbackVars
  <2>2. CASE renderUnit.key
    BY <1>18, <1>z, <2>2 DEF Loses
  <2>3. CASE ~renderUnit.key
    <3>1. UNCHANGED waited
      BY <1>18, <2>3 DEF Loses
    <3>2. ASSUME NEW k PROVE Asks(k)' <=> Asks(k)
      BY <2>1 DEF Asks
    <3>3. InHand = 1 /\ InHand' = 0
      BY <2>1 DEF InHand
    <3>4. OpensSoon => OpensSoon'
      <4>1. ASSUME NEW k \in 0..Len(held), Asks(k), waited + 1 + k <= MaxDelay + 2
            PROVE  OpensSoon'
        <5>1. k \in 0..Len(held') /\ waited' + 0 + k <= MaxDelay + 2
          BY ONLY <1>n, <2>1, <3>1, <4>1
        <5> QED
          BY <3>2, <3>3, <4>1, <5>1 DEF OpensSoon, IDRIsDue
      <4> QED
        BY <2>3, <3>1, <3>3, <4>1 DEF OpensSoon, IDRIsDue
    <3>5. Awaited' => Awaited
      BY <2>1 DEF Awaited
    <3> QED
      BY <1>t, <2>1, <3>1, <3>4, <3>5 DEF EpochInv
  <2> QED
    BY <2>2, <2>3
<1> QED
  BY <1>1, <1>2, <1>3, <1>4, <1>5, <1>6, <1>7, <1>8, <1>9, <1>10, <1>11, <1>12,
     <1>13, <1>14, <1>15, <1>16, <1>17, <1>18 DEF Next, Callbacks, RenderThread,
     Worker, Stop

(***************************************************************************)
(* What a step makes of the queue.                                         *)
(***************************************************************************)
\* The access unit opens an epoch of its own, or joins the line.
Opens(f) ==
  /\ f \in Frame /\ Len(rosFrameQueue') = 1 /\ rosFrameQueue'[1] = f
  /\ f.epoch = streamEpoch + 1 /\ f.seq = 0 /\ f.key
  /\ f.dropped = rosDropped + Len(rosFrameQueue)
  /\ f.generation = rosGeneration + 1 /\ f.unit = units + 1
  /\ f.orphan <=> ~rosConsumersActive
  /\ streamEpoch' = streamEpoch + 1 /\ nextSequence' = 1 /\ ~rosWaitingForIDR'
  /\ rosDropped' = 0 /\ rosGeneration' = rosGeneration + 1 /\ rosStreamInfoPending'
Joins(f) ==
  /\ f \in Frame /\ Len(rosFrameQueue') = Len(rosFrameQueue) + 1
  /\ \A i \in 1..Len(rosFrameQueue) : rosFrameQueue'[i] = rosFrameQueue[i]
  /\ rosFrameQueue'[Len(rosFrameQueue) + 1] = f
  /\ f.epoch = streamEpoch /\ f.seq = nextSequence /\ (rosWaitingForIDR => f.key)
  /\ f.dropped = IF rosWaitingForIDR THEN rosDropped ELSE 0
  /\ f.generation = rosGeneration /\ f.unit = units + 1
  /\ f.orphan <=> ~rosConsumersActive
  /\ UNCHANGED <<streamEpoch, rosGeneration, rosStreamInfoPending>>
  /\ nextSequence' = nextSequence + 1 /\ ~rosWaitingForIDR'
  /\ rosDropped' = IF rosWaitingForIDR THEN 0 ELSE rosDropped
\* An epoch begins, its queue empty, with `also` one more frame dropped.
Begins(also) ==
  /\ Len(rosFrameQueue') = 0 /\ streamEpoch' = streamEpoch + 1 /\ nextSequence' = 0
  /\ rosWaitingForIDR' /\ rosGeneration' = rosGeneration + 1 /\ rosStreamInfoPending'
  /\ rosDropped' = rosDropped + Len(rosFrameQueue) + also
\* The access unit is turned away.
TurnedAway ==
  /\ UNCHANGED <<rosFrameQueue, streamEpoch, nextSequence, rosWaitingForIDR,
                 rosGeneration, rosStreamInfoPending>>
  /\ rosWaitingForIDR /\ rosDropped' = rosDropped + 1

LEMMA BeginsEpoch ==
  ASSUME NEW also, AdvanceEpoch(also) PROVE Begins(also)
  BY EmptyQueue DEF AdvanceEpoch, Begins

LEMMA EnqueueEffect ==
  ASSUME Inv, Enqueue
  PROVE  /\ units' = units + 1
         /\ UNCHANGED <<callback, rosConsumersActive, rosStopping, workerStage,
                        workerItem, lastPublished, announced>>
         /\ \/ /\ rosStopping
               /\ UNCHANGED <<rosFrameQueue, streamEpoch, nextSequence, rosDropped,
                              rosWaitingForIDR, rosGeneration, rosStreamInfoPending>>
            \/ \E f \in Frame : Opens(f)
            \/ Begins(1)
            \/ TurnedAway
            \/ ~rosStopping /\ \E f \in Frame : Joins(f)
<1>1. /\ units' = units + 1 /\ renderStage = "offered"
      /\ UNCHANGED <<callback, rosConsumersActive, rosStopping, workerStage,
                     workerItem, lastPublished, announced>>
  BY DEF Enqueue, callbackVars, workerVars
<1>2. TypeOK /\ HandInv /\ renderStage # "idle"
  BY <1>1 DEF Inv
<1>n. /\ streamEpoch \in Nat /\ streamEpoch + 1 \in Nat /\ nextSequence \in Nat
      /\ rosGeneration \in Nat /\ rosGeneration + 1 \in Nat /\ rosDropped \in Nat
      /\ rosDropped + Len(rosFrameQueue) \in Nat /\ rosFrameQueue \in Seq(Frame)
      /\ rosWaitingForIDR \in BOOLEAN /\ 0 \in Nat /\ TRUE \in BOOLEAN
  BY <1>2, LenProperties DEF TypeOK
<1>3. CASE Refused
  BY <1>1, <1>3 DEF Refused, queueVars
<1>4. CASE Overflows
  <2>1. CASE renderUnit.key
    <3> DEFINE f == NewFrame(streamEpoch + 1, 0, TRUE,
                      rosDropped + Len(rosFrameQueue), rosGeneration + 1)
    <3>1. f \in Frame
      BY ONLY <1>2, <1>n, NewFrameType
    <3>2. /\ rosFrameQueue' = Append(<<>>, f)
          /\ streamEpoch' = streamEpoch + 1 /\ nextSequence' = 0 + 1
          /\ rosWaitingForIDR' = FALSE /\ rosDropped' = 0
          /\ rosGeneration' = rosGeneration + 1 /\ rosStreamInfoPending' = TRUE
      BY <1>4, <2>1 DEF Overflows, Queued, NewFrame
    <3>3. /\ f.epoch = streamEpoch + 1 /\ f.seq = 0 /\ f.key
          /\ f.dropped = rosDropped + Len(rosFrameQueue)
          /\ f.generation = rosGeneration + 1 /\ f.unit = units + 1
          /\ f.orphan <=> ~rosConsumersActive
      BY <2>1 DEF NewFrame
    <3> HIDE DEF f
    <3>4. Len(rosFrameQueue') = 0 + 1 /\ rosFrameQueue'[0 + 1] = f
      BY ONLY <3>1, <3>2, EmptyQueue, Appended
    <3>5. Opens(f)
      BY <3>1, <3>2, <3>3, <3>4 DEF Opens
    <3> QED
      BY <1>1, <3>1, <3>5
  <2>2. CASE ~renderUnit.key
    BY <1>1, <1>4, <2>2, BeginsEpoch DEF Overflows
  <2> QED
    BY <2>1, <2>2
<1>5. CASE AwaitsIDR
  BY <1>1, <1>5 DEF AwaitsIDR, TurnedAway
<1>6. CASE IsQueued
  <2> DEFINE f == NewFrame(streamEpoch, nextSequence, rosWaitingForIDR, rosDropped,
                    rosGeneration)
  <2>1. f \in Frame
    BY ONLY <1>2, <1>n, NewFrameType
  <2>2. /\ rosFrameQueue' = Append(rosFrameQueue, f)
        /\ nextSequence' = nextSequence + 1 /\ rosWaitingForIDR' = FALSE
        /\ rosDropped' = IF rosWaitingForIDR THEN 0 ELSE rosDropped
        /\ streamEpoch' = streamEpoch /\ rosGeneration' = rosGeneration
        /\ UNCHANGED rosStreamInfoPending /\ (rosWaitingForIDR => renderUnit.key)
        /\ ~rosStopping
    BY <1>6 DEF IsQueued, Queued, NewFrame
  <2>3. /\ f.epoch = streamEpoch /\ f.seq = nextSequence /\ f.key = renderUnit.key
        /\ f.dropped = IF rosWaitingForIDR THEN rosDropped ELSE 0
        /\ f.generation = rosGeneration /\ f.unit = units + 1
        /\ f.orphan <=> ~rosConsumersActive
    BY DEF NewFrame
  <2> HIDE DEF f
  <2>4. /\ Len(rosFrameQueue') = Len(rosFrameQueue) + 1
        /\ \A i \in 1..Len(rosFrameQueue) : rosFrameQueue'[i] = rosFrameQueue[i]
        /\ rosFrameQueue'[Len(rosFrameQueue) + 1] = f
    BY ONLY <1>n, <2>1, <2>2, Appended
  <2>5. Joins(f)
    BY <2>1, <2>2, <2>3, <2>4 DEF Joins
  <2> QED
    BY <1>1, <2>1, <2>2, <2>5
<1> QED
  BY <1>3, <1>4, <1>5, <1>6 DEF Enqueue

\* A reset of the encoder begins an epoch, or leaves the one that is pending.
LEMMA ResetEffect ==
  ASSUME EncoderReset
  PROVE  /\ UNCHANGED <<callback, rosConsumersActive, rosStopping, units, workerStage,
                        workerItem, lastPublished, announced>>
         /\ \/ ~rosStopping /\ Begins(0) /\ rosFrameQueue' = <<>>
            \/ /\ UNCHANGED <<rosFrameQueue, streamEpoch, nextSequence, rosDropped,
                              rosWaitingForIDR, rosGeneration>>
               /\ rosStreamInfoPending => rosStreamInfoPending'
<1>1. UNCHANGED <<callback, rosConsumersActive, rosStopping, units, workerStage,
                  workerItem, lastPublished, announced>>
  BY DEF EncoderReset, callbackVars, workerVars
<1>2. \/ ~rosStopping /\ AdvanceEpoch(0)
      \/ /\ rosStreamInfoPending' \in {rosStreamInfoPending, TRUE}
         /\ UNCHANGED queueVars
  BY DEF EncoderReset
<1>3. CASE ~rosStopping /\ AdvanceEpoch(0)
  BY <1>1, <1>3, BeginsEpoch DEF AdvanceEpoch
<1>4. CASE /\ rosStreamInfoPending' \in {rosStreamInfoPending, TRUE}
           /\ UNCHANGED queueVars
  <2>1. \/ rosStreamInfoPending' = rosStreamInfoPending
        \/ rosStreamInfoPending' = TRUE
    BY ONLY <1>4
  <2>2. rosStreamInfoPending => rosStreamInfoPending'
    BY ONLY <2>1, Zenon
  <2> QED
    BY <1>1, <1>4, <2>2 DEF queueVars
<1> QED
  BY <1>2, <1>3, <1>4

\* The worker takes the head of the line.
Takes ==
  /\ Len(rosFrameQueue') = Len(rosFrameQueue) - 1 /\ Len(rosFrameQueue) >= 1
  /\ workerStage' = "frame" /\ workerItem' = rosFrameQueue[1]
  /\ rosFrameQueue[1] \in Frame /\ ~rosStreamInfoPending
  /\ \A i \in 1..Len(rosFrameQueue') : rosFrameQueue'[i] = rosFrameQueue[i + 1]
  /\ UNCHANGED rosStreamInfoPending

LEMMA TakeEffect ==
  ASSUME TypeOK, Take
  PROVE  /\ workerStage = "idle" /\ ~rosStopping
         /\ UNCHANGED <<callback, rosConsumersActive, streamEpoch, nextSequence,
                        rosWaitingForIDR, rosDropped, rosGeneration, rosStopping,
                        lastPublished, announced, units>>
         /\ \/ UNCHANGED <<rosFrameQueue, rosStreamInfoPending, workerStage,
                           workerItem>>
            \/ /\ UNCHANGED rosFrameQueue
               /\ workerStage' = "info" /\ workerItem'.epoch = streamEpoch
               /\ workerItem'.generation = rosGeneration
            \/ Takes
<1>1. rosFrameQueue \in Seq(Frame)
  BY DEF TypeOK
<1> QED
  BY <1>1, Taken DEF Take, Takes, callbackVars, renderVars

\* The numbers a frame in line, a taken item and a published frame carry.
IsNumbered(f) ==
  /\ f.epoch \in Nat /\ f.seq \in Nat /\ f.dropped \in Nat /\ f.generation \in Nat
  /\ f.unit \in Nat /\ f.key \in BOOLEAN /\ f.orphan \in BOOLEAN
Numbered ==
  /\ streamEpoch \in Nat /\ nextSequence \in Nat /\ rosGeneration \in Nat
  /\ rosDropped \in Nat /\ units \in Nat /\ Len(rosFrameQueue) \in Nat
  /\ \A i \in 1..Len(rosFrameQueue) : IsNumbered(rosFrameQueue[i])
  /\ workerStage \in {"frame", "publish"} => IsNumbered(workerItem) /\ workerItem # None
  /\ workerStage \in {"info", "announce"} =>
       workerItem.epoch \in Nat /\ workerItem.generation \in Nat
  /\ lastPublished # None => IsNumbered(lastPublished)

LEMMA FrameNumbers == \A f \in Frame : IsNumbered(f) /\ f # None
  BY NoneIsNothing DEF IsNumbered, Frame

LEMMA AllNumbered == TypeOK /\ HandInv => Numbered
<1> SUFFICES ASSUME TypeOK, HandInv PROVE Numbered
  OBVIOUS
<1>1. rosFrameQueue \in Seq(Frame)
  BY DEF TypeOK
<1>2. /\ Len(rosFrameQueue) \in Nat
      /\ \A i \in 1..Len(rosFrameQueue) : rosFrameQueue[i] \in Frame
  BY <1>1, LenProperties, ElementOfSeq
<1>3. workerStage \in {"info", "announce"} =>
        workerItem.epoch \in Nat /\ workerItem.generation \in Nat
  BY DEF HandInv, StreamInfo
<1>4. lastPublished \in Frame \cup {None}
  BY DEF TypeOK
<1>5. /\ streamEpoch \in Nat /\ nextSequence \in Nat /\ rosGeneration \in Nat
      /\ rosDropped \in Nat /\ units \in Nat
  BY DEF TypeOK
<1>6. workerStage \in {"frame", "publish"} => workerItem \in Frame
  BY DEF HandInv
<1> QED
  BY <1>2, <1>3, <1>4, <1>5, <1>6, FrameNumbers DEF Numbered

\* The line is of one epoch and numbered without a gap.
LEMMA QueueStep == Inv /\ [Next]_vars => QueueInv'
<1> SUFFICES ASSUME Inv, [Next]_vars PROVE QueueInv'
  OBVIOUS
<1>t. TypeOK
  BY DEF Inv
<1> USE DEF Inv
<1>n. Numbered
  BY AllNumbered DEF Inv
<1>1. CASE Connect
  BY <1>1 DEF QueueInv, Current, Connect, publisherVars, queueVars, renderVars,
     workerVars
<1>2. CASE ConnectEpoch
  <2>1. UNCHANGED <<workerStage, workerItem>>
    BY <1>2 DEF ConnectEpoch, consumerVars, renderVars, workerVars
  <2>2. CASE rosStopping
    <3>1. UNCHANGED <<queueVars, rosStreamInfoPending>>
      BY <1>2, <2>2 DEF ConnectEpoch
    <3> QED
      BY <1>2, <2>1, <2>2, <3>1 DEF queueVars, QueueInv, Current
  <2>3. CASE ~rosStopping
    <3>1. Begins(0)
      BY <1>2, <2>3, BeginsEpoch DEF ConnectEpoch
    <3> QED
      BY <1>n, <2>1, <3>1 DEF QueueInv, Current, Begins, Numbered, IsNumbered
  <2> QED
    BY <2>2, <2>3
<1>3. CASE ConnectForce
  BY <1>3 DEF QueueInv, Current, ConnectForce, consumerVars, publisherVars,
     queueVars, renderVars, workerVars
<1>4. CASE ConnectActivate
  BY <1>4 DEF QueueInv, Current, ConnectActivate, consumerVars, publisherVars,
     queueVars, renderVars, workerVars
<1>5. CASE Disconnect
  BY <1>5 DEF QueueInv, Current, Disconnect, publisherVars, queueVars, renderVars,
     workerVars
<1>6. CASE DisconnectWithdraw
  <2>1. UNCHANGED <<nextSequence, streamEpoch, rosWaitingForIDR, workerStage, workerItem>>
    BY <1>6 DEF DisconnectWithdraw, queueVars, workerVars
  <2>2. \/ UNCHANGED <<rosFrameQueue, rosGeneration>>
        \/ Len(rosFrameQueue') = 0 /\ rosGeneration' = rosGeneration + 1
    BY <1>6, EmptyQueue DEF DisconnectWithdraw, queueVars
  <2> QED
    BY <1>n, <2>1, <2>2 DEF QueueInv, Current, Numbered, IsNumbered
<1>7. CASE Encode
  BY <1>7 DEF QueueInv, Current, Encode, callbackVars, consumerVars, publisherVars,
     queueVars, workerVars
<1>8. CASE Offer
  BY <1>8 DEF QueueInv, Current, Offer, callbackVars, consumerVars, publisherVars,
     queueVars, workerVars
<1>9. CASE Enqueue
  <2>1. UNCHANGED <<workerStage, workerItem>>
    BY <1>9, EnqueueEffect
  <2>2. CASE UNCHANGED <<rosFrameQueue, streamEpoch, nextSequence, rosWaitingForIDR,
                         rosGeneration>>
    BY <2>1, <2>2 DEF QueueInv, Current
  <2>3. CASE \E f \in Frame : Opens(f)
    BY <1>n, <2>1, <2>3 DEF QueueInv, Current, Opens, Numbered, IsNumbered
  <2>4. CASE Begins(1)
    BY <1>n, <2>1, <2>4 DEF QueueInv, Current, Begins, Numbered, IsNumbered
  <2>5. CASE \E f \in Frame : Joins(f)
    <3>1. PICK f \in Frame : Joins(f)
      BY <2>5
    <3>2. \A i \in 1..Len(rosFrameQueue') :
            i \in 1..Len(rosFrameQueue) \/ i = Len(rosFrameQueue) + 1
      BY <1>n, <3>1 DEF Joins, Numbered
    <3>3. /\ Len(rosFrameQueue) \in Nat /\ nextSequence \in Nat
          /\ Len(rosFrameQueue') = Len(rosFrameQueue) + 1
          /\ nextSequence' = nextSequence + 1
      BY <1>n, <3>1 DEF Joins, Numbered
    <3>4. ASSUME NEW i \in 1..Len(rosFrameQueue)
          PROVE  /\ rosFrameQueue'[i].generation = rosGeneration'
                 /\ rosFrameQueue'[i].epoch = streamEpoch'
                 /\ rosFrameQueue'[i].seq = nextSequence' - Len(rosFrameQueue') + (i - 1)
                 /\ rosFrameQueue'[i].seq = 0 => rosFrameQueue'[i].key
      <4>1. /\ rosFrameQueue[i].generation = rosGeneration
            /\ rosFrameQueue[i].epoch = streamEpoch
            /\ rosFrameQueue[i].seq = nextSequence - Len(rosFrameQueue) + (i - 1)
            /\ rosFrameQueue[i].seq = 0 => rosFrameQueue[i].key
        BY DEF QueueInv
      <4>2. /\ rosFrameQueue'[i] = rosFrameQueue[i]
            /\ UNCHANGED <<streamEpoch, rosGeneration>>
        BY <3>1 DEF Joins
      <4>3. nextSequence - Len(rosFrameQueue) = nextSequence' - Len(rosFrameQueue')
        BY <3>3
      <4> QED
        BY ONLY <4>1, <4>2, <4>3
    <3>5. /\ f.generation = rosGeneration' /\ f.epoch = streamEpoch'
          /\ f.seq = nextSequence' - Len(rosFrameQueue')
                       + ((Len(rosFrameQueue) + 1) - 1)
          /\ f.seq = 0 => f.key
      BY <3>1, <3>3 DEF QueueInv, Joins
    <3>6. \A i \in 1..Len(rosFrameQueue') :
            /\ rosFrameQueue'[i].generation = rosGeneration'
            /\ rosFrameQueue'[i].epoch = streamEpoch'
            /\ rosFrameQueue'[i].seq = nextSequence' - Len(rosFrameQueue') + (i - 1)
            /\ rosFrameQueue'[i].seq = 0 => rosFrameQueue'[i].key
      BY <3>1, <3>2, <3>4, <3>5 DEF Joins
    <3> QED
      BY <2>1, <3>1, <3>3, <3>6 DEF QueueInv, Current, Joins
  <2> QED
    BY <1>9, EnqueueEffect, <2>2, <2>3, <2>4, <2>5 DEF TurnedAway
<1>10. CASE EncoderReset
  <2>1. UNCHANGED <<workerStage, workerItem>>
    BY <1>10, ResetEffect
  <2>2. CASE UNCHANGED <<rosFrameQueue, streamEpoch, nextSequence, rosWaitingForIDR,
                         rosGeneration>>
    BY <2>1, <2>2 DEF QueueInv, Current
  <2>3. CASE Begins(0)
    BY <1>n, <2>1, <2>3 DEF QueueInv, Current, Begins, Numbered, IsNumbered
  <2> QED
    BY <1>10, <2>2, <2>3, ResetEffect
<1>11. CASE Take
  <2>1. /\ workerStage = "idle"
        /\ UNCHANGED <<streamEpoch, nextSequence, rosWaitingForIDR, rosGeneration>>
    BY <1>t, <1>11, TakeEffect
  <2>2. CASE UNCHANGED <<rosFrameQueue, workerStage, workerItem>>
    BY <2>1, <2>2 DEF QueueInv, Current
  <2>3. CASE /\ UNCHANGED rosFrameQueue
             /\ workerStage' = "info" /\ workerItem'.epoch = streamEpoch
             /\ workerItem'.generation = rosGeneration
    BY <1>n, <2>1, <2>3 DEF QueueInv, Current, Numbered
  <2>4. CASE Takes
    <3>1. /\ Len(rosFrameQueue) \in Nat /\ Len(rosFrameQueue) >= 1
          /\ Len(rosFrameQueue') = Len(rosFrameQueue) - 1
      BY <1>n, <2>4 DEF Takes, Numbered
    <3>2. \A i \in 1..Len(rosFrameQueue') :
            i + 1 \in 1..Len(rosFrameQueue) /\ rosFrameQueue'[i] = rosFrameQueue[i + 1]
      BY <2>4, <3>1 DEF Takes
    <3>3. \A i \in 1..Len(rosFrameQueue') :
            /\ rosFrameQueue'[i].generation = rosGeneration'
            /\ rosFrameQueue'[i].epoch = streamEpoch'
            /\ rosFrameQueue'[i].seq = nextSequence' - Len(rosFrameQueue') + (i - 1)
            /\ rosFrameQueue'[i].seq = 0 => rosFrameQueue'[i].key
      BY <1>n, <2>1, <3>1, <3>2 DEF QueueInv, Numbered
    <3>4. workerStage' = "frame" /\ workerItem' = rosFrameQueue[1]
      BY <2>4 DEF Takes
    <3>5. /\ rosFrameQueue[1].generation = rosGeneration
          /\ rosFrameQueue[1].epoch = streamEpoch
          /\ rosFrameQueue[1].seq = nextSequence - Len(rosFrameQueue)
          /\ rosFrameQueue[1].seq = 0 => rosFrameQueue[1].key
      BY <1>n, <3>1 DEF QueueInv, Numbered
    <3> QED
      BY <1>n, <2>1, <3>1, <3>3, <3>4, <3>5 DEF QueueInv, Current, Numbered
  <2> QED
    BY ONLY <1>t, <1>11, <2>2, <2>3, <2>4, TakeEffect
<1>12. CASE CheckGeneration
  BY <1>12 DEF QueueInv, Current, CheckGeneration, callbackVars, consumerVars,
     publisherVars, queueVars, renderVars
<1>13. CASE Publish
  BY <1>13 DEF QueueInv, Current, Publish, callbackVars, consumerVars, publisherVars,
     queueVars, renderVars
<1>14. CASE StopPublishing
  <2>1. UNCHANGED <<nextSequence, streamEpoch, rosWaitingForIDR, workerStage, workerItem>>
    BY <1>14 DEF StopPublishing, workerVars
  <2>2. Len(rosFrameQueue') = 0 /\ rosGeneration' = rosGeneration + 1
    BY <1>14, EmptyQueue DEF StopPublishing
  <2> QED
    BY <1>n, <2>1, <2>2 DEF QueueInv, Current, Numbered, IsNumbered
<1>15. CASE StopCallbacks
  BY <1>15 DEF QueueInv, Current, StopCallbacks, publisherVars, queueVars,
     renderVars, workerVars
<1>16. CASE StopJoin
  BY <1>16 DEF QueueInv, Current, StopJoin, callbackVars, consumerVars,
     publisherVars, queueVars, renderVars, workerVars
<1>17. CASE UNCHANGED vars
  BY <1>17 DEF QueueInv, Current, vars, callbackVars, consumerVars, publisherVars,
     queueVars, renderVars, workerVars
<1>18. CASE Loses
  BY <1>18 DEF QueueInv, Current, Loses, workerVars
<1> QED
  BY <1>1, <1>2, <1>3, <1>4, <1>5, <1>6, <1>7, <1>8, <1>9, <1>10, <1>11, <1>12,
     <1>13, <1>14, <1>15, <1>16, <1>17, <1>18 DEF Next, Callbacks, RenderThread, Worker,
     Stop


\* A new epoch joins on to whatever was published: its first frame is number 0.
LEMMA BeginsLine ==
  ASSUME Inv, NEW also, Begins(also), UNCHANGED <<workerStage, workerItem, lastPublished>>
  PROVE  LineInv'
<1>n. Numbered
  BY AllNumbered DEF Inv
<1>1. Len(rosFrameQueue') = 0 /\ nextSequence' = 0 /\ ~Current'
  BY <1>n DEF Begins, Numbered, Current, QueueInv, Inv
<1>2. First' = 0 /\ ~ServedFrames'
  <2>1. First' = nextSequence' - Len(rosFrameQueue') - 0
    BY <1>1 DEF First
  <2> QED
    BY <1>1, <2>1 DEF ServedFrames
<1>3. streamEpoch' = streamEpoch + 1 /\ streamEpoch \in Nat /\ Before' = Before
  BY <1>n DEF Begins, Numbered, Before
<1>4. Before # None => Before.epoch \in Nat
  BY <1>n DEF Before, Numbered, IsNumbered
<1> QED
  BY <1>2, <1>3, <1>4 DEF LineInv, Joined, Inv

\* Nobody is served from a withdrawn line, so it need not join on.
LEMMA WithdrawnLine ==
  ASSUME Inv, Len(rosFrameQueue') = 0, rosGeneration' = rosGeneration + 1, ~Serving',
         UNCHANGED <<streamEpoch, nextSequence, workerStage, workerItem, lastPublished>>
  PROVE  LineInv'
<1>n. Numbered
  BY AllNumbered DEF Inv
<1>1. ~Current'
  BY <1>n DEF Numbered, Current, QueueInv, Inv
<1>2. ~ServedFrames' /\ Before' = Before
  BY <1>1 DEF ServedFrames, Before
<1>3. First' = nextSequence /\ First <= nextSequence /\ First \in Int
  BY <1>1, <1>n DEF First, Numbered
<1>4. Before # None => Before.seq \in Nat
  BY <1>n DEF Before, Numbered, IsNumbered
<1> QED
  BY <1>2, <1>3, <1>4, <1>n DEF LineInv, Inv, Numbered

\* An access unit that joins the line while the branch runs is served to whom
\* the branch serves, or is an orphan.
LEMMA JoinsServed ==
  ASSUME Numbered, ~rosStopping, NEW f \in Frame, Joins(f), Current' <=> Current,
         UNCHANGED workerItem
  PROVE  ServedFrames' => ServedFrames \/ Serving
<1>1. ASSUME NEW i \in 1..Len(rosFrameQueue'), ~rosFrameQueue'[i].orphan
      PROVE  ServedFrames \/ Serving
  <2>1. i \in 1..Len(rosFrameQueue) \/ i = Len(rosFrameQueue) + 1
    BY DEF Joins, Numbered
  <2> QED
    BY <1>1, <2>1 DEF Joins, ServedFrames, Serving
<1>2. Current' /\ ~workerItem'.orphan => ServedFrames
  BY DEF ServedFrames
<1> QED
  BY <1>1, <1>2 DEF ServedFrames

\* What the worker takes stays in line.
LEMMA TakesServed ==
  ASSUME Takes, Len(rosFrameQueue) \in Nat
  PROVE  ServedFrames' => ServedFrames
<1>1. Len(rosFrameQueue) >= 1 /\ Len(rosFrameQueue') = Len(rosFrameQueue) - 1
  BY DEF Takes
<1>2. ASSUME NEW i \in 1..Len(rosFrameQueue'), ~rosFrameQueue'[i].orphan
      PROVE  ServedFrames
  <2>1. i + 1 \in 1..Len(rosFrameQueue)
    BY <1>1
  <2> QED
    BY <1>2, <2>1 DEF Takes, ServedFrames
<1>3. ~workerItem'.orphan => ServedFrames
  BY <1>1 DEF Takes, ServedFrames
<1> QED
  BY <1>2, <1>3 DEF ServedFrames

\* Whatever is served joins on to what was published.
LEMMA LineStep == Inv /\ [Next]_vars => LineInv'
<1> SUFFICES ASSUME Inv, [Next]_vars PROVE LineInv'
  OBVIOUS
<1>t. TypeOK
  BY DEF Inv
<1> USE DEF Inv
<1>n. Numbered
  BY AllNumbered DEF Inv
<1>1. CASE Connect
  <2>1. UNCHANGED <<rosFrameQueue, streamEpoch, nextSequence, rosGeneration, rosStopping,
                   workerStage, workerItem, lastPublished>>
    BY <1>1 DEF Connect, publisherVars, queueVars, renderVars, workerVars
  <2>2. Serving' => Serving
    BY <1>1 DEF Serving, Connect, publisherVars, StopInv
  <2> QED
    BY <2>1, <2>2 DEF LineInv, Current, First, Before, ServedFrames, Joined
<1>2. CASE ConnectEpoch
  <2>1. UNCHANGED <<workerStage, workerItem, lastPublished>>
    BY <1>2 DEF ConnectEpoch, consumerVars, renderVars, workerVars
  <2>2. CASE rosStopping
    <3>1. UNCHANGED <<queueVars, rosStreamInfoPending>>
      BY <1>2, <2>2 DEF ConnectEpoch
    <3>2. ~Serving /\ ~Serving'
      BY <1>2, <2>2 DEF ConnectEpoch, Serving
    <3> QED
      BY <2>1, <3>1, <3>2 DEF queueVars, LineInv, Current, First, Before,
         ServedFrames, Joined
  <2>3. CASE ~rosStopping
    <3>1. Begins(0)
      BY <1>2, <2>3, BeginsEpoch DEF ConnectEpoch
    <3> QED
      BY ONLY Inv, <2>1, <3>1, BeginsLine
  <2> QED
    BY <2>2, <2>3
<1>3. CASE ConnectForce
  <2>1. UNCHANGED <<rosFrameQueue, streamEpoch, nextSequence, rosGeneration, rosStopping,
                   workerStage, workerItem, lastPublished>>
    BY <1>3 DEF ConnectForce, consumerVars, publisherVars, queueVars, renderVars,
       workerVars
  <2>2. Serving' => Serving
    BY <1>3 DEF Serving, ConnectForce, publisherVars, StopInv
  <2> QED
    BY <2>1, <2>2 DEF LineInv, Current, First, Before, ServedFrames, Joined
<1>4. CASE ConnectActivate
  <2>1. UNCHANGED <<rosFrameQueue, streamEpoch, nextSequence, rosGeneration, rosStopping,
                   workerStage, workerItem, lastPublished>>
    BY <1>4 DEF ConnectActivate, consumerVars, publisherVars, queueVars, renderVars,
       workerVars
  <2>2. Serving' => Serving
    BY <1>4 DEF Serving, ConnectActivate, publisherVars, StopInv
  <2> QED
    BY <2>1, <2>2 DEF LineInv, Current, First, Before, ServedFrames, Joined
<1>5. CASE Disconnect
  <2>1. UNCHANGED <<rosFrameQueue, streamEpoch, nextSequence, rosGeneration, rosStopping,
                   workerStage, workerItem, lastPublished>>
    BY <1>5 DEF Disconnect, publisherVars, queueVars, renderVars, workerVars
  <2>2. Serving' => Serving
    BY <1>5 DEF Serving, Disconnect, publisherVars, StopInv
  <2> QED
    BY <2>1, <2>2 DEF LineInv, Current, First, Before, ServedFrames, Joined
<1>6. CASE DisconnectWithdraw
  <2>1. /\ UNCHANGED <<nextSequence, streamEpoch, workerStage, workerItem, lastPublished>>
        /\ ~Serving'
    BY <1>6 DEF DisconnectWithdraw, queueVars, workerVars, Serving, StopInv
  <2>2. CASE UNCHANGED <<rosFrameQueue, rosGeneration>>
    BY <2>1, <2>2 DEF LineInv, Current, First, Before, ServedFrames, Joined
  <2>3. CASE Len(rosFrameQueue') = 0 /\ rosGeneration' = rosGeneration + 1
    BY ONLY Inv, <2>1, <2>3, WithdrawnLine
  <2> QED
    BY <1>6, <2>2, <2>3, EmptyQueue DEF DisconnectWithdraw, queueVars
<1>7. CASE Encode
  BY <1>7 DEF LineInv, Current, First, Before, Serving, ServedFrames, Joined,
     Encode, callbackVars, consumerVars, publisherVars, queueVars, workerVars
<1>8. CASE Offer
  BY <1>8 DEF LineInv, Current, First, Before, Serving, ServedFrames, Joined, Offer,
     callbackVars, consumerVars, publisherVars, queueVars, workerVars
<1>9. CASE Enqueue
  <2>1. /\ UNCHANGED <<workerStage, workerItem, lastPublished>> /\ (Serving' <=> Serving)
        /\ Before' = Before
    BY <1>9, EnqueueEffect DEF Serving, Before
  <2>2. CASE UNCHANGED <<rosFrameQueue, streamEpoch, nextSequence, rosGeneration>>
    BY <2>1, <2>2 DEF LineInv, Current, First, ServedFrames, Joined
  <2>3. CASE \E f \in Frame : Opens(f)
    <3>1. Len(rosFrameQueue') = 1 /\ nextSequence' = 1 /\ ~Current'
      BY <1>n, <2>1, <2>3 DEF Opens, Current, QueueInv, Numbered
    <3>2. First' = 0
      <4>1. First' = nextSequence' - Len(rosFrameQueue') - 0
        BY <3>1 DEF First
      <4> QED
        BY <3>1, <4>1
    <3>3. streamEpoch' = streamEpoch + 1 /\ streamEpoch \in Nat
      BY <1>n, <2>3 DEF Opens, Numbered
    <3>4. Before # None => Before.epoch \in Nat
      BY <1>n DEF Before, Numbered, IsNumbered
    <3> QED
      BY <2>1, <3>2, <3>3, <3>4 DEF LineInv, Joined
  <2>4. CASE Begins(1)
    BY ONLY Inv, <2>1, <2>4, BeginsLine
  <2>5. CASE (\E f \in Frame : Joins(f)) /\ ~rosStopping
    <3>1. PICK f \in Frame : Joins(f)
      BY <2>5
    <3>2. Current' <=> Current
      BY <2>1, <3>1 DEF Joins, Current
    <3>3. First' = First
      BY <1>n, <3>1, <3>2 DEF Joins, First, Numbered
    <3>4. ServedFrames' => ServedFrames \/ Serving
      BY ONLY <1>n, <2>1, <2>5, <3>1, <3>2, JoinsServed
    <3> QED
      BY <2>1, <3>1, <3>3, <3>4 DEF LineInv, Joined, Joins
  <2> QED
    <3>1. \/ \E f \in Frame : Opens(f)
          \/ Begins(1)
          \/ UNCHANGED <<rosFrameQueue, streamEpoch, nextSequence, rosGeneration>>
          \/ (\E f \in Frame : Joins(f)) /\ ~rosStopping
      BY <1>9, EnqueueEffect DEF TurnedAway
    <3> QED
      BY <3>1, <2>2, <2>3, <2>4, <2>5
<1>10. CASE EncoderReset
  <2>1. /\ UNCHANGED <<workerStage, workerItem, lastPublished>> /\ (Serving' <=> Serving)
    BY <1>10, ResetEffect DEF Serving
  <2>2. CASE UNCHANGED <<rosFrameQueue, streamEpoch, nextSequence, rosGeneration>>
    BY <2>1, <2>2 DEF LineInv, Current, First, Before, ServedFrames, Joined
  <2>3. CASE Begins(0)
    BY ONLY Inv, <2>1, <2>3, BeginsLine
  <2> QED
    BY <1>10, <2>2, <2>3, ResetEffect
<1>11. CASE Take
  <2>1. /\ workerStage = "idle" /\ (Serving' <=> Serving)
        /\ UNCHANGED <<streamEpoch, nextSequence, rosGeneration, lastPublished>>
    BY <1>t, <1>11, TakeEffect DEF Serving
  <2>2. CASE UNCHANGED <<rosFrameQueue, workerStage, workerItem>>
    BY <2>1, <2>2 DEF LineInv, Current, First, Before, ServedFrames, Joined
  <2>3. CASE UNCHANGED rosFrameQueue /\ workerStage' = "info"
    BY <2>1, <2>3 DEF LineInv, Current, First, Before, ServedFrames, Joined
  <2>4. CASE Takes
    <3>1. /\ Len(rosFrameQueue) \in Nat /\ Len(rosFrameQueue) >= 1
          /\ Len(rosFrameQueue') = Len(rosFrameQueue) - 1
          /\ workerStage' = "frame" /\ workerItem' = rosFrameQueue[1]
      BY <1>n, <2>4 DEF Takes, Numbered
    <3>2. Current' /\ ~Current
      BY <2>1, <3>1 DEF Current, QueueInv
    <3>3. First' = First /\ Before' = Before
      BY <1>n, <2>1, <3>1, <3>2 DEF First, Before, Numbered
    <3>4. ServedFrames' => ServedFrames
      BY ONLY <3>1, <2>4, TakesServed
    <3> QED
      BY <2>1, <3>1, <3>3, <3>4 DEF LineInv, Joined
  <2> QED
    BY ONLY <1>t, <1>11, <2>2, <2>3, <2>4, TakeEffect
<1>12. CASE CheckGeneration
  <2>1. /\ UNCHANGED <<rosFrameQueue, streamEpoch, nextSequence, rosGeneration, rosStopping,
                       lastPublished, callback, rosConsumersActive>>
        /\ Before = lastPublished
    BY <1>12 DEF CheckGeneration, publisherVars, queueVars, callbackVars, Before
  <2>2. CASE workerStage = "frame" /\ workerItem.generation = rosGeneration
    <3>1. /\ workerStage' = "publish" /\ workerItem' = workerItem
          /\ Current /\ ~Current' /\ Before' = workerItem
      BY <1>12, <2>2 DEF CheckGeneration, Current, Before
    <3>2. /\ workerItem.epoch = streamEpoch /\ workerItem # None
          /\ workerItem.seq = nextSequence - Len(rosFrameQueue) - 1
          /\ workerItem.seq = 0 => workerItem.key
      BY <1>n, <2>2, <3>1 DEF QueueInv, Numbered
    <3>3. First = workerItem.seq /\ First' = First + 1 /\ First \in Int
      BY <1>n, <2>1, <3>1, <3>2 DEF First, Numbered
    <3>4. Joined'
      BY <2>1, <3>1, <3>2, <3>3 DEF Joined
    <3>5. Follows(workerItem, lastPublished)
      <4>1. lastPublished # None => IsNumbered(lastPublished)
        BY <1>n DEF Numbered
      <4>2. ~workerItem.orphan => Joined
        BY <3>1 DEF LineInv, ServedFrames
      <4>3. lastPublished # None =>
              /\ lastPublished.epoch <= streamEpoch
              /\ lastPublished.epoch = streamEpoch => lastPublished.seq < First
        BY <2>1 DEF LineInv
      <4> QED
        BY <2>1, <3>2, <3>3, <4>1, <4>2, <4>3 DEF Follows, Joined, IsNumbered
    <3> QED
      BY <1>n, <2>1, <3>1, <3>2, <3>3, <3>4, <3>5 DEF LineInv, Numbered
  <2>3. CASE ~(workerStage = "frame" /\ workerItem.generation = rosGeneration)
    <3>1. workerStage' # "publish" /\ workerStage' # "frame"
      BY <1>12, <2>3 DEF CheckGeneration
    <3>2. ~Current /\ ~Current' /\ Before' = Before
      BY <2>1, <2>3, <3>1 DEF Current, Before
    <3> QED
      BY <2>1, <3>1, <3>2 DEF LineInv, Serving, ServedFrames, First, Joined
  <2> QED
    BY <2>2, <2>3
<1>13. CASE Publish
  <2>1. /\ UNCHANGED <<rosFrameQueue, streamEpoch, nextSequence, rosGeneration, rosStopping,
                       callback, rosConsumersActive>>
        /\ workerStage' = "idle" /\ workerStage \in {"announce", "publish"}
    BY <1>13 DEF Publish, publisherVars, queueVars, callbackVars
  <2>2. ~Current /\ ~Current' /\ Before' = Before
    BY <1>13, <2>1 DEF Publish, Current, Before
  <2> QED
    BY <2>1, <2>2 DEF LineInv, Serving, ServedFrames, First, Joined
<1>14. CASE StopPublishing
  <2>1. /\ UNCHANGED <<nextSequence, streamEpoch, workerStage, workerItem, lastPublished>>
        /\ ~Serving' /\ Len(rosFrameQueue') = 0 /\ rosGeneration' = rosGeneration + 1
    BY <1>14, EmptyQueue DEF StopPublishing, workerVars, Serving
  <2> QED
    BY ONLY Inv, <2>1, WithdrawnLine
<1>15. CASE StopCallbacks
  <2>1. UNCHANGED <<rosFrameQueue, streamEpoch, nextSequence, rosGeneration, rosStopping,
                   workerStage, workerItem, lastPublished>>
    BY <1>15 DEF StopCallbacks, publisherVars, queueVars, renderVars, workerVars
  <2>2. Serving' => Serving
    BY <1>15 DEF Serving, StopCallbacks, publisherVars, StopInv, TypeOK
  <2> QED
    BY <2>1, <2>2 DEF LineInv, Current, First, Before, ServedFrames, Joined
<1>16. CASE StopJoin
  BY <1>16 DEF LineInv, Current, First, Before, Serving, ServedFrames, Joined,
     StopJoin, callbackVars, consumerVars, publisherVars, queueVars, renderVars,
     workerVars
<1>17. CASE UNCHANGED vars
  BY <1>17 DEF LineInv, Current, First, Before, Serving, ServedFrames, Joined, vars,
     callbackVars, consumerVars, publisherVars, queueVars, renderVars, workerVars
<1>18. CASE Loses
  BY <1>18 DEF LineInv, Current, First, Before, Serving, ServedFrames, Joined,
     Loses, callbackVars, consumerVars, publisherVars, queueVars, workerVars
<1> QED
  BY <1>1, <1>2, <1>3, <1>4, <1>5, <1>6, <1>7, <1>8, <1>9, <1>10, <1>11, <1>12,
     <1>13, <1>14, <1>15, <1>16, <1>17, <1>18 DEF Next, Callbacks, RenderThread, Worker,
     Stop


\* Nobody is served from an empty line that has been withdrawn.
LEMMA NothingServed ==
  ASSUME Inv, Len(rosFrameQueue') = 0, rosGeneration' = rosGeneration + 1,
         UNCHANGED <<workerStage, workerItem>>
  PROVE  ~ServedFrames'
<1>n. Numbered
  BY AllNumbered DEF Inv
<1>1. ~Current'
  BY <1>n DEF Numbered, Current, QueueInv, Inv
<1> QED
  BY <1>1 DEF ServedFrames

\* Whatever is served has been announced, or is about to be.
LEMMA InfoStep == Inv /\ [Next]_vars => InfoInv'
<1> SUFFICES ASSUME Inv, [Next]_vars PROVE InfoInv'
  OBVIOUS
<1>t. TypeOK
  BY DEF Inv
<1> USE DEF Inv
<1>n. Numbered
  BY AllNumbered DEF Inv
<1>1. CASE Connect
  <2>1. UNCHANGED <<rosFrameQueue, streamEpoch, rosGeneration, rosStreamInfoPending,
                   rosStopping, workerStage, workerItem, announced>>
    BY <1>1 DEF Connect, publisherVars, queueVars, renderVars, workerVars
  <2>2. Serving' => Serving
    BY <1>1 DEF Serving, Connect, publisherVars, StopInv
  <2> QED
    BY <2>1, <2>2 DEF InfoInv, Announcing, ServedFrames, Current
<1>2. CASE ConnectEpoch
  <2>1. UNCHANGED <<workerStage, workerItem, announced>>
    BY <1>2 DEF ConnectEpoch, consumerVars, renderVars, workerVars
  <2>2. CASE rosStopping
    <3>1. UNCHANGED <<queueVars, rosStreamInfoPending>>
      BY <1>2, <2>2 DEF ConnectEpoch
    <3>2. ~Serving'
      BY <1>2, <2>2 DEF ConnectEpoch, Serving
    <3> QED
      BY <2>1, <3>1, <3>2 DEF queueVars, InfoInv, Announcing, ServedFrames, Current
  <2>3. CASE ~rosStopping
    <3>1. Begins(0)
      BY <1>2, <2>3, BeginsEpoch DEF ConnectEpoch
    <3> QED
      BY <2>1, <3>1 DEF Begins, InfoInv, Announcing
  <2> QED
    BY <2>2, <2>3
<1>3. CASE ConnectForce
  <2>1. UNCHANGED <<rosFrameQueue, streamEpoch, rosGeneration, rosStreamInfoPending,
                   rosStopping, workerStage, workerItem, announced>>
    BY <1>3 DEF ConnectForce, consumerVars, publisherVars, queueVars, renderVars,
       workerVars
  <2>2. Serving' => Serving
    BY <1>3 DEF Serving, ConnectForce, publisherVars, StopInv
  <2> QED
    BY <2>1, <2>2 DEF InfoInv, Announcing, ServedFrames, Current
<1>4. CASE ConnectActivate
  <2>1. UNCHANGED <<rosFrameQueue, streamEpoch, rosGeneration, rosStreamInfoPending,
                   rosStopping, workerStage, workerItem, announced>>
    BY <1>4 DEF ConnectActivate, consumerVars, publisherVars, queueVars, renderVars,
       workerVars
  <2>2. Serving' => Serving
    BY <1>4 DEF Serving, ConnectActivate, publisherVars, StopInv
  <2> QED
    BY <2>1, <2>2 DEF InfoInv, Announcing, ServedFrames, Current
<1>5. CASE Disconnect
  <2>1. UNCHANGED <<rosFrameQueue, streamEpoch, rosGeneration, rosStreamInfoPending,
                   rosStopping, workerStage, workerItem, announced>>
    BY <1>5 DEF Disconnect, publisherVars, queueVars, renderVars, workerVars
  <2>2. Serving' => Serving
    BY <1>5 DEF Serving, Disconnect, publisherVars, StopInv
  <2> QED
    BY <2>1, <2>2 DEF InfoInv, Announcing, ServedFrames, Current
<1>6. CASE DisconnectWithdraw
  <2>1. /\ UNCHANGED <<streamEpoch, rosStreamInfoPending, workerStage, workerItem, announced>>
        /\ ~Serving'
    BY <1>6 DEF DisconnectWithdraw, queueVars, workerVars, Serving, StopInv
  <2>2. CASE UNCHANGED <<rosFrameQueue, rosGeneration, rosStreamInfoPending>>
    BY <2>1, <2>2 DEF InfoInv, Announcing, ServedFrames, Current
  <2>3. CASE Len(rosFrameQueue') = 0 /\ rosGeneration' = rosGeneration + 1
    <3>1. ~ServedFrames'
      BY ONLY Inv, <2>1, <2>3, NothingServed
    <3> QED
      BY <2>1, <3>1 DEF InfoInv
  <2> QED
    BY <1>6, <2>1, <2>2, <2>3, EmptyQueue DEF DisconnectWithdraw, queueVars
<1>7. CASE Encode
  <2>1. UNCHANGED <<rosFrameQueue, streamEpoch, rosGeneration, rosStreamInfoPending,
                   rosStopping, workerStage, workerItem, announced>>
    BY <1>7 DEF Encode, callbackVars, consumerVars, publisherVars, queueVars,
       workerVars
  <2>2. Serving' => Serving
    BY <1>7 DEF Serving, Encode, callbackVars, publisherVars
  <2> QED
    BY <2>1, <2>2 DEF InfoInv, Announcing, ServedFrames, Current
<1>8. CASE Offer
  <2>1. UNCHANGED <<rosFrameQueue, streamEpoch, rosGeneration, rosStreamInfoPending,
                   rosStopping, workerStage, workerItem, announced>>
    BY <1>8 DEF Offer, callbackVars, consumerVars, publisherVars, queueVars,
       workerVars
  <2>2. Serving' => Serving
    BY <1>8 DEF Serving, Offer, callbackVars, publisherVars
  <2> QED
    BY <2>1, <2>2 DEF InfoInv, Announcing, ServedFrames, Current
<1>9. CASE Enqueue
  <2>1. /\ UNCHANGED <<workerStage, workerItem, announced>> /\ (Serving' <=> Serving)
    BY <1>9, EnqueueEffect DEF Serving
  <2>2. CASE UNCHANGED <<rosFrameQueue, streamEpoch, rosGeneration, rosStreamInfoPending>>
    BY <2>1, <2>2 DEF InfoInv, Announcing, ServedFrames, Current
  <2>3. CASE rosStreamInfoPending'
    BY <2>1, <2>3 DEF InfoInv, Announcing
  <2>4. CASE (\E f \in Frame : Joins(f)) /\ ~rosStopping
    <3>1. PICK f \in Frame : Joins(f)
      BY <2>4
    <3>2. (Current' <=> Current) /\ (Announcing' <=> Announcing)
      BY <2>1, <3>1 DEF Joins, Current, Announcing
    <3>3. ServedFrames' => ServedFrames \/ Serving
      BY ONLY <1>n, <2>1, <2>4, <3>1, <3>2, JoinsServed
    <3> QED
      BY <2>1, <3>2, <3>3 DEF InfoInv
  <2> QED
    <3>1. \/ rosStreamInfoPending'
          \/ UNCHANGED <<rosFrameQueue, streamEpoch, rosGeneration, rosStreamInfoPending>>
          \/ (\E f \in Frame : Joins(f)) /\ ~rosStopping
      BY <1>9, EnqueueEffect DEF TurnedAway, Opens, Begins
    <3> QED
      BY <3>1, <2>2, <2>3, <2>4
<1>10. CASE EncoderReset
  <2>1. UNCHANGED <<workerStage, workerItem, announced>> /\ (Serving' <=> Serving)
    BY <1>10, ResetEffect DEF Serving
  <2>2. CASE /\ UNCHANGED <<rosFrameQueue, streamEpoch, rosGeneration>>
             /\ rosStreamInfoPending => rosStreamInfoPending'
    BY <2>1, <2>2 DEF InfoInv, Announcing, ServedFrames, Current
  <2>3. CASE Begins(0)
    BY <2>1, <2>3 DEF Begins, InfoInv, Announcing
  <2> QED
    BY <1>10, <2>2, <2>3, ResetEffect
<1>11. CASE Take
  <2>1. /\ workerStage = "idle" /\ (Serving' <=> Serving)
        /\ UNCHANGED <<streamEpoch, rosGeneration, announced>>
    BY <1>t, <1>11, TakeEffect DEF Serving
  <2>2. CASE UNCHANGED <<rosFrameQueue, rosStreamInfoPending, workerStage, workerItem>>
    BY <2>1, <2>2 DEF InfoInv, Announcing, ServedFrames, Current
  <2>3. CASE /\ UNCHANGED rosFrameQueue
             /\ workerStage' = "info" /\ workerItem'.epoch = streamEpoch
             /\ workerItem'.generation = rosGeneration
    BY <2>1, <2>3 DEF InfoInv, Announcing
  <2>4. CASE Takes
    <3>1. /\ Len(rosFrameQueue) \in Nat /\ Len(rosFrameQueue) >= 1
          /\ Len(rosFrameQueue') = Len(rosFrameQueue) - 1
          /\ workerStage' = "frame" /\ workerItem' = rosFrameQueue[1]
          /\ ~rosStreamInfoPending
      BY <1>n, <2>4 DEF Takes, Numbered
    <3>2. Announcing => streamEpoch \in announced
      BY <2>1, <3>1 DEF Announcing
    <3>3. ServedFrames' => ServedFrames
      BY ONLY <3>1, <2>4, TakesServed
    <3>4. rosFrameQueue[1].epoch = streamEpoch
      BY <3>1 DEF QueueInv
    <3>5. ~rosFrameQueue[1].orphan => ServedFrames
      BY <3>1 DEF ServedFrames
    <3>6. Serving \/ ServedFrames => streamEpoch \in announced
      BY <3>2 DEF InfoInv
    <3> QED
      BY <2>1, <3>1, <3>3, <3>4, <3>5, <3>6 DEF InfoInv, Announcing
  <2> QED
    BY ONLY <1>t, <1>11, <2>2, <2>3, <2>4, TakeEffect
<1>12. CASE CheckGeneration
  <2>1. UNCHANGED <<rosFrameQueue, streamEpoch, rosGeneration, rosStopping, callback,
                   rosConsumersActive, rosStreamInfoPending, announced>>
    BY <1>12 DEF CheckGeneration, publisherVars, queueVars, callbackVars
  <2>2. ~Current' /\ (Serving' <=> Serving)
    BY <1>12, <2>1 DEF CheckGeneration, Current, Serving
  <2>3. ServedFrames' => ServedFrames
    BY <2>1, <2>2 DEF ServedFrames
  <2>4. Announcing => Announcing'
    BY <1>12, <2>1 DEF CheckGeneration, Announcing
  <2>5. workerStage' = "publish" => workerStage = "frame" /\ workerItem' = workerItem
    BY <1>12 DEF CheckGeneration
  <2>6. workerStage' # "frame"
    BY <1>12 DEF CheckGeneration
  <2> QED
    BY <2>1, <2>2, <2>3, <2>4, <2>5, <2>6 DEF InfoInv
<1>13. CASE Publish
  <2>1. /\ UNCHANGED <<rosFrameQueue, streamEpoch, rosGeneration, rosStopping, callback,
                       rosConsumersActive, rosStreamInfoPending>>
        /\ workerStage' = "idle" /\ workerStage \in {"announce", "publish"}
    BY <1>13 DEF Publish, publisherVars, queueVars, callbackVars
  <2>2. ~Current /\ ~Current' /\ (Serving' <=> Serving)
    BY <2>1 DEF Current, Serving
  <2>3. ServedFrames' <=> ServedFrames
    BY <2>1, <2>2 DEF ServedFrames
  <2>4. Announcing => Announcing'
    BY <1>13, <2>1 DEF Publish, Announcing
  <2> QED
    BY <2>1, <2>2, <2>3, <2>4 DEF InfoInv
<1>14. CASE StopPublishing
  <2>1. /\ UNCHANGED <<workerStage, workerItem, announced>>
        /\ ~Serving' /\ Len(rosFrameQueue') = 0 /\ rosGeneration' = rosGeneration + 1
    BY <1>14, EmptyQueue DEF StopPublishing, workerVars, Serving
  <2>2. ~ServedFrames'
    BY ONLY Inv, <2>1, NothingServed
  <2> QED
    BY <2>1, <2>2 DEF InfoInv
<1>15. CASE StopCallbacks
  <2>1. UNCHANGED <<rosFrameQueue, streamEpoch, rosGeneration, rosStreamInfoPending,
                   rosStopping, workerStage, workerItem, announced>>
    BY <1>15 DEF StopCallbacks, publisherVars, queueVars, renderVars, workerVars
  <2>2. Serving' => Serving
    BY <1>15 DEF Serving, StopCallbacks, publisherVars, StopInv, TypeOK
  <2> QED
    BY <2>1, <2>2 DEF InfoInv, Announcing, ServedFrames, Current
<1>16. CASE StopJoin
  <2>1. UNCHANGED <<rosFrameQueue, streamEpoch, rosGeneration, rosStreamInfoPending,
                   rosStopping, workerStage, workerItem, announced>>
    BY <1>16 DEF StopJoin, callbackVars, consumerVars, publisherVars, queueVars,
       renderVars, workerVars
  <2>2. Serving' => Serving
    BY <1>16 DEF Serving, StopJoin, callbackVars, publisherVars
  <2> QED
    BY <2>1, <2>2 DEF InfoInv, Announcing, ServedFrames, Current
<1>17. CASE UNCHANGED vars
  BY <1>17 DEF InfoInv, Announcing, Serving, ServedFrames, Current, vars,
     callbackVars, consumerVars, publisherVars, queueVars, renderVars, workerVars
<1>18. CASE Loses
  <2>1. UNCHANGED <<rosFrameQueue, streamEpoch, rosGeneration, rosStreamInfoPending,
                   rosStopping, workerStage, workerItem, announced>>
    BY <1>18 DEF Loses, callbackVars, consumerVars, publisherVars, queueVars,
       workerVars
  <2>2. Serving' => Serving
    BY <1>18 DEF Serving, Loses, callbackVars, publisherVars
  <2> QED
    BY <2>1, <2>2 DEF InfoInv, Announcing, ServedFrames, Current
<1> QED
  BY <1>1, <1>2, <1>3, <1>4, <1>5, <1>6, <1>7, <1>8, <1>9, <1>10, <1>11, <1>12,
     <1>13, <1>14, <1>15, <1>16, <1>17, <1>18 DEF Next, Callbacks, RenderThread, Worker,
     Stop


LEMMA BeforeNumbered ==
  ASSUME Numbered
  PROVE  /\ Unit(Before) \in Nat /\ Unit(lastPublished) \in Nat
         /\ Before # None => IsNumbered(Before)
<1>1. Before # None => IsNumbered(Before)
  BY DEF Numbered, Before
<1> QED
  BY <1>1 DEF Numbered, Unit, IsNumbered

\* An emptied line: what was queued counts as dropped, with at most the access
\* unit that is offered.
LEMMA ClearedCount ==
  ASSUME Inv, rosFrameQueue' \in Seq(Frame), Len(rosFrameQueue') = 0,
         rosGeneration' = rosGeneration + 1,
         UNCHANGED <<workerStage, workerItem, lastPublished>>,
         NEW also \in {0, 1}, units' = units + also, rosDropped' \in Nat,
         rosDropped' <= rosDropped + Len(rosFrameQueue) + also,
         Serving' => rosWaitingForIDR'
  PROVE  CountInv'
<1>n. Numbered
  BY AllNumbered DEF Inv
<1>1. Before' = Before
  BY DEF Before
<1>2. ~Current'
  BY <1>n DEF Numbered, Current, QueueInv, Inv
<1>3. Unit(Before) \in Nat /\ Unit(Before)' = Unit(Before)
  BY <1>n, <1>1, BeforeNumbered DEF Unit
<1>4. ASSUME Comparable(Before)' PROVE LineCounted'
  <2>1. rosDropped + Len(rosFrameQueue) <= units - Unit(Before)
    <3>1. LineCounted
      BY <1>1, <1>4 DEF CountInv, Comparable, Inv
    <3> QED
      BY <1>n, <1>3, <3>1 DEF LineCounted, Numbered
  <2>2. rosDropped' + 0 + 0 <= units' - Unit(Before)
    BY <1>n, <1>3, <2>1 DEF Numbered
  <2> QED
    BY <1>2, <1>3, <2>2 DEF LineCounted
<1>5. Unit(Before)' <= units'
  BY <1>n, <1>3 DEF CountInv, Numbered, Inv
<1>6. workerStage' = "publish" /\ Comparable(lastPublished)' =>
        workerItem'.dropped <= Missing(workerItem, lastPublished)'
  BY DEF CountInv, Comparable, Missing, Inv
<1>7. rosFrameQueue' = <<>> /\ 1..Len(rosFrameQueue') = {}
  BY EmptySeq
<1> QED
  BY <1>2, <1>4, <1>5, <1>6, <1>7 DEF CountInv

\* The line stays as it is; an access unit that is turned away is counted.
LEMMA KeptCount ==
  ASSUME Inv, Serving' /\ ~rosWaitingForIDR' => rosDropped' = 0,
         NEW also \in {0, 1}, units' = units + also, rosDropped' \in Nat,
         rosDropped' <= rosDropped + also,
         UNCHANGED <<rosFrameQueue, rosGeneration, workerStage, workerItem, lastPublished>>
  PROVE  CountInv'
<1>n. Numbered /\ CountInv
  BY AllNumbered DEF Inv
<1>1. /\ Current' <=> Current
      /\ Before' = Before /\ Unit(Before)' = Unit(Before)
      /\ Comparable(Before)' <=> Comparable(Before)
  BY DEF Current, Before, Unit, Comparable
<1>2. Unit(Before) \in Nat
  BY <1>n, BeforeNumbered
<1>3. ASSUME NEW i \in 1..Len(rosFrameQueue) PROVE CountedAt(i)'
  <2>1. CountedAt(i) /\ IsNumbered(rosFrameQueue[i])
    BY <1>n DEF CountInv, Numbered
  <2> QED
    BY <1>n, <1>1, <2>1 DEF CountedAt, IsNumbered, Numbered
<1>4. ASSUME Current' PROVE TakenCounted'
  <2>1. TakenCounted /\ IsNumbered(workerItem)
    BY <1>n, <1>1, <1>4 DEF CountInv, Numbered, Current
  <2> QED
    BY <1>n, <1>1, <2>1 DEF TakenCounted, IsNumbered, Numbered
<1>5. LineCounted => LineCounted'
  BY <1>n, <1>1, <1>2 DEF LineCounted, Numbered
<1>6. HeadCounted' <=> HeadCounted
  BY <1>1 DEF HeadCounted
<1>7. Unit(Before)' <= units'
  BY <1>n, <1>1, <1>2 DEF CountInv, Numbered
<1>8. workerStage' = "publish" /\ Comparable(lastPublished)' =>
        workerItem'.dropped <= Missing(workerItem, lastPublished)'
  BY <1>n DEF CountInv, Comparable, Missing
<1> QED
  BY <1>n, <1>1, <1>3, <1>4, <1>5, <1>6, <1>7, <1>8 DEF CountInv


\* An access unit that opens an epoch reports all that was dropped.
LEMMA OpenedCount ==
  ASSUME Inv, NEW f \in Frame, Opens(f), units' = units + 1,
         UNCHANGED <<workerStage, workerItem, lastPublished>>
  PROVE  CountInv'
<1>n. Numbered /\ CountInv /\ QueueInv
  BY AllNumbered DEF Inv
<1>1. ~Current' /\ Before' = Before
  BY <1>n DEF Numbered, Current, QueueInv, Before, Opens
<1>2. Unit(Before) \in Nat /\ Unit(Before)' = Unit(Before) /\ Unit(Before) <= units
  BY <1>n, <1>1, BeforeNumbered DEF Unit, CountInv
<1>3. /\ Len(rosFrameQueue') = 1 /\ rosFrameQueue'[1] = f /\ f.seq = 0
      /\ f.unit = units + 1 /\ f.dropped = rosDropped + Len(rosFrameQueue)
      /\ rosDropped' = 0 /\ units' = units + 1
  BY DEF Opens
<1>4. /\ units \in Nat /\ rosDropped \in Nat /\ Len(rosFrameQueue) \in Nat
  BY <1>n DEF Numbered
<1>5. CountedAt(1)'
  BY <1>1, <1>2, <1>3, <1>4 DEF CountedAt
<1>6. \A i \in 1..Len(rosFrameQueue') : i = 1
  BY <1>3
<1>7. LineCounted'
  <2>1. 0 + 1 + 0 <= units' - Unit(Before)
    BY <1>2, <1>3, <1>4
  <2> QED
    BY <1>1, <1>2, <1>3, <2>1 DEF LineCounted
<1>8. ASSUME Comparable(Before)' PROVE HeadCounted'
  <2>1. rosDropped + Len(rosFrameQueue) <= units - Unit(Before)
    <3>1. LineCounted
      BY <1>n, <1>1, <1>8 DEF CountInv, Comparable
    <3> QED
      BY <1>2, <1>4, <3>1 DEF LineCounted
  <2> QED
    BY <1>2, <1>3, <1>4, <2>1 DEF HeadCounted
<1>9. Unit(Before)' <= units' /\ rosDropped' = 0
  BY <1>2, <1>3, <1>4
<1>10. workerStage' = "publish" /\ Comparable(lastPublished)' =>
         workerItem'.dropped <= Missing(workerItem, lastPublished)'
  BY <1>n DEF CountInv, Comparable, Missing
<1> QED
  BY <1>1, <1>5, <1>6, <1>7, <1>8, <1>9, <1>10 DEF CountInv

\* One that joins the line reports what was dropped before the epoch, if it is
\* the first of it.
LEMMA JoinedCount ==
  ASSUME Inv, NEW f \in Frame, Joins(f), units' = units + 1, ~rosStopping,
         UNCHANGED <<workerStage, workerItem, lastPublished, rosStopping, callback,
                     rosConsumersActive>>
  PROVE  CountInv'
<1>n. Numbered /\ CountInv /\ QueueInv /\ rosWaitingForIDR \in BOOLEAN
  BY AllNumbered DEF Inv, TypeOK
<1>1. /\ Current' <=> Current
      /\ Before' = Before /\ (Comparable(Before)' <=> Comparable(Before))
      /\ Serving' <=> Serving
  BY DEF Joins, Current, Before, Comparable, Serving
<1>2. Unit(Before) \in Nat /\ Unit(Before)' = Unit(Before) /\ Unit(Before) <= units
  BY <1>n, <1>1, BeforeNumbered DEF Unit, CountInv
<1>3. /\ units \in Nat /\ rosDropped \in Nat /\ Len(rosFrameQueue) \in Nat
      /\ Len(rosFrameQueue') = Len(rosFrameQueue) + 1 /\ IsNumbered(f)
  BY <1>n, FrameNumbers DEF Numbered, Joins
<1>4. /\ rosDropped' \in Nat /\ rosDropped' <= rosDropped
      /\ Serving => rosDropped' = 0
  BY <1>n, <1>3 DEF Joins, CountInv
<1>5. \A i \in 1..Len(rosFrameQueue') :
        i \in 1..Len(rosFrameQueue) \/ i = Len(rosFrameQueue) + 1
  BY <1>3
<1>6. ASSUME NEW i \in 1..Len(rosFrameQueue) PROVE CountedAt(i)'
  <2>1. CountedAt(i) /\ IsNumbered(rosFrameQueue[i]) /\ i \in Int
    BY <1>n DEF CountInv, Numbered
  <2>2. rosFrameQueue'[i] = rosFrameQueue[i]
    BY DEF Joins
  <2>3. ASSUME NEW j \in 1..Len(rosFrameQueue'), i < j
        PROVE  rosFrameQueue[i].unit < rosFrameQueue'[j].unit
    <3>1. CASE j \in 1..Len(rosFrameQueue)
      BY <2>1, <2>3, <3>1 DEF CountedAt, Joins
    <3>2. CASE j = Len(rosFrameQueue) + 1
      BY <1>3, <2>1, <3>2 DEF CountedAt, Joins, IsNumbered
    <3> QED
      BY <1>5, <3>1, <3>2
  <2>4. ~rosFrameQueue[i].orphan =>
          rosDropped' + (Len(rosFrameQueue') - i) <= units' - rosFrameQueue[i].unit
    BY <1>3, <1>4, <2>1 DEF CountedAt, IsNumbered
  <2>5. rosFrameQueue[i].unit <= units'
    BY <1>3, <2>1 DEF CountedAt, IsNumbered
  <2>6. Current' => workerItem'.unit < rosFrameQueue[i].unit
    BY <1>1, <2>1 DEF CountedAt
  <2> QED
    BY <1>2, <2>1, <2>2, <2>3, <2>4, <2>5, <2>6 DEF CountedAt
<1>7. ASSUME NEW last, last = Len(rosFrameQueue) + 1 PROVE CountedAt(last)'
  <2>1. /\ rosFrameQueue'[last] = f /\ f.unit = units + 1 /\ units' = units + 1
        /\ f.orphan <=> ~rosConsumersActive
        /\ f.seq # 0 => f.dropped = 0
    BY <1>n, <1>7 DEF Joins, QueueInv
  <2>2. ~f.orphan => rosDropped' = 0
    BY <1>4, <2>1 DEF Serving
  <2>3. Current' => workerItem'.unit < f.unit
    <3>1. Current => TakenCounted /\ IsNumbered(workerItem)
      BY <1>n DEF CountInv, Current, Numbered
    <3> QED
      BY <1>1, <1>3, <2>1, <3>1 DEF TakenCounted, IsNumbered
  <2>4. \A j \in 1..Len(rosFrameQueue') : ~(last < j)
    BY <1>3, <1>7
  <2>5. f.unit <= units' /\ Unit(Before) < f.unit /\ units' - f.unit = 0
        /\ Len(rosFrameQueue') - last = 0
    BY <1>2, <1>3, <1>7, <2>1
  <2> QED
    BY <1>2, <2>1, <2>2, <2>3, <2>4, <2>5 DEF CountedAt
<1>8. ASSUME Current' PROVE TakenCounted'
  <2>1. TakenCounted /\ IsNumbered(workerItem)
    BY <1>n, <1>1, <1>8 DEF CountInv, Numbered, Current
  <2> QED
    BY <1>1, <1>2, <1>3, <1>4, <2>1 DEF TakenCounted, IsNumbered
<1>9. LineCounted => LineCounted'
  BY <1>1, <1>2, <1>3, <1>4 DEF LineCounted
<1>10. ASSUME Comparable(Before), ~Current PROVE HeadCounted'
  <2>1. CASE rosFrameQueue = <<>>
    <3>1. /\ rosFrameQueue'[1] = f /\ f.unit = units + 1 /\ Len(rosFrameQueue) = 0
          /\ f.dropped <= rosDropped
      BY <1>3, <2>1, EmptyQueue DEF Joins
    <3>2. rosDropped + 0 + 0 <= units - Unit(Before)
      BY <1>n, <1>10, <3>1 DEF CountInv, LineCounted
    <3> QED
      BY <1>2, <1>3, <3>1, <3>2 DEF HeadCounted, IsNumbered
  <2>2. CASE rosFrameQueue # <<>>
    <3>1. rosFrameQueue \in Seq(Frame)
      BY DEF Inv, TypeOK
    <3>2. 1 \in 1..Len(rosFrameQueue)
      BY <2>2, <3>1, Taken
    <3> QED
      BY <1>n, <1>2, <1>10, <2>2, <3>2 DEF CountInv, HeadCounted, Joins
  <2> QED
    BY <2>1, <2>2
<1>11. Unit(Before)' <= units'
  BY <1>2, <1>3
<1>12. workerStage' = "publish" /\ Comparable(lastPublished)' =>
         workerItem'.dropped <= Missing(workerItem, lastPublished)'
  BY <1>n DEF CountInv, Comparable, Missing
<1> QED
  BY <1>n, <1>1, <1>4, <1>5, <1>6, <1>7, <1>8, <1>9, <1>10, <1>11, <1>12 DEF CountInv


\* The worker takes the head of the line, with what it reports.
LEMMA TakenCount ==
  ASSUME Inv, Takes, workerStage = "idle",
         UNCHANGED <<rosWaitingForIDR, rosDropped, rosGeneration, lastPublished, units>>,
         Serving' <=> Serving
  PROVE  CountInv'
<1>n. Numbered /\ CountInv /\ QueueInv
  BY AllNumbered DEF Inv
<1>1. /\ Len(rosFrameQueue) \in Nat /\ Len(rosFrameQueue) >= 1
      /\ Len(rosFrameQueue') = Len(rosFrameQueue) - 1
      /\ workerStage' = "frame" /\ workerItem' = rosFrameQueue[1]
      /\ units \in Nat /\ rosDropped \in Nat
  BY <1>n DEF Takes, Numbered
<1>2. 1 \in 1..Len(rosFrameQueue) /\ rosFrameQueue # <<>>
  BY <1>1, EmptyQueue
<1>3. /\ ~Current /\ Current' /\ Before' = Before
      /\ Comparable(Before)' <=> Comparable(Before)
  BY <1>n, <1>1, <1>2 DEF Current, Before, Comparable, QueueInv
<1>4. Unit(Before) \in Nat /\ Unit(Before)' = Unit(Before) /\ Unit(Before) <= units
  BY <1>n, <1>3, BeforeNumbered DEF Unit, CountInv
<1>5. CountedAt(1) /\ IsNumbered(rosFrameQueue[1])
  BY <1>n, <1>2 DEF CountInv, Numbered
<1>6. ASSUME NEW i \in 1..Len(rosFrameQueue') PROVE CountedAt(i)'
  <2>1. /\ i \in Int /\ i + 1 \in 1..Len(rosFrameQueue) /\ 1 < i + 1
        /\ rosFrameQueue'[i] = rosFrameQueue[i + 1]
    BY <1>1 DEF Takes
  <2>2. CountedAt(i + 1) /\ IsNumbered(rosFrameQueue[i + 1])
    BY <1>n, <2>1 DEF CountInv, Numbered
  <2>3. ASSUME NEW j \in 1..Len(rosFrameQueue'), i < j
        PROVE  rosFrameQueue'[i].unit < rosFrameQueue'[j].unit
    <3>1. /\ j + 1 \in 1..Len(rosFrameQueue) /\ i + 1 < j + 1
          /\ rosFrameQueue'[j] = rosFrameQueue[j + 1]
      BY <1>1, <2>3 DEF Takes
    <3> QED
      BY <2>1, <2>2, <3>1 DEF CountedAt
  <2>4. rosFrameQueue[1].unit < rosFrameQueue[i + 1].unit
    BY <1>5, <2>1 DEF CountedAt
  <2>5. Len(rosFrameQueue) - (i + 1) = Len(rosFrameQueue') - i
    BY <1>1, <2>1
  <2> QED
    BY <1>1, <1>4, <2>1, <2>2, <2>3, <2>4, <2>5 DEF CountedAt
<1>7. TakenCounted'
  <2>1. Comparable(Before) =>
          rosFrameQueue[1].dropped <= rosFrameQueue[1].unit - Unit(Before) - 1
    BY <1>n, <1>2, <1>3 DEF CountInv, HeadCounted
  <2> QED
    BY <1>1, <1>3, <1>4, <1>5, <2>1 DEF CountedAt, TakenCounted
<1>8. LineCounted => LineCounted'
  BY <1>1, <1>3, <1>4 DEF LineCounted
<1> QED
  BY <1>n, <1>1, <1>3, <1>4, <1>6, <1>7, <1>8 DEF CountInv

\* The taken frame is found not to be withdrawn: it is the one before the line.
LEMMA PassedCount ==
  ASSUME Inv, Current, workerStage' = "publish", UNCHANGED workerItem,
         UNCHANGED <<rosFrameQueue, rosWaitingForIDR, rosDropped, rosGeneration,
                     lastPublished, units>>,
         Serving' <=> Serving
  PROVE  CountInv'
<1>n. Numbered /\ CountInv /\ QueueInv
  BY AllNumbered DEF Inv
<1>1. Before = lastPublished /\ Before' = workerItem /\ ~Current'
  BY DEF Before, Current
<1>2. IsNumbered(workerItem) /\ workerItem # None /\ TakenCounted
  BY <1>n DEF Current, Numbered, CountInv
<1>3. Unit(Before)' = workerItem.unit
  BY <1>1, <1>2 DEF Unit
<1>4. /\ units \in Nat /\ rosDropped \in Nat /\ Len(rosFrameQueue) \in Nat
      /\ nextSequence \in Nat
  BY <1>n DEF Numbered
<1>5. ASSUME NEW i \in 1..Len(rosFrameQueue) PROVE CountedAt(i)'
  <2>1. CountedAt(i)
    BY <1>n DEF CountInv
  <2> QED
    BY <1>1, <1>3, <2>1 DEF CountedAt
<1>6. ASSUME Comparable(Before)' PROVE LineCounted'
  <2>1. rosDropped + Len(rosFrameQueue) <= units - workerItem.unit
    BY <1>1, <1>2, <1>6 DEF TakenCounted, Comparable
  <2> QED
    BY <1>1, <1>3, <1>4, <2>1 DEF LineCounted
<1>7. ASSUME rosFrameQueue # <<>> PROVE HeadCounted'
  <2>1. rosFrameQueue \in Seq(Frame)
    BY DEF Inv, TypeOK
  <2>2. 1 \in 1..Len(rosFrameQueue)
    BY <1>7, <2>1, Taken
  <2>3. CountedAt(1) /\ IsNumbered(rosFrameQueue[1])
    BY <1>n, <2>2 DEF CountInv, Numbered
  <2>4. rosFrameQueue[1].seq = workerItem.seq + 1
    BY <1>n, <1>2, <1>4, <2>2 DEF QueueInv, IsNumbered
  <2>5. rosFrameQueue[1].dropped = 0 /\ workerItem.unit < rosFrameQueue[1].unit
    BY <1>2, <2>3, <2>4 DEF CountedAt, IsNumbered
  <2> QED
    BY <1>2, <1>3, <2>3, <2>5 DEF HeadCounted, IsNumbered
<1>8. Unit(Before)' <= units'
  BY <1>2, <1>3 DEF TakenCounted
<1>9. Comparable(lastPublished)' =>
        workerItem'.dropped <= Missing(workerItem, lastPublished)'
  BY <1>1, <1>2 DEF TakenCounted, Comparable, Missing, Unit
<1> QED
  BY <1>n, <1>1, <1>5, <1>6, <1>7, <1>8, <1>9 DEF CountInv

\* What is not in line any more does not count.
LEMMA LeftCount ==
  ASSUME Inv, ~Current', Before' = Before, workerStage' # "publish",
         UNCHANGED <<rosFrameQueue, rosWaitingForIDR, rosDropped, units>>,
         Serving' <=> Serving, ~Current
  PROVE  CountInv'
<1>n. CountInv
  BY DEF Inv
<1>1. Unit(Before)' = Unit(Before) /\ (Comparable(Before)' <=> Comparable(Before))
  BY DEF Unit, Comparable
<1>2. ASSUME NEW i \in 1..Len(rosFrameQueue) PROVE CountedAt(i)'
  <2>1. CountedAt(i)
    BY <1>n DEF CountInv
  <2> QED
    BY <1>1, <2>1 DEF CountedAt
<1>3. LineCounted' <=> LineCounted
  BY <1>1 DEF LineCounted
<1>4. HeadCounted' <=> HeadCounted
  BY <1>1 DEF HeadCounted
<1> QED
  BY <1>n, <1>1, <1>2, <1>3, <1>4 DEF CountInv

\* What is reported as dropped was dropped since the frame before.
LEMMA CountStep == Inv /\ [Next]_vars => CountInv'
<1> SUFFICES ASSUME Inv, [Next]_vars PROVE CountInv'
  OBVIOUS
<1>t. TypeOK
  BY DEF Inv
<1> USE DEF Inv
<1>n. Numbered
  BY AllNumbered DEF Inv
<1>y. TypeOK'
  BY TypedStep
<1>d. /\ rosDropped \in Nat /\ rosDropped' \in Nat /\ Len(rosFrameQueue) \in Nat
      /\ units \in Nat /\ 0 \in {0, 1} /\ 1 \in {0, 1}
      /\ Serving /\ ~rosWaitingForIDR => rosDropped = 0
  BY <1>n, <1>y DEF Numbered, TypeOK, CountInv
<1>1. CASE Connect
  <2>1. UNCHANGED <<rosFrameQueue, rosGeneration, rosDropped, rosWaitingForIDR, units,
                   workerStage, workerItem, lastPublished>>
    BY <1>1 DEF Connect, publisherVars, queueVars, renderVars, workerVars
  <2>2. Serving' => Serving
    BY <1>1 DEF Serving, Connect, publisherVars, StopInv
  <2> QED
    BY <1>d, <2>1, <2>2, KeptCount
<1>2. CASE ConnectEpoch
  <2>1. UNCHANGED <<units, workerStage, workerItem, lastPublished>>
    BY <1>2 DEF ConnectEpoch, consumerVars, renderVars, workerVars
  <2>2. CASE rosStopping
    <3>1. UNCHANGED queueVars /\ ~Serving'
      BY <1>2, <2>2 DEF ConnectEpoch, Serving
    <3> QED
      BY <1>d, <2>1, <3>1, KeptCount DEF queueVars
  <2>3. CASE ~rosStopping
    <3>1. Begins(0) /\ rosFrameQueue' = <<>>
      BY <1>2, <2>3, BeginsEpoch DEF ConnectEpoch, AdvanceEpoch
    <3> QED
      BY <1>d, <2>1, <3>1, EmptyQueue, ClearedCount DEF Begins
  <2> QED
    BY <2>2, <2>3
<1>3. CASE ConnectForce
  <2>1. UNCHANGED <<rosFrameQueue, rosGeneration, rosDropped, rosWaitingForIDR, units,
                   workerStage, workerItem, lastPublished>>
    BY <1>3 DEF ConnectForce, consumerVars, publisherVars, queueVars, renderVars,
       workerVars
  <2>2. Serving' => Serving
    BY <1>3 DEF Serving, ConnectForce, publisherVars, StopInv
  <2> QED
    BY <1>d, <2>1, <2>2, KeptCount
<1>4. CASE ConnectActivate
  <2>1. UNCHANGED <<rosFrameQueue, rosGeneration, rosDropped, rosWaitingForIDR, units,
                   workerStage, workerItem, lastPublished>>
    BY <1>4 DEF ConnectActivate, consumerVars, publisherVars, queueVars, renderVars,
       workerVars
  <2>2. Serving' => Serving
    BY <1>4 DEF Serving, ConnectActivate, publisherVars, StopInv
  <2> QED
    BY <1>d, <2>1, <2>2, KeptCount
<1>5. CASE Disconnect
  <2>1. UNCHANGED <<rosFrameQueue, rosGeneration, rosDropped, rosWaitingForIDR, units,
                   workerStage, workerItem, lastPublished>>
    BY <1>5 DEF Disconnect, publisherVars, queueVars, renderVars, workerVars
  <2>2. Serving' => Serving
    BY <1>5 DEF Serving, Disconnect, publisherVars, StopInv
  <2> QED
    BY <1>d, <2>1, <2>2, KeptCount
<1>6. CASE DisconnectWithdraw
  <2>1. /\ UNCHANGED <<units, workerStage, workerItem, lastPublished>>
        /\ ~Serving'
    BY <1>6 DEF DisconnectWithdraw, renderVars, workerVars, Serving, StopInv
  <2>2. CASE rosStopping
    BY <1>d, <1>6, <2>1, <2>2, KeptCount DEF DisconnectWithdraw, queueVars
  <2>3. CASE ~rosStopping
    <3>1. /\ rosFrameQueue' = <<>> /\ rosGeneration' = rosGeneration + 1
          /\ rosDropped' = rosDropped + Len(rosFrameQueue)
      BY <1>6, <2>3 DEF DisconnectWithdraw
    <3> QED
      BY <1>d, <2>1, <3>1, EmptyQueue, ClearedCount
  <2> QED
    BY <2>2, <2>3
<1>7. CASE Encode
  <2>1. UNCHANGED <<rosFrameQueue, rosGeneration, rosDropped, rosWaitingForIDR, units,
                   workerStage, workerItem, lastPublished>>
    BY <1>7 DEF Encode, callbackVars, consumerVars, publisherVars, queueVars,
       workerVars
  <2>2. Serving' => Serving
    BY <1>7 DEF Serving, Encode, callbackVars, publisherVars
  <2> QED
    BY <1>d, <2>1, <2>2, KeptCount
<1>8. CASE Offer
  <2>1. UNCHANGED <<rosFrameQueue, rosGeneration, rosDropped, rosWaitingForIDR, units,
                   workerStage, workerItem, lastPublished>>
    BY <1>8 DEF Offer, callbackVars, consumerVars, publisherVars, queueVars,
       workerVars
  <2>2. Serving' => Serving
    BY <1>8 DEF Serving, Offer, callbackVars, publisherVars
  <2> QED
    BY <1>d, <2>1, <2>2, KeptCount
<1>9. CASE Enqueue
  <2>1. /\ units' = units + 1
        /\ UNCHANGED <<callback, rosConsumersActive, rosStopping, workerStage,
                       workerItem, lastPublished>>
    BY <1>9, EnqueueEffect
  <2>2. CASE /\ rosStopping
             /\ UNCHANGED <<rosFrameQueue, rosDropped, rosGeneration>>
    <3>1. ~Serving'
      BY <2>1, <2>2 DEF Serving
    <3> QED
      BY <1>d, <2>1, <2>2, <3>1, KeptCount
  <2>3. ASSUME NEW f \in Frame, Opens(f) PROVE CountInv'
    BY ONLY Inv, <2>1, <2>3, OpenedCount
  <2>4. CASE Begins(1)
    <3>1. rosFrameQueue' \in Seq(Frame)
      BY <1>y DEF TypeOK
    <3> QED
      BY <1>d, <2>1, <2>4, <3>1, ClearedCount DEF Begins
  <2>5. CASE TurnedAway
    BY <1>d, <2>1, <2>5, KeptCount DEF TurnedAway
  <2>6. ASSUME ~rosStopping, NEW f \in Frame, Joins(f) PROVE CountInv'
    BY ONLY Inv, <2>1, <2>6, JoinedCount
  <2> QED
    BY <1>9, <2>2, <2>3, <2>4, <2>5, <2>6, EnqueueEffect
<1>10. CASE EncoderReset
  <2>1. /\ UNCHANGED <<units, workerStage, workerItem, lastPublished>>
        /\ Serving' <=> Serving
    BY <1>10, ResetEffect DEF Serving
  <2>2. CASE UNCHANGED <<rosFrameQueue, rosGeneration, rosDropped, rosWaitingForIDR>>
    BY <1>d, <2>1, <2>2, KeptCount
  <2>3. CASE Begins(0) /\ rosFrameQueue' = <<>>
    BY <1>d, <2>1, <2>3, EmptyQueue, ClearedCount DEF Begins
  <2> QED
    BY <1>10, <2>2, <2>3, ResetEffect
<1>11. CASE Take
  <2>1. /\ workerStage = "idle" /\ (Serving' <=> Serving) /\ ~Current
        /\ UNCHANGED <<rosWaitingForIDR, rosDropped, rosGeneration, lastPublished, units>>
    BY <1>t, <1>11, TakeEffect DEF Serving, Current
  <2>2. CASE UNCHANGED rosFrameQueue /\ workerStage' \in {"idle", "info"}
    <3>1. ~Current' /\ Before' = Before
      BY <2>1, <2>2 DEF Current, Before
    <3> QED
      BY <2>1, <2>2, <3>1, LeftCount
  <2>3. CASE Takes
    BY ONLY Inv, <2>1, <2>3, TakenCount
  <2> QED
    BY <1>t, <1>11, <2>1, <2>2, <2>3, TakeEffect
<1>12. CASE CheckGeneration
  <2>1. UNCHANGED <<rosFrameQueue, rosWaitingForIDR, rosDropped, rosGeneration, units,
                   rosStopping, lastPublished, callback, rosConsumersActive>>
    BY <1>12 DEF CheckGeneration, publisherVars, queueVars, callbackVars, renderVars
  <2>2. Serving' <=> Serving
    BY <2>1 DEF Serving
  <2>3. CASE Current
    <3>1. workerStage' = "publish" /\ workerItem' = workerItem
      BY <1>12, <2>3 DEF CheckGeneration, Current
    <3> QED
      BY <2>1, <2>2, <2>3, <3>1, PassedCount
  <2>4. CASE ~Current
    <3>1. /\ workerStage' # "publish" /\ ~Current' /\ Before' = Before
      BY <1>12, <2>1, <2>4 DEF CheckGeneration, Current, Before
    <3> QED
      BY <2>1, <2>2, <2>4, <3>1, LeftCount
  <2> QED
    BY <2>3, <2>4
<1>13. CASE Publish
  <2>1. /\ UNCHANGED <<rosFrameQueue, rosWaitingForIDR, rosDropped, rosGeneration, units,
                       rosStopping, callback, rosConsumersActive>>
        /\ workerStage' = "idle" /\ workerStage \in {"announce", "publish"}
    BY <1>13 DEF Publish, publisherVars, queueVars, callbackVars, renderVars
  <2>2. (Serving' <=> Serving) /\ ~Current /\ ~Current'
    BY <2>1 DEF Serving, Current
  <2>3. Before' = Before
    BY <1>13, <2>1 DEF Publish, Before
  <2> QED
    BY <2>1, <2>2, <2>3, LeftCount
<1>14. CASE StopPublishing
  <2>1. /\ UNCHANGED <<units, rosDropped, workerStage, workerItem, lastPublished>>
        /\ rosFrameQueue' = <<>> /\ rosGeneration' = rosGeneration + 1 /\ ~Serving'
    BY <1>14 DEF StopPublishing, renderVars, workerVars, Serving
  <2> QED
    BY <1>d, <2>1, EmptyQueue, ClearedCount
<1>15. CASE StopCallbacks
  <2>1. UNCHANGED <<rosFrameQueue, rosGeneration, rosDropped, rosWaitingForIDR, units,
                   workerStage, workerItem, lastPublished>>
    BY <1>15 DEF StopCallbacks, publisherVars, queueVars, renderVars, workerVars
  <2>2. Serving' => Serving
    BY <1>15 DEF Serving, StopCallbacks, publisherVars, StopInv, TypeOK
  <2> QED
    BY <1>d, <2>1, <2>2, KeptCount
<1>16. CASE StopJoin
  <2>1. UNCHANGED <<rosFrameQueue, rosGeneration, rosDropped, rosWaitingForIDR, units,
                   workerStage, workerItem, lastPublished>>
    BY <1>16 DEF StopJoin, callbackVars, consumerVars, publisherVars, queueVars,
       renderVars, workerVars
  <2>2. Serving' => Serving
    BY <1>16 DEF Serving, StopJoin, callbackVars, publisherVars
  <2> QED
    BY <1>d, <2>1, <2>2, KeptCount
<1>17. CASE UNCHANGED vars
  <2>1. UNCHANGED <<rosFrameQueue, rosGeneration, rosDropped, rosWaitingForIDR, units,
                   workerStage, workerItem, lastPublished>>
    BY <1>17 DEF vars, callbackVars, consumerVars, publisherVars, queueVars,
       renderVars, workerVars
  <2>2. Serving' => Serving
    BY <1>17 DEF Serving, vars, callbackVars, publisherVars
  <2> QED
    BY <1>d, <2>1, <2>2, KeptCount
<1>18. CASE Loses
  <2>1. UNCHANGED <<rosFrameQueue, rosGeneration, rosDropped, rosWaitingForIDR, units,
                   workerStage, workerItem, lastPublished>>
    BY <1>18 DEF Loses, callbackVars, consumerVars, publisherVars, queueVars,
       workerVars
  <2>2. Serving' => Serving
    BY <1>18 DEF Serving, Loses, callbackVars, publisherVars
  <2> QED
    BY <1>d, <2>1, <2>2, KeptCount
<1> QED
  BY <1>1, <1>2, <1>3, <1>4, <1>5, <1>6, <1>7, <1>8, <1>9, <1>10, <1>11, <1>12,
     <1>13, <1>14, <1>15, <1>16, <1>17, <1>18 DEF Next, Callbacks, RenderThread, Worker,
     Stop


\* Load: nothing is queued, nothing was published.
LEMMA InitInv == Init => Inv
<1> SUFFICES ASSUME Init PROVE Inv
  OBVIOUS
<1>t. TypeOK
  BY InitTyped
<1>1. HandInv /\ StopInv
  BY DEF Init, HandInv, StopInv, DemandHasConsumer
<1>2. EpochInv
  BY StreamBoundsAssumption DEF Init, EpochInv, Awaited, OpensSoon
<1>3. Len(rosFrameQueue) = 0 /\ 1..Len(rosFrameQueue) = {} /\ ~Current
  BY EmptyQueue DEF Init, Current
<1>4. QueueInv
  BY <1>3 DEF Init, QueueInv
<1>5. ~Serving /\ ~ServedFrames /\ Before = None /\ lastPublished = None
  BY <1>3 DEF Init, Serving, ServedFrames, Before
<1>6. LineInv /\ InfoInv
  BY <1>5 DEF Init, LineInv, InfoInv
<1>7. Unit(Before) = 0 /\ units = 0 /\ rosDropped = 0 /\ workerStage = "idle"
  BY <1>5 DEF Init, Unit
<1>8. LineCounted
  BY <1>3, <1>7 DEF LineCounted
<1>9. rosFrameQueue = <<>>
  BY DEF Init
<1>10. CountInv
  BY <1>3, <1>5, <1>7, <1>8, <1>9 DEF CountInv
<1> QED
  BY <1>t, <1>1, <1>2, <1>4, <1>6, <1>10 DEF Inv

LEMMA InvStep == Inv /\ [Next]_vars => Inv'
  BY TypedStep, HandStep, StopStep, EpochStep, QueueStep, LineStep, InfoStep,
     CountStep DEF Inv

(***************************************************************************)
(* Theorems.                                                               *)
(***************************************************************************)

\* The invariant holds in every reachable state, for every queue capacity.
THEOREM InvariantHolds == Spec => []Inv
<1>1. Init => Inv
  BY InitInv
<1>2. Inv /\ [Next]_vars => Inv'
  BY InvStep
<1> QED
  BY <1>1, <1>2, PTL DEF Spec

\* Every variable holds a value of its type; the queue never outgrows its
\* capacity.
THEOREM TypeCorrect == Spec => []TypeOK
<1>1. Inv => TypeOK
  BY DEF Inv
<1> QED
  BY <1>1, InvariantHolds, PTL

\* The demand the render thread reads is never that of a consumer who left.
THEOREM DemandIsReal == Spec => []DemandHasConsumer
<1>1. Inv => DemandHasConsumer
  BY DEF Inv, StopInv
<1> QED
  BY <1>1, InvariantHolds, PTL

\* After the join nothing is queued and nothing is being published.
THEOREM StopIsFinal == Spec => []StoppedIsQuiet
<1>1. Inv => StoppedIsQuiet
  BY DEF Inv, StopInv, StoppedIsQuiet
<1> QED
  BY <1>1, InvariantHolds, PTL

\* A new epoch turns away what NVENC held back and at most two deltas more
\* before its IDR.
THEOREM EpochsOpenSoon == Spec => []EpochOpensSoon
<1>1. Inv => EpochOpensSoon
  BY DEF Inv, EpochInv, EpochOpensSoon
<1> QED
  BY <1>1, InvariantHolds, PTL

\* What is published is the worker's item, whose stage says it was checked.
LEMMA Published ==
  ASSUME Inv, [Next]_vars, PublishesFrame
  PROVE  workerStage = "publish" /\ lastPublished' = workerItem
<1>1. CASE Callbacks
  BY <1>1 DEF Callbacks, Connect, ConnectEpoch, ConnectForce, ConnectActivate,
     Disconnect, DisconnectWithdraw, PublishesFrame, workerVars
<1>2. CASE RenderThread
  BY <1>2 DEF RenderThread, Encode, Loses, Offer, Enqueue, EncoderReset, PublishesFrame,
     workerVars
<1>3. CASE Worker
  BY <1>3 DEF Worker, Take, CheckGeneration, Publish, PublishesFrame
<1>4. CASE Stop
  BY <1>4 DEF Stop, StopPublishing, StopCallbacks, StopJoin, PublishesFrame,
     workerVars
<1>5. CASE UNCHANGED vars
  BY <1>5 DEF vars, workerVars, PublishesFrame
<1> QED
  BY <1>1, <1>2, <1>3, <1>4, <1>5 DEF Next

\* The published sequence: epochs only grow, each opens with an IDR numbered
\* zero, and no number is missing inside one, whatever callbacks, overflows,
\* resets and withdrawals come between.
THEOREM FramesAreInOrder == Spec => PublishedInOrder
<1>1. ASSUME Inv, [Next]_vars, PublishesFrame
      PROVE  LET new == lastPublished'
                 old == lastPublished
                 continues == old # None /\ new.epoch = old.epoch
             IN  /\ old # None => new.epoch >= old.epoch
                 /\ continues => new.seq > old.seq
                 /\ ~new.orphan =>
                      IF continues THEN new.seq = old.seq + 1
                                   ELSE new.seq = 0 /\ new.key
  <2>1. workerStage = "publish" /\ lastPublished' = workerItem
    BY ONLY <1>1, Published
  <2>2. Follows(workerItem, lastPublished)
    BY <1>1, <2>1 DEF Inv, LineInv
  <2> QED
    BY <2>1, <2>2 DEF Follows
<1> QED
  BY <1>1, InvariantHolds, PTL DEF PublishedInOrder, Spec

\* A recorder finds the metadata of an epoch before the first of its frames.
THEOREM InfoComesFirst == Spec => InfoBeforeFrames
<1>1. ASSUME Inv, [Next]_vars, PublishesFrame /\ ~lastPublished'.orphan
      PROVE  lastPublished'.epoch \in announced
  <2>1. workerStage = "publish" /\ lastPublished' = workerItem
    BY ONLY <1>1, Published
  <2> QED
    BY <1>1, <2>1 DEF Inv, InfoInv
<1> QED
  BY <1>1, InvariantHolds, PTL DEF InfoBeforeFrames, Spec

\* dropped_frames_before never claims more than is missing.
THEOREM DropsAreReal == Spec => DroppedIsNotOvercounted
<1>1. ASSUME Inv, [Next]_vars,
             PublishesFrame /\ (lastPublished # None => ~lastPublished.orphan)
      PROVE  lastPublished'.dropped <= Missing(lastPublished', lastPublished)
  <2>1. workerStage = "publish" /\ lastPublished' = workerItem
    BY ONLY <1>1, Published
  <2> QED
    BY <1>1, <2>1 DEF Inv, CountInv, Comparable
<1> QED
  BY <1>1, InvariantHolds, PTL DEF DroppedIsNotOvercounted, Spec
=============================================================================
