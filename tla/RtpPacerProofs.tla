--------------------------- MODULE RtpPacerProofs ---------------------------
(***************************************************************************)
(* What holds of RtpPacer for every number of batches, units, changes and  *)
(* every delay of the encoder.                                             *)
(***************************************************************************)
EXTENDS RtpPacer, SequenceTheorems, TLAPS

(***************************************************************************)
(* DrainedIsSilent relates two threads' state through two flags that are   *)
(* read without a lock.  It is inductive once it is taken apart: the flag  *)
(* is up whenever the pacer has a unit, and without demand the queue is    *)
(* empty.                                                                  *)
(***************************************************************************)
\* What the pacer has taken is a unit with batches left.
HasAUnit == pacer.stage # "wait" => pacer.unit \in Unit /\ pacer.left >= 1
MarkedWhileTaken == pacer.stage # "wait" => rtpInFlight
QueuedOnDemand == ~desiredActive => rtpQueue = <<>>

\* The empty queue, whatever it may hold.
LEMMA EmptyQueue == ASSUME NEW S PROVE <<>> \in Seq(S) /\ Len(<<>>) = 0
  OBVIOUS

\* What RTPPacerLoop finds and leaves when it takes the front of a queue of at
\* most one access unit.
LEMMA TakeOne ==
  ASSUME NEW S, NEW q \in Seq(S), q # <<>>, Len(q) <= 1
  PROVE  Head(q) \in S /\ Tail(q) = <<>> /\ Tail(q) \in Seq(S)
           /\ Len(Tail(q)) <= 1
  BY HeadTailProperties, LenProperties, EmptySeq

\* The pacer at rest is one of the states the pacer can be in.
Pacers == [stage : {"wait", "taken", "batch", "send"},
           unit : Unit \cup {None}, generation : Nat, left : 0..Batches]
\* RTPPacerLoop waits with no unit in hand.
LEMMA WaitingIsAPacer == Waiting \in Pacers
  BY PacerBoundsAssumption DEF Waiting, Pacers

\* Load's initial values are values the code can store.
LEMMA InitTypeOK == Init => TypeOK
<1> SUFFICES ASSUME Init PROVE TypeOK
  OBVIOUS
<1>1. held \in Seq(Unit) /\ Len(held) <= MaxDelay
  BY EmptyQueue, PacerBoundsAssumption DEF Init
<1>2. rtpQueue \in Seq([unit : Unit, generation : Nat]) /\ Len(rtpQueue) <= 1
  BY EmptyQueue DEF Init
<1>3. pacer \in Pacers
  BY WaitingIsAPacer DEF Init
<1> QED
  BY <1>1, <1>2, <1>3 DEF Init, TypeOK, Pacers

\* A step keeps every variable in its type; the queue never holds two units.
LEMMA StepTypeOK == TypeOK /\ HasAUnit /\ [Next]_vars => TypeOK'
<1> SUFFICES ASSUME TypeOK, HasAUnit, [Next]_vars PROVE TypeOK'
  OBVIOUS
<1> USE PacerBoundsAssumption
<1>1. CASE StreamChanges
  <2> <<>> \in Seq(Unit) /\ Len(<<>>) = 0
    BY EmptyQueue
  <2>1. held' \in Seq(Unit) /\ Len(held') <= MaxDelay
    <3>1. held' = <<>> \/ held' = held
      BY <1>1 DEF StreamChanges, DoNotAsk
    <3>2. CASE held' = <<>>
      BY <3>2, PacerBoundsAssumption
    <3>3. CASE held' = held
      BY <3>3 DEF TypeOK
    <3> QED BY <3>1, <3>2, <3>3
  <2>2. forceKeyframe' \in BOOLEAN /\ asked' \in Nat /\ desiredActive' \in BOOLEAN
    BY <1>1 DEF TypeOK, StreamChanges, AskForIDR, DoNotAsk
  <2>3. /\ rtpQueue' \in Seq([unit : Unit, generation : Nat]) /\ Len(rtpQueue') <= 1
        /\ rtpGeneration' \in Nat
    <3>1. CASE ClearRTPQueue
      BY <3>1, EmptyQueue DEF TypeOK, ClearRTPQueue
    <3>2. CASE UNCHANGED queueVars
      BY <3>2 DEF TypeOK, queueVars
    <3> QED BY <1>1, <3>1, <3>2 DEF StreamChanges, queueVars
  <2> QED
    BY <1>1, <2>1, <2>2, <2>3 DEF TypeOK, StreamChanges, pacerVars
<1>2. CASE EncoderReset
  <2>1. held' \in Seq(Unit) /\ Len(held') <= MaxDelay
    BY <1>2, EmptyQueue DEF TypeOK, EncoderReset
  <2>2. /\ rtpQueue' \in Seq([unit : Unit, generation : Nat]) /\ Len(rtpQueue') <= 1
        /\ rtpGeneration' \in Nat
    <3>1. CASE ClearRTPQueue
      BY <3>1, EmptyQueue DEF TypeOK, ClearRTPQueue
    <3>2. CASE UNCHANGED queueVars
      BY <3>2 DEF TypeOK, queueVars
    <3> QED BY <1>2, <3>1, <3>2 DEF EncoderReset
  <2> QED
    BY <1>2, <2>1, <2>2 DEF TypeOK, EncoderReset, AskForIDR, pacerVars
<1>3. CASE Encode
  <2>1. PICK key \in BOOLEAN :
          LET all == Append(held, [number |-> submitted', key |-> key])
          IN  \/ output' = Head(all) /\ held' = Tail(all)
              \/ Len(all) <= MaxDelay /\ held' = all /\ UNCHANGED output
    BY <1>3 DEF Encode
  <2> DEFINE all == Append(held, [number |-> submitted', key |-> key])
  <2>2. submitted' = submitted + 1 /\ submitted' \in Nat
    BY <1>3 DEF Encode, TypeOK
  <2>3. [number |-> submitted', key |-> key] \in Unit
    BY <2>2 DEF Unit
  <2>4. all \in Seq(Unit) /\ Len(all) = Len(held) + 1 /\ all # <<>>
    BY <2>3 DEF TypeOK
  <2>5. CASE output' = Head(all) /\ held' = Tail(all)
    <3> HIDE DEF all
    <3>1. Head(all) \in Unit /\ Tail(all) \in Seq(Unit)
      BY <2>4, HeadTailProperties
    <3>2. Len(Tail(all)) = Len(all) - 1
      BY <2>4, HeadTailProperties
    <3>3. Len(Tail(all)) <= MaxDelay
      BY <2>4, <3>2 DEF TypeOK
    <3> QED
      BY <1>3, <2>2, <2>5, <3>1, <3>3 DEF TypeOK, Encode, queueVars, pacerVars
  <2>6. CASE Len(all) <= MaxDelay /\ held' = all /\ UNCHANGED output
    <3> HIDE DEF all
    <3> QED
      BY <1>3, <2>2, <2>4, <2>6 DEF TypeOK, Encode, queueVars, pacerVars
  <2> QED
    BY <2>1, <2>5, <2>6
<1>4. CASE Enqueue
  <2>1. output \in Unit
    BY <1>4 DEF Enqueue, TypeOK
  <2>2. /\ rtpQueue' \in Seq([unit : Unit, generation : Nat]) /\ Len(rtpQueue') <= 1
        /\ rtpGeneration' \in Nat /\ forceKeyframe' \in BOOLEAN /\ asked' \in Nat
        /\ failed' \in BOOLEAN /\ lost' \subseteq Nat
    <3>0. CASE Loses
      <4>1. output.number \in Nat
        BY <2>1 DEF Unit
      <4> QED
        BY <3>0, <4>1 DEF TypeOK, Loses, DoNotAsk, queueVars
    <3>1. CASE TooLarge
      BY <3>1 DEF TypeOK, TooLarge, AskForIDR, queueVars
    <3>2. CASE FallsBehind
      BY <3>2 DEF TypeOK, FallsBehind, ClearRTPQueue, AskForIDR
    <3>3. CASE IsQueued
      <4>1. rtpGeneration' \in Nat
        BY <3>3 DEF IsQueued, TypeOK
      <4>2. [unit |-> output, generation |-> rtpGeneration'] \in
              [unit : Unit, generation : Nat]
        BY <4>1, <2>1
      <4>3. rtpQueue' = <<[unit |-> output, generation |-> rtpGeneration']>>
        BY <3>3 DEF IsQueued
      <4>4. rtpQueue' \in Seq([unit : Unit, generation : Nat]) /\ Len(rtpQueue') <= 1
        BY <4>2, <4>3
      <4> QED
        BY <3>3, <4>1, <4>4 DEF TypeOK, IsQueued, DoNotAsk
    <3>4. CASE DoNotAsk /\ UNCHANGED <<queueVars, failed, lost>>
      BY <3>4 DEF TypeOK, DoNotAsk, queueVars
    <3> QED BY <1>4, <3>0, <3>1, <3>2, <3>3, <3>4 DEF Enqueue
  <2> QED
    BY <1>4, <2>2 DEF TypeOK, Enqueue, pacerVars
<1>5. CASE Take
  <2>1. /\ Head(rtpQueue) \in [unit : Unit, generation : Nat]
        /\ Tail(rtpQueue) \in Seq([unit : Unit, generation : Nat])
        /\ Len(Tail(rtpQueue)) <= 1
    BY <1>5, TakeOne DEF Take, TypeOK
  <2>2. pacer' \in Pacers
    BY <1>5, <2>1 DEF Take, Pacers
  <2> QED
    BY <1>5, <2>1, <2>2 DEF TypeOK, Take, PacerLeaves, renderVars, Pacers
<1>6. CASE Withdrawn
  BY <1>6, WaitingIsAPacer DEF TypeOK, Withdrawn, PacerLeaves, renderVars, Pacers
<1>7. CASE Proceed
  <2>1. pacer' \in Pacers
    BY <1>7 DEF TypeOK, Proceed, Pacers
  <2> QED
    BY <1>7, <2>1 DEF TypeOK, Proceed, PacerLeaves, renderVars, Pacers
<1>8. CASE SendBatch
  <2>1. pacer.unit \in Unit /\ pacer.left \in 1..Batches /\ pacer \in Pacers
    BY <1>8 DEF SendBatch, TypeOK, HasAUnit, Pacers
  <2>2. CASE pacer.left = 1
    <3>1. sent' \in Nat
      BY <1>8, <2>1, <2>2 DEF SendBatch, Unit
    <3> QED
      BY <1>8, <2>2, <3>1, WaitingIsAPacer
      DEF TypeOK, SendBatch, PacerLeaves, renderVars, Pacers
  <2>3. CASE pacer.left # 1
    <3>1. pacer.left - 1 \in 0..Batches
      BY <2>1
    <3>2. pacer' = [pacer EXCEPT !.stage = "batch", !.left = pacer.left - 1]
      BY <1>8, <2>3 DEF SendBatch
    <3>3. pacer' \in Pacers
      BY <2>1, <3>1, <3>2 DEF Pacers
    <3> QED
      BY <1>8, <2>3, <3>3 DEF TypeOK, SendBatch, PacerLeaves, renderVars, Pacers
  <2> QED
    BY <2>2, <2>3
<1>9. CASE StopRTPPacer
  BY <1>9 DEF TypeOK, StopRTPPacer, ClearRTPQueue, renderVars, pacerVars
<1>10. CASE UNCHANGED vars
  BY <1>10 DEF TypeOK, vars, renderVars, queueVars, pacerVars
<1>11. CASE EncodeRefused
  BY <1>11 DEF TypeOK, EncodeRefused, queueVars, pacerVars
<1>12. CASE FailNativeEncoderTransition
  <2>1. held' \in Seq(Unit) /\ Len(held') <= MaxDelay
    <3>1. held' = <<>> \/ held' = held
      BY <1>12 DEF FailNativeEncoderTransition
    <3>2. CASE held' = <<>>
      BY <3>2, EmptyQueue
    <3>3. CASE held' = held
      BY <3>3 DEF TypeOK
    <3> QED BY <3>1, <3>2, <3>3
  <2>2. /\ rtpQueue' \in Seq([unit : Unit, generation : Nat]) /\ Len(rtpQueue') <= 1
        /\ rtpGeneration' \in Nat
    <3>1. CASE ClearRTPQueue
      BY <3>1, EmptyQueue DEF TypeOK, ClearRTPQueue
    <3>2. CASE UNCHANGED queueVars
      BY <3>2 DEF TypeOK, queueVars
    <3> QED BY <1>12, <3>1, <3>2 DEF FailNativeEncoderTransition
  <2> QED
    BY <1>12, <2>1, <2>2
    DEF TypeOK, FailNativeEncoderTransition, AskForIDR, pacerVars
<1> QED
  BY <1>1, <1>2, <1>3, <1>4, <1>5, <1>6, <1>7, <1>8, <1>9, <1>10, <1>11, <1>12
  DEF Next, Pacer

\* EnqueueRTPAccessUnit puts whole access units in the queue, and a batch is
\* only sent of a unit that was taken from it.
LEMMA StepHasAUnit == TypeOK /\ HasAUnit /\ [Next]_vars => HasAUnit'
<1> SUFFICES ASSUME TypeOK, HasAUnit, [Next]_vars PROVE HasAUnit'
  OBVIOUS
<1>1. CASE Take
  <2>1. Head(rtpQueue) \in [unit : Unit, generation : Nat]
    BY <1>1, TakeOne DEF Take, TypeOK
  <2> QED
    BY <1>1, <2>1, PacerBoundsAssumption DEF HasAUnit, Take
<1>2. CASE Withdrawn
  BY <1>2 DEF HasAUnit, Withdrawn, Waiting
<1>3. CASE Proceed
  BY <1>3 DEF HasAUnit, Proceed, TypeOK
<1>4. CASE SendBatch
  <2>1. pacer.unit \in Unit /\ pacer.left \in 1..Batches /\ pacer \in Pacers
    BY <1>4 DEF SendBatch, TypeOK, HasAUnit, Pacers
  <2>2. CASE pacer.left = 1
    BY <1>4, <2>2 DEF HasAUnit, SendBatch, Waiting
  <2>3. CASE pacer.left # 1
    <3>1. pacer' = [pacer EXCEPT !.stage = "batch", !.left = pacer.left - 1]
      BY <1>4, <2>3 DEF SendBatch
    <3>2. pacer'.unit = pacer.unit /\ pacer'.left = pacer.left - 1
      BY <2>1, <3>1 DEF Pacers
    <3> QED BY <2>1, <2>3, <3>2, PacerBoundsAssumption DEF HasAUnit
  <2> QED BY <2>2, <2>3
<1>5. CASE UNCHANGED pacer
  BY <1>5 DEF HasAUnit
<1>6. StreamChanges \/ EncoderReset \/ Encode \/ Enqueue \/ EncodeRefused
        \/ FailNativeEncoderTransition \/ StopRTPPacer
        \/ UNCHANGED vars => UNCHANGED pacer
  BY DEF StreamChanges, EncoderReset, Encode, Enqueue, EncodeRefused,
         FailNativeEncoderTransition, StopRTPPacer, vars, pacerVars
<1> QED
  BY <1>1, <1>2, <1>3, <1>4, <1>5, <1>6 DEF Next, Pacer

\* The variables hold what the code can store in them in every state, for
\* every delay of NVENC and every split of an access unit into batches.
THEOREM TypeCorrect == Spec => []TypeOK
<1>1. Init => TypeOK /\ HasAUnit
  BY InitTypeOK DEF Init, HasAUnit, Waiting
<1>2. (TypeOK /\ HasAUnit) /\ [Next]_vars => (TypeOK /\ HasAUnit)'
  BY StepTypeOK, StepHasAUnit
<1> QED
  BY <1>1, <1>2, PTL DEF Spec

\* The flag is raised under the lock that empties the queue, and lowered with
\* the last batch or the withdrawal.
LEMMA StepMarked == MarkedWhileTaken /\ [Next]_vars => MarkedWhileTaken'
<1> SUFFICES ASSUME MarkedWhileTaken, [Next]_vars PROVE MarkedWhileTaken'
  OBVIOUS
<1>1. CASE Take
  BY <1>1 DEF MarkedWhileTaken, Take
<1>2. CASE Withdrawn
  BY <1>2 DEF MarkedWhileTaken, Withdrawn, Waiting
<1>3. CASE Proceed
  BY <1>3 DEF MarkedWhileTaken, Proceed
<1>4. CASE SendBatch
  <2>1. CASE pacer.left = 1
    BY <1>4, <2>1 DEF MarkedWhileTaken, SendBatch, Waiting
  <2>2. CASE pacer.left # 1
    <3>1. rtpInFlight /\ UNCHANGED rtpInFlight
      BY <1>4, <2>2 DEF MarkedWhileTaken, SendBatch
    <3> QED BY <3>1 DEF MarkedWhileTaken
  <2> QED BY <2>1, <2>2
<1>5. CASE UNCHANGED pacerVars
  BY <1>5 DEF MarkedWhileTaken, pacerVars
<1>6. StreamChanges \/ EncoderReset \/ Encode \/ Enqueue \/ EncodeRefused
        \/ FailNativeEncoderTransition \/ StopRTPPacer
        \/ UNCHANGED vars => UNCHANGED pacerVars
  BY DEF StreamChanges, EncoderReset, Encode, Enqueue, EncodeRefused,
         FailNativeEncoderTransition, StopRTPPacer, vars
<1> QED
  BY <1>1, <1>2, <1>3, <1>4, <1>5, <1>6 DEF Next, Pacer

\* A stop empties the queue as it withdraws the demand, and nothing is queued
\* until the demand is back.
LEMMA StepQueued == TypeOK /\ QueuedOnDemand /\ [Next]_vars => QueuedOnDemand'
<1> SUFFICES ASSUME TypeOK, QueuedOnDemand, [Next]_vars PROVE QueuedOnDemand'
  OBVIOUS
<1>1. CASE StreamChanges
  BY <1>1 DEF QueuedOnDemand, StreamChanges, ClearRTPQueue
<1>2. CASE EncoderReset
  BY <1>2 DEF QueuedOnDemand, EncoderReset, ClearRTPQueue, queueVars
<1>3. CASE Enqueue
  <2>1. CASE desiredActive
    BY <1>3, <2>1 DEF QueuedOnDemand, Enqueue
  <2>2. CASE ~desiredActive
    BY <1>3, <2>2 DEF QueuedOnDemand, Enqueue, Loses, queueVars
  <2> QED BY <2>1, <2>2
<1>4. CASE Take
  <2>1. Tail(rtpQueue) = <<>>
    BY <1>4, TakeOne DEF Take, TypeOK
  <2> QED
    BY <1>4, <2>1 DEF QueuedOnDemand, Take
<1>5. CASE StopRTPPacer
  BY <1>5 DEF QueuedOnDemand, StopRTPPacer, ClearRTPQueue
<1>6. CASE UNCHANGED <<desiredActive, rtpQueue>>
  BY <1>6 DEF QueuedOnDemand
<1>8. CASE FailNativeEncoderTransition
  BY <1>8 DEF QueuedOnDemand, FailNativeEncoderTransition, ClearRTPQueue, queueVars
<1>7. Encode \/ EncodeRefused \/ Withdrawn \/ Proceed \/ SendBatch \/ UNCHANGED vars
        => UNCHANGED <<desiredActive, rtpQueue>>
  BY DEF Encode, EncodeRefused, Withdrawn, Proceed, SendBatch, vars, queueVars,
         PacerLeaves, renderVars
<1> QED
  BY <1>1, <1>2, <1>3, <1>4, <1>5, <1>6, <1>7, <1>8 DEF Next, Pacer

\* What CompleteNativeStopIfDrained relies on: the two flags it reads without
\* rtpPacerMutex_ tell that the pacer has nothing more to send.
THEOREM DrainedStaysSilent == Spec => []DrainedIsSilent
<1>1. Init => MarkedWhileTaken /\ QueuedOnDemand
  BY DEF Init, MarkedWhileTaken, QueuedOnDemand, Waiting
<1>2. TypeOK /\ (MarkedWhileTaken /\ QueuedOnDemand) /\ [Next]_vars
        => (MarkedWhileTaken /\ QueuedOnDemand)'
  BY StepMarked, StepQueued
<1>3. MarkedWhileTaken /\ QueuedOnDemand => DrainedIsSilent
  BY DEF MarkedWhileTaken, QueuedOnDemand, DrainedIsSilent
<1> QED
  BY <1>1, <1>2, <1>3, TypeCorrect, PTL DEF Spec

-----------------------------------------------------------------------------
(***************************************************************************)
(* The reference chain.  Units are numbered as they are submitted, and     *)
(* what lies between NVENC and the pacer is one run of numbers.  The last  *)
(* unit that was offered for RTP is the one a next delta refers to; while  *)
(* it was submitted after the last IDR was asked for, it is in the queue,  *)
(* with the pacer and not withdrawn, or sent: every way the queue and the  *)
(* pacer lose it asks for an IDR, and no delta is the first unit behind    *)
(* that.  A unit lost before the queue is the exception, by its number.    *)
(***************************************************************************)
Numbered ==
  /\ \A i \in 1..Len(held) : held[i].number = submitted - Len(held) + i
  /\ output # None => output.number = submitted - Len(held)
KeyComesFirst ==
  /\ asked <= submitted
  /\ submitted = asked => forceKeyframe
  /\ \A i \in 1..Len(held) : held[i].number = asked + 1 => held[i].key
  /\ (output # None /\ output.number = asked + 1) => output.key
QueueIsCurrent ==
  rtpQueue # <<>> =>
    rtpQueue[1].generation = rtpGeneration /\ rtpQueue[1].unit.number <= submitted
PacerIsBehind ==
  pacer.stage # "wait" =>
    pacer.unit.number <= submitted /\ pacer.generation <= rtpGeneration

\* Number n is the last the pacer was given: it sends it, or has sent it.
Given(n) ==
  \/ pacer.stage # "wait" /\ Current /\ pacer.unit.number = n
  \/ pacer.stage = "wait" /\ sent = n
Offered == IF output = None THEN submitted - Len(held) ELSE submitted - Len(held) - 1

LastIsKept ==
  (desiredActive /\ ~rtpStopping /\ Offered > asked /\ Offered \notin lost) =>
    IF rtpQueue = <<>> THEN Given(Offered) ELSE rtpQueue[1].unit.number = Offered
QueuedFollows ==
  (rtpQueue # <<>> /\ ~rtpStopping /\ ~rtpQueue[1].unit.key
     /\ rtpQueue[1].unit.number > asked
     /\ rtpQueue[1].unit.number - 1 \notin lost) => Given(rtpQueue[1].unit.number - 1)
TakenFollows ==
  (pacer.stage # "wait" /\ Current /\ ~rtpStopping /\ ~pacer.unit.key
     /\ pacer.unit.number > asked /\ pacer.unit.number - 1 \notin lost)
  => sent = pacer.unit.number - 1

OrderInv == Numbered /\ KeyComesFirst /\ QueueIsCurrent /\ PacerIsBehind
ChainInv == OrderInv /\ LastIsKept /\ QueuedFollows /\ TakenFollows

LEMMA InitChain == Init => ChainInv
<1> SUFFICES ASSUME Init PROVE ChainInv
  OBVIOUS
<1>1. OrderInv
  BY DEF Init, OrderInv, Numbered, KeyComesFirst, QueueIsCurrent, PacerIsBehind, Waiting
<1>2. LastIsKept /\ QueuedFollows /\ TakenFollows
  BY DEF Init, LastIsKept, QueuedFollows, TakenFollows, Waiting
<1> QED
  BY <1>1, <1>2 DEF ChainInv

\* Encode: the new unit gets the next number, and is an IDR when one was asked
\* for since the unit before it; what leaves NVENC is its oldest unit.
LEMMA EncodeOrder ==
  ASSUME TypeOK, Numbered, KeyComesFirst, Encode
  PROVE  Numbered' /\ KeyComesFirst' /\ (LastIsKept => LastIsKept')
<1>1. PICK key \in BOOLEAN :
        LET all == Append(held, [number |-> submitted', key |-> key])
        IN  /\ forceKeyframe => key
            /\ \/ output' = Head(all) /\ held' = Tail(all)
               \/ Len(all) <= MaxDelay /\ held' = all /\ UNCHANGED output
  BY DEF Encode
<1> DEFINE unit == [number |-> submitted', key |-> key]
           all == Append(held, unit)
<1>2. /\ output = None /\ submitted' = submitted + 1 /\ asked' = asked
      /\ UNCHANGED <<desiredActive, rtpQueue, rtpGeneration, rtpStopping, pacer,
                     lost, sent>>
  BY DEF Encode, BetweenFrames, queueVars, pacerVars
<1>3. /\ submitted \in Nat /\ asked \in Nat /\ asked <= submitted
      /\ held \in Seq(Unit) /\ Len(held) \in Nat
  BY DEF TypeOK, KeyComesFirst
<1>4. unit \in Unit /\ unit.number = submitted + 1 /\ (unit.key <=> key)
  BY <1>2, <1>3 DEF Unit
<1>5. unit.number = asked + 1 => unit.key
  BY <1>1, <1>3, <1>4 DEF KeyComesFirst
<1>6. /\ all \in Seq(Unit) /\ Len(all) = Len(held) + 1 /\ all # <<>>
      /\ \A i \in 1..Len(held) : all[i] = held[i]
      /\ all[Len(held) + 1] = unit
  BY <1>3, <1>4
<1>7. \/ output' = Head(all) /\ held' = Tail(all)
      \/ held' = all /\ output' = None
  BY <1>1, <1>2
<1> HIDE DEF all, unit
<1>8. \A i \in 1..Len(all) :
        /\ all[i].number = submitted - Len(held) + i
        /\ all[i].number = asked + 1 => all[i].key
  <2> SUFFICES ASSUME NEW i \in 1..Len(all)
               PROVE  /\ all[i].number = submitted - Len(held) + i
                      /\ all[i].number = asked + 1 => all[i].key
    OBVIOUS
  <2>1. CASE i \in 1..Len(held)
    BY <1>6, <2>1 DEF Numbered, KeyComesFirst
  <2>2. CASE i = Len(held) + 1
    BY <1>3, <1>4, <1>5, <1>6, <2>2
  <2> QED
    BY <1>3, <1>6, <2>1, <2>2
<1>9. submitted' \in Nat /\ asked' < submitted'
  BY <1>2, <1>3
<1>10. CASE held' = all /\ output' = None
  <2> DEFINE before == submitted - Len(held)
  <2>a. before \in Int /\ submitted' - Len(held') = before
    BY <1>2, <1>3, <1>6, <1>10
  <2>b. \A i \in 1..Len(held') : held'[i].number = before + i
    BY <1>8, <1>10
  <2> HIDE DEF before
  <2>1. Numbered'
    BY <1>10, <2>a, <2>b DEF Numbered
  <2>2. KeyComesFirst'
    BY <1>2, <1>3, <1>8, <1>9, <1>10 DEF KeyComesFirst
  <2>3. Offered' = Offered
    BY <1>2, <1>3, <1>6, <1>10 DEF Offered
  <2> QED
    BY <1>2, <2>1, <2>2, <2>3 DEF LastIsKept, Given, Current
<1>11. CASE output' = Head(all) /\ held' = Tail(all)
  <2>1. /\ output' = all[1] /\ Len(held') = Len(held)
        /\ \A i \in 1..Len(held) : held'[i] = all[i + 1]
    BY <1>3, <1>6, <1>11
  <2>2. 1 \in 1..Len(all) /\ \A i \in 1..Len(held) : i + 1 \in 1..Len(all)
    BY <1>3, <1>6
  <2>3. output' \in Unit /\ output' # None
    BY <1>6, <2>1, <2>2, NoUnitAssumption
  <2>4. output'.number = submitted' - Len(held')
    BY <1>2, <1>3, <1>8, <2>1, <2>2
  <2>5. \A i \in 1..Len(held') : held'[i].number = submitted' - Len(held') + i
    BY <1>2, <1>3, <1>8, <2>1, <2>2
  <2>6. Numbered'
    BY <2>4, <2>5 DEF Numbered
  <2>k. \A i \in 1..Len(held') : held'[i].number = asked + 1 => held'[i].key
    BY <1>8, <2>1, <2>2
  <2>l. output'.number = asked + 1 => output'.key
    BY <1>8, <2>1, <2>2
  <2>7. KeyComesFirst'
    BY <1>2, <1>3, <1>9, <2>k, <2>l DEF KeyComesFirst
  <2>8. Offered' = Offered
    BY <1>2, <1>3, <2>1, <2>3 DEF Offered
  <2> QED
    BY <1>2, <2>6, <2>7, <2>8 DEF LastIsKept, Given, Current
<1> QED
  BY <1>7, <1>10, <1>11

\* The other steps: what is held back stays or is destroyed, the output stays or
\* is offered, and an IDR is asked for behind everything submitted.
LEMMA OrderKept ==
  ASSUME TypeOK, Numbered, KeyComesFirst, submitted' = submitted,
         held' \in {held, <<>>}, output' \in {output, None},
         \/ asked' = submitted /\ forceKeyframe' = TRUE
         \/ UNCHANGED <<asked, forceKeyframe>>,
         output # None => held' = held
  PROVE  Numbered' /\ KeyComesFirst'
<1>1. /\ submitted \in Nat /\ asked \in Nat /\ asked <= submitted
      /\ held \in Seq(Unit) /\ Len(held) \in Nat /\ Len(<<>>) = 0
  BY EmptyQueue DEF TypeOK, KeyComesFirst
<1>2. \A i \in 1..Len(held') : i \in 1..Len(held) /\ held'[i] = held[i] /\ held' = held
  BY <1>1
<1>3. Numbered'
  BY <1>1, <1>2 DEF Numbered
<1>4. \A i \in 1..Len(held') : held'[i].number <= submitted
  <2> SUFFICES ASSUME NEW i \in 1..Len(held')
               PROVE  held'[i].number <= submitted
    OBVIOUS
  <2>1. /\ i \in Nat /\ i <= Len(held)
        /\ held'[i].number = submitted - Len(held) + i
    BY <1>1, <1>2 DEF Numbered
  <2> QED
    BY <1>1, <2>1
<1>5. output' # None => output' = output /\ output.number <= submitted
  BY <1>1 DEF Numbered
<1>6. CASE asked' = submitted /\ forceKeyframe' = TRUE
  <2>1. \A i \in 1..Len(held') : held'[i].number # asked' + 1
    BY <1>1, <1>4, <1>6
  <2>2. output' # None => output'.number # asked' + 1
    BY <1>1, <1>5, <1>6
  <2> QED
    BY <1>1, <1>3, <1>6, <2>1, <2>2 DEF KeyComesFirst
<1>7. CASE UNCHANGED <<asked, forceKeyframe>>
  BY <1>2, <1>3, <1>5, <1>7 DEF KeyComesFirst
<1> QED
  BY <1>6, <1>7

\* The numbers, the queue's generation and the pacer's.
LEMMA StepOrder == TypeOK /\ HasAUnit /\ OrderInv /\ [Next]_vars => OrderInv'
<1> SUFFICES ASSUME TypeOK, HasAUnit, OrderInv, [Next]_vars PROVE OrderInv'
  OBVIOUS
<1>n. Numbered /\ KeyComesFirst /\ QueueIsCurrent /\ PacerIsBehind
  BY DEF OrderInv
<1>t. rtpGeneration \in Nat /\ submitted \in Nat
  BY DEF TypeOK
<1>q. /\ rtpQueue # <<>> => rtpQueue[1] \in [unit : Unit, generation : Nat]
      /\ pacer \in Pacers
  <2>1. rtpQueue # <<>> => rtpQueue[1] = Head(rtpQueue)
    BY DEF TypeOK
  <2>2. rtpQueue # <<>> => Head(rtpQueue) \in [unit : Unit, generation : Nat]
    BY TakeOne DEF TypeOK
  <2> QED
    BY <2>1, <2>2 DEF TypeOK, Pacers
<1>1. ASSUME ClearRTPQueue \/ UNCHANGED queueVars,
             UNCHANGED <<pacer, submitted>>
      PROVE  QueueIsCurrent' /\ PacerIsBehind'
  <2>1. CASE ClearRTPQueue
    BY <1>1, <1>n, <1>t, <1>q, <2>1
    DEF ClearRTPQueue, QueueIsCurrent, PacerIsBehind, Pacers
  <2>2. CASE UNCHANGED queueVars
    BY <1>1, <1>n, <2>2 DEF queueVars, QueueIsCurrent, PacerIsBehind
  <2> QED
    BY <1>1, <2>1, <2>2
<1>2. ASSUME UNCHANGED <<submitted, held, output, asked, forceKeyframe>>
      PROVE  Numbered' /\ KeyComesFirst'
  BY <1>2, <1>n DEF Numbered, KeyComesFirst
<1>3. CASE StreamChanges
  <2>1. /\ held' \in {held, <<>>} /\ output' = output /\ output = None
        /\ UNCHANGED <<pacer, submitted>>
        /\ ClearRTPQueue \/ UNCHANGED queueVars
    BY <1>3 DEF StreamChanges, BetweenFrames, pacerVars, queueVars, ClearRTPQueue
  <2>2. \/ asked' = submitted /\ forceKeyframe' = TRUE
        \/ UNCHANGED <<asked, forceKeyframe>>
    BY <1>3 DEF StreamChanges, AskForIDR, DoNotAsk
  <2>3. Numbered' /\ KeyComesFirst'
    BY <1>n, <2>1, <2>2, OrderKept
  <2> QED
    BY <1>1, <2>1, <2>3 DEF OrderInv
<1>4. CASE EncoderReset
  <2>1. /\ held' \in {held, <<>>} /\ output' = output /\ output = None
        /\ UNCHANGED <<pacer, submitted>>
        /\ ClearRTPQueue \/ UNCHANGED queueVars
        /\ asked' = submitted /\ forceKeyframe' = TRUE
    BY <1>4 DEF EncoderReset, BetweenFrames, pacerVars, AskForIDR
  <2>2. Numbered' /\ KeyComesFirst'
    BY <1>n, <2>1, OrderKept
  <2> QED
    BY <1>1, <2>1, <2>2 DEF OrderInv
<1>5. CASE Encode
  <2>1. Numbered' /\ KeyComesFirst'
    BY <1>5, <1>n, EncodeOrder
  <2>2. UNCHANGED <<queueVars, pacer>> /\ submitted' = submitted + 1
    BY <1>5 DEF Encode, pacerVars
  <2>3. QueueIsCurrent' /\ PacerIsBehind'
    BY <1>n, <1>t, <1>q, <2>2, HasAUnit
    DEF QueueIsCurrent, PacerIsBehind, queueVars, Unit, HasAUnit
  <2> QED
    BY <2>1, <2>3 DEF OrderInv
<1>6. CASE Enqueue
  <2>1. /\ output # None /\ output' = None /\ held' = held
        /\ UNCHANGED <<pacer, submitted>>
    BY <1>6 DEF Enqueue, pacerVars
  <2>2. \/ asked' = submitted /\ forceKeyframe' = TRUE
        \/ UNCHANGED <<asked, forceKeyframe>>
    BY <1>6 DEF Enqueue, Loses, TooLarge, FallsBehind, IsQueued, AskForIDR, DoNotAsk
  <2>3. Numbered' /\ KeyComesFirst'
    BY <1>n, <2>1, <2>2, OrderKept
  <2>4. \/ IsQueued \/ ClearRTPQueue \/ UNCHANGED queueVars
    BY <1>6 DEF Enqueue, Loses, TooLarge, FallsBehind
  <2>5. CASE IsQueued
    <3>1. output \in Unit /\ output.number \in Nat /\ output.number <= submitted
      <4>1. output \in Unit /\ Len(held) \in Nat
        BY <2>1 DEF TypeOK
      <4>2. output.number \in Nat
        BY <4>1 DEF Unit
      <4> QED
        BY <1>n, <1>t, <2>1, <4>1, <4>2 DEF Numbered
    <3>2. /\ rtpQueue' = <<[unit |-> output, generation |-> rtpGeneration']>>
          /\ rtpGeneration' \in {rtpGeneration, rtpGeneration + 1}
      BY <2>5 DEF IsQueued
    <3>3. /\ rtpQueue'[1].unit = output
          /\ rtpQueue'[1].generation = rtpGeneration'
      BY <3>2
    <3>4. QueueIsCurrent'
      BY <2>1, <3>1, <3>3 DEF QueueIsCurrent
    <3>5. PacerIsBehind'
      BY <1>n, <1>t, <1>q, <2>1, <3>2 DEF PacerIsBehind, Pacers
    <3> QED
      BY <2>3, <3>4, <3>5 DEF OrderInv
  <2> QED
    BY <1>1, <2>1, <2>3, <2>4, <2>5 DEF OrderInv
<1>7. CASE Take
  <2>1. /\ rtpQueue # <<>> /\ rtpQueue' = Tail(rtpQueue)
        /\ pacer'.unit = Head(rtpQueue).unit
        /\ pacer'.generation = Head(rtpQueue).generation
        /\ UNCHANGED <<submitted, held, output, asked, forceKeyframe, rtpGeneration>>
    BY <1>7 DEF Take, PacerLeaves, renderVars
  <2>2. Head(rtpQueue) = rtpQueue[1] /\ Tail(rtpQueue) = <<>>
    BY <2>1, TakeOne DEF TypeOK
  <2>3. QueueIsCurrent' /\ PacerIsBehind'
    BY <1>n, <1>t, <1>q, <2>1, <2>2 DEF QueueIsCurrent, PacerIsBehind
  <2> QED
    BY <1>2, <2>1, <2>3 DEF OrderInv
<1>8. CASE Withdrawn \/ Proceed \/ SendBatch
  <2>1. /\ UNCHANGED <<submitted, held, output, asked, forceKeyframe, rtpQueue,
                       rtpGeneration>>
        /\ pacer'.stage # "wait" =>
             /\ pacer.stage # "wait" /\ pacer'.unit = pacer.unit
             /\ pacer'.generation = pacer.generation
    <3>1. CASE Withdrawn
      BY <3>1 DEF Withdrawn, PacerLeaves, renderVars, Waiting
    <3>2. CASE Proceed
      BY <1>q, <3>2 DEF Proceed, PacerLeaves, renderVars, Pacers
    <3>3. CASE SendBatch /\ pacer.left = 1
      BY <3>3 DEF SendBatch, PacerLeaves, renderVars, Waiting
    <3>4. CASE SendBatch /\ pacer.left # 1
      <4>1. pacer' = [pacer EXCEPT !.stage = "batch", !.left = pacer.left - 1]
        BY <3>4 DEF SendBatch
      <4> QED
        BY <1>q, <3>4, <4>1 DEF SendBatch, PacerLeaves, renderVars, Pacers
    <3> QED
      BY <1>8, <3>1, <3>2, <3>3, <3>4
  <2>2. QueueIsCurrent' /\ PacerIsBehind'
    BY <1>n, <2>1 DEF QueueIsCurrent, PacerIsBehind
  <2> QED
    BY <1>2, <2>1, <2>2 DEF OrderInv
<1>9. CASE StopRTPPacer
  <2>1. /\ ClearRTPQueue
        /\ UNCHANGED <<pacer, submitted, held, output, asked, forceKeyframe>>
    BY <1>9 DEF StopRTPPacer, renderVars, pacerVars
  <2> QED
    BY <1>1, <1>2, <2>1 DEF OrderInv
<1>10. CASE UNCHANGED vars
  BY <1>1, <1>2, <1>10 DEF vars, renderVars, pacerVars, OrderInv
<1>11. CASE EncodeRefused
  <2>1. UNCHANGED <<submitted, held, output, asked, forceKeyframe, queueVars, pacer>>
    BY <1>11 DEF EncodeRefused, pacerVars
  <2> QED
    BY <1>1, <1>2, <2>1 DEF OrderInv
<1>12. CASE FailNativeEncoderTransition
  <2>1. /\ held' \in {held, <<>>} /\ output' = output /\ output = None
        /\ UNCHANGED <<pacer, submitted>>
        /\ ClearRTPQueue \/ UNCHANGED queueVars
    BY <1>12 DEF FailNativeEncoderTransition, pacerVars
  <2>2. \/ asked' = submitted /\ forceKeyframe' = TRUE
        \/ UNCHANGED <<asked, forceKeyframe>>
    BY <1>12 DEF FailNativeEncoderTransition, AskForIDR
  <2>3. Numbered' /\ KeyComesFirst'
    BY <1>n, <1>12, <2>1, <2>2, OrderKept
  <2> QED
    BY <1>1, <2>1, <2>3 DEF OrderInv
<1> QED
  BY <1>3, <1>4, <1>5, <1>6, <1>7, <1>8, <1>9, <1>10, <1>11, <1>12
  DEF Next, Pacer
\* The step that answers for the chain: the last unit offered is not lost
\* without an IDR being asked for, and a delta is queued only behind it.
LEMMA StepChain ==
  TypeOK /\ HasAUnit /\ QueuedOnDemand /\ ChainInv /\ [Next]_vars => ChainInv'
<1> SUFFICES ASSUME TypeOK, HasAUnit, QueuedOnDemand, ChainInv, [Next]_vars
             PROVE  LastIsKept' /\ QueuedFollows' /\ TakenFollows'
  BY StepOrder DEF ChainInv
<1>i. OrderInv /\ LastIsKept /\ QueuedFollows /\ TakenFollows
  BY DEF ChainInv
<1>n. Numbered /\ KeyComesFirst /\ QueueIsCurrent /\ PacerIsBehind
  BY <1>i DEF OrderInv
<1>t. /\ submitted \in Nat /\ asked \in Nat /\ rtpGeneration \in Nat /\ sent \in Nat
      /\ Len(held) \in Nat
  BY DEF TypeOK
<1>q. /\ rtpQueue # <<>> => rtpQueue[1] \in [unit : Unit, generation : Nat]
      /\ pacer \in Pacers
  <2>1. rtpQueue # <<>> => rtpQueue[1] = Head(rtpQueue)
    BY DEF TypeOK
  <2>2. rtpQueue # <<>> => Head(rtpQueue) \in [unit : Unit, generation : Nat]
    BY TakeOne DEF TypeOK
  <2> QED
    BY <2>1, <2>2 DEF TypeOK, Pacers
<1>p. /\ pacer.stage # "wait" => pacer.unit.number \in Nat
      /\ pacer.generation \in Nat
  BY <1>q DEF HasAUnit, Unit, Pacers
\* An IDR was asked for: nothing submitted yet is behind it.
<1>1. ASSUME asked' = submitted, submitted' = submitted,
             UNCHANGED <<pacer, sent>>,
             rtpQueue' \in {rtpQueue, <<>>},
             Len(held') \in Nat
      PROVE  LastIsKept' /\ QueuedFollows' /\ TakenFollows'
  <2>1. ~(Offered' > asked')
    BY <1>1, <1>t DEF Offered
  <2>2. LastIsKept'
    BY <2>1 DEF LastIsKept
  <2>3. rtpQueue' # <<>> => ~(rtpQueue'[1].unit.number > asked')
    BY <1>1, <1>n, <1>t, <1>q DEF QueueIsCurrent, Unit
  <2>4. QueuedFollows'
    BY <2>3 DEF QueuedFollows
  <2>5. pacer'.stage # "wait" => ~(pacer'.unit.number > asked')
    BY <1>1, <1>n, <1>t, <1>p DEF PacerIsBehind
  <2>6. TakenFollows'
    BY <2>5 DEF TakenFollows
  <2> QED
    BY <2>2, <2>4, <2>6
\* The pacer's unit was withdrawn with the queue: nothing is left of the chain.
<1>2. ASSUME ClearRTPQueue, ~desiredActive' \/ rtpStopping', UNCHANGED pacer
      PROVE  LastIsKept' /\ QueuedFollows' /\ TakenFollows'
  <2>1. rtpQueue' = <<>> /\ (pacer'.stage # "wait" => ~Current')
    BY <1>2, <1>n, <1>t, <1>p DEF ClearRTPQueue, PacerIsBehind, Current
  <2> QED
    BY <1>2, <2>1 DEF LastIsKept, QueuedFollows, TakenFollows
<1>3. CASE StreamChanges
  <2>1. CASE desiredActive'
    <3>1. /\ asked' = submitted /\ submitted' = submitted
          /\ UNCHANGED <<pacer, sent>> /\ rtpQueue' \in {rtpQueue, <<>>}
      BY <1>3, <2>1 DEF StreamChanges, AskForIDR, pacerVars, queueVars, ClearRTPQueue
    <3>2. Len(held') \in Nat
      BY <1>3, <1>t, <2>1, EmptyQueue DEF StreamChanges
    <3> QED
      BY <1>1, <3>1, <3>2
  <2>2. CASE ~desiredActive'
    BY <1>2, <1>3, <2>2 DEF StreamChanges, pacerVars
  <2> QED
    BY <2>1, <2>2
<1>4. CASE EncoderReset
  <2>1. /\ asked' = submitted /\ submitted' = submitted
        /\ UNCHANGED <<pacer, sent>> /\ rtpQueue' \in {rtpQueue, <<>>}
    BY <1>4 DEF EncoderReset, AskForIDR, pacerVars, queueVars, ClearRTPQueue
  <2>2. Len(held') \in Nat
    BY <1>4, EmptyQueue DEF EncoderReset
  <2> QED
    BY <1>1, <2>1, <2>2
<1>5. CASE Encode
  <2>1. LastIsKept'
    BY <1>5, <1>i, <1>n, EncodeOrder
  <2>2. UNCHANGED <<queueVars, pacer, sent, asked, lost, rtpStopping>>
    BY <1>5 DEF Encode, pacerVars
  <2>3. QueuedFollows' /\ TakenFollows'
    BY <1>i, <2>2 DEF queueVars, QueuedFollows, TakenFollows, Given, Current
  <2> QED
    BY <2>1, <2>3
<1>6. CASE Enqueue
  <2>1. /\ output # None /\ output' = None
        /\ UNCHANGED <<held, pacer, submitted, sent, desiredActive, rtpStopping>>
    BY <1>6 DEF Enqueue, pacerVars
  <2>2. output.number = submitted - Len(held) /\ Offered' = output.number
        /\ Offered = output.number - 1 /\ output.number \in Nat
    <3>1. output.number = submitted - Len(held)
      BY <1>n, <2>1 DEF Numbered
    <3>2. output \in Unit
      BY <2>1 DEF TypeOK
    <3> QED
      BY <1>t, <2>1, <3>1, <3>2 DEF Offered, Unit
  <2>3. CASE TooLarge \/ FallsBehind
    <3>1. asked' = submitted /\ rtpQueue' \in {rtpQueue, <<>>}
      BY <2>3 DEF TooLarge, FallsBehind, AskForIDR, ClearRTPQueue, queueVars
    <3> QED
      BY <1>1, <1>t, <2>1, <3>1
  <2>6. CASE Loses
    <3>1. UNCHANGED <<queueVars, asked>> /\ lost' = lost \cup {output.number}
      BY <2>6 DEF Loses, DoNotAsk
    <3>2. Offered' \in lost' /\ lost \subseteq lost'
      BY <2>2, <3>1
    <3> QED
      BY <1>i, <2>1, <3>1, <3>2
      DEF queueVars, LastIsKept, QueuedFollows, TakenFollows, Given, Current
  <2>4. CASE desiredActive /\ ~rtpStopping /\ IsQueued
    <3>1. /\ rtpQueue' # <<>> /\ rtpQueue'[1].unit = output /\ asked' = asked
          /\ lost' = lost
          /\ rtpGeneration' = IF rtpQueue = <<>> THEN rtpGeneration ELSE rtpGeneration + 1
          /\ ~output.key => rtpQueue = <<>>
      BY <2>4 DEF IsQueued, DoNotAsk
    <3>2. LastIsKept'
      BY <2>2, <3>1 DEF LastIsKept
    <3>3. QueuedFollows'
      <4> SUFFICES ASSUME ~output.key, output.number > asked,
                          output.number - 1 \notin lost
                   PROVE  \/ /\ pacer'.stage # "wait" /\ Current'
                             /\ pacer'.unit.number = output.number - 1
                          \/ pacer'.stage = "wait" /\ sent' = output.number - 1
        BY <2>1, <3>1 DEF QueuedFollows, Given, Current
      <4>1. output.number - 1 > asked
        BY <1>n, <1>t, <2>1, <2>2 DEF KeyComesFirst
      <4>2. Given(Offered)
        BY <1>i, <2>2, <2>4, <3>1, <4>1 DEF LastIsKept
      <4> QED
        BY <2>1, <2>2, <3>1, <4>2 DEF Given, Current
    <3>4. TakenFollows'
      <4>1. pacer.stage # "wait" /\ Current' => Current
        BY <1>n, <1>t, <1>p, <2>1, <3>1 DEF PacerIsBehind, Current
      <4> QED
        BY <1>i, <2>1, <3>1, <4>1 DEF TakenFollows
    <3> QED
      BY <3>2, <3>3, <3>4
  <2>5. CASE ~(desiredActive /\ ~rtpStopping) /\ ~Loses
    <3>1. UNCHANGED <<queueVars, asked, lost>>
      BY <1>6, <2>5 DEF Enqueue, DoNotAsk
    <3> QED
      BY <1>i, <2>1, <2>5, <3>1
      DEF queueVars, LastIsKept, QueuedFollows, TakenFollows, Given, Current
  <2> QED
    BY <1>6, <2>3, <2>4, <2>5, <2>6 DEF Enqueue
<1>7. CASE Take
  <2>1. /\ rtpQueue # <<>> /\ rtpQueue' = Tail(rtpQueue)
        /\ pacer.stage = "wait" /\ pacer'.stage # "wait"
        /\ pacer'.unit = Head(rtpQueue).unit
        /\ pacer'.generation = Head(rtpQueue).generation
        /\ UNCHANGED <<submitted, held, output, asked, lost, rtpGeneration, sent,
                       desiredActive, rtpStopping>>
    BY <1>7 DEF Take, PacerLeaves, renderVars
  <2>2. Head(rtpQueue) = rtpQueue[1] /\ Tail(rtpQueue) = <<>>
    BY <2>1, TakeOne DEF TypeOK
  <2>3. Current' /\ pacer'.unit = rtpQueue[1].unit /\ rtpQueue' = <<>>
    BY <1>n, <2>1, <2>2 DEF QueueIsCurrent, Current
  <2>4. Offered' = Offered
    BY <2>1 DEF Offered
  <2>5. LastIsKept'
    BY <1>i, <2>1, <2>3, <2>4 DEF LastIsKept, Given
  <2>6. QueuedFollows'
    BY <2>3 DEF QueuedFollows
  <2>7. TakenFollows'
    BY <1>i, <2>1, <2>3 DEF QueuedFollows, TakenFollows, Given
  <2> QED
    BY <2>5, <2>6, <2>7
<1>8. CASE Withdrawn
  <2>1. /\ pacer.stage # "wait" /\ pacer'.stage = "wait" /\ (~Current \/ rtpStopping)
        /\ UNCHANGED <<submitted, held, output, asked, lost, rtpQueue, rtpGeneration, sent,
                       desiredActive, rtpStopping>>
    BY <1>8 DEF Withdrawn, Waiting, PacerLeaves, renderVars
  <2> QED
    BY <1>i, <2>1 DEF LastIsKept, QueuedFollows, TakenFollows, Given, Offered
\* The pacer goes on with the unit it has.
<1>9. ASSUME pacer.stage # "wait", pacer'.stage # "wait",
             pacer'.unit = pacer.unit, pacer'.generation = pacer.generation,
             UNCHANGED <<submitted, held, output, asked, lost, rtpQueue, rtpGeneration,
                         sent, desiredActive, rtpStopping>>
      PROVE  LastIsKept' /\ QueuedFollows' /\ TakenFollows'
  BY <1>9, <1>i DEF LastIsKept, QueuedFollows, TakenFollows, Given, Offered, Current
<1>10. CASE Proceed
  <2>1. /\ pacer.stage # "wait" /\ pacer'.stage # "wait"
        /\ pacer'.unit = pacer.unit /\ pacer'.generation = pacer.generation
    BY <1>q, <1>10 DEF Proceed, Pacers
  <2>2. UNCHANGED <<submitted, held, output, asked, lost, rtpQueue, rtpGeneration, sent,
                    desiredActive, rtpStopping>>
    BY <1>10 DEF Proceed, PacerLeaves, renderVars
  <2> QED
    BY <1>9, <2>1, <2>2
<1>11. CASE SendBatch /\ pacer.left # 1
  <2>1. /\ pacer.stage = "send"
        /\ pacer' = [pacer EXCEPT !.stage = "batch", !.left = pacer.left - 1]
    BY <1>11 DEF SendBatch
  <2>2. /\ pacer.stage # "wait" /\ pacer'.stage # "wait"
        /\ pacer'.unit = pacer.unit /\ pacer'.generation = pacer.generation
    BY <1>q, <2>1 DEF Pacers
  <2>3. UNCHANGED <<submitted, held, output, asked, lost, rtpQueue, rtpGeneration, sent,
                    desiredActive, rtpStopping>>
    BY <1>11 DEF SendBatch, PacerLeaves, renderVars
  <2> QED
    BY <1>9, <2>2, <2>3
<1>12. CASE SendBatch /\ pacer.left = 1
  <2>1. /\ pacer.stage # "wait" /\ pacer'.stage = "wait" /\ sent' = pacer.unit.number
        /\ UNCHANGED <<submitted, held, output, asked, lost, rtpQueue, rtpGeneration,
                       desiredActive, rtpStopping>>
    BY <1>12 DEF SendBatch, Waiting, PacerLeaves, renderVars
  <2> QED
    BY <1>i, <2>1 DEF LastIsKept, QueuedFollows, TakenFollows, Given, Offered
<1>13. CASE StopRTPPacer
  BY <1>2, <1>13 DEF StopRTPPacer, pacerVars
<1>14. CASE UNCHANGED vars
  BY <1>i, <1>14
  DEF vars, renderVars, queueVars, pacerVars, LastIsKept, QueuedFollows,
      TakenFollows, Given, Offered, Current
<1>15. CASE EncodeRefused
  <2>1. UNCHANGED <<queueVars, pacer, sent, asked, lost, rtpStopping, submitted,
                    held, output, desiredActive>>
    BY <1>15 DEF EncodeRefused, pacerVars
  <2> QED
    BY <1>i, <2>1
    DEF queueVars, LastIsKept, QueuedFollows, TakenFollows, Given, Offered, Current
<1>16. CASE FailNativeEncoderTransition
  <2>1. CASE desiredActive' = FALSE /\ ClearRTPQueue
    BY <1>2, <1>16, <2>1 DEF FailNativeEncoderTransition, pacerVars
  <2>2. CASE UNCHANGED <<desiredActive, held, queueVars, asked>>
    <3>1. UNCHANGED <<pacer, sent, lost, rtpStopping, submitted, output>>
      BY <1>16 DEF FailNativeEncoderTransition, pacerVars
    <3> QED
      BY <1>i, <2>2, <3>1
      DEF queueVars, LastIsKept, QueuedFollows, TakenFollows, Given, Offered, Current
  <2> QED
    BY <1>16, <2>1, <2>2 DEF FailNativeEncoderTransition
<1> QED
  BY <1>3, <1>4, <1>5, <1>6, <1>7, <1>8, <1>10, <1>11, <1>12, <1>13, <1>14, <1>15,
     <1>16
  DEF Next, Pacer

\* A decoder gets a delta only behind the unit it refers to, or before the IDR
\* that was asked for to repair the chain: EnqueueRTPAccessUnit, ClearRTPQueue
\* and the pacer's look at the generation together never send one without.  Only
\* a unit that got lost before the queue leaves a gap behind it.
THEOREM ReferencesAreSent == Spec => DeltaFollowsItsReference
<1>1. Init => TypeOK /\ HasAUnit /\ QueuedOnDemand /\ ChainInv
  BY InitTypeOK, InitChain DEF Init, HasAUnit, QueuedOnDemand, Waiting
<1>2. (TypeOK /\ HasAUnit /\ QueuedOnDemand /\ ChainInv) /\ [Next]_vars
        => (TypeOK /\ HasAUnit /\ QueuedOnDemand /\ ChainInv)'
  BY StepTypeOK, StepHasAUnit, StepQueued, StepChain
<1>3. TypeOK /\ HasAUnit /\ QueuedOnDemand /\ ChainInv /\ [Next]_vars
        => [(SendsUnit /\ ~pacer.unit.key) =>
              \/ pacer.unit.number = sent + 1
              \/ pacer.unit.number <= asked
              \/ pacer.unit.number - 1 \in lost]_vars
  <2> SUFFICES ASSUME TypeOK, HasAUnit, ChainInv, [Next]_vars, SendsUnit,
                      ~pacer.unit.key, ~(pacer.unit.number <= asked),
                      pacer.unit.number - 1 \notin lost
               PROVE  pacer.unit.number = sent + 1
    OBVIOUS
  <2>1. Proceed
    <3>1. ~SendBatch
      <4>1. CASE pacer.left = 1
        BY <4>1 DEF SendBatch, SendsUnit, Waiting
      <4>2. CASE pacer.left # 1
        BY <4>2 DEF SendBatch, SendsUnit
      <4> QED
        BY <4>1, <4>2
    <3>2. ~Take /\ ~Withdrawn
      BY DEF Take, Withdrawn, SendsUnit, Waiting
    <3>3. pacer' # pacer
      BY DEF SendsUnit
    <3>4. ~(StreamChanges \/ EncoderReset \/ Encode \/ Enqueue \/ EncodeRefused
              \/ FailNativeEncoderTransition \/ StopRTPPacer \/ UNCHANGED vars)
      BY <3>3 DEF StreamChanges, EncoderReset, Encode, Enqueue, EncodeRefused,
         FailNativeEncoderTransition, StopRTPPacer, vars, pacerVars
    <3> QED
      BY <3>1, <3>2, <3>4 DEF Next, Pacer
  <2>2. pacer.unit.number \in Nat /\ asked \in Nat /\ sent \in Nat
    BY <2>1 DEF Proceed, HasAUnit, Unit, TypeOK
  <2> QED
    BY <2>1, <2>2 DEF Proceed, ChainInv, TakenFollows
<1> QED
  BY <1>1, <1>2, <1>3, PTL DEF Spec, DeltaFollowsItsReference
=============================================================================
