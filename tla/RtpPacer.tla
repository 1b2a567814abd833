------------------------------ MODULE RtpPacer ------------------------------
(***************************************************************************)
(* The RTP branch of xgc_media_camera_plugin.cpp: the render thread offers *)
(* each access unit the encoder puts out to a queue of one                 *)
(* (EnqueueRTPAccessUnit), a pacer thread takes it and sends its packets   *)
(* in batches (RTPPacerLoop, SendPacedRTPAccessUnit).  A generation number *)
(* withdraws what was taken from the queue before; it is looked at under   *)
(* rtpPacerMutex_ before every batch, and the batch is sent without.       *)
(*                                                                         *)
(* Access units are numbered as they are submitted to NVENC; a delta is    *)
(* decodable only behind the unit before it.                               *)
(***************************************************************************)
EXTENDS Integers, Sequences

CONSTANTS
  None,           \* the pacer or the render thread has no unit
  Batches,        \* batches of an access unit (32 packets each in the code)
  MaxDelay,       \* units NVENC may hold back (4 in the code)
  MaxUnits,       \* bound: units submitted
  MaxChanges      \* bound: starts and stops of the stream, encoder resets

ASSUME PacerBoundsAssumption ==
  /\ Batches \in Nat \ {0} /\ MaxDelay \in Nat
  /\ MaxUnits \in Nat /\ MaxChanges \in Nat

Unit == [number : Nat, key : BOOLEAN]
ASSUME NoUnitAssumption == None \notin Unit

VARIABLES
  \* the render thread's: demand for RTP, the force-IDR flag, what NVENC holds
  \* back, the output that is to be offered, and whether EncodeRenderedFrame is
  \* about to return false
  desiredActive, forceKeyframe, held, output, failed,
  \* under rtpPacerMutex_
  rtpQueue, rtpGeneration, rtpStopping,
  \* the pacer's, and the flag the render thread reads
  pacer, rtpInFlight,
  \* history: units submitted, the last one submitted before an IDR was asked
  \* for, those lost on the way to the queue, the last one sent completely, and
  \* starts, stops and resets so far
  submitted, asked, lost, sent, changes

renderVars == <<desiredActive, forceKeyframe, held, output, failed>>
queueVars == <<rtpQueue, rtpGeneration>>
pacerVars == <<pacer, rtpInFlight>>
vars == <<renderVars, queueVars, rtpStopping, pacerVars, submitted, asked,
          lost, sent, changes>>

Waiting == [stage |-> "wait", unit |-> None, generation |-> 0, left |-> 0]

Init ==
  /\ desiredActive = FALSE /\ forceKeyframe = TRUE
  /\ held = <<>> /\ output = None /\ failed = FALSE
  /\ rtpQueue = <<>> /\ rtpGeneration = 0 /\ rtpStopping = FALSE
  /\ pacer = Waiting /\ rtpInFlight = FALSE
  /\ submitted = 0 /\ asked = 0 /\ lost = {} /\ sent = 0 /\ changes = 0

-----------------------------------------------------------------------------
(***************************************************************************)
(* The render thread.                                                      *)
(***************************************************************************)
ClearRTPQueue == rtpQueue' = <<>> /\ rtpGeneration' = rtpGeneration + 1

AskForIDR == forceKeyframe' = TRUE /\ asked' = submitted
DoNotAsk == UNCHANGED <<forceKeyframe, asked>>

\* The render thread is not in the middle of EncodeRenderedFrame.
BetweenFrames == output = None /\ ~failed

\* A start or a stop is applied (ApplyNativeControl).  A stop withdraws what is
\* queued; a start without ROS consumers goes through the fresh-render gate,
\* which withdraws it too and destroys the encoder.
StreamChanges ==
  /\ BetweenFrames /\ changes < MaxChanges
  /\ changes' = changes + 1
  /\ desiredActive' = ~desiredActive
  /\ IF desiredActive'
       THEN /\ AskForIDR
            /\ \/ held' = <<>> /\ ClearRTPQueue
               \/ UNCHANGED <<held, queueVars>>
       ELSE ClearRTPQueue /\ DoNotAsk /\ UNCHANGED held
  /\ UNCHANGED <<output, failed, rtpStopping, pacerVars, submitted, lost, sent>>

\* The encoder is destroyed or created anew, in a frame that fails or before
\* one; the queue is cleared, except by EnsureEncoder behind a ROS epoch that is
\* already pending.
EncoderReset ==
  /\ BetweenFrames /\ changes < MaxChanges
  /\ changes' = changes + 1
  /\ held' = <<>> /\ failed' \in BOOLEAN
  /\ AskForIDR
  /\ ClearRTPQueue \/ UNCHANGED queueVars
  /\ UNCHANGED <<desiredActive, output, rtpStopping, pacerVars, submitted,
                 lost, sent>>

\* EncodeRenderedFrame, for RTP or for ROS consumers: a forced unit is an IDR,
\* another one may be, and NVENC puts out the oldest unit or none.
Encode ==
  /\ BetweenFrames /\ submitted < MaxUnits
  /\ submitted' = submitted + 1
  /\ \E key \in BOOLEAN :
       LET all == Append(held, [number |-> submitted', key |-> key])
       IN  /\ forceKeyframe => key
           /\ \/ output' = Head(all) /\ held' = Tail(all)
              \/ Len(all) <= MaxDelay /\ held' = all /\ UNCHANGED output
  /\ forceKeyframe' = FALSE
  /\ UNCHANGED <<desiredActive, failed, queueVars, rtpStopping, pacerVars,
                 asked, lost, sent, changes>>

\* SendH264AccessUnit finds no NAL unit in the output, EnqueueRTPAccessUnit no
\* packet: the unit is lost, and no IDR is asked for.
Loses ==
  /\ DoNotAsk
  /\ failed' = TRUE /\ lost' = lost \cup {output.number}
  /\ UNCHANGED queueVars

\* Mutant: an oversized delta is dropped without asking for an IDR.
TooLargeSilently ==
  /\ ~output.key /\ rtpQueue = <<>>
  /\ DoNotAsk
  /\ failed' = TRUE
  /\ UNCHANGED <<queueVars, lost>>

\* EnqueueRTPAccessUnit: an oversized delta is refused,
TooLarge ==
  /\ ~output.key /\ rtpQueue = <<>>
  /\ AskForIDR
  /\ failed' = TRUE
  /\ UNCHANGED <<queueVars, lost>>

\* a delta that finds the pacer behind takes the pending chain with it,
FallsBehind ==
  /\ ~output.key /\ rtpQueue # <<>>
  /\ ClearRTPQueue
  /\ AskForIDR
  /\ failed' = TRUE
  /\ UNCHANGED lost

\* Mutant: an IDR joins a stale unit instead of replacing it.
JoinsQueue ==
  /\ ~output.key => rtpQueue = <<>>
  /\ rtpQueue' = Append(rtpQueue, [unit |-> output, generation |-> rtpGeneration])
  /\ UNCHANGED <<rtpGeneration, failed, lost>>
  /\ DoNotAsk

\* and an IDR replaces what is pending; what is taken already is withdrawn too.
IsQueued ==
  /\ ~output.key => rtpQueue = <<>>
  /\ rtpGeneration' = IF rtpQueue = <<>> THEN rtpGeneration ELSE rtpGeneration + 1
  /\ rtpQueue' = <<[unit |-> output, generation |-> rtpGeneration']>>
  /\ DoNotAsk
  /\ UNCHANGED <<failed, lost>>

\* SendH264AccessUnit: without demand there is no RTP.
Enqueue ==
  /\ output # None
  /\ \/ Loses
     \/ IF desiredActive /\ ~rtpStopping
          THEN TooLarge \/ FallsBehind \/ IsQueued
          ELSE DoNotAsk /\ UNCHANGED <<queueVars, failed, lost>>
  /\ output' = None
  /\ UNCHANGED <<desiredActive, held, rtpStopping, pacerVars, submitted, sent,
                 changes>>

\* EncodeRenderedFrame returns false before it submits anything.
EncodeRefused ==
  /\ BetweenFrames /\ changes < MaxChanges
  /\ changes' = changes + 1
  /\ failed' = TRUE
  /\ UNCHANGED <<desiredActive, forceKeyframe, held, output, queueVars,
                 rtpStopping, pacerVars, submitted, asked, lost, sent>>

\* It returned false: a start or a keyframe that is awaited fails, and the
\* stream and the encoder go with it; the next encoder begins with an IDR.
FailNativeEncoderTransition ==
  /\ output = None /\ failed /\ failed' = FALSE
  /\ \/ /\ desiredActive' = FALSE
        /\ held' = <<>> /\ ClearRTPQueue /\ AskForIDR
     \/ UNCHANGED <<desiredActive, held, queueVars, forceKeyframe, asked>>
  /\ UNCHANGED <<output, rtpStopping, pacerVars, submitted, lost, sent, changes>>

-----------------------------------------------------------------------------
(***************************************************************************)
(* The pacer.                                                              *)
(***************************************************************************)
PacerLeaves == <<renderVars, rtpGeneration, rtpStopping, submitted, asked,
                 lost, changes>>
Current == pacer.generation = rtpGeneration

\* Mutant: the flag follows after the lock, with the first look at the
\* generation.
TakeUnmarked ==
  /\ pacer.stage = "wait" /\ ~rtpStopping /\ rtpQueue # <<>>
  /\ pacer' = [stage |-> "taken", unit |-> Head(rtpQueue).unit,
               generation |-> Head(rtpQueue).generation, left |-> Batches]
  /\ rtpQueue' = Tail(rtpQueue)
  /\ UNCHANGED <<rtpInFlight, sent, PacerLeaves>>

\* The unit is taken and marked as in flight under one lock ...
Take ==
  /\ pacer.stage = "wait" /\ ~rtpStopping /\ rtpQueue # <<>>
  /\ pacer' = [stage |-> "taken", unit |-> Head(rtpQueue).unit,
               generation |-> Head(rtpQueue).generation, left |-> Batches]
  /\ rtpQueue' = Tail(rtpQueue)
  /\ rtpInFlight' = TRUE
  /\ UNCHANGED <<sent, PacerLeaves>>

\* Mutant: a withdrawn unit leaves the flag up.
WithdrawnStaysMarked ==
  /\ pacer.stage \in {"taken", "batch"} /\ (~Current \/ rtpStopping)
  /\ pacer' = Waiting
  /\ UNCHANGED <<rtpQueue, rtpInFlight, sent, PacerLeaves>>

\* ... it is given up at the next look when it was withdrawn ...
Withdrawn ==
  /\ pacer.stage \in {"taken", "batch"} /\ (~Current \/ rtpStopping)
  /\ pacer' = Waiting
  /\ rtpInFlight' = FALSE
  /\ UNCHANGED <<rtpQueue, sent, PacerLeaves>>

\* ... else its next batch is due ...
Proceed ==
  /\ pacer.stage \in {"taken", "batch"} /\ Current /\ ~rtpStopping
  /\ pacer' = [pacer EXCEPT !.stage = IF @ = "taken" THEN "batch" ELSE "send"]
  /\ UNCHANGED <<rtpQueue, rtpInFlight, sent, PacerLeaves>>

\* ... and is sent, whatever happened since the look.
SendBatch ==
  /\ pacer.stage = "send"
  /\ IF pacer.left = 1
       THEN /\ pacer' = Waiting /\ rtpInFlight' = FALSE
            /\ sent' = pacer.unit.number
       ELSE /\ pacer' = [pacer EXCEPT !.stage = "batch", !.left = @ - 1]
            /\ UNCHANGED <<rtpInFlight, sent>>
  /\ UNCHANGED <<rtpQueue, PacerLeaves>>

\* StopRTPPacer: the queue is withdrawn; the join waits for the pacer.
StopRTPPacer ==
  /\ ~rtpStopping /\ BetweenFrames
  /\ rtpStopping' = TRUE
  /\ ClearRTPQueue
  /\ UNCHANGED <<renderVars, pacerVars, submitted, asked, lost, sent, changes>>

-----------------------------------------------------------------------------
Pacer == Take \/ Withdrawn \/ Proceed \/ SendBatch

Next == StreamChanges \/ EncoderReset \/ Encode \/ Enqueue \/ EncodeRefused
          \/ FailNativeEncoderTransition \/ Pacer \/ StopRTPPacer

\* The pacer thread runs: a batch's time comes, and sendto does not block.
Spec == Init /\ [][Next]_vars
FairSpec == Spec /\ WF_vars(Pacer)

-----------------------------------------------------------------------------
(***************************************************************************)
(* Properties.                                                             *)
(***************************************************************************)

\* Every variable holds a value the code can store in it; "live viewing keeps
\* only one pending AU".
TypeOK ==
  /\ desiredActive \in BOOLEAN /\ forceKeyframe \in BOOLEAN
  /\ held \in Seq(Unit) /\ Len(held) <= MaxDelay
  /\ output \in Unit \cup {None} /\ failed \in BOOLEAN
  /\ rtpQueue \in Seq([unit : Unit, generation : Nat]) /\ Len(rtpQueue) <= 1
  /\ rtpGeneration \in Nat /\ rtpStopping \in BOOLEAN
  /\ pacer \in [stage : {"wait", "taken", "batch", "send"},
                unit : Unit \cup {None}, generation : Nat, left : 0..Batches]
  /\ rtpInFlight \in BOOLEAN
  /\ submitted \in Nat /\ asked \in Nat /\ sent \in Nat /\ changes \in Nat
  /\ lost \subseteq Nat

\* What CompleteNativeStopIfDrained concludes from two flags it reads without
\* the pacer's lock: with no demand and nothing in flight, nothing of the
\* stream is queued, held by the pacer or still to be sent.
DrainedIsSilent ==
  (~desiredActive /\ ~rtpInFlight) => rtpQueue = <<>> /\ pacer.stage = "wait"

\* "P-frames form a reference chain": a delta is only sent behind the unit it
\* refers to.  Of what the queue and the pacer drop this is the whole truth: the
\* delta was submitted before the IDR that repairs the chain was asked for.  The
\* one gap is a unit that got lost before the queue (2639-2646, 941), for which
\* no IDR is asked: the delta right behind it is sent.
SendsUnit == pacer.stage # "send" /\ pacer'.stage = "send" /\ pacer.left = Batches
DeltaFollowsItsReference ==
  [][(SendsUnit /\ ~pacer.unit.key) =>
       \/ pacer.unit.number = sent + 1
       \/ pacer.unit.number <= asked
       \/ pacer.unit.number - 1 \in lost]_vars

\* Nothing stays in flight: a stop that waits for the pacer is not kept waiting.
InFlightEnds == rtpInFlight ~> ~rtpInFlight
=============================================================================
