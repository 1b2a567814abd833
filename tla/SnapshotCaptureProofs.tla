------------------------ MODULE SnapshotCaptureProofs ------------------------
(***************************************************************************)
(* Captures, for every set of sensors and any number of captures: the      *)
(* host's slot, the work that is done under it, and whose picture is       *)
(* answered.                                                               *)
(***************************************************************************)
EXTENDS SnapshotRefinement, TLAPS

(***************************************************************************)
(* The invariant.  What a snapshot waits for, and what its flags say of    *)
(* the work that is under way: nothing else does.                          *)
(***************************************************************************)
Rendering(s) == renderer.at = s
Waits(s) ==
  snapshot[s].wanted /\ ~snapshot[s].completed /\ ~snapshot[s].submitted

SnapshotInv ==
  \A s \in Sensors :
    /\ snapshot[s].wanted => snapshot[s].gen = snapshotGeneration[s]
    /\ snapshot[s].wanted <=> snapshot[s].gen # 0
    /\ snapshot[s].completed /\ ~snapshot[s].failed =>
         /\ snapshot[s].picture # None
         /\ snapshot[s].picture.gen = snapshot[s].gen
         /\ snapshot[s].picture.fresh

\* The host's slot: who answers a capture holds it, and who wants a snapshot
\* does until its removal is through.
SlotInv ==
  /\ captureReserved => \E s \in Sensors : captureSlotHeld[s]
  /\ \A s \in Sensors : captureSlotHeld[s] =>
       captureReserved /\ \A t \in Sensors \ {s} : ~captureSlotHeld[t]
  /\ \A s \in Sensors :
       /\ captureReply[s] <=> (removal[s] = "present" /\ snapshot[s].wanted)
       /\ snapshot[s].wanted /\ removal[s] # "removed" => captureSlotHeld[s]
       /\ Rendering(s) => removal[s] = "present"

\* A picture that was taken is in one place, and its snapshot is submitted and
\* not completed; so it is when the work ends that both may change.
Holds(s, picture) ==
  /\ snapshot[s].wanted /\ snapshot[s].submitted /\ ~snapshot[s].completed
  /\ picture.gen = snapshot[s].gen
  /\ picture.fresh
WorkInv ==
  \A s \in Sensors :
    /\ readback[s] # None => /\ Holds(s, readback[s])
                             /\ encodeJob[s] = None /\ workerHand[s] = None
    /\ encodeJob[s] # None => Holds(s, encodeJob[s]) /\ workerHand[s] = None
    /\ workerHand[s] # None => Holds(s, workerHand[s])

\* A picture is about to be taken only of a render that began after the capture
\* was admitted: the pass that was under way and the replay of a dormant sensor
\* are over once there is no pass left to skip.
RenderInv ==
  /\ renderer = NoRender \/ renderer.stage # "idle"
  /\ renderer.stage # "idle" => renderer.at \in Sensors
  /\ renderer.stage = "issue" =>
       /\ renderer.hand # None /\ renderer.hand.fresh /\ renderer.hand.gen # 0
       /\ ~snapshot[renderer.at].submitted
  /\ \A s \in Sensors :
       /\ Rendering(s) => sensorActive[s] /\ ~replay[s]
       /\ Waits(s) /\ passesToSkip[s] = 0 /\ removal[s] = "present" =>
            /\ sensorActive[s] /\ ~replay[s]
            /\ Rendering(s) /\ renderer.stage = "capture" /\ readback[s] = None
                 => freshRender[s]

Inv == TypeOK /\ SnapshotInv /\ SlotInv /\ WorkInv /\ RenderInv /\ AnswerIsFresh

(***************************************************************************)
(* Types.  What a step makes of a sensor's snapshot.                       *)
(***************************************************************************)
PictureOrNone == Picture \cup {None}
RenderState == [at : Sensors \cup {None}, forced : BOOLEAN,
                stage : {"idle", "capture", "issue", "encode", "stamp"},
                hand : PictureOrNone]
SnapshotOf(w, g, c, u, f, p) ==
  [wanted |-> w, gen |-> g, completed |-> c, submitted |-> u, failed |-> f,
   picture |-> p]

\* The snapshot of s becomes this one; those of other sensors stay.
Turns(s, w, g, c, u, f, p) ==
  /\ snapshot' \in [Sensors -> Snapshot]
  /\ snapshot'[s].wanted = w /\ snapshot'[s].gen = g
  /\ snapshot'[s].completed = c /\ snapshot'[s].submitted = u
  /\ snapshot'[s].failed = f /\ snapshot'[s].picture = p
  /\ \A r \in Sensors \ {s} : snapshot'[r] = snapshot[r]

\* Its readback is submitted or not; it is over, with this result.
Submitted(s, u) ==
  Turns(s, snapshot[s].wanted, snapshot[s].gen, snapshot[s].completed, u,
        snapshot[s].failed, snapshot[s].picture)
Over(s, u, f, p) == Turns(s, snapshot[s].wanted, snapshot[s].gen, TRUE, u, f, p)

LEMMA SnapshotType ==
  ASSUME NEW w \in BOOLEAN, NEW g \in Nat, NEW c \in BOOLEAN, NEW u \in BOOLEAN,
         NEW f \in BOOLEAN, NEW p \in PictureOrNone
  PROVE  SnapshotOf(w, g, c, u, f, p) \in Snapshot
  BY DEF SnapshotOf, Snapshot, PictureOrNone

LEMMA NoneIsPicture == None \in PictureOrNone
  BY DEF PictureOrNone

LEMMA NothingWanted ==
  /\ NoSnapshot = SnapshotOf(FALSE, 0, FALSE, FALSE, FALSE, None)
  /\ NoSnapshot \in Snapshot
<1>1. NoSnapshot = SnapshotOf(FALSE, 0, FALSE, FALSE, FALSE, None)
  BY DEF NoSnapshot, SnapshotOf
<1> QED
  BY <1>1, SnapshotType, NoneIsPicture

LEMMA Replaced ==
  ASSUME snapshot \in [Sensors -> Snapshot], NEW s \in Sensors, NEW w \in BOOLEAN,
         NEW g \in Nat, NEW c \in BOOLEAN, NEW u \in BOOLEAN, NEW f \in BOOLEAN,
         NEW p \in PictureOrNone,
         snapshot' = [snapshot EXCEPT ![s] = SnapshotOf(w, g, c, u, f, p)]
  PROVE  Turns(s, w, g, c, u, f, p)
  BY SnapshotType DEF Turns, SnapshotOf

LEMMA Admits ==
  ASSUME snapshot \in [Sensors -> Snapshot], NEW s \in Sensors, NEW gen \in Nat,
         snapshot' = [snapshot EXCEPT
                        ![s] = [NoSnapshot EXCEPT !.wanted = TRUE, !.gen = gen]]
  PROVE  Turns(s, TRUE, gen, FALSE, FALSE, FALSE, None)
<1> DEFINE new == [NoSnapshot EXCEPT !.wanted = TRUE, !.gen = gen]
<1>1. new \in Snapshot
  BY NothingWanted DEF Snapshot
<1>2. /\ new.wanted = TRUE /\ new.gen = gen /\ new.completed = FALSE
      /\ new.submitted = FALSE /\ new.failed = FALSE /\ new.picture = None
  BY DEF NoSnapshot
<1> HIDE DEF new
<1>3. snapshot' = [snapshot EXCEPT ![s] = new]
  BY DEF new
<1> QED
  BY <1>1, <1>2, <1>3 DEF Turns

LEMMA Clears ==
  ASSUME snapshot \in [Sensors -> Snapshot], NEW s \in Sensors,
         snapshot' = [snapshot EXCEPT ![s] = NoSnapshot]
  PROVE  Turns(s, FALSE, 0, FALSE, FALSE, FALSE, None)
<1>1. snapshot' = [snapshot EXCEPT
                     ![s] = SnapshotOf(FALSE, 0, FALSE, FALSE, FALSE, None)]
  BY NothingWanted
<1> QED
  BY <1>1, Replaced, NoneIsPicture

LEMMA Submits ==
  ASSUME snapshot \in [Sensors -> Snapshot], NEW s \in Sensors, NEW v \in BOOLEAN,
         snapshot' = [snapshot EXCEPT ![s].submitted = v]
  PROVE  Submitted(s, v)
  BY DEF Snapshot, Turns, Submitted

LEMMA Fails ==
  ASSUME snapshot \in [Sensors -> Snapshot], NEW s \in Sensors, SnapshotFails(s)
  PROVE  IF snapshot[s].wanted /\ ~snapshot[s].completed
           THEN Over(s, snapshot[s].submitted, TRUE, snapshot[s].picture)
           ELSE snapshot' = snapshot
  BY DEF Snapshot, Turns, Over, SnapshotFails

LEMMA WorkerIsFull ==
  ASSUME snapshot \in [Sensors -> Snapshot], NEW s \in Sensors,
         snapshot' = [snapshot EXCEPT ![s].submitted = TRUE,
                                      ![s].completed = TRUE, ![s].failed = TRUE]
  PROVE  Over(s, TRUE, TRUE, snapshot[s].picture)
  BY DEF Snapshot, Turns, Over

LEMMA Delivers ==
  ASSUME snapshot \in [Sensors -> Snapshot], NEW s \in Sensors,
         NEW failed \in BOOLEAN, NEW p \in PictureOrNone,
         snapshot' = [snapshot EXCEPT ![s].completed = TRUE, ![s].failed = failed,
                                      ![s].submitted = FALSE, ![s].picture = p]
  PROVE  Over(s, FALSE, failed, p)
<1> DEFINE new == SnapshotOf(snapshot[s].wanted, snapshot[s].gen, TRUE, FALSE,
                             failed, p)
<1>1. snapshot[s] \in Snapshot
  OBVIOUS
<1>2. new \in Snapshot
  <2>1. snapshot[s].wanted \in BOOLEAN /\ snapshot[s].gen \in Nat
    BY ONLY <1>1 DEF Snapshot
  <2> QED
    BY ONLY <2>1, failed \in BOOLEAN, p \in PictureOrNone, SnapshotType
<1>3. snapshot'[s] = new
  BY <1>1 DEF Snapshot, SnapshotOf
<1>4. \A r \in Sensors \ {s} : snapshot'[r] = snapshot[r]
  OBVIOUS
<1>5. snapshot' \in [Sensors -> Snapshot]
  <2>1. snapshot' = [r \in Sensors |-> snapshot'[r]]
    OBVIOUS
  <2>2. \A r \in Sensors : snapshot'[r] \in Snapshot
    BY <1>2, <1>3, <1>4
  <2> QED
    BY ONLY <2>1, <2>2
<1> QED
  BY ONLY <1>3, <1>4, <1>5 DEF Turns, Over, SnapshotOf

(* What each step that touches a snapshot makes of it. *)
Issued ==
  IF IsFor(renderer.at, renderer.hand) THEN Submitted(renderer.at, TRUE)
  ELSE snapshot' = snapshot
ReadBack ==
  IF ~IsFor(renderer.at, renderer.hand) THEN snapshot' = snapshot
  ELSE IF CanQueue(renderer.at) THEN Submitted(renderer.at, TRUE)
  ELSE Over(renderer.at, TRUE, TRUE, snapshot[renderer.at].picture)
FailedIf(condition) ==
  IF condition /\ snapshot[renderer.at].wanted /\ ~snapshot[renderer.at].completed
    THEN Over(renderer.at, snapshot[renderer.at].submitted, TRUE,
              snapshot[renderer.at].picture)
    ELSE snapshot' = snapshot
Rearmed ==
  IF IsFor(renderer.at, readback[renderer.at]) THEN Submitted(renderer.at, FALSE)
  ELSE snapshot' = snapshot
Delivered(s) ==
  IF IsFor(s, workerHand[s])
    THEN \E failed \in BOOLEAN : Over(s, FALSE, failed, workerHand[s])
    ELSE snapshot' = snapshot

LEMMA AdmitEffect ==
  ASSUME TypeOK, NEW s \in Sensors, NEW k, AdmitCapture(s, k)
  PROVE  Turns(s, TRUE, snapshotGeneration[s] + 1, FALSE, FALSE, FALSE, None)
<1>1. /\ snapshot \in [Sensors -> Snapshot]
      /\ snapshotGeneration[s] + 1 \in Nat
      /\ snapshot' = [snapshot EXCEPT
           ![s] = [NoSnapshot EXCEPT !.wanted = TRUE,
                                     !.gen = snapshotGeneration[s] + 1]]
  BY DEF TypeOK, AdmitCapture
<1> QED
  BY <1>1, Admits

LEMMA FlushEffect ==
  ASSUME TypeOK, NEW s \in Sensors, FlushCapture(s)
  PROVE  Turns(s, FALSE, 0, FALSE, FALSE, FALSE, None)
  BY Clears DEF TypeOK, FlushCapture

LEMMA IssueEffect ==
  ASSUME TypeOK, IssueReadback, renderer.at \in Sensors PROVE Issued
  BY Submits DEF TypeOK, IssueReadback, Issued

LEMMA ReadEffect ==
  ASSUME TypeOK, ReadSynchronously, renderer.at \in Sensors PROVE ReadBack
  BY Submits, WorkerIsFull DEF TypeOK, ReadSynchronously, ReadBack

LEMMA FailEffect ==
  ASSUME TypeOK, CaptureFails, renderer.at \in Sensors PROVE FailedIf(TRUE)
  BY Fails DEF TypeOK, CaptureFails, FailedIf

LEMMA PollEffect ==
  ASSUME TypeOK, PollSucceeds, renderer.at \in Sensors
  PROVE  FailedIf(~CanQueue(renderer.at))
  BY Fails DEF TypeOK, PollSucceeds, FailedIf

LEMMA RearmEffect ==
  ASSUME TypeOK, PollFails, renderer.at \in Sensors PROVE Rearmed
  BY Submits DEF TypeOK, PollFails, Rearmed

LEMMA DeliverEffect ==
  ASSUME TypeOK, NEW s \in Sensors, WorkerDeliver(s) PROVE Delivered(s)
<1>1. snapshot \in [Sensors -> Snapshot] /\ workerHand[s] \in PictureOrNone
  BY DEF TypeOK, PictureOrNone
<1>2. PICK failed \in BOOLEAN :
        snapshot' = IF IsFor(s, workerHand[s])
                      THEN [snapshot EXCEPT ![s].completed = TRUE,
                                            ![s].failed = failed,
                                            ![s].submitted = FALSE,
                                            ![s].picture = workerHand[s]]
                      ELSE snapshot
  BY DEF WorkerDeliver
<1> QED
  BY <1>1, <1>2, Delivers DEF Delivered

\* A capture that is done leaves the render to the stream, or ends it.
LEMMA CaptureDone ==
  ASSUME NEW s \in Sensors, CaptureIsDone(s)
  PROVE  /\ renderer' \in RenderState
         /\ renderer' = NoRender \/ (renderer'.at = s /\ renderer'.stage = "encode")
  BY DEF CaptureIsDone, NoRender, RenderState, PictureOrNone

\* Load: no capture was ever admitted.
LEMMA InitTyped == Init => TypeOK
<1> SUFFICES ASSUME Init PROVE TypeOK
  OBVIOUS
<1>1. NoRender \in RenderState
  BY NoneIsPicture DEF NoRender, RenderState
<1>2. executor \in [at : Sensors \cup {None}, stage : {"idle", "pending", "force"}]
  BY DEF Init
<1>3. ASSUME NEW S, NEW value \in S PROVE Each(value) \in [Sensors -> S]
  BY <1>3 DEF Each
<1>4. 0 \in 0..1 /\ 0 \in Nat
  OBVIOUS
<1> QED
  BY <1>1, <1>2, <1>3, <1>4, NothingWanted, Zenon
     DEF Init, TypeOK, RenderState, PictureOrNone

\* Types, for every step.
LEMMA TypedStep == Inv /\ [Next]_vars => TypeOK'
<1> SUFFICES ASSUME Inv, [Next]_vars PROVE TypeOK'
  OBVIOUS
<1>t. TypeOK
  BY DEF Inv
<1> USE NoneIsNoValue DEF Inv, TypeOK, RenderInv
<1>1. ASSUME NEW s \in Sensors, NEW k \in BOOLEAN, AdmitCapture(s, k)
     PROVE  TypeOK'
  <2>1. snapshot' \in [Sensors -> Snapshot]
    BY ONLY <1>t, <1>1, AdmitEffect DEF Turns
  <2>2. /\ snapshotGeneration' \in [Sensors -> Nat]
        /\ captureKeyframeGeneration' \in [Sensors -> Nat]
        /\ passesToSkip' \in [Sensors -> 0..1]
    BY <1>1 DEF AdmitCapture
  <2>3. executor' \in [at : Sensors \cup {None},
          stage : {"idle", "pending", "force"}]
    BY <1>1 DEF AdmitCapture
  <2> QED
    BY <1>1, <2>1, <2>2, <2>3 DEF AdmitCapture, handshake, readbackVars, workerVars
<1>2. CASE AdmitPending
  BY <1>2 DEF AdmitPending, snapshotVars, gpuVars, readbackVars, workerVars
<1>3. CASE AdmitForce
  BY <1>3 DEF AdmitForce, snapshotVars, handshake, gpuVars, readbackVars, workerVars
<1>4. ASSUME NEW s \in Sensors, CaptureDeadline(s) PROVE TypeOK'
  BY <1>4
     DEF CaptureDeadline, snapshotVars, handshake, gpuVars, readbackVars,
         workerVars
<1>5. ASSUME NEW s \in Sensors, FlushCapture(s) PROVE TypeOK'
  <2>1. snapshot' \in [Sensors -> Snapshot]
    BY <1>5, FlushEffect DEF Turns
  <2>2. answer' \in [Sensors -> {None} \cup
                       [gen : Nat, ok : BOOLEAN, picture : Picture \cup {None}]]
    <3> DEFINE new == [gen |-> snapshotGeneration[s],
                       ok |-> /\ snapshot[s].completed /\ ~snapshot[s].failed
                              /\ ~KeyframeMissing(s),
                       picture |-> snapshot[s].picture]
    <3>1. new \in [gen : Nat, ok : BOOLEAN, picture : Picture \cup {None}]
      BY DEF Snapshot
    <3>2. answer' = [answer EXCEPT ![s] = new]
      BY <1>5 DEF FlushCapture
    <3> QED
      BY <3>1, <3>2
  <2>3. passesToSkip' \in [Sensors -> 0..1]
    BY <1>5 DEF FlushCapture
  <2> QED
    BY <1>5, <2>1, <2>2, <2>3
       DEF FlushCapture, handshake, gpuVars, readbackVars, workerVars
<1>6. ASSUME NEW s \in Sensors, PostRender(s) PROVE TypeOK'
  BY <1>6
     DEF PostRender, executorVars, snapshotVars, handshake, readbackVars,
         workerVars
<1>7. ASSUME NEW s \in Sensors, Render(s) PROVE TypeOK'
  BY <1>7
     DEF Render, NoRender, executorVars, snapshotVars, handshake, readbackVars,
         workerVars
<1>8. CASE BeginCapture
  <2>1. renderer.at \in Sensors
    BY <1>8 DEF BeginCapture
  <2>2. CASE CaptureIsDone(renderer.at)
    <3>1. passesToSkip' \in [Sensors -> 0..1]
      BY <1>8, <2>1 DEF BeginCapture, RenderLeaves
    <3> QED
      BY <1>8, <2>1, <2>2, <3>1, CaptureDone
         DEF BeginCapture, RenderState, PictureOrNone, RenderLeaves, executorVars,
             handshake, gpuVars, readbackVars, workerVars
  <2>3. CASE ~CaptureIsDone(renderer.at)
    <3> DEFINE hand == [gen |-> snapshot[renderer.at].gen,
                        fresh |-> freshRender[renderer.at]]
    <3>1. hand \in Picture
      BY <2>1 DEF Snapshot, Picture
    <3>2. /\ renderer' = [renderer EXCEPT !.stage = "issue", !.hand = hand]
          /\ UNCHANGED passesToSkip
      BY <1>8, <2>3 DEF BeginCapture
    <3> HIDE DEF hand
    <3>3. renderer' \in RenderState
      BY <3>1, <3>2 DEF RenderState, PictureOrNone
    <3> QED
      BY <1>8, <3>2, <3>3
         DEF BeginCapture, RenderState, PictureOrNone, RenderLeaves, executorVars,
             handshake, gpuVars, readbackVars, workerVars
  <2> QED
    BY <2>2, <2>3
<1>9. CASE IssueReadback
  <2>1. renderer.at \in Sensors
    BY <1>9 DEF IssueReadback
  <2>2. snapshot' \in [Sensors -> Snapshot]
    BY ONLY <1>t, <1>9, <2>1, IssueEffect DEF Turns, Issued, Submitted, Over, TypeOK
  <2>3. renderer' \in RenderState
    BY <1>9, <2>1, CaptureDone DEF IssueReadback
  <2>4. readback' \in [Sensors -> Picture \cup {None}]
    BY <1>9, <2>1 DEF IssueReadback
  <2> QED
    BY <1>9, <2>2, <2>3, <2>4 DEF IssueReadback, RenderState, PictureOrNone,
       RenderLeaves, executorVars, handshake, gpuVars, workerVars
<1>10. CASE ReadSynchronously
  <2>1. renderer.at \in Sensors
    BY <1>10 DEF ReadSynchronously
  <2>2. snapshot' \in [Sensors -> Snapshot]
    BY ONLY <1>t, <1>10, <2>1, ReadEffect
       DEF Turns, ReadBack, Submitted, Over, TypeOK
  <2>3. renderer' \in RenderState
    BY <1>10, <2>1, CaptureDone DEF ReadSynchronously
  <2>4. encodeJob' \in [Sensors -> Picture \cup {None}]
    BY <1>10, <2>1 DEF ReadSynchronously, Queue
  <2> QED
    BY <1>10, <2>2, <2>3, <2>4 DEF ReadSynchronously, RenderState,
       PictureOrNone, RenderLeaves, executorVars, handshake, gpuVars
<1>11. CASE CaptureFails
  <2>1. renderer.at \in Sensors
    BY <1>11 DEF CaptureFails
  <2>2. snapshot' \in [Sensors -> Snapshot]
    BY ONLY <1>t, <1>11, <2>1, FailEffect
       DEF Turns, FailedIf, Submitted, Over, TypeOK
  <2>3. renderer' \in RenderState
    BY <1>11, <2>1, CaptureDone DEF CaptureFails
  <2> QED
    BY <1>11, <2>2, <2>3
       DEF CaptureFails, RenderState, PictureOrNone, RenderLeaves, executorVars,
           handshake,
           gpuVars, readbackVars, workerVars
<1>12. CASE PollWaits
  <2>1. renderer.at \in Sensors
    BY <1>12 DEF PollWaits
  <2>2. renderer' \in RenderState
    BY <1>12, <2>1, CaptureDone DEF PollWaits
  <2> QED
    BY <1>12, <2>2
       DEF PollWaits, RenderState, PictureOrNone, RenderLeaves, executorVars,
           handshake,
           gpuVars, readbackVars, workerVars
<1>13. CASE PollSucceeds
  <2>1. renderer.at \in Sensors
    BY <1>13 DEF PollSucceeds
  <2>2. snapshot' \in [Sensors -> Snapshot]
    BY ONLY <1>t, <1>13, <2>1, PollEffect
       DEF Turns, FailedIf, Submitted, Over, TypeOK
  <2>3. renderer' \in RenderState
    BY <1>13, <2>1, CaptureDone DEF PollSucceeds
  <2>4. /\ encodeJob' \in [Sensors -> Picture \cup {None}]
        /\ readback' \in [Sensors -> Picture \cup {None}]
    BY <1>13, <2>1 DEF PollSucceeds, Queue
  <2> QED
    BY <1>13, <2>2, <2>3, <2>4 DEF PollSucceeds, RenderState, PictureOrNone,
       RenderLeaves, executorVars, handshake, gpuVars
<1>14. CASE PollFails
  <2>1. renderer.at \in Sensors
    BY <1>14 DEF PollFails
  <2>2. snapshot' \in [Sensors -> Snapshot]
    BY ONLY <1>t, <1>14, <2>1, RearmEffect
       DEF Turns, Rearmed, Submitted, Over, TypeOK
  <2>3. renderer' \in RenderState
    BY <1>14, <2>1, CaptureDone DEF PollFails
  <2>4. passesToSkip' \in [Sensors -> 0..1]
    BY <1>14, <2>1 DEF PollFails
  <2> QED
    BY <1>14, <2>2, <2>3, <2>4 DEF PollFails, RenderState, PictureOrNone,
       RenderLeaves, executorVars, handshake, gpuVars, workerVars
<1>15. CASE ExchangeForce
  BY <1>15
     DEF ExchangeForce, executorVars, snapshotVars, handshake, gpuVars,
         readbackVars, workerVars
<1>16. CASE EncodeFrame
  BY <1>16
     DEF EncodeFrame, NoRender, executorVars, snapshotVars, gpuVars, readbackVars,
         workerVars
<1>17. CASE EncodeFails
  <2>1. /\ keyframeFailed' \in [Sensors -> Nat]
        /\ keyframePending' \in [Sensors -> Nat]
        /\ forceKeyframe' \in [Sensors -> BOOLEAN]
    <3>1. keyframeFailed' \in [Sensors -> Nat]
      BY <1>17 DEF EncodeFails
    <3>2. keyframePending' \in [Sensors -> Nat]
      BY <1>17 DEF EncodeFails
    <3>3. forceKeyframe' \in [Sensors -> BOOLEAN]
      BY <1>17 DEF EncodeFails
    <3> QED
      BY ONLY <3>1, <3>2, <3>3
  <2>2. renderer' \in RenderState
    BY ONLY <1>17, NoneIsPicture DEF EncodeFails, NoRender, RenderState
  <2> QED
    BY <1>17, <2>1, <2>2
       DEF EncodeFails, RenderState, PictureOrNone, executorVars, snapshotVars,
           gpuVars, readbackVars, workerVars
<1>18. ASSUME NEW s \in Sensors, WorkerTake(s) PROVE TypeOK'
  BY <1>18
     DEF WorkerTake, executorVars, snapshotVars, handshake, gpuVars,
         readbackVars
<1>19. ASSUME NEW s \in Sensors, WorkerDeliver(s) PROVE TypeOK'
  <2>1. snapshot' \in [Sensors -> Snapshot]
    BY ONLY <1>t, <1>19, DeliverEffect DEF Turns, Delivered, Over, TypeOK
  <2> QED
    BY <1>19, <2>1 DEF WorkerDeliver, executorVars, handshake, gpuVars, readbackVars
<1>20. ASSUME NEW s \in Sensors, StreamChanges(s) PROVE TypeOK'
  BY <1>20
     DEF StreamChanges, executorVars, snapshotVars, handshake, gpuVars,
         readbackVars, workerVars
<1>21. ASSUME NEW s \in Sensors, Unregister(s) PROVE TypeOK'
  BY <1>21
     DEF Unregister, snapshotVars, handshake, gpuVars, readbackVars, workerVars
<1>22. ASSUME NEW s \in Sensors, StopSnapshotEncoder(s) PROVE TypeOK'
  BY <1>22
     DEF StopSnapshotEncoder, executorVars, snapshotVars, handshake, gpuVars,
         readbackVars
<1>23. ASSUME NEW s \in Sensors, ReleaseRemoved(s) PROVE TypeOK'
  BY <1>23
     DEF ReleaseRemoved, snapshotVars, handshake, gpuVars, readbackVars,
         workerVars
<1>24. CASE UNCHANGED vars
  BY <1>24
     DEF vars, executorVars, snapshotVars, handshake, gpuVars, readbackVars,
         workerVars
<1> HIDE DEF Inv, TypeOK, RenderInv
<1> QED
  BY <1>1, <1>2, <1>3, <1>4, <1>5, <1>6, <1>7, <1>8, <1>9, <1>10, <1>11, <1>12,
     <1>13, <1>14, <1>15, <1>16, <1>17, <1>18, <1>19, <1>20, <1>21, <1>22, <1>23,
     <1>24
     DEF Next, AdmitKeyframe, Renderer, Worker, Removal

\* A snapshot is the latest capture's, and completes with its picture.
LEMMA SnapshotStep == Inv /\ [Next]_vars => SnapshotInv'
<1> SUFFICES ASSUME Inv, [Next]_vars PROVE SnapshotInv'
  OBVIOUS
<1>t. TypeOK
  BY DEF Inv
<1> USE DEF Inv
<1>1. ASSUME NEW s \in Sensors, NEW k \in BOOLEAN, AdmitCapture(s, k)
     PROVE  SnapshotInv'
  <2>1. Turns(s, TRUE, snapshotGeneration[s] + 1, FALSE, FALSE, FALSE, None)
    BY ONLY <1>t, <1>1, AdmitEffect
  <2>2. snapshotGeneration'
          = [snapshotGeneration EXCEPT ![s] = snapshotGeneration[s] + 1]
    BY <1>1 DEF AdmitCapture
  <2>3. snapshotGeneration \in [Sensors -> Nat]
    BY <1>t DEF TypeOK
  <2> QED
    BY <2>1, <2>2, <2>3 DEF SnapshotInv, Turns
<1>2. CASE AdmitPending
  BY <1>2 DEF SnapshotInv, AdmitPending, snapshotVars
<1>3. CASE AdmitForce
  BY <1>3 DEF SnapshotInv, AdmitForce, snapshotVars
<1>4. ASSUME NEW s \in Sensors, CaptureDeadline(s) PROVE SnapshotInv'
  BY <1>4 DEF SnapshotInv, CaptureDeadline, snapshotVars
<1>5. ASSUME NEW s \in Sensors, FlushCapture(s) PROVE SnapshotInv'
  <2>1. Turns(s, FALSE, 0, FALSE, FALSE, FALSE, None)
    BY ONLY <1>t, <1>5, FlushEffect
  <2>2. UNCHANGED snapshotGeneration
    BY <1>5 DEF FlushCapture
  <2> QED
    BY <2>1, <2>2 DEF SnapshotInv, Turns
<1>6. ASSUME NEW s \in Sensors, PostRender(s) PROVE SnapshotInv'
  BY <1>6 DEF SnapshotInv, PostRender, snapshotVars
<1>7. ASSUME NEW s \in Sensors, Render(s) PROVE SnapshotInv'
  BY <1>7 DEF SnapshotInv, Render, snapshotVars
<1>8. CASE BeginCapture
  BY <1>8 DEF SnapshotInv, BeginCapture, RenderLeaves
<1>9. CASE IssueReadback
  <2>1. renderer.at \in Sensors
    BY <1>9 DEF IssueReadback, RenderInv
  <2>2. Issued
    BY ONLY <1>t, <1>9, <2>1, IssueEffect
  <2>3. UNCHANGED snapshotGeneration
    BY <1>9 DEF IssueReadback, RenderLeaves
  <2> QED
    BY <2>1, <2>2, <2>3 DEF SnapshotInv, Submitted, Over, Turns, Issued, IsFor
<1>10. CASE ReadSynchronously
  <2>1. renderer.at \in Sensors
    BY <1>10 DEF ReadSynchronously, RenderInv
  <2>2. ReadBack
    BY ONLY <1>t, <1>10, <2>1, ReadEffect
  <2>3. UNCHANGED snapshotGeneration
    BY <1>10 DEF ReadSynchronously, RenderLeaves
  <2> QED
    BY <2>1, <2>2, <2>3 DEF SnapshotInv, Submitted, Over, Turns, ReadBack, IsFor
<1>11. CASE CaptureFails
  <2>1. renderer.at \in Sensors
    BY <1>11 DEF CaptureFails, RenderInv
  <2>2. FailedIf(TRUE)
    BY ONLY <1>t, <1>11, <2>1, FailEffect
  <2>3. UNCHANGED snapshotGeneration
    BY <1>11 DEF CaptureFails, RenderLeaves
  <2> QED
    BY <2>1, <2>2, <2>3 DEF SnapshotInv, Submitted, Over, Turns, FailedIf, IsFor
<1>12. CASE PollWaits
  BY <1>12 DEF SnapshotInv, PollWaits, RenderLeaves
<1>13. CASE PollSucceeds
  <2>1. renderer.at \in Sensors
    BY <1>13 DEF PollSucceeds, RenderInv
  <2>2. FailedIf(~CanQueue(renderer.at))
    BY ONLY <1>t, <1>13, <2>1, PollEffect
  <2>3. UNCHANGED snapshotGeneration
    BY <1>13 DEF PollSucceeds, RenderLeaves
  <2> QED
    BY <2>1, <2>2, <2>3 DEF SnapshotInv, Submitted, Over, Turns, FailedIf, IsFor
<1>14. CASE PollFails
  <2>1. renderer.at \in Sensors
    BY <1>14 DEF PollFails, RenderInv
  <2>2. Rearmed
    BY ONLY <1>t, <1>14, <2>1, RearmEffect
  <2>3. UNCHANGED snapshotGeneration
    BY <1>14 DEF PollFails, RenderLeaves
  <2> QED
    BY <2>1, <2>2, <2>3 DEF SnapshotInv, Submitted, Over, Turns, Rearmed, IsFor
<1>15. CASE ExchangeForce
  BY <1>15 DEF SnapshotInv, ExchangeForce, snapshotVars
<1>16. CASE EncodeFrame
  BY <1>16 DEF SnapshotInv, EncodeFrame, snapshotVars
<1>17. CASE EncodeFails
  BY <1>17 DEF SnapshotInv, EncodeFails, snapshotVars
<1>18. ASSUME NEW s \in Sensors, WorkerTake(s) PROVE SnapshotInv'
  BY <1>18 DEF SnapshotInv, WorkerTake, snapshotVars
<1>19. ASSUME NEW s \in Sensors, WorkerDeliver(s) PROVE SnapshotInv'
  <2>1. Delivered(s)
    BY ONLY <1>t, <1>19, DeliverEffect
  <2>2. UNCHANGED snapshotGeneration /\ workerHand[s] # None
    BY <1>19 DEF WorkerDeliver
  <2>3. workerHand[s].gen = snapshot[s].gen /\ workerHand[s].fresh
    BY <2>2 DEF WorkInv, Holds
  <2>4. CASE IsFor(s, workerHand[s])
    <3>1. PICK failed \in BOOLEAN : Over(s, FALSE, failed, workerHand[s])
      BY ONLY <2>1, <2>4 DEF Delivered
    <3>2. /\ snapshot'[s].wanted = snapshot[s].wanted
          /\ snapshot'[s].gen = snapshot[s].gen
          /\ snapshot'[s].picture = workerHand[s]
          /\ \A r \in Sensors \ {s} : snapshot'[r] = snapshot[r]
      BY ONLY <3>1 DEF Over, Turns
    <3>3. SnapshotInv
      OBVIOUS
    <3> QED
      BY ONLY <2>2, <2>3, <3>2, <3>3 DEF SnapshotInv
  <2>5. CASE ~IsFor(s, workerHand[s])
    <3>1. snapshot' = snapshot
      BY ONLY <2>1, <2>5 DEF Delivered
    <3>2. SnapshotInv
      OBVIOUS
    <3> QED
      BY ONLY <2>2, <3>1, <3>2 DEF SnapshotInv
  <2> QED
    BY ONLY <2>4, <2>5
<1>20. ASSUME NEW s \in Sensors, StreamChanges(s) PROVE SnapshotInv'
  BY <1>20 DEF SnapshotInv, StreamChanges, snapshotVars
<1>21. ASSUME NEW s \in Sensors, Unregister(s) PROVE SnapshotInv'
  BY <1>21 DEF SnapshotInv, Unregister, snapshotVars
<1>22. ASSUME NEW s \in Sensors, StopSnapshotEncoder(s) PROVE SnapshotInv'
  BY <1>22 DEF SnapshotInv, StopSnapshotEncoder, snapshotVars
<1>23. ASSUME NEW s \in Sensors, ReleaseRemoved(s) PROVE SnapshotInv'
  BY <1>23 DEF SnapshotInv, ReleaseRemoved, snapshotVars
<1>24. CASE UNCHANGED vars
  BY <1>24 DEF SnapshotInv, vars, snapshotVars
<1> QED
  BY <1>1, <1>2, <1>3, <1>4, <1>5, <1>6, <1>7, <1>8, <1>9, <1>10, <1>11, <1>12,
     <1>13, <1>14, <1>15, <1>16, <1>17, <1>18, <1>19, <1>20, <1>21, <1>22, <1>23,
     <1>24
     DEF Next, AdmitKeyframe, Renderer, Worker, Removal

\* The render thread never changes whether a snapshot is wanted, and stays with
\* its sensor until the render is through.
LEMMA RendererKeeps ==
  ASSUME Inv, Renderer
  PROVE  /\ \A r \in Sensors : snapshot'[r].wanted = snapshot[r].wanted
         /\ renderer'.at \in {renderer.at, None}
         /\ UNCHANGED <<captureReserved, captureReply, captureSlotHeld, removal>>
<1>t. TypeOK
  BY DEF Inv
<1> USE DEF Inv
<1>1. CASE BeginCapture
  <2>1. renderer.at \in Sensors
    BY <1>1 DEF BeginCapture, RenderInv
  <2>2. \/ CaptureIsDone(renderer.at)
        \/ renderer' = [renderer EXCEPT
              !.stage = "issue",
              !.hand = [gen |-> snapshot[renderer.at].gen,
                        fresh |-> freshRender[renderer.at]]]
    BY <1>1 DEF BeginCapture
  <2>3. renderer'.at \in {renderer.at, None}
    <3>1. CASE CaptureIsDone(renderer.at)
      BY <2>1, <3>1, CaptureDone DEF NoRender
    <3>2. CASE ~CaptureIsDone(renderer.at)
      BY <1>t, <2>2, <3>2 DEF TypeOK
    <3> QED
      BY <3>1, <3>2
  <2> QED
    BY <1>1, <2>3 DEF BeginCapture, RenderLeaves, executorVars
<1>2. CASE IssueReadback
  <2>1. renderer.at \in Sensors
    BY <1>2 DEF IssueReadback, RenderInv
  <2>2. Issued
    BY ONLY <1>t, <1>2, <2>1, IssueEffect
  <2>3. \A r \in Sensors : snapshot'[r].wanted = snapshot[r].wanted
    BY <2>1, <2>2 DEF Submitted, Over, Turns, Issued
  <2>4. renderer'.at \in {renderer.at, None}
    BY <1>2, <2>1, CaptureDone DEF IssueReadback, NoRender
  <2> QED
    BY <1>2, <2>3, <2>4 DEF IssueReadback, RenderLeaves, executorVars
<1>3. CASE ReadSynchronously
  <2>1. renderer.at \in Sensors
    BY <1>3 DEF ReadSynchronously, RenderInv
  <2>2. ReadBack
    BY ONLY <1>t, <1>3, <2>1, ReadEffect
  <2>3. \A r \in Sensors : snapshot'[r].wanted = snapshot[r].wanted
    BY <2>1, <2>2 DEF Submitted, Over, Turns, ReadBack
  <2>4. renderer'.at \in {renderer.at, None}
    BY <1>3, <2>1, CaptureDone DEF ReadSynchronously, NoRender
  <2> QED
    BY <1>3, <2>3, <2>4 DEF ReadSynchronously, RenderLeaves, executorVars
<1>4. CASE CaptureFails
  <2>1. renderer.at \in Sensors
    BY <1>4 DEF CaptureFails, RenderInv
  <2>2. FailedIf(TRUE)
    BY ONLY <1>t, <1>4, <2>1, FailEffect
  <2>3. \A r \in Sensors : snapshot'[r].wanted = snapshot[r].wanted
    BY <2>1, <2>2 DEF Submitted, Over, Turns, FailedIf
  <2>4. renderer'.at \in {renderer.at, None}
    BY <1>4, <2>1, CaptureDone DEF CaptureFails, NoRender
  <2> QED
    BY <1>4, <2>3, <2>4 DEF CaptureFails, RenderLeaves, executorVars
<1>5. CASE PollWaits
  <2>1. renderer.at \in Sensors
    BY <1>5 DEF PollWaits, RenderInv
  <2>2. renderer'.at \in {renderer.at, None}
    BY <1>t, <1>5, <2>1, CaptureDone DEF PollWaits, NoRender, TypeOK
  <2> QED
    BY <1>5, <2>2 DEF PollWaits, RenderLeaves, executorVars
<1>6. CASE PollSucceeds
  <2>1. renderer.at \in Sensors
    BY <1>6 DEF PollSucceeds, RenderInv
  <2>2. FailedIf(~CanQueue(renderer.at))
    BY ONLY <1>t, <1>6, <2>1, PollEffect
  <2>3. \A r \in Sensors : snapshot'[r].wanted = snapshot[r].wanted
    BY <2>1, <2>2 DEF Submitted, Over, Turns, FailedIf
  <2>4. renderer'.at \in {renderer.at, None}
    BY <1>6, <2>1, CaptureDone DEF PollSucceeds, NoRender
  <2> QED
    BY <1>6, <2>3, <2>4 DEF PollSucceeds, RenderLeaves, executorVars
<1>7. CASE PollFails
  <2>1. renderer.at \in Sensors
    BY <1>7 DEF PollFails, RenderInv
  <2>2. Rearmed
    BY ONLY <1>t, <1>7, <2>1, RearmEffect
  <2>3. \A r \in Sensors : snapshot'[r].wanted = snapshot[r].wanted
    BY <2>1, <2>2 DEF Submitted, Over, Turns, Rearmed
  <2>4. renderer'.at \in {renderer.at, None}
    BY <1>7, <2>1, CaptureDone DEF PollFails, NoRender
  <2> QED
    BY <1>7, <2>3, <2>4 DEF PollFails, RenderLeaves, executorVars
<1>8. CASE ExchangeForce
  <2>1. renderer'.at \in {renderer.at, None}
    BY <1>t, <1>8 DEF ExchangeForce, NoRender, TypeOK
  <2> QED
    BY <1>8, <2>1 DEF ExchangeForce, executorVars, snapshotVars
<1>9. CASE EncodeFrame
  <2>1. renderer'.at \in {renderer.at, None}
    BY <1>t, <1>9 DEF EncodeFrame, NoRender, TypeOK
  <2> QED
    BY <1>9, <2>1 DEF EncodeFrame, executorVars, snapshotVars
<1>10. CASE EncodeFails
  <2>1. renderer'.at \in {renderer.at, None}
    BY <1>t, <1>10 DEF EncodeFails, NoRender, TypeOK
  <2> QED
    BY <1>10, <2>1 DEF EncodeFails, executorVars, snapshotVars
<1> QED
  BY <1>1, <1>2, <1>3, <1>4, <1>5, <1>6, <1>7, <1>8, <1>9, <1>10 DEF Renderer

\* The slot follows its capture, and a removal gives it back.
LEMMA SlotStep == Inv /\ [Next]_vars => SlotInv'
<1> SUFFICES ASSUME Inv, [Next]_vars PROVE SlotInv'
  OBVIOUS
<1>t. TypeOK
  BY DEF Inv
<1> USE DEF Inv
<1>1. ASSUME NEW s \in Sensors, NEW k \in BOOLEAN, AdmitCapture(s, k)
     PROVE  SlotInv'
  <2>1. Turns(s, TRUE, snapshotGeneration[s] + 1, FALSE, FALSE, FALSE, None)
    BY ONLY <1>t, <1>1, AdmitEffect
  <2>2. /\ captureSlotHeld' = [captureSlotHeld EXCEPT ![s] = TRUE]
        /\ captureReply' = [captureReply EXCEPT ![s] = TRUE]
        /\ ~captureReserved /\ captureReserved' /\ removal[s] = "present"
        /\ UNCHANGED <<removal, renderer>>
    BY <1>1 DEF AdmitCapture
  <2> QED
    BY <1>t, <2>1, <2>2 DEF SlotInv, Rendering, Turns, TypeOK
<1>2. CASE AdmitPending
  BY <1>t, <1>2 DEF SlotInv, Rendering, TypeOK, AdmitPending, snapshotVars
<1>3. CASE AdmitForce
  BY <1>t, <1>3 DEF SlotInv, Rendering, TypeOK, AdmitForce, snapshotVars
<1>4. ASSUME NEW s \in Sensors, CaptureDeadline(s) PROVE SlotInv'
  BY <1>t, <1>4 DEF SlotInv, Rendering, TypeOK, CaptureDeadline, snapshotVars
<1>5. ASSUME NEW s \in Sensors, FlushCapture(s) PROVE SlotInv'
  <2>1. Turns(s, FALSE, 0, FALSE, FALSE, FALSE, None)
    BY ONLY <1>t, <1>5, FlushEffect
  <2>2. /\ captureSlotHeld' = [captureSlotHeld EXCEPT ![s] = FALSE]
        /\ captureReply' = [captureReply EXCEPT ![s] = FALSE]
        /\ captureReply[s] /\ removal[s] = "present" /\ ~captureReserved'
        /\ UNCHANGED <<removal, renderer>>
    BY <1>5 DEF FlushCapture
  <2> QED
    BY <1>t, <2>1, <2>2 DEF SlotInv, Rendering, Turns, TypeOK
<1>6. ASSUME NEW s \in Sensors, PostRender(s) PROVE SlotInv'
  BY <1>t, <1>6
     DEF SlotInv, Rendering, TypeOK, PostRender, executorVars, snapshotVars
<1>7. ASSUME NEW s \in Sensors, Render(s) PROVE SlotInv'
  <2>1. renderer'.at = s
    BY <1>7 DEF Render, NoRender
  <2> QED
    BY <1>7, <2>1 DEF SlotInv, Rendering, Render, executorVars, snapshotVars
<1>8. ASSUME NEW s \in Sensors, WorkerTake(s) PROVE SlotInv'
  BY <1>t, <1>8
     DEF SlotInv, Rendering, TypeOK, WorkerTake, executorVars, snapshotVars
<1>9. ASSUME NEW s \in Sensors, WorkerDeliver(s) PROVE SlotInv'
  <2>1. Delivered(s)
    BY ONLY <1>t, <1>9, DeliverEffect
  <2>2. \A r \in Sensors : snapshot'[r].wanted = snapshot[r].wanted
    BY <2>1 DEF Over, Turns, Delivered
  <2> QED
    BY <1>9, <2>2 DEF SlotInv, Rendering, WorkerDeliver, executorVars
<1>10. ASSUME NEW s \in Sensors, StreamChanges(s) PROVE SlotInv'
  BY <1>t, <1>10
     DEF SlotInv, Rendering, TypeOK, StreamChanges, executorVars, snapshotVars
<1>11. ASSUME NEW s \in Sensors, Unregister(s) PROVE SlotInv'
  BY <1>t, <1>11 DEF SlotInv, Rendering, TypeOK, Unregister, snapshotVars
<1>12. ASSUME NEW s \in Sensors, StopSnapshotEncoder(s) PROVE SlotInv'
  BY <1>t, <1>12
     DEF SlotInv, Rendering, TypeOK, StopSnapshotEncoder, executorVars,
         snapshotVars
<1>13. ASSUME NEW s \in Sensors, ReleaseRemoved(s) PROVE SlotInv'
  BY <1>t, <1>13 DEF SlotInv, Rendering, TypeOK, ReleaseRemoved, snapshotVars
<1>14. CASE UNCHANGED vars
  BY <1>t, <1>14 DEF SlotInv, Rendering, TypeOK, vars, executorVars, snapshotVars
<1>15. CASE Renderer
  <2>1. None \notin Sensors
    BY NoneIsNoValue
  <2> QED
    BY <1>15, <2>1, RendererKeeps DEF SlotInv, Rendering
<1> QED
  BY <1>1, <1>2, <1>3, <1>4, <1>5, <1>6, <1>7, <1>8, <1>9, <1>10, <1>11, <1>12,
     <1>13, <1>14, <1>15
     DEF Next, AdmitKeyframe, Worker, Removal

\* A sensor whose capture is over, or which has not submitted one, has no work.
LEMMA NoWork ==
  ASSUME WorkInv, NEW s \in Sensors,
         ~(snapshot[s].wanted /\ snapshot[s].submitted /\ ~snapshot[s].completed)
  PROVE  readback[s] = None /\ encodeJob[s] = None /\ workerHand[s] = None
  BY DEF WorkInv, Holds

\* Work moves from the GPU to the worker, or ends.
LEMMA WorkStep == Inv /\ [Next]_vars => WorkInv'
<1> SUFFICES ASSUME Inv, [Next]_vars PROVE WorkInv'
  OBVIOUS
<1>t. TypeOK
  BY DEF Inv
<1> USE DEF Inv
<1>1. ASSUME NEW s \in Sensors, NEW k \in BOOLEAN, AdmitCapture(s, k)
     PROVE  WorkInv'
  <2>1. Turns(s, TRUE, snapshotGeneration[s] + 1, FALSE, FALSE, FALSE, None)
    BY ONLY <1>t, <1>1, AdmitEffect
  <2>2. UNCHANGED <<readback, encodeJob, workerHand>>
    BY <1>1 DEF AdmitCapture, readbackVars, workerVars
  <2>3. ~snapshot[s].wanted
    BY <1>1 DEF AdmitCapture, SlotInv
  <2>4. readback[s] = None /\ encodeJob[s] = None /\ workerHand[s] = None
    BY <2>3, NoWork
  <2> QED
    BY <2>1, <2>2, <2>4 DEF WorkInv, Holds, Turns
<1>2. CASE AdmitPending
  BY <1>2 DEF WorkInv, Holds, AdmitPending, snapshotVars, readbackVars,
     workerVars
<1>3. CASE AdmitForce
  BY <1>3 DEF WorkInv, Holds, AdmitForce, snapshotVars, readbackVars, workerVars
<1>4. ASSUME NEW s \in Sensors, CaptureDeadline(s) PROVE WorkInv'
  BY <1>4 DEF WorkInv, Holds, CaptureDeadline, snapshotVars, readbackVars,
     workerVars
<1>5. ASSUME NEW s \in Sensors, FlushCapture(s) PROVE WorkInv'
  <2>1. Turns(s, FALSE, 0, FALSE, FALSE, FALSE, None)
    BY ONLY <1>t, <1>5, FlushEffect
  <2>2. UNCHANGED <<readback, encodeJob, workerHand>>
    BY <1>5 DEF FlushCapture, readbackVars, workerVars
  <2>3. snapshot[s].completed \/ ~snapshot[s].submitted
    BY <1>5 DEF FlushCapture, Answerable, Overdue
  <2>4. readback[s] = None /\ encodeJob[s] = None /\ workerHand[s] = None
    BY <2>3, NoWork
  <2> QED
    BY <2>1, <2>2, <2>4 DEF WorkInv, Holds, Turns
<1>6. ASSUME NEW s \in Sensors, PostRender(s) PROVE WorkInv'
  BY <1>6 DEF WorkInv, Holds, PostRender, snapshotVars, readbackVars, workerVars
<1>7. ASSUME NEW s \in Sensors, Render(s) PROVE WorkInv'
  BY <1>7 DEF WorkInv, Holds, Render, snapshotVars, readbackVars, workerVars
<1>8. CASE BeginCapture
  BY <1>8 DEF WorkInv, Holds, BeginCapture, readbackVars, workerVars
<1>9. CASE IssueReadback
  <2>1. renderer.at \in Sensors
    BY <1>9 DEF IssueReadback, RenderInv
  <2>2. Issued
    BY ONLY <1>t, <1>9, <2>1, IssueEffect
  <2>3. /\ renderer.hand # None /\ renderer.hand.fresh /\ renderer.hand.gen # 0
        /\ ~snapshot[renderer.at].submitted
    BY <1>9 DEF RenderInv, IssueReadback
  <2>4. /\ readback[renderer.at] = None /\ encodeJob[renderer.at] = None
        /\ workerHand[renderer.at] = None
    BY <2>1, <2>3, NoWork
  <2>5. /\ readback' = IF IsFor(renderer.at, renderer.hand)
                         THEN [readback EXCEPT ![renderer.at] = renderer.hand]
                         ELSE readback
        /\ UNCHANGED <<encodeJob, workerHand>>
    BY <1>9 DEF IssueReadback, workerVars
  <2> QED
    BY <1>t, <2>1, <2>2, <2>3, <2>4, <2>5
       DEF WorkInv, Holds, Submitted, Turns, Issued, IsFor, SnapshotInv, TypeOK
<1>10. CASE ReadSynchronously
  <2>1. renderer.at \in Sensors
    BY <1>10 DEF ReadSynchronously, RenderInv
  <2>2. ReadBack
    BY ONLY <1>t, <1>10, <2>1, ReadEffect
  <2>3. /\ renderer.hand # None /\ renderer.hand.fresh /\ renderer.hand.gen # 0
        /\ ~snapshot[renderer.at].submitted
    BY <1>10 DEF RenderInv, ReadSynchronously
  <2>4. /\ readback[renderer.at] = None /\ encodeJob[renderer.at] = None
        /\ workerHand[renderer.at] = None
    BY <2>1, <2>3, NoWork
  <2>5. /\ encodeJob' = IF IsFor(renderer.at, renderer.hand)
                          THEN [encodeJob EXCEPT ![renderer.at] = renderer.hand]
                          ELSE encodeJob
        /\ UNCHANGED <<readback, workerHand>>
    BY <1>10, <2>4 DEF ReadSynchronously, CanQueue, Queue
  <2>6. CanQueue(renderer.at)
    BY <2>4 DEF CanQueue
  <2> QED
    BY <1>t, <2>1, <2>2, <2>3, <2>4, <2>5, <2>6
       DEF WorkInv, Holds, Submitted, Turns, ReadBack, IsFor, SnapshotInv, TypeOK
<1>11. CASE CaptureFails
  <2>1. renderer.at \in Sensors
    BY <1>11 DEF CaptureFails, RenderInv
  <2>2. FailedIf(TRUE)
    BY ONLY <1>t, <1>11, <2>1, FailEffect
  <2>3. /\ renderer.hand # None /\ renderer.hand.fresh /\ renderer.hand.gen # 0
        /\ ~snapshot[renderer.at].submitted
    BY <1>11 DEF RenderInv, CaptureFails
  <2>4. /\ readback[renderer.at] = None /\ encodeJob[renderer.at] = None
        /\ workerHand[renderer.at] = None
    BY <2>1, <2>3, NoWork
  <2>5. UNCHANGED <<readback, encodeJob, workerHand>>
    BY <1>11 DEF CaptureFails, readbackVars, workerVars
  <2> QED
    BY <2>1, <2>2, <2>4, <2>5 DEF WorkInv, Holds, Over, Turns, FailedIf
<1>12. CASE PollWaits
  BY <1>12 DEF WorkInv, Holds, PollWaits, readbackVars, workerVars
<1>13. CASE PollSucceeds
  <2>1. renderer.at \in Sensors
    BY <1>13 DEF PollSucceeds, RenderInv
  <2>2. FailedIf(~CanQueue(renderer.at))
    BY ONLY <1>t, <1>13, <2>1, PollEffect
  <2>3. /\ readback[renderer.at] # None /\ encodeJob[renderer.at] = None
        /\ workerHand[renderer.at] = None
                /\ Holds(renderer.at, readback[renderer.at])
    BY <1>13, <2>1 DEF PollSucceeds, WorkInv
  <2>4. /\ readback' = [readback EXCEPT ![renderer.at] = None]
        /\ encodeJob' = [encodeJob EXCEPT ![renderer.at] = readback[renderer.at]]
        /\ UNCHANGED <<snapshot, workerHand>>
    BY <1>13, <2>3 DEF PollSucceeds, CanQueue, Queue
  <2> QED
    BY <1>t, <2>1, <2>3, <2>4 DEF WorkInv, Holds, TypeOK
<1>14. CASE PollFails
  <2>1. renderer.at \in Sensors
    BY <1>14 DEF PollFails, RenderInv
  <2>2. Rearmed
    BY ONLY <1>t, <1>14, <2>1, RearmEffect
  <2>3. /\ readback[renderer.at] # None /\ encodeJob[renderer.at] = None
        /\ workerHand[renderer.at] = None
    BY <1>14, <2>1 DEF PollFails, WorkInv
  <2>4. /\ readback' = [readback EXCEPT ![renderer.at] = None]
        /\ UNCHANGED <<encodeJob, workerHand>>
    BY <1>14 DEF PollFails, workerVars
  <2> QED
    BY <1>t, <2>1, <2>2, <2>3, <2>4
       DEF WorkInv, Holds, Submitted, Turns, Rearmed, TypeOK
<1>15. CASE ExchangeForce
  BY <1>15 DEF WorkInv, Holds, ExchangeForce, snapshotVars, readbackVars,
     workerVars
<1>16. CASE EncodeFrame
  BY <1>16 DEF WorkInv, Holds, EncodeFrame, snapshotVars, readbackVars,
     workerVars
<1>17. CASE EncodeFails
  BY <1>17 DEF WorkInv, Holds, EncodeFails, snapshotVars, readbackVars,
     workerVars
<1>18. ASSUME NEW s \in Sensors, WorkerTake(s) PROVE WorkInv'
  <2>1. /\ encodeJob[s] # None /\ readback[s] = None
        /\ workerHand' = [workerHand EXCEPT ![s] = encodeJob[s]]
        /\ encodeJob' = [encodeJob EXCEPT ![s] = None]
        /\ UNCHANGED <<snapshot, readback>>
    BY <1>18 DEF WorkerTake, snapshotVars, readbackVars, WorkInv
  <2> QED
    BY <1>t, <2>1 DEF WorkInv, Holds, TypeOK
<1>19. ASSUME NEW s \in Sensors, WorkerDeliver(s) PROVE WorkInv'
  <2>1. Delivered(s)
    BY ONLY <1>t, <1>19, DeliverEffect
  <2>2. /\ workerHand[s] # None /\ readback[s] = None /\ encodeJob[s] = None
        /\ workerHand' = [workerHand EXCEPT ![s] = None]
        /\ UNCHANGED <<readback, encodeJob>>
    BY <1>19 DEF WorkerDeliver, readbackVars, WorkInv
  <2> QED
    BY <1>t, <2>1, <2>2 DEF WorkInv, Holds, Over, Turns, Delivered, TypeOK
<1>20. ASSUME NEW s \in Sensors, StreamChanges(s) PROVE WorkInv'
  BY <1>20 DEF WorkInv, Holds, StreamChanges, snapshotVars, readbackVars,
     workerVars
<1>21. ASSUME NEW s \in Sensors, Unregister(s) PROVE WorkInv'
  BY <1>21 DEF WorkInv, Holds, Unregister, snapshotVars, readbackVars,
     workerVars
<1>22. ASSUME NEW s \in Sensors, StopSnapshotEncoder(s) PROVE WorkInv'
  <2>1. /\ encodeJob' = [encodeJob EXCEPT ![s] = None]
        /\ UNCHANGED <<snapshot, readback, workerHand>>
    BY <1>22 DEF StopSnapshotEncoder, snapshotVars, readbackVars
  <2> QED
    BY <1>t, <2>1 DEF WorkInv, Holds, TypeOK
<1>23. ASSUME NEW s \in Sensors, ReleaseRemoved(s) PROVE WorkInv'
  BY <1>23 DEF WorkInv, Holds, ReleaseRemoved, snapshotVars, readbackVars,
     workerVars
<1>24. CASE UNCHANGED vars
  BY <1>24 DEF WorkInv, Holds, vars, snapshotVars, readbackVars, workerVars
<1> QED
  BY <1>1, <1>2, <1>3, <1>4, <1>5, <1>6, <1>7, <1>8, <1>9, <1>10, <1>11, <1>12,
     <1>13, <1>14, <1>15, <1>16, <1>17, <1>18, <1>19, <1>20, <1>21, <1>22, <1>23,
     <1>24
     DEF Next, AdmitKeyframe, Renderer, Worker, Removal

\* Only a render that began after the admission is captured.
LEMMA RenderStep == Inv /\ [Next]_vars => RenderInv'
<1> SUFFICES ASSUME Inv, [Next]_vars PROVE RenderInv'
  OBVIOUS
<1>t. TypeOK
  BY DEF Inv
<1> USE DEF Inv
<1>1. ASSUME NEW s \in Sensors, NEW k \in BOOLEAN, AdmitCapture(s, k)
     PROVE  RenderInv'
  <2>1. Turns(s, TRUE, snapshotGeneration[s] + 1, FALSE, FALSE, FALSE, None)
    BY ONLY <1>t, <1>1, AdmitEffect
  <2>2. /\ passesToSkip' = [passesToSkip EXCEPT ![s] = 1]
        /\ freshRender' = [freshRender EXCEPT ![s] = FALSE]
        /\ UNCHANGED <<renderer, sensorActive, replay, readback, removal>>
    BY <1>1 DEF AdmitCapture, readbackVars
  <2> QED
    BY <1>t, <2>1, <2>2 DEF RenderInv, Waits, Rendering, Turns, TypeOK
<1>2. CASE AdmitPending
  BY <1>t, <1>2 DEF RenderInv, Waits, Rendering, AdmitPending, snapshotVars,
     gpuVars, readbackVars
<1>3. CASE AdmitForce
  BY <1>t, <1>3 DEF RenderInv, Waits, Rendering, AdmitForce, snapshotVars,
     gpuVars, readbackVars
<1>4. ASSUME NEW s \in Sensors, CaptureDeadline(s) PROVE RenderInv'
  BY <1>t, <1>4 DEF RenderInv, Waits, Rendering, CaptureDeadline, snapshotVars,
     gpuVars, readbackVars
<1>5. ASSUME NEW s \in Sensors, FlushCapture(s) PROVE RenderInv'
  <2>1. Turns(s, FALSE, 0, FALSE, FALSE, FALSE, None)
    BY ONLY <1>t, <1>5, FlushEffect
  <2>2. /\ passesToSkip' = [passesToSkip EXCEPT ![s] = 0]
        /\ UNCHANGED <<renderer, gpuVars, readback, removal>>
    BY <1>5 DEF FlushCapture, readbackVars
  <2> QED
    BY <1>t, <2>1, <2>2 DEF RenderInv, Waits, Rendering, Turns, TypeOK, gpuVars
<1>6. ASSUME NEW s \in Sensors, PostRender(s) PROVE RenderInv'
  <2>1. renderer = NoRender /\ None \notin Sensors
    BY <1>6, NoneIsNoValue DEF PostRender
  <2>2. Waits(s) => NeedsRender(s)
    BY DEF Waits, NeedsRender
  <2>3. /\ sensorActive' = [sensorActive EXCEPT
                ![s] = stream[s] = "active" \/ NeedsRender(s)]
        /\ replay' = [replay EXCEPT
                ![s] = (replay[s] \/ ~sensorActive[s]) /\ sensorActive'[s]]
        /\ UNCHANGED <<snapshot, passesToSkip, renderer,
                freshRender, readback, removal>>
    BY <1>6 DEF PostRender, snapshotVars, readbackVars
  <2> QED
    BY <1>t, <2>1, <2>2, <2>3 DEF RenderInv, Waits, Rendering, NoRender, TypeOK
<1>7. ASSUME NEW s \in Sensors, Render(s) PROVE RenderInv'
  <2>1. /\ renderer'.at = s /\ renderer'.stage = "capture"
        /\ None \notin Sensors
    BY <1>7, NoneIsNoValue DEF Render, NoRender
  <2>2. /\ sensorActive[s]
        /\ freshRender' = [freshRender EXCEPT ![s] = ~replay[s]]
        /\ replay' = [replay EXCEPT ![s] = FALSE]
        /\ UNCHANGED <<snapshot, passesToSkip, sensorActive, readback, removal>>
    BY <1>7 DEF Render, snapshotVars, readbackVars
  <2> QED
    BY <1>t, <2>1, <2>2 DEF RenderInv, Waits, Rendering, TypeOK
<1>8. CASE BeginCapture
  <2>1. renderer.at \in Sensors /\ None \notin Sensors
    BY <1>8, NoneIsNoValue DEF BeginCapture, RenderInv
  <2>2. UNCHANGED <<snapshot, sensorActive, replay, freshRender, readback, removal>>
    BY <1>8 DEF BeginCapture, RenderLeaves, gpuVars, readbackVars
  <2>3. CASE CaptureIsDone(renderer.at) /\ ~(/\ NeedsRender(renderer.at)
                                             /\ passesToSkip[renderer.at] = 0)
    <3>1. renderer' = NoRender
            \/ (renderer'.at = renderer.at /\ renderer'.stage = "encode")
      BY <2>1, <2>3, CaptureDone
    <3>2. \A r \in Sensors : passesToSkip'[r] = 0 =>
            passesToSkip[r] = 0 \/ r = renderer.at
      BY <1>t, <1>8, <2>1 DEF BeginCapture, TypeOK
    <3> QED
      BY <2>1, <2>2, <3>1, <3>2 DEF RenderInv, Waits, Rendering, NoRender
  <2>4. CASE NeedsRender(renderer.at) /\ passesToSkip[renderer.at] = 0
    <3> DEFINE hand == [gen |-> snapshot[renderer.at].gen,
                        fresh |-> freshRender[renderer.at]]
    <3>1. /\ renderer' = [renderer EXCEPT !.stage = "issue", !.hand = hand]
          /\ UNCHANGED passesToSkip /\ readback[renderer.at] = None
          /\ renderer.stage = "capture"
      BY <1>8, <2>4 DEF BeginCapture
    <3>2. Waits(renderer.at) /\ removal[renderer.at] = "present"
      BY <2>1, <2>4, <3>1 DEF NeedsRender, Waits, SlotInv, Rendering
    <3>3. freshRender[renderer.at] /\ snapshot[renderer.at].gen # 0
      BY <2>1, <2>4, <3>1, <3>2 DEF RenderInv, Rendering, SnapshotInv, Waits
    <3>4. hand \in Picture
      BY <1>t, <2>1 DEF TypeOK, Snapshot, Picture
    <3>5. hand # None /\ hand.fresh /\ hand.gen # 0
      BY <3>3, <3>4, NoneIsNoValue
    <3> HIDE DEF hand
    <3>6. renderer'.at = renderer.at /\ renderer'.stage = "issue"
            /\ renderer'.hand = hand
      BY <1>t, <3>1 DEF TypeOK
    <3> QED
      BY <2>1, <2>2, <3>1, <3>2, <3>5, <3>6
         DEF RenderInv, Waits, Rendering, NoRender
  <2> QED
    BY <1>t, <1>8, <2>1, <2>3, <2>4 DEF BeginCapture, TypeOK
<1>9. CASE IssueReadback
  <2>1. renderer.at \in Sensors /\ None \notin Sensors
    BY <1>9, NoneIsNoValue DEF IssueReadback, RenderInv
  <2>2. Issued
    BY ONLY <1>t, <1>9, <2>1, IssueEffect
  <2>3. renderer' = NoRender
          \/ (renderer'.at = renderer.at /\ renderer'.stage = "encode")
    BY <1>9, <2>1, CaptureDone DEF IssueReadback
  <2>4. UNCHANGED <<passesToSkip, sensorActive, replay, freshRender, removal>>
    BY <1>9 DEF IssueReadback, RenderLeaves, gpuVars
  <2> QED
    BY <2>1, <2>2, <2>3, <2>4
       DEF RenderInv, Waits, Rendering, NoRender, Submitted, Over, Turns, Issued
<1>10. CASE ReadSynchronously
  <2>1. renderer.at \in Sensors /\ None \notin Sensors
    BY <1>10, NoneIsNoValue DEF ReadSynchronously, RenderInv
  <2>2. ReadBack
    BY ONLY <1>t, <1>10, <2>1, ReadEffect
  <2>3. renderer' = NoRender
          \/ (renderer'.at = renderer.at /\ renderer'.stage = "encode")
    BY <1>10, <2>1, CaptureDone DEF ReadSynchronously
  <2>4. UNCHANGED <<passesToSkip, sensorActive, replay, freshRender, removal>>
    BY <1>10 DEF ReadSynchronously, RenderLeaves, gpuVars
  <2> QED
    BY <2>1, <2>2, <2>3, <2>4
       DEF RenderInv, Waits, Rendering, NoRender, Submitted, Over, Turns, ReadBack
<1>11. CASE CaptureFails
  <2>1. renderer.at \in Sensors /\ None \notin Sensors
    BY <1>11, NoneIsNoValue DEF CaptureFails, RenderInv
  <2>2. FailedIf(TRUE)
    BY ONLY <1>t, <1>11, <2>1, FailEffect
  <2>3. renderer' = NoRender
          \/ (renderer'.at = renderer.at /\ renderer'.stage = "encode")
    BY <1>11, <2>1, CaptureDone DEF CaptureFails
  <2>4. UNCHANGED <<passesToSkip, sensorActive, replay, freshRender, removal>>
    BY <1>11 DEF CaptureFails, RenderLeaves, gpuVars
  <2> QED
    BY <2>1, <2>2, <2>3, <2>4
       DEF RenderInv, Waits, Rendering, NoRender, Submitted, Over, Turns, FailedIf
<1>12. CASE PollWaits
  <2>1. renderer.at \in Sensors /\ None \notin Sensors
    BY <1>12, NoneIsNoValue DEF PollWaits, RenderInv
  <2>2. renderer' = NoRender
          \/ (renderer'.at = renderer.at /\ renderer'.stage = "encode")
    BY <1>12, <2>1, CaptureDone DEF PollWaits
  <2>3. UNCHANGED <<snapshot, passesToSkip, sensorActive, replay,
          freshRender, removal>>
    BY <1>12 DEF PollWaits, RenderLeaves, gpuVars
  <2> QED
    BY <2>1, <2>2, <2>3 DEF RenderInv, Waits, Rendering, NoRender
<1>13. CASE PollSucceeds
  <2>1. renderer.at \in Sensors /\ None \notin Sensors
    BY <1>13, NoneIsNoValue DEF PollSucceeds, RenderInv
  <2>2. FailedIf(~CanQueue(renderer.at))
    BY ONLY <1>t, <1>13, <2>1, PollEffect
  <2>3. renderer' = NoRender
          \/ (renderer'.at = renderer.at /\ renderer'.stage = "encode")
    BY <1>13, <2>1, CaptureDone DEF PollSucceeds
  <2>4. UNCHANGED <<passesToSkip, sensorActive, replay, freshRender, removal>>
    BY <1>13 DEF PollSucceeds, RenderLeaves, gpuVars
  <2> QED
    BY <2>1, <2>2, <2>3, <2>4
       DEF RenderInv, Waits, Rendering, NoRender, Submitted, Over, Turns, FailedIf
<1>14. CASE PollFails
  <2>1. renderer.at \in Sensors /\ None \notin Sensors
    BY <1>14, NoneIsNoValue DEF PollFails, RenderInv
  <2>2. Rearmed
    BY ONLY <1>t, <1>14, <2>1, RearmEffect
  <2>3. renderer' = NoRender
          \/ (renderer'.at = renderer.at /\ renderer'.stage = "encode")
    BY <1>14, <2>1, CaptureDone DEF PollFails
  <2>4. UNCHANGED <<sensorActive, replay, freshRender, removal>>
    BY <1>14 DEF PollFails, RenderLeaves, gpuVars
  <2>5. \A r \in Sensors : passesToSkip'[r] = 0 =>
          passesToSkip[r] = 0 \/ r = renderer.at
    BY <1>t, <1>14, <2>1 DEF PollFails, TypeOK
  <2> QED
    BY <2>1, <2>2, <2>3, <2>4, <2>5
       DEF RenderInv, Waits, Rendering, NoRender, Submitted, Over, Turns, Rearmed
<1>15. CASE ExchangeForce
  <2>1. /\ renderer'.at = renderer.at /\ renderer'.stage = "stamp"
        /\ renderer.at \in Sensors
    BY <1>t, <1>15 DEF ExchangeForce, TypeOK, RenderInv
  <2>2. UNCHANGED <<snapshot, passesToSkip, gpuVars, removal>>
    BY <1>15 DEF ExchangeForce, snapshotVars
  <2> QED
    BY <2>1, <2>2 DEF RenderInv, Waits, Rendering, gpuVars
<1>16. CASE EncodeFrame
  <2>1. renderer' = NoRender /\ None \notin Sensors
    BY <1>16, NoneIsNoValue DEF EncodeFrame
  <2>2. UNCHANGED <<snapshot, passesToSkip, gpuVars, removal>>
    BY <1>16 DEF EncodeFrame, snapshotVars
  <2> QED
    BY <2>1, <2>2 DEF RenderInv, Waits, Rendering, NoRender, gpuVars
<1>17. CASE EncodeFails
  <2>1. renderer' = NoRender /\ None \notin Sensors
    BY <1>17, NoneIsNoValue DEF EncodeFails
  <2>2. UNCHANGED <<snapshot, passesToSkip, gpuVars, removal>>
    BY <1>17 DEF EncodeFails, snapshotVars
  <2> QED
    BY <2>1, <2>2 DEF RenderInv, Waits, Rendering, NoRender, gpuVars
<1>18. ASSUME NEW s \in Sensors, WorkerTake(s) PROVE RenderInv'
  BY <1>t, <1>18 DEF RenderInv, Waits, Rendering, WorkerTake, snapshotVars,
     gpuVars, readbackVars
<1>19. ASSUME NEW s \in Sensors, WorkerDeliver(s) PROVE RenderInv'
  <2>1. Delivered(s)
    BY ONLY <1>t, <1>19, DeliverEffect
  <2>2. UNCHANGED <<passesToSkip, renderer, gpuVars, readback, removal>>
    BY <1>19 DEF WorkerDeliver, readbackVars
  <2> QED
    BY <2>1, <2>2 DEF RenderInv, Waits, Rendering, Over, Turns, Delivered, gpuVars
<1>20. ASSUME NEW s \in Sensors, StreamChanges(s) PROVE RenderInv'
  BY <1>t, <1>20 DEF RenderInv, Waits, Rendering, StreamChanges, snapshotVars,
     gpuVars, readbackVars
<1>21. ASSUME NEW s \in Sensors, Unregister(s) PROVE RenderInv'
  <2>1. /\ \A r \in Sensors : removal'[r] = "present" => removal[r] = "present"
        /\ UNCHANGED <<snapshot, passesToSkip, renderer, gpuVars, readback>>
    BY <1>t, <1>21 DEF Unregister, TypeOK, snapshotVars, readbackVars
  <2> QED
    BY <2>1 DEF RenderInv, Waits, Rendering, gpuVars
<1>22. ASSUME NEW s \in Sensors, StopSnapshotEncoder(s) PROVE RenderInv'
  <2>1. /\ \A r \in Sensors : removal'[r] = "present" => removal[r] = "present"
        /\ UNCHANGED <<snapshot, passesToSkip, renderer, gpuVars, readback>>
    BY <1>t, <1>22 DEF StopSnapshotEncoder, TypeOK, snapshotVars, readbackVars
  <2> QED
    BY <2>1 DEF RenderInv, Waits, Rendering, gpuVars
<1>23. ASSUME NEW s \in Sensors, ReleaseRemoved(s) PROVE RenderInv'
  <2>1. /\ \A r \in Sensors : removal'[r] = "present" => removal[r] = "present"
        /\ UNCHANGED <<snapshot, passesToSkip, renderer, gpuVars, readback>>
    BY <1>t, <1>23 DEF ReleaseRemoved, TypeOK, snapshotVars, readbackVars
  <2> QED
    BY <2>1 DEF RenderInv, Waits, Rendering, gpuVars
<1>24. CASE UNCHANGED vars
  BY <1>t, <1>24 DEF RenderInv, Waits, Rendering, vars, snapshotVars, gpuVars,
     readbackVars
<1> QED
  BY <1>1, <1>2, <1>3, <1>4, <1>5, <1>6, <1>7, <1>8, <1>9, <1>10, <1>11, <1>12,
     <1>13, <1>14, <1>15, <1>16, <1>17, <1>18, <1>19, <1>20, <1>21, <1>22, <1>23,
     <1>24
     DEF Next, AdmitKeyframe, Renderer, Worker, Removal

\* An answer is written once, from the snapshot or as a refusal.
LEMMA AnswerStep == Inv /\ [Next]_vars => AnswerIsFresh'
<1> SUFFICES ASSUME Inv, [Next]_vars PROVE AnswerIsFresh'
  OBVIOUS
<1>t. TypeOK
  BY DEF Inv
<1> USE DEF Inv
<1>1. ASSUME NEW s \in Sensors, NEW k \in BOOLEAN, AdmitCapture(s, k)
     PROVE  AnswerIsFresh'
  BY <1>1 DEF AnswerIsFresh, AdmitCapture
<1>2. CASE AdmitPending
  BY <1>2 DEF AnswerIsFresh, AdmitPending
<1>3. CASE AdmitForce
  BY <1>3 DEF AnswerIsFresh, AdmitForce
<1>4. ASSUME NEW s \in Sensors, CaptureDeadline(s) PROVE AnswerIsFresh'
  BY <1>4 DEF AnswerIsFresh, CaptureDeadline
<1>5. ASSUME NEW s \in Sensors, FlushCapture(s) PROVE AnswerIsFresh'
  <2> DEFINE new == [gen |-> snapshotGeneration[s],
                     ok |-> /\ snapshot[s].completed /\ ~snapshot[s].failed
                            /\ ~KeyframeMissing(s),
                     picture |-> snapshot[s].picture]
  <2>1. answer' = [answer EXCEPT ![s] = new] /\ captureReply[s]
    BY <1>5 DEF FlushCapture
  <2>2. new.ok => /\ new.picture # None /\ new.picture.gen = new.gen
                  /\ new.picture.fresh
    BY <2>1 DEF SnapshotInv, SlotInv
  <2> HIDE DEF new
  <2> QED
    BY <1>t, <2>1, <2>2 DEF AnswerIsFresh, TypeOK
<1>6. ASSUME NEW s \in Sensors, PostRender(s) PROVE AnswerIsFresh'
  BY <1>6 DEF AnswerIsFresh, PostRender
<1>7. ASSUME NEW s \in Sensors, Render(s) PROVE AnswerIsFresh'
  BY <1>7 DEF AnswerIsFresh, Render
<1>8. CASE BeginCapture
  BY <1>8 DEF AnswerIsFresh, BeginCapture, RenderLeaves
<1>9. CASE IssueReadback
  BY <1>9 DEF AnswerIsFresh, IssueReadback, RenderLeaves
<1>10. CASE ReadSynchronously
  BY <1>10 DEF AnswerIsFresh, ReadSynchronously, RenderLeaves
<1>11. CASE CaptureFails
  BY <1>11 DEF AnswerIsFresh, CaptureFails, RenderLeaves
<1>12. CASE PollWaits
  BY <1>12 DEF AnswerIsFresh, PollWaits, RenderLeaves
<1>13. CASE PollSucceeds
  BY <1>13 DEF AnswerIsFresh, PollSucceeds, RenderLeaves
<1>14. CASE PollFails
  BY <1>14 DEF AnswerIsFresh, PollFails, RenderLeaves
<1>15. CASE ExchangeForce
  BY <1>15 DEF AnswerIsFresh, ExchangeForce
<1>16. CASE EncodeFrame
  BY <1>16 DEF AnswerIsFresh, EncodeFrame
<1>17. CASE EncodeFails
  BY <1>17 DEF AnswerIsFresh, EncodeFails
<1>18. ASSUME NEW s \in Sensors, WorkerTake(s) PROVE AnswerIsFresh'
  BY <1>18 DEF AnswerIsFresh, WorkerTake
<1>19. ASSUME NEW s \in Sensors, WorkerDeliver(s) PROVE AnswerIsFresh'
  BY <1>19 DEF AnswerIsFresh, WorkerDeliver
<1>20. ASSUME NEW s \in Sensors, StreamChanges(s) PROVE AnswerIsFresh'
  BY <1>20 DEF AnswerIsFresh, StreamChanges
<1>21. ASSUME NEW s \in Sensors, Unregister(s) PROVE AnswerIsFresh'
  <2> DEFINE new == [gen |-> snapshotGeneration[s], ok |-> FALSE, picture |-> None]
  <2>1. answer' = IF captureReply[s] THEN [answer EXCEPT ![s] = new] ELSE answer
    BY <1>21 DEF Unregister
  <2>2. ~new.ok
    OBVIOUS
  <2> HIDE DEF new
  <2> QED
    BY <1>t, <2>1, <2>2 DEF AnswerIsFresh, TypeOK
<1>22. ASSUME NEW s \in Sensors, StopSnapshotEncoder(s) PROVE AnswerIsFresh'
  BY <1>22 DEF AnswerIsFresh, StopSnapshotEncoder
<1>23. ASSUME NEW s \in Sensors, ReleaseRemoved(s) PROVE AnswerIsFresh'
  BY <1>23 DEF AnswerIsFresh, ReleaseRemoved
<1>24. CASE UNCHANGED vars
  BY <1>24 DEF AnswerIsFresh, vars
<1> QED
  BY <1>1, <1>2, <1>3, <1>4, <1>5, <1>6, <1>7, <1>8, <1>9, <1>10, <1>11, <1>12,
     <1>13, <1>14, <1>15, <1>16, <1>17, <1>18, <1>19, <1>20, <1>21, <1>22, <1>23,
     <1>24
     DEF Next, AdmitKeyframe, Renderer, Worker, Removal

(***************************************************************************)
(* The theorems.                                                           *)
(***************************************************************************)
LEMMA InitInv == Init => Inv
<1> SUFFICES ASSUME Init PROVE Inv
  OBVIOUS
<1>1. TypeOK
  BY InitTyped
<1>2. \A s \in Sensors :
        /\ ~snapshot[s].wanted /\ snapshot[s].gen = 0 /\ ~snapshot[s].completed
        /\ ~captureReply[s] /\ ~captureSlotHeld[s] /\ readback[s] = None
        /\ encodeJob[s] = None /\ workerHand[s] = None /\ answer[s] = None
  BY DEF Init, Each, NoSnapshot
<1>3. ~captureReserved /\ renderer = NoRender /\ renderer.at = None
      /\ renderer.stage = "idle" /\ None \notin Sensors
  BY NoneIsNoValue DEF Init, NoRender
<1>4. SnapshotInv /\ SlotInv /\ WorkInv /\ RenderInv /\ AnswerIsFresh
  BY <1>2, <1>3
     DEF SnapshotInv, SlotInv, WorkInv, RenderInv, AnswerIsFresh, Rendering,
     Waits
<1> QED
  BY <1>1, <1>4 DEF Inv

\* Whatever is captured, times out, fails or is removed, the invariant holds.
THEOREM InvariantHolds == Spec => []Inv
<1>1. Inv /\ [Next]_vars => Inv'
  BY TypedStep, SnapshotStep, SlotStep, WorkStep, RenderStep, AnswerStep DEF Inv
<1> QED
  BY <1>1, InitInv, PTL DEF Spec

\* Every variable of the captures holds what the code can store in it.
THEOREM TypeCorrect == Spec => []TypeOK
<1>1. Inv => TypeOK
  BY DEF Inv
<1> QED
  BY <1>1, InvariantHolds, PTL

\* GPU readbacks and JPEG work exist only for the sensor that holds the host's
\* one slot, and one sensor holds it at a time (capture_reserved_,
\* captureSlotHeld_), although a capture may time out or its sensor be removed
\* in between; and a reservation always has a sensor that will give it back.
THEOREM OneCaptureAtATime == Spec => []WorkOwnsTheSlot
<1>1. Inv => WorkOwnsTheSlot
  BY DEF Inv, SlotInv, WorkInv, Holds, WorkOwnsTheSlot, HasWork
<1> QED
  BY <1>1, InvariantHolds, PTL

\* A capture that succeeds is answered with the picture of a render that began
\* after it was admitted: snapshotRenderPassesToSkip_ and the invalidation of
\* the fresh render keep the pass under way and the replay of a dormant sensor
\* out, and the ids keep late work of an earlier capture out.
THEOREM AnswersAreFresh == Spec => []AnswerIsFresh
<1>1. Inv => AnswerIsFresh
  BY DEF Inv
<1> QED
  BY <1>1, InvariantHolds, PTL

-----------------------------------------------------------------------------
(***************************************************************************)
(* The contract.  StopSnapshotEncoder dropped the queued picture and no    *)
(* render of a removed sensor queues another, so a joined worker leaves    *)
(* nothing behind.                                                         *)
(***************************************************************************)
StoppedInv ==
  \A s \in Sensors : removal[s] \in {"joining", "removed"} => encodeJob[s] = None

LEMMA StoppedStep == Inv /\ StoppedInv /\ [Next]_vars => StoppedInv'
<1> SUFFICES ASSUME Inv, StoppedInv, [Next]_vars PROVE StoppedInv'
  OBVIOUS
<1>t. TypeOK
  BY DEF Inv
<1>1. ASSUME UNCHANGED <<encodeJob, removal>> PROVE StoppedInv'
  BY <1>1 DEF StoppedInv
<1>2. ASSUME ReadSynchronously \/ PollSucceeds PROVE StoppedInv'
  <2>1. renderer.at \in Sensors /\ removal[renderer.at] = "present"
    BY <1>2 DEF Inv, RenderInv, SlotInv, Rendering, ReadSynchronously, PollSucceeds
  <2>2. /\ UNCHANGED removal
        /\ \A r \in Sensors \ {renderer.at} : encodeJob'[r] = encodeJob[r]
    BY <1>t, <1>2
       DEF ReadSynchronously, PollSucceeds, Queue, RenderLeaves, TypeOK
  <2> QED
    BY <2>1, <2>2 DEF StoppedInv
<1>3. ASSUME NEW s \in Sensors, WorkerTake(s) PROVE StoppedInv'
  BY <1>t, <1>3 DEF StoppedInv, WorkerTake, TypeOK
<1>4. ASSUME NEW s \in Sensors, StopSnapshotEncoder(s) PROVE StoppedInv'
  BY <1>t, <1>4 DEF StoppedInv, StopSnapshotEncoder, TypeOK
<1>5. ASSUME NEW s \in Sensors, Unregister(s) \/ ReleaseRemoved(s)
     PROVE  StoppedInv'
  BY <1>t, <1>5 DEF StoppedInv, Unregister, ReleaseRemoved, workerVars, TypeOK
<1>6. CASE Renderer /\ ~(ReadSynchronously \/ PollSucceeds)
  <2>1. UNCHANGED <<encodeJob, removal>>
    BY <1>6
       DEF Renderer, BeginCapture, IssueReadback, CaptureFails, PollWaits,
           PollFails, ExchangeForce, EncodeFrame, EncodeFails, RenderLeaves,
           workerVars
  <2> QED
    BY <2>1, <1>1
<1>7. ASSUME NEW s \in Sensors,
             \/ \E k \in BOOLEAN : AdmitCapture(s, k)
             \/ CaptureDeadline(s) \/ FlushCapture(s) \/ PostRender(s)
             \/ Render(s) \/ WorkerDeliver(s) \/ StreamChanges(s)
     PROVE  StoppedInv'
  <2>1. UNCHANGED <<encodeJob, removal>>
    BY <1>7
       DEF AdmitCapture, CaptureDeadline, FlushCapture, PostRender, Render,
           WorkerDeliver, StreamChanges, workerVars
  <2> QED
    BY <2>1, <1>1
<1>8. CASE AdmitKeyframe \/ UNCHANGED vars
  <2>1. UNCHANGED <<encodeJob, removal>>
    BY <1>8 DEF AdmitKeyframe, AdmitPending, AdmitForce, vars, workerVars
  <2> QED
    BY <2>1, <1>1
<1> QED
  BY <1>2, <1>3, <1>4, <1>5, <1>6, <1>7, <1>8 DEF Next, Worker, Removal

(* The contract's variables, as the mapping reads them off the code's.     *)
Owned == SlotOf(captureReserved, captureSlotHeld)
Waiting == {s \in Sensors : captureReply[s]}
Work == [s \in Sensors |-> WorkOf(s)]
Gone == {s \in Sensors : removal[s] # "present"}
Answers == [s \in Sensors |-> Sent(answer[s])]

\* A step that leaves the variables of these alone is none of the contract's.
Untouched == /\ Owned' = Owned /\ UNCHANGED snapshotGeneration
             /\ Waiting' = Waiting /\ Work' = Work /\ Gone' = Gone
             /\ Answers' = Answers

LEMMA Stutters == Untouched => UNCHANGED Contract!vars
  BY DEF Untouched, Contract!vars, Owned, Waiting, Work, Gone, Answers

LEMMA SameHost ==
  ASSUME UNCHANGED <<captureReserved, captureSlotHeld>> PROVE Owned' = Owned
  BY DEF Owned, SlotOf

LEMMA SameWaiting == ASSUME UNCHANGED captureReply PROVE Waiting' = Waiting
  BY DEF Waiting

LEMMA SameGone == ASSUME UNCHANGED removal PROVE Gone' = Gone
  BY DEF Gone

LEMMA SameAnswers == ASSUME UNCHANGED answer PROVE Answers' = Answers
  BY DEF Answers, Sent

LEMMA SameWork ==
  ASSUME UNCHANGED <<readback, encodeJob, workerHand>> PROVE Work' = Work
  BY DEF Work, WorkOf

\* The picture of one capture moves.
LEMMA WorkMoves ==
  ASSUME NEW s \in Sensors, NEW v, WorkOf(s)' = v,
         \A r \in Sensors \ {s} : /\ readback'[r] = readback[r]
                                  /\ encodeJob'[r] = encodeJob[r]
                                  /\ workerHand'[r] = workerHand[r]
  PROVE  Work' = [Work EXCEPT ![s] = v]
<1>1. \A r \in Sensors \ {s} : WorkOf(r)' = WorkOf(r)
  BY DEF WorkOf
<1> QED
  BY <1>1 DEF Work

\* The host's slot is free when it is not reserved, and owned by one sensor
\* when that holds it.
LEMMA SlotIsFree ==
  ASSUME SlotInv, ~captureReserved PROVE Owned = Contract!Free
<1>1. {s \in Sensors : captureSlotHeld[s]} = {} /\ captureReserved = FALSE
  BY DEF SlotInv
<1> QED
  BY <1>1 DEF Owned, SlotOf, Contract!Free, Contract!Slot

LEMMA SlotIsOf ==
  ASSUME NEW s \in Sensors, NEW reserved, NEW held, reserved = TRUE, held[s],
         \A r \in Sensors \ {s} : ~held[r]
  PROVE  SlotOf(reserved, held) = Contract!Slot({s})
<1>1. {r \in Sensors : held[r]} = {s}
  OBVIOUS
<1>2. {s} # {}
  OBVIOUS
<1> QED
  BY <1>1, <1>2 DEF SlotOf, Contract!Slot

LEMMA SlotFreed ==
  ASSUME NEW reserved, NEW held, reserved = FALSE, \A r \in Sensors : ~held[r]
  PROVE  SlotOf(reserved, held) = Contract!Free
<1>1. {r \in Sensors : held[r]} = {}
  OBVIOUS
<1> QED
  BY <1>1 DEF SlotOf, Contract!Free, Contract!Slot

LEMMA ContractInit == Init => Contract!Init
<1> SUFFICES ASSUME Init PROVE Contract!Init
  OBVIOUS
<1>1. SlotOf(captureReserved, captureSlotHeld) = Contract!Free
  BY SlotFreed DEF Init, Each
<1>2. /\ snapshotGeneration = [s \in Sensors |-> 0]
      /\ [s \in Sensors |-> Sent(answer[s])] = [s \in Sensors |-> None]
      /\ [s \in Sensors |-> WorkOf(s)] = [s \in Sensors |-> "none"]
      /\ {s \in Sensors : captureReply[s]} = {}
      /\ {s \in Sensors : removal[s] # "present"} = {}
  BY DEF Init, Each, Sent, WorkOf
<1> QED
  BY <1>1, <1>2 DEF Contract!Init

\* POST capture takes the free slot.
LEMMA AdmitKeeps ==
  ASSUME Inv, NEW s \in Sensors, NEW k \in BOOLEAN, AdmitCapture(s, k)
  PROVE  Contract!Admit(s)
<1>t. TypeOK /\ SlotInv
  BY DEF Inv
<1>1. /\ captureSlotHeld' = [captureSlotHeld EXCEPT ![s] = TRUE]
      /\ captureReply' = [captureReply EXCEPT ![s] = TRUE]
      /\ captureReserved' = TRUE /\ ~captureReserved /\ removal[s] = "present"
      /\ snapshotGeneration' =
           [snapshotGeneration EXCEPT ![s] = snapshotGeneration[s] + 1]
      /\ UNCHANGED <<readback, encodeJob, workerHand, removal, answer>>
  BY <1>t DEF AdmitCapture, readbackVars, workerVars, TypeOK
<1>2. Owned = Contract!Free
  BY <1>t, <1>1, SlotIsFree
<1>3. Owned' = Contract!Slot({s})
  <2>1. captureSlotHeld'[s] /\ \A r \in Sensors \ {s} : ~captureSlotHeld'[r]
    BY <1>t, <1>1 DEF SlotInv, TypeOK
  <2> QED
    BY <1>1, <2>1, SlotIsOf DEF Owned
<1>4. Waiting' = Waiting \cup {s}
  BY <1>t, <1>1 DEF Waiting, TypeOK
<1>5. Work' = Work /\ Gone' = Gone /\ Answers' = Answers /\ s \notin Gone
  BY <1>1, SameWork, SameGone, SameAnswers DEF Gone
<1> QED
  BY <1>1, <1>2, <1>3, <1>4, <1>5
     DEF Contract!Admit, Owned, Waiting, Work, Gone, Answers

\* FlushCapture answers when no work is left, and gives the slot back.
LEMMA FlushKeeps ==
  ASSUME Inv, NEW s \in Sensors, FlushCapture(s) PROVE Contract!Answer(s)
<1>t. TypeOK /\ SlotInv /\ WorkInv /\ SnapshotInv
  BY DEF Inv
<1> DEFINE ok == /\ snapshot[s].completed /\ ~snapshot[s].failed
                 /\ ~KeyframeMissing(s)
           result == [gen |-> snapshotGeneration[s], ok |-> ok,
                      picture |-> snapshot[s].picture]
<1>1. /\ captureSlotHeld' = [captureSlotHeld EXCEPT ![s] = FALSE]
      /\ captureReply' = [captureReply EXCEPT ![s] = FALSE]
      /\ captureReserved' = FALSE /\ captureReply[s]
      /\ Answerable(s) \/ Overdue(s)
      /\ answer' = [answer EXCEPT ![s] = result]
      /\ UNCHANGED <<readback, encodeJob, workerHand, removal,
                     snapshotGeneration>>
  BY DEF FlushCapture, readbackVars, workerVars
<1>2. snapshot[s].wanted /\ removal[s] = "present" /\ captureSlotHeld[s]
  BY <1>t, <1>1 DEF SlotInv
<1>3. Owned' = Contract!Free
  <2>1. \A r \in Sensors : ~captureSlotHeld'[r]
    BY <1>t, <1>1, <1>2 DEF SlotInv, TypeOK
  <2> QED
    BY <1>1, <2>1, SlotFreed DEF Owned
<1>4. Waiting' = Waiting \ {s} /\ s \in Waiting
  BY <1>t, <1>1 DEF Waiting, TypeOK
<1>5. Work[s] = "none"
  <2>1. ~(snapshot[s].submitted /\ ~snapshot[s].completed)
    BY <1>1 DEF Answerable, Overdue
  <2>2. readback[s] = None /\ encodeJob[s] = None /\ workerHand[s] = None
    BY <1>t, <2>1, NoWork
  <2> QED
    BY <2>2 DEF Work, WorkOf
<1>6. Work' = Work /\ Gone' = Gone
  BY <1>1, SameWork, SameGone
<1>7. result \in [gen : Nat, ok : BOOLEAN, picture : PictureOrNone]
  <2>1. snapshot[s].picture \in PictureOrNone /\ snapshotGeneration[s] \in Nat
    BY <1>t DEF TypeOK, Snapshot, PictureOrNone
  <2>2. ok \in BOOLEAN
    BY <1>t DEF TypeOK, Snapshot
  <2> QED
    BY ONLY <2>1, <2>2
<1>8. result # None
  BY ONLY <1>7, AnswerAssumption DEF PictureOrNone
<1>9. Sent(result) \in {Contract!Failed(snapshotGeneration[s]),
                        Contract!Taken(snapshotGeneration[s])}
  <2>1. CASE ok
    <3>1. /\ snapshot[s].picture # None
          /\ snapshot[s].picture.gen = snapshotGeneration[s]
          /\ snapshot[s].picture.fresh
      BY <1>t, <1>2, <2>1 DEF SnapshotInv
    <3>2. snapshot[s].picture \in Picture
      BY <1>t, <3>1 DEF TypeOK, Snapshot
    <3>3. snapshot[s].picture = [gen |-> snapshotGeneration[s], fresh |-> TRUE]
      BY <3>1, <3>2 DEF Picture
    <3>4. Sent(result) = result /\ ok = TRUE
      BY <2>1, <1>7 DEF Sent
    <3> QED
      BY <3>3, <3>4 DEF Contract!Taken
  <2>2. CASE ~ok
    <3>1. Sent(result) = [result EXCEPT !.picture = None] /\ ok = FALSE
      BY <2>2, <1>7, <1>8 DEF Sent
    <3> QED
      BY <3>1 DEF Contract!Failed
  <2> QED
    BY <2>1, <2>2
<1> HIDE DEF result
<1>10. Answers' = [Answers EXCEPT ![s] = Sent(result)]
  BY <1>t, <1>1 DEF Answers, TypeOK, Sent
<1> DEFINE sent == Sent(result)
<1>11. sent \in {Contract!Failed(snapshotGeneration[s]),
                 Contract!Taken(snapshotGeneration[s])}
       /\ Answers' = [Answers EXCEPT ![s] = sent]
  BY <1>9, <1>10
<1> HIDE DEF sent
<1> QED
  BY <1>1, <1>3, <1>4, <1>5, <1>6, <1>11
     DEF Contract!Answer, Owned, Waiting, Work, Gone, Answers

\* What the contract says of the render thread and the worker: they only move
\* pictures.
WorkStepOf(s) == Contract!BeginWork(s) \/ Contract!ReadBack(s) \/ Contract!EndWork(s)
OnlyWork == /\ Owned' = Owned /\ UNCHANGED snapshotGeneration
            /\ Waiting' = Waiting /\ Gone' = Gone /\ Answers' = Answers

LEMMA RendererIsOnlyWork == ASSUME Renderer PROVE OnlyWork
<1>1. UNCHANGED <<captureReserved, captureSlotHeld, captureReply,
                  snapshotGeneration, removal, answer>>
  BY DEF Renderer, BeginCapture, IssueReadback, ReadSynchronously, CaptureFails,
         PollWaits, PollSucceeds, PollFails, ExchangeForce, EncodeFrame,
         EncodeFails, RenderLeaves, executorVars, snapshotVars
<1> QED
  BY <1>1, SameHost, SameWaiting, SameGone, SameAnswers DEF OnlyWork

LEMMA Begins ==
  ASSUME NEW s \in Sensors, NEW v \in {"readback", "picture"}, OnlyWork,
         s \in Waiting, Work[s] = "none", Work' = [Work EXCEPT ![s] = v]
  PROVE  WorkStepOf(s)
<1>1. Contract!BeginWork(s)
  BY DEF Contract!BeginWork, OnlyWork, Owned, Waiting, Work, Gone, Answers
<1> QED
  BY <1>1 DEF WorkStepOf

LEMMA Ends ==
  ASSUME NEW s \in Sensors, OnlyWork, Work[s] # "none",
         Work' = [Work EXCEPT ![s] = "none"]
  PROVE  WorkStepOf(s)
<1>1. Contract!EndWork(s)
  BY DEF Contract!EndWork, OnlyWork, Owned, Waiting, Work, Gone, Answers
<1> QED
  BY <1>1 DEF WorkStepOf

LEMMA IsRead ==
  ASSUME NEW s \in Sensors, OnlyWork, Work[s] = "readback",
         Work' = [Work EXCEPT ![s] = "picture"]
  PROVE  WorkStepOf(s)
<1>1. Contract!ReadBack(s)
  BY DEF Contract!ReadBack, OnlyWork, Owned, Waiting, Work, Gone, Answers
<1> QED
  BY <1>1 DEF WorkStepOf

\* Who takes a picture that is still wanted has a caller that waits for it.
LEMMA WantedIsAwaited ==
  ASSUME Inv, NEW s \in Sensors, renderer.at = s, renderer.stage = "issue",
         IsFor(s, renderer.hand)
  PROVE  /\ s \in Waiting /\ Work[s] = "none"
         /\ readback[s] = None /\ encodeJob[s] = None /\ workerHand[s] = None
         /\ renderer.hand # None
<1>1. /\ renderer.hand # None /\ renderer.hand.gen # 0 /\ ~snapshot[s].submitted
  BY DEF Inv, RenderInv
<1>2. snapshot[s].wanted
  BY <1>1 DEF Inv, SnapshotInv, IsFor
<1>3. removal[s] = "present"
  BY DEF Inv, SlotInv, Rendering
<1>4. s \in Waiting
  BY <1>2, <1>3 DEF Inv, SlotInv, Waiting
<1>5. readback[s] = None /\ encodeJob[s] = None /\ workerHand[s] = None
  BY <1>1, NoWork DEF Inv
<1> QED
  BY <1>1, <1>4, <1>5 DEF Work, WorkOf

\* A render submits a readback, polls it or leaves the work alone.
LEMMA RendererKeepsContract ==
  ASSUME Inv, Renderer
  PROVE  Untouched \/ \E s \in Sensors : WorkStepOf(s)
<1>t. TypeOK /\ WorkInv
  BY DEF Inv
<1>w. OnlyWork
  BY RendererIsOnlyWork
<1>u. ASSUME UNCHANGED <<readback, encodeJob, workerHand>> PROVE Untouched
  BY <1>u, <1>w, SameWork DEF OnlyWork, Untouched
<1>1. CASE IssueReadback
  <2>1. PICK s \in Sensors : s = renderer.at
    BY <1>1 DEF Inv, RenderInv, IssueReadback
  <2>2. CASE IsFor(s, renderer.hand)
    <3>1. /\ s \in Waiting /\ Work[s] = "none" /\ renderer.hand # None
          /\ encodeJob[s] = None /\ workerHand[s] = None
      BY <1>1, <2>1, <2>2, WantedIsAwaited DEF IssueReadback
    <3>2. /\ readback' = [readback EXCEPT ![s] = renderer.hand]
          /\ UNCHANGED <<encodeJob, workerHand>>
      BY <1>1, <2>1, <2>2 DEF IssueReadback, workerVars
    <3>3. WorkOf(s)' = "readback"
      BY <1>t, <3>1, <3>2 DEF WorkOf, TypeOK
    <3>4. Work' = [Work EXCEPT ![s] = "readback"]
      BY <1>t, <3>2, <3>3, WorkMoves DEF TypeOK
    <3> QED
      BY <1>w, <3>1, <3>4, Begins
  <2>3. CASE ~IsFor(s, renderer.hand)
    BY <1>1, <1>u, <2>1, <2>3 DEF IssueReadback, workerVars
  <2> QED
    BY <2>2, <2>3
<1>2. CASE ReadSynchronously
  <2>1. PICK s \in Sensors : s = renderer.at
    BY <1>2 DEF Inv, RenderInv, ReadSynchronously
  <2>2. CASE IsFor(s, renderer.hand) /\ CanQueue(s)
    <3>1. /\ s \in Waiting /\ Work[s] = "none" /\ renderer.hand # None
          /\ readback[s] = None /\ workerHand[s] = None
      BY <1>2, <2>1, <2>2, WantedIsAwaited DEF ReadSynchronously
    <3>2. /\ encodeJob' = [encodeJob EXCEPT ![s] = renderer.hand]
          /\ UNCHANGED <<readback, workerHand>>
      BY <1>2, <2>1, <2>2 DEF ReadSynchronously, Queue
    <3>3. WorkOf(s)' = "picture"
      BY <1>t, <3>1, <3>2 DEF WorkOf, TypeOK
    <3>4. Work' = [Work EXCEPT ![s] = "picture"]
      BY <1>t, <3>2, <3>3, WorkMoves DEF TypeOK
    <3> QED
      BY <1>w, <3>1, <3>4, Begins
  <2>3. CASE ~(IsFor(s, renderer.hand) /\ CanQueue(s))
    BY <1>2, <1>u, <2>1, <2>3 DEF ReadSynchronously
  <2> QED
    BY <2>2, <2>3
<1>3. CASE PollSucceeds
  <2>1. PICK s \in Sensors : s = renderer.at
    BY <1>3 DEF Inv, RenderInv, PollSucceeds
  <2>2. readback[s] # None /\ encodeJob[s] = None /\ workerHand[s] = None
    BY <1>t, <1>3, <2>1 DEF WorkInv, PollSucceeds
  <2>3. /\ readback' = [readback EXCEPT ![s] = None]
        /\ encodeJob' = [encodeJob EXCEPT ![s] = readback[s]]
        /\ UNCHANGED workerHand
    BY <1>3, <2>1, <2>2 DEF PollSucceeds, CanQueue, Queue
  <2>4. Work[s] = "readback"
    BY <2>2 DEF Work, WorkOf
  <2>5. WorkOf(s)' = "picture"
    BY <1>t, <2>2, <2>3 DEF WorkOf, TypeOK
  <2>6. Work' = [Work EXCEPT ![s] = "picture"]
    BY <1>t, <2>3, <2>5, WorkMoves DEF TypeOK
  <2> QED
    BY <1>w, <2>4, <2>6, IsRead
<1>4. CASE PollFails
  <2>1. PICK s \in Sensors : s = renderer.at
    BY <1>4 DEF Inv, RenderInv, PollFails
  <2>2. readback[s] # None /\ encodeJob[s] = None /\ workerHand[s] = None
    BY <1>t, <1>4, <2>1 DEF WorkInv, PollFails
  <2>3. /\ readback' = [readback EXCEPT ![s] = None]
        /\ UNCHANGED <<encodeJob, workerHand>>
    BY <1>4, <2>1 DEF PollFails, workerVars
  <2>4. Work[s] # "none"
    BY <2>2 DEF Work, WorkOf
  <2>5. WorkOf(s)' = "none"
    BY <1>t, <2>2, <2>3 DEF WorkOf, TypeOK
  <2>6. Work' = [Work EXCEPT ![s] = "none"]
    BY <1>t, <2>3, <2>5, WorkMoves DEF TypeOK
  <2> QED
    BY <1>w, <2>4, <2>6, Ends
<1>5. CASE \/ BeginCapture \/ CaptureFails \/ PollWaits
           \/ ExchangeForce \/ EncodeFrame \/ EncodeFails
  <2>1. UNCHANGED <<readback, encodeJob, workerHand>>
    BY <1>5
       DEF BeginCapture, CaptureFails, PollWaits, ExchangeForce, EncodeFrame,
           EncodeFails, readbackVars, workerVars
  <2> QED
    BY <2>1, <1>u
<1> QED
  BY <1>1, <1>2, <1>3, <1>4, <1>5 DEF Renderer

\* The worker takes the picture it is to encode, and ends the work.
LEMMA WorkerKeepsContract ==
  ASSUME Inv, NEW s \in Sensors, Worker(s) PROVE Untouched \/ WorkStepOf(s)
<1>t. TypeOK /\ WorkInv
  BY DEF Inv
<1>w. OnlyWork
  <2>1. UNCHANGED <<captureReserved, captureSlotHeld, captureReply,
                    snapshotGeneration, removal, answer>>
    BY DEF Worker, WorkerTake, WorkerDeliver, executorVars, snapshotVars
  <2> QED
    BY <2>1, SameHost, SameWaiting, SameGone, SameAnswers DEF OnlyWork
<1>1. CASE WorkerTake(s)
  <2>1. encodeJob[s] # None /\ readback[s] = None
    BY <1>t, <1>1 DEF WorkInv, WorkerTake
  <2>2. /\ workerHand' = [workerHand EXCEPT ![s] = encodeJob[s]]
        /\ encodeJob' = [encodeJob EXCEPT ![s] = None]
        /\ UNCHANGED readback
    BY <1>1 DEF WorkerTake, readbackVars
  <2>3. Work[s] = "picture"
    BY <2>1 DEF Work, WorkOf
  <2>4. WorkOf(s)' = "picture"
    BY <1>t, <2>1, <2>2 DEF WorkOf, TypeOK
  <2>5. Work' = [Work EXCEPT ![s] = "picture"]
    BY <1>t, <2>2, <2>4, WorkMoves DEF TypeOK
  <2>6. Work' = Work
    BY <2>3, <2>5 DEF Work
  <2> QED
    BY <1>w, <2>6 DEF OnlyWork, Untouched
<1>2. CASE WorkerDeliver(s)
  <2>1. workerHand[s] # None /\ encodeJob[s] = None /\ readback[s] = None
    BY <1>t, <1>2 DEF WorkInv, WorkerDeliver
  <2>2. /\ workerHand' = [workerHand EXCEPT ![s] = None]
        /\ UNCHANGED <<readback, encodeJob>>
    BY <1>2 DEF WorkerDeliver, readbackVars
  <2>3. Work[s] # "none"
    BY <2>1 DEF Work, WorkOf
  <2>4. WorkOf(s)' = "none"
    BY <1>t, <2>1, <2>2 DEF WorkOf, TypeOK
  <2>5. Work' = [Work EXCEPT ![s] = "none"]
    BY <1>t, <2>2, <2>4, WorkMoves DEF TypeOK
  <2> QED
    BY <1>w, <2>3, <2>5, Ends
<1> QED
  BY <1>1, <1>2 DEF Worker

\* A removal answers first ...
LEMMA UnregisterKeeps ==
  ASSUME Inv, NEW s \in Sensors, Unregister(s) PROVE Contract!Leave(s)
<1>t. TypeOK
  BY DEF Inv
<1> DEFINE result == [gen |-> snapshotGeneration[s], ok |-> FALSE,
                      picture |-> None]
<1>1. /\ removal' = [removal EXCEPT ![s] = "unregistered"]
      /\ captureReply' = [captureReply EXCEPT ![s] = FALSE]
      /\ answer' = IF captureReply[s] THEN [answer EXCEPT ![s] = result]
                   ELSE answer
      /\ removal[s] = "present"
      /\ UNCHANGED <<captureReserved, captureSlotHeld, snapshotGeneration,
                     readback, encodeJob, workerHand>>
  BY DEF Unregister, snapshotVars, readbackVars, workerVars
<1>2. Owned' = Owned /\ Work' = Work
  BY <1>1, SameHost, SameWork
<1>3. Gone' = Gone \cup {s} /\ s \notin Gone
  BY <1>t, <1>1 DEF Gone, TypeOK
<1>4. Waiting' = Waiting \ {s} /\ (s \in Waiting <=> captureReply[s])
  BY <1>t, <1>1 DEF Waiting, TypeOK
<1>5. Sent(result) = Contract!Failed(snapshotGeneration[s])
  BY DEF Sent, Contract!Failed
<1> HIDE DEF result
<1>6. Answers' = IF s \in Waiting
                   THEN [Answers EXCEPT
                           ![s] = Contract!Failed(snapshotGeneration[s])]
                   ELSE Answers
  <2>1. CASE captureReply[s]
    <3>1. answer' = [answer EXCEPT ![s] = result]
      BY <1>1, <2>1
    <3>2. Answers' = [Answers EXCEPT ![s] = Sent(result)]
      BY <1>t, <3>1 DEF Answers, TypeOK, Sent
    <3> QED
      BY <1>4, <1>5, <2>1, <3>2
  <2>2. CASE ~captureReply[s]
    BY <1>1, <1>4, <2>2, SameAnswers
  <2> QED
    BY <2>1, <2>2
<1> QED
  BY <1>1, <1>2, <1>3, <1>4, <1>6
     DEF Contract!Leave, Owned, Waiting, Work, Gone, Answers

\* ... drops the queued picture ...
LEMMA StopKeeps ==
  ASSUME Inv, NEW s \in Sensors, StopSnapshotEncoder(s)
  PROVE  Untouched \/ WorkStepOf(s)
<1>t. TypeOK /\ WorkInv
  BY DEF Inv
<1>1. /\ removal[s] = "unregistered"
      /\ removal' = [removal EXCEPT ![s] = "joining"]
      /\ encodeJob' = [encodeJob EXCEPT ![s] = None]
      /\ UNCHANGED <<captureReserved, captureSlotHeld, captureReply,
                     snapshotGeneration, answer, readback, workerHand>>
  BY DEF StopSnapshotEncoder, executorVars, snapshotVars, readbackVars
<1>2. Gone' = Gone
  BY <1>t, <1>1 DEF Gone, TypeOK
<1>w. OnlyWork
  BY <1>1, <1>2, SameHost, SameWaiting, SameAnswers DEF OnlyWork
<1>3. CASE encodeJob[s] = None
  <2>1. UNCHANGED <<readback, encodeJob, workerHand>>
    BY <1>t, <1>1, <1>3 DEF TypeOK
  <2> QED
    BY <1>w, <2>1, SameWork DEF OnlyWork, Untouched
<1>4. CASE encodeJob[s] # None
  <2>1. readback[s] = None /\ workerHand[s] = None
    BY <1>t, <1>4 DEF WorkInv
  <2>2. Work[s] # "none"
    BY <1>4 DEF Work, WorkOf
  <2>3. WorkOf(s)' = "none"
    BY <1>t, <1>1, <2>1 DEF WorkOf, TypeOK
  <2>4. Work' = [Work EXCEPT ![s] = "none"]
    BY <1>t, <1>1, <2>3, WorkMoves DEF TypeOK
  <2> QED
    BY <1>w, <2>2, <2>4, Ends
<1> QED
  BY <1>3, <1>4

\* ... and gives the slot back when the worker has stopped, if it owns it.
LEMMA ReleaseKeeps ==
  ASSUME Inv, StoppedInv, NEW s \in Sensors, ReleaseRemoved(s)
  PROVE  Untouched \/ Contract!GiveBack(s)
<1>t. TypeOK /\ SlotInv
  BY DEF Inv
<1>1. /\ removal[s] = "joining" /\ workerHand[s] = None
      /\ removal' = [removal EXCEPT ![s] = "removed"]
      /\ captureReserved' = (captureReserved /\ ~captureSlotHeld[s])
      /\ captureSlotHeld' = [captureSlotHeld EXCEPT ![s] = FALSE]
      /\ UNCHANGED <<captureReply, snapshotGeneration, readback, encodeJob,
                     workerHand, answer>>
  BY DEF ReleaseRemoved, snapshotVars, readbackVars, workerVars
<1>2. Gone' = Gone /\ s \in Gone
  BY <1>t, <1>1 DEF Gone, TypeOK
<1>3. Waiting' = Waiting /\ Work' = Work /\ Answers' = Answers
  BY <1>1, SameWaiting, SameWork, SameAnswers
<1>4. CASE captureSlotHeld[s]
  <2>1. captureReserved' = FALSE
    BY <1>1, <1>4
  <2>2. \A r \in Sensors : ~captureSlotHeld'[r]
    BY <1>t, <1>1, <1>4 DEF SlotInv, TypeOK
  <2>3. Owned' = Contract!Free
    BY <2>1, <2>2, SlotFreed DEF Owned
  <2>4. s \in Owned.owners
    BY <1>4 DEF Owned, SlotOf
  <2>5. Work[s] # "picture"
    BY <1>1 DEF StoppedInv, Work, WorkOf
  <2>6. Contract!GiveBack(s)
    BY <1>1, <1>2, <1>3, <2>3, <2>4, <2>5
       DEF Contract!GiveBack, Owned, Waiting, Work, Gone, Answers
  <2> QED
    BY <2>6
<1>5. CASE ~captureSlotHeld[s]
  <2>1. captureReserved' = captureReserved /\ captureSlotHeld' = captureSlotHeld
    BY <1>t, <1>1, <1>5 DEF TypeOK
  <2>2. Owned' = Owned
    BY <2>1, SameHost
  <2> QED
    BY <1>1, <1>2, <1>3, <2>2 DEF Untouched
<1> QED
  BY <1>4, <1>5

\* A step of the code is a step of the contract or none.
LEMMA ContractStep ==
  ASSUME Inv, StoppedInv, [Next]_vars PROVE [Contract!Next]_(Contract!vars)
<1>u. ASSUME UNCHANGED <<captureReserved, captureSlotHeld, captureReply,
                         snapshotGeneration, removal, answer, readback,
                         encodeJob, workerHand>>
      PROVE  Untouched
  BY <1>u, SameHost, SameWaiting, SameGone, SameAnswers, SameWork DEF Untouched
<1>1. ASSUME NEW s \in Sensors, NEW k \in BOOLEAN, AdmitCapture(s, k)
      PROVE  Contract!Next
  BY <1>1, AdmitKeeps DEF Contract!Next
<1>2. ASSUME NEW s \in Sensors, FlushCapture(s) PROVE Contract!Next
  BY <1>2, FlushKeeps DEF Contract!Next
<1>3. ASSUME NEW s \in Sensors, Unregister(s) PROVE Contract!Next
  BY <1>3, UnregisterKeeps DEF Contract!Next
<1>4. CASE Renderer
  BY <1>4, RendererKeepsContract, Stutters DEF WorkStepOf, Contract!Next
<1>5. ASSUME NEW s \in Sensors, Worker(s) \/ StopSnapshotEncoder(s)
      PROVE  [Contract!Next]_(Contract!vars)
  BY <1>5, WorkerKeepsContract, StopKeeps, Stutters DEF WorkStepOf, Contract!Next
<1>6. ASSUME NEW s \in Sensors, ReleaseRemoved(s)
      PROVE  [Contract!Next]_(Contract!vars)
  BY <1>6, ReleaseKeeps, Stutters DEF Contract!Next
<1>7. ASSUME NEW s \in Sensors,
             CaptureDeadline(s) \/ PostRender(s) \/ Render(s) \/ StreamChanges(s)
      PROVE  Untouched
  BY <1>7, <1>u
     DEF CaptureDeadline, PostRender, Render, StreamChanges, executorVars,
         snapshotVars, readbackVars, workerVars
<1>8. CASE AdmitKeyframe \/ UNCHANGED vars
  <2>1. Untouched
    BY <1>8, <1>u
       DEF AdmitKeyframe, AdmitPending, AdmitForce, vars, executorVars,
           snapshotVars, readbackVars, workerVars
  <2> QED
    BY <2>1, Stutters
<1> QED
  BY <1>1, <1>2, <1>3, <1>4, <1>5, <1>6, <1>7, <1>8, Stutters DEF Next, Removal

\* The executor, the render thread, the JPEG workers and the destructors keep
\* the promises of CaptureContract: one capture at a time, work only for a
\* caller that waits, one answer per capture and none while its work goes on,
\* and a slot that is given back once, after the worker has stopped.
THEOREM CaptureContractImplemented == Spec => CaptureContractIsKept
<1>1. Init => StoppedInv
  BY DEF Init, Each, StoppedInv
<1> QED
  BY <1>1, ContractInit, ContractStep, StoppedStep, InvariantHolds, PTL
     DEF Spec, CaptureContractIsKept, Contract!Spec
=============================================================================
