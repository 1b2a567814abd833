------------------------ MODULE EncoderSessionProofs ------------------------
(***************************************************************************)
(* What gets into the H264 stream, for any access units, any frames held   *)
(* back and any number of sessions, resets and consumers: no picture of    *)
(* before, each with its own metadata, on clocks that do not go back, in   *)
(* packets that carry it whole.                                            *)
(***************************************************************************)
EXTENDS EncoderSession, H264PacketsProofs

(***************************************************************************)
(* The invariant.  Types, with the record that a session is.               *)
(***************************************************************************)
Sessions ==
  [exists : BOOLEAN, held : Seq(FramesOfNVENC), pending : Seq(Metadatas),
   last : Times \cup {None}, submitted : Times, ever : BOOLEAN, epoch : Nat,
   opening : BOOLEAN, force : BOOLEAN]
Typed ==
  /\ desiredActive \in BOOLEAN /\ awaitingStart \in BOOLEAN
  /\ rosConsumersActive \in BOOLEAN /\ snapshotNeedsRender \in BOOLEAN
  /\ sensorActive \in BOOLEAN /\ replay \in BOOLEAN
  /\ cleanupEncoderRequested \in BOOLEAN /\ overlapped \in BOOLEAN
  /\ missed \in BOOLEAN
  /\ renderPhase \in {"post", "starting", "commanded", "target"}
  /\ callback \in {"idle", "epoch", "looked"}
  /\ sourceTime \in Times /\ sourceTimeFloor \in Times \cup {None}
  /\ rosFreshRenderGeneration \in Nat /\ observedGeneration \in Nat
  /\ session \in Sessions
  /\ encodedFrameIndex \in 0..MaxFrames
  /\ changes \in 0..MaxChanges

\* The gate.  While the sensor is off, or shows the picture of before, what is
\* encoded is kept waiting: for the generation to be observed, or for the time
\* of the picture to move on.
ShowsBefore == ~sensorActive \/ replay
GateHolds == IsNewGeneration \/ sourceTimeFloor = sourceTime
GateInv ==
  /\ observedGeneration <= rosFreshRenderGeneration
  /\ callback # "idle" => ~rosConsumersActive
  /\ ~overlapped =>
       /\ renderPhase # "starting" /\ ShouldEncode /\ ShowsBefore => GateHolds
       /\ rosConsumersActive /\ ShowsBefore => GateHolds
       /\ callback = "looked" /\ ~desiredActive => IsNewGeneration

\* So NVENC holds no picture of before, nor has it put one out.
DormantInv ==
  ~overlapped => /\ \A i \in 1..Len(session.held) : ~session.held[i].dormant
                 /\ output.frame # None => ~output.frame.dormant

\* The metadata are those of the frames that NVENC holds, in their order.
Paired(s) ==
  /\ Len(s.pending) = Len(s.held)
  /\ \A i \in 1..Len(s.held) : s.pending[i] = Metadata(s.held[i])
PairInv == Paired(session) /\ OutputHasItsMetadata

\* The transport clock: each frame that is held is older than the next, and
\* newer than the last one that came out.
Ticking(s, index, stamp) ==
  /\ stamp # None => stamp < index
  /\ \A i \in 1..Len(s.held) :
       /\ s.held[i].timestamp < index
       /\ stamp # None => stamp < s.held[i].timestamp
       /\ \A j \in 1..Len(s.held) :
            i < j => s.held[i].timestamp < s.held[j].timestamp
ClockInv ==
  /\ lastTimestamp # None => lastTimestamp \in Nat
  /\ Ticking(session, encodedFrameIndex, lastTimestamp)

\* The life of a session: what is not there holds nothing, and the first one
\* opens an epoch, as each does that follows in an epoch which has published.
Alive(s) ==
  /\ ~s.exists => s.held = <<>> /\ s.pending = <<>> /\ s.submitted = 0
  /\ s.exists => s.ever
  /\ ~s.ever => s.opening
IsIssued(s, pub) ==
  pub # None => /\ pub.epoch \in Nat /\ pub.time \in Times
                /\ pub.epoch <= s.epoch
                /\ pub.epoch = s.epoch => ~s.opening
LifeInv == Alive(session) /\ IsIssued(session, published)

\* Source time: a session's frames are of one timeline, and so is what its
\* epoch has published.
OneTimeline(s) ==
  \A i \in 1..Len(s.held) :
    /\ s.held[i].time <= s.submitted
    /\ \A j \in 1..Len(s.held) : i < j => s.held[i].time <= s.held[j].time
Timely(s, pub) ==
  pub # None /\ pub.epoch = s.epoch /\ s.exists =>
    /\ pub.time <= s.submitted
    /\ \A i \in 1..Len(s.held) : pub.time <= s.held[i].time
TimeInv ==
  ~missed => /\ OneTimeline(session) /\ Timely(session, published)
             /\ session.last # None => session.submitted <= session.last

Inv == Typed /\ GateInv /\ DormantInv /\ PairInv /\ ClockInv /\ LifeInv /\ TimeInv

(***************************************************************************)
(* The steps of a session.                                                 *)
(***************************************************************************)
LEMMA NoneHeld == <<>> \in Seq(FramesOfNVENC) /\ <<>> \in Seq(Metadatas)
  BY EmptySeq

LEMMA NothingHeld == Len(<<>>) = 0 /\ 1..0 = {}
  BY EmptySeq

LEMMA BegunEffect ==
  ASSUME NEW s \in Sessions
  PROVE  /\ EpochBegun(s) \in Sessions
         /\ EpochBegun(s).exists = s.exists /\ EpochBegun(s).held = s.held
         /\ EpochBegun(s).pending = s.pending /\ EpochBegun(s).last = s.last
         /\ EpochBegun(s).submitted = s.submitted /\ EpochBegun(s).ever = s.ever
         /\ EpochBegun(s).epoch = s.epoch + 1 /\ EpochBegun(s).opening
<1>1. s.epoch + 1 \in Nat
  BY DEF Sessions
<1>2. EpochBegun(s) = [s EXCEPT !.epoch = s.epoch + 1, !.opening = TRUE, !.force = TRUE]
  BY DEF EpochBegun, Sessions
<1>3. [s EXCEPT !.epoch = s.epoch + 1, !.opening = TRUE, !.force = TRUE] \in Sessions
  BY <1>1 DEF Sessions
<1> QED
  BY <1>2, <1>3 DEF Sessions

LEMMA DestroyedEffect ==
  ASSUME NEW s \in Sessions
  PROVE  /\ Destroyed(s) \in Sessions /\ ~Destroyed(s).exists
         /\ Destroyed(s).held = <<>> /\ Destroyed(s).pending = <<>>
         /\ Destroyed(s).last = None /\ Destroyed(s).submitted = 0
         /\ Destroyed(s).ever = s.ever /\ Destroyed(s).epoch = s.epoch
         /\ Destroyed(s).opening = s.opening
<1>1. 0 \in Times /\ None \in Times \cup {None}
  BY SessionAssumption DEF Times
<1> QED
  BY <1>1, NoneHeld DEF Destroyed, Sessions

LEMMA ForcedEffect ==
  ASSUME NEW s \in Sessions, NEW force \in BOOLEAN
  PROVE  LET f == [s EXCEPT !.force = force]
         IN  /\ f \in Sessions /\ f.exists = s.exists /\ f.held = s.held
             /\ f.pending = s.pending /\ f.last = s.last /\ f.ever = s.ever
             /\ f.submitted = s.submitted /\ f.epoch = s.epoch
             /\ f.opening = s.opening
  BY DEF Sessions

\* EnsureEncoder's last lines.
LEMMA CreatedEffect ==
  ASSUME NEW s \in Sessions
  PROVE  LET c == [s EXCEPT !.exists = TRUE, !.ever = TRUE, !.force = TRUE]
         IN  /\ c \in Sessions /\ c.exists /\ c.ever /\ c.held = s.held
             /\ c.pending = s.pending /\ c.last = s.last
             /\ c.submitted = s.submitted /\ c.epoch = s.epoch
             /\ c.opening = s.opening
<1> DEFINE c == [s EXCEPT !.exists = TRUE, !.ever = TRUE, !.force = TRUE]
<1>1. c \in Sessions
  BY DEF Sessions
<1>2. c.exists /\ c.ever
  BY DEF Sessions
<1>3. /\ c.held = s.held /\ c.pending = s.pending /\ c.last = s.last
      /\ c.submitted = s.submitted /\ c.epoch = s.epoch /\ c.opening = s.opening
  BY DEF Sessions
<1> QED
  BY <1>1, <1>2, <1>3

LEMMA CreatedIs ==
  ASSUME NEW s \in Sessions, NEW c,
         c = [s EXCEPT !.exists = TRUE, !.ever = TRUE, !.force = TRUE]
  PROVE  /\ c \in Sessions /\ c.exists /\ c.ever /\ c.held = s.held
         /\ c.pending = s.pending /\ c.last = s.last
         /\ c.submitted = s.submitted /\ c.epoch = s.epoch
         /\ c.opening = s.opening
  BY CreatedEffect

\* ObserveEncodedSourceTime's last line.
LEMMA LastSetEffect ==
  ASSUME NEW w \in Sessions, NEW time \in Times, NEW o,
         o = [w EXCEPT !.last = time]
  PROVE  /\ o \in Sessions /\ o.epoch = w.epoch
         /\ o.opening = w.opening /\ o.ever = w.ever
BY DEF Sessions

\* The session goes on with a later picture, or is a new one.
Continues(n, s, time) ==
  /\ s.exists /\ n.exists /\ n.held = s.held /\ n.pending = s.pending
  /\ n.submitted = s.submitted /\ n.ever = s.ever /\ n.epoch = s.epoch
  /\ n.opening = s.opening /\ n.last = time
  /\ s.last # None => s.last <= time
Renews(n, s) ==
  /\ n.exists /\ n.held = <<>> /\ n.pending = <<>> /\ n.submitted = 0
  /\ n.last = None /\ n.ever /\ n.opening /\ s.epoch <= n.epoch
  /\ n.epoch = s.epoch => s.opening

LEMMA Prepared ==
  ASSUME NEW s \in Sessions, Alive(s), NEW time \in Times
  PROVE  LET n == Ensured(Observed(s, time))
         IN  n \in Sessions /\ (Continues(n, s, time) \/ Renews(n, s))
<1> DEFINE o == Observed(s, time)
           n == Ensured(o)
<1>n. /\ s.epoch \in Nat /\ time \in Int /\ s.last \in Times \cup {None}
      /\ Times \subseteq Int
  BY SessionAssumption DEF Sessions, Times
<1>1. CASE s.last # None /\ time < s.last
  <2>1. /\ WentBack(s) \in Sessions /\ ~WentBack(s).exists /\ WentBack(s).opening
        /\ WentBack(s).epoch = s.epoch + 1
    BY BegunEffect, DestroyedEffect DEF WentBack
  <2>2. o = [WentBack(s) EXCEPT !.last = time]
    BY <1>1 DEF Observed
  <2>3. /\ o \in Sessions /\ ~o.exists /\ o.opening /\ o.epoch = s.epoch + 1
    BY <2>1, <2>2 DEF Sessions
  <2> DEFINE d == Destroyed(o)
  <2>4. /\ d \in Sessions /\ d.held = <<>> /\ d.pending = <<>> /\ d.last = None
        /\ d.submitted = 0 /\ d.epoch = s.epoch + 1 /\ d.opening
    BY <2>3, DestroyedEffect
  <2>5. n = [d EXCEPT !.exists = TRUE, !.ever = TRUE, !.force = TRUE]
    BY <2>3, <2>4 DEF Ensured
  <2> HIDE DEF d
  <2>6. /\ n \in Sessions /\ n.exists /\ n.ever /\ n.held = <<>> /\ n.pending = <<>>
        /\ n.last = None /\ n.submitted = 0 /\ n.epoch = s.epoch + 1 /\ n.opening
    <3> HIDE DEF n
    <3>1. /\ n \in Sessions /\ n.exists /\ n.ever /\ n.held = d.held
          /\ n.pending = d.pending /\ n.last = d.last
          /\ n.submitted = d.submitted /\ n.epoch = d.epoch
          /\ n.opening = d.opening
      BY ONLY <2>4, <2>5, CreatedIs
    <3> QED
      BY ONLY <2>4, <3>1
  <2>7. Renews(n, s)
    BY ONLY <1>n, <2>6 DEF Renews
  <2> QED
    BY <2>6, <2>7
<1>2. CASE ~(s.last # None /\ time < s.last)
  <2>1. o = [s EXCEPT !.last = time]
    BY <1>2 DEF Observed
  <2>2. /\ o \in Sessions /\ o.exists = s.exists /\ o.held = s.held
        /\ o.pending = s.pending /\ o.submitted = s.submitted /\ o.ever = s.ever
        /\ o.epoch = s.epoch /\ o.opening = s.opening /\ o.last = time
    BY <2>1 DEF Sessions
  <2>3. CASE s.exists
    <3>1. n = o
      BY <2>2, <2>3 DEF Ensured
    <3>2. s.last # None => s.last <= time
      <4>1. s.last # None => s.last \in Int
        BY <1>n
      <4> QED
        BY <1>n, <1>2, <4>1
    <3> QED
      BY <2>2, <2>3, <3>1, <3>2 DEF Continues
  <2>4. CASE ~s.exists
    <3> DEFINE d == Destroyed(o)
               e == IF d.ever /\ ~d.opening THEN EpochBegun(d) ELSE d
    <3>1. /\ d \in Sessions /\ d.held = <<>> /\ d.pending = <<>> /\ d.last = None
          /\ d.submitted = 0 /\ d.epoch = s.epoch /\ d.opening = s.opening
          /\ d.ever = s.ever
      BY <2>2, DestroyedEffect
    <3>2. /\ e \in Sessions /\ e.held = <<>> /\ e.pending = <<>> /\ e.last = None
          /\ e.submitted = 0 /\ e.opening /\ e.epoch \in {s.epoch, s.epoch + 1}
          /\ e.epoch = s.epoch => s.opening
      <4>1. CASE d.ever /\ ~d.opening
        BY <1>n, <3>1, <4>1, BegunEffect
      <4>2. CASE ~(d.ever /\ ~d.opening)
        BY <3>1, <4>2 DEF Alive
      <4> QED
        BY <4>1, <4>2
    <3>3. n = [e EXCEPT !.exists = TRUE, !.ever = TRUE, !.force = TRUE]
      BY <2>2, <2>4 DEF Ensured
    <3> HIDE DEF e, d
    <3>4. /\ n \in Sessions /\ n.exists /\ n.ever /\ n.held = <<>> /\ n.pending = <<>>
          /\ n.last = None /\ n.submitted = 0 /\ n.epoch = e.epoch
          /\ n.opening = e.opening
      BY ONLY <3>2, <3>3, CreatedEffect
    <3>5. Renews(n, s)
      BY ONLY <1>n, <3>2, <3>4 DEF Renews
    <3> QED
      BY <3>4, <3>5
  <2> QED
    BY <2>3, <2>4
<1> QED
  BY <1>1, <1>2

LEMMA SubmittedEffect ==
  ASSUME NEW s \in Sessions, NEW frame \in FramesOfNVENC
  PROVE  LET m == Submitted(s, frame)
         IN  /\ m \in Sessions /\ m.exists = s.exists /\ m.last = s.last
             /\ m.ever = s.ever /\ m.epoch = s.epoch /\ m.opening = s.opening
             /\ m.submitted = frame.time
             /\ m.held = Append(s.held, frame)
             /\ m.pending = Append(s.pending, Metadata(frame))
<1>1. /\ s.held \in Seq(FramesOfNVENC) /\ s.pending \in Seq(Metadatas)
      /\ frame.time \in Times /\ Metadata(frame) \in Metadatas
  BY DEF Sessions, FramesOfNVENC, Metadatas, Metadata
<1>2. /\ Append(s.held, frame) \in Seq(FramesOfNVENC)
      /\ Append(s.pending, Metadata(frame)) \in Seq(Metadatas)
  BY <1>1, AppendProperties
<1>3. Submitted(s, frame) =
        [s EXCEPT !.held = Append(s.held, frame),
                  !.pending = Append(s.pending, Metadata(frame)),
                  !.force = FALSE, !.submitted = frame.time]
  BY DEF Submitted, Sessions
<1> QED
  BY <1>1, <1>2, <1>3 DEF Sessions

LEMMA HeldTypes ==
  ASSUME NEW s \in Sessions
  PROVE  /\ s.held \in Seq(FramesOfNVENC) /\ s.pending \in Seq(Metadatas)
         /\ Len(s.held) \in Nat /\ Len(s.pending) \in Nat
         /\ s.submitted \in Int /\ s.epoch \in Nat
         /\ \A i \in 1..Len(s.held) :
              /\ s.held[i] \in FramesOfNVENC
              /\ s.held[i].timestamp \in Int /\ s.held[i].time \in Int
<1>1. s.held \in Seq(FramesOfNVENC) /\ s.pending \in Seq(Metadatas)
  BY DEF Sessions
<1>2. /\ Len(s.held) \in Nat /\ Len(s.pending) \in Nat
      /\ \A i \in 1..Len(s.held) : s.held[i] \in FramesOfNVENC
  BY <1>1, LenProperties, ElementOfSeq
<1>3. \A f \in FramesOfNVENC : f.timestamp \in Int /\ f.time \in Int
  BY SessionAssumption DEF FramesOfNVENC, Times
<1>4. s.submitted \in Int /\ s.epoch \in Nat
  BY SessionAssumption DEF Sessions, Times
<1> QED
  BY <1>1, <1>2, <1>3, <1>4

\* What holds of a session holds of the one that a picture is submitted to.
LEMMA PreparedKeeps ==
  ASSUME NEW s \in Sessions, NEW n \in Sessions, NEW time \in Times, NEW pub,
         NEW index, NEW stamp, Continues(n, s, time) \/ Renews(n, s),
         Alive(s), IsIssued(s, pub), Paired(s), Ticking(s, index, stamp)
  PROVE  /\ n.exists /\ Alive(n) /\ IsIssued(n, pub) /\ Paired(n)
         /\ Ticking(n, index, stamp)
         /\ n.held = s.held \/ n.held = <<>>
         /\ OneTimeline(s) => OneTimeline(n)
         /\ Timely(s, pub) => Timely(n, pub)
         /\ /\ s.last # None => s.submitted <= s.last
            /\ s.exists /\ s.last = None => s.submitted <= time
            => /\ n.submitted <= time
               /\ n.last # None => n.last = time
<1>n. /\ time \in Int /\ 0 <= time
      /\ s.last # None => s.last \in Int
      /\ s.submitted \in Int /\ s.epoch \in Nat /\ n.epoch \in Nat
  BY SessionAssumption, HeldTypes DEF Sessions, Times
<1>1. CASE Continues(n, s, time)
  <2>1. Alive(n) /\ IsIssued(n, pub)
    BY <1>1 DEF Continues, Alive, IsIssued
  <2>2. Paired(n) /\ Ticking(n, index, stamp)
    BY <1>1 DEF Continues, Paired, Ticking
  <2>3. OneTimeline(s) => OneTimeline(n)
    BY <1>1 DEF Continues, OneTimeline
  <2>4. Timely(s, pub) => Timely(n, pub)
    BY <1>1 DEF Continues, Timely
  <2> QED
    BY <1>n, <1>1, <2>1, <2>2, <2>3, <2>4 DEF Continues
<1>2. CASE Renews(n, s)
  <2>1. n.held = <<>> /\ n.pending = <<>> /\ 1..Len(n.held) = {} /\ n.exists
    BY <1>2, NothingHeld DEF Renews
  <2>2. Alive(n)
    BY <1>2 DEF Renews, Alive
  <2>3. pub # None => pub.epoch \in Nat /\ pub.epoch # n.epoch /\ pub.epoch <= n.epoch
    BY <1>n, <1>2 DEF Renews, IsIssued
  <2>4. IsIssued(n, pub) /\ Timely(n, pub)
    BY <2>3 DEF IsIssued, Timely
  <2>5. Paired(n) /\ OneTimeline(n)
    BY <2>1 DEF Paired, OneTimeline
  <2>6. Ticking(n, index, stamp)
    BY <2>1 DEF Ticking
  <2> QED
    BY <1>n, <1>2, <2>1, <2>2, <2>4, <2>5, <2>6 DEF Renews
<1> QED
  BY <1>1, <1>2

\* What holds of a session holds with one more picture, of the present index.
LEMMA SubmittedKeeps ==
  ASSUME NEW s \in Sessions, NEW frame \in FramesOfNVENC, NEW pub, NEW stamp,
         stamp # None => stamp \in Int, pub # None => pub.time \in Int,
         Paired(s), Ticking(s, frame.timestamp, stamp), s.exists
  PROVE  LET m == Submitted(s, frame)
         IN  /\ Paired(m) /\ Ticking(m, frame.timestamp + 1, stamp)
             /\ OneTimeline(s) /\ s.submitted <= frame.time => OneTimeline(m)
             /\ Timely(s, pub) /\ s.submitted <= frame.time => Timely(m, pub)
             /\ (\A i \in 1..Len(s.held) : ~s.held[i].dormant) /\ ~frame.dormant
                  => \A i \in 1..Len(m.held) : ~m.held[i].dormant
<1> DEFINE m == Submitted(s, frame)
<1>1. /\ m \in Sessions /\ m.exists = s.exists /\ m.epoch = s.epoch
      /\ m.submitted = frame.time /\ m.held = Append(s.held, frame)
      /\ m.pending = Append(s.pending, Metadata(frame))
  BY SubmittedEffect
<1>n. frame.timestamp \in Int /\ frame.time \in Int
  BY SessionAssumption DEF FramesOfNVENC, Times
<1>2. /\ Len(m.held) = Len(s.held) + 1 /\ m.held[Len(s.held) + 1] = frame
      /\ \A i \in 1..Len(s.held) : m.held[i] = s.held[i]
  BY <1>1, HeldTypes, AppendProperties
<1>3. /\ Len(m.pending) = Len(s.pending) + 1
      /\ m.pending[Len(s.pending) + 1] = Metadata(frame)
      /\ \A i \in 1..Len(s.pending) : m.pending[i] = s.pending[i]
  <2>1. Metadata(frame) \in Metadatas
    BY DEF Metadata, Metadatas, FramesOfNVENC
  <2> QED
    BY <1>1, <2>1, HeldTypes, AppendProperties
<1> HIDE DEF m
<1>4. \A i \in 1..Len(m.held) : i \in 1..Len(s.held) \/ i = Len(s.held) + 1
  BY <1>2, HeldTypes
<1>5. Paired(m)
  BY <1>2, <1>3, <1>4 DEF Paired
<1>6. Ticking(m, frame.timestamp + 1, stamp)
  <2>1. ASSUME NEW i \in 1..Len(m.held)
        PROVE  /\ m.held[i].timestamp < frame.timestamp + 1
               /\ stamp # None => stamp < m.held[i].timestamp
               /\ \A j \in 1..Len(m.held) :
                    i < j => m.held[i].timestamp < m.held[j].timestamp
    <3>1. CASE i \in 1..Len(s.held)
      <4>1. /\ s.held[i].timestamp \in Int /\ m.held[i] = s.held[i]
            /\ s.held[i].timestamp < frame.timestamp
            /\ stamp # None => stamp < s.held[i].timestamp
            /\ \A j \in 1..Len(s.held) :
                 i < j => s.held[i].timestamp < s.held[j].timestamp
        BY <1>2, <3>1, HeldTypes DEF Ticking
      <4>2. s.held[i].timestamp < frame.timestamp + 1
        BY <1>n, <4>1
      <4>3. ASSUME NEW j \in 1..Len(m.held), i < j
            PROVE  s.held[i].timestamp < m.held[j].timestamp
        <5>1. CASE j \in 1..Len(s.held)
          BY <1>2, <4>1, <4>3, <5>1
        <5>2. CASE j = Len(s.held) + 1
          BY <1>2, <4>1, <5>2
        <5> QED
          BY <1>4, <5>1, <5>2
      <4> QED
        BY <4>1, <4>2, <4>3
    <3>2. CASE i = Len(s.held) + 1
      <4>1. \A j \in 1..Len(m.held) : ~(i < j)
        BY <1>2, <3>2, HeldTypes
      <4> QED
        BY <1>n, <1>2, <3>2, <4>1 DEF Ticking
    <3> QED
      BY <1>4, <2>1, <3>1, <3>2
  <2> QED
    BY <1>n, <2>1 DEF Ticking
<1>7. ASSUME OneTimeline(s), s.submitted <= frame.time PROVE OneTimeline(m)
  <2>1. ASSUME NEW i \in 1..Len(m.held)
        PROVE  /\ m.held[i].time <= m.submitted
               /\ \A j \in 1..Len(m.held) : i < j => m.held[i].time <= m.held[j].time
    <3>1. CASE i \in 1..Len(s.held)
      <4>1. /\ s.held[i].time \in Int /\ m.held[i] = s.held[i]
            /\ s.held[i].time <= s.submitted /\ s.submitted \in Int
            /\ \A j \in 1..Len(s.held) : i < j => s.held[i].time <= s.held[j].time
        BY <1>2, <1>7, <3>1, HeldTypes DEF OneTimeline
      <4>2. s.held[i].time <= frame.time
        BY <1>n, <1>7, <4>1
      <4> QED
        BY <1>1, <1>2, <1>4, <4>1, <4>2
    <3>2. CASE i = Len(s.held) + 1
      <4>1. \A j \in 1..Len(m.held) : ~(i < j)
        BY <1>2, <3>2, HeldTypes
      <4> QED
        BY <1>n, <1>1, <1>2, <3>2, <4>1
    <3> QED
      BY <1>4, <2>1, <3>1, <3>2
  <2> QED
    BY <2>1 DEF OneTimeline
<1>8. ASSUME Timely(s, pub), s.submitted <= frame.time,
             pub # None, pub.epoch = m.epoch
      PROVE  /\ pub.time <= m.submitted
             /\ \A i \in 1..Len(m.held) : pub.time <= m.held[i].time
  <2>1. /\ pub.time <= s.submitted /\ s.submitted \in Int
        /\ \A i \in 1..Len(s.held) : pub.time <= s.held[i].time
    BY <1>1, <1>8, HeldTypes DEF Timely
  <2>2. pub.time <= frame.time
    BY <1>n, <1>8, <2>1
  <2> QED
    BY <1>1, <1>2, <1>4, <2>1, <2>2
<1>9. ASSUME \A i \in 1..Len(s.held) : ~s.held[i].dormant, ~frame.dormant
      PROVE  \A i \in 1..Len(m.held) : ~m.held[i].dormant
  BY <1>2, <1>4, <1>9
<1>10. Timely(s, pub) /\ s.submitted <= frame.time => Timely(m, pub)
  BY <1>8 DEF Timely
<1> QED
  BY <1>5, <1>6, <1>7, <1>9, <1>10 DEF m

\* NVENC gives back the oldest picture: its metadata are the first pending ones.
LEMMA OldestIsFirst ==
  ASSUME NEW s \in Sessions, Paired(s), Len(s.held) >= 1
  PROVE  /\ TakePending(s.pending, s.held[1].timestamp) = 1
         /\ s.pending[1] = Metadata(s.held[1])
<1>1. 1 \in 1..Len(s.pending) /\ Len(s.pending) \in Nat
  BY HeldTypes DEF Paired
<1>2. s.pending[1] = Metadata(s.held[1])
  BY <1>1 DEF Paired
<1> DEFINE I == {i \in 1..Len(s.pending) : s.pending[i].timestamp = s.held[1].timestamp}
<1>3. 1 \in I /\ \A i \in I : 1 <= i
  BY <1>1, <1>2 DEF Metadata
<1>4. TakePending(s.pending, s.held[1].timestamp) = IF I # {} THEN Min(I) ELSE 0
  BY DEF TakePending, SelectInSeq
<1>5. Min(I) = 1
  <2>1. \A x \in I : x \in Int
    BY <1>1
  <2> HIDE DEF I
  <2> QED
    BY <1>3, <2>1 DEF Min
<1> QED
  BY <1>2, <1>3, <1>4, <1>5

LEMMA FirstRemoved ==
  ASSUME NEW S, NEW q \in Seq(S), Len(q) >= 1
  PROVE  RemoveAt(q, 1) = Tail(q) /\ RemoveAt(q, 1) \in Seq(S)
<1>1. Len(q) \in Nat
  BY LenProperties
<1>2. SubSeq(q, 1, 0) = <<>>
  BY <1>1, SubSeqProperties
<1>3. SubSeq(q, 2, Len(q)) = Tail(q) /\ Tail(q) \in Seq(S)
  BY <1>1, SubSeqProperties, HeadTailProperties
<1>4. RemoveAt(q, 1) = <<>> \o Tail(q)
  BY <1>1, <1>2, <1>3 DEF RemoveAt
<1>5. <<>> \o Tail(q) = Tail(q)
  BY <1>3, ConcatEmptySeq
<1> QED
  BY <1>3, <1>4, <1>5

\* The session of an output, without the oldest picture.
WithoutOldest(s, opening, force) ==
  [s EXCEPT !.held = Tail(@), !.pending = RemoveAt(@, 1), !.opening = opening,
            !.force = force]

LEMMA OldestLeaves ==
  ASSUME NEW s \in Sessions, Len(s.held) >= 1, Paired(s), NEW opening \in BOOLEAN,
         NEW force \in BOOLEAN, NEW index, NEW stamp, Ticking(s, index, stamp), index \in Int
  PROVE  LET q == WithoutOldest(s, opening, force)
             oldest == s.held[1]
         IN  /\ q \in Sessions /\ q.exists = s.exists /\ q.last = s.last
             /\ q.ever = s.ever /\ q.epoch = s.epoch /\ q.submitted = s.submitted
             /\ q.opening = opening
             /\ Paired(q) /\ Ticking(q, index, oldest.timestamp)
             /\ Ticking(q, index, stamp) /\ oldest \in FramesOfNVENC
             /\ oldest.timestamp < index /\ (stamp # None => stamp < oldest.timestamp)
             /\ OneTimeline(s) => /\ OneTimeline(q) /\ oldest.time <= q.submitted
                                  /\ \A i \in 1..Len(q.held) : oldest.time <= q.held[i].time
             /\ (\A i \in 1..Len(s.held) : ~s.held[i].dormant)
                  => \A i \in 1..Len(q.held) : ~q.held[i].dormant
<1> DEFINE q == WithoutOldest(s, opening, force)
<1>1. /\ s.held \in Seq(FramesOfNVENC) /\ s.held # <<>> /\ Len(s.held) \in Nat
      /\ s.pending \in Seq(Metadatas) /\ Len(s.pending) >= 1 /\ s.pending # <<>>
      /\ Len(s.pending) = Len(s.held) /\ s.held[1] \in FramesOfNVENC
  BY HeldTypes, EmptySeq DEF Paired
<1>2. /\ Tail(s.held) \in Seq(FramesOfNVENC) /\ Tail(s.pending) \in Seq(Metadatas)
      /\ Len(Tail(s.held)) = Len(s.held) - 1 /\ Len(Tail(s.pending)) = Len(s.held) - 1
      /\ \A i \in 1..Len(Tail(s.held)) : Tail(s.held)[i] = s.held[i + 1]
      /\ \A i \in 1..Len(Tail(s.pending)) : Tail(s.pending)[i] = s.pending[i + 1]
  BY <1>1, HeadTailProperties
<1>3. RemoveAt(s.pending, 1) = Tail(s.pending)
  BY <1>1, FirstRemoved
<1>4. q = [s EXCEPT !.held = Tail(s.held), !.pending = Tail(s.pending),
                    !.opening = opening, !.force = force]
  BY <1>3 DEF WithoutOldest, Sessions
<1>5. /\ q \in Sessions /\ q.held = Tail(s.held) /\ q.pending = Tail(s.pending)
      /\ q.exists = s.exists /\ q.last = s.last /\ q.ever = s.ever
      /\ q.epoch = s.epoch /\ q.submitted = s.submitted /\ q.opening = opening
  BY <1>2, <1>4 DEF Sessions
<1> HIDE DEF q
<1>6. ASSUME NEW i \in 1..Len(q.held)
      PROVE  /\ i \in Int /\ i + 1 \in 1..Len(s.held) /\ 1 \in 1..Len(s.held) /\ 1 < i + 1
             /\ q.held[i] = s.held[i + 1] /\ q.pending[i] = s.pending[i + 1]
  BY <1>1, <1>2, <1>5
<1>7. Paired(q)
  BY <1>1, <1>2, <1>5, <1>6 DEF Paired
<1>8. 1 \in 1..Len(s.held)
  BY <1>1
<1>9. s.held[1].timestamp < index /\ (stamp # None => stamp < s.held[1].timestamp)
  BY <1>8 DEF Ticking
<1>10. Ticking(q, index, s.held[1].timestamp)
  <2>1. ASSUME NEW i \in 1..Len(q.held)
        PROVE  /\ q.held[i].timestamp < index
               /\ s.held[1].timestamp < q.held[i].timestamp
    BY <1>6, <1>8, <2>1 DEF Ticking
  <2>2. ASSUME NEW i \in 1..Len(q.held), NEW j \in 1..Len(q.held), i < j
        PROVE  q.held[i].timestamp < q.held[j].timestamp
    <3>1. i + 1 < j + 1 /\ i + 1 \in 1..Len(s.held) /\ j + 1 \in 1..Len(s.held)
      BY <1>6, <2>2
    <3>2. q.held[i] = s.held[i + 1] /\ q.held[j] = s.held[j + 1]
      BY <1>6
    <3> QED
      BY <3>1, <3>2 DEF Ticking
  <2> QED
    BY <1>9, <2>1, <2>2 DEF Ticking
<1>11. ASSUME OneTimeline(s)
       PROVE  /\ OneTimeline(q) /\ s.held[1].time <= q.submitted
              /\ \A i \in 1..Len(q.held) : s.held[1].time <= q.held[i].time
  <2>1. ASSUME NEW i \in 1..Len(q.held)
        PROVE  s.held[1].time <= q.held[i].time /\ q.held[i].time <= q.submitted
    BY <1>5, <1>6, <1>11, <2>1 DEF OneTimeline
  <2>2. ASSUME NEW i \in 1..Len(q.held), NEW j \in 1..Len(q.held), i < j
        PROVE  q.held[i].time <= q.held[j].time
    <3>1. i + 1 < j + 1 /\ i + 1 \in 1..Len(s.held) /\ j + 1 \in 1..Len(s.held)
      BY <1>6, <2>2
    <3>2. q.held[i] = s.held[i + 1] /\ q.held[j] = s.held[j + 1]
      BY <1>6
    <3> QED
      BY <1>11, <3>1, <3>2 DEF OneTimeline
  <2>3. s.held[1].time <= q.submitted
    BY <1>5, <1>8, <1>11 DEF OneTimeline
  <2> QED
    BY <2>1, <2>2, <2>3 DEF OneTimeline
<1>12. ASSUME \A i \in 1..Len(s.held) : ~s.held[i].dormant
       PROVE  \A i \in 1..Len(q.held) : ~q.held[i].dormant
  BY <1>6, <1>12
<1>13. Ticking(q, index, stamp)
  <2>1. stamp # None => stamp < index
    BY DEF Ticking
  <2>2. ASSUME NEW i \in 1..Len(q.held)
        PROVE  /\ q.held[i].timestamp < index
               /\ stamp # None => stamp < q.held[i].timestamp
    BY <1>6, <2>2 DEF Ticking
  <2>3. \A i \in 1..Len(q.held) : \A j \in 1..Len(q.held) :
          i < j => q.held[i].timestamp < q.held[j].timestamp
    BY ONLY <1>10 DEF Ticking
  <2> QED
    BY ONLY <2>1, <2>2, <2>3 DEF Ticking
<1> QED
  BY <1>1, <1>5, <1>7, <1>9, <1>10, <1>11, <1>12, <1>13 DEF q

\* The same of a session that is given up after its oldest picture has left.
LEMMA OldestGone ==
  ASSUME NEW s \in Sessions, Len(s.held) >= 1, Paired(s), s.exists, Alive(s),
         NEW opening \in BOOLEAN, NEW force \in BOOLEAN, NEW index, NEW stamp,
         Ticking(s, index, stamp), index \in Int,
         NEW r \in {WithoutOldest(s, opening, force),
                    Destroyed(WithoutOldest(s, opening, force))}
  PROVE  LET oldest == s.held[1]
         IN  /\ r \in Sessions /\ r.epoch = s.epoch /\ r.opening = opening
             /\ Alive(r) /\ Paired(r) /\ Ticking(r, index, oldest.timestamp)
             /\ Ticking(r, index, stamp)
             /\ oldest \in FramesOfNVENC
             /\ stamp # None => stamp < oldest.timestamp
             /\ r.last # None => r.last = s.last /\ r.submitted = s.submitted
             /\ OneTimeline(s) => /\ OneTimeline(r)
                                  /\ r.exists => oldest.time <= r.submitted
                                  /\ \A i \in 1..Len(r.held) : oldest.time <= r.held[i].time
             /\ (\A i \in 1..Len(s.held) : ~s.held[i].dormant)
                  => \A i \in 1..Len(r.held) : ~r.held[i].dormant
<1> DEFINE q == WithoutOldest(s, opening, force)
           oldest == s.held[1]
<1>1. /\ q \in Sessions /\ q.exists = s.exists /\ q.last = s.last
      /\ q.ever = s.ever /\ q.epoch = s.epoch /\ q.submitted = s.submitted
      /\ q.opening = opening
      /\ Paired(q) /\ Ticking(q, index, oldest.timestamp)
      /\ Ticking(q, index, stamp) /\ oldest \in FramesOfNVENC
      /\ oldest.timestamp < index /\ (stamp # None => stamp < oldest.timestamp)
      /\ OneTimeline(s) => /\ OneTimeline(q) /\ oldest.time <= q.submitted
                           /\ \A i \in 1..Len(q.held) : oldest.time <= q.held[i].time
      /\ (\A i \in 1..Len(s.held) : ~s.held[i].dormant)
           => \A i \in 1..Len(q.held) : ~q.held[i].dormant
  BY ONLY s \in Sessions, Len(s.held) >= 1, Paired(s), opening \in BOOLEAN,
          force \in BOOLEAN, Ticking(s, index, stamp), index \in Int, OldestLeaves
<1>2. s.ever
  BY DEF Alive
<1>3. r \in {q, Destroyed(q)}
  OBVIOUS
<1> HIDE DEF q, oldest
<1>4. CASE r = q
  <2>1. Alive(q)
    BY <1>1, <1>2 DEF Alive
  <2> QED
    BY ONLY <1>1, <1>4, <2>1 DEF oldest
<1>5. CASE r = Destroyed(q)
  <2>1. /\ r \in Sessions /\ ~r.exists /\ r.held = <<>> /\ r.pending = <<>>
        /\ r.last = None /\ r.submitted = 0 /\ r.ever = q.ever
        /\ r.epoch = q.epoch /\ r.opening = q.opening
    BY ONLY <1>1, <1>5, DestroyedEffect
  <2>2. 1..Len(r.held) = {} /\ Len(r.held) = Len(r.pending)
    BY <2>1, NothingHeld
  <2>3. Alive(r)
    BY <1>1, <1>2, <2>1 DEF Alive
  <2>4. Paired(r) /\ OneTimeline(r)
    BY <2>2 DEF Paired, OneTimeline
  <2>5. Ticking(r, index, oldest.timestamp) /\ Ticking(r, index, stamp)
    BY <1>1, <2>2 DEF Ticking
  <2> QED
    BY ONLY <1>1, <2>1, <2>2, <2>3, <2>4, <2>5 DEF oldest
<1> QED
  BY <1>3, <1>4, <1>5

(***************************************************************************)
(* What a step makes of the session.                                       *)
(***************************************************************************)
OutputStays == UNCHANGED <<encodedFrameIndex, lastTimestamp, published>>
                 /\ (output' = output \/ output' = NoOutput)
\* It holds what it held; an epoch may begin.
Stays ==
  /\ session' \in Sessions /\ OutputStays
  /\ session'.exists = session.exists /\ session'.held = session.held
  /\ session'.pending = session.pending /\ session'.last = session.last
  /\ session'.submitted = session.submitted /\ session'.ever = session.ever
  /\ \/ session'.epoch = session.epoch /\ session'.opening = session.opening
     \/ session'.epoch = session.epoch + 1 /\ session'.opening
\* It is given up.
Goes ==
  /\ session' \in Sessions /\ OutputStays
  /\ ~session'.exists /\ session'.held = <<>> /\ session'.pending = <<>>
  /\ session'.last = None /\ session'.submitted = 0
  /\ ~session'.ever => session'.opening
  /\ session.epoch <= session'.epoch
  /\ session'.epoch = session.epoch /\ ~session.opening => ~session'.opening

\* The session a picture is submitted to, and the picture.
Session(time) == Ensured(Observed(session, time))
Picture(time) == Frame(Session(time), time)
WithPicture(time) == Submitted(Session(time), Picture(time))

\* The picture is not submitted, held back, or the oldest one is put out.
Looks(time) == session' = Session(time) /\ OutputStays
Holds(time) ==
  /\ session' = WithPicture(time) /\ encodedFrameIndex' = encodedFrameIndex + 1
  /\ UNCHANGED <<output, lastTimestamp, published>>
\* The oldest one leaves, and may take the session with it.
Leaves(time, opening, force) ==
  LET q == WithoutOldest(WithPicture(time), opening, force)
  IN  /\ session' \in {q, Destroyed(q)}
      /\ encodedFrameIndex' = encodedFrameIndex + 1
PutsOut(time, opening, force) ==
  LET m == WithPicture(time)
      oldest == m.held[1]
  IN  /\ Leaves(time, opening, force)
      /\ output' \in [frame : {oldest}, metadata : {Metadata(oldest)},
                       unit : AccessUnits]
      /\ lastTimestamp' = oldest.timestamp
      /\ \/ UNCHANGED published /\ (opening => m.opening)
         \/ published' = [epoch |-> m.epoch, time |-> oldest.time] /\ ~opening
\* It is gone and nothing is put out.
Loses(time) ==
  /\ Leaves(time, WithPicture(time).opening, FALSE)
  /\ UNCHANGED <<output, lastTimestamp, published>>

LEMMA PictureType ==
  ASSUME Inv, NEW time \in Times, replay' \in BOOLEAN, encodedFrameIndex < MaxFrames
  PROVE  /\ Session(time) \in Sessions /\ Picture(time) \in FramesOfNVENC
         /\ Continues(Session(time), session, time) \/ Renews(Session(time), session)
         /\ WithPicture(time) \in Sessions
         /\ Picture(time).timestamp = encodedFrameIndex /\ Picture(time).time = time
         /\ Picture(time).dormant = replay'
<1>1. session \in Sessions /\ Alive(session) /\ encodedFrameIndex \in 0..MaxFrames
  BY DEF Inv, Typed, LifeInv
<1>2. /\ Session(time) \in Sessions
      /\ Continues(Session(time), session, time) \/ Renews(Session(time), session)
  BY ONLY <1>1, time \in Times, Prepared DEF Session
<1>3. Picture(time) = [timestamp |-> encodedFrameIndex, time |-> time,
                       dormant |-> replay', key |-> Session(time).force]
  BY DEF Picture, Frame, IndexFor
<1>4. Session(time).force \in BOOLEAN
  BY <1>2 DEF Sessions
<1>5. Picture(time) \in FramesOfNVENC
  BY <1>1, <1>3, <1>4 DEF FramesOfNVENC
<1>6. WithPicture(time) \in Sessions
  BY <1>2, <1>5, SubmittedEffect DEF WithPicture
<1> QED
  BY <1>2, <1>3, <1>5, <1>6

\* What comes of a start that is awaited, and of the demand, in an encode.
Settles ==
  /\ desiredActive' \in BOOLEAN /\ awaitingStart' \in BOOLEAN
  /\ overlapped' \in BOOLEAN
  /\ overlapped => overlapped'
  /\ desiredActive' => desiredActive
  /\ ~overlapped' /\ callback = "looked" => desiredActive' = desiredActive

LEMMA FailsEffect ==
  ASSUME Inv, NEW s \in Sessions, Fails(s)
  PROVE  Settles /\ session' \in {s, Destroyed(s)}
<1>1. /\ desiredActive \in BOOLEAN /\ awaitingStart \in BOOLEAN
      /\ overlapped \in BOOLEAN
  BY DEF Inv, Typed
<1>2. CASE awaitingStart
  BY <1>1, <1>2 DEF Fails, Settles
<1>3. CASE ~awaitingStart
  BY <1>1, <1>3 DEF Fails, Settles
<1> QED
  BY <1>2, <1>3

\* A picture of the sensor that passed the gate.
PassesGate(time) ==
  /\ sensorActive /\ renderPhase = "target" /\ renderPhase' = "post"
  /\ sourceTime' = time /\ cleanupEncoderRequested' = FALSE
  /\ replay' = (replay /\ time = sourceTime) /\ replay' \in BOOLEAN
  /\ changes' \in 0..MaxChanges
  /\ UNCHANGED <<rosConsumersActive, snapshotNeedsRender, callback, sensorActive,
                 rosFreshRenderGeneration, observedGeneration>>
  /\ ShouldEncode /\ IsAccepted(time) /\ sourceTimeFloor' = None
  /\ encodedFrameIndex < MaxFrames
  /\ missed' = (missed \/ (session.exists /\ session.last = None
                             /\ time < session.submitted))

LEMMA AcceptedEffect ==
  ASSUME Inv, NEW time \in Times, NEW STATE failures, failures \in {0, 1},
         Accepted(time, failures)
  PROVE  PassesGate(time)
<1>1. changes \in 0..MaxChanges /\ sourceTime \in Int /\ time \in Int
  BY SessionAssumption DEF Inv, Typed, Times
<1>2. changes' \in 0..MaxChanges
  <2>1. /\ changes' = changes + failures + (IF time < sourceTime THEN 1 ELSE 0)
        /\ changes' <= MaxChanges
    BY DEF Accepted, Rendered
  <2>2. (IF time < sourceTime THEN 1 ELSE 0) \in {0, 1}
    OBVIOUS
  <2> QED
    BY <1>1, <2>1, <2>2, SessionAssumption
<1>3. replay' \in BOOLEAN
  BY DEF Accepted, Rendered
<1> QED
  BY <1>2, <1>3 DEF Accepted, Rendered, PassesGate

LEMMA BreaksEffect ==
  ASSUME Inv, NEW time \in Times, EncodeNotSubmitted(time) \/ EncodeBreaks(time)
  PROVE  /\ Settles /\ session' \in Sessions
         /\ PassesGate(time)
         /\ Stays \/ Goes \/ Looks(time)
<1>1. session \in Sessions /\ Alive(session) /\ session.epoch \in Nat
  BY HeldTypes DEF Inv, Typed, LifeInv
<1> DEFINE o == Observed(session, time)
           n == Session(time)
<1>2. n \in Sessions /\ (Continues(n, session, time) \/ Renews(n, session))
  BY ONLY <1>1, time \in Times, Prepared DEF Session
<1>3. n.ever /\ session.epoch <= n.epoch
      /\ (n.epoch = session.epoch /\ ~session.opening => ~n.opening)
  BY <1>1, <1>2 DEF Continues, Renews, Alive
<1>4. /\ o \in Sessions /\ session.epoch <= o.epoch /\ (~o.ever => o.opening)
      /\ o.epoch = session.epoch /\ ~session.opening => ~o.opening
  <2>1. CASE session.last # None /\ time < session.last
    <3> DEFINE w == WentBack(session)
    <3>1. o = [w EXCEPT !.last = time]
      BY <2>1 DEF Observed
    <3>2. w \in Sessions /\ w.opening /\ w.epoch = session.epoch + 1
      BY <1>1, BegunEffect, DestroyedEffect DEF WentBack
    <3> HIDE DEF w, o
    <3>3. o \in Sessions /\ o.epoch = w.epoch /\ o.opening = w.opening
      BY ONLY time \in Times, <3>1, <3>2, LastSetEffect
    <3> QED
      BY ONLY <1>1, <3>2, <3>3
  <2>2. CASE ~(session.last # None /\ time < session.last)
    <3>1. o = [session EXCEPT !.last = time]
      BY <2>2 DEF Observed
    <3> HIDE DEF o
    <3>2. /\ o \in Sessions /\ o.epoch = session.epoch
          /\ o.opening = session.opening /\ o.ever = session.ever
      BY ONLY <1>1, time \in Times, <3>1, LastSetEffect
    <3> QED
      BY ONLY <1>1, <3>2 DEF Alive
  <2> QED
    BY <2>1, <2>2
<1>5. CASE EncodeNotSubmitted(time)
  <2>1. OutputStays
    BY <1>5 DEF EncodeNotSubmitted, outputVars, OutputStays
  <2>p. PassesGate(time)
    <3>1. Accepted(time, 1)
      BY <1>5 DEF EncodeNotSubmitted
    <3> QED
      BY ONLY Inv, time \in Times, <3>1, AcceptedEffect
  <2>2. CASE Fails(session)
    <3>1. Settles /\ session' \in {session, Destroyed(session)}
      BY ONLY Inv, <1>1, <2>2, FailsEffect
    <3>2. CASE session' = session
      <4>1. Stays /\ session' \in Sessions
        BY <1>1, <2>1, <3>2 DEF Stays
      <4> QED
        BY ONLY <2>p, <3>1, <4>1
    <3>3. CASE session' = Destroyed(session)
      <4>1. Goes
        BY <1>1, <2>1, <3>3, DestroyedEffect DEF Goes, Alive
      <4>2. session' \in Sessions
        BY <4>1 DEF Goes
      <4> QED
        BY ONLY <2>p, <3>1, <4>1, <4>2
    <3> QED
      BY <3>1, <3>2, <3>3
  <2>3. CASE Fails(Destroyed(Observed(session, time)))
    <3>1. Destroyed(o) \in Sessions
      BY <1>4, DestroyedEffect
    <3>2. Settles /\ session' \in {Destroyed(o), Destroyed(Destroyed(o))}
      BY ONLY Inv, <3>1, <2>3, FailsEffect
    <3>3. Goes
      BY <1>4, <2>1, <3>1, <3>2, DestroyedEffect DEF Goes
    <3>4. session' \in Sessions
      BY <3>3 DEF Goes
    <3> QED
      BY ONLY <2>p, <3>2, <3>3, <3>4
  <2>4. CASE Fails(Ensured(Observed(session, time)))
    <3>1. Settles /\ session' \in {n, Destroyed(n)}
      BY ONLY Inv, <1>2, <2>4, FailsEffect DEF Session
    <3>2. CASE session' = n
      <4>1. Looks(time) /\ session' \in Sessions
        BY <1>2, <2>1, <3>2 DEF Looks
      <4> QED
        BY ONLY <1>2, <2>p, <3>1, <4>1
    <3>3. CASE session' = Destroyed(n)
      <4>1. Goes
        BY <1>2, <1>3, <2>1, <3>3, DestroyedEffect DEF Goes
      <4>2. session' \in Sessions
        BY <4>1 DEF Goes
      <4> QED
        BY ONLY <2>p, <3>1, <4>1, <4>2
    <3> QED
      BY <3>1, <3>2, <3>3
  <2> QED
    BY <1>5, <2>2, <2>3, <2>4 DEF EncodeNotSubmitted
<1>6. CASE EncodeBreaks(time)
  <2> DEFINE m == Submitted(n, Frame(n, time))
  <2>1. /\ OutputStays
        /\ Fails(Destroyed(EpochBegun(m)))
        /\ Accepted(time, IF Len(m.held) > MaxHeld THEN 0 ELSE 1)
    BY <1>6 DEF EncodeBreaks, outputVars, OutputStays, Session
  <2>2. PassesGate(time)
    <3>1. (IF Len(m.held) > MaxHeld THEN 0 ELSE 1) \in {0, 1}
      OBVIOUS
    <3> QED
      BY ONLY Inv, time \in Times, <2>1, <3>1, AcceptedEffect
  <2>3. encodedFrameIndex < MaxFrames /\ replay' \in BOOLEAN
    BY <2>2 DEF PassesGate
  <2>4. m \in Sessions
    BY ONLY Inv, time \in Times, <2>3, PictureType DEF WithPicture, Picture, Session
  <2>5. m.ever = n.ever /\ m.epoch = n.epoch
    <3>1. Frame(n, time) \in FramesOfNVENC
      BY ONLY Inv, time \in Times, <2>3, PictureType DEF Picture, Session
    <3> QED
      BY ONLY <1>2, <3>1, SubmittedEffect
  <2> HIDE DEF m
  <2> DEFINE d == Destroyed(EpochBegun(m))
  <2>6. /\ d \in Sessions /\ ~d.exists /\ d.held = <<>> /\ d.pending = <<>>
        /\ d.last = None /\ d.submitted = 0 /\ d.ever = m.ever
        /\ d.epoch = m.epoch + 1 /\ d.opening
    BY <2>4, BegunEffect, DestroyedEffect
  <2>7. Settles /\ session' \in {d, Destroyed(d)}
    BY ONLY Inv, <2>1, <2>6, FailsEffect
  <2> HIDE DEF d
  <2>8. /\ Destroyed(d) \in Sessions /\ ~Destroyed(d).exists
        /\ Destroyed(d).held = <<>> /\ Destroyed(d).pending = <<>>
        /\ Destroyed(d).last = None /\ Destroyed(d).submitted = 0
        /\ Destroyed(d).epoch = d.epoch /\ Destroyed(d).opening = d.opening
    BY <2>6, DestroyedEffect
  <2>9. n.epoch \in Nat
    BY <1>2, HeldTypes
  <2>10. /\ session' \in Sessions /\ ~session'.exists /\ session'.held = <<>>
         /\ session'.pending = <<>> /\ session'.last = None
         /\ session'.submitted = 0 /\ session'.epoch = d.epoch
         /\ session'.opening = d.opening
    BY <2>6, <2>7, <2>8
  <2>11. session.epoch < d.epoch /\ d.epoch # session.epoch
    BY <1>1, <1>3, <2>5, <2>6, <2>9
  <2>12. Goes
    BY <1>1, <2>1, <2>6, <2>9, <2>10, <2>11, <2>5 DEF Goes
  <2> QED
    BY ONLY <2>2, <2>7, <2>10, <2>12
<1> QED
  BY <1>5, <1>6

LEMMA HeldEffect ==
  ASSUME Inv, NEW time \in Times, EncodeHeld(time)
  PROVE  Settles /\ session' \in Sessions /\ PassesGate(time) /\ Holds(time)
<1>1. Accepted(time, 0) /\ Encoded(WithPicture(time)) /\ UNCHANGED outputVars
  BY DEF EncodeHeld, WithPicture, Picture, Session
<1>2. PassesGate(time)
  BY ONLY Inv, time \in Times, <1>1, 0 \in {0, 1}, AcceptedEffect
<1>3. WithPicture(time) \in Sessions
  <2>1. encodedFrameIndex < MaxFrames /\ replay' \in BOOLEAN
    BY <1>2 DEF PassesGate
  <2> QED
    BY ONLY Inv, time \in Times, <2>1, PictureType
<1>4. Settles
  BY <1>1 DEF Inv, Typed, Encoded, Settles
<1>5. Holds(time)
  BY <1>1 DEF Encoded, Holds, outputVars, IndexFor
<1>6. session' \in Sessions
  BY <1>3, <1>5 DEF Holds
<1> QED
  BY <1>2, <1>4, <1>5, <1>6

(***************************************************************************)
(* What holds of a session holds of the one with the picture.              *)
(***************************************************************************)
\* The gate keeps the picture of before out.
LEMMA NoneOfBefore ==
  ASSUME Inv, NEW time \in Times, PassesGate(time), ~overlapped
  PROVE  ~replay'
<1>1. renderPhase # "starting" /\ ShouldEncode /\ sensorActive
      /\ replay' = (replay /\ time = sourceTime) /\ IsAccepted(time)
  BY DEF PassesGate
<1>2. replay => GateHolds
  BY <1>1 DEF Inv, GateInv, ShowsBefore
<1> QED
  BY <1>1, <1>2 DEF GateHolds, IsAccepted

\* A time that goes back unseen is the one case in which a session goes on.
LEMMA SessionKeeps ==
  ASSUME Inv, NEW time \in Times, PassesGate(time)
  PROVE  LET n == Session(time)
         IN  /\ n \in Sessions /\ n.exists /\ Alive(n) /\ IsIssued(n, published)
             /\ Paired(n) /\ Ticking(n, encodedFrameIndex, lastTimestamp)
             /\ n.held = session.held \/ n.held = <<>>
             /\ ~missed' =>
                  /\ OneTimeline(n) /\ Timely(n, published) /\ n.submitted <= time
                  /\ n.last # None => n.last = time
<1> DEFINE n == Session(time)
<1>1. /\ session \in Sessions /\ Alive(session) /\ IsIssued(session, published)
      /\ Paired(session) /\ Ticking(session, encodedFrameIndex, lastTimestamp)
  BY DEF Inv, Typed, LifeInv, PairInv, ClockInv
<1>2. n \in Sessions /\ (Continues(n, session, time) \/ Renews(n, session))
  BY ONLY <1>1, time \in Times, Prepared DEF Session
<1> HIDE DEF n
<1>3. /\ n.exists /\ Alive(n) /\ IsIssued(n, published) /\ Paired(n)
      /\ Ticking(n, encodedFrameIndex, lastTimestamp)
      /\ n.held = session.held \/ n.held = <<>>
      /\ OneTimeline(session) => OneTimeline(n)
      /\ Timely(session, published) => Timely(n, published)
      /\ /\ session.last # None => session.submitted <= session.last
         /\ session.exists /\ session.last = None => session.submitted <= time
         => /\ n.submitted <= time
            /\ n.last # None => n.last = time
  BY ONLY <1>1, <1>2, time \in Times, PreparedKeeps
<1>4. ASSUME ~missed'
      PROVE  /\ OneTimeline(session) /\ Timely(session, published)
             /\ session.last # None => session.submitted <= session.last
             /\ session.exists /\ session.last = None => session.submitted <= time
  <2>1. ~missed /\ ~(session.exists /\ session.last = None /\ time < session.submitted)
    BY <1>4 DEF PassesGate
  <2>2. session.submitted \in Int /\ time \in Int
    BY <1>1, HeldTypes, SessionAssumption DEF Times
  <2> QED
    BY <2>1, <2>2 DEF Inv, TimeInv
<1> QED
  BY <1>2, <1>3, <1>4 DEF n

LEMMA PictureKeeps ==
  ASSUME Inv, NEW time \in Times, PassesGate(time)
  PROVE  LET m == WithPicture(time)
         IN  /\ m \in Sessions /\ m.exists /\ Len(m.held) >= 1
             /\ Alive(m) /\ IsIssued(m, published) /\ Paired(m)
             /\ Ticking(m, encodedFrameIndex + 1, lastTimestamp)
             /\ ~overlapped => \A i \in 1..Len(m.held) : ~m.held[i].dormant
             /\ ~missed' =>
                  /\ OneTimeline(m) /\ Timely(m, published)
                  /\ m.last # None => m.submitted <= m.last
<1> DEFINE n == Session(time)
           f == Picture(time)
           m == WithPicture(time)
<1>1. /\ n \in Sessions /\ n.exists /\ Alive(n) /\ IsIssued(n, published)
      /\ Paired(n) /\ Ticking(n, encodedFrameIndex, lastTimestamp)
      /\ n.held = session.held \/ n.held = <<>>
      /\ ~missed' =>
           /\ OneTimeline(n) /\ Timely(n, published) /\ n.submitted <= time
           /\ n.last # None => n.last = time
  BY ONLY Inv, time \in Times, PassesGate(time), SessionKeeps
<1>2. /\ f \in FramesOfNVENC /\ f.timestamp = encodedFrameIndex /\ f.time = time
      /\ f.dormant = replay'
  <2>1. encodedFrameIndex < MaxFrames /\ replay' \in BOOLEAN
    BY DEF PassesGate
  <2> QED
    BY ONLY Inv, time \in Times, <2>1, PictureType
<1>3. m = Submitted(n, f)
  BY DEF WithPicture
<1>4. lastTimestamp # None => lastTimestamp \in Int
  BY DEF Inv, ClockInv
<1>5. published # None => published.time \in Int
  BY SessionAssumption DEF Inv, LifeInv, IsIssued, Times
<1>6. time \in Int
  BY SessionAssumption DEF Times
<1> HIDE DEF n, f, m
<1>7. /\ m \in Sessions /\ m.exists = n.exists /\ m.last = n.last
      /\ m.ever = n.ever /\ m.epoch = n.epoch /\ m.opening = n.opening
      /\ m.submitted = f.time /\ m.held = Append(n.held, f)
      /\ m.pending = Append(n.pending, Metadata(f))
  BY ONLY <1>1, <1>2, <1>3, SubmittedEffect
<1>8. Len(m.held) >= 1
  BY <1>1, <1>2, <1>7, HeldTypes, AppendProperties
<1>9. /\ Paired(m) /\ Ticking(m, f.timestamp + 1, lastTimestamp)
      /\ OneTimeline(n) /\ n.submitted <= f.time => OneTimeline(m)
      /\ Timely(n, published) /\ n.submitted <= f.time => Timely(m, published)
      /\ (\A i \in 1..Len(n.held) : ~n.held[i].dormant) /\ ~f.dormant
           => \A i \in 1..Len(m.held) : ~m.held[i].dormant
  <2>1. Ticking(n, f.timestamp, lastTimestamp)
    BY <1>1, <1>2
  <2> QED
    BY ONLY <1>1, <1>2, <1>3, <1>4, <1>5, <2>1, SubmittedKeeps
<1>10. Alive(m) /\ IsIssued(m, published)
  BY <1>1, <1>7 DEF Alive, IsIssued
<1>11. ASSUME ~overlapped PROVE \A i \in 1..Len(m.held) : ~m.held[i].dormant
  <2>1. ~f.dormant
    <3>1. ~replay'
      BY ONLY Inv, time \in Times, PassesGate(time), <1>11, NoneOfBefore
    <3> QED
      BY <1>2, <3>1
  <2>2. \A i \in 1..Len(session.held) : ~session.held[i].dormant
    BY <1>11 DEF Inv, DormantInv
  <2>3. \A i \in 1..Len(n.held) : ~n.held[i].dormant
    BY <1>1, <2>2, NothingHeld
  <2> QED
    BY <1>9, <2>1, <2>3
<1>12. ASSUME ~missed'
       PROVE  /\ OneTimeline(m) /\ Timely(m, published)
              /\ m.last # None => m.submitted <= m.last
  BY <1>1, <1>2, <1>6, <1>7, <1>9, <1>12
<1>13. Ticking(m, encodedFrameIndex + 1, lastTimestamp)
  BY <1>2, <1>9
<1> QED
  BY <1>1, <1>7, <1>8, <1>9, <1>10, <1>11, <1>12, <1>13 DEF m

LEMMA LeavesEffect ==
  ASSUME Inv, NEW time \in Times, PassesGate(time), NEW opening \in BOOLEAN,
         NEW force \in BOOLEAN, Leaves(time, opening, force)
  PROVE  /\ session' \in Sessions
         /\ LET m == WithPicture(time)
                oldest == m.held[1]
            IN  /\ m \in Sessions /\ Len(m.held) >= 1 /\ IsIssued(m, published)
                /\ oldest \in FramesOfNVENC
                /\ session'.epoch = m.epoch /\ session'.opening = opening
                /\ Alive(session)' /\ Paired(session)'
                /\ Ticking(session', encodedFrameIndex + 1, oldest.timestamp)
                /\ Ticking(session', encodedFrameIndex + 1, lastTimestamp)
                /\ lastTimestamp # None => lastTimestamp < oldest.timestamp
                /\ ~overlapped => /\ ~oldest.dormant
                                  /\ \A i \in 1..Len(session'.held) : ~session'.held[i].dormant
                /\ ~missed' =>
                     /\ OneTimeline(session)' /\ Timely(m, published)
                     /\ session'.exists => oldest.time <= session'.submitted
                     /\ \A i \in 1..Len(session'.held) : oldest.time <= session'.held[i].time
                     /\ session'.last # None => session'.submitted <= session'.last
                     /\ published # None /\ published.epoch = m.epoch
                          => published.time <= oldest.time
<1> DEFINE m == WithPicture(time)
           oldest == m.held[1]
           r == session'
<1>1. /\ m \in Sessions /\ m.exists /\ Len(m.held) >= 1
      /\ Alive(m) /\ IsIssued(m, published) /\ Paired(m)
      /\ Ticking(m, encodedFrameIndex + 1, lastTimestamp)
      /\ ~overlapped => \A i \in 1..Len(m.held) : ~m.held[i].dormant
      /\ ~missed' =>
           /\ OneTimeline(m) /\ Timely(m, published)
           /\ m.last # None => m.submitted <= m.last
  BY ONLY Inv, time \in Times, PassesGate(time), PictureKeeps
<1>2. encodedFrameIndex + 1 \in Int
  BY DEF Inv, Typed
<1>3. r \in {WithoutOldest(m, opening, force), Destroyed(WithoutOldest(m, opening, force))}
  BY DEF Leaves
<1> HIDE DEF m, r
<1>4. /\ r \in Sessions /\ r.epoch = m.epoch /\ r.opening = opening
      /\ Alive(r) /\ Paired(r)
      /\ Ticking(r, encodedFrameIndex + 1, m.held[1].timestamp)
      /\ Ticking(r, encodedFrameIndex + 1, lastTimestamp)
      /\ m.held[1] \in FramesOfNVENC
      /\ lastTimestamp # None => lastTimestamp < m.held[1].timestamp
      /\ r.last # None => r.last = m.last /\ r.submitted = m.submitted
      /\ OneTimeline(m) => /\ OneTimeline(r)
                           /\ r.exists => m.held[1].time <= r.submitted
                           /\ \A i \in 1..Len(r.held) : m.held[1].time <= r.held[i].time
      /\ (\A i \in 1..Len(m.held) : ~m.held[i].dormant)
           => \A i \in 1..Len(r.held) : ~r.held[i].dormant
  BY ONLY <1>1, <1>2, <1>3, opening \in BOOLEAN, force \in BOOLEAN, OldestGone
<1>5. 1 \in 1..Len(m.held)
  BY <1>1, HeldTypes
<1>6. ~overlapped => ~m.held[1].dormant
  BY <1>1, <1>5
<1>7. Timely(m, published) /\ published # None /\ published.epoch = m.epoch
        => published.time <= m.held[1].time
  BY <1>1, <1>5 DEF Timely
<1>8. Alive(r) /\ Paired(r) /\ (OneTimeline(m) => OneTimeline(r))
  BY ONLY <1>4
<1>9. Alive(session)' /\ Paired(session)' /\ (OneTimeline(m) => OneTimeline(session)')
  BY ONLY <1>8 DEF r, Alive, Paired, OneTimeline
<1> QED
  BY <1>1, <1>4, <1>6, <1>7, <1>9 DEF m, r

LEMMA OutputEffect ==
  ASSUME Inv, NEW time \in Times, EncodeOutput(time)
  PROVE  /\ Settles /\ session' \in Sessions /\ PassesGate(time)
         /\ \E opening \in BOOLEAN, force \in BOOLEAN : PutsOut(time, opening, force)
<1> DEFINE m == WithPicture(time)
           found == TakePending(m.pending, m.held[1].timestamp)
<1>1. lastTimestamp' = m.held[1].timestamp
  BY DEF EncodeOutput, WithPicture, Picture, Session
<1>2. PICK unit \in AccessUnits, failures \in {0, 1} :
        LET key == IsKeyframe(SplitAnnexB(AnnexB(unit)))
            opening == m.opening /\ ~(rosConsumersActive /\ key)
            force == rosConsumersActive /\ m.opening /\ ~key
        IN  /\ Accepted(time, failures)
            /\ output' = [frame |-> m.held[1], metadata |-> m.pending[found],
                          unit |-> unit]
            /\ published' = IF IsPublished(m, key)
                              THEN [epoch |-> m.epoch, time |-> m.pending[found].time]
                              ELSE published
            /\ \/ Encoded(WithoutFrame(m, found, opening, force))
               \/ SendFails(WithoutFrame(m, found, opening, TRUE))
  BY DEF EncodeOutput, WithPicture, Picture, Session
<1> DEFINE key == IsKeyframe(SplitAnnexB(AnnexB(unit)))
           opening == m.opening /\ ~(rosConsumersActive /\ key)
           force == rosConsumersActive /\ m.opening /\ ~key
<1>3. PassesGate(time)
  BY ONLY Inv, time \in Times, failures \in {0, 1}, <1>2, AcceptedEffect
<1>4. m \in Sessions /\ Len(m.held) >= 1 /\ Paired(m)
  BY ONLY Inv, time \in Times, <1>3, PictureKeeps
<1>5. found = 1 /\ m.pending[1] = Metadata(m.held[1])
  BY ONLY <1>4, OldestIsFirst
<1>6. opening \in BOOLEAN /\ force \in BOOLEAN
  OBVIOUS
<1>7. \/ Encoded(WithoutFrame(m, found, opening, force))
      \/ SendFails(WithoutFrame(m, found, opening, TRUE))
  BY <1>2
<1>8. output' \in [frame : {m.held[1]}, metadata : {Metadata(m.held[1])},
                   unit : AccessUnits]
  BY <1>2, <1>5
<1>9. \/ UNCHANGED published /\ (opening => m.opening)
      \/ published' = [epoch |-> m.epoch, time |-> m.held[1].time] /\ ~opening
  <2>1. m.pending[1].time = m.held[1].time
    BY <1>5 DEF Metadata
  <2> HIDE DEF m, key
  <2> QED
    BY <1>2, <1>5, <2>1 DEF IsPublished, key
<1> HIDE DEF m, found, opening, force
<1>10. WithoutFrame(m, found, opening, force) = WithoutOldest(m, opening, force)
  BY ONLY <1>5 DEF WithoutFrame, WithoutOldest
<1>11. WithoutFrame(m, found, opening, TRUE) = WithoutOldest(m, opening, TRUE)
  BY ONLY <1>5 DEF WithoutFrame, WithoutOldest
<1>12. Ticking(m, encodedFrameIndex + 1, lastTimestamp)
  BY ONLY Inv, time \in Times, <1>3, PictureKeeps DEF m
<1>13. encodedFrameIndex + 1 \in Int
  BY DEF Inv, Typed
<1>14. \E any \in BOOLEAN :
         /\ Settles /\ Leaves(time, opening, any)
  <2>1. CASE Encoded(WithoutOldest(m, opening, force))
    <3>1. Settles
      BY <2>1 DEF Inv, Typed, Encoded, Settles
    <3>2. Leaves(time, opening, force)
      BY ONLY <2>1 DEF Encoded, IndexFor, Leaves, m
    <3> QED
      BY ONLY <1>6, <3>1, <3>2
  <2>2. CASE SendFails(WithoutOldest(m, opening, TRUE))
    <3>1. WithoutOldest(m, opening, TRUE) \in Sessions
      BY ONLY <1>4, <1>6, <1>12, <1>13, TRUE \in BOOLEAN, OldestLeaves
    <3>2. Fails(WithoutOldest(m, opening, TRUE)) /\ encodedFrameIndex' = encodedFrameIndex + 1
      BY ONLY <2>2 DEF SendFails, IndexFor
    <3>3. /\ Settles
          /\ session' \in {WithoutOldest(m, opening, TRUE),
                           Destroyed(WithoutOldest(m, opening, TRUE))}
      BY ONLY Inv, <3>1, <3>2, FailsEffect
    <3>4. Leaves(time, opening, TRUE)
      BY ONLY <3>2, <3>3 DEF Leaves, m
    <3> QED
      BY ONLY <3>3, <3>4
  <2> QED
    BY ONLY <1>7, <1>10, <1>11, <2>1, <2>2
<1>15. PICK any \in BOOLEAN : Settles /\ Leaves(time, opening, any)
  BY ONLY <1>14
<1>16. PutsOut(time, opening, any)
  BY ONLY <1>1, <1>8, <1>9, <1>15 DEF PutsOut, m
<1>17. session' \in Sessions
  BY ONLY Inv, time \in Times, <1>3, <1>6, <1>15, any \in BOOLEAN, LeavesEffect
<1> QED
  BY ONLY <1>3, <1>6, <1>15, <1>16, <1>17

LEMMA LostEffect ==
  ASSUME Inv, NEW time \in Times, EncodeLost(time)
  PROVE  Settles /\ session' \in Sessions /\ PassesGate(time) /\ Loses(time)
<1> DEFINE m == WithPicture(time)
           found == TakePending(m.pending, m.held[1].timestamp)
<1>1. /\ Accepted(time, 1) /\ SendFails(WithoutFrame(m, found, m.opening, FALSE))
      /\ UNCHANGED outputVars
  BY DEF EncodeLost, WithPicture, Picture, Session
<1>2. PassesGate(time)
  BY ONLY Inv, time \in Times, <1>1, 1 \in {0, 1}, AcceptedEffect
<1>3. /\ m \in Sessions /\ Len(m.held) >= 1 /\ Paired(m)
      /\ Ticking(m, encodedFrameIndex + 1, lastTimestamp)
  BY ONLY Inv, time \in Times, <1>2, PictureKeeps
<1>4. found = 1
  BY ONLY <1>3, OldestIsFirst
<1> HIDE DEF m, found
<1>5. WithoutFrame(m, found, m.opening, FALSE) = WithoutOldest(m, m.opening, FALSE)
  BY ONLY <1>4 DEF WithoutFrame, WithoutOldest
<1>6. m.opening \in BOOLEAN /\ FALSE \in BOOLEAN /\ encodedFrameIndex + 1 \in Int
  BY <1>3 DEF Sessions, Inv, Typed
<1>7. WithoutOldest(m, m.opening, FALSE) \in Sessions
  BY ONLY <1>3, <1>6, OldestLeaves
<1>8. /\ Fails(WithoutOldest(m, m.opening, FALSE))
      /\ encodedFrameIndex' = encodedFrameIndex + 1
  BY ONLY <1>1, <1>5 DEF SendFails, IndexFor
<1>9. /\ Settles
      /\ session' \in {WithoutOldest(m, m.opening, FALSE),
                       Destroyed(WithoutOldest(m, m.opening, FALSE))}
  BY ONLY Inv, <1>7, <1>8, FailsEffect
<1>10. Leaves(time, m.opening, FALSE)
  BY ONLY <1>8, <1>9 DEF Leaves, m
<1>11. Loses(time)
  BY ONLY <1>1, <1>10 DEF Loses, outputVars, m
<1>12. session' \in Sessions
  BY ONLY Inv, time \in Times, <1>2, <1>6, <1>10, LeavesEffect
<1> QED
  BY ONLY <1>2, <1>9, <1>11, <1>12

(***************************************************************************)
(* What holds of a session, for each thing that may become of it.          *)
(***************************************************************************)
LEMMA StaysKeeps ==
  ASSUME Inv, Stays, missed => missed', overlapped => overlapped'
  PROVE  DormantInv' /\ PairInv' /\ ClockInv' /\ LifeInv' /\ TimeInv'
<1>1. /\ session'.exists = session.exists /\ session'.held = session.held
      /\ session'.pending = session.pending /\ session'.last = session.last
      /\ session'.submitted = session.submitted /\ session'.ever = session.ever
      /\ \/ session'.epoch = session.epoch /\ session'.opening = session.opening
         \/ session'.epoch = session.epoch + 1 /\ session'.opening
      /\ encodedFrameIndex' = encodedFrameIndex
      /\ lastTimestamp' = lastTimestamp /\ published' = published
      /\ output' = output \/ output' = NoOutput
  BY DEF Stays, OutputStays
<1>2. output'.frame = None \/ output' = output
  BY <1>1 DEF NoOutput
<1>3. session.epoch \in Nat
  BY HeldTypes DEF Inv, Typed
<1>4. DormantInv'
  BY <1>1, <1>2 DEF Inv, DormantInv
<1>5. PairInv'
  BY <1>1, <1>2 DEF Inv, PairInv, Paired, OutputHasItsMetadata
<1>6. ClockInv'
  BY <1>1 DEF Inv, ClockInv, Ticking
<1>7. LifeInv'
  <2>1. Alive(session)'
    BY <1>1 DEF Inv, LifeInv, Alive
  <2>2. IsIssued(session, published)'
    BY <1>1, <1>3 DEF Inv, LifeInv, IsIssued
  <2> QED
    BY <2>1, <2>2 DEF LifeInv
<1>8. TimeInv'
  <2>1. published # None /\ published.epoch = session'.epoch
          => published.epoch = session.epoch
    BY <1>1, <1>3 DEF Inv, LifeInv, IsIssued
  <2>2. ~missed' => OneTimeline(session)' /\ Timely(session, published)'
    BY <1>1, <2>1 DEF Inv, TimeInv, OneTimeline, Timely
  <2> QED
    BY <1>1, <2>2 DEF Inv, TimeInv
<1> QED
  BY <1>4, <1>5, <1>6, <1>7, <1>8

LEMMA GoesKeeps ==
  ASSUME Inv, Goes, overlapped => overlapped'
  PROVE  DormantInv' /\ PairInv' /\ ClockInv' /\ LifeInv' /\ TimeInv'
<1>1. /\ ~session'.exists /\ session'.held = <<>> /\ session'.pending = <<>>
      /\ session'.last = None /\ session'.submitted = 0
      /\ ~session'.ever => session'.opening
      /\ session.epoch <= session'.epoch
      /\ session'.epoch = session.epoch /\ ~session.opening => ~session'.opening
      /\ encodedFrameIndex' = encodedFrameIndex
      /\ lastTimestamp' = lastTimestamp /\ published' = published
      /\ output' = output \/ output' = NoOutput
  BY DEF Goes, OutputStays
<1>2. output'.frame = None \/ output' = output
  BY <1>1 DEF NoOutput
<1>3. session.epoch \in Nat /\ session'.epoch \in Nat
  BY HeldTypes DEF Inv, Typed, Goes, Sessions
<1>4. 1..Len(session'.held) = {} /\ Len(session'.held) = Len(session'.pending)
  BY <1>1, NothingHeld
<1>5. DormantInv'
  BY <1>2, <1>4 DEF Inv, DormantInv
<1>6. PairInv'
  BY <1>2, <1>4 DEF Inv, PairInv, Paired, OutputHasItsMetadata
<1>7. ClockInv'
  BY <1>1, <1>4 DEF Inv, ClockInv, Ticking
<1>8. LifeInv'
  <2>1. IsIssued(session, published)'
    BY <1>1, <1>3 DEF Inv, LifeInv, IsIssued
  <2> QED
    BY <1>1, <2>1 DEF LifeInv, Alive
<1>9. TimeInv'
  BY <1>1, <1>4 DEF TimeInv, OneTimeline, Timely
<1> QED
  BY <1>5, <1>6, <1>7, <1>8, <1>9

LEMMA LooksKeeps ==
  ASSUME Inv, NEW time \in Times, PassesGate(time), Looks(time),
         overlapped => overlapped'
  PROVE  DormantInv' /\ PairInv' /\ ClockInv' /\ LifeInv' /\ TimeInv'
<1> DEFINE n == Session(time)
<1>1. /\ n \in Sessions /\ n.exists /\ Alive(n) /\ IsIssued(n, published)
      /\ Paired(n) /\ Ticking(n, encodedFrameIndex, lastTimestamp)
      /\ n.held = session.held \/ n.held = <<>>
      /\ ~missed' =>
           /\ OneTimeline(n) /\ Timely(n, published) /\ n.submitted <= time
           /\ n.last # None => n.last = time
  BY ONLY Inv, time \in Times, PassesGate(time), SessionKeeps
<1>2. /\ session' = n /\ encodedFrameIndex' = encodedFrameIndex
      /\ lastTimestamp' = lastTimestamp /\ published' = published
      /\ output' = output \/ output' = NoOutput
  BY DEF Looks, OutputStays
<1> HIDE DEF n
<1>3. output'.frame = None \/ output' = output
  BY <1>2 DEF NoOutput
<1>4. DormantInv'
  BY <1>1, <1>2, <1>3, NothingHeld DEF Inv, DormantInv
<1>5. PairInv'
  BY <1>1, <1>2, <1>3 DEF Inv, PairInv, Paired, OutputHasItsMetadata
<1>6. ClockInv'
  BY <1>1, <1>2 DEF Inv, ClockInv, Ticking
<1>7. LifeInv'
  BY <1>1, <1>2 DEF LifeInv, Alive, IsIssued
<1>8. TimeInv'
  BY <1>1, <1>2 DEF TimeInv, OneTimeline, Timely
<1> QED
  BY <1>4, <1>5, <1>6, <1>7, <1>8

LEMMA HoldsKeeps ==
  ASSUME Inv, NEW time \in Times, PassesGate(time), Holds(time),
         overlapped => overlapped'
  PROVE  DormantInv' /\ PairInv' /\ ClockInv' /\ LifeInv' /\ TimeInv'
<1> DEFINE m == WithPicture(time)
<1>1. /\ m \in Sessions /\ m.exists /\ Len(m.held) >= 1
      /\ Alive(m) /\ IsIssued(m, published) /\ Paired(m)
      /\ Ticking(m, encodedFrameIndex + 1, lastTimestamp)
      /\ ~overlapped => \A i \in 1..Len(m.held) : ~m.held[i].dormant
      /\ ~missed' =>
           /\ OneTimeline(m) /\ Timely(m, published)
           /\ m.last # None => m.submitted <= m.last
  BY ONLY Inv, time \in Times, PassesGate(time), PictureKeeps
<1>2. /\ session' = m /\ encodedFrameIndex' = encodedFrameIndex + 1
      /\ lastTimestamp' = lastTimestamp /\ published' = published
      /\ output' = output
  BY DEF Holds
<1> HIDE DEF m
<1>3. DormantInv'
  BY <1>1, <1>2 DEF Inv, DormantInv
<1>4. PairInv'
  BY <1>1, <1>2 DEF Inv, PairInv, Paired, OutputHasItsMetadata
<1>5. ClockInv'
  BY <1>1, <1>2 DEF Inv, ClockInv, Ticking
<1>6. LifeInv'
  BY <1>1, <1>2 DEF LifeInv, Alive, IsIssued
<1>7. TimeInv'
  BY <1>1, <1>2 DEF TimeInv, OneTimeline, Timely
<1> QED
  BY <1>3, <1>4, <1>5, <1>6, <1>7

\* The one thing that publishes.
LEMMA PutsOutKeeps ==
  ASSUME Inv, NEW time \in Times, PassesGate(time), NEW opening \in BOOLEAN,
         NEW force \in BOOLEAN, PutsOut(time, opening, force),
         overlapped => overlapped'
  PROVE  /\ DormantInv' /\ PairInv' /\ ClockInv' /\ LifeInv' /\ TimeInv'
         /\ lastTimestamp # None => lastTimestamp' > lastTimestamp
         /\ ~missed' /\ published' # published /\ published # None
              /\ published'.epoch = published.epoch
            => published'.time >= published.time
<1> DEFINE m == WithPicture(time)
           oldest == m.held[1]
<1>1. /\ m \in Sessions /\ Len(m.held) >= 1 /\ IsIssued(m, published)
      /\ oldest \in FramesOfNVENC /\ session' \in Sessions
      /\ session'.epoch = m.epoch /\ session'.opening = opening
      /\ Alive(session)' /\ Paired(session)'
      /\ Ticking(session', encodedFrameIndex + 1, oldest.timestamp)
      /\ lastTimestamp # None => lastTimestamp < oldest.timestamp
      /\ ~overlapped => /\ ~oldest.dormant
                        /\ \A i \in 1..Len(session'.held) : ~session'.held[i].dormant
      /\ ~missed' =>
           /\ OneTimeline(session)' /\ Timely(m, published)
           /\ session'.exists => oldest.time <= session'.submitted
           /\ \A i \in 1..Len(session'.held) : oldest.time <= session'.held[i].time
           /\ session'.last # None => session'.submitted <= session'.last
           /\ published # None /\ published.epoch = m.epoch
                => published.time <= oldest.time
  <2>1. Leaves(time, opening, force)
    BY DEF PutsOut
  <2> QED
    BY ONLY Inv, time \in Times, PassesGate(time), opening \in BOOLEAN,
            force \in BOOLEAN, <2>1, LeavesEffect
<1>2. /\ encodedFrameIndex' = encodedFrameIndex + 1
      /\ output'.frame = oldest /\ output'.metadata = Metadata(oldest)
      /\ lastTimestamp' = oldest.timestamp
      /\ \/ published' = published /\ (opening => m.opening)
         \/ published' = [epoch |-> m.epoch, time |-> oldest.time] /\ ~opening
  BY DEF PutsOut, Leaves
<1> HIDE DEF m, oldest
<1>5. /\ oldest.timestamp \in Nat /\ oldest.time \in Times /\ oldest.time \in Int
      /\ m.epoch \in Nat /\ session'.submitted \in Int
      /\ lastTimestamp # None => lastTimestamp \in Int
      /\ published # None => published.epoch \in Nat /\ published.time \in Int
  <2>1. oldest.timestamp \in Nat /\ oldest.time \in Times /\ oldest.time \in Int
    BY <1>1, SessionAssumption DEF FramesOfNVENC, Times
  <2>2. m.epoch \in Nat
    BY <1>1, HeldTypes
  <2>3. session'.submitted \in Int
    BY <1>1, SessionAssumption DEF Sessions, Times
  <2>4. lastTimestamp # None => lastTimestamp \in Int
    BY DEF Inv, ClockInv
  <2>5. published # None => published.epoch \in Nat /\ published.time \in Int
    BY <1>1, SessionAssumption DEF IsIssued, Times
  <2> QED
    BY <2>1, <2>2, <2>3, <2>4, <2>5
<1>7. DormantInv'
  BY <1>1, <1>2 DEF DormantInv
<1>8. PairInv'
  BY <1>1, <1>2 DEF PairInv, OutputHasItsMetadata
<1>9. ClockInv'
  <2>1. Ticking(session', encodedFrameIndex', lastTimestamp')
    BY ONLY <1>1, <1>2
  <2>2. Ticking(session, encodedFrameIndex, lastTimestamp)'
    BY ONLY <2>1 DEF Ticking
  <2> QED
    BY <1>2, <1>5, <2>2 DEF ClockInv
<1>10. LifeInv'
  <2>1. IsIssued(session', published')
    <3>1. CASE published' = published /\ (opening => m.opening)
      BY <1>1, <1>2, <3>1 DEF IsIssued
    <3>2. CASE published' = [epoch |-> m.epoch, time |-> oldest.time] /\ ~opening
      BY <1>1, <1>2, <1>5, <3>2 DEF IsIssued
    <3> QED
      BY <1>2, <3>1, <3>2
  <2>2. IsIssued(session, published)'
    BY ONLY <2>1 DEF IsIssued
  <2> QED
    BY <1>1, <2>2 DEF LifeInv
<1>12. TimeInv'
  <2> SUFFICES ASSUME ~missed'
               PROVE  /\ OneTimeline(session)' /\ Timely(session, published)'
                      /\ (session.last # None => session.submitted <= session.last)'
    BY DEF TimeInv
  <2>1. /\ OneTimeline(session)'
        /\ session'.last # None => session'.submitted <= session'.last
        /\ session'.exists => oldest.time <= session'.submitted
        /\ \A i \in 1..Len(session'.held) : oldest.time <= session'.held[i].time
    BY <1>1
  <2>2. ASSUME published' # None, published'.epoch = session'.epoch
        PROVE  published'.time <= oldest.time /\ published'.time \in Int
    BY <1>1, <1>2, <1>5, <2>2
  <2>3. \A i \in 1..Len(session'.held) : session'.held[i].time \in Int
    BY <1>1, HeldTypes
  <2>4. ASSUME published' # None, published'.epoch = session'.epoch, session'.exists
        PROVE  /\ published'.time <= session'.submitted
               /\ \A i \in 1..Len(session'.held) : published'.time <= session'.held[i].time
    BY <1>5, <2>1, <2>2, <2>3, <2>4
  <2>5. Timely(session, published)'
    BY ONLY <2>4 DEF Timely
  <2> QED
    BY <2>1, <2>5
<1>13. lastTimestamp # None => lastTimestamp' > lastTimestamp
  BY <1>1, <1>2, <1>5
<1>14. ~missed' /\ published' # published /\ published # None
         /\ published'.epoch = published.epoch => published'.time >= published.time
  BY <1>1, <1>2, <1>5
<1> QED
  BY <1>7, <1>8, <1>9, <1>10, <1>12, <1>13, <1>14

LEMMA LosesKeeps ==
  ASSUME Inv, NEW time \in Times, PassesGate(time), Loses(time),
         overlapped => overlapped'
  PROVE  DormantInv' /\ PairInv' /\ ClockInv' /\ LifeInv' /\ TimeInv'
<1> DEFINE m == WithPicture(time)
           oldest == m.held[1]
<1>1. m.opening \in BOOLEAN /\ FALSE \in BOOLEAN
  <2>1. m \in Sessions
    BY ONLY Inv, time \in Times, PassesGate(time), PictureKeeps
  <2> QED
    BY <2>1 DEF Sessions
<1>2. /\ Leaves(time, m.opening, FALSE)
      /\ encodedFrameIndex' = encodedFrameIndex + 1
      /\ output' = output /\ lastTimestamp' = lastTimestamp
      /\ published' = published
  BY DEF Loses, Leaves
<1>3. /\ m \in Sessions /\ Len(m.held) >= 1 /\ IsIssued(m, published)
      /\ oldest \in FramesOfNVENC /\ session' \in Sessions
      /\ session'.epoch = m.epoch /\ session'.opening = m.opening
      /\ Alive(session)' /\ Paired(session)'
      /\ Ticking(session', encodedFrameIndex + 1, lastTimestamp)
      /\ lastTimestamp # None => lastTimestamp < oldest.timestamp
      /\ ~overlapped => /\ ~oldest.dormant
                        /\ \A i \in 1..Len(session'.held) : ~session'.held[i].dormant
      /\ ~missed' =>
           /\ OneTimeline(session)' /\ Timely(m, published)
           /\ session'.exists => oldest.time <= session'.submitted
           /\ \A i \in 1..Len(session'.held) : oldest.time <= session'.held[i].time
           /\ session'.last # None => session'.submitted <= session'.last
           /\ published # None /\ published.epoch = m.epoch
                => published.time <= oldest.time
  BY ONLY Inv, time \in Times, PassesGate(time), <1>1, <1>2, LeavesEffect
<1> HIDE DEF m, oldest
<1>4. /\ oldest.timestamp \in Int /\ oldest.time \in Int
      /\ session'.submitted \in Int
      /\ published # None => published.time \in Int
  <2>1. oldest.timestamp \in Int /\ oldest.time \in Int
    BY <1>3, SessionAssumption DEF FramesOfNVENC, Times
  <2>2. session'.submitted \in Int
    BY <1>3, SessionAssumption DEF Sessions, Times
  <2>3. published # None => published.time \in Int
    BY <1>3, SessionAssumption DEF IsIssued, Times
  <2> QED
    BY <2>1, <2>2, <2>3
<1>5. DormantInv'
  BY <1>2, <1>3 DEF Inv, DormantInv
<1>6. PairInv'
  BY <1>2, <1>3 DEF Inv, PairInv, OutputHasItsMetadata
<1>7. \A i \in 1..Len(session'.held) :
        session'.held[i].time \in Int
  BY <1>3, HeldTypes
<1>8. ClockInv'
  <2>1. Ticking(session', encodedFrameIndex', lastTimestamp')
    BY ONLY <1>2, <1>3
  <2>2. Ticking(session, encodedFrameIndex, lastTimestamp)'
    BY ONLY <2>1 DEF Ticking
  <2> QED
    BY <1>2, <2>2 DEF Inv, ClockInv
<1>9. LifeInv'
  <2>1. IsIssued(session, published)'
    BY <1>2, <1>3 DEF IsIssued
  <2> QED
    BY <1>3, <2>1 DEF LifeInv
<1>10. TimeInv'
  <2> SUFFICES ASSUME ~missed'
               PROVE  /\ OneTimeline(session)' /\ Timely(session, published)'
                      /\ (session.last # None => session.submitted <= session.last)'
    BY DEF TimeInv
  <2>1. ASSUME published # None, published.epoch = session'.epoch, session'.exists
        PROVE  /\ published.time <= session'.submitted
               /\ \A i \in 1..Len(session'.held) : published.time <= session'.held[i].time
    BY <1>3, <1>4, <1>7, <2>1
  <2>2. Timely(session, published)'
    BY ONLY <1>2, <2>1 DEF Timely
  <2> QED
    BY <1>3, <2>2
<1> QED
  BY <1>5, <1>6, <1>8, <1>9, <1>10

(***************************************************************************)
(* What a step makes of the session, of the types and of the gate.         *)
(***************************************************************************)
Encodes(time) ==
  \/ EncodeNotSubmitted(time) \/ EncodeBreaks(time) \/ EncodeHeld(time)
  \/ EncodeOutput(time) \/ EncodeLost(time)
\* What becomes of the session in an encode.
Treats(time) ==
  \/ Looks(time) \/ Holds(time) \/ Loses(time)
  \/ \E opening \in BOOLEAN, force \in BOOLEAN : PutsOut(time, opening, force)

LEMMA EncodeEffect ==
  ASSUME Inv, NEW time \in Times, Encodes(time)
  PROVE  /\ Settles /\ session' \in Sessions /\ PassesGate(time)
         /\ Stays \/ Goes \/ Treats(time)
<1>1. CASE EncodeNotSubmitted(time) \/ EncodeBreaks(time)
  <2>1. /\ Settles /\ session' \in Sessions /\ PassesGate(time)
        /\ Stays \/ Goes \/ Looks(time)
    BY ONLY Inv, time \in Times, <1>1, BreaksEffect
  <2> QED
    BY ONLY <2>1 DEF Treats
<1>2. CASE EncodeHeld(time)
  <2>1. Settles /\ session' \in Sessions /\ PassesGate(time) /\ Holds(time)
    BY ONLY Inv, time \in Times, <1>2, HeldEffect
  <2> QED
    BY ONLY <2>1 DEF Treats
<1>3. CASE EncodeOutput(time)
  <2>1. /\ Settles /\ session' \in Sessions /\ PassesGate(time)
        /\ \E opening \in BOOLEAN, force \in BOOLEAN : PutsOut(time, opening, force)
    BY ONLY Inv, time \in Times, <1>3, OutputEffect
  <2> QED
    BY ONLY <2>1 DEF Treats
<1>4. CASE EncodeLost(time)
  <2>1. Settles /\ session' \in Sessions /\ PassesGate(time) /\ Loses(time)
    BY ONLY Inv, time \in Times, <1>4, LostEffect
  <2> QED
    BY ONLY <2>1 DEF Treats
<1> QED
  BY <1>1, <1>2, <1>3, <1>4 DEF Encodes

\* Nothing clears the histories.
LEMMA HistoryStays ==
  ASSUME Inv, [Next]_vars
  PROVE  (missed => missed') /\ (overlapped => overlapped')
<1>1. CASE UNCHANGED vars
  BY <1>1 DEF vars
<1>2. ASSUME NEW active \in BOOLEAN, TakeCommand(active)
      PROVE  (missed => missed') /\ (overlapped => overlapped')
  BY <1>2 DEF TakeCommand
<1>3. CASE ApplyCommand \/ PostRenderIdle \/ Connect \/ ConnectLooks \/ Disconnect
  BY <1>3 DEF ApplyCommand, PostRenderIdle, Connect, ConnectLooks, Disconnect
<1>4. CASE ConnectActivates
  BY <1>4 DEF ConnectActivates
<1>7. CASE CaptureChanges
  BY <1>7 DEF CaptureChanges
<1>5. ASSUME NEW time \in Times, TargetIdle(time) \/ TargetDiscard(time) \/ TargetWait(time)
      PROVE  (missed => missed') /\ (overlapped => overlapped')
  BY <1>5 DEF TargetIdle, TargetDiscard, TargetWait
<1>6. ASSUME NEW time \in Times, Encodes(time)
      PROVE  (missed => missed') /\ (overlapped => overlapped')
  <2>1. Settles /\ PassesGate(time)
    BY ONLY Inv, time \in Times, <1>6, EncodeEffect
  <2> QED
    BY <2>1 DEF Settles, PassesGate
<1> QED
  BY <1>1, <1>2, <1>3, <1>4, <1>5, <1>6, <1>7 DEF Next, Target, Times, Encodes

LEMMA SessionStep ==
  ASSUME Inv, [Next]_vars
  PROVE  /\ session' \in Sessions
         /\ \/ Stays \/ Goes
            \/ \E time \in Times : PassesGate(time) /\ Treats(time)
<1>s. session \in Sessions /\ Alive(session) /\ desiredActive \in BOOLEAN
  BY DEF Inv, Typed, LifeInv
<1>1. CASE session' = session /\ UNCHANGED <<encodedFrameIndex, lastTimestamp, published>>
             /\ (output' = output \/ output' = NoOutput)
  BY <1>1, <1>s DEF Stays, OutputStays
<1>2. CASE UNCHANGED vars
  BY <1>1, <1>2 DEF vars, outputVars
<1>3. ASSUME NEW active \in BOOLEAN, TakeCommand(active)
      PROVE  session' \in Sessions /\ Stays
  <2> DEFINE force == session.force \/ (active /\ ~desiredActive)
  <2>1. force \in BOOLEAN /\ session' = [session EXCEPT !.force = force] /\ OutputStays
    BY <1>3, <1>s DEF TakeCommand, OutputStays, Sessions
  <2> HIDE DEF force
  <2>2. /\ session' \in Sessions /\ session'.exists = session.exists
        /\ session'.held = session.held /\ session'.pending = session.pending
        /\ session'.last = session.last /\ session'.ever = session.ever
        /\ session'.submitted = session.submitted
        /\ session'.epoch = session.epoch /\ session'.opening = session.opening
    BY ONLY <1>s, <2>1, ForcedEffect
  <2> QED
    BY <2>1, <2>2 DEF Stays
<1>4. CASE ApplyCommand \/ PostRenderIdle
  BY <1>1, <1>4 DEF ApplyCommand, PostRenderIdle, outputVars
<1>5. CASE ConnectLooks \/ ConnectActivates \/ Disconnect \/ CaptureChanges
  BY <1>1, <1>5 DEF ConnectLooks, ConnectActivates, Disconnect, CaptureChanges, outputVars
<1>6. CASE Connect
  <2>1. session' = EpochBegun(session) /\ OutputStays
    BY <1>6 DEF Connect, outputVars, OutputStays
  <2> QED
    BY <1>s, <2>1, BegunEffect DEF Stays
<1>7. ASSUME NEW time \in Times, TargetIdle(time)
      PROVE  session' \in Sessions /\ (Stays \/ Goes)
  <2>1. session' \in {session, Destroyed(session)} /\ OutputStays
    BY <1>7 DEF TargetIdle, outputVars, OutputStays
  <2>2. CASE session' = session
    BY <1>s, <2>1, <2>2 DEF Stays
  <2>3. CASE session' = Destroyed(session)
    BY <1>s, <2>1, <2>3, DestroyedEffect, HeldTypes DEF Goes, Alive
  <2> QED
    BY <2>1, <2>2, <2>3
<1>8. ASSUME NEW time \in Times, TargetDiscard(time)
      PROVE  session' \in Sessions /\ Goes
  <2> DEFINE d == Destroyed(session)
  <2>1. session' = [d EXCEPT !.force = TRUE] /\ OutputStays
    BY <1>8 DEF TargetDiscard, outputVars, OutputStays
  <2>2. /\ d \in Sessions /\ ~d.exists /\ d.held = <<>> /\ d.pending = <<>>
        /\ d.last = None /\ d.submitted = 0 /\ d.ever = session.ever
        /\ d.epoch = session.epoch /\ d.opening = session.opening
    BY ONLY <1>s, DestroyedEffect
  <2> HIDE DEF d
  <2>3. /\ session' \in Sessions /\ session'.exists = d.exists
        /\ session'.held = d.held /\ session'.pending = d.pending
        /\ session'.last = d.last /\ session'.ever = d.ever
        /\ session'.submitted = d.submitted
        /\ session'.epoch = d.epoch /\ session'.opening = d.opening
    <3>1. TRUE \in BOOLEAN
      OBVIOUS
    <3> QED
      BY ONLY <2>1, <2>2, <3>1, ForcedEffect
  <2>4. session.epoch <= session'.epoch
    BY <1>s, <2>2, <2>3, HeldTypes
  <2> QED
    BY <1>s, <2>1, <2>2, <2>3, <2>4 DEF Goes, Alive
<1>9. ASSUME NEW time \in Times, TargetWait(time)
      PROVE  session' \in Sessions /\ Stays
  BY <1>s, <1>9 DEF TargetWait, outputVars, Stays, OutputStays
<1>10. ASSUME NEW time \in Times, Encodes(time)
       PROVE  /\ session' \in Sessions
              /\ Stays \/ Goes \/ (PassesGate(time) /\ Treats(time))
  BY ONLY Inv, time \in Times, <1>10, EncodeEffect
<1>11. ASSUME NEW time \in Times, Target(time)
       PROVE  /\ session' \in Sessions
              /\ Stays \/ Goes \/ (PassesGate(time) /\ Treats(time))
  BY <1>7, <1>8, <1>9, <1>10, <1>11 DEF Target, Encodes
<1>12. CASE \E time \in Times : Target(time)
  BY <1>11, <1>12
<1> QED
  BY <1>2, <1>3, <1>4, <1>5, <1>6, <1>12, BegunEffect, <1>s DEF Next, Times, Stays

\* The picture of a callback that encodes nothing.
LEMMA RenderedEffect ==
  ASSUME Inv, NEW time \in Times, Rendered(time, 0)
  PROVE  /\ sensorActive /\ renderPhase = "target" /\ renderPhase' = "post"
         /\ sourceTime' = time /\ cleanupEncoderRequested' = FALSE
         /\ replay' = (replay /\ time = sourceTime) /\ replay' \in BOOLEAN
         /\ changes' \in 0..MaxChanges
         /\ UNCHANGED <<rosConsumersActive, snapshotNeedsRender, callback,
                        sensorActive, rosFreshRenderGeneration>>
<1>1. changes \in 0..MaxChanges /\ sourceTime \in Int /\ time \in Int
  BY SessionAssumption DEF Inv, Typed, Times
<1>2. (IF time < sourceTime THEN 1 ELSE 0) \in {0, 1}
  OBVIOUS
<1>3. /\ changes' = changes + 0 + (IF time < sourceTime THEN 1 ELSE 0)
      /\ changes' <= MaxChanges
  BY DEF Rendered
<1>4. changes' \in 0..MaxChanges
  BY <1>1, <1>2, <1>3, SessionAssumption
<1>5. replay' \in BOOLEAN
  BY DEF Rendered
<1> QED
  BY <1>4, <1>5 DEF Rendered

LEMMA DemandEffect ==
  ASSUME Inv, RenderDemand
  PROVE  /\ sensorActive' \in BOOLEAN /\ replay' \in BOOLEAN
         /\ cleanupEncoderRequested' \in BOOLEAN
         /\ renderPhase' \in {"target", "post"}
         /\ ShouldEncode \/ rosConsumersActive => sensorActive'
         /\ sensorActive' /\ replay' => ShowsBefore
  BY DEF RenderDemand, Inv, Typed, ShouldEncode, ShowsBefore

LEMMA ChangeEffect ==
  ASSUME Inv, Change
  PROVE  changes' \in 0..MaxChanges
  BY SessionAssumption DEF Inv, Typed, Change

LEMMA TypedStep ==
  ASSUME Inv, [Next]_vars
  PROVE  Typed'
<1>s. session' \in Sessions
  BY ONLY Inv, [Next]_vars, SessionStep
<1>i. encodedFrameIndex' \in 0..MaxFrames
  <2>1. encodedFrameIndex \in 0..MaxFrames
    BY DEF Inv, Typed
  <2>2. CASE Stays \/ Goes
    BY <2>1, <2>2 DEF Stays, Goes, OutputStays
  <2>3. ASSUME NEW time \in Times, PassesGate(time), Treats(time)
        PROVE  encodedFrameIndex' \in 0..MaxFrames
    <3>1. encodedFrameIndex' \in {encodedFrameIndex, encodedFrameIndex + 1}
      BY <2>3 DEF Treats, Looks, Holds, PutsOut, Loses, Leaves, OutputStays
    <3> QED
      BY <2>1, <2>3, <3>1, SessionAssumption DEF PassesGate
  <2>4. Stays \/ Goes \/ \E time \in Times : PassesGate(time) /\ Treats(time)
    BY ONLY Inv, [Next]_vars, SessionStep
  <2> QED
    BY <2>2, <2>3, <2>4
<1>t. Typed
  BY DEF Inv
<1>1. CASE UNCHANGED vars
  BY <1>1, <1>t DEF vars, demandVars, sensorVars, gateVars, Typed
<1>2. ASSUME NEW active \in BOOLEAN, TakeCommand(active)
      PROVE  Typed'
  <2>1. Change
    BY <1>2 DEF TakeCommand
  <2>2. changes' \in 0..MaxChanges
    BY ONLY Inv, <2>1, ChangeEffect
  <2>3. renderPhase' \in {"starting", "commanded"} /\ overlapped' \in BOOLEAN
    BY <1>2, <1>t DEF TakeCommand, Typed
  <2> QED
    BY <1>2, <1>t, <1>s, <2>2, <2>3 DEF TakeCommand, sensorVars, gateVars, Typed
<1>3. CASE ApplyCommand
  <2>1. RenderDemand
    BY <1>3 DEF ApplyCommand
  <2>2. /\ sensorActive' \in BOOLEAN /\ replay' \in BOOLEAN
        /\ cleanupEncoderRequested' \in BOOLEAN /\ renderPhase' \in {"target", "post"}
    BY ONLY Inv, <2>1, DemandEffect
  <2>3. rosFreshRenderGeneration' \in Nat
    BY <1>3, <1>t DEF ApplyCommand, Typed
  <2> QED
    BY <1>3, <1>t, <1>s, <1>i, <2>2, <2>3 DEF ApplyCommand, demandVars, Typed
<1>4. CASE PostRenderIdle
  <2>1. RenderDemand
    BY <1>4 DEF PostRenderIdle
  <2>2. /\ sensorActive' \in BOOLEAN /\ replay' \in BOOLEAN
        /\ cleanupEncoderRequested' \in BOOLEAN /\ renderPhase' \in {"target", "post"}
    BY ONLY Inv, <2>1, DemandEffect
  <2> QED
    BY <1>4, <1>t, <1>s, <1>i, <2>2 DEF PostRenderIdle, demandVars, gateVars, Typed
<1>5. ASSUME NEW time \in Times, Rendered(time, 0)
      PROVE  /\ sensorActive' \in BOOLEAN /\ replay' \in BOOLEAN
             /\ rosConsumersActive' \in BOOLEAN /\ snapshotNeedsRender' \in BOOLEAN
             /\ cleanupEncoderRequested' \in BOOLEAN
             /\ renderPhase' \in {"post", "starting", "commanded", "target"}
             /\ callback' \in {"idle", "epoch", "looked"}
             /\ sourceTime' \in Times /\ rosFreshRenderGeneration' \in Nat
             /\ changes' \in 0..MaxChanges
  <2>1. /\ renderPhase' = "post"
        /\ sourceTime' = time /\ cleanupEncoderRequested' = FALSE
        /\ replay' \in BOOLEAN /\ changes' \in 0..MaxChanges
        /\ UNCHANGED <<rosConsumersActive, snapshotNeedsRender, callback,
                       sensorActive, rosFreshRenderGeneration>>
    BY ONLY Inv, <1>5, RenderedEffect
  <2> QED
    BY <1>t, <2>1 DEF Typed
<1>6. ASSUME NEW time \in Times, TargetIdle(time) \/ TargetDiscard(time) \/ TargetWait(time)
      PROVE  Typed'
  <2>1. Rendered(time, 0)
    BY <1>6 DEF TargetIdle, TargetDiscard, TargetWait
  <2>2. /\ desiredActive' = desiredActive /\ awaitingStart' = awaitingStart
        /\ overlapped' = overlapped /\ missed' = missed
        /\ observedGeneration' \in {observedGeneration, rosFreshRenderGeneration}
        /\ sourceTimeFloor' \in {sourceTimeFloor, time}
    BY <1>6 DEF TargetIdle, TargetDiscard, TargetWait
  <2>3. observedGeneration' \in Nat /\ sourceTimeFloor' \in Times \cup {None}
    BY <1>t, <2>2 DEF Typed
  <2> QED
    BY <1>t, <1>s, <1>i, <1>5, <2>1, <2>2, <2>3 DEF Typed
<1>7. ASSUME NEW time \in Times, Encodes(time)
      PROVE  Typed'
  <2>1. Settles /\ PassesGate(time)
    BY ONLY Inv, time \in Times, <1>7, EncodeEffect
  <2>2. missed' \in BOOLEAN
    BY <2>1 DEF PassesGate
  <2>3. /\ desiredActive' \in BOOLEAN /\ awaitingStart' \in BOOLEAN
        /\ overlapped' \in BOOLEAN
    BY <2>1 DEF Settles
  <2>4. /\ renderPhase' = "post" /\ sourceTime' = time
        /\ cleanupEncoderRequested' = FALSE /\ replay' \in BOOLEAN
        /\ changes' \in 0..MaxChanges /\ sourceTimeFloor' = None
        /\ UNCHANGED <<rosConsumersActive, snapshotNeedsRender, callback,
                       sensorActive, rosFreshRenderGeneration, observedGeneration>>
    BY <2>1 DEF PassesGate
  <2> QED
    BY <1>t, <1>s, <1>i, <2>2, <2>3, <2>4 DEF Typed
<1>8. CASE Connect
  <2>1. Change
    BY <1>8 DEF Connect
  <2>2. changes' \in 0..MaxChanges
    BY ONLY Inv, <2>1, ChangeEffect
  <2> QED
    BY <1>t, <1>s, <1>8, <2>2 DEF Connect, demandVars, sensorVars, gateVars, Typed
<1>9. CASE ConnectLooks
  <2>1. rosFreshRenderGeneration' \in Nat
    BY <1>t, <1>9 DEF ConnectLooks, Typed
  <2> QED
    BY <1>t, <1>s, <1>9, <2>1 DEF ConnectLooks, demandVars, sensorVars, Typed
<1>10. CASE ConnectActivates
  <2>1. overlapped' \in BOOLEAN
    BY <1>t, <1>10 DEF ConnectActivates, Typed
  <2> QED
    BY <1>t, <1>s, <1>10, <2>1 DEF ConnectActivates, sensorVars, gateVars, Typed
<1>11. CASE Disconnect
  <2>1. /\ rosConsumersActive' = FALSE
        /\ desiredActive' = desiredActive /\ awaitingStart' = awaitingStart
        /\ snapshotNeedsRender' = snapshotNeedsRender
        /\ renderPhase' = renderPhase /\ callback' = callback
        /\ sensorActive' = sensorActive /\ replay' = replay
        /\ cleanupEncoderRequested' = cleanupEncoderRequested
        /\ overlapped' = overlapped /\ missed' = missed
    BY ONLY <1>11 DEF Disconnect, sensorVars
  <2>2. /\ sourceTime' = sourceTime /\ sourceTimeFloor' = sourceTimeFloor
        /\ rosFreshRenderGeneration' = rosFreshRenderGeneration
        /\ observedGeneration' = observedGeneration /\ session' = session
        /\ encodedFrameIndex' = encodedFrameIndex /\ changes' = changes
    BY ONLY <1>11 DEF Disconnect, sensorVars, gateVars
  <2>3. /\ desiredActive' \in BOOLEAN /\ awaitingStart' \in BOOLEAN
        /\ rosConsumersActive' \in BOOLEAN /\ snapshotNeedsRender' \in BOOLEAN
        /\ sensorActive' \in BOOLEAN /\ replay' \in BOOLEAN
        /\ cleanupEncoderRequested' \in BOOLEAN /\ overlapped' \in BOOLEAN
        /\ missed' \in BOOLEAN
        /\ renderPhase' \in {"post", "starting", "commanded", "target"}
        /\ callback' \in {"idle", "epoch", "looked"}
    BY ONLY <1>t, <2>1 DEF Typed
  <2>4. /\ sourceTime' \in Times /\ sourceTimeFloor' \in Times \cup {None}
        /\ rosFreshRenderGeneration' \in Nat /\ observedGeneration' \in Nat
        /\ session' \in Sessions /\ encodedFrameIndex' \in 0..MaxFrames
        /\ changes' \in 0..MaxChanges
    BY ONLY <1>t, <2>2 DEF Typed
  <2> QED
    BY ONLY <2>3, <2>4 DEF Typed
<1>12. CASE CaptureChanges
  <2>1. snapshotNeedsRender' \in BOOLEAN
    BY <1>t, <1>12 DEF CaptureChanges, Typed
  <2>2. changes' \in 0..MaxChanges
    <3>1. Change \/ changes' = changes
      BY <1>12 DEF CaptureChanges
    <3>2. Change => changes' \in 0..MaxChanges
      BY ONLY Inv, ChangeEffect
    <3> QED
      BY <1>t, <3>1, <3>2 DEF Typed
  <2> QED
    BY <1>t, <1>s, <1>12, <2>1, <2>2 DEF CaptureChanges, sensorVars, gateVars, Typed
<1> QED
  BY <1>1, <1>2, <1>3, <1>4, <1>6, <1>7, <1>8, <1>9, <1>10, <1>11, <1>12
     DEF Next, Target, Encodes, Times

\* The gate closes no later than the picture of before can be encoded.
LEMMA GateStep ==
  ASSUME Inv, [Next]_vars
  PROVE  GateInv'
<1>g. GateInv /\ Typed
  BY DEF Inv
<1>n. rosFreshRenderGeneration \in Nat /\ observedGeneration \in Nat
  BY <1>g DEF Typed
<1>1. CASE UNCHANGED vars
  BY <1>1, <1>g DEF vars, demandVars, sensorVars, gateVars, GateInv, GateHolds,
     ShouldEncode, ShowsBefore, IsNewGeneration
<1>2. ASSUME NEW active \in BOOLEAN, TakeCommand(active)
      PROVE  GateInv'
  <2>1. /\ renderPhase \in {"post", "target"}
        /\ renderPhase' # "starting" => (desiredActive' => desiredActive)
        /\ overlapped' = (overlapped \/ callback = "looked")
        /\ UNCHANGED <<rosConsumersActive, callback, sensorActive, replay, sourceTime,
                       rosFreshRenderGeneration, observedGeneration, sourceTimeFloor>>
    BY <1>2 DEF TakeCommand, IsPostRender, sensorVars, gateVars
  <2> QED
    BY <1>g, <2>1 DEF GateInv, GateHolds, ShouldEncode, ShowsBefore, IsNewGeneration
<1>3. CASE ApplyCommand \/ PostRenderIdle
  <2>1. RenderDemand
    BY <1>3 DEF ApplyCommand, PostRenderIdle
  <2>2. /\ ShouldEncode \/ rosConsumersActive => sensorActive'
        /\ sensorActive' /\ replay' => ShowsBefore
    BY ONLY Inv, <2>1, DemandEffect
  <2>3. /\ UNCHANGED <<desiredActive, rosConsumersActive, callback, sourceTime,
                       observedGeneration, sourceTimeFloor, overlapped>>
        /\ rosFreshRenderGeneration' \in
             {rosFreshRenderGeneration, rosFreshRenderGeneration + 1}
        /\ renderPhase = "starting" /\ ~rosConsumersActive
             => rosFreshRenderGeneration' = rosFreshRenderGeneration + 1
    BY <1>3 DEF ApplyCommand, PostRenderIdle, IsPostRender, demandVars, gateVars
  <2>4. GateHolds => GateHolds'
    BY <1>n, <1>g, <2>3 DEF GateInv, GateHolds, IsNewGeneration
  <2>5. IsNewGeneration => IsNewGeneration'
    BY <1>n, <1>g, <2>3 DEF GateInv, IsNewGeneration
  <2>6. observedGeneration' <= rosFreshRenderGeneration'
    BY <1>n, <1>g, <2>3 DEF GateInv
  <2>7. ASSUME ~overlapped, ShouldEncode, ShowsBefore' PROVE GateHolds'
    <3>1. ShowsBefore
      BY <2>2, <2>7 DEF ShowsBefore
    <3>2. CASE renderPhase = "starting" /\ ~rosConsumersActive
      BY <1>n, <1>g, <2>3, <3>2 DEF GateInv, GateHolds, IsNewGeneration
    <3> QED
      BY <1>g, <2>4, <2>7, <3>1, <3>2 DEF GateInv
  <2> QED
    BY <1>g, <2>3, <2>5, <2>6, <2>7 DEF GateInv, ShouldEncode
<1>4. ASSUME NEW time \in Times, TargetIdle(time) \/ TargetDiscard(time) \/ TargetWait(time)
      PROVE  GateInv'
  <2>1. Rendered(time, 0)
    BY <1>4 DEF TargetIdle, TargetDiscard, TargetWait
  <2>2. /\ sourceTime' = time
        /\ UNCHANGED <<rosConsumersActive, callback, rosFreshRenderGeneration>>
    BY ONLY Inv, <2>1, RenderedEffect
  <2>3. CASE TargetIdle(time)
    BY <1>g, <2>2, <2>3 DEF TargetIdle, GateInv, ShouldEncode, IsNewGeneration
  <2>4. CASE TargetDiscard(time) \/ TargetWait(time)
    <3>1. /\ ShouldEncode /\ sourceTimeFloor' = sourceTime'
          /\ desiredActive' = desiredActive
          /\ observedGeneration' = rosFreshRenderGeneration
      BY <2>2, <2>4 DEF TargetDiscard, TargetWait, IsAccepted, IsNewGeneration
    <3> QED
      BY <1>n, <1>g, <2>2, <3>1 DEF GateInv, GateHolds, ShouldEncode
  <2> QED
    BY <1>4, <2>3, <2>4
<1>5. ASSUME NEW time \in Times, Encodes(time)
      PROVE  GateInv'
  <2>1. Settles /\ PassesGate(time)
    BY ONLY Inv, time \in Times, <1>5, EncodeEffect
  <2>2. ~overlapped' => ~replay'
    <3>1. ASSUME ~overlapped PROVE ~replay'
      BY ONLY Inv, time \in Times, <2>1, <3>1, NoneOfBefore
    <3> QED
      BY <2>1, <3>1 DEF Settles
  <2>3. ~overlapped' => ~ShowsBefore'
    BY <2>1, <2>2 DEF ShowsBefore, PassesGate
  <2>4. /\ ShouldEncode
        /\ UNCHANGED <<rosConsumersActive, callback, rosFreshRenderGeneration,
                       observedGeneration>>
    BY <2>1 DEF PassesGate
  <2>5. ~overlapped' /\ callback = "looked" => desiredActive'
    BY <1>g, <2>1, <2>4 DEF Settles, GateInv, ShouldEncode
  <2> QED
    BY <1>g, <2>3, <2>4, <2>5 DEF GateInv
<1>6. CASE Connect
  BY <1>g, <1>6 DEF Connect, demandVars, sensorVars, gateVars, GateInv, GateHolds,
     ShouldEncode, ShowsBefore, IsNewGeneration
<1>7. CASE ConnectLooks
  <2>1. /\ rosFreshRenderGeneration' \in
             {rosFreshRenderGeneration, rosFreshRenderGeneration + 1}
        /\ ~desiredActive => rosFreshRenderGeneration' = rosFreshRenderGeneration + 1
        /\ callback = "epoch" /\ callback' = "looked"
        /\ UNCHANGED <<desiredActive, rosConsumersActive, renderPhase, sensorActive,
                       replay, sourceTime, observedGeneration, sourceTimeFloor,
                       overlapped>>
    BY <1>7 DEF ConnectLooks, demandVars, sensorVars
  <2>2. GateHolds => GateHolds'
    BY <1>n, <1>g, <2>1 DEF GateInv, GateHolds, IsNewGeneration
  <2>3. ~desiredActive => IsNewGeneration'
    BY <1>n, <1>g, <2>1 DEF GateInv, IsNewGeneration
  <2>4. observedGeneration' <= rosFreshRenderGeneration'
    BY <1>n, <1>g, <2>1 DEF GateInv
  <2>5. ~rosConsumersActive
    BY <1>g, <2>1 DEF GateInv
  <2> QED
    BY <1>g, <2>1, <2>2, <2>3, <2>4, <2>5 DEF GateInv, ShouldEncode, ShowsBefore
<1>8. CASE ConnectActivates
  <2>1. /\ callback = "looked" /\ callback' = "idle"
        /\ overlapped' = (overlapped \/ renderPhase = "starting")
        /\ UNCHANGED <<desiredActive, renderPhase, sensorActive, replay, sourceTime,
                       rosFreshRenderGeneration, observedGeneration, sourceTimeFloor>>
    BY <1>8 DEF ConnectActivates, sensorVars, gateVars
  <2>2. ASSUME ~overlapped, renderPhase # "starting", ShowsBefore PROVE GateHolds
    BY <1>g, <2>1, <2>2 DEF GateInv, GateHolds, ShouldEncode
  <2> QED
    BY <1>g, <2>1, <2>2 DEF GateInv, GateHolds, ShowsBefore, IsNewGeneration
<1>9. CASE Disconnect
  BY <1>g, <1>9 DEF Disconnect, sensorVars, gateVars, GateInv, GateHolds,
     ShouldEncode, ShowsBefore, IsNewGeneration
<1>10. CASE CaptureChanges
  BY <1>g, <1>10 DEF CaptureChanges, sensorVars, gateVars, GateInv, GateHolds,
     ShouldEncode, ShowsBefore, IsNewGeneration
<1>11. ASSUME NEW time \in Times, Target(time)
       PROVE  GateInv'
  BY <1>4, <1>5, <1>11 DEF Target, Encodes
<1>12. CASE \E time \in 0..MaxTime : Target(time)
  BY <1>11, <1>12 DEF Times
<1> QED
  BY <1>1, <1>2, <1>3, <1>6, <1>7, <1>8, <1>9, <1>10, <1>12 DEF Next

(***************************************************************************)
(* The theorems.                                                           *)
(***************************************************************************)
LEMMA InitInv == Init => Inv
<1> SUFFICES ASSUME Init PROVE Inv
  OBVIOUS
<1>1. /\ 0 \in Times /\ 0 \in Nat /\ 1 \in Nat /\ 0 \in 0..MaxFrames
      /\ 0 \in 0..MaxChanges
  BY SessionAssumption DEF Times
<1>2. session = [exists |-> FALSE, held |-> <<>>, pending |-> <<>>,
                last |-> None, submitted |-> 0, ever |-> FALSE, epoch |-> 1,
                opening |-> TRUE, force |-> FALSE]
  BY DEF Init
<1>3. session \in Sessions
  BY <1>1, <1>2, NoneHeld DEF Sessions
<1>4. Typed
  BY <1>1, <1>3 DEF Init, Typed
<1>5. session.held = <<>> /\ session.pending = <<>> /\ 1..Len(session.held) = {}
  BY <1>2, NothingHeld
<1>6. GateInv
  BY DEF Init, GateInv, ShouldEncode
<1>7. DormantInv /\ PairInv
  BY <1>5 DEF Init, NoOutput, DormantInv, PairInv, Paired, OutputHasItsMetadata
<1>8. ClockInv
  BY <1>5 DEF Init, ClockInv, Ticking
<1>9. LifeInv
  BY <1>2 DEF Init, LifeInv, Alive, IsIssued
<1>10. TimeInv
  BY <1>2, <1>5 DEF Init, TimeInv, OneTimeline, Timely
<1> QED
  BY <1>4, <1>6, <1>7, <1>8, <1>9, <1>10 DEF Inv

\* A step keeps what holds of the session, ...
LEMMA SessionInvStep ==
  ASSUME Inv, [Next]_vars
  PROVE  DormantInv' /\ PairInv' /\ ClockInv' /\ LifeInv' /\ TimeInv'
<1>1. (missed => missed') /\ (overlapped => overlapped')
  BY ONLY Inv, [Next]_vars, HistoryStays
<1>2. CASE Stays
  BY ONLY Inv, <1>1, <1>2, StaysKeeps
<1>3. CASE Goes
  BY ONLY Inv, <1>1, <1>3, GoesKeeps
<1>4. ASSUME NEW time \in Times, PassesGate(time), Treats(time)
      PROVE  DormantInv' /\ PairInv' /\ ClockInv' /\ LifeInv' /\ TimeInv'
  <2>1. CASE Looks(time)
    BY ONLY Inv, time \in Times, <1>1, <1>4, <2>1, LooksKeeps
  <2>2. CASE Holds(time)
    BY ONLY Inv, time \in Times, <1>1, <1>4, <2>2, HoldsKeeps
  <2>3. ASSUME NEW opening \in BOOLEAN, NEW force \in BOOLEAN,
               PutsOut(time, opening, force)
        PROVE  DormantInv' /\ PairInv' /\ ClockInv' /\ LifeInv' /\ TimeInv'
    BY ONLY Inv, time \in Times, opening \in BOOLEAN, force \in BOOLEAN, <1>1, <1>4,
       <2>3, PutsOutKeeps
  <2>4. CASE Loses(time)
    BY ONLY Inv, time \in Times, <1>1, <1>4, <2>4, LosesKeeps
  <2> QED
    BY <1>4, <2>1, <2>2, <2>3, <2>4 DEF Treats
<1>5. Stays \/ Goes \/ \E time \in Times : PassesGate(time) /\ Treats(time)
  BY ONLY Inv, [Next]_vars, SessionStep
<1> QED
  BY <1>2, <1>3, <1>4, <1>5

\* ... and what it puts out and publishes is later than before.
LEMMA OutputStep ==
  ASSUME Inv, [Next]_vars
  PROVE  /\ output' # output /\ output'.frame # None /\ lastTimestamp # None
              => lastTimestamp' > lastTimestamp
         /\ published' # published /\ published # None /\ ~missed'
              /\ published'.epoch = published.epoch
              => published'.time >= published.time
<1>1. (missed => missed') /\ (overlapped => overlapped')
  BY ONLY Inv, [Next]_vars, HistoryStays
<1>2. CASE Stays \/ Goes
  BY <1>2 DEF Stays, Goes, OutputStays, NoOutput
<1>3. ASSUME NEW time \in Times, PassesGate(time), Treats(time)
      PROVE  /\ output' # output /\ output'.frame # None /\ lastTimestamp # None
                  => lastTimestamp' > lastTimestamp
             /\ published' # published /\ published # None /\ ~missed'
                  /\ published'.epoch = published.epoch
                  => published'.time >= published.time
  <2>1. CASE Looks(time) \/ Holds(time)
    BY <2>1 DEF Looks, Holds, OutputStays, NoOutput
  <2>3. CASE Loses(time)
    <3>1. output' = output /\ published' = published
      BY ONLY <2>3 DEF Loses
    <3> QED
      BY ONLY <3>1
  <2>2. ASSUME NEW opening \in BOOLEAN, NEW force \in BOOLEAN,
               PutsOut(time, opening, force)
        PROVE  /\ lastTimestamp # None => lastTimestamp' > lastTimestamp
               /\ ~missed' /\ published' # published /\ published # None
                    /\ published'.epoch = published.epoch
                  => published'.time >= published.time
    BY ONLY Inv, time \in Times, opening \in BOOLEAN, force \in BOOLEAN, <1>1, <1>3,
       <2>2, PutsOutKeeps
  <2> QED
    BY <1>3, <2>1, <2>2, <2>3 DEF Treats
<1>4. Stays \/ Goes \/ \E time \in Times : PassesGate(time) /\ Treats(time)
  BY ONLY Inv, [Next]_vars, SessionStep
<1> QED
  BY <1>2, <1>3, <1>4

\* The gate, the session and its histories agree at any time.
THEOREM InvariantHolds == Spec => []Inv
<1>1. Inv /\ [Next]_vars => Inv'
  <2> SUFFICES ASSUME Inv, [Next]_vars PROVE Inv'
    OBVIOUS
  <2>1. Typed'
    BY ONLY Inv, [Next]_vars, TypedStep
  <2>2. GateInv'
    BY ONLY Inv, [Next]_vars, GateStep
  <2>3. DormantInv' /\ PairInv' /\ ClockInv' /\ LifeInv' /\ TimeInv'
    BY ONLY Inv, [Next]_vars, SessionInvStep
  <2> QED
    BY <2>1, <2>2, <2>3 DEF Inv
<1> QED
  BY InitInv, <1>1, PTL DEF Spec

\* No picture of before the sensor was off is in NVENC or in an output
\* (FreshRenderGate::Observe, and who arms it), unless a command and a first
\* connection overlapped.
THEOREM PicturesAreFresh == Spec => []DormantIsNotEncoded
<1>1. Inv => DormantIsNotEncoded
  <2> SUFFICES ASSUME Inv PROVE DormantIsNotEncoded
    OBVIOUS
  <2>1. DOMAIN session.held = 1..Len(session.held)
    BY HeldTypes, LenProperties DEF Inv, Typed
  <2> QED
    BY <2>1 DEF Inv, DormantInv, DormantIsNotEncoded
<1> QED
  BY InvariantHolds, <1>1, PTL

\* What is put out carries the metadata of the picture it shows, through
\* pictures held back, failures and new sessions (TakePendingEncodedFrame).
THEOREM MetadataFollowsThePicture == Spec => []OutputHasItsMetadata
<1>1. Inv => OutputHasItsMetadata
  BY DEF Inv, PairInv
<1> QED
  BY InvariantHolds, <1>1, PTL

\* The transport clock increases from output to output, through any number of
\* sessions (encodedFrameIndex_).
THEOREM ClockIncreases == Spec => TimestampsIncrease
<1>1. Inv /\ [Next]_vars =>
        [/\ output' # output /\ output'.frame # None /\ lastTimestamp # None
         => lastTimestamp' > lastTimestamp]_vars
  <2> SUFFICES ASSUME Inv, [Next]_vars
               PROVE  /\ output' # output /\ output'.frame # None /\ lastTimestamp # None
                      => lastTimestamp' > lastTimestamp
    OBVIOUS
  <2> QED
    BY ONLY Inv, [Next]_vars, OutputStep
<1> QED
  BY InvariantHolds, <1>1, PTL DEF Spec, TimestampsIncrease

\* Within an epoch of the ROS branch source time does not go back, unless it
\* went back before the session had looked at it (ObserveSourceTime,
\* BeginROSEpoch, EnsureEncoder).
THEOREM EpochIsOneTimeline == Spec => EpochKeepsItsTimeline
<1>1. Inv /\ [Next]_vars =>
        [/\ published # None /\ published'.epoch = published.epoch /\ ~missed'
         => published'.time >= published.time]_published
  <2> SUFFICES ASSUME Inv, [Next]_vars, published' # published, published # None,
                      published'.epoch = published.epoch, ~missed'
               PROVE  published'.time >= published.time
    OBVIOUS
  <2> QED
    BY OutputStep
<1> QED
  BY InvariantHolds, <1>1, PTL DEF Spec, EpochKeepsItsTimeline

\* The values that the variables take.
OutputTyped ==
  output = NoOutput \/ output \in [frame : FramesOfNVENC, metadata : Metadatas,
                                  unit : AccessUnits]

THEOREM TypeCorrect == Spec => []TypeOK
<1>1. Init => OutputTyped
  BY DEF Init, OutputTyped
<1>2. Inv /\ OutputTyped /\ [Next]_vars => OutputTyped'
  <2> SUFFICES ASSUME Inv, OutputTyped, [Next]_vars PROVE OutputTyped'
    OBVIOUS
  <2>1. CASE output' = output \/ output' = NoOutput
    BY <2>1 DEF OutputTyped, NoOutput
  <2>2. ASSUME NEW time \in Times, PassesGate(time), NEW opening \in BOOLEAN,
               NEW force \in BOOLEAN, PutsOut(time, opening, force)
        PROVE  OutputTyped'
    <3> DEFINE oldest == WithPicture(time).held[1]
    <3>1. WithPicture(time) \in Sessions /\ Len(WithPicture(time).held) >= 1
      BY ONLY Inv, time \in Times, <2>2, PictureKeeps
    <3>2. oldest \in FramesOfNVENC
      BY <3>1, HeldTypes
    <3>3. Metadata(oldest) \in Metadatas
      BY <3>2 DEF Metadata, Metadatas, FramesOfNVENC
    <3>4. output' \in [frame : {oldest}, metadata : {Metadata(oldest)},
                       unit : AccessUnits]
      BY <2>2 DEF PutsOut
    <3> HIDE DEF oldest
    <3> QED
      BY <3>2, <3>3, <3>4 DEF OutputTyped
  <2>3. Stays \/ Goes \/ \E time \in Times : PassesGate(time) /\ Treats(time)
    BY ONLY Inv, [Next]_vars, SessionStep
  <2> QED
    BY <2>1, <2>2, <2>3 DEF Treats, Stays, Goes, Looks, Holds, Loses, OutputStays
<1>3. Inv /\ OutputTyped => TypeOK
  <2> SUFFICES ASSUME Inv, OutputTyped PROVE TypeOK
    OBVIOUS
  <2>1. output = NoOutput \/ (/\ output.frame \in FramesOfNVENC
                             /\ output.metadata \in Metadatas
                             /\ output.unit \in AccessUnits)
    BY DEF OutputTyped
  <2>2. /\ session.held \in Seq(FramesOfNVENC) /\ session.pending \in Seq(Metadatas)
        /\ session.last \in Times \cup {None} /\ session.epoch \in Nat
    BY DEF Inv, Typed, Sessions
  <2> QED
    BY <2>1, <2>2 DEF Inv, Typed, TypeOK
<1> QED
  BY InvariantHolds, <1>1, <1>2, <1>3, PTL DEF Spec
(***************************************************************************)
(* The packets.  What is with the RTP branch is what the splitter and the  *)
(* packet loop make of the unit; a stop takes it away.                     *)
(***************************************************************************)
PacketsInv ==
  output.frame # None /\ desiredActive =>
    /\ output.unit \in AccessUnits
    /\ packets = Packetize(SplitAnnexB(AnnexB(output.unit)))

\* Only an encode that has an output sets packets; until the render thread
\* forgets them no command makes a stream active that was not.
LEMMA PacketsStep ==
  ASSUME PacketsInv, [Next]_vars
  PROVE  PacketsInv'
<1>1. ASSUME output' = output, packets' = packets, desiredActive' => desiredActive
      PROVE  PacketsInv'
  BY <1>1 DEF PacketsInv
<1>2. ASSUME output' = NoOutput PROVE PacketsInv'
  BY <1>2 DEF PacketsInv, NoOutput
<1>3. CASE UNCHANGED vars
  BY <1>1, <1>3 DEF vars, demandVars, outputVars
<1>4. ASSUME NEW active \in BOOLEAN, TakeCommand(active) PROVE PacketsInv'
  BY <1>2, <1>4 DEF TakeCommand
<1>5. CASE PostRenderIdle
  BY <1>2, <1>5 DEF PostRenderIdle
<1>6. CASE ApplyCommand \/ Connect \/ ConnectLooks
  BY <1>1, <1>6 DEF ApplyCommand, Connect, ConnectLooks, demandVars, outputVars
<1>7. CASE ConnectActivates \/ Disconnect \/ CaptureChanges
  BY <1>1, <1>7 DEF ConnectActivates, Disconnect, CaptureChanges, outputVars
<1>8. ASSUME NEW time \in 0..MaxTime, Target(time) PROVE PacketsInv'
  <2>1. CASE TargetIdle(time) \/ TargetDiscard(time) \/ TargetWait(time)
    BY <1>1, <2>1 DEF TargetIdle, TargetDiscard, TargetWait, outputVars
  <2>2. CASE EncodeNotSubmitted(time)
    BY <1>1, <2>2 DEF EncodeNotSubmitted, Fails, outputVars
  <2>3. CASE EncodeBreaks(time)
    BY <1>1, <2>3 DEF EncodeBreaks, Fails, outputVars
  <2>4. CASE EncodeHeld(time)
    BY <1>1, <2>4 DEF EncodeHeld, Encoded, outputVars
  <2>5. CASE EncodeOutput(time)
    <3>1. \E unit \in AccessUnits :
             /\ output'.unit = unit /\ (desiredActive' => desiredActive)
             /\ packets' = IF desiredActive THEN Packetize(SplitAnnexB(AnnexB(unit)))
                           ELSE <<>>
      <4> DEFINE m == WithPicture(time)
                 found == TakePending(m.pending, m.held[1].timestamp)
      <4>1. PICK unit \in AccessUnits :
              LET key == IsKeyframe(SplitAnnexB(AnnexB(unit)))
                  opening == m.opening /\ ~(rosConsumersActive /\ key)
                  force == rosConsumersActive /\ m.opening /\ ~key
              IN  /\ output' = [frame |-> m.held[1], metadata |-> m.pending[found],
                                unit |-> unit]
                  /\ packets' = IF desiredActive THEN Packetize(SplitAnnexB(AnnexB(unit)))
                                ELSE <<>>
                  /\ \/ Encoded(WithoutFrame(m, found, opening, force))
                     \/ SendFails(WithoutFrame(m, found, opening, TRUE))
        BY <2>5 DEF EncodeOutput, WithPicture, Picture, Session
      <4>2. desiredActive' => desiredActive
        BY ONLY <4>1 DEF Encoded, SendFails, Fails
      <4>3. output'.unit = unit
        BY ONLY <4>1
      <4> QED
        BY ONLY <4>1, <4>2, <4>3
    <3>2. PICK unit \in AccessUnits :
             /\ output'.unit = unit /\ (desiredActive' => desiredActive)
             /\ packets' = IF desiredActive THEN Packetize(SplitAnnexB(AnnexB(unit)))
                           ELSE <<>>
      BY ONLY <3>1
    <3>3. output'.unit \in AccessUnits
      BY ONLY <3>2
    <3>4. desiredActive' =>
            packets' = Packetize(SplitAnnexB(AnnexB(output'.unit)))
      BY ONLY <3>2
    <3> QED
      BY ONLY <3>3, <3>4 DEF PacketsInv
  <2>6. CASE EncodeLost(time)
    BY <1>1, <2>6 DEF EncodeLost, SendFails, Fails, outputVars
  <2> QED
    BY <1>8, <2>1, <2>2, <2>3, <2>4, <2>5, <2>6 DEF Target
<1> QED
  BY <1>3, <1>4, <1>5, <1>6, <1>7, <1>8 DEF Next

\* A receiver of the RTP stream puts together again the very NAL units that
\* NVENC put out, from well-formed packets, whatever the access units and the
\* size of a payload (SplitAnnexB, SendH264AccessUnit).
THEOREM PacketsCarryWhole == Spec => []PacketsCarryTheUnit
<1>1. Init => PacketsInv
  BY DEF Init, PacketsInv, NoOutput
<1>2. PacketsInv /\ [Next]_vars => PacketsInv'
  BY PacketsStep
<1>3. PacketsInv => PacketsCarryTheUnit
  <2> SUFFICES ASSUME PacketsInv, output.frame # None, desiredActive
               PROVE  /\ Depacketize(packets) = NalsOf(output.unit)
                      /\ AreWellFormed(packets)
    BY DEF PacketsCarryTheUnit
  <2>1. /\ IsAccessUnit(output.unit)
        /\ packets = Packetize(SplitAnnexB(AnnexB(output.unit)))
    BY UnitsAssumption DEF PacketsInv
  <2> QED
    BY ONLY <2>1, AccessUnitIsCarried
<1> QED
  BY <1>1, <1>2, <1>3, PTL DEF Spec
=============================================================================
