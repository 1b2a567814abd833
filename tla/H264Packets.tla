---------------------------- MODULE H264Packets ----------------------------
(***************************************************************************)
(* From an Annex-B access unit to RTP payloads: SplitAnnexB and the packet *)
(* loop of SendH264AccessUnit, on sequences of bytes, and what a receiver  *)
(* makes of them (RFC 6184: single NAL units and FU-A).                    *)
(***************************************************************************)
EXTENDS Integers, Sequences, SequencesExt

CONSTANT MaxPayload   \* kMaximumRtpPayloadBytes, 1200

\* A fragment has two bytes of its own and carries one at least.
ASSUME PayloadAssumption == MaxPayload \in Nat /\ MaxPayload > 2

\* nal_unit_type and the bits before it.
TypeOf(header) == header % 32
BitsOf(header) == header - TypeOf(header)

IDR == 5
FUA == 28
StartBit == 128
EndBit == 64

\* The length of the start code at a place of the data, 0 if there is none.
StartCodeLength(data, at) ==
  IF at + 2 <= Len(data) /\ SubSeq(data, at, at + 2) = <<0, 0, 1>> THEN 3
  ELSE IF at + 3 <= Len(data) /\ SubSeq(data, at, at + 3) = <<0, 0, 0, 1>> THEN 4
  ELSE 0

\* The first start code from a place on, the end of the data if none is left.
NextStartCode(data, from) ==
  LET codes == {at \in from..Len(data) : StartCodeLength(data, at) > 0}
  IN  IF codes = {} THEN Len(data) + 1
      ELSE CHOOSE at \in codes : \A other \in codes : at <= other

\* What is before the first start code is skipped; a NAL ends where the next
\* code begins; an empty one is left out.
SplitAnnexB(data) ==
  LET from[start \in 1..(Len(data) + 1)] ==
        IF start > Len(data) THEN <<>>
        ELSE LET payload == start + StartCodeLength(data, start)
                 next == NextStartCode(data, payload)
             IN  (IF next > payload THEN <<SubSeq(data, payload, next - 1)>>
                  ELSE <<>>) \o from[next]
  IN  from[NextStartCode(data, 1)]

\* A NAL unit of an encoder (external): a type of RFC 6184's single NAL units,
\* no start code inside (emulation prevention) and no zero at the end (H.264, 7.4.1).
Bytes == 0..255
IsNal(nal) ==
  /\ nal \in Seq(Bytes) /\ nal # <<>>
  /\ TypeOf(nal[1]) \in 1..23
  /\ nal[Len(nal)] # 0
  /\ \A at \in DOMAIN nal : StartCodeLength(nal, at) = 0

\* An access unit of an encoder (external): NAL units, each behind a start code,
\* and the byte stream they make.
StartCodes == {<<0, 0, 1>>, <<0, 0, 0, 1>>}
IsAccessUnit(unit) ==
  /\ unit \in Seq([code : StartCodes, nal : Seq(Bytes)])
  /\ \A i \in DOMAIN unit : IsNal(unit[i].nal)
NalsOf(unit) == [i \in DOMAIN unit |-> unit[i].nal]
AnnexB(unit) == FlattenSeq([i \in DOMAIN unit |-> unit[i].code \o unit[i].nal])

IsKeyframe(nals) == \E i \in DOMAIN nals : TypeOf(nals[i][1]) = IDR

Packet(payload, marker) == [payload |-> payload, marker |-> marker]

\* Mutant: an incomplete last fragment is forgotten.
FragmentsFilled(nal) == (Len(nal) - 1) \div (MaxPayload - 2)

\* How many times the loop takes at most MaxPayload - 2 bytes off a NAL.
Fragments(nal) == (Len(nal) - 1 + MaxPayload - 3) \div (MaxPayload - 2)

\* The i-th fragment of a NAL that does not fit in one packet.
Fragment(nal, i) ==
  LET size == MaxPayload - 2
      offset == 2 + (i - 1) * size
      end == IF offset + size - 1 < Len(nal) THEN offset + size - 1 ELSE Len(nal)
  IN  <<BitsOf(nal[1]) + FUA,
        TypeOf(nal[1]) + (IF i = 1 THEN StartBit ELSE 0)
                       + (IF i = Fragments(nal) THEN EndBit ELSE 0)>>
      \o SubSeq(nal, offset, end)

PacketsOf(nal, isLast) ==
  IF Len(nal) <= MaxPayload THEN <<Packet(nal, isLast)>>
  ELSE [i \in 1..Fragments(nal) |->
          Packet(Fragment(nal, i), isLast /\ i = Fragments(nal))]

Packetize(nals) ==
  FlattenSeq([i \in DOMAIN nals |-> PacketsOf(nals[i], i = Len(nals))])

----------------------------------------------------------------------------
(* The receiver's side, and what the packets must be. *)

\* Takes the next payload: a NAL, or a fragment of the one that is open.
Accept(nals, packet) ==
  LET payload == packet.payload
      fu == payload[2]
      data == SubSeq(payload, 3, Len(payload))
      header == BitsOf(payload[1]) + TypeOf(fu)
  IN  IF TypeOf(payload[1]) # FUA THEN Append(nals, payload)
      ELSE IF fu >= StartBit THEN Append(nals, <<header>> \o data)
      ELSE Append(Front(nals), Last(nals) \o data)

Depacketize(packets) ==
  LET upTo[k \in 0..Len(packets)] ==
        IF k = 0 THEN <<>> ELSE Accept(upTo[k - 1], packets[k])
  IN  upTo[Len(packets)]

IsFragment(packet) == TypeOf(packet.payload[1]) = FUA

Starts(packet) == packet.payload[2] >= StartBit
Ends(packet) == packet.payload[2] % StartBit >= EndBit

\* Fragments of one NAL follow each other from start to end, none is both, no
\* payload is too large, and the marker is on the last packet only.
AreWellFormed(packets) ==
  \A i \in DOMAIN packets :
    /\ Len(packets[i].payload) \in 1..MaxPayload
    /\ packets[i].marker <=> i = Len(packets)
    /\ IsFragment(packets[i]) =>
         /\ ~(Starts(packets[i]) /\ Ends(packets[i]))
         /\ ~Ends(packets[i]) =>
              /\ i < Len(packets) /\ IsFragment(packets[i + 1])
              /\ ~Starts(packets[i + 1])
         /\ ~Starts(packets[i]) =>
              /\ i > 1 /\ IsFragment(packets[i - 1]) /\ ~Ends(packets[i - 1])
=============================================================================
