------------------------- MODULE SnapshotRefinement -------------------------
(* SnapshotCapture implements CaptureContract: the refinement mapping.      *)
EXTENDS SnapshotCapture

\* No answer is told from any.
ASSUME AnswerAssumption ==
  None \notin [gen : Nat, ok : BOOLEAN, picture : Picture \cup {None}]

\* The reservation is the host's, its owners the sensors that would give it
\* back.
SlotOf(reserved, held) ==
  [reserved |-> reserved, owners |-> {s \in Sensors : held[s]}]

\* Where the picture of a capture is.
WorkOf(s) ==
  IF readback[s] # None THEN "readback"
  ELSE IF encodeJob[s] # None \/ workerHand[s] # None THEN "picture"
  ELSE "none"

\* The picture of a failed capture is not sent.
Sent(result) ==
  IF result = None \/ result.ok THEN result
  ELSE [result EXCEPT !.picture = None]

Contract == INSTANCE CaptureContract WITH
  slot <- SlotOf(captureReserved, captureSlotHeld),
  admitted <- snapshotGeneration,
  waiting <- {s \in Sensors : captureReply[s]},
  work <- [s \in Sensors |-> WorkOf(s)],
  gone <- {s \in Sensors : removal[s] # "present"},
  answer <- [s \in Sensors |-> Sent(answer[s])]

\* Every step of the executor, the render thread, a JPEG worker and a
\* destructor is one step of the contract or none.  A capture that is answered
\* twice or while its picture is still read back, work that begins for a caller
\* who was answered, a slot that is given back by someone who did not own it,
\* or before the worker of a removed sensor has stopped, is a step the contract
\* does not have.
CaptureContractIsKept == Contract!Spec
=============================================================================
