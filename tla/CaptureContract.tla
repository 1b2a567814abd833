-------------------------- MODULE CaptureContract --------------------------
(***************************************************************************)
(* What a CameraSourceControlHost promises the callers of POST capture     *)
(* (docs/source_control.md), without the render thread, the readbacks, the *)
(* JPEG workers and the flags of snapshot_ that keep the promise: one      *)
(* capture at a time, over all its sensors; GPU and worker work only for a *)
(* capture whose caller still waits when it begins; one answer per         *)
(* capture, by a picture taken for it or by a failure, and none of the two *)
(* while its work goes on; a sensor that is removed answers at once, but   *)
(* keeps the slot until its worker has stopped.                            *)
(*                                                                         *)
(* SnapshotRefinement shows that SnapshotCapture implements this.          *)
(***************************************************************************)
EXTENDS Naturals

CONSTANTS
  Sensors,      \* the sensors registered with the host
  None          \* no picture, no answer

VARIABLES
  slot,         \* the host's reservation and the sensors that own it
  admitted,     \* captures admitted, per sensor
  waiting,      \* the sensors whose caller waits for an answer
  work,         \* per sensor: a readback, a picture for its worker, or none
  gone,         \* those that were unregistered
  answer        \* the last answer, per sensor

vars == <<slot, admitted, waiting, work, gone, answer>>

\* The reservation as these sensors own it.
Slot(owners) == [reserved |-> owners # {}, owners |-> owners]
Free == Slot({})

\* The two answers to a capture.
Failed(gen) == [gen |-> gen, ok |-> FALSE, picture |-> None]
Taken(gen) ==
  [gen |-> gen, ok |-> TRUE, picture |-> [gen |-> gen, fresh |-> TRUE]]

Init ==
  /\ slot = Free
  /\ admitted = [s \in Sensors |-> 0]
  /\ work = [s \in Sensors |-> "none"]
  /\ waiting = {} /\ gone = {}
  /\ answer = [s \in Sensors |-> None]

Admit(s) ==
  /\ s \notin gone /\ slot = Free
  /\ slot' = Slot({s})
  /\ admitted' = [admitted EXCEPT ![s] = @ + 1]
  /\ waiting' = waiting \cup {s}
  /\ UNCHANGED <<work, gone, answer>>

\* The render thread submits a readback, or a picture it read itself ...
BeginWork(s) ==
  /\ s \in waiting /\ work[s] = "none"
  /\ work' \in {[work EXCEPT ![s] = "readback"], [work EXCEPT ![s] = "picture"]}
  /\ UNCHANGED <<slot, admitted, waiting, gone, answer>>

\* ... a readback becomes a picture ...
ReadBack(s) ==
  /\ work[s] = "readback"
  /\ work' = [work EXCEPT ![s] = "picture"]
  /\ UNCHANGED <<slot, admitted, waiting, gone, answer>>

\* ... and that is encoded, or either of them fails or is dropped.
EndWork(s) ==
  /\ work[s] # "none"
  /\ work' = [work EXCEPT ![s] = "none"]
  /\ UNCHANGED <<slot, admitted, waiting, gone, answer>>

Answer(s) ==
  /\ s \in waiting /\ work[s] = "none"
  /\ waiting' = waiting \ {s}
  /\ slot' = Free
  /\ \E result \in {Failed(admitted[s]), Taken(admitted[s])} :
       answer' = [answer EXCEPT ![s] = result]
  /\ UNCHANGED <<admitted, work, gone>>

\* The sensor is unregistered; whoever waits is answered.
Leave(s) ==
  /\ s \notin gone
  /\ gone' = gone \cup {s}
  /\ waiting' = waiting \ {s}
  /\ answer' = IF s \in waiting
                 THEN [answer EXCEPT ![s] = Failed(admitted[s])]
                 ELSE answer
  /\ UNCHANGED <<slot, admitted, work>>

\* Its worker was joined: the slot is given back.  A readback may be left; no
\* render of this sensor will poll it.
GiveBack(s) ==
  /\ s \in gone \cap slot.owners
  /\ work[s] # "picture"
  /\ slot' = Free
  /\ UNCHANGED <<admitted, waiting, work, gone, answer>>

Next ==
  \E s \in Sensors :
    \/ Admit(s) \/ BeginWork(s) \/ ReadBack(s) \/ EndWork(s)
    \/ Answer(s) \/ Leave(s) \/ GiveBack(s)

Spec == Init /\ [][Next]_vars
=============================================================================
