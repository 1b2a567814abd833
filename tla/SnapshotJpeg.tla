---------------------------- MODULE SnapshotJpeg ----------------------------
(***************************************************************************)
(* The JPEG side of a sensor's captures: the policy of Load, the optional  *)
(* hardware module (SnapshotJpegHardwareBackend) with its nvJPEG context,  *)
(* the worker that encodes one picture after the other, the fuse, and the  *)
(* destructor.  SnapshotCapture has the worker take and deliver a picture; *)
(* this module has what it does in between.                                *)
(*                                                                         *)
(* The factory's preflight and the worker go through the same EncodeRGB,   *)
(* whose CUDA calls are queued on a stream of the context and done by the  *)
(* GPU some time later.  External: the GPU does what is queued in order;   *)
(* a stream synchronization, also one that fails, returns when nothing is  *)
(* queued any more.  A picture is known by its number; 0 is the preflight's*)
(* sixteen by sixteen pixels.                                              *)
(***************************************************************************)
EXTENDS Integers, Sequences

CONSTANTS
  MaxJobs,     \* bound: pictures that are queued
  None

ASSUME JobsAssumption == MaxJobs \in Nat /\ None \notin 0..MaxJobs

VARIABLES
  policy,      \* snapshotJpegPolicy_
  plugin,      \* where Load, and later the destructor, is
  library,     \* dlopen has it
  objects,     \* which objects of the nvJPEG context exist, and it itself
  capacity,    \* deviceCapacity: 0, the preflight's 1, a picture's 2
  opened,      \* encoderStorage_
  at,          \* the call Open, its factory or Close has come to
  teardown,    \* what DestroyContext frees next, "no" outside of it
  record,      \* encoder->context and encoder->destroy are set
  threw,       \* history: the factory left by its catch
  fused,       \* snapshotJpegHardwareFusedOff_
  job, hand,   \* the picture that waits, and the one being encoded
  step,        \* where its encoding is
  stream, device, bitstream,  \* the GPU's: queued work, input, output
  jpeg,        \* what the module returns: the picture in it
  delivered,   \* the worker's last result
  jobs

openVars == <<at, teardown, record, threw>>
backendVars == <<library, objects, capacity, opened, openVars>>
gpuVars == <<stream, device, bitstream>>
pictureVars == <<fused, job, hand, step, gpuVars, jpeg, delivered, jobs>>
vars == <<policy, plugin, backendVars, pictureVars>>

\* The context, its CUDA stream, the nvJPEG handle, encoder state and parameters.
Parts == {"context", "stream", "handle", "state", "params"}
Probe == 0
SizeOf(picture) == IF picture = Probe THEN 1 ELSE 2
Copy(picture) == [op |-> "copy", of |-> picture]
Encode(picture) == [op |-> "encode", of |-> picture]

Init ==
  /\ policy \in {"auto", "hardware", "cpu"} /\ plugin = "loading"
  /\ library = FALSE /\ objects = {} /\ capacity = 0 /\ opened = FALSE
  /\ at = "outside" /\ teardown = "no" /\ record = FALSE /\ threw = FALSE
  /\ fused = FALSE /\ job = None /\ hand = None /\ step = "idle"
  /\ stream = <<>> /\ device = None /\ bitstream = None /\ jpeg = None
  /\ delivered = None /\ jobs = 0

----------------------------------------------------------------------------
(* EncodeRGBImpl, for the picture in hand. *)

\* Room on the device: what is too small goes before the new is had, and the
\* copy is queued.  Nothing is queued yet when that fails.
EncodeBegins ==
  /\ step = "begin"
  /\ \/ /\ capacity < SizeOf(hand) /\ capacity' = 0
        /\ step' = "failed" /\ UNCHANGED stream
     \/ /\ capacity' = IF capacity < SizeOf(hand) THEN SizeOf(hand) ELSE capacity
        /\ \/ step' = "failed" /\ UNCHANGED stream
           \/ step' = "copied" /\ stream' = Append(stream, Copy(hand))
  /\ UNCHANGED <<policy, plugin, library, objects, opened, openVars, fused, job,
                 hand, device, bitstream, jpeg, delivered, jobs>>

\* Mutant: a call that fails returns with the copy still queued.
AfterRefusedReturns == "failed"

\* A call that fails once the copy is queued synchronizes before it returns.
AfterRefused == "draining"

\* Quality, sampling, the encoding, the query of its size.
EncodeSubmits ==
  /\ step = "copied"
  /\ \/ stream' = Append(stream, Encode(hand))
          /\ step' \in {"encoding", AfterRefused}
     \/ step' = AfterRefused /\ UNCHANGED stream
  /\ UNCHANGED <<policy, plugin, backendVars, fused, job, hand, device,
                 bitstream, jpeg, delivered, jobs>>

\* Mutant: the size alone is enough to retrieve.
IsSynchronizedLate == step = "encoding" \/ stream = <<>>

IsSynchronized == stream = <<>>

EncodeSynchronizes ==
  /\ step \in {"encoding", "draining"} /\ IsSynchronized
  /\ step' \in IF step = "encoding" THEN {"retrieving", "failed"} ELSE {"failed"}
  /\ UNCHANGED <<policy, plugin, backendVars, fused, job, hand, gpuVars, jpeg,
                 delivered, jobs>>

\* Too long or not to be had; or its bytes, which must begin and end as a JPEG.
EncodeRetrieves ==
  /\ step = "retrieving"
  /\ \/ step' = "failed" /\ UNCHANGED jpeg
     \/ step' = "encoded" /\ jpeg' = bitstream
  /\ UNCHANGED <<policy, plugin, backendVars, fused, job, hand, gpuVars,
                 delivered, jobs>>

GPUCopies ==
  /\ stream # <<>> /\ Head(stream).op = "copy"
  /\ device' = IF hand = Head(stream).of THEN hand ELSE None
  /\ stream' = Tail(stream)
  /\ UNCHANGED <<policy, plugin, backendVars, fused, job, hand, step,
                 bitstream, jpeg, delivered, jobs>>

GPUEncodes ==
  /\ stream # <<>> /\ Head(stream).op = "encode"
  /\ bitstream' = device
  /\ stream' = Tail(stream)
  /\ UNCHANGED <<policy, plugin, backendVars, fused, job, hand, step, device,
                 jpeg, delivered, jobs>>

HardwareEncoder ==
  EncodeBegins \/ EncodeSubmits \/ EncodeSynchronizes \/ EncodeRetrieves

----------------------------------------------------------------------------
(* Load, up to SelectSnapshotJpegBackend, which has the library opened. *)

\* The policy "cpu" asks for no hardware.
SelectCPU ==
  /\ plugin = "loading" /\ policy = "cpu"
  /\ plugin' = "running"
  /\ UNCHANGED <<policy, backendVars, pictureVars>>

\* Without hardware "auto" goes on, and "hardware" gives up.
Selected == IF policy = "auto" THEN "running" ELSE "refused"

\* dlopen finds no library.
OpenFails ==
  /\ plugin = "loading" /\ policy # "cpu" /\ at = "outside"
  /\ plugin' = Selected
  /\ UNCHANGED <<policy, backendVars, pictureVars>>

\* It does, with the factory's symbol or without.
Open ==
  /\ plugin = "loading" /\ policy # "cpu" /\ at = "outside"
  /\ library' = TRUE /\ at' \in {"count", "closing"}
  /\ UNCHANGED <<policy, plugin, objects, capacity, opened, teardown, record,
                 threw, pictureVars>>

\* The factory's call at "call" succeeds and makes these parts.
Makes(call, next, parts) ==
  /\ at = call /\ teardown = "no"
  /\ at' = next /\ objects' = objects \cup parts

Create ==
  /\ \/ Makes("count", "context", {}) \/ Makes("context", "device", {"context"})
     \/ Makes("device", "stream", {}) \/ Makes("stream", "handle", {"stream"})
     \/ Makes("handle", "state", {"handle"}) \/ Makes("state", "params", {"state"})
     \/ Makes("params", "configure", {"params"})
     \/ Makes("configure", "synchronize", {})
  /\ UNCHANGED <<policy, plugin, library, capacity, opened, teardown, record,
                 threw, pictureVars>>

\* The last one is an encoding of its own ...
Preflight ==
  /\ Makes("synchronize", "preflight", {})
  /\ hand' = Probe /\ step' = "begin"
  /\ UNCHANGED <<policy, plugin, library, capacity, opened, teardown, record,
                 threw, fused, job, gpuVars, jpeg, delivered, jobs>>

CreateCalls == {"count", "context", "device", "stream", "handle", "state",
                "params", "configure", "synchronize"}

\* Mutant: a preflight that fails returns as it is.
ExitsButPreflight == CreateCalls \ {"count", "context"}

\* The calls whose failure goes through a DestroyContext of its own.
ExitsThatDestroy == (CreateCalls \ {"count", "context"}) \cup {"preflight"}

\* ... of which any may fail.  So may the allocation of the message about it:
\* the catch returns as well, and destroys nothing.
CreateFails ==
  /\ teardown = "no"
  /\ \/ at \in CreateCalls /\ UNCHANGED <<hand, step>>
     \/ at = "preflight" /\ step = "failed" /\ hand' = None /\ step' = "idle"
  /\ \/ at \in ExitsThatDestroy /\ teardown' = "memory" /\ UNCHANGED <<at, threw>>
     \/ at \notin ExitsThatDestroy /\ at' = "returned" /\ UNCHANGED <<teardown, threw>>
     \/ threw' = TRUE /\ at' = "returned" /\ UNCHANGED teardown
  /\ UNCHANGED <<policy, plugin, library, objects, capacity, opened, record,
                 fused, job, gpuVars, jpeg, delivered, jobs>>

\* The factory fills the record in.
CreateSucceeds ==
  /\ at = "preflight" /\ step = "encoded"
  /\ at' = "record" /\ record' = TRUE
  /\ hand' = None /\ step' = "idle" /\ jpeg' = None
  /\ UNCHANGED <<policy, plugin, library, objects, capacity, opened, teardown,
                 threw, fused, job, gpuVars, delivered, jobs>>

\* The record is of this ABI, and the backend's from now on ...
Install ==
  /\ at = "record"
  /\ at' = "outside" /\ opened' = TRUE /\ plugin' = "running"
  /\ UNCHANGED <<policy, library, objects, capacity, teardown, record, threw,
                 pictureVars>>

\* ... or is not: then, and when there is none, Open cleans up.
OpenCleansUp ==
  /\ at \in {"record", "returned"} /\ teardown = "no"
  /\ IF record THEN at' = "destroying" /\ teardown' = "memory"
               ELSE at' = "closing" /\ UNCHANGED teardown
  /\ UNCHANGED <<policy, plugin, library, objects, capacity, opened, record,
                 threw, pictureVars>>

Destroys(part, next) ==
  /\ teardown = part /\ teardown' = next
  /\ objects' = objects \ {part}

\* DestroyContext: it synchronizes, frees the memory and what else there is, and
\* returns to its caller.
DestroyContext ==
  /\ \/ /\ teardown = "memory" /\ teardown' = "params"
        /\ stream = <<>> /\ capacity' = 0
        /\ UNCHANGED <<at, objects>>
     \/ /\ \/ Destroys("params", "state") \/ Destroys("state", "handle")
           \/ Destroys("handle", "stream") \/ Destroys("stream", "context")
        /\ UNCHANGED <<at, capacity>>
     \/ /\ Destroys("context", "no")
        /\ at' = IF at = "destroying" THEN "closing" ELSE "returned"
        /\ UNCHANGED capacity
  /\ UNCHANGED <<policy, plugin, library, opened, record, threw, pictureVars>>

\* The rest of Close, for Load and for the destructor.
CloseLibrary ==
  /\ at = "closing" /\ at' = "outside"
  /\ library' = FALSE /\ opened' = FALSE /\ record' = FALSE
  /\ plugin' = IF plugin = "loading" THEN Selected ELSE "closed"
  /\ UNCHANGED <<policy, objects, capacity, teardown, threw, pictureVars>>

Load ==
  \/ SelectCPU \/ OpenFails \/ Open \/ Create \/ Preflight \/ CreateFails
  \/ CreateSucceeds \/ Install \/ OpenCleansUp

----------------------------------------------------------------------------
(* SnapshotEncoderLoop. *)

\* QueueSnapshotEncode, by the render thread.
QueueSnapshotEncode ==
  /\ plugin = "running" /\ job = None /\ jobs < MaxJobs
  /\ job' = jobs + 1 /\ jobs' = jobs + 1
  /\ UNCHANGED <<policy, plugin, backendVars, fused, hand, step, gpuVars, jpeg,
                 delivered>>

TryHardware == opened /\ ~fused

WorkerTakes ==
  /\ plugin = "running" /\ step = "idle" /\ job # None
  /\ hand' = job /\ job' = None
  /\ step' = IF TryHardware THEN "begin" ELSE "cpu"
  /\ UNCHANGED <<policy, plugin, backendVars, fused, gpuVars, jpeg, delivered,
                 jobs>>

AllowCPUFallback == policy = "auto"

\* The result of the picture in hand becomes the snapshot.
Deliver(backend, shown) ==
  /\ delivered' = [picture |-> hand, backend |-> backend, shown |-> shown]
  /\ hand' = None /\ step' = "idle" /\ jpeg' = None

IsWorker == plugin \in {"running", "stopping"}

HardwareDelivers ==
  /\ IsWorker
  /\ \/ step = "encoded" /\ Deliver("hardware", jpeg)
     \/ step = "failed" /\ ~AllowCPUFallback /\ Deliver("hardware", None)
  /\ UNCHANGED <<policy, plugin, backendVars, fused, job, gpuVars, jobs>>

FallsBack ==
  /\ IsWorker /\ step = "failed" /\ AllowCPUFallback
  /\ fused' = TRUE /\ step' = "cpu"
  /\ UNCHANGED <<policy, plugin, backendVars, job, hand, gpuVars, jpeg,
                 delivered, jobs>>

\* EncodeSnapshotJpegCPU: libjpeg jumps out of it, or not.
CPUDelivers ==
  /\ IsWorker /\ step = "cpu"
  /\ \E shown \in {hand, None} : Deliver("cpu", shown)
  /\ UNCHANGED <<policy, plugin, backendVars, fused, job, gpuVars, jobs>>

Worker == WorkerTakes \/ HardwareDelivers \/ FallsBack \/ CPUDelivers

----------------------------------------------------------------------------
(* ~XGCMediaCameraPlugin: StopSnapshotEncoder, the join, Close. *)

StopSnapshotEncoder ==
  /\ plugin = "running"
  /\ plugin' = "stopping" /\ job' = None
  /\ UNCHANGED <<policy, backendVars, fused, hand, step, gpuVars, jpeg,
                 delivered, jobs>>

Close ==
  /\ plugin = "stopping" /\ step = "idle" /\ at = "outside"
  /\ IF opened THEN at' = "destroying" /\ teardown' = "memory"
               ELSE at' = "closing" /\ UNCHANGED teardown
  /\ UNCHANGED <<policy, plugin, library, objects, capacity, opened, record,
                 threw, pictureVars>>

CleanUp == DestroyContext \/ CloseLibrary

GPU == GPUCopies \/ GPUEncodes

Next ==
  \/ Load \/ HardwareEncoder \/ GPU \/ QueueSnapshotEncode \/ Worker
  \/ StopSnapshotEncoder \/ Close \/ CleanUp

Spec == Init /\ [][Next]_vars

----------------------------------------------------------------------------
(* Properties. *)

Pictures == 0..MaxJobs

\* The backend's and the context's part of it.
BackendTypeOK ==
  /\ policy \in {"auto", "hardware", "cpu"}
  /\ plugin \in {"loading", "running", "refused", "stopping", "closed"}
  /\ library \in BOOLEAN /\ opened \in BOOLEAN
  /\ record \in BOOLEAN /\ threw \in BOOLEAN
  /\ objects \subseteq Parts /\ capacity \in 0..2
  /\ at \in CreateCalls \cup {"outside", "preflight", "record", "returned",
                             "destroying", "closing"}
  /\ teardown \in Parts \cup {"no", "memory"}

\* The pictures' and the GPU's.
PictureTypeOK ==
  /\ fused \in BOOLEAN
  /\ job \in Pictures \cup {None} /\ hand \in Pictures \cup {None}
  /\ step \in {"idle", "begin", "copied", "encoding", "draining", "retrieving",
               "failed", "encoded", "cpu"}
  /\ stream \in Seq([op : {"copy", "encode"}, of : Pictures])
  /\ {device, bitstream, jpeg} \subseteq Pictures \cup {None}
  /\ delivered \in {None} \cup [picture : Pictures, backend : {"cpu", "hardware"},
                                shown : Pictures \cup {None}]
  /\ jobs \in 0..MaxJobs

\* The type invariant: where Load, the encoding and the GPU can be.
TypeOK == BackendTypeOK /\ PictureTypeOK

\* Whatever CUDA call fails, the GPU works only for the picture in hand, whose
\* memory the caller of EncodeRGB frees or gives away when that returns, only
\* with a context and a library that are still there, and never again once the
\* fuse has blown (EncodeRGBImpl, the loop, Close and the join before it).
GPUReadsWhatIsHeld ==
  /\ \A i \in DOMAIN stream : stream[i].of = hand
  /\ (stream # <<>> \/ step \in {"begin", "copied", "encoding", "retrieving"})
       => library /\ objects = Parts /\ ~fused
  /\ stream # <<>> => capacity >= SizeOf(hand)

\* A JPEG shows the picture it is delivered for, never what an earlier one,
\* which may have failed half way, left on the device; "hardware" never delivers
\* what the CPU encoded, and "auto" fails a picture only when the CPU did so too.
ResultFitsPictureAndPolicy ==
  delivered # None =>
    /\ delivered.shown \in {delivered.picture, None}
    /\ policy = "hardware" => delivered.backend = "hardware"
    /\ policy = "auto" /\ delivered.shown = None => delivered.backend = "cpu"

\* What an object of the context is made of or used through.
Needs ==
  [context |-> {}, stream |-> {"context"}, handle |-> {"context"},
   state |-> {"handle", "stream"}, params |-> {"handle", "stream"}]

\* At whichever call of the factory it goes wrong, in Open, and in the destructor
\* the context is destroyed by one of its three owners in turn and by one only,
\* in an order in which nothing outlives what it needs, the library least of
\* all, and nothing is left.  Only a factory that leaves by its catch leaves
\* behind what it has made.
NothingIsLeft ==
  /\ plugin # "loading" /\ ~opened => ~library
  /\ \A part \in objects : Needs[part] \subseteq objects
  /\ teardown # "no" => library /\ "context" \in objects
  /\ ~threw =>
       /\ objects # {} \/ capacity > 0 => library /\ "context" \in objects
       /\ plugin # "loading" /\ ~opened => objects = {}
=============================================================================
