------------------------- MODULE SnapshotJpegProofs -------------------------
(***************************************************************************)
(* What holds of SnapshotJpeg for every number of pictures.                *)
(***************************************************************************)
EXTENDS SnapshotJpeg, SequenceTheorems, TLAPS

(***************************************************************************)
(* The invariant follows the life of the module and the picture in hand.   *)
(***************************************************************************)
Encoding == {"begin", "copied", "encoding", "draining", "retrieving"}

\* Who has the library and the context: Load, which opens them, then the
\* backend, until the destructor.
LifeInv ==
  /\ plugin = "loading" => ~opened /\ (library <=> at # "outside")
  /\ plugin # "loading" => (library <=> opened)
  /\ plugin \in {"running", "refused", "closed"} => at = "outside"
  /\ plugin = "stopping" => at \in {"outside", "destroying", "closing"}
  /\ plugin \in {"refused", "closed"} => ~opened
  /\ at = "destroying" => library /\ teardown # "no"
  /\ teardown # "no" => at \in ExitsThatDestroy \cup {"destroying"}
  /\ at = "record" => record
  /\ plugin = "loading" /\ at = "outside" => ~record
  /\ at \in CreateCalls \cup {"preflight", "returned"} => ~record
  /\ threw => /\ ~opened /\ ~record
              /\ plugin = "loading" => at \in {"returned", "closing"}

\* When a picture is encoded.
StepInv ==
  /\ step # "idle" =>
       \/ plugin = "loading" /\ at = "preflight" /\ teardown = "no"
       \/ plugin \in {"running", "stopping"} /\ at = "outside"
  /\ at = "preflight" /\ teardown = "no" => step # "idle"

\* What exists at each call, as long as nothing is being destroyed.
MadeInv ==
  teardown = "no" =>
    /\ at \in {"count", "context"} => objects = {}
    /\ at \in {"device", "stream"} => objects = {"context"}
    /\ at = "handle" => objects = {"context", "stream"}
    /\ at = "state" => objects = {"context", "stream", "handle"}
    /\ at = "params" => objects = {"context", "stream", "handle", "state"}
    /\ at \in {"configure", "synchronize", "preflight", "record"} => objects = Parts
    /\ at = "outside" /\ opened => objects = Parts
    /\ at \in {"returned", "closing"} \/ (at = "outside" /\ ~opened)
         => threw \/ (objects = {} /\ capacity = 0)

\* What still exists while a context is being destroyed, and what it stands on.
TeardownInv ==
  /\ teardown # "no" => "context" \in objects
  /\ teardown \in {"state", "handle", "stream", "context"} => "params" \notin objects
  /\ teardown \in {"handle", "stream", "context"} => "state" \notin objects
  /\ teardown \in {"stream", "context"} => "handle" \notin objects
  /\ teardown = "context" => "stream" \notin objects
  /\ at \in CreateCalls \/ teardown \in Parts => capacity = 0
  /\ "stream" \in objects \/ "handle" \in objects => "context" \in objects
  /\ "state" \in objects \/ "params" \in objects =>
       "handle" \in objects /\ "stream" \in objects

ModuleInv == LifeInv /\ StepInv /\ MadeInv /\ TeardownInv

\* Which backend may be at work: the one Load opened until its fuse blows, and
\* the CPU's never under the policy "hardware".
PolicyInv ==
  /\ fused => policy = "auto"
  /\ policy = "hardware" /\ plugin \in {"running", "stopping"} => opened
  /\ library => policy # "cpu"
  /\ plugin = "loading" => ~fused /\ ~opened /\ step # "cpu"
  /\ step = "cpu" => policy # "hardware"
  /\ step \in Encoding => ~fused /\ (plugin = "loading" \/ opened)
  /\ step \in {"failed", "encoded"} => ~fused

\* What the GPU still has to do for the picture in hand, and what it has done.
StreamInv ==
  LET c == Copy(hand)
      e == Encode(hand)
  IN  /\ step = "copied" =>
           stream = <<c>> \/ (stream = <<>> /\ device = hand)
      /\ step = "encoding" =>
           \/ stream = <<c, e>>
           \/ stream = <<e>> /\ device = hand
           \/ stream = <<>> /\ bitstream = hand
      /\ step = "draining" =>
           stream = <<c, e>> \/ stream = <<c>> \/ stream = <<e>> \/ stream = <<>>
      /\ step = "retrieving" => bitstream = hand
      /\ step \notin {"copied", "encoding", "draining"} => stream = <<>>

\* The picture in hand, and the one in its JPEG.
HandInv ==
  /\ step = "idle" <=> hand = None
  /\ stream # <<>> => capacity >= SizeOf(hand)
  /\ step \in {"copied", "encoding"} => capacity >= SizeOf(hand)
  /\ step = "encoded" => jpeg = hand

Inv ==
  /\ TypeOK /\ ModuleInv /\ PolicyInv /\ StreamInv /\ HandInv
  /\ ResultFitsPictureAndPolicy

(***************************************************************************)
(* A stream of at most two operations.                                     *)
(***************************************************************************)
Ops == [op : {"copy", "encode"}, of : Pictures]

\* A second operation behind the first.
LEMMA AppendSecond ==
  ASSUME NEW S, NEW a \in S, NEW b \in S
  PROVE  Append(<<a>>, b) = <<a, b>>
<1> DEFINE s == Append(<<a>>, b)
           t == <<a, b>>
<1>1. <<a>> \in Seq(S) /\ t \in Seq(S) /\ Len(<<a>>) = 1
  OBVIOUS
<1>2. Len(t) = 2 /\ t[1] = a /\ t[2] = b
  OBVIOUS
<1>3. s \in Seq(S) /\ Len(s) = 2 /\ s[1] = a /\ s[2] = b
  BY <1>1, AppendProperties
<1>4. \A i \in 1..Len(s) : s[i] = t[i]
  <2> TAKE i \in 1..Len(s)
  <2>1. i = 1 \/ i = 2
    BY <1>3
  <2> QED
    BY <2>1, <1>2, <1>3
<1> HIDE DEF s, t
<1> QED
  BY <1>1, <1>2, <1>3, <1>4, SeqEqual DEF s, t

\* What queueing and taking an operation do to such a stream.
LEMMA ShortStream ==
  ASSUME NEW S, NEW a \in S, NEW b \in S
  PROVE  /\ <<>> \in Seq(S) /\ <<a>> \in Seq(S) /\ <<a, b>> \in Seq(S)
         /\ <<a>> # <<>> /\ <<a, b>> # <<>>
         /\ Append(<<>>, a) = <<a>> /\ Append(<<a>>, b) = <<a, b>>
         /\ Head(<<a>>) = a /\ Tail(<<a>>) = <<>>
         /\ Head(<<a, b>>) = a /\ Tail(<<a, b>>) = <<b>>
<1>1. <<>> \in Seq(S) /\ <<a>> \in Seq(S) /\ <<a, b>> \in Seq(S)
  OBVIOUS
<1>2. <<a>> # <<>>
  OBVIOUS
<1>3. <<a, b>> # <<>>
  OBVIOUS
<1>4. Append(<<>>, a) = <<a>>
  OBVIOUS
<1>5. Head(<<a>>) = a
  OBVIOUS
<1>6. Tail(<<a>>) = <<>>
  OBVIOUS
<1>7. Head(<<a, b>>) = a
  OBVIOUS
<1>8. Tail(<<a, b>>) = <<b>>
  OBVIOUS
<1> QED
  BY <1>1, <1>2, <1>3, <1>4, <1>5, <1>6, <1>7, <1>8, AppendSecond

\* The two operations of a picture.
LEMMA OpsOf ==
  ASSUME NEW picture \in Pictures
  PROVE  /\ Copy(picture) \in Ops /\ Encode(picture) \in Ops
         /\ Copy(picture).op = "copy" /\ Copy(picture).of = picture
         /\ Encode(picture).op = "encode" /\ Encode(picture).of = picture
         /\ Copy(picture) # Encode(picture)
  BY DEF Copy, Encode, Ops

\* The same, of the streams a picture can have.
LEMMA StreamOf ==
  ASSUME NEW picture \in Pictures
  PROVE  LET c == Copy(picture)
             e == Encode(picture)
         IN  /\ <<>> \in Seq(Ops) /\ <<c>> \in Seq(Ops)
             /\ <<e>> \in Seq(Ops) /\ <<c, e>> \in Seq(Ops)
             /\ <<c>> # <<>> /\ <<e>> # <<>> /\ <<c, e>> # <<>>
             /\ Append(<<>>, c) = <<c>> /\ Append(<<>>, e) = <<e>>
             /\ Append(<<c>>, e) = <<c, e>>
             /\ Head(<<c>>) = c /\ Tail(<<c>>) = <<>>
             /\ Head(<<e>>) = e /\ Tail(<<e>>) = <<>>
             /\ Head(<<c, e>>) = c /\ Tail(<<c, e>>) = <<e>>
  BY OpsOf, ShortStream

(***************************************************************************)
(* The invariant.                                                          *)
(***************************************************************************)
\* Load before its first step.
LEMMA InitInv == Init => Inv
<1> SUFFICES ASSUME Init PROVE Inv
  OBVIOUS
<1>1. TypeOK
  <2>1. <<>> \in Seq(Ops)
    OBVIOUS
  <2>2. 0 \in 0..2 /\ 0 \in 0..MaxJobs
    BY JobsAssumption
  <2> QED
    BY <2>1, <2>2, Zenon DEF Init, TypeOK, BackendTypeOK, PictureTypeOK,
       Pictures, Ops
<1>2. ModuleInv /\ PolicyInv
  BY DEF Init, ModuleInv, LifeInv, StepInv, MadeInv, TeardownInv, PolicyInv,
     Parts, CreateCalls, Encoding
<1>3. StreamInv /\ HandInv /\ ResultFitsPictureAndPolicy
  BY DEF Init, StreamInv, HandInv, ResultFitsPictureAndPolicy
<1> QED
  BY <1>1, <1>2, <1>3 DEF Inv

\* What the worker, the GPU and the render thread do leaves the module as it is.
Work ==
  HardwareEncoder \/ GPU \/ QueueSnapshotEncode \/ Worker \/ StopSnapshotEncoder

LEMMA WorkKeepsModule ==
  ASSUME Inv, Work
  PROVE  /\ UNCHANGED <<library, objects, opened, openVars>>
         /\ plugin' = plugin \/ (plugin = "running" /\ plugin' = "stopping")
         /\ step' # "idle" => step # "idle" \/ plugin = "running"
         /\ plugin = "loading" => step' # "idle" \/ step = "idle"
         /\ capacity' = capacity \/ step = "begin"
<1>1. CASE HardwareEncoder
  BY <1>1 DEF HardwareEncoder, EncodeBegins, EncodeSubmits, EncodeSynchronizes,
     EncodeRetrieves, AfterRefused, backendVars, openVars
<1>2. CASE GPU
  BY <1>2 DEF GPU, GPUCopies, GPUEncodes, backendVars, openVars
<1>3. CASE QueueSnapshotEncode \/ StopSnapshotEncoder
  BY <1>3 DEF QueueSnapshotEncode, StopSnapshotEncoder, backendVars, openVars
<1>4. CASE Worker
  BY <1>4 DEF Worker, WorkerTakes, HardwareDelivers, FallsBack, CPUDelivers,
     Deliver, IsWorker, TryHardware, backendVars, openVars
<1> QED
  BY <1>1, <1>2, <1>3, <1>4 DEF Work

\* Load without the hardware changes nothing else.
LEMMA NoHardware ==
  ASSUME Inv, SelectCPU \/ OpenFails
  PROVE  /\ UNCHANGED <<library, objects, capacity, opened, at, teardown, record, threw>>
         /\ step' = step
         /\ plugin = "loading" /\ plugin' \in {"running", "refused"}
         /\ at = "outside" /\ ~library /\ ~opened /\ step = "idle" /\ ~threw
<1>1. /\ UNCHANGED <<library, objects, capacity, opened, at, teardown, record, threw>>
      /\ step' = step
  BY Zenon DEF SelectCPU, OpenFails, backendVars, openVars, pictureVars
<1>2. plugin = "loading" /\ plugin' \in {"running", "refused"}
  BY DEF SelectCPU, OpenFails, Selected
<1>3. at = "outside"
  <2>1. CASE SelectCPU
    BY <2>1 DEF SelectCPU, Inv, ModuleInv, LifeInv, PolicyInv
  <2>2. CASE OpenFails
    BY <2>2 DEF OpenFails
  <2> QED
    BY <2>1, <2>2
<1>4. ~library /\ ~opened /\ ~threw
  BY <1>2, <1>3 DEF Inv, TypeOK, BackendTypeOK, ModuleInv, LifeInv
<1>5. step = "idle"
  BY <1>2, <1>3 DEF Inv, ModuleInv, StepInv
<1> QED
  BY ONLY <1>1, <1>2, <1>3, <1>4, <1>5

\* The context and the library pass from one owner to the next.
LEMMA LifeStep == Inv /\ [Next]_vars => LifeInv'
<1> SUFFICES ASSUME Inv, [Next]_vars PROVE LifeInv'
  OBVIOUS
<1> USE DEF Inv, TypeOK, BackendTypeOK, ModuleInv, LifeInv, StepInv, CreateCalls,
    ExitsThatDestroy
<1>1. CASE Work
  BY <1>1, WorkKeepsModule DEF openVars
<1>2. CASE SelectCPU \/ OpenFails
  BY <1>2, NoHardware
<1>3. CASE Open
  <2>1. UNCHANGED <<plugin, opened, teardown, record, threw, objects, capacity, step>>
    BY <1>3, Zenon DEF Open, pictureVars
  <2> QED
    BY <1>3, <2>1 DEF Open
<1>4. CASE Create
  BY <1>4 DEF Create, Makes, pictureVars
<1>5. CASE Preflight
  BY <1>5 DEF Preflight, Makes
<1>6. CASE CreateFails
  BY <1>6 DEF CreateFails
<1>7. CASE CreateSucceeds
  BY <1>7 DEF CreateSucceeds
<1>8. CASE Install
  BY <1>8 DEF Install, pictureVars
<1>9. CASE OpenCleansUp
  BY <1>9 DEF OpenCleansUp, pictureVars
<1>10. CASE Close
  BY <1>10 DEF Close, pictureVars
<1>11. CASE DestroyContext
  BY <1>11 DEF DestroyContext, Destroys, pictureVars
<1>12. CASE CloseLibrary
  BY <1>12 DEF CloseLibrary, Selected, pictureVars
<1>13. CASE UNCHANGED vars
  BY <1>13 DEF vars, backendVars, openVars, pictureVars
<1> QED
  BY <1>1, <1>2, <1>3, <1>4, <1>5, <1>6, <1>7, <1>8, <1>9, <1>10, <1>11, <1>12,
     <1>13
     DEF Next, Load, CleanUp, Work

\* Pictures are encoded in the preflight, and between Load and the destructor.
LEMMA StepStep == Inv /\ [Next]_vars => StepInv'
<1> SUFFICES ASSUME Inv, [Next]_vars PROVE StepInv'
  OBVIOUS
<1> USE DEF Inv, TypeOK, BackendTypeOK, ModuleInv, LifeInv, StepInv, CreateCalls,
    ExitsThatDestroy
<1>1. CASE Work
  BY <1>1, WorkKeepsModule DEF openVars
<1>2. CASE SelectCPU \/ OpenFails
  BY <1>2, NoHardware
<1>3. CASE Open
  <2>1. UNCHANGED <<plugin, opened, teardown, record, threw, objects, capacity, step>>
    BY <1>3, Zenon DEF Open, pictureVars
  <2> QED
    BY <1>3, <2>1 DEF Open
<1>4. CASE Create
  BY <1>4 DEF Create, Makes, pictureVars
<1>5. CASE Preflight
  BY <1>5 DEF Preflight, Makes
<1>6. CASE CreateFails
  BY <1>6 DEF CreateFails
<1>7. CASE CreateSucceeds
  BY <1>7 DEF CreateSucceeds
<1>8. CASE Install
  BY <1>8 DEF Install, pictureVars
<1>9. CASE OpenCleansUp
  BY <1>9 DEF OpenCleansUp, pictureVars
<1>10. CASE Close
  BY <1>10 DEF Close, pictureVars
<1>11. CASE DestroyContext
  BY <1>11 DEF DestroyContext, Destroys, pictureVars
<1>12. CASE CloseLibrary
  BY <1>12 DEF CloseLibrary, Selected, pictureVars
<1>13. CASE UNCHANGED vars
  BY <1>13 DEF vars, backendVars, openVars, pictureVars
<1> QED
  BY <1>1, <1>2, <1>3, <1>4, <1>5, <1>6, <1>7, <1>8, <1>9, <1>10, <1>11, <1>12,
     <1>13
     DEF Next, Load, CleanUp, Work

\* Each call of the factory makes what the next one needs.
LEMMA MadeStep == Inv /\ [Next]_vars => MadeInv'
<1> SUFFICES ASSUME Inv, [Next]_vars PROVE MadeInv'
  OBVIOUS
<1> USE DEF Inv, TypeOK, BackendTypeOK, ModuleInv, LifeInv, StepInv, MadeInv,
    TeardownInv, PolicyInv,
    Parts, CreateCalls, ExitsThatDestroy, Encoding
<1>1. CASE Work
  BY <1>1, WorkKeepsModule DEF openVars
<1>2. CASE SelectCPU \/ OpenFails
  BY <1>2, NoHardware
<1>3. CASE Open
  <2>1. UNCHANGED <<plugin, opened, teardown, record, threw, objects, capacity, step>>
    BY <1>3, Zenon DEF Open, pictureVars
  <2> QED
    BY <1>3, <2>1 DEF Open
<1>4. CASE Create
  BY <1>4 DEF Create, Makes, pictureVars
<1>5. CASE Preflight
  BY <1>5 DEF Preflight, Makes
<1>6. CASE CreateFails
  BY <1>6 DEF CreateFails
<1>7. CASE CreateSucceeds
  BY <1>7 DEF CreateSucceeds
<1>8. CASE Install
  BY <1>8 DEF Install, pictureVars
<1>9. CASE OpenCleansUp
  BY <1>9 DEF OpenCleansUp, pictureVars
<1>10. CASE Close
  BY <1>10 DEF Close, pictureVars
<1>11. CASE DestroyContext
  BY <1>11 DEF DestroyContext, Destroys, pictureVars
<1>12. CASE CloseLibrary
  BY <1>12 DEF CloseLibrary, Selected, pictureVars
<1>13. CASE UNCHANGED vars
  BY <1>13 DEF vars, backendVars, openVars, pictureVars
<1> QED
  BY <1>1, <1>2, <1>3, <1>4, <1>5, <1>6, <1>7, <1>8, <1>9, <1>10, <1>11, <1>12,
     <1>13
     DEF Next, Load, CleanUp, Work

\* They are destroyed in an order that keeps what is still needed.
LEMMA TeardownStep == Inv /\ [Next]_vars => TeardownInv'
<1> SUFFICES ASSUME Inv, [Next]_vars PROVE TeardownInv'
  OBVIOUS
<1> USE DEF Inv, TypeOK, BackendTypeOK, ModuleInv, LifeInv, StepInv, MadeInv,
    TeardownInv, PolicyInv,
    Parts, CreateCalls, ExitsThatDestroy, Encoding
<1>1. CASE Work
  BY <1>1, WorkKeepsModule DEF openVars
<1>2. CASE SelectCPU \/ OpenFails
  BY <1>2, NoHardware
<1>3. CASE Open
  <2>1. UNCHANGED <<plugin, opened, teardown, record, threw, objects, capacity, step>>
    BY <1>3, Zenon DEF Open, pictureVars
  <2> QED
    BY <1>3, <2>1 DEF Open
<1>4. CASE Create
  BY <1>4 DEF Create, Makes, pictureVars
<1>5. CASE Preflight
  BY <1>5 DEF Preflight, Makes
<1>6. CASE CreateFails
  BY <1>6 DEF CreateFails
<1>7. CASE CreateSucceeds
  BY <1>7 DEF CreateSucceeds
<1>8. CASE Install
  BY <1>8 DEF Install, pictureVars
<1>9. CASE OpenCleansUp
  BY <1>9 DEF OpenCleansUp, pictureVars
<1>10. CASE Close
  BY <1>10 DEF Close, pictureVars
<1>11. CASE DestroyContext
  BY <1>11 DEF DestroyContext, Destroys, pictureVars
<1>12. CASE CloseLibrary
  BY <1>12 DEF CloseLibrary, Selected, pictureVars
<1>13. CASE UNCHANGED vars
  BY <1>13 DEF vars, backendVars, openVars, pictureVars
<1> QED
  BY <1>1, <1>2, <1>3, <1>4, <1>5, <1>6, <1>7, <1>8, <1>9, <1>10, <1>11, <1>12,
     <1>13
     DEF Next, Load, CleanUp, Work

\* All of that.
LEMMA ModuleStep == Inv /\ [Next]_vars => ModuleInv'
  BY LifeStep, StepStep, MadeStep, TeardownStep DEF ModuleInv

\* The fuse, and a policy that leaves no choice.
LEMMA PolicyStep == Inv /\ [Next]_vars => PolicyInv'
<1> SUFFICES ASSUME Inv, [Next]_vars PROVE PolicyInv'
  OBVIOUS
<1> USE DEF Inv, TypeOK, BackendTypeOK, ModuleInv, LifeInv, StepInv, PolicyInv, Encoding,
    CreateCalls, ExitsThatDestroy
<1>1. CASE HardwareEncoder
  BY <1>1 DEF HardwareEncoder, EncodeBegins, EncodeSubmits, EncodeSynchronizes,
     EncodeRetrieves, AfterRefused, backendVars, openVars
<1>2. CASE GPU
  BY <1>2 DEF GPU, GPUCopies, GPUEncodes, backendVars
<1>3. CASE SelectCPU \/ OpenFails \/ Open
  BY <1>3 DEF SelectCPU, OpenFails, Open, Selected, backendVars, pictureVars
<1>4. CASE Create \/ CreateFails \/ OpenCleansUp \/ Install
  BY <1>4 DEF Create, CreateFails, OpenCleansUp, Install, pictureVars
<1>5. CASE Preflight \/ CreateSucceeds
  BY <1>5 DEF Preflight, Makes, CreateSucceeds
<1>6. CASE QueueSnapshotEncode \/ StopSnapshotEncoder
  BY <1>6 DEF QueueSnapshotEncode, StopSnapshotEncoder, backendVars
<1>7. CASE WorkerTakes
  BY <1>7 DEF WorkerTakes, TryHardware, backendVars
<1>8. CASE HardwareDelivers \/ CPUDelivers
  BY <1>8 DEF HardwareDelivers, CPUDelivers, Deliver, IsWorker, backendVars
<1>9. CASE FallsBack
  BY <1>9 DEF FallsBack, IsWorker, AllowCPUFallback, backendVars
<1>10. CASE Close \/ DestroyContext
  BY <1>10 DEF Close, DestroyContext, pictureVars
<1>11. CASE CloseLibrary
  BY <1>11 DEF CloseLibrary, Selected, pictureVars
<1>12. CASE UNCHANGED vars
  BY <1>12 DEF vars, backendVars, pictureVars
<1> QED
  BY <1>1, <1>2, <1>3, <1>4, <1>5, <1>6, <1>7, <1>8, <1>9, <1>10, <1>11, <1>12
     DEF Next, Load, Worker, CleanUp

\* The picture in hand changes with the step, and never under a queued operation.
LEMMA HandStep == Inv /\ [Next]_vars => HandInv'
<1> SUFFICES ASSUME Inv, [Next]_vars PROVE HandInv'
  OBVIOUS
<1> USE DEF Inv, TypeOK, BackendTypeOK, PictureTypeOK, StreamInv, HandInv, ModuleInv, LifeInv, StepInv,
    PolicyInv, SizeOf
<1> USE DEF Encoding, CreateCalls
<1>1. CASE EncodeBegins \/ EncodeSubmits \/ EncodeSynchronizes
  <2>1. CASE EncodeBegins
    BY <2>1 DEF EncodeBegins
  <2>2. CASE EncodeSubmits
    BY <2>2 DEF EncodeSubmits, AfterRefused, backendVars
  <2>3. CASE EncodeSynchronizes
    BY <2>3 DEF EncodeSynchronizes, IsSynchronized, backendVars, gpuVars
  <2> QED
    BY <1>1, <2>1, <2>2, <2>3
<1>2. CASE EncodeRetrieves
  BY <1>2 DEF EncodeRetrieves, gpuVars
<1>3. CASE GPUCopies \/ GPUEncodes
  BY <1>3 DEF GPUCopies, GPUEncodes, backendVars
<1>4. CASE SelectCPU \/ OpenFails \/ Open
  BY <1>4 DEF SelectCPU, OpenFails, Open, backendVars, pictureVars, gpuVars
<1>5. CASE Preflight
  BY <1>5, JobsAssumption DEF Preflight, Makes, Probe, gpuVars
<1>6. CASE Create \/ CreateFails \/ CreateSucceeds \/ Install \/ OpenCleansUp
  BY <1>6 DEF Create, CreateFails, CreateSucceeds, Install, OpenCleansUp,
     pictureVars, gpuVars
<1>7. CASE QueueSnapshotEncode \/ StopSnapshotEncoder
  BY <1>7 DEF QueueSnapshotEncode, StopSnapshotEncoder, backendVars, gpuVars
<1>8. CASE WorkerTakes
  BY <1>8 DEF WorkerTakes, gpuVars
<1>9. CASE HardwareDelivers \/ FallsBack \/ CPUDelivers
  BY <1>9 DEF HardwareDelivers, FallsBack, CPUDelivers, Deliver, gpuVars
<1>10. CASE Close \/ CloseLibrary
  BY <1>10 DEF Close, CloseLibrary, pictureVars, gpuVars
<1>11. CASE DestroyContext
  <2>1. /\ UNCHANGED <<hand, step, stream, jpeg>>
        /\ capacity' = capacity \/ stream = <<>>
        /\ teardown # "no"
    BY <1>11 DEF DestroyContext, Destroys, pictureVars, gpuVars
  <2>2. step = "idle"
    BY <2>1 DEF ExitsThatDestroy
  <2> QED
    BY <2>1, <2>2
<1>12. CASE UNCHANGED vars
  BY <1>12 DEF vars, backendVars, pictureVars, gpuVars
<1> QED
  BY <1>1, <1>2, <1>3, <1>4, <1>5, <1>6, <1>7, <1>8, <1>9, <1>10, <1>11, <1>12
     DEF Next, Load, HardwareEncoder, GPU, Worker, CleanUp

\* Operations are queued and done in their order, for the picture in hand.
LEMMA StreamStep == Inv /\ [Next]_vars => StreamInv'
<1> SUFFICES ASSUME Inv, [Next]_vars PROVE StreamInv'
  OBVIOUS
<1> USE DEF Inv, StreamInv
<1>1. CASE EncodeBegins
  <2>1. hand \in Pictures /\ stream = <<>>
    BY <1>1 DEF EncodeBegins, TypeOK, PictureTypeOK, HandInv
  <2>2. Append(<<>>, Copy(hand)) = <<Copy(hand)>>
    BY <2>1, StreamOf
  <2> QED
    BY <1>1, <2>1, <2>2 DEF EncodeBegins
<1>2. CASE EncodeSubmits
  <2>1. hand \in Pictures
    BY <1>2 DEF EncodeSubmits, TypeOK, PictureTypeOK, HandInv
  <2>2. /\ Append(<<Copy(hand)>>, Encode(hand)) = <<Copy(hand), Encode(hand)>>
        /\ Append(<<>>, Encode(hand)) = <<Encode(hand)>>
    BY <2>1, StreamOf
  <2> QED
    BY <1>2, <2>2 DEF EncodeSubmits, AfterRefused
<1>3. CASE EncodeSynchronizes
  BY <1>3 DEF EncodeSynchronizes, IsSynchronized, gpuVars
<1>4. CASE EncodeRetrieves
  BY <1>4 DEF EncodeRetrieves, gpuVars
<1>5. CASE GPUCopies \/ GPUEncodes
  <2>1. hand \in Pictures
    BY <1>5 DEF GPUCopies, GPUEncodes, TypeOK, PictureTypeOK, HandInv
  <2> DEFINE c == Copy(hand)
             e == Encode(hand)
  <2>2. /\ Head(<<c>>) = c /\ Tail(<<c>>) = <<>>
        /\ Head(<<e>>) = e /\ Tail(<<e>>) = <<>>
        /\ Head(<<c, e>>) = c /\ Tail(<<c, e>>) = <<e>>
    BY <2>1, StreamOf
  <2>3. c.op = "copy" /\ c.of = hand /\ e.op = "encode"
    BY <2>1, OpsOf
  <2> HIDE DEF c, e
  <2>4. UNCHANGED <<hand, step>>
    BY <1>5 DEF GPUCopies, GPUEncodes
  <2>5. CASE GPUCopies
    <3>1. /\ stream # <<>> /\ stream # <<e>>
          /\ device' = hand /\ stream' = Tail(stream) /\ bitstream' = bitstream
      BY <2>5, <2>2, <2>3 DEF GPUCopies, c, e
    <3>2. /\ step = "copied" => stream' = <<>>
          /\ step = "encoding" => stream' = <<e>>
          /\ step \in {"copied", "encoding", "draining"}
          /\ step = "draining" => stream' = <<e>> \/ stream' = <<>>
      BY <3>1, <2>2 DEF c, e
    <3> QED
      BY <3>1, <3>2, <2>4 DEF c, e
  <2>6. CASE GPUEncodes
    <3>1. /\ stream = <<e>> /\ stream' = <<>>
          /\ bitstream' = device /\ device' = device
          /\ step \in {"encoding", "draining"}
      BY <2>6, <2>2, <2>3 DEF GPUEncodes, c, e
    <3>2. step = "encoding" => device = hand
      BY <3>1, <2>2, <2>3 DEF c, e
    <3> QED
      BY <3>1, <3>2, <2>4 DEF c, e
  <2> QED
    BY <1>5, <2>5, <2>6
<1>6. CASE Load
  <2>1. CASE Preflight
    <3>1. step = "idle"
      BY <2>1 DEF Preflight, Makes, ModuleInv, LifeInv, StepInv
    <3> QED
      BY <2>1, <3>1 DEF Preflight, gpuVars
  <2>2. CASE CreateFails \/ CreateSucceeds
    BY <2>2 DEF CreateFails, CreateSucceeds, gpuVars
  <2>3. CASE ~Preflight /\ ~CreateFails /\ ~CreateSucceeds
    BY <1>6, <2>3 DEF Load, SelectCPU, OpenFails, Open, Create, Install,
       OpenCleansUp, pictureVars, gpuVars
  <2> QED
    BY <2>1, <2>2, <2>3
<1>7. CASE QueueSnapshotEncode \/ StopSnapshotEncoder \/ Close \/ CleanUp
  BY <1>7 DEF QueueSnapshotEncode, StopSnapshotEncoder, Close, CleanUp,
     DestroyContext, CloseLibrary, pictureVars, gpuVars
<1>8. CASE Worker
  BY <1>8 DEF Worker, WorkerTakes, HardwareDelivers, FallsBack, CPUDelivers,
     Deliver, gpuVars
<1>9. CASE UNCHANGED vars
  BY <1>9 DEF vars, pictureVars, gpuVars
<1> QED
  BY <1>1, <1>2, <1>3, <1>4, <1>5, <1>6, <1>7, <1>8, <1>9
     DEF Next, HardwareEncoder, GPU

\* What is delivered is what the JPEG shows, and by whom the policy allows.
LEMMA ResultStep == Inv /\ [Next]_vars => ResultFitsPictureAndPolicy'
<1> SUFFICES ASSUME Inv, [Next]_vars PROVE ResultFitsPictureAndPolicy'
  OBVIOUS
<1> USE DEF Inv, ResultFitsPictureAndPolicy
<1>1. CASE HardwareDelivers
  <2>1. policy # "auto" \/ step = "encoded"
    BY <1>1 DEF HardwareDelivers, AllowCPUFallback
  <2>2. hand # None /\ (step = "encoded" => jpeg = hand)
    BY <1>1 DEF HardwareDelivers, HandInv
  <2> QED
    BY <1>1, <2>1, <2>2 DEF HardwareDelivers, Deliver
<1>2. CASE CPUDelivers
  <2>1. policy # "hardware"
    BY <1>2 DEF CPUDelivers, PolicyInv
  <2> QED
    BY <1>2, <2>1 DEF CPUDelivers, Deliver
<1>3. CASE ~HardwareDelivers /\ ~CPUDelivers
  <2>1. UNCHANGED <<delivered, policy>>
    BY <1>3 DEF Next, Load, HardwareEncoder, GPU, Worker, CleanUp, vars,
       EncodeBegins, EncodeSubmits, EncodeSynchronizes, EncodeRetrieves, GPUCopies,
       GPUEncodes, SelectCPU, OpenFails, Open, Create, Preflight, CreateFails,
       CreateSucceeds, Install, OpenCleansUp, QueueSnapshotEncode, WorkerTakes,
       FallsBack, StopSnapshotEncoder, Close, DestroyContext, CloseLibrary,
       pictureVars
  <2> QED
    BY <2>1
<1> QED
  BY <1>1, <1>2, <1>3

\* The backend's variables stay in their sets.
LEMMA BackendTypeStep == Inv /\ [Next]_vars => BackendTypeOK'
<1> SUFFICES ASSUME Inv, [Next]_vars PROVE BackendTypeOK'
  OBVIOUS
<1>1. BackendTypeOK
  BY DEF Inv, TypeOK
<1> USE <1>1 DEF BackendTypeOK
<1>2. CASE Work
  <2>1. capacity' \in 0..2
    <3>1. CASE EncodeBegins
      BY <3>1 DEF EncodeBegins, SizeOf
    <3>2. CASE ~EncodeBegins
      BY <1>2, <3>2 DEF Work, HardwareEncoder, EncodeSubmits, EncodeSynchronizes,
         EncodeRetrieves, GPU, GPUCopies, GPUEncodes, QueueSnapshotEncode, Worker,
         WorkerTakes, HardwareDelivers, FallsBack, CPUDelivers,
         StopSnapshotEncoder, backendVars
    <3> QED
      BY <3>1, <3>2
  <2>2. policy' = policy
    BY <1>2 DEF Work, HardwareEncoder, EncodeBegins, EncodeSubmits, EncodeSynchronizes,
       EncodeRetrieves, GPU, GPUCopies, GPUEncodes, QueueSnapshotEncode, Worker,
       WorkerTakes, HardwareDelivers, FallsBack, CPUDelivers, StopSnapshotEncoder
  <2> QED
    BY <1>2, <2>1, <2>2, WorkKeepsModule DEF openVars
<1>3. CASE SelectCPU \/ OpenFails
  <2>1. policy' = policy
    BY <1>3 DEF SelectCPU, OpenFails
  <2> QED
    BY <1>3, <2>1, NoHardware
<1>4. CASE Open \/ OpenCleansUp \/ Install
  <2>1. CASE Open
    BY <2>1 DEF Open, CreateCalls
  <2>2. CASE OpenCleansUp
    BY <2>2 DEF OpenCleansUp
  <2>3. CASE Install
    BY <2>3 DEF Install
  <2> QED
    BY <1>4, <2>1, <2>2, <2>3
<1>5. CASE Create
  <2>1. UNCHANGED <<policy, plugin, library, capacity, opened, teardown, record, threw>>
    BY <1>5 DEF Create
  <2>2. at' \in CreateCalls
    BY <1>5 DEF Create, Makes, CreateCalls
  <2>3. objects' \subseteq objects \cup Parts
    BY <1>5 DEF Create, Makes, Parts
  <2> QED
    BY <2>1, <2>2, <2>3
<1>6. CASE Preflight
  BY <1>6 DEF Preflight, Makes
<1>7. CASE CreateFails
  BY <1>7 DEF CreateFails
<1>8. CASE CreateSucceeds
  BY <1>8 DEF CreateSucceeds
<1>9. CASE Close
  BY <1>9 DEF Close
<1>10. CASE DestroyContext
  <2>1. UNCHANGED <<policy, plugin, library, opened, record, threw>>
    BY <1>10 DEF DestroyContext
  <2>2. /\ capacity' \in 0..2 /\ objects' \subseteq objects
        /\ teardown' \in {"params", "state", "handle", "stream", "context", "no"}
        /\ at' = at \/ at' \in {"closing", "returned"}
    BY <1>10 DEF DestroyContext, Destroys
  <2> QED
    BY <2>1, <2>2 DEF Parts
<1>11. CASE CloseLibrary
  BY <1>11 DEF CloseLibrary, Selected
<1>12. CASE UNCHANGED vars
  BY <1>12 DEF vars, backendVars, openVars
<1> QED
  BY <1>2, <1>3, <1>4, <1>5, <1>6, <1>7, <1>8, <1>9, <1>10, <1>11, <1>12
     DEF Next, Load, CleanUp, Work

\* The device's queue holds whole operations, at whatever step.
LEMMA StreamTypeStep == Inv /\ [Next]_vars => stream' \in Seq(Ops)
<1> SUFFICES ASSUME Inv, [Next]_vars PROVE stream' \in Seq(Ops)
  OBVIOUS
<1>1. /\ stream \in Seq(Ops)
      /\ hand \in Pictures \cup {None}
      /\ HandInv /\ StreamInv
  BY DEF Inv, TypeOK, PictureTypeOK, Ops
<1>2. CASE hand \in Pictures
  <2>1. Append(stream, Copy(hand)) \in Seq(Ops) /\ Append(stream, Encode(hand)) \in Seq(Ops)
    BY <1>1, <1>2, OpsOf, AppendProperties
  <2>2. stream # <<>> => Tail(stream) \in Seq(Ops)
    BY <1>1, HeadTailProperties
  <2>3. \/ stream' = stream
        \/ stream' = Append(stream, Copy(hand))
        \/ stream' = Append(stream, Encode(hand))
        \/ stream # <<>> /\ stream' = Tail(stream)
    BY DEF Next, Load, HardwareEncoder, GPU, Worker, CleanUp, vars, pictureVars,
       gpuVars, EncodeBegins, EncodeSubmits, EncodeSynchronizes, EncodeRetrieves,
       GPUCopies, GPUEncodes, SelectCPU, OpenFails, Open, Create, Preflight,
       CreateFails, CreateSucceeds, Install, OpenCleansUp, StopSnapshotEncoder,
       QueueSnapshotEncode, WorkerTakes, HardwareDelivers, FallsBack, CPUDelivers,
       Close, DestroyContext, CloseLibrary
  <2> QED
    BY <1>1, <2>1, <2>2, <2>3
<1>3. CASE hand \notin Pictures
  <2>1. step = "idle"
    BY <1>1, <1>3 DEF HandInv
  <2>2. stream' = stream
    BY <1>1, <2>1 DEF StreamInv, Next, Load, HardwareEncoder, GPU, Worker, CleanUp,
       vars, pictureVars, gpuVars, EncodeBegins, EncodeSubmits, EncodeSynchronizes,
       EncodeRetrieves, GPUCopies, GPUEncodes, SelectCPU, OpenFails, Open, Create,
       Preflight, CreateFails, CreateSucceeds, Install, OpenCleansUp,
       StopSnapshotEncoder, QueueSnapshotEncode, WorkerTakes, HardwareDelivers,
       FallsBack, CPUDelivers, Close, DestroyContext, CloseLibrary
  <2> QED
    BY <1>1, <2>2
<1> QED
  BY <1>2, <1>3

\* The pictures' variables stay in theirs.
LEMMA PictureTypeStep == Inv /\ [Next]_vars => PictureTypeOK'
<1> SUFFICES ASSUME Inv, [Next]_vars PROVE PictureTypeOK'
  OBVIOUS
<1>1. PictureTypeOK /\ HandInv /\ stream' \in Seq(Ops)
  BY StreamTypeStep DEF Inv, TypeOK
<1>2. 0 \in Pictures /\ Pictures = 0..MaxJobs
  BY JobsAssumption DEF Pictures
<1> USE <1>1 DEF PictureTypeOK, Ops
<1>3. CASE HardwareEncoder
  BY <1>3 DEF HardwareEncoder, EncodeBegins, EncodeSubmits, AfterRefused,
     EncodeSynchronizes, EncodeRetrieves, gpuVars
<1>4. CASE GPU
  BY <1>4 DEF GPU, GPUCopies, GPUEncodes
<1>5. CASE Preflight
  BY <1>5, <1>2 DEF Preflight, Probe, gpuVars
<1>6. CASE CreateFails
  BY <1>6 DEF CreateFails, gpuVars
<1>7. CASE CreateSucceeds
  BY <1>7 DEF CreateSucceeds, gpuVars
<1>8. CASE QueueSnapshotEncode
  BY <1>8, <1>2, JobsAssumption DEF QueueSnapshotEncode, gpuVars
<1>9. CASE WorkerTakes
  BY <1>9 DEF WorkerTakes, gpuVars
<1>10. CASE HardwareDelivers \/ CPUDelivers
  <2>1. hand \in Pictures
    BY <1>10 DEF HardwareDelivers, CPUDelivers, HandInv
  <2>2. /\ delivered'.picture = hand
        /\ delivered' \in [picture : Pictures, backend : {"cpu", "hardware"},
                           shown : Pictures \cup {None}]
    BY <1>10, <2>1 DEF HardwareDelivers, CPUDelivers, Deliver
  <2> QED
    BY <1>10, <2>2 DEF HardwareDelivers, CPUDelivers, Deliver, gpuVars
<1>11. CASE FallsBack
  BY <1>11 DEF FallsBack, gpuVars
<1>12. CASE StopSnapshotEncoder
  BY <1>12 DEF StopSnapshotEncoder, gpuVars
<1>13. CASE UNCHANGED pictureVars
  BY <1>13 DEF pictureVars, gpuVars
<1>14. \/ HardwareEncoder \/ GPU \/ Preflight \/ CreateFails \/ CreateSucceeds
       \/ QueueSnapshotEncode \/ WorkerTakes \/ HardwareDelivers \/ CPUDelivers
       \/ FallsBack \/ StopSnapshotEncoder \/ UNCHANGED pictureVars
  BY Zenon DEF Next, Load, Worker, CleanUp, SelectCPU, OpenFails, Open, Create,
     Install, OpenCleansUp, Close, DestroyContext, CloseLibrary, vars
<1> QED
  BY ONLY <1>3, <1>4, <1>5, <1>6, <1>7, <1>8, <1>9, <1>10, <1>11, <1>12, <1>13, <1>14

\* All of them.
LEMMA TypeStep == Inv /\ [Next]_vars => TypeOK'
  BY BackendTypeStep, PictureTypeStep DEF TypeOK

(***************************************************************************)
(* The theorems.                                                           *)
(***************************************************************************)
\* The invariant holds in every state of Load, the worker and the destructor.
THEOREM InvariantHolds == Spec => []Inv
<1>1. Inv /\ [Next]_vars => Inv'
  BY TypeStep, ModuleStep, PolicyStep, StreamStep, HandStep, ResultStep DEF Inv
<1> QED
  BY InitInv, <1>1, PTL DEF Spec

\* The variables keep their types, and the device never has to hold a size
\* EncodeRGBImpl does not know.
THEOREM TypeCorrect == Spec => []TypeOK
<1>1. Inv => TypeOK
  BY DEF Inv
<1> QED
  BY InvariantHolds, <1>1, PTL

\* Whatever is queued on the stream is for the picture in hand.
LEMMA StreamIsOfHand == Inv => \A i \in DOMAIN stream : stream[i].of = hand
<1> SUFFICES ASSUME Inv, NEW i \in DOMAIN stream PROVE stream[i].of = hand
  OBVIOUS
<1> DEFINE c == Copy(hand)
           e == Encode(hand)
<1>1. c.of = hand /\ e.of = hand
  BY DEF Copy, Encode
<1>2. stream \in {<<>>, <<c>>, <<e>>, <<c, e>>}
  BY DEF Inv, StreamInv
<1> HIDE DEF c, e
<1>3. CASE stream = <<>>
  BY <1>3
<1>4. CASE stream = <<c>>
  BY <1>1, <1>4
<1>5. CASE stream = <<e>>
  BY <1>1, <1>5
<1>6. CASE stream = <<c, e>>
  BY <1>1, <1>6
<1> QED
  BY <1>2, <1>3, <1>4, <1>5, <1>6

\* Whichever CUDA call of EncodeRGBImpl fails, the GPU reads only the picture
\* its caller still holds, through a context and a library that are there, and
\* not at all once the worker has blown the fuse.
THEOREM GPUReadsOnlyWhatIsHeld == Spec => []GPUReadsWhatIsHeld
<1>1. Inv => GPUReadsWhatIsHeld
  <2> SUFFICES ASSUME Inv PROVE GPUReadsWhatIsHeld
    OBVIOUS
  <2>1. stream # <<>> => step \in Encoding
    BY DEF Inv, StreamInv, Encoding
  <2>2. step \in Encoding => library /\ objects = Parts /\ ~fused
    <3> SUFFICES ASSUME step \in Encoding PROVE library /\ objects = Parts /\ ~fused
      OBVIOUS
    <3>1. ~fused /\ (plugin = "loading" \/ opened)
      BY DEF Inv, PolicyInv
    <3>2. \/ plugin = "loading" /\ at = "preflight" /\ teardown = "no"
          \/ plugin # "loading" /\ at = "outside"
      BY DEF Inv, ModuleInv, StepInv, Encoding
    <3>3. library
      BY <3>1, <3>2 DEF Inv, ModuleInv, LifeInv
    <3>4. teardown = "no"
      BY <3>2 DEF Inv, ModuleInv, LifeInv, ExitsThatDestroy, CreateCalls
    <3>5. objects = Parts
      BY <3>1, <3>2, <3>4 DEF Inv, ModuleInv, MadeInv
    <3> QED
      BY <3>1, <3>3, <3>5
  <2>3. stream # <<>> => capacity >= SizeOf(hand)
    BY DEF Inv, HandInv
  <2> QED
    BY <2>1, <2>2, <2>3, StreamIsOfHand DEF GPUReadsWhatIsHeld, Encoding
<1> QED
  BY InvariantHolds, <1>1, PTL

\* The worker delivers a JPEG for the picture it shows, by the backend the
\* policy allows (SnapshotEncoderLoop).
THEOREM ResultsFit == Spec => []ResultFitsPictureAndPolicy
<1>1. Inv => ResultFitsPictureAndPolicy
  BY DEF Inv
<1> QED
  BY InvariantHolds, <1>1, PTL

\* Whatever call of the factory fails, whatever record Open is given, and when
\* the destructor closes the module, the context is destroyed once, by its owner,
\* and before the library is closed; only the factory's catch leaves one behind
\* (xgc_snapshot_jpeg_hardware_create_v1, DestroyContext, Open, Close).
THEOREM EverythingIsGivenBack == Spec => []NothingIsLeft
<1>1. Inv => NothingIsLeft
  <2> SUFFICES ASSUME Inv PROVE NothingIsLeft
    OBVIOUS
  <2> USE DEF Inv, TypeOK, BackendTypeOK, ModuleInv, LifeInv, MadeInv, TeardownInv
  <2>1. plugin # "loading" /\ ~opened => ~library
    OBVIOUS
  <2>2. \A part \in objects : Needs[part] \subseteq objects
    BY DEF Needs, Parts
  <2>3. teardown # "no" => library /\ "context" \in objects
    BY DEF ExitsThatDestroy, CreateCalls
  <2>4. objects # {} \/ capacity > 0 => threw \/ (library /\ "context" \in objects)
    <3> SUFFICES ASSUME ~threw, teardown = "no", objects # {} \/ capacity > 0
                 PROVE  library /\ "context" \in objects
      BY <2>3
    <3>1. MadeInv /\ LifeInv
      OBVIOUS
    <3>2. ~(objects = {} /\ capacity = 0)
      BY ONLY objects # {} \/ capacity > 0
    <3>3. /\ at \notin {"returned", "closing"}
          /\ at = "outside" => opened
      BY ONLY <3>1, <3>2, teardown = "no", ~threw, opened \in BOOLEAN DEF MadeInv
    <3>4. CASE at \in CreateCalls
      <4>1. capacity = 0 /\ objects # {}
        BY <3>4 DEF CreateCalls
      <4>2. "context" \in objects
        BY <3>4, <4>1 DEF CreateCalls, Parts
      <4>3. library
        BY <3>4 DEF CreateCalls
      <4> QED
        BY <4>2, <4>3
    <3>5. CASE at \in {"preflight", "record"}
      <4>1. objects = Parts /\ plugin = "loading"
        BY <3>5
      <4>2. library
        BY <3>5, <4>1
      <4> QED
        BY <4>1, <4>2 DEF Parts
    <3>6. CASE at = "outside"
      <4>1. opened
        BY <3>3, <3>6
      <4>2. library /\ objects = Parts
        BY <3>6, <4>1
      <4> QED
        BY <4>2 DEF Parts
    <3>7. CASE at \in {"returned", "closing", "destroying"}
      BY <3>3, <3>7
    <3> QED
      BY <3>4, <3>5, <3>6, <3>7
  <2>5. plugin # "loading" /\ ~opened => threw \/ objects = {}
    <3> SUFFICES ASSUME plugin # "loading", ~opened PROVE threw \/ objects = {}
      OBVIOUS
    <3>1. at \in {"outside", "closing"}
      BY <2>1
    <3>2. teardown = "no"
      BY <3>1 DEF ExitsThatDestroy, CreateCalls
    <3> QED
      BY <3>1, <3>2
  <2> QED
    BY ONLY <2>1, <2>2, <2>3, <2>4, <2>5 DEF NothingIsLeft
<1> QED
  BY InvariantHolds, <1>1, PTL
=============================================================================
