# TLA+ models of xgc2-gazebo-sim-camera

This directory holds TLA+ specifications of the camera plugin of this
repository (`src/src/xgc_media_camera_plugin.cpp` and the files around it), the
TLC configurations that check them on small instances, and TLAPS proofs of the
main invariants for every value of the constants.

Line numbers such as `1426` refer to `src/src/xgc_media_camera_plugin.cpp`,
`host:107` to `src/src/camera_source_control.cpp`, `nvjpeg:131` to
`src/src/snapshot_jpeg_nvjpeg.cpp`, `peer:88` and `publisher:329` to
`src/scripts/camera_peer.py` and `src/scripts/camera_contract_publisher.py`.

## 1. The system

A Gazebo classic camera sensor plugin renders on the GPU, encodes the render
target with NVENC, and serves the H264 stream over RTP and as an encoded ROS
topic.  Clients control it (start, stop, request-keyframe, configuration,
snapshot) over XRPC; one XRPC host per process serves all of its camera sensors.

### Threads and what they share

    XRPC executor ── Dispatch / FlushSources, every 10 ms (host:107-114),
        │            serialised by the host's sources_mutex_
        │ mailbox: nativeCommand_ (nativeControlMutex_, try_lock by the render)
        ▼
    Gazebo render thread ── post-render event, then a render-target callback
        │   │   │             of every active sensor
        │   │   └─ snapshot_ (snapshotMutex_), PBO + fence ──► JPEG worker
        │   └───── rtpQueue_ (rtpPacerMutex_) ──────────────► RTP pacer
        └───────── rosFrameQueue_ (rosPublisherMutex_) ─────► ROS data worker
                                                                    ▲
    ROS callbacks, AsyncSpinner(1) ── rosConsumerMutex_ ────────────┘
    acknowledgements back to the executor: nativeAppliedRevision_,
        nativeFailedRevision_, publishedCalibrationRevision_,
        rtpInFlight_, encoderResourcesActive_  (atomics, no lock)

    camera_contract_publisher.py (another process) ── CameraPeer thread
        ──► the XRPC endpoint: describe, GET and PATCH config, observe

### Components

| Component | State | Operations | Correct when |
|---|---|---|---|
| Native mutation path | desired/applied revision and configuration, the pending mutation, mailbox, acknowledgement atomics, ring of 32 receipts, 4 observers, lifecycle state | start, stop, request-keyframe, PATCH config, observe; `ApplyNativeControl`, `FlushControl`, deadline | one holder per mutation; 504 means never applied; acknowledged stop is silent; every mutation is answered; no replay of a receipted request |
| Encoded ROS branch | bounded frame queue, epoch, sequence, generation, "waiting for IDR", dropped count, connection count, demand flag | connect, disconnect, enqueue, overflow, reset, publish, shutdown | what is published is ordered, gapless within an epoch, opened by an IDR, announced first; losses are reported |
| RTP pacer | queue of one access unit, generation, in-flight flag | enqueue, replace, fall behind, take, batches, clear, stop | no delta without its reference (or its repair is asked for); drained means silent |
| Snapshot capture | host-wide reservation, snapshot record and generation, readback, job, deadline | admit, render, poll, deliver, answer, deadline, removal | submitted work owns the slot; the answer is a fresh render; the slot is given back |
| NVENC session and encode | encoder handle, delayed frames and their metadata, force-IDR flag, source time, transport clock | ensure, submit, output, reset, destroy | an output goes out with the time of its picture; the RTP clock never goes back; an epoch has one timeline |
| Fresh-render gate (`fresh_render_gate.h`) | activation generation, source time at arming | arm, observe | the first encoded frame of an activation is not the dormant sensor's replay |
| Camera source host | roster of sources, weak process-wide instance, executor, capture reservation | Acquire, Register, Unregister, Dispatch, FlushSources | an id leads to the sensor that serves it; callbacks end before their plugin; one host per process |
| H264 packetizer | none (pure) | Annex-B split, single NAL / FU-A packets, marker | packets reassemble to the access unit |
| Snapshot JPEG backends | policy, dlopened module with its nvJPEG context and CUDA stream, a fuse | open, preflight, encode, fall back, close | the GPU never reads what was given away; a result shows its picture; nothing is left open |
| Camera peer (`camera_peer.py`) | state, instance, applied revision; the description of its last describe | describe, reconcile, observe, retry | the calibration of the present instance is applied once and published before "connected" |
| Contract publisher (reconcile callback) | the wanted calibration | GET config, compare, PATCH with expected revision | as above |
| The publisher's TF, world placement, diagnostics, packaging | little or none | ROS I/O, one-shot command, bounded log queue | — |

### What is hard here

* A mutation crosses threads twice (mailbox and atomics) while its caller's
  deadline runs; the deadline may only withdraw what was not yet taken (1512).
* Two flags are read without the lock that orders them (1467), a stop concludes
  silence from them.
* The worker and the pacer publish outside of their lock what they took under
  it; a generation number withdraws it (794, 1055).
* The demand of ROS consumers is opened in one critical section and becomes
  visible in another (601, 634); `forceKeyframe_` is raised and exchanged by
  different threads.
* One host-wide capture slot, with work on the GPU and a worker that outlives
  deadlines and the sensor (190-193, 1314, 1549).
* The process-wide host is kept by a weak_ptr: the last sensor's release, the
  executor's join and the next sensor's acquisition interleave (host:68-132).
* The gate is armed from two threads that each look at the other's flag (628,
  1444), and NVENC puts out pictures later than it gets them (2353).
* nvJPEG works asynchronously on memory the caller gives away when the call
  returns, also when it fails half way (nvjpeg:128-168).
* The peer reconciles over a transport whose replies get lost and whose server
  may be another instance by the next call (peer:66-104).

`PROJECT.json` lists each of these under `hazards`, at its line, with the
properties that would notice it going wrong, and those that have none yet.

## 2. Modules

| Module | Models | Granularity of a step |
|---|---|---|
| `NativeControl` | mutation path: executor, mailbox, render thread, acknowledgement | one executor call; one render-target callback or post-render event; a failed transition store by store |
| `RosStream` | encoded ROS branch | one critical section, or one access of an atomic outside of it |
| `RtpPacer` | RTP queue and pacer thread | one critical section; one batch sent outside of it |
| `SnapshotCapture` | capture transaction over several sensors | one critical section of `snapshotMutex_`, or a group of steps of one thread nobody else can observe apart |
| `ControlContract` | what clients are promised about mutations, without threads: the abstract specification of `NativeControl` | one step of a mutation |
| `NativeRefinement` | the refinement mapping from `NativeControl` | |
| `CaptureContract` | what the callers of POST capture are promised, without threads: the abstract specification of `SnapshotCapture` | one step of a capture |
| `SnapshotRefinement` | the refinement mapping from `SnapshotCapture` | |
| `SourceHost` | the shared host and the lives of the plugins that hold it | one critical section of `sources_mutex_`, one stage of the destructor |
| `ControlPlane` | `SourceHost`, `ControlContract` for one of its sources, and the camera peer | one call, split into its request and its answer |
| `EncoderSession` | gate, demand, NVENC session, source time, packets | one render-target callback; the parts of post-render and of a subscriber callback the other thread can get between |
| `H264Packets` | Annex-B splitter and RTP packetizer, as operators | |
| `SnapshotJpeg` | JPEG policy, hardware module, worker, destructor | one call of the factory, one object destroyed; one group of an encoding's CUDA calls that fail alike; the GPU by itself |
| `MC*` | instances for TLC (symmetry sets, access units) | |
| `NativeControlProofs` (with the refinement), `RtpPacerProofs`, `RosStreamProofs`, `SnapshotCaptureProofs` (with its refinement), `EncoderSessionProofs`, `H264PacketsProofs`, `ControlPlaneProofs` (also of `SourceHost`), `SnapshotJpegProofs` | theorems and their invariants, section 5 | |

`EncoderSession` EXTENDS `H264Packets`, `ControlPlane` EXTENDS `SourceHost` and
INSTANCEs `ControlContract`, `NativeRefinement` EXTENDS `NativeControl` and
INSTANCEs `ControlContract` with the mapping; so does `SnapshotRefinement` with
`SnapshotCapture` and `CaptureContract`.

A definition carries the name of the function or member it stands for where it
has one (`FlushControl`, `AdvanceEpoch` for `AdvanceROSEpochLocked`, ...);
`PROJECT.json` maps every definition to its lines.  Definitions whose comment
starts with `Mutant:` are deliberately wrong variants of the definition that
follows them: each of the properties below is violated when one of them takes
the place of the right one.

### NativeControl

* `Admit` is `HandleControlRequest` for the four mutations: refusals that change
  nothing (429, 409) are its guards.  `carriesCal` tells the PATCH with a
  calibration, with which jpeg_quality may come, from the one without.
* `FlushControl` is one pass of the executor over the source: the pending
  mutation is answered as failed, applied or dropped, or stays; then the
  receipts; then the observers.  All in one step, since the host's mutex covers
  it; in that order, since `ObserverMissesNothing` is about it.
* `PostRenderConsume` and `PostRenderIdle` are `OnPostRender`, with and without
  a command taken by `ApplyNativeControl`, then the check for a drained stop and
  the render demand of the sensor.  That the two `try_lock`s may fail is the
  choice between them.
* `TargetIdle`, `TargetStale`, `TargetEncode`, `TargetFail` are the four ways
  the render-target callback goes: no stream demand, an activation whose render
  is not fresh, a frame accepted, a frame failed.  `EncodeResults` is the set of
  ways `EncodeRenderedFrame` can end; a frame retained by NVENC is the revision
  of the request it was stamped with.
* `SettleFailure` is what `FailNativeEncoderTransition` does after it published
  the failed revision: `WithdrawDemand` (1480), `WithdrawActive` (1481),
  `ReportFault` (1482) and `ReleaseEncoder` are steps of their own, since the
  executor can act, and read the status, between any two of them.
* `CaptureStep` is a render of a sensor that is being captured: it may submit the
  readback, or leave it to a later callback (renders to skip, a PBO that is polled).
* Abstracted: pixel and bitstream data, JSON, time (a deadline may pass at any
  moment after admission), and expected_revision (its refusal has no effect on
  the state; a client may know any revision).  A capture appears as the render
  demand and the receipt it makes, the pacer as two flags, ROS demand as one.

### RosStream

The subscriber callbacks, the render thread, the worker and the destructor are
four threads, each with a stage variable between its critical sections.  `waited`,
`units`, `announced` and `lastPublished` are history.  The initial state is the one
after `RegisterROSPublisher` succeeded.  Access units and the reasons of an epoch
are reduced to key or delta, and the reset reasons to one action.  NVENC may hold back up to
`MaxDelay` units (`held`: `Encode` puts out the oldest or none), and `Loses` is an output
in which `SendH264AccessUnit` finds no NAL unit (2639-2646): neither branch sees it, and
no IDR is asked for.

### RtpPacer

Packets are counted in batches.  NVENC may hold back up to `MaxDelay` units, so
deltas submitted before an IDR was asked for can still come out after it (`asked`
tells them apart).  A unit can end before the queue: `Loses` is an output without a NAL
unit or without a packet (2639-2646, 941), which asks for nothing; `TooLarge`
and `FallsBehind` are refused with an IDR asked for.  `failed` is the false that
`EncodeRenderedFrame` returns then, or before it submits (`EncodeRefused`), after which
`FailNativeEncoderTransition` may take the demand and the encoder away (1712).
`StreamChanges` and `EncoderReset` are everything else the render thread does to the
queue other than offering units.

### SnapshotCapture

One record per sensor; one renderer (Gazebo renders its sensors on one thread)
and one executor.  A picture is the pair (capture it was taken for, whether its
render began after that capture was admitted).  Asynchronous (PBO and fence) and
synchronous readback, the rearming after a PBO failure, the force-IDR handshake
with its two-step admission, and the three-step removal of a sensor are all in.

### CaptureContract and SnapshotRefinement

The contract keeps of a capture what its callers and the other sensors can tell: who
owns the host's slot, who waits for an answer, which work is under way (a readback, or a picture
on its way through the JPEG worker), which sensors are gone.  Work begins only for a
caller that still waits; an answer is given once, by a picture of this capture or a
failure, and not while its work goes on; the slot is given back by the answer or, of
a removed sensor, when no picture is left with the worker (a readback may be, see
section 6).  Deadlines, renders, the passes to skip and the force-IDR handshake are
stutters of the contract: they decide when and how a capture is answered.

### ControlContract and NativeRefinement

The contract has one variable, `holder`, for everything that mailbox, render thread
and acknowledgement atomics say together about the pending mutation: nobody,
mailbox, render, applied, failed.  It says that only the mailbox gives a record
back at a deadline, that a record which is taken brings its configuration into use
in the same step, that a PATCH with a calibration is complete for the native owner at once
but answered only when the topic carries it, and that the topic's calibration never goes
back.  `NativeRefinement!Holder` reads `holder` off the detailed state; most steps
of `NativeControl` are stutters of the contract.

### SourceHost

One actor per sensor (Load or the destructor), one executor per host.  A plugin's
stages are those of its control server: it holds the host (`acquired`), is in the
roster (`serving`), was refused by Register and lives on (`uncontrolled`: 1108-1111
keep `controlHost_`), is withdrawn with its workers still running (`removing`), has
joined them, and may be the one that runs the host's destructor (`releasing`).  A sensor
is given one of its `SourceIds` when it is loaded.
The `weak_ptr` is not a variable: it can be locked as long as a plugin other than
a releasing one holds the host.  `Crash` is the end of the process, which leaves
the socket's path behind for the next one to reclaim.  `AcquireFails` is also the
sensor whose path, target or instance differs from that of the running host (host:73-74).

### ControlPlane

The contract's variables belong to the source with the id `Watched` and start anew
with each plugin that registers under it.  The peer's `peer` says where `_work` is;
`description` is what its last describe returned, which `reconcile` still uses when an
observation makes it run again.  A call is refused, lost (`GiveUp`, with the request
perhaps delivered later, `DeliverStray`), or delivered to whichever host listens by
then; a client is bound to the instance it was described.  The reply that would connect
the peer is sent (`acknowledged`) before the peer reads it (`Connect`), so the source may
be gone by then.  `OtherClient` stands for
any mutation of someone else: `OtherMutation` without a calibration, and
`OtherCalibration` with one, which the handler takes from every client (1379-1413).
`peerApplied` counts the peer's PATCHes that were applied to the present source
since its own calibration was last replaced by such a one.  `FixedInstance` is whether the
sensors name a `controlInstanceId` (host:84); otherwise each host has one of its own.

### EncoderSession and H264Packets

`session` gathers what `DestroyEncoder` clears and `BeginROSEpoch` changes; the
operators on it (`EpochBegun`, `Destroyed`, `Observed`, `Ensured`, `Submitted`)
carry the functions' names.  A start's command is two steps, since
`ApplyNativeControl` exchanges `desiredActive_` and then looks at
`rosConsumersActive_`; a first connection is three.  `replay` is Gazebo's part:
after a dormant time the callback first comes with the old picture and the old time.
Every call that may fail is a choice; a failed start is withdrawn
((`FailNativeEncoderTransition`).  An output may be lost (`EncodeLost`: no NAL unit in it)
or refused by the pacer, and an awaited start or keyframe is then withdrawn too; `packets`
are those the output was made into, whether the pacer took them or not.
The code's transport clock is `encodedFrameIndex_`.
 transport clock is `encodedFrameIndex_`.

`H264Packets` works on sequences of byte values with a payload of `MaxPayload` bytes
for the code's 1200.  Its second half is a receiver after RFC 6184, which the
property compares with.  What NVENC puts out is an access unit (`IsAccessUnit`): each NAL
behind a start code, with none inside it and no zero at its end, as H264 has it.

### SnapshotJpeg

`step` is where the encoding of the picture in `hand` is, be it the factory's preflight
or a capture; `stream` is what the GPU still has to do.  `at` is the call that
`SnapshotJpegHardwareBackend::Open`, its factory or `Close` has come to, `objects` what
there is of the context, and `teardown` what `DestroyContext` frees next.  A call of the
factory makes its object (`Create`) or fails (`CreateFails`), which leaves by the exit that
call has: a plain return before the context is there, then a `DestroyContext`
of its own (`ExitsThatDestroy`), or the catch, when the message about the failure cannot be
allocated (`threw`).  From `record` on the context is Open's to destroy, then the
backend's, which is `Close` in the destructor.  `DestroyContext` destroys one object
a step, in its order.  `delivered` is a history of the last result, with the
picture whose pixels it really shows.

### How they fit together

`NativeControl` is the composition seen from the mutation path: it has the pacer,
the ROS demand and the capture at the precision with which its own guards read
them.  What it takes for granted of them is what the other modules show:
`RtpPacer!DrainedIsSilent` is why `~rtpInFlight` may be read as "nothing is held by
the pacer"; `RtpPacer!InFlightEnds` is the fairness of `PacerDone`;
`SnapshotCapture!CaptureEnds` bounds the render demand of a capture.
`ControlPlane` uses `ControlContract` in place of `NativeControl`, which
`ContractIsKept` justifies.  `SnapshotJpeg` is what `SnapshotCapture`'s worker does
between `WorkerTake` and `WorkerDeliver`; `EncoderSession` is what `RosStream` and
`RtpPacer` have as a choice of encoder results.

## 3. What the runs check

| Run | Configuration | Checks |
|---|---|---|
| `native_control` | 2 requests, 2 values of each datum, revisions up to 4 (three mutations), ring of 2 receipts, 1 delayed frame, 1 capture, 1 disturbance | the safety of the mutation path |
| `native_control_live` | 2 requests, 1 observer, revisions up to 3 (two mutations), 1 disturbance, no capture, under `FairSpec` | every mutation is answered; observers miss nothing; `NativeControl` implements `ControlContract` |
| `ros_stream` | queue of 2, 1 delayed unit, 5 offered units, 2 connections or resets, shutdown at any time | order, announcement, counting, demand, quiet shutdown |
| `rtp_pacer` | 2 batches, 1 delayed unit, 4 units, 3 changes, under `FairSpec` | silence after a stop, reference chain, nothing stays in flight |
| `snapshot_capture` | 2 sensors, 3 captures, removals | ownership of the slot, freshness of the answer; `SnapshotCapture` implements `CaptureContract` |
| `snapshot_capture_live` | 1 streamed sensor, 2 captures, under `FairSpec` | a capture ends, also one with a keyframe while its stream is active |
| `control_plane` | 2 sensors, the second one with the id of the first or another, 2 hosts, 3 loads, 1 mutation of another client, with a calibration or without, 1 fault (lost reply, deadline or crash), under `FairPlaneSpec` | routing, lifetimes of callbacks, the calibration applied once unless it is replaced, and published; the peer connects |
| `encoder_session` | 5 access units, 1 held picture, source times up to 2, 3 frames, 4 disturbances | freshness, metadata, clock, epochs, packets |
| `snapshot_jpeg` | 3 pictures, every policy | GPU memory, results, clean-up |
| `keyframe_after_dropped_stop`, `capture_budget`, `peer_reconnect` | minimal | expected violations, see section 4 |

### The properties

*Mutation path.*  `MutationHasOneHolder`: the pending mutation is in exactly one
of mailbox, render thread, applied and failed acknowledgement, and nothing is in
flight for an answered one.  `DeadlineMeansNotApplied`: a 504 is only given for a
mutation the render thread never took.  `StoppedIsSilent`: while the state is idle
nothing is queued or being sent.  `ActiveIsServed`: active is only reported of a
stream that is in demand with its sensor on; between the stores of a failed transition,
which withdraw the demand (1480) before the state (1482), the status can still say
active.  `AppliedConfigIsReal`: with nothing
pending the reported configuration is the one in use, as far as a drop lets it be
(section 4).
`RetryIsNotReplayed`: the ring of receipts never holds two mutations of one
request.  `ObserverMissesNothing`, `MutationIsAnswered`: see their comments.
`ContractIsKept` is the refinement of `ControlContract`.

*ROS.*  `PublishedInOrder`, `InfoBeforeFrames`, `DroppedIsNotOvercounted`,
`EpochOpensSoon` are what a recorder relies on.  The last one says that an epoch turns
away at most what NVENC held back when its IDR was asked for and two deltas more, the one
that was offered already and the one that asks again (`MaxDelay + 2`); the loss of an IDR's
output, for which the code asks no other, starts that count anew.
`DemandHasConsumer` and
`StoppedIsQuiet` are about callbacks that race with the shutdown.

*RTP.*  `DrainedIsSilent`, `InFlightEnds`, and `DeltaFollowsItsReference`: of what the queue
and the pacer drop, replace or withdraw, every delta behind it waits for the IDR that was
asked for.  Its third disjunct is the gap the code has: a unit lost ahead of the
queue (`lost`) asks for no IDR, and the delta right behind it is sent.

*Capture.*  `WorkOwnsTheSlot`, `AnswerIsFresh`, `CaptureEnds`.
`CaptureContractIsKept` is the refinement of `CaptureContract`: what the invariants say of
states it says of steps, and that a removed sensor's worker is joined before its slot
is given back no invariant says.

*Control plane.*  `ServingIsRouted`: the id of a sensor that serves leads to it, also
when a sensor whose duplicate id was refused goes away.  `CallsReachTheLiving`: the
executor is never inside a plugin that began to take itself apart, and a worker's
raw pointer to the host is valid.  `MetadataAppliedOnce`: the peer's calibration is applied once per source, and once more each time
another client put a calibration of its own in its place.  `ConnectedMeansPublished`: when
the source sends the reply that connects the peer, the topic carries that calibration (by the
time the peer reads it the source may be gone).
`StatusIsOfItsInstance`, `PeerConnects`: what the peer promises its owner.

*Encoder.*  `DormantIsNotEncoded`, `OutputHasItsMetadata`, `TimestampsIncrease`,
`EpochKeepsItsTimeline`, `PacketsCarryTheUnit`.

*JPEG.*  `GPUReadsWhatIsHeld` (nor is a hardware backend used again once its fuse has
blown), `ResultFitsPictureAndPolicy`, and `NothingIsLeft`: at whichever call it goes
wrong, the context is destroyed while it and the library are there, each
object before what it needs, and once Load or the destructor is done nothing exists
any more.  An exit that forgets the cleanup, or one that is done twice, violates it.
Its exception is the factory's catch (nvjpeg:348-354), which destroys nothing.

`EncoderSession`, `SnapshotJpeg`, `SourceHost` and `ControlPlane` state their type
invariants (`TypeOK`, `PlaneTypeOK`) as documentation and as the start of their proofs.
TLC found them true on the bounds above; the runs spend their time on the
properties that say something about the code.

### Bounds, and why they suffice

Every bound is a constant named in its module.

* `MaxRevision = 4`: three mutations, enough for one that is dropped, one that
  follows it and one whose stale acknowledgement could be mistaken.
* `ReceiptSlots = 2` for the code's 32: two mutations and a capture overflow the
  ring, and an id that fell out of it is used again; `MaxHeld = 1` for 4: NVENC's output is then one frame behind its input, which is what a stamp
  has to survive.
* Captures touch no mutation, so `native_control_live` has none.  One observer is enough:
  `Observe` and the flush treat each by itself.
* `Capacity = 2`, `MaxUnits = 5`, `MaxDelay = 1` for NVENC's 4: the queue overflows with the worker holding a
  frame and the new epoch still gets frames; two disturbances open a second epoch
  while the first is being published, or connect a consumer again.
* `Batches = 2`: a unit can be withdrawn before, between and after batches.  `MaxUnits = 4`,
  `MaxDelay = 1`, `MaxChanges = 3`: a unit that is lost or dropped has one behind it in
  NVENC, one that is sent instead and one after the repair, with a stop, a start and
  a failure anywhere between them.
* Two sensors compete for one slot, three captures let late work of one meet the
  next of the same sensor.
* `MaxLoads = 3`, `MaxHosts = 2`: both sensors are loaded and one of them, or the
  host, a second time.  The first is always loaded as the watched source, the second
  as a duplicate of it or as a neighbour, so every pairing of ids occurs.  `FixedInstance`
  is FALSE; with TRUE, where equal ids tell no two hosts apart, TLC found the same
  properties true.  The roster holds both sensors, so `RosterIsFull` is never true there;
  Register throws on it exactly as on a duplicate id, which is.  One fault and one foreign
  mutation meet in every order: another client's calibration comes before the peer's own,
  under its PATCH, or after it, and is replaced again.  Two lost replies in a row leave the
  peer where one does, at a new describe.
* `MaxHeld = 1` for NVENC's pictures (4 in the code): an output is then one picture
  late, and the second one held ends the session.  Three frames, three source times:
  a step back before, between and after the pictures of a session and in a session of
  its own.  Four disturbances are a command, a connection, a failure and a step back.
* `MaxPayload = 4`: a fragment carries two bytes, so NALs of 1 to 7 bytes have every
  relation to the boundary; several NALs in a unit, both start codes and zeros inside
  a NAL occur.
* `MaxJobs = 3`: a picture that fails, one that waits meanwhile, one after the fuse.

Symmetry is used only in runs without liveness properties, over sets whose
members no definition or constant distinguishes.  Deadlock is checked in the
`NativeControl` and `RosStream` runs.  It is not in `SnapshotCapture` (all sensors
removed), `RtpPacer` (pacer stopped and all bounded inputs used), `ControlPlane`
(all sensors removed, nothing left to load: the peer waits for an endpoint),
`EncoderSession` (with `MaxFrames` submitted and `MaxTime` reached only the bound stops it)
and `SnapshotJpeg` (plugin closed or refused), where the system or its bounded
input really ends.

### Fairness

* The executor polls and flushes every 10 ms (host:107-114): `WF(FlushControl)`.
  The deadline it compares with passes: `WF(ControlDeadline)`.
* Gazebo keeps rendering active sensors and fires the post-render event; the
  `try_lock`s fail only while another thread is inside a short critical section,
  so a record in the mailbox is not missed for ever: `WF(Render)`,
  `SF(PostRenderConsume)`.  Source time advances, so a demanded stream is not
  held by the fresh-render gate for ever: `SF(TargetEncode \/ TargetFail)`.
* The pacer, ROS worker and JPEG worker threads run; a ROS master appears; a
  fence signals or fails.  A calibration PATCH before a master appears stays
  pending, so `MutationIsAnswered` depends on that one.
* The XRPC executor comes back from a callback (`WF(ExecutorMoves /\ ... LeaveCall)`), so
  calls that need it get through in the end: `SF(PeerCalls)`, `SF(SourceAnswers)`,
  strong because FlushSources is in a callback every 10 ms.  The peer's thread runs
  and its observation times out (`WF(Connect \/ ObserveFails \/ Retry)`): the client's timeout is
  8 s and shorter than the server's 10 s, so a source at rest ends each observe in
  an error.  `PeerConnects` assumes that the source stays from some time on and that no
  other client had a mutation completed by it (section 4).
* No client, subscriber, simulation reset or removal is fair: nobody is obliged.

## 4. Where the code and its documentation differ

Three runs expect a violation; each checks one property that states what a
document or comment of the repository says.

1. `keyframe_after_dropped_stop` (1426): a stop dropped at its deadline leaves
   active FALSE in `desiredConfig_`; a later request-keyframe carries it, switches
   the stream off and waits for an IDR that cannot come.  The mutation slot stays
   busy.  The comment at 1509-1510 expects a real acknowledgement.
2. `capture_budget` (1539): a capture with requestKeyframe whose stream stops is
   never answered; the early return is before the deadline check.
   `docs/source_control.md:127-128` says the budget is four seconds.
3. `peer_reconnect` (publisher:329): the reconcile callback compares the revision of the
   published calibration with the applied revision, which every completed mutation
   raises.  Once another client has started or stopped the stream, a peer that
   reconciles without having to write fails for ever.  `README.md:225-226` of the
   repository says it reconciles.

Other differences are named exceptions of properties that hold without them:

* 1495 (`AppliedConfigIsReal`): a calibration PATCH dropped at its deadline stays in
  `desiredConfig_`, and the next mutation that completes reports it as applied.
  `docs/source_control.md:87-88` says divergence remains visible after failure.
* 794 (`DroppedIsNotOvercounted` is the half that holds): a frame in the worker's hands
  when an overflow opens an epoch is discarded and counted nowhere.
  `docs/encoded_camera_recording.md:69-70` says the first frame reports the count.
* 675 (`orphan`): an access unit that passed the check of the demand is queued after
  the last consumer left, and published before the next epoch's StreamInfo.
* 628, 1444 (`overlapped`): a first ROS connection and a native start that come together
  each see the other's flag up and leave the gate as it is, and so does a connection
  that looked just before a stop; a picture from before the dormant time is then
  encoded.  `docs/encoded_camera_recording.md:73-78` has
  the source explicitly discard it.
* 2377-2384, 2612 (`missed`): `EncodeRenderedFrame` observes the source time and then
  `EnsureEncoder`, for a new session, goes through `DestroyEncoder`, which forgets it.
  A step back right after the first picture of a session opens no epoch, although
  `docs/encoded_camera_recording.md:60-62` has one.
* host:134-145 (`crossed`): revisions start at 1 with every plugin, so a PATCH that was
  under way when its sensor was removed may be admitted by the sensor that replaces it
  in the same host, and the peer's next one may be a second.

## 5. What is proved

TLAPS checks these for every value of the constants that meets the assumptions.
The assumptions are about the constants alone and say no more than that the values
are values: the sets contain the initial ones, `None` (an empty `std::optional`) is
told from every value it stands beside, bounds and capacities are naturals, and a queue
or ring has at least one place (`ValuesAssumption`, `BoundsAssumption`,
`RecordAssumption`, `AnswerAssumption`, `PacerBoundsAssumption`, `NoUnitAssumption`,
`CapturesAssumption`, `NoneIsNoValue`, `CapacityAssumption`,
`StreamBoundsAssumption`, `NoneIsNothing`, `HostAssumption`, `ContractAssumption`,
`NoneIsNoMutation`, `SessionAssumption`, `JobsAssumption`).  Two say more: a packet has
room for a fragment's two header bytes and one of the NAL (`PayloadAssumption`; the code
has 1200), and NVENC's outputs are access units (`UnitsAssumption`).

| Theorem | States |
|---|---|
| `NativeControlProofs!TypeCorrect` | `Spec => []TypeOK` |
| `NativeControlProofs!OneHolderAlways` | `Spec => []MutationHasOneHolder` |
| `NativeControlProofs!DeadlineIsNotRollback` | `Spec => []DeadlineMeansNotApplied` |
| `NativeControlProofs!StoppedStaysSilent` | `Spec => []StoppedIsSilent` |
| `NativeControlProofs!ActiveStaysServed` | `Spec => []ActiveIsServed` |
| `NativeControlProofs!ReportedIsInUse` | `Spec => []AppliedConfigIsReal` |
| `NativeControlProofs!ContractImplemented` | `Spec => ContractIsKept` (refinement) |
| `NativeControlProofs!RetriesAreRefused` | `Spec => []RetryIsNotReplayed` |
| `NativeControlProofs!ObserversKeepUp` | `Spec => []ObserverMissesNothing` |
| `RosStreamProofs!TypeCorrect` | `Spec => []TypeOK` |
| `RosStreamProofs!DemandIsReal` | `Spec => []DemandHasConsumer` |
| `RosStreamProofs!StopIsFinal` | `Spec => []StoppedIsQuiet` |
| `RosStreamProofs!EpochsOpenSoon` | `Spec => []EpochOpensSoon` |
| `RosStreamProofs!FramesAreInOrder` | `Spec => PublishedInOrder` (action) |
| `RosStreamProofs!InfoComesFirst` | `Spec => InfoBeforeFrames` (action) |
| `RosStreamProofs!DropsAreReal` | `Spec => DroppedIsNotOvercounted` (action) |
| `RtpPacerProofs!TypeCorrect` | `Spec => []TypeOK` |
| `RtpPacerProofs!DrainedStaysSilent` | `Spec => []DrainedIsSilent` |
| `RtpPacerProofs!ReferencesAreSent` | `Spec => DeltaFollowsItsReference` (action) |
| `SnapshotCaptureProofs!TypeCorrect` | `Spec => []TypeOK` |
| `SnapshotCaptureProofs!OneCaptureAtATime` | `Spec => []WorkOwnsTheSlot` |
| `SnapshotCaptureProofs!AnswersAreFresh` | `Spec => []AnswerIsFresh` |
| `SnapshotCaptureProofs!CaptureContractImplemented` | `Spec => CaptureContractIsKept` (refinement) |
| `ControlPlaneProofs!ServingSensorsAreRouted` | `PlaneSpec => []ServingIsRouted` |
| `ControlPlaneProofs!CallsReachOnlyTheLiving` | `PlaneSpec => []CallsReachTheLiving` |
| `ControlPlaneProofs!MetadataIsAppliedOnce` | `PlaneSpec => []MetadataAppliedOnce` |
| `ControlPlaneProofs!StatusBelongsToInstance` | `PlaneSpec => []StatusIsOfItsInstance` |
| `ControlPlaneProofs!ConnectedIsPublished` | `PlaneSpec => ConnectedMeansPublished` (action) |
| `EncoderSessionProofs!PicturesAreFresh` | `Spec => []DormantIsNotEncoded` |
| `EncoderSessionProofs!MetadataFollowsThePicture` | `Spec => []OutputHasItsMetadata` |
| `EncoderSessionProofs!ClockIncreases` | `Spec => TimestampsIncrease` (action) |
| `EncoderSessionProofs!EpochIsOneTimeline` | `Spec => EpochKeepsItsTimeline` (action) |
| `EncoderSessionProofs!PacketsCarryWhole` | `Spec => []PacketsCarryTheUnit` |
| `H264PacketsProofs!AccessUnitIsSplit` | `SplitAnnexB(AnnexB(unit)) = NalsOf(unit)` of any access unit |
| `H264PacketsProofs!PacketsAreReceived` | `Depacketize(Packetize(nals)) = nals` of any NAL units |
| `H264PacketsProofs!PacketsAreWellFormed` | `AreWellFormed(Packetize(nals))` |
| `SnapshotJpegProofs!GPUReadsOnlyWhatIsHeld` | `Spec => []GPUReadsWhatIsHeld` |
| `SnapshotJpegProofs!ResultsFit` | `Spec => []ResultFitsPictureAndPolicy` |
| `SnapshotJpegProofs!EverythingIsGivenBack` | `Spec => []NothingIsLeft` |

`EncoderSessionProofs!TypeCorrect` and `SnapshotJpegProofs!TypeCorrect` prove the type
invariants no run checks.

### The arguments

None of these properties is inductive as it stands.  Each invariant that was found
for one was checked with TLC on the instance of its run before it was proved.

*The mutation path.*

* *One holder.*  `MutationHasOneHolder` compares revisions, so the induction needs
  that no acknowledgement runs ahead of the admitted revision
  (`RevisionsAreKnown`: otherwise a fresh mutation could find itself already
  acknowledged) and that a record in mailbox or render thread is the pending one
  (`RecordsArePending`).  `HolderInv` is the conjunction with the disjointness of
  the places (`OneHolder`).
* *Deadline.*  `ConsumedInv` relates the history of taken revisions to the
  places: what is in the mailbox is not yet taken, what is anywhere else is.
* *Stopped and active.*  The state is written by one thread and the demand by
  another.  `ServiceInv` carries what links them: RTP work
  follows demand (`QueueFollowsDemand`), a callback runs only of an active sensor
  (`TargetIsActive`), idle means nothing is left (`IdleIsSilent`), and no
  command on its way to the render thread carries the other value of the active
  flag than the state it will be acknowledged into: the desired configuration
  agrees with a starting or active state (`DesiredAgrees`), and so do the record
  in the mailbox (`MailboxAgrees`) and the one the render thread holds
  (`OwnedAgrees`).
* *The configuration in use, and the contract.*  `StepEffect` reduces every handler to
  one of seven effects on the mutation (admitted, expired, consumed,
  rendered, published, ended, none of these); what follows is proved of the effects.
  `ConfigInv` says where a configuration is on its way: in the mailbox with the
  pending revision (`HandOverInv`), in use once taken (`InUseInv`), and the topic has
  the latest record, or will have it, or had an older one (`TopicInv`).  `ContractStep`
  maps each effect to a step of `ControlContract` or a stutter, and `HolderReads`
  reads the contract's `holder` off the mailbox and the atomics.
* *Receipts and observers.*  `RingInv`: the id of the mutation that is still pending is not
  in the ring either, so its answer can enter it.  `RingMovesAlong` says once what
  `Remember` does to the ring, whatever falls out of it.

*The encoded ROS branch.*  `HandInv` and `StopInv` say what the threads carry and what the
destructor has done; `EpochInv` counts the deltas that an epoch can still turn away:
those NVENC held when the IDR was asked for, which lie ahead of it (`IDRIsDue`).  `QueueInv` numbers the frames in line,
the worker's and the queue's, and `LineInv` joins them on to the one published last:
that one is `Before`, which is the worker's as soon as it cannot be called back.
`InfoInv` says who will announce the epoch of a frame in line, and `CountInv` that what was
counted as dropped really lies between two units of the render thread.

*The pacer.*

* *Drained.*  `MarkedWhileTaken` (the flag is up as long as the pacer holds a
  unit: the unit leaves the queue and the flag goes up in one critical section)
  and `QueuedOnDemand` (nothing is queued without demand: a stop clears the
  queue on the thread that fills it).  The type invariant needs `HasAUnit`.
* *Reference chain.*  Units are numbered, and NVENC, the output and the queue hold one
  run of numbers (`Numbered`).  `KeyComesFirst`: the first unit behind an IDR that was asked for
  is that IDR, so the reference of a later delta lies behind it too.  `LastIsKept`: the
  last unit that was offered is in the queue, or `Given` to a pacer that is not
  withdrawn, unless an IDR was asked for since, or unless it was `lost` on its way.  Hence a delta
  whose reference was not lost is queued behind it (`QueuedFollows`) and taken when that one
  is sent (`TakenFollows`).

*Captures.*  `SlotInv` says who holds the host's slot and for how long, `WorkInv` that a
picture is in one place at a time and belongs to a snapshot that waits for it,
`RenderInv` that the picture about to be taken is of a render that began after the
admission: the pass under way and the replay of a dormant sensor are among those that are
skipped.  `SnapshotInv` has the flags of a snapshot.  The simulation of `CaptureContract`
(`ContractStep`) rests on them: a caller waits exactly for a snapshot that is wanted of
a sensor that is present (`SlotInv`), so a picture that is still `IsFor` its snapshot is
taken for a caller who waits; an answer finds no work because work is of a snapshot that
is submitted and not completed (`NoWork`); and `StoppedInv` adds that nothing is queued for a
worker that was stopped.

*Host and peer.*  `HostStep` is all that a step of `ControlPlane` does to the host, so
`HostInv` is proved of `SourceHost` alone: what a plugin holds at each stage
(`PluginInv`), that there is at most one host and only the plugin that is alone with it
takes it down (`SoleHostInv`), and that its roster is the plugins that serve behind it
(`RosterInv`).  `PlaneInv` adds the contract's part (`ContractInv`, with
`CalibrationInv` for what is applied without being in use) and the peer's:
`OnceInv` says that while the peer's calibration counts as applied it is the desired one, and
that a PATCH under way carries a revision the source is past, or meets a source
that has no calibration of the peer's in place.

*The encoder.*  Each step makes the session stay, go, look, hold a picture or put one out,
and each part of the invariant is proved of these.  `GateInv`: while the sensor is
off, or shows the picture of before, what would be encoded is kept waiting; hence
`DormantInv`.  `PairInv`: the metadata are those of the held pictures, in their order.
`ClockInv`, `LifeInv` and `TimeInv` order the held pictures by their timestamps and
source times, and after what was published.

*The packets.*  Here the induction is over the data, not over the steps.  The library's
induction theorems take a predicate, which the provers cannot instantiate; `Induction`
has a set in its place, and follows from a least element of what is left out
(`LeastElement`).  From it come the existence of each recursive function (`PrefixesExist`,
`ReceivedExists`, `OnwardExists`: the last needs that the splitter always goes on,
`SplitterGoesOn`) and `Flattened`: in a concatenation each part is where the lengths of those
before it put it (`AreBlocks`).  For the splitter: no start code begins in a NAL, also not one
that would end in what follows (`NoCodeInNal`, which needs that the last byte is not zero), so
the next one is behind it (`NalIsSplitOff`).  For the packets: fragment `i` begins where the
one before ends and the last one ends the NAL (`FragmentPlaces`, `FragmentCount`), the two
header bytes give the NAL's own back (`HeaderBits`), and with each fragment the receiver has
the NAL up to there (`AcceptsFragment`, `NalIsReceived`).  `PacketsInv` joins this on to
the session: the packets of an output are those of its unit until the stream stops.

*JPEG.*  `ModuleInv` has who owns library and context (`LifeInv`), when a picture is encoded
(`StepInv`), what exists at each call of the factory (`MadeInv`), and what still does at
each step of `DestroyContext` (`TeardownInv`).  `PolicyInv` says which backend may be at
work, `StreamInv` what the GPU still has to do for the picture in hand, and `HandInv` ties
both to the picture.

### Only model-checked

* Liveness: `MutationIsAnswered`, `CaptureEnds`, `InFlightEnds`, `PeerConnects`.
  Liveness under fairness needs `ENABLED`, which the prover does not handle.
* `ControlPlane!PlaneTypeOK`, which `PlaneTyped` and `HostTyped` of `ControlPlaneProofs`
  take the place of, is documentation.
* The three expected violations of section 4.

## 6. Not modelled

* The NVENC and OpenGL calls (results are nondeterministic), JSON, XRPC framing,
  clock arithmetic, contents of messages and images.
* JSON validation; the request ids of captures; in `NativeControl` the
  expected_revision precondition (`ControlPlane` has it) and the removal of the
  sensor with a mutation pending (503, `ControlPlane` has its effect on the peer).
* The case that StartControlServer fails inside Load is in `SourceHost`; that Load then
  leaves the post-render connection, the ROS publisher and the reporter running
  (354-359) is not part of any module.
* The peer's backoff times, its watch on the endpoint's directory and its
  cancellation; TF publication and the conversion of poses and intrinsics.
* In `EncoderSession`: changes of the picture's size, the frame rate limit, the wrap-around
  of the 32-bit RTP timestamp, an output without metadata (2331: NVENC would have
  to return a timestamp it was never given).  In `H264Packets`: RTP headers other than
  the marker, and NALs that end in a zero byte, which H264 does not have.
* In `SnapshotJpeg`: what a JPEG is, the ABI's argument checks, more than one sensor
  (each has a module of its own).  The only exception there is
  is the allocation of a failure's message, which the encoding writes after it has
  synchronized; `EncodeRGB` catches it for a picture and fails all the same.
* World placement, diagnostics, launch files and packaging: no state of their
  own, or a log queue whose losses are intended.
* A PBO readback that is still pending when a sensor is removed (190) is
  left as it is: `HasWork` speaks of sensors that still exist, and `CaptureContract` lets the
  slot be given back with such a readback, though not with a picture at the worker.

## 7. Plan

Done, in this order: `NativeControl` (the path every client uses), `RosStream`,
`SnapshotCapture`, `RtpPacer`, the proofs about `NativeControl` and `RtpPacer`;
then `ControlContract` with its refinement, `SourceHost` and `ControlPlane`,
`EncoderSession` with `H264Packets`, `SnapshotJpeg`, and `CaptureContract` with its
refinement.

The proofs of section 5 followed: first the refinement and the rest of
`NativeControl`, then every other component, last the packets for every access unit
and the refinement of `CaptureContract`.

Next: the hazards that no property covers yet (`PROJECT.json`): a PATCH between the stores
of a failed transition (1426), request ids shared by a capture and a mutation (1301), a failed
render that is late (2064), a readback pending at a removal (190).
