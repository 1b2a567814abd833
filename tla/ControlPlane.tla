---------------------------- MODULE ControlPlane ----------------------------
(***************************************************************************)
(* The control plane of one camera: the shared endpoint (SourceHost), the  *)
(* contract of the source behind it (ControlContract, which NativeControl  *)
(* implements), the CameraPeer that applies the calibration to it          *)
(* (scripts/camera_peer.py, scripts/camera_contract_publisher.py), and     *)
(* other clients that start and stop its stream or change its              *)
(* configuration, the calibration included.  Replies get lost, requests    *)
(* come late, deadlines pass, sensors are removed and loaded again, the    *)
(* process crashes.                                                        *)
(*                                                                         *)
(* The contract is the one of the source with id Watched; it starts anew   *)
(* with every plugin that registers under that id.                         *)
(***************************************************************************)
EXTENDS SourceHost

CONSTANTS
  Watched,                       \* ~media_source_id of the peer
  Jpegs, Calibrations, InitJpeg, InitCal,
  Wanted,                        \* the calibration the peer is to apply
  FixedInstance,                 \* the SDF gives a controlInstanceId
  MaxForeign,                    \* bound: mutations of other clients
  MaxFaults                      \* bound: lost replies, deadlines, crashes

ASSUME ContractAssumption ==
  /\ InitJpeg \in Jpegs /\ InitCal \in Calibrations /\ Wanted \in Calibrations
  /\ FixedInstance \in BOOLEAN
\* A mutation that is not answered yet, and a request that is under way.
Mutation == [revision : Nat, cal : BOOLEAN, late : BOOLEAN]
Request == [instance : 0..MaxHosts, revision : Nat]
ASSUME NoneIsNoMutation == None \notin Mutation \cup Request

VARIABLES
  \* The contract of the watched source.
  desiredRevision, desiredConfig, appliedRevision, appliedConfig,
  pendingControl, holder, inUse, calibrationRevision,
  publishedCalibrationRevision,
  \* The peer: where _work and its reconcile callback are, what they know.
  peer,          \* "discover", "described", "patching", "patched", ...
  description,   \* the instance and roster of the last describe
  expected,      \* expected_revision of its PATCH while that is on its way
  status,        \* instance_id and applied_revision of its status
  stray,         \* a PATCH it gave up on, still on its way
  \* History and bounds.
  isPeers,       \* the pending mutation is a PATCH of the peer
  peerApplied,   \* PATCHes of the peer applied by this source since another
                 \* client gave it a calibration that is not the peer's
  othersApplied, \* whether this source completed a mutation of another
  crossed,       \* a PATCH meant for the source before this one was under way
  foreign, faults

contractVars == <<desiredRevision, desiredConfig, appliedRevision,
                  appliedConfig, pendingControl, holder, inUse,
                  calibrationRevision, publishedCalibrationRevision>>
hostVars == <<plugin, sourceID, controlHost, controlWakeHost,
              controlRegistered, hosts, sources, inCall, endpoint, loads>>
peerVars == <<peer, description, expected, status, stray>>
historyVars == <<isPeers, peerApplied, othersApplied, crossed>>
boundVars == <<foreign, faults>>
planeVars == <<hostVars, contractVars, peerVars, historyVars, boundVars>>

Source == INSTANCE ControlContract

PlaneInit ==
  /\ Init /\ Source!Init
  /\ peer = "discover"
  /\ description = [instance |-> 0, listed |-> FALSE]
  /\ expected = 0 /\ stray = None
  /\ status = [instance |-> 0, appliedRevision |-> 0]
  /\ isPeers = FALSE /\ peerApplied = 0 /\ othersApplied = FALSE
  /\ crossed = FALSE
  /\ foreign = 0 /\ faults = 0

----------------------------------------------------------------------------
(* The source and its host. *)

\* Dispatch finds the watched source in the roster of the host that listens.
Routed ==
  /\ endpoint.by # 0
  /\ \E s \in sources[endpoint.by] : sourceID[s] = Watched

\* ... and its executor is free to call it.
Answers == Routed /\ Idle(endpoint.by)

\* A plugin that registers has its state new.
ContractStartsAnew ==
  /\ desiredRevision' = 1 /\ appliedRevision' = 1
  /\ desiredConfig' = Source!Authored /\ appliedConfig' = Source!Authored
  /\ inUse' = Source!Authored
  /\ pendingControl' = None /\ holder' = "nobody"
  /\ calibrationRevision' = 1 /\ publishedCalibrationRevision' = 0
  /\ isPeers' = FALSE /\ peerApplied' = 0 /\ othersApplied' = FALSE
  /\ crossed' = (peer = "patching" \/ stray # None)

\* StopControlServer answers what is pending 503, a crash ends its connection:
\* a peer that waits for its PATCH hears of it.
SourceGoes ==
  /\ ContractStartsAnew
  /\ peer' = IF peer = "patched" THEN "backoff" ELSE peer
  /\ UNCHANGED <<description, expected, status, stray>>

SensorMoves(s) ==
  /\ SensorStep(s)
  /\ IF plugin[s] = "serving" /\ plugin'[s] # "serving" /\ sourceID[s] = Watched
       THEN SourceGoes
       ELSE UNCHANGED <<contractVars, peerVars, historyVars>>
  /\ UNCHANGED boundVars

HostCrashes ==
  /\ Crash /\ SourceGoes
  /\ faults < MaxFaults /\ faults' = faults + 1
  /\ UNCHANGED foreign

ExecutorMoves ==
  /\ ExecutorStep
  /\ UNCHANGED <<contractVars, peerVars, historyVars, boundVars>>

----------------------------------------------------------------------------
(* The peer: _work with _apply_camera_info_metadata as its callback. *)

\* The instance_id of a host: of its own, or the one all of them are given.
Instance(h) == IF FixedInstance THEN 1 ELSE h

\* Mutant: applied_revision is kept whoever answers.
IsKnown(instance) == TRUE

IsSame(instance) == instance = status.instance

\* The endpoint exists: GET /v1/describe.  A path nobody listens at refuses.
Describe ==
  /\ peer = "discover" /\ endpoint.exists
  /\ endpoint.by # 0 => Idle(endpoint.by)
  /\ IF endpoint.by = 0
       THEN peer' = "backoff" /\ UNCHANGED <<description, status>>
       ELSE /\ peer' = "described"
            /\ description' = [instance |-> Instance(endpoint.by), listed |-> Routed]
            /\ status' = IF IsSame(Instance(endpoint.by)) THEN status
                         ELSE [status EXCEPT !.appliedRevision = 0]
  /\ UNCHANGED <<expected, stray, hostVars, contractVars, historyVars,
                 boundVars>>

\* Mutant: connected as soon as the configuration is the wanted one.
IsAccepted(published, applied) == TRUE

\* "Completion requires actual publication."
IsPublished(published, applied) == published = applied

\* What the reply to its last call tells the reconcile callback.
Conclude(published, applied) ==
  peer' = IF IsPublished(published, applied) THEN "acknowledged" ELSE "backoff"

\* That reply comes, with the source as it may be by then: reconcile returns.
Connect ==
  /\ peer = "acknowledged" /\ peer' = "connected"
  /\ status' = [instance |-> description.instance, appliedRevision |-> 1]
  /\ UNCHANGED <<description, expected, stray, hostVars, contractVars,
                 historyVars, boundVars>>

\* Mutant: the PATCH expects the revision that was applied last.
AppliedIsExpected == appliedRevision

RevisionToExpect == desiredRevision

\* A client is bound to the instance it was described; another one refuses it.
Reaches(instance) == endpoint.by # 0 /\ Instance(endpoint.by) = instance

\* GET config of the source; if it does not carry the calibration, the PATCH
\* is sent with the revision just read.
GetConfig ==
  /\ peer = "described"
  /\ Reaches(description.instance) => Idle(endpoint.by)
  /\ IF \/ ~description.listed
        \/ ~Reaches(description.instance) \/ ~Routed
        \/ pendingControl # None
       THEN peer' = "backoff" /\ UNCHANGED expected
       ELSE IF appliedConfig.cal # Wanted
         THEN peer' = "patching" /\ expected' = RevisionToExpect
         ELSE /\ Conclude(publishedCalibrationRevision, appliedRevision)
              /\ UNCHANGED expected
  /\ UNCHANGED <<description, status, stray, hostVars, contractVars,
                 historyVars, boundVars>>

\* Mutant: expected_revision is not compared.
RevisionIsGiven(revision) == TRUE

RevisionIsExpected(revision) == revision = desiredRevision

\* A PATCH comes to the source: 409, 429, or it is admitted.
IsAdmitted(instance, revision) ==
  /\ Reaches(instance) /\ Routed
  /\ RevisionIsExpected(revision)
  /\ pendingControl = None

AdmitPatch ==
  /\ Source!Admit([desiredConfig EXCEPT !.cal = Wanted], TRUE)
  /\ isPeers' = TRUE
  /\ UNCHANGED <<peerApplied, othersApplied, crossed>>

DeliverPatch ==
  /\ peer = "patching"
  /\ Reaches(description.instance) => Idle(endpoint.by)
  /\ IF IsAdmitted(description.instance, expected)
       THEN AdmitPatch /\ peer' = "patched"
       ELSE UNCHANGED <<contractVars, historyVars>> /\ peer' = "backoff"
  /\ expected' = 0
  /\ UNCHANGED <<description, status, stray, hostVars, boundVars>>

\* The reply is lost, or comes after the timeout of the call; the request may
\* still be under way.
GiveUp ==
  /\ peer \in {"patching", "patched", "acknowledged"} /\ faults < MaxFaults
  /\ faults' = faults + 1
  /\ peer' = "backoff" /\ expected' = 0
  /\ stray' = IF peer = "patching" /\ stray = None
                THEN [instance |-> description.instance, revision |-> expected]
                ELSE stray
  /\ UNCHANGED <<description, status, hostVars, contractVars, historyVars,
                 foreign>>

DeliverStray ==
  /\ stray # None /\ stray' = None
  /\ Reaches(stray.instance) => Idle(endpoint.by)
  /\ IF IsAdmitted(stray.instance, stray.revision)
       THEN AdmitPatch
       ELSE UNCHANGED <<contractVars, historyVars>>
  /\ UNCHANGED <<peer, description, expected, status, hostVars, boundVars>>

\* The observe loop: something changed in the directory, so the source is
\* reconciled again on the description of before.
ReconcileAgain ==
  /\ peer = "connected" /\ peer' = "described"
  /\ UNCHANGED <<description, expected, status, stray, hostVars, contractVars,
                 historyVars, boundVars>>

\* ... or an observe ended in an error: nothing happened within the timeout,
\* the source is gone, the revision is ahead of a new one.
ObserveFails ==
  /\ peer = "connected" /\ peer' = "backoff"
  /\ UNCHANGED <<description, expected, status, stray, hostVars, contractVars,
                 historyVars, boundVars>>

Retry ==
  /\ peer = "backoff" /\ peer' = "discover"
  /\ UNCHANGED <<description, expected, status, stray, hostVars, contractVars,
                 historyVars, boundVars>>

PeerCalls == Describe \/ GetConfig \/ DeliverPatch

PeerSteps == PeerCalls \/ Connect \/ ReconcileAgain \/ ObserveFails \/ Retry

----------------------------------------------------------------------------
(* The source at work, and its other clients. *)

\* start, stop, request-keyframe or a PATCH without a calibration.
OtherMutation ==
  /\ \E jpeg \in Jpegs : Source!Admit([desiredConfig EXCEPT !.jpeg = jpeg], FALSE)
  /\ UNCHANGED peerApplied

\* A PATCH with one: the peer's, or one that the peer's is to replace again.
OtherCalibration ==
  \E jpeg \in Jpegs, cal \in Calibrations :
    /\ Source!Admit([jpeg |-> jpeg, cal |-> cal], TRUE)
    /\ peerApplied' = IF cal = Wanted THEN peerApplied ELSE 0

OtherClient ==
  /\ Answers /\ foreign < MaxForeign /\ foreign' = foreign + 1
  /\ OtherMutation \/ OtherCalibration
  /\ isPeers' = FALSE
  /\ UNCHANGED <<othersApplied, crossed, peerVars, hostVars, faults>>

SourceDeadline ==
  /\ faults < MaxFaults /\ faults' = faults + 1
  /\ Source!Deadline
  /\ UNCHANGED <<foreign, peerVars, hostVars, historyVars>>

SourceTakes ==
  /\ Source!Take
  /\ peerApplied' = IF isPeers THEN peerApplied + 1 ELSE peerApplied
  /\ UNCHANGED <<isPeers, othersApplied, crossed, peerVars, hostVars, boundVars>>

SourceWorks ==
  /\ Routed /\ (Source!Acknowledge \/ Source!PublishCalibration)
  /\ UNCHANGED <<peerVars, hostVars, historyVars, boundVars>>

\* FlushControl; the peer hears of its PATCH if it still waits for it.
SourceAnswers ==
  /\ Answers /\ Source!Answer
  /\ isPeers' = FALSE
  /\ othersApplied' = (othersApplied \/ (~isPeers /\ holder = "applied"))
  /\ IF peer = "patched"
       THEN IF holder = "applied"
              THEN Conclude(publishedCalibrationRevision, appliedRevision')
              ELSE peer' = "backoff"
       ELSE UNCHANGED peer
  /\ UNCHANGED <<description, expected, status, stray, peerApplied, crossed,
                 hostVars, boundVars>>

SourceSteps == SourceTakes \/ SourceWorks \/ SourceAnswers

PlaneNext ==
  \/ \E s \in Sensors : SensorMoves(s)
  \/ ExecutorMoves \/ HostCrashes
  \/ PeerSteps \/ GiveUp \/ DeliverStray
  \/ OtherClient \/ SourceDeadline \/ SourceSteps

\* Threads run, calls return, an observe of a source at rest times out; nobody
\* is obliged to load or remove a sensor, to lose a message or to mutate.  The
\* executor is now and then in another callback, so a call that needs it is
\* strongly fair.
Fairness ==
  /\ WF_planeVars(ExecutorMoves /\ \E h \in HostIds : LeaveCall(h))
  /\ SF_planeVars(PeerCalls)
  /\ WF_planeVars(Connect \/ ObserveFails \/ Retry)
  /\ WF_planeVars(SourceTakes) /\ WF_planeVars(SourceWorks)
  /\ SF_planeVars(SourceAnswers)

PlaneSpec == PlaneInit /\ [][PlaneNext]_planeVars
FairPlaneSpec == PlaneSpec /\ Fairness

----------------------------------------------------------------------------
(* Properties. *)

PlaneTypeOK ==
  /\ TypeOK
  /\ peer \in {"discover", "described", "patching", "patched",
               "acknowledged", "connected", "backoff"}
  /\ description \in [instance : 0..MaxHosts, listed : BOOLEAN]
  /\ status \in [instance : 0..MaxHosts, appliedRevision : {0, 1}]
  /\ peer = "patched" => pendingControl # None /\ isPeers
  /\ foreign \in 0..MaxForeign /\ faults \in 0..MaxFaults

\* README.md: the peer "applies CameraInfo metadata once per source instance
\* and reconciles lost replies".  However many replies, requests and deadlines
\* are lost, expected_revision and the look at the applied calibration let one
\* PATCH of the peer through, and one more each time another client's PATCH put
\* a calibration of its own in its place (HandleControlRequest takes one of
\* every client).  Only a sensor that was replaced under a PATCH may take a
\* second: its revisions start at 1 again.
MetadataAppliedOnce == peerApplied <= 1 \/ crossed

\* The topic carries the calibration.
IsCarried ==
  /\ Routed
  /\ inUse.cal = Wanted
  /\ publishedCalibrationRevision = calibrationRevision

\* When the source sends the reply that connects the peer, the calibration is
\* on the topic: also when the status had it as applied without having used it,
\* when another client PATCHed one in between, and when the reply the peer acts
\* on is not the one of its own PATCH (the reconcile before any write).
ConnectedMeansPublished ==
  [][peer # "acknowledged" /\ peer' = "acknowledged" => IsCarried']_planeVars

\* The status the peer's owner reports never has the revision applied for an
\* instance it did not connect to, however often the endpoint changes hands
\* between its calls.
StatusIsOfItsInstance ==
  status.appliedRevision = 1 => status.instance = description.instance

\* The source gets its calibration and the peer connects, again and again, once
\* the source stays, unless another client had a mutation completed by it.
PeerConnects ==
  <>[](Routed /\ ~othersApplied) => []<>(peer = "connected" /\ IsCarried)

\* README.md:225-226: the peer "applies CameraInfo metadata once per source
\* instance and reconciles lost replies", whatever other clients do.
PeerReconnects == <>[]Routed => []<>(peer = "connected")
=============================================================================
