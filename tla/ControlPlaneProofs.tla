------------------------- MODULE ControlPlaneProofs -------------------------
(***************************************************************************)
(* The shared control host and what depends on it, for every number of     *)
(* sensors, ids, hosts and faults.  The contract of the source and the     *)
(* peer move beside the host: HostStep is all a step of the plane can do   *)
(* to it.                                                                  *)
(***************************************************************************)
EXTENDS ControlPlane, TLAPS

HostStep ==
  \/ \E s \in Sensors : SensorStep(s)
  \/ ExecutorStep
  \/ Crash
  \/ UNCHANGED hostVars

\* The host, as the peer, the source and other clients see it, moves only by
\* the steps of its sensors, its executor and the process.
LEMMA PlaneMovesTheHost == PlaneNext \/ UNCHANGED planeVars => HostStep
  BY DEF PlaneNext, planeVars, HostStep, SensorMoves, ExecutorMoves, HostCrashes,
     PeerSteps, PeerCalls, Describe, GetConfig, DeliverPatch, Connect,
     ReconcileAgain, ObserveFails, Retry, GiveUp, DeliverStray, OtherClient, SourceDeadline,
     SourceSteps, SourceTakes, SourceWorks, SourceAnswers

(***************************************************************************)
(* The invariant.                                                          *)
(***************************************************************************)
HostTyped ==
  /\ plugin \in [Sensors -> Stages] /\ sourceID \in [Sensors -> AllIds]
  /\ controlHost \in [Sensors -> 0..MaxHosts]
  /\ controlWakeHost \in [Sensors -> 0..MaxHosts]
  /\ controlRegistered \in [Sensors -> BOOLEAN]
  /\ hosts \in [HostIds -> {"unused", "running", "stopping", "gone"}]
  /\ sources \in [HostIds -> SUBSET Sensors]
  /\ inCall \in [HostIds -> Sensors \cup {None}]
  /\ endpoint \in [exists : BOOLEAN, by : 0..MaxHosts]

\* What a plugin holds at each stage of its life.
PluginInv ==
  \A s \in Sensors :
    /\ controlRegistered[s] <=> plugin[s] = "serving"
    /\ controlWakeHost[s] = controlHost[s]
    /\ plugin[s] = "absent" => controlHost[s] = 0
    /\ plugin[s] \in {"acquired", "serving", "releasing"} => controlHost[s] # 0

\* There is at most one host, and it is the one that listens: a plugin holds
\* nothing else, and only the one that is alone with it takes it down.
SoleHostInv ==
  /\ endpoint.by # 0 => endpoint.exists
  /\ \A h \in HostIds : Exists(h) <=> endpoint.by = h
  /\ \A s \in Sensors : controlHost[s] # 0 =>
       /\ controlHost[s] = endpoint.by
       /\ plugin[s] # "releasing" => hosts[controlHost[s]] = "running"
  /\ \A s \in Sensors : plugin[s] = "releasing" => IsLast(s)

\* The roster of a host is the plugins that serve behind it, each with an id of
\* its own, and its executor is inside one of them if in any.
RosterInv ==
  /\ \A h \in HostIds :
       /\ sources[h] = {s \in Sensors : plugin[s] = "serving" /\ controlHost[s] = h}
       /\ inCall[h] # None => inCall[h] \in sources[h]
       /\ \A s, t \in sources[h] : sourceID[s] = sourceID[t] => s = t

HostInv == HostTyped /\ PluginInv /\ SoleHostInv /\ RosterInv

(***************************************************************************)
(* Its steps.                                                              *)
(***************************************************************************)
\* The process before the first sensor is loaded.
LEMMA InitHost == Init => HostInv
<1> SUFFICES ASSUME Init PROVE HostInv
  OBVIOUS
<1> USE HostAssumption DEF HostIds
<1>1. HostTyped
  BY DEF Init, HostTyped, Stages, AllIds
<1>2. PluginInv /\ SoleHostInv /\ RosterInv
  BY DEF Init, PluginInv, SoleHostInv, RosterInv, Exists
<1> QED
  BY <1>1, <1>2 DEF HostInv

\* Types, for every step.
LEMMA TypedStep == HostInv /\ HostStep => HostTyped'
<1> SUFFICES ASSUME HostInv, HostStep PROVE HostTyped'
  OBVIOUS
<1> USE HostAssumption DEF HostInv, HostTyped, HostIds, Stages
<1>0. None \in AllIds /\ \A s \in Sensors : SourceIds[s] \subseteq AllIds
  BY DEF AllIds
<1>1. ASSUME NEW s \in Sensors, AcquireShared(s) PROVE HostTyped'
  BY <1>0, <1>1 DEF AcquireShared, Loaded, Hold, Shared
<1>2. ASSUME NEW s \in Sensors, AcquireNew(s) PROVE HostTyped'
  BY <1>0, <1>2 DEF AcquireNew, Loaded, Hold
<1>3. ASSUME NEW s \in Sensors, AcquireFails(s) PROVE HostTyped'
  BY <1>0, <1>3 DEF AcquireFails, Loaded
<1>4. ASSUME NEW s \in Sensors, Register(s) PROVE HostTyped'
  <2>1. controlHost[s] \in HostIds => sources[controlHost[s]] \cup {s} \in SUBSET Sensors
    OBVIOUS
  <2>2. sources' \in [HostIds -> SUBSET Sensors]
    BY <1>4, <2>1 DEF Register
  <2> QED
    BY <1>4, <2>2 DEF Register
<1>5. ASSUME NEW s \in Sensors, RegisterFails(s) \/ JoinWorkers(s) PROVE HostTyped'
  <2>1. \E stage \in Stages : plugin' = [plugin EXCEPT ![s] = stage]
    BY ONLY <1>5 DEF RegisterFails, JoinWorkers, Stages
  <2>2. plugin' \in [Sensors -> Stages]
    BY ONLY HostInv, <2>1 DEF HostInv, HostTyped
  <2>3. /\ UNCHANGED <<sourceID, controlHost, controlWakeHost, controlRegistered>>
        /\ UNCHANGED <<hosts, sources, inCall, endpoint>>
    BY ONLY <1>5 DEF RegisterFails, JoinWorkers
  <2> QED
    BY ONLY HostInv, <2>2, <2>3 DEF HostInv, HostTyped, HostIds, AllIds
<1>6. ASSUME NEW s \in Sensors, StopControlServer(s) PROVE HostTyped'
  <2>1. sources' \in [HostIds -> SUBSET Sensors]
    <3> DEFINE h == controlHost[s]
               rest == {t \in sources[h] : sourceID[t] # sourceID[s]}
    <3>1. sources' = sources \/ sources' = [sources EXCEPT ![h] = rest]
      BY <1>6 DEF StopControlServer, Unregister
    <3>2. h \in HostIds => rest \in SUBSET Sensors
      OBVIOUS
    <3> QED
      BY <3>1, <3>2
  <2>2. controlRegistered' \in [Sensors -> BOOLEAN]
    BY <1>6 DEF StopControlServer, Unregister
  <2> QED
    BY <1>6, <2>1, <2>2 DEF StopControlServer, KeepsHost
<1>7. ASSUME NEW s \in Sensors, Release(s) PROVE HostTyped'
  BY <1>0, <1>7 DEF Release, Gone
<1>8. ASSUME NEW s \in Sensors, ReleaseLast(s) PROVE HostTyped'
  BY <1>8 DEF ReleaseLast
<1>9. ASSUME NEW s \in Sensors, HostStopped(s) PROVE HostTyped'
  <2>1. endpoint' \in [exists : BOOLEAN, by : 0..MaxHosts]
    <3>1. endpoint' = [exists |-> FALSE, by |-> 0] /\ 0 \in 0..MaxHosts
      BY <1>9 DEF HostStopped
    <3> QED
      BY ONLY <3>1
  <2>2. hosts' \in [HostIds -> {"unused", "running", "stopping", "gone"}]
    BY <1>9 DEF HostStopped
  <2> QED
    BY <1>0, <1>9, <2>1, <2>2 DEF HostStopped, Gone
<1>10. CASE ExecutorStep
  BY <1>10 DEF ExecutorStep, LeaveCall, EnterCall, pluginVars
<1>11. CASE Crash
  <2>1. /\ plugin' \in [Sensors -> Stages] /\ sourceID' \in [Sensors -> AllIds]
        /\ controlHost' \in [Sensors -> 0..MaxHosts]
        /\ controlWakeHost' \in [Sensors -> 0..MaxHosts]
        /\ controlRegistered' \in [Sensors -> BOOLEAN]
    BY <1>0, <1>11 DEF Crash
  <2>2. hosts' \in [HostIds -> {"unused", "running", "stopping", "gone"}]
    BY <1>11 DEF Crash
  <2>3. /\ sources' \in [HostIds -> SUBSET Sensors]
        /\ inCall' \in [HostIds -> Sensors \cup {None}]
    BY <1>11 DEF Crash
  <2>4. endpoint' \in [exists : BOOLEAN, by : 0..MaxHosts]
    <3>1. endpoint' = [endpoint EXCEPT !.by = 0]
      BY <1>11 DEF Crash
    <3>2. endpoint \in [exists : BOOLEAN, by : 0..MaxHosts] /\ 0 \in 0..MaxHosts
      OBVIOUS
    <3> QED
      BY ONLY <3>1, <3>2
  <2> QED
    BY <2>1, <2>2, <2>3, <2>4
<1>12. CASE UNCHANGED hostVars
  BY <1>12 DEF hostVars
<1> QED
  BY <1>1, <1>2, <1>3, <1>4, <1>5, <1>6, <1>7, <1>8, <1>9, <1>10, <1>11, <1>12
     DEF HostStep, SensorStep

\* What a plugin holds changes with its stage.
LEMMA PluginStep == HostInv /\ HostStep => PluginInv'
<1> SUFFICES ASSUME HostInv, HostStep PROVE PluginInv'
  OBVIOUS
<1> USE HostAssumption DEF HostInv, HostTyped, PluginInv, HostIds, Stages
<1>1. ASSUME NEW s \in Sensors, AcquireShared(s) PROVE PluginInv'
  BY <1>1 DEF AcquireShared, Loaded, Hold, Shared
<1>2. ASSUME NEW s \in Sensors, AcquireNew(s) PROVE PluginInv'
  BY <1>2 DEF AcquireNew, Loaded, Hold, Shared
<1>3. ASSUME NEW s \in Sensors, AcquireFails(s) PROVE PluginInv'
  BY <1>3 DEF AcquireFails, Loaded
<1>4. ASSUME NEW s \in Sensors, Register(s) PROVE PluginInv'
  BY <1>4 DEF Register, IdIsTaken
<1>5. ASSUME NEW s \in Sensors, RegisterFails(s) \/ JoinWorkers(s) PROVE PluginInv'
  BY <1>5 DEF RegisterFails, JoinWorkers
<1>6. ASSUME NEW s \in Sensors, StopControlServer(s) PROVE PluginInv'
  BY <1>6 DEF StopControlServer, HasToUnregister, Unregister, KeepsHost
<1>7. ASSUME NEW s \in Sensors, Release(s) PROVE PluginInv'
  BY <1>7 DEF Release, Gone
<1>8. ASSUME NEW s \in Sensors, ReleaseLast(s) PROVE PluginInv'
  BY <1>8 DEF ReleaseLast
<1>9. ASSUME NEW s \in Sensors, HostStopped(s) PROVE PluginInv'
  BY <1>9 DEF HostStopped, Gone
<1>10. CASE ExecutorStep
  BY <1>10 DEF ExecutorStep, LeaveCall, EnterCall, pluginVars
<1>11. CASE Crash
  BY <1>11 DEF Crash
<1>12. CASE UNCHANGED hostVars
  BY <1>12 DEF hostVars
<1> QED
  BY <1>1, <1>2, <1>3, <1>4, <1>5, <1>6, <1>7, <1>8, <1>9, <1>10, <1>11, <1>12
     DEF HostStep, SensorStep

\* A host is made when none is there, and goes with its last holder.
LEMMA SoleHostStep == HostInv /\ HostStep => SoleHostInv'
<1> SUFFICES ASSUME HostInv, HostStep PROVE SoleHostInv'
  OBVIOUS
<1> USE HostAssumption DEF HostInv, HostTyped, PluginInv, SoleHostInv, HostIds,
    Stages, Exists, IsLast
<1>1. ASSUME NEW s \in Sensors, AcquireShared(s) PROVE SoleHostInv'
  BY <1>1 DEF AcquireShared, Loaded, Hold, Shared
<1>2. ASSUME NEW s \in Sensors, AcquireNew(s) PROVE SoleHostInv'
  BY <1>2 DEF AcquireNew, Loaded, Hold, Shared
<1>3. ASSUME NEW s \in Sensors, AcquireFails(s) PROVE SoleHostInv'
  BY <1>3 DEF AcquireFails, Loaded
<1>4. ASSUME NEW s \in Sensors, Register(s) PROVE SoleHostInv'
  BY <1>4 DEF Register, IdIsTaken
<1>5. ASSUME NEW s \in Sensors, RegisterFails(s) PROVE SoleHostInv'
  BY <1>5 DEF RegisterFails
<1>6. ASSUME NEW s \in Sensors, JoinWorkers(s) PROVE SoleHostInv'
  BY <1>6 DEF JoinWorkers
<1>7. ASSUME NEW s \in Sensors, StopControlServer(s) PROVE SoleHostInv'
  BY <1>7 DEF StopControlServer, HasToUnregister, Unregister, KeepsHost
<1>8. ASSUME NEW s \in Sensors, Release(s) PROVE SoleHostInv'
  BY <1>8 DEF Release, Gone
<1>9. ASSUME NEW s \in Sensors, ReleaseLast(s) PROVE SoleHostInv'
  BY <1>9 DEF ReleaseLast
<1>10. ASSUME NEW s \in Sensors, HostStopped(s) PROVE SoleHostInv'
  BY <1>10 DEF HostStopped, Gone
<1>11. CASE ExecutorStep
  BY <1>11 DEF ExecutorStep, LeaveCall, EnterCall, pluginVars
<1>12. CASE Crash
  BY <1>12 DEF Crash
<1>13. CASE UNCHANGED hostVars
  BY <1>13 DEF hostVars
<1> QED
  BY <1>1, <1>2, <1>3, <1>4, <1>5, <1>6, <1>7, <1>8, <1>9, <1>10, <1>11, <1>12,
      <1>13
     DEF HostStep, SensorStep

\* A plugin that is loaded is in no roster yet, and disturbs none.
LEMMA LoadingKeepsRosters ==
  ASSUME HostTyped, RosterInv, NEW s \in Sensors, Loaded(s, "acquired"),
         \A t \in Sensors \ {s} : controlHost'[t] = controlHost[t]
  PROVE  RosterInv'
<1>1. plugin[s] = "absent" /\ plugin' = [plugin EXCEPT ![s] = "acquired"]
  BY ONLY Loaded(s, "acquired") DEF Loaded
<1>2. sources' = sources /\ inCall' = inCall
  BY ONLY Loaded(s, "acquired") DEF Loaded
<1>3. PICK id : sourceID' = [sourceID EXCEPT ![s] = id]
  BY ONLY Loaded(s, "acquired") DEF Loaded
<1>4. plugin \in [Sensors -> Stages] /\ sourceID \in [Sensors -> AllIds]
  BY ONLY HostTyped DEF HostTyped
<1>5. \A t \in Sensors : plugin'[t] = IF t = s THEN "acquired" ELSE plugin[t]
  BY ONLY <1>1, <1>4
<1>6. \A t \in Sensors \ {s} : sourceID'[t] = sourceID[t]
  BY ONLY <1>3, <1>4
<1> SUFFICES ASSUME NEW h \in HostIds
             PROVE  /\ sources[h] = {t \in Sensors :
                                       plugin'[t] = "serving" /\ controlHost'[t] = h}
                    /\ inCall[h] # None => inCall[h] \in sources[h]
                    /\ \A t, u \in sources[h] : sourceID'[t] = sourceID'[u] => t = u
  BY <1>2 DEF RosterInv, HostIds
<1>7. /\ sources[h] = {t \in Sensors : plugin[t] = "serving" /\ controlHost[t] = h}
      /\ inCall[h] # None => inCall[h] \in sources[h]
      /\ \A t, u \in sources[h] : sourceID[t] = sourceID[u] => t = u
  BY ONLY RosterInv DEF RosterInv
<1>8. \A t \in Sensors : plugin'[t] = "serving" /\ controlHost'[t] = h
                       <=> plugin[t] = "serving" /\ controlHost[t] = h
  <2> SUFFICES ASSUME NEW t \in Sensors
               PROVE  plugin'[t] = "serving" /\ controlHost'[t] = h
                        <=> plugin[t] = "serving" /\ controlHost[t] = h
    OBVIOUS
  <2>1. CASE t = s
    BY ONLY <1>1, <1>5, <2>1, t \in Sensors
  <2>2. CASE t # s
    <3>1. controlHost'[t] = controlHost[t] /\ plugin'[t] = plugin[t]
      BY <1>5, <2>2
    <3> QED
      BY ONLY <3>1
  <2> QED
    BY ONLY <2>1, <2>2
<1>9. sources[h] \subseteq Sensors \ {s}
  BY ONLY <1>1, <1>7
<1>10. sources[h] = {t \in Sensors : plugin'[t] = "serving" /\ controlHost'[t] = h}
  BY ONLY <1>7, <1>8
<1>11. \A t, u \in sources[h] : sourceID'[t] = sourceID'[u] => t = u
  BY ONLY <1>6, <1>7, <1>9
<1> QED
  BY ONLY <1>7, <1>10, <1>11

\* The roster changes with the plugin, and never under a call.
LEMMA RosterStep == HostInv /\ HostStep => RosterInv'
<1> SUFFICES ASSUME HostInv, HostStep PROVE RosterInv'
  OBVIOUS
<1> USE HostAssumption DEF HostInv, HostTyped, PluginInv, SoleHostInv,
    RosterInv, HostIds, Stages, Idle
<1>1. ASSUME NEW s \in Sensors, AcquireShared(s) PROVE RosterInv'
  <2>1. Loaded(s, "acquired")
    BY ONLY <1>1 DEF AcquireShared
  <2>2. PICK h : controlHost' = [controlHost EXCEPT ![s] = h]
    BY ONLY <1>1 DEF AcquireShared, Hold
  <2>3. \A t \in Sensors \ {s} : controlHost'[t] = controlHost[t]
    BY ONLY HostInv, <2>2 DEF HostInv, HostTyped
  <2> QED
    BY ONLY HostInv, <2>1, <2>3, LoadingKeepsRosters DEF HostInv
<1>2. ASSUME NEW s \in Sensors, AcquireNew(s) PROVE RosterInv'
  <2>1. Loaded(s, "acquired")
    BY ONLY <1>2 DEF AcquireNew
  <2>2. PICK h : controlHost' = [controlHost EXCEPT ![s] = h]
    BY ONLY <1>2 DEF AcquireNew, Hold
  <2>3. \A t \in Sensors \ {s} : controlHost'[t] = controlHost[t]
    BY ONLY HostInv, <2>2 DEF HostInv, HostTyped
  <2> QED
    BY ONLY HostInv, <2>1, <2>3, LoadingKeepsRosters DEF HostInv
<1>3. ASSUME NEW s \in Sensors, AcquireFails(s) PROVE RosterInv'
  BY <1>3 DEF AcquireFails, Loaded
<1>4. ASSUME NEW s \in Sensors, Register(s) PROVE RosterInv'
  BY <1>4 DEF Register, IdIsTaken
<1>5. ASSUME NEW s \in Sensors, RegisterFails(s) \/ JoinWorkers(s) PROVE RosterInv'
  BY <1>5 DEF RegisterFails, JoinWorkers
<1>6. ASSUME NEW s \in Sensors, StopControlServer(s) PROVE RosterInv'
  BY <1>6 DEF StopControlServer, HasToUnregister, Unregister, KeepsHost
<1>7. ASSUME NEW s \in Sensors, Release(s) PROVE RosterInv'
  BY <1>7 DEF Release, Gone
<1>8. ASSUME NEW s \in Sensors, ReleaseLast(s) PROVE RosterInv'
  BY <1>8 DEF ReleaseLast
<1>9. ASSUME NEW s \in Sensors, HostStopped(s) PROVE RosterInv'
  BY <1>9 DEF HostStopped, Gone
<1>10. CASE ExecutorStep
  BY <1>10 DEF ExecutorStep, LeaveCall, EnterCall, pluginVars
<1>11. CASE Crash
  BY <1>11 DEF Crash
<1>12. CASE UNCHANGED hostVars
  BY <1>12 DEF hostVars
<1> QED
  BY <1>1, <1>2, <1>3, <1>4, <1>5, <1>6, <1>7, <1>8, <1>9, <1>10, <1>11, <1>12
     DEF HostStep, SensorStep

(***************************************************************************)
(* Theorems about the host.                                                *)
(***************************************************************************)
\* The invariant of the host holds, whatever the peer and the source do.
THEOREM HostInvariant == PlaneSpec => []HostInv
<1>1. PlaneInit => HostInv
  BY InitHost DEF PlaneInit
<1>2. HostInv /\ [PlaneNext]_planeVars => HostInv'
  BY PlaneMovesTheHost, TypedStep, PluginStep, SoleHostStep, RosterStep DEF
      HostInv
<1> QED
  BY <1>1, <1>2, PTL DEF PlaneSpec

\* A sensor that serves is found by its id at the socket, whatever duplicates
\* are refused and removed, hosts released, processes restarted (Acquire,
\* Register, Unregister).
THEOREM ServingSensorsAreRouted == PlaneSpec => []ServingIsRouted
<1>1. HostInv => ServingIsRouted
  <2> SUFFICES ASSUME HostInv, NEW s \in Sensors, plugin[s] = "serving"
               PROVE  /\ endpoint = [exists |-> TRUE, by |-> controlHost[s]]
                      /\ {t \in sources[endpoint.by] : sourceID[t] = sourceID[s]} = {s}
    BY DEF ServingIsRouted
  <2>1. controlHost[s] \in HostIds /\ endpoint.by = controlHost[s] /\ endpoint.exists
    BY HostAssumption DEF HostInv, HostTyped, PluginInv, SoleHostInv, HostIds
  <2>2. endpoint = [exists |-> TRUE, by |-> controlHost[s]]
    BY <2>1 DEF HostInv, HostTyped
  <2>3. s \in sources[controlHost[s]]
    BY <2>1 DEF HostInv, RosterInv
  <2> QED
    BY <2>1, <2>2, <2>3 DEF HostInv, RosterInv
<1> QED
  BY HostInvariant, <1>1, PTL

\* The executor is never inside a plugin that takes itself apart, and a worker
\* of a plugin never wakes a host that is gone (EnterCall, Unregister, the
\* members of XGCMediaCameraPlugin and the order they are destroyed in).
THEOREM CallsReachOnlyTheLiving == PlaneSpec => []CallsReachTheLiving
<1>1. HostInv => CallsReachTheLiving
  BY HostAssumption DEF HostInv, HostTyped, PluginInv, SoleHostInv, RosterInv,
     HostIds, CallsReachTheLiving
<1> QED
  BY HostInvariant, <1>1, PTL

(***************************************************************************)
(* The contract and the peer.                                              *)
(***************************************************************************)
Config == [jpeg : Jpegs, cal : Calibrations]

PlaneTyped ==
  /\ desiredRevision \in Nat /\ appliedRevision \in Nat
  /\ calibrationRevision \in Nat /\ publishedCalibrationRevision \in Nat
  /\ desiredConfig \in Config /\ appliedConfig \in Config /\ inUse \in Config
  /\ pendingControl \in Mutation \cup {None}
  /\ holder \in {"nobody", "mailbox", "render", "applied", "failed"}
  /\ description.instance \in 0..MaxHosts
  /\ status \in [instance : 0..MaxHosts, appliedRevision : {0, 1}]
  /\ expected \in Nat /\ stray \in Request \cup {None} /\ peerApplied \in Nat
  /\ isPeers \in BOOLEAN /\ crossed \in BOOLEAN

\* A calibration that is in use and not applied is the pending one's; what is
\* applied without being in use has a revision the topic never carries.
CalibrationInv ==
  IF holder = "applied" /\ pendingControl.cal
    THEN /\ calibrationRevision = desiredRevision
         /\ inUse.cal = desiredConfig.cal
    ELSE /\ calibrationRevision <= appliedRevision
         /\ calibrationRevision = appliedRevision => inUse.cal = appliedConfig.cal

ContractInv ==
  /\ pendingControl = None <=> holder = "nobody"
  /\ pendingControl # None =>
       /\ pendingControl.revision = desiredRevision
       /\ appliedRevision < desiredRevision
       /\ pendingControl.cal => holder \in {"mailbox", "applied"}
  /\ appliedRevision <= desiredRevision
  /\ 1 <= calibrationRevision
  /\ publishedCalibrationRevision <= calibrationRevision
  /\ CalibrationInv

\* A PATCH of the peer that is still under way and would be admitted comes to a
\* source that never applied one.
NotYet(revision) ==
  /\ revision <= desiredRevision
  /\ revision = desiredRevision => pendingControl = None /\ peerApplied = 0

OnceInv ==
  /\ peerApplied <= 1
  /\ peerApplied = 1 =>
       /\ desiredConfig.cal = Wanted
       /\ appliedConfig.cal = Wanted \/ (isPeers /\ holder = "applied")
  /\ isPeers /\ holder = "mailbox" => peerApplied = 0
  /\ peer = "patching" => NotYet(expected)
  /\ stray # None => NotYet(stray.revision)

PeerInv ==
  /\ peer = "patched" => isPeers
  /\ isPeers => /\ pendingControl # None /\ pendingControl.cal
                /\ desiredConfig.cal = Wanted
  /\ ~crossed => OnceInv

PlaneInv == PlaneTyped /\ ContractInv /\ PeerInv /\ StatusIsOfItsInstance

\* A sensor as it is loaded.
LEMMA AuthoredIsConfig == Source!Authored \in Config
  BY ContractAssumption DEF Source!Authored, Config

\* The plane before its first step.
LEMMA InitPlane == PlaneInit => PlaneInv
<1> SUFFICES ASSUME PlaneInit PROVE PlaneInv
  OBVIOUS
<1> USE HostAssumption, ContractAssumption, NoneIsNoMutation
    DEF PlaneInit, Source!Init
<1>1. PlaneTyped
  <2>1. 0 \in 0..MaxHosts /\ 0 \in Nat /\ 1 \in Nat
    OBVIOUS
  <2>2. description.instance \in 0..MaxHosts
    BY <2>1
  <2>3. status \in [instance : 0..MaxHosts, appliedRevision : {0, 1}]
    BY <2>1
  <2> QED
    BY <2>1, <2>2, <2>3, AuthoredIsConfig DEF PlaneTyped
<1>2. ContractInv /\ PeerInv /\ StatusIsOfItsInstance
  BY DEF ContractInv, CalibrationInv, PeerInv, OnceInv, StatusIsOfItsInstance
<1> QED
  BY <1>1, <1>2 DEF PlaneInv

\* What an admitted mutation changes.
Admitted(config, cal) ==
  /\ pendingControl = None
  /\ desiredRevision' = desiredRevision + 1 /\ desiredRevision' \in Nat
  /\ desiredConfig' = config
  /\ pendingControl' \in Mutation /\ pendingControl' # None
  /\ pendingControl'.revision = desiredRevision' /\ pendingControl'.cal = cal
  /\ holder' = "mailbox"
  /\ appliedRevision' = appliedRevision /\ appliedConfig' = appliedConfig
  /\ inUse' = inUse /\ calibrationRevision' = calibrationRevision
  /\ publishedCalibrationRevision' = publishedCalibrationRevision

LEMMA AdmitRecords ==
  ASSUME PlaneTyped, NEW config, NEW cal \in BOOLEAN, Source!Admit(config, cal)
  PROVE  Admitted(config, cal)
<1>1. desiredRevision' \in Nat
  BY DEF Source!Admit, PlaneTyped
<1>2. pendingControl' = [revision |-> desiredRevision', cal |-> cal, late |-> FALSE]
  BY DEF Source!Admit
<1>3. pendingControl' \in Mutation
  BY <1>1, <1>2 DEF Mutation
<1>4. pendingControl' # None
  BY <1>3, NoneIsNoMutation
<1>5. pendingControl'.revision = desiredRevision' /\ pendingControl'.cal = cal
  BY <1>2
<1> QED
  BY <1>1, <1>3, <1>4, <1>5 DEF Source!Admit, Admitted

\* ... and when its caller is late.
LEMMA DeadlineKeepsRecord ==
  ASSUME PlaneTyped, Source!Deadline
  PROVE  /\ pendingControl' \in Mutation /\ pendingControl' # None
         /\ pendingControl'.revision = pendingControl.revision
         /\ pendingControl'.cal = pendingControl.cal
<1>1. pendingControl \in Mutation
  BY DEF Source!Deadline, PlaneTyped
<1> QED
  BY <1>1, NoneIsNoMutation DEF Source!Deadline, Mutation

\* A PATCH of the peer changes the calibration, another client both or the
\* JPEG's quality only.
LEMMA ConfigsOfMutations ==
  ASSUME PlaneTyped
  PROVE  /\ [desiredConfig EXCEPT !.cal = Wanted] \in Config
         /\ [desiredConfig EXCEPT !.cal = Wanted].cal = Wanted
         /\ \A jpeg \in Jpegs :
              /\ [desiredConfig EXCEPT !.jpeg = jpeg] \in Config
              /\ [desiredConfig EXCEPT !.jpeg = jpeg].cal = desiredConfig.cal
         /\ \A jpeg \in Jpegs, cal \in Calibrations :
              [jpeg |-> jpeg, cal |-> cal] \in Config
  BY ContractAssumption DEF PlaneTyped, Config

\* A PATCH of the peer is admitted ...
LEMMA PatchIsAdmitted ==
  ASSUME PlaneTyped, AdmitPatch
  PROVE  /\ \E config \in Config : config.cal = Wanted /\ Admitted(config, TRUE)
         /\ isPeers' = TRUE /\ peerApplied' = peerApplied /\ crossed' = crossed
  BY AdmitRecords, ConfigsOfMutations DEF AdmitPatch

\* ... or a mutation of another client, after which the peer's PATCHes count
\* anew unless the calibration is left as it is desired, or is the peer's.
OthersCount(config) ==
  \/ peerApplied' = 0
  \/ peerApplied' = peerApplied /\ config.cal \in {desiredConfig.cal, Wanted}

LEMMA OtherIsAdmitted ==
  ASSUME PlaneTyped, OtherClient
  PROVE  /\ \E config \in Config, carries \in BOOLEAN :
              Admitted(config, carries) /\ OthersCount(config)
         /\ isPeers' = FALSE /\ crossed' = crossed /\ peerApplied' \in Nat
         /\ UNCHANGED <<peer, description, expected, status, stray>>
<1>1. /\ isPeers' = FALSE /\ crossed' = crossed
      /\ UNCHANGED <<peer, description, expected, status, stray>>
  BY DEF OtherClient, peerVars
<1>2. CASE OtherMutation
  <2>1. PICK jpeg \in Jpegs : Source!Admit([desiredConfig EXCEPT !.jpeg = jpeg], FALSE)
    BY <1>2 DEF OtherMutation
  <2> DEFINE config == [desiredConfig EXCEPT !.jpeg = jpeg]
  <2>2. config \in Config /\ config.cal = desiredConfig.cal
    BY ConfigsOfMutations
  <2>3. Admitted(config, FALSE)
    BY <2>1, AdmitRecords
  <2>4. OthersCount(config) /\ peerApplied' \in Nat
    BY <1>2, <2>2 DEF OtherMutation, OthersCount, PlaneTyped
  <2> QED
    BY <1>1, <2>2, <2>3, <2>4
<1>3. CASE OtherCalibration
  <2>1. PICK jpeg \in Jpegs, cal \in Calibrations :
          /\ Source!Admit([jpeg |-> jpeg, cal |-> cal], TRUE)
          /\ peerApplied' = IF cal = Wanted THEN peerApplied ELSE 0
    BY <1>3 DEF OtherCalibration
  <2> DEFINE config == [jpeg |-> jpeg, cal |-> cal]
  <2>2. config \in Config /\ config.cal = cal
    BY ConfigsOfMutations
  <2>3. Admitted(config, TRUE)
    BY <2>1, AdmitRecords
  <2>4. OthersCount(config) /\ peerApplied' \in Nat
    BY <2>1, <2>2 DEF OthersCount, PlaneTyped
  <2> QED
    BY <1>1, <2>2, <2>3, <2>4
<1> QED
  BY <1>2, <1>3 DEF OtherClient

\* The new mutation has a revision of its own, and changes nothing in use.
LEMMA AdmissionKeepsContract ==
  ASSUME PlaneTyped, ContractInv, NEW config, NEW cal \in BOOLEAN,
         Admitted(config, cal)
  PROVE  ContractInv'
<1>1. holder = "nobody"
  BY DEF ContractInv, Admitted
<1>2. CalibrationInv'
  BY <1>1 DEF ContractInv, CalibrationInv, Admitted
<1>3. appliedRevision < desiredRevision' /\ appliedRevision <= desiredRevision'
  BY DEF PlaneTyped, ContractInv, Admitted
<1> QED
  BY <1>2, <1>3 DEF ContractInv, Admitted

\* A source that is new, or that has gone.
LEMMA AnewIsContract == ContractStartsAnew => ContractInv'
  BY DEF ContractStartsAnew, ContractInv, CalibrationInv

\* No request of before reaches it unnoticed.
LEMMA AnewIsPeers == SourceGoes => PeerInv'
<1> SUFFICES ASSUME SourceGoes PROVE PeerInv'
  OBVIOUS
<1>1. /\ isPeers' = FALSE /\ peerApplied' = 0 /\ stray' = stray
      /\ peer' # "patched" /\ (peer' = "patching" => peer = "patching")
  BY DEF SourceGoes, ContractStartsAnew
<1>2. ~crossed' => peer # "patching" /\ stray = None
  BY DEF SourceGoes, ContractStartsAnew
<1> QED
  BY <1>1, <1>2 DEF PeerInv, OnceInv

\* An admitted mutation makes the requests under way late ...
LEMMA AdmissionMakesLate ==
  ASSUME PlaneTyped, NEW config, NEW cal, Admitted(config, cal),
         NEW revision \in Nat, revision <= desiredRevision
  PROVE  revision <= desiredRevision' /\ revision # desiredRevision'
  BY DEF PlaneTyped, Admitted

\* ... and is the peer's first, or another client's.
LEMMA AdmissionKeepsOnce ==
  ASSUME PlaneTyped, ContractInv, OnceInv,
         NEW config \in Config, NEW cal, Admitted(config, cal),
         OthersCount(config), isPeers' => peerApplied = 0,
         stray' # None => stray' = stray,
         peer' = "patching" => peer = "patching" /\ expected' = expected
  PROVE  OnceInv'
<1>1. peerApplied' <= 1 /\ (isPeers' /\ holder' = "mailbox" => peerApplied' = 0)
  BY DEF OnceInv, OthersCount
<1>2. peerApplied' = 1 => desiredConfig'.cal = Wanted /\ appliedConfig'.cal = Wanted
  BY DEF OnceInv, OthersCount, Admitted, ContractInv
<1>3. peer' = "patching" => NotYet(expected)'
  BY AdmissionMakesLate DEF OnceInv, PlaneTyped, NotYet
<1>4. stray' # None => NotYet(stray.revision)'
  BY AdmissionMakesLate DEF OnceInv, PlaneTyped, NotYet, Request
<1> QED
  BY <1>1, <1>2, <1>3, <1>4 DEF OnceInv

\* Types.
LEMMA PlaneTypedStep ==
  PlaneInv /\ HostTyped /\ (PlaneNext \/ UNCHANGED planeVars) => PlaneTyped'
<1> SUFFICES ASSUME PlaneInv, HostTyped, PlaneNext \/ UNCHANGED planeVars
             PROVE  PlaneTyped'
  OBVIOUS
<1> USE DEF PlaneInv, PlaneTyped
<1>1. ASSUME NEW s \in Sensors, SensorMoves(s) PROVE PlaneTyped'
  <2>1. CASE SourceGoes
    BY <2>1, AuthoredIsConfig DEF SourceGoes, ContractStartsAnew
  <2>2. CASE UNCHANGED <<contractVars, peerVars, historyVars>>
    BY <2>2 DEF contractVars, peerVars, historyVars
  <2> QED
    BY <1>1, <2>1, <2>2 DEF SensorMoves
<1>2. CASE HostCrashes
  BY <1>2, AuthoredIsConfig DEF HostCrashes, SourceGoes, ContractStartsAnew
<1>3. CASE ExecutorMoves
  BY <1>3 DEF ExecutorMoves, contractVars, historyVars, peerVars
<1>4. CASE Describe
  <2>1. description'.instance \in 0..MaxHosts
    <3>1. CASE endpoint.by = 0
      BY <1>4, <3>1 DEF Describe
    <3>2. CASE endpoint.by # 0
      <4>1. Instance(endpoint.by) \in 0..MaxHosts
        BY <3>2, HostAssumption DEF Instance, HostTyped
      <4>2. description' = [instance |-> Instance(endpoint.by), listed |-> Routed]
        BY <1>4, <3>2 DEF Describe
      <4> QED
        BY ONLY <4>1, <4>2
    <3> QED
      BY <3>1, <3>2
  <2>2. status' \in [instance : 0..MaxHosts, appliedRevision : {0, 1}]
    BY <1>4 DEF Describe
  <2> QED
    BY <1>4, <2>1, <2>2 DEF Describe, contractVars, historyVars
<1>5. CASE GetConfig
  BY <1>5 DEF GetConfig, RevisionToExpect, contractVars, historyVars
<1>6. CASE DeliverPatch
  <2>1. CASE AdmitPatch
    BY <1>6, <2>1, PatchIsAdmitted DEF DeliverPatch, Admitted, IsAdmitted,
        RevisionIsExpected
  <2>2. CASE UNCHANGED <<contractVars, historyVars>>
    BY <1>6, <2>2 DEF DeliverPatch, contractVars, historyVars
  <2> QED
    BY <1>6, <2>1, <2>2 DEF DeliverPatch
<1>7. CASE DeliverStray
  <2>1. CASE AdmitPatch
    BY <1>7, <2>1, PatchIsAdmitted DEF DeliverStray, Admitted, IsAdmitted,
        RevisionIsExpected
  <2>2. CASE UNCHANGED <<contractVars, historyVars>>
    BY <1>7, <2>2 DEF DeliverStray, contractVars, historyVars
  <2> QED
    BY <1>7, <2>1, <2>2 DEF DeliverStray
<1>8. CASE GiveUp
  <2>1. stray' \in Request \cup {None}
    BY <1>8 DEF GiveUp, Request
  <2> QED
    BY <1>8, <2>1 DEF GiveUp, contractVars, historyVars
<1>9. CASE Connect \/ ReconcileAgain \/ ObserveFails \/ Retry
  <2>1. status' \in [instance : 0..MaxHosts, appliedRevision : {0, 1}]
    BY <1>9 DEF Connect, ReconcileAgain, ObserveFails, Retry
  <2> QED
    BY <1>9, <2>1 DEF Connect, ReconcileAgain, ObserveFails, Retry, contractVars,
       historyVars
<1>10. CASE OtherClient
  BY <1>10, OtherIsAdmitted DEF Admitted
<1>11. CASE SourceDeadline
  BY <1>11, DeadlineKeepsRecord DEF SourceDeadline, Source!Deadline,
     historyVars, peerVars
<1>12. CASE SourceTakes
  <2>1. inUse' \in Config
    BY <1>12 DEF SourceTakes, Source!Take, Config
  <2>2. calibrationRevision' \in Nat
    BY <1>12 DEF SourceTakes, Source!Take, Mutation, ContractInv
  <2>3. peerApplied' \in Nat
    BY <1>12 DEF SourceTakes
  <2> QED
    BY <1>12, <2>1, <2>2, <2>3 DEF SourceTakes, Source!Take, peerVars
<1>13. CASE SourceWorks
  BY <1>13 DEF SourceWorks, Source!Acknowledge, Source!PublishCalibration,
     historyVars, peerVars
<1>14. CASE SourceAnswers
  <2>1. appliedRevision' \in Nat
    BY <1>14 DEF SourceAnswers, Source!Answer, Source!AnswerCompleted,
        Source!AnswerFailed,
       Source!AnswerDropped, ContractInv
  <2> QED
    BY <1>14, <2>1 DEF SourceAnswers, Source!Answer, Source!AnswerCompleted,
       Source!AnswerFailed, Source!AnswerDropped, Source!Answered
<1>15. CASE UNCHANGED planeVars
  BY <1>15 DEF planeVars, contractVars, historyVars, peerVars
<1> QED
  BY <1>1, <1>2, <1>3, <1>4, <1>5, <1>6, <1>7, <1>8, <1>9, <1>10, <1>11, <1>12,
      <1>13, <1>14, <1>15
     DEF PlaneNext, PeerSteps, PeerCalls, SourceSteps

\* The status loses its revision when another instance is described.
LEMMA StatusStep ==
  PlaneInv /\ (PlaneNext \/ UNCHANGED planeVars) => StatusIsOfItsInstance'
<1> SUFFICES ASSUME PlaneInv, PlaneNext \/ UNCHANGED planeVars
             PROVE  StatusIsOfItsInstance'
  OBVIOUS
<1> USE DEF PlaneInv, PlaneTyped, StatusIsOfItsInstance
<1>1. CASE Describe
  BY <1>1 DEF Describe, IsSame
<1>2. CASE Connect
  BY <1>2 DEF Connect
<1>3. CASE ~Describe /\ ~Connect
  <2>1. UNCHANGED <<status, description>>
    BY <1>3 DEF PlaneNext, SensorMoves, SourceGoes, HostCrashes, ExecutorMoves,
       PeerSteps, PeerCalls, GetConfig, SourceAnswers, DeliverPatch, GiveUp, DeliverStray, ReconcileAgain,
       ObserveFails, Retry, OtherClient, SourceDeadline, SourceSteps, SourceTakes,
       SourceWorks, peerVars, planeVars
  <2> QED
    BY <2>1
<1> QED
  BY <1>1, <1>2, <1>3

\* One mutation is under way at a time, and a calibration comes into use with it.
LEMMA ContractInvStep ==
  PlaneInv /\ HostTyped /\ (PlaneNext \/ UNCHANGED planeVars) => ContractInv'
<1> SUFFICES ASSUME PlaneInv, HostTyped, PlaneNext \/ UNCHANGED planeVars
             PROVE  ContractInv'
  OBVIOUS
<1> USE DEF PlaneInv, PlaneTyped, ContractInv, CalibrationInv
<1>1. ASSUME NEW s \in Sensors, SensorMoves(s) PROVE ContractInv'
  BY <1>1 DEF SensorMoves, SourceGoes, ContractStartsAnew, contractVars
<1>2. CASE HostCrashes
  BY <1>2 DEF HostCrashes, SourceGoes, ContractStartsAnew
<1>3. CASE ExecutorMoves
  BY <1>3 DEF ExecutorMoves, contractVars
<1>4. CASE Describe
  BY <1>4 DEF Describe, IsSame, contractVars
<1>5. CASE GetConfig
  BY <1>5 DEF GetConfig, Conclude, RevisionToExpect, contractVars
<1>6. CASE DeliverPatch
  <2>1. CASE AdmitPatch
    BY <2>1, PatchIsAdmitted, AdmissionKeepsContract
  <2>2. CASE UNCHANGED <<contractVars, historyVars>>
    BY <2>2 DEF contractVars
  <2> QED
    BY <1>6, <2>1, <2>2 DEF DeliverPatch
<1>7. CASE DeliverStray
  <2>1. CASE AdmitPatch
    BY <2>1, PatchIsAdmitted, AdmissionKeepsContract
  <2>2. CASE UNCHANGED <<contractVars, historyVars>>
    BY <2>2 DEF contractVars
  <2> QED
    BY <1>7, <2>1, <2>2 DEF DeliverStray
<1>8. CASE GiveUp
  BY <1>8 DEF GiveUp, contractVars
<1>9. CASE Connect \/ ReconcileAgain \/ ObserveFails \/ Retry
  BY <1>9 DEF Connect, ReconcileAgain, ObserveFails, Retry, contractVars
<1>10. CASE OtherClient
  BY <1>10, OtherIsAdmitted, AdmissionKeepsContract
<1>11. CASE SourceDeadline
  BY <1>11, DeadlineKeepsRecord DEF SourceDeadline, Source!Deadline
<1>12. CASE SourceTakes
  <2>1. /\ pendingControl # None /\ pendingControl.revision = desiredRevision
        /\ appliedRevision < desiredRevision /\ appliedRevision \in Nat
    BY <1>12 DEF SourceTakes, Source!Take
  <2>2. CASE pendingControl.cal
    BY <1>12, <2>1, <2>2 DEF SourceTakes, Source!Take
  <2>3. CASE ~pendingControl.cal
    <3>1. inUse'.cal = inUse.cal
      BY <1>12, <2>3 DEF SourceTakes, Source!Take, Config
    <3> QED
      BY <1>12, <2>1, <2>3, <3>1 DEF SourceTakes, Source!Take
  <2> QED
    BY <2>2, <2>3
<1>13. CASE SourceWorks
  BY <1>13 DEF SourceWorks, Source!Acknowledge, Source!PublishCalibration
<1>14. CASE SourceAnswers
  BY <1>14 DEF SourceAnswers, Source!Answer, Source!AnswerCompleted,
     Source!AnswerFailed, Source!AnswerDropped, Source!Answered, Conclude
<1>15. CASE UNCHANGED planeVars
  BY <1>15 DEF planeVars, contractVars
<1> QED
  BY <1>1, <1>2, <1>3, <1>4, <1>5, <1>6, <1>7, <1>8, <1>9, <1>10, <1>11, <1>12,
      <1>13, <1>14, <1>15
     DEF PlaneNext, PeerSteps, PeerCalls, SourceSteps

\* A request under way is for a revision that has passed, or for a source that has not
\* applied the calibration.
LEMMA PeerStep ==
  PlaneInv /\ HostTyped /\ (PlaneNext \/ UNCHANGED planeVars) => PeerInv'
<1> SUFFICES ASSUME PlaneInv, HostTyped, PlaneNext \/ UNCHANGED planeVars
             PROVE  PeerInv'
  OBVIOUS
<1> USE DEF PlaneInv, PlaneTyped, ContractInv, PeerInv, OnceInv, NotYet
<1>1. ASSUME NEW s \in Sensors, SensorMoves(s) PROVE PeerInv'
  <2>1. CASE SourceGoes
    BY <2>1, AnewIsPeers
  <2>2. CASE UNCHANGED <<contractVars, peerVars, historyVars>>
    BY <2>2 DEF contractVars, peerVars, historyVars
  <2> QED
    BY <1>1, <2>1, <2>2 DEF SensorMoves
<1>2. CASE HostCrashes
  BY <1>2, AnewIsPeers DEF HostCrashes
<1>3. CASE ExecutorMoves
  BY <1>3 DEF ExecutorMoves, contractVars, historyVars, peerVars
<1>4. CASE Describe
  BY <1>4 DEF Describe, IsSame, contractVars, historyVars
<1>5. CASE GetConfig
  BY <1>5 DEF GetConfig, Conclude, RevisionToExpect, contractVars, historyVars
<1>6. CASE DeliverPatch
  <2>1. CASE IsAdmitted(description.instance, expected)
    <3>1. AdmitPatch /\ peer = "patching" /\ peer' = "patched" /\ stray' = stray
      BY <1>6, <2>1 DEF DeliverPatch
    <3>2. PICK config \in Config : config.cal = Wanted /\ Admitted(config, TRUE)
      BY <3>1, PatchIsAdmitted
    <3>3. isPeers' = TRUE /\ peerApplied' = peerApplied /\ crossed' = crossed
      BY <3>1, PatchIsAdmitted
    <3>4. ~crossed => peerApplied = 0
      BY <2>1, <3>1 DEF IsAdmitted, RevisionIsExpected
    <3>5. ~crossed' => OnceInv'
      BY <3>1, <3>2, <3>3, <3>4, AdmissionKeepsOnce DEF OthersCount
    <3> QED
      BY <3>1, <3>2, <3>3, <3>5 DEF Admitted
  <2>2. CASE ~IsAdmitted(description.instance, expected)
    <3>1. /\ UNCHANGED <<contractVars, historyVars>>
          /\ peer' = "backoff" /\ stray' = stray
      BY <1>6, <2>2 DEF DeliverPatch
    <3> QED
      BY <3>1 DEF contractVars, historyVars
  <2> QED
    BY <2>1, <2>2
<1>7. CASE DeliverStray
  <2>1. CASE IsAdmitted(stray.instance, stray.revision)
    <3>1. AdmitPatch /\ stray # None /\ stray' = None /\ UNCHANGED <<peer, expected>>
      BY <1>7, <2>1 DEF DeliverStray
    <3>2. PICK config \in Config : config.cal = Wanted /\ Admitted(config, TRUE)
      BY <3>1, PatchIsAdmitted
    <3>3. isPeers' = TRUE /\ peerApplied' = peerApplied /\ crossed' = crossed
      BY <3>1, PatchIsAdmitted
    <3>4. ~crossed => peerApplied = 0
      BY <2>1, <3>1 DEF IsAdmitted, RevisionIsExpected
    <3>5. ~crossed' => OnceInv'
      BY <3>1, <3>2, <3>3, <3>4, AdmissionKeepsOnce DEF OthersCount
    <3> QED
      BY <3>1, <3>2, <3>3, <3>5 DEF Admitted
  <2>2. CASE ~IsAdmitted(stray.instance, stray.revision)
    <3>1. /\ UNCHANGED <<contractVars, historyVars>>
          /\ stray' = None /\ UNCHANGED <<peer, expected>>
      BY <1>7, <2>2 DEF DeliverStray
    <3> QED
      BY <3>1 DEF contractVars, historyVars
  <2> QED
    BY <2>1, <2>2
<1>8. CASE GiveUp
  BY <1>8 DEF GiveUp, contractVars, historyVars
<1>9. CASE Connect \/ ReconcileAgain \/ ObserveFails \/ Retry
  BY <1>9 DEF Connect, ReconcileAgain, ObserveFails, Retry, contractVars, historyVars
<1>10. CASE OtherClient
  <2>1. PICK config \in Config, carries \in BOOLEAN :
               Admitted(config, carries) /\ OthersCount(config)
    BY <1>10, OtherIsAdmitted
  <2>2. /\ isPeers' = FALSE /\ crossed' = crossed
        /\ UNCHANGED <<peer, description, expected, status, stray>>
    BY <1>10, OtherIsAdmitted
  <2>3. ~crossed' => OnceInv'
    BY <2>1, <2>2, AdmissionKeepsOnce
  <2> QED
    BY <2>1, <2>2, <2>3 DEF Admitted
<1>11. CASE SourceDeadline
  BY <1>11, DeadlineKeepsRecord DEF SourceDeadline, Source!Deadline,
     historyVars, peerVars
<1>12. CASE SourceTakes
  BY <1>12 DEF SourceTakes, Source!Take, peerVars
<1>13. CASE SourceWorks
  BY <1>13 DEF SourceWorks, Source!Acknowledge, Source!PublishCalibration,
     historyVars, peerVars
<1>14. CASE SourceAnswers
  BY <1>14 DEF SourceAnswers, Source!Answer, Source!AnswerCompleted,
     Source!AnswerFailed, Source!AnswerDropped, Source!Answered, Conclude
<1>15. CASE UNCHANGED planeVars
  BY <1>15 DEF planeVars, contractVars, historyVars, peerVars
<1> QED
  BY <1>1, <1>2, <1>3, <1>4, <1>5, <1>6, <1>7, <1>8, <1>9, <1>10, <1>11, <1>12,
      <1>13, <1>14, <1>15
     DEF PlaneNext, PeerSteps, PeerCalls, SourceSteps

(***************************************************************************)
(* Theorems about the peer.                                                *)
(***************************************************************************)
\* The invariant of the plane holds.
THEOREM PlaneInvariant == PlaneSpec => []PlaneInv
<1>1. PlaneInv /\ HostInv /\ [PlaneNext]_planeVars => PlaneInv'
  BY PlaneTypedStep, StatusStep, ContractInvStep, PeerStep DEF PlaneInv, HostInv
<1> QED
  BY InitPlane, HostInvariant, <1>1, PTL DEF PlaneSpec

\* The peer's calibration is applied once per source instance, however many
\* replies and requests are lost or late, unless the sensor was replaced under
\* one, and once more each time another client's PATCH put a calibration of its
\* own in its place (camera_peer.py, expected_revision and the reconcile before
\* any write).
THEOREM MetadataIsAppliedOnce == PlaneSpec => []MetadataAppliedOnce
<1>1. PlaneInv => MetadataAppliedOnce
  BY DEF PlaneInv, PeerInv, OnceInv, MetadataAppliedOnce
<1> QED
  BY PlaneInvariant, <1>1, PTL

\* A revision in the peer's status was applied by the instance it last
\* described (_work's comparison of instance_id).
THEOREM StatusBelongsToInstance == PlaneSpec => []StatusIsOfItsInstance
<1>1. PlaneInv => StatusIsOfItsInstance
  BY DEF PlaneInv
<1> QED
  BY PlaneInvariant, <1>1, PTL

\* Only two replies connect the peer: a GET that finds the calibration applied
\* and published, and the answer to its own PATCH.
LEMMA ConnectsOnPublished ==
  PlaneInv /\ PlaneNext /\ peer # "acknowledged" /\ peer' = "acknowledged"
    => IsCarried'
<1> SUFFICES ASSUME PlaneInv, PlaneNext, peer # "acknowledged",
                    peer' = "acknowledged"
             PROVE  IsCarried'
  OBVIOUS
<1>1. GetConfig \/ SourceAnswers
  BY DEF PlaneNext, SensorMoves, SourceGoes, HostCrashes, ExecutorMoves,
      PeerSteps,
     PeerCalls, Describe, DeliverPatch, Connect, GiveUp, DeliverStray,
     ReconcileAgain, ObserveFails, Retry, OtherClient, SourceDeadline,
     SourceSteps, SourceTakes, SourceWorks, peerVars
<1>2. UNCHANGED hostVars
  BY <1>1 DEF GetConfig, SourceAnswers
<1>3. Routed' <=> Routed
  BY <1>2 DEF Routed, hostVars
<1>4. CASE GetConfig
  <2>1. /\ Routed /\ pendingControl = None /\ appliedConfig.cal = Wanted
        /\ publishedCalibrationRevision = appliedRevision
        /\ UNCHANGED contractVars
    BY <1>4 DEF GetConfig, Conclude, IsPublished
  <2>2. calibrationRevision = appliedRevision /\ inUse.cal = Wanted
    BY <2>1 DEF PlaneInv, PlaneTyped, ContractInv, CalibrationInv
  <2> QED
    BY <1>3, <2>1, <2>2 DEF IsCarried, contractVars
<1>5. CASE SourceAnswers
  <2>1. peer = "patched" /\ holder = "applied" /\ Routed
    BY <1>5 DEF SourceAnswers, Answers
  <2>2. isPeers /\ pendingControl # None /\ pendingControl.cal
    BY <2>1 DEF PlaneInv, PeerInv
  <2>3. inUse.cal = Wanted /\ calibrationRevision = desiredRevision
    BY <2>1, <2>2 DEF PlaneInv, PeerInv, ContractInv, CalibrationInv
  <2>4. /\ publishedCalibrationRevision = pendingControl.revision
        /\ UNCHANGED <<inUse, calibrationRevision, publishedCalibrationRevision>>
    BY <1>5, <2>1, <2>2 DEF SourceAnswers, Source!Answer, Source!AnswerCompleted,
       Source!AnswerFailed, Source!AnswerDropped, Source!Answered
  <2> QED
    BY <1>3, <2>1, <2>2, <2>3, <2>4 DEF IsCarried, PlaneInv, ContractInv
<1> QED
  BY <1>1, <1>4, <1>5

\* When the source sends the reply that connects the peer, the topic carries
\* the peer's calibration, also when the status reports as applied what a later
\* mutation took along and nobody uses (_apply_camera_info_metadata reads the
\* published revision beside the applied one).
THEOREM ConnectedIsPublished == PlaneSpec => ConnectedMeansPublished
<1>1. PlaneInv /\ [PlaneNext]_planeVars
        => [peer # "acknowledged" /\ peer' = "acknowledged" => IsCarried']_planeVars
  BY ConnectsOnPublished
<1> QED
  BY PlaneInvariant, <1>1, PTL DEF PlaneSpec, ConnectedMeansPublished
=============================================================================
