----------------------------- MODULE SourceHost -----------------------------
(***************************************************************************)
(* The control endpoint all camera sensors of a Gazebo process share       *)
(* (src/camera_source_control.cpp): the process-wide host behind a         *)
(* weak_ptr, its roster of sources and its executor, and the part of a     *)
(* plugin's life that touches it, from StartControlServer to the           *)
(* destructor.  Sensors are loaded and destroyed by threads of their own;  *)
(* calls of a handler run on the executor, under sources_mutex_.           *)
(*                                                                         *)
(* The weak_ptr can be locked as long as some plugin has a shared_ptr, so  *)
(* it is no variable: see Shared.                                          *)
(***************************************************************************)
EXTENDS Naturals, FiniteSets

CONSTANTS
  Sensors,       \* plugin instances
  SourceIds,     \* the ids each sensor may be given by its SDF
  Capacity,      \* places in the roster (kSources, 16)
  MaxHosts,      \* bound: hosts constructed
  MaxLoads,      \* bound: sensors loaded
  None           \* no sensor

ASSUME HostAssumption ==
  MaxHosts \in Nat /\ None \notin Sensors

VARIABLES
  plugin,             \* where each plugin is in its life
  sourceID,           \* its id (sourceID_) while it exists
  controlHost,        \* its shared_ptr to the host, 0 if none
  controlWakeHost,    \* the raw pointer its threads wake the executor by
  controlRegistered,  \* whether it has to unregister
  hosts,              \* state of each host object
  sources,            \* the sensors in its roster
  inCall,             \* the sensor whose callback its executor is running
  endpoint,           \* the socket: does the path exist, who listens
  loads               \* how many sensors were loaded

pluginVars == <<plugin, sourceID, controlHost, controlWakeHost,
                controlRegistered>>
vars == <<pluginVars, hosts, sources, inCall, endpoint, loads>>

HostIds == 1..MaxHosts

\* "acquired": has the host, is not in its roster yet.  "uncontrolled": Load
\* gave up on control but the plugin lives on.  "removing": its callbacks are
\* withdrawn, its threads are not joined yet.  "joined": nothing of it runs,
\* its members are about to be destroyed.  "releasing": it is destroying the
\* host with itself.
Stages == {"absent", "acquired", "serving", "uncontrolled", "removing",
           "joined", "releasing"}

Init ==
  /\ plugin = [s \in Sensors |-> "absent"]
  /\ sourceID = [s \in Sensors |-> None]
  /\ controlHost = [s \in Sensors |-> 0]
  /\ controlWakeHost = [s \in Sensors |-> 0]
  /\ controlRegistered = [s \in Sensors |-> FALSE]
  /\ hosts = [h \in HostIds |-> "unused"]
  /\ sources = [h \in HostIds |-> {}]
  /\ inCall = [h \in HostIds |-> None]
  /\ endpoint = [exists |-> FALSE, by |-> 0]
  /\ loads = 0

\* What shared_host.lock() finds: a host some plugin still holds.  The last
\* holder's count is gone while it runs the host's destructor.
Shared ==
  {controlHost[s] : s \in {t \in Sensors : plugin[t] # "releasing"}} \ {0}

IsLast(s) == \A t \in Sensors \ {s} : controlHost[t] # controlHost[s]

\* Mutant: the roster is changed without sources_mutex_.
IdleOrNot(h) == TRUE

\* No callback runs, so sources_mutex_ can be had.
Idle(h) == inCall[h] = None

\* A host exists as an object until its destructor is through.
Exists(h) == hosts[h] \in {"running", "stopping"}

----------------------------------------------------------------------------
(* Acquire and Register, in StartControlServer. *)

Hold(s, h) ==
  /\ controlHost' = [controlHost EXCEPT ![s] = h]
  /\ controlWakeHost' = [controlWakeHost EXCEPT ![s] = h]
  /\ UNCHANGED controlRegistered

Loaded(s, stage) ==
  /\ plugin[s] = "absent" /\ loads < MaxLoads
  /\ loads' = loads + 1
  /\ plugin' = [plugin EXCEPT ![s] = stage]
  /\ \E id \in SourceIds[s] : sourceID' = [sourceID EXCEPT ![s] = id]
  /\ UNCHANGED <<sources, inCall>>

\* Acquire finds the host of the sensors before it.
AcquireShared(s) ==
  /\ Loaded(s, "acquired")
  /\ \E h \in Shared : Hold(s, h)
  /\ UNCHANGED <<hosts, endpoint>>

\* ... or constructs one.  A path nobody listens at is taken over, also one a
\* process that crashed has left behind (ReclaimUnreachable).
AcquireNew(s) ==
  /\ Shared = {} /\ endpoint.by = 0
  /\ Loaded(s, "acquired")
  /\ \E h \in HostIds :
       /\ hosts[h] = "unused" /\ \A g \in 1..(h - 1) : hosts[g] # "unused"
       /\ hosts' = [hosts EXCEPT ![h] = "running"]
       /\ endpoint' = [exists |-> TRUE, by |-> h]
       /\ Hold(s, h)

\* ... or cannot: the SDF of this sensor names another path, target or instance
\* than the host has, or the last sensor has let go of that host, whose server
\* still listens while its executor is being joined.
AcquireFails(s) ==
  /\ endpoint.by # 0
  /\ Loaded(s, "uncontrolled")
  /\ UNCHANGED <<controlHost, controlWakeHost, controlRegistered, hosts,
                 endpoint>>

\* What Register throws on.
IdIsTaken(s) == \E t \in sources[controlHost[s]] : sourceID[t] = sourceID[s]

RosterIsFull(s) == Cardinality(sources[controlHost[s]]) >= Capacity

\* Register, under sources_mutex_, which a running callback holds.
Register(s) ==
  /\ plugin[s] = "acquired"
  /\ Idle(controlHost[s])
  /\ ~IdIsTaken(s) /\ ~RosterIsFull(s)
  /\ sources' = [sources EXCEPT ![controlHost[s]] = @ \cup {s}]
  /\ controlRegistered' = [controlRegistered EXCEPT ![s] = TRUE]
  /\ plugin' = [plugin EXCEPT ![s] = "serving"]
  /\ UNCHANGED <<sourceID, controlHost, controlWakeHost, hosts, inCall,
                 endpoint, loads>>

\* It throws: Load stops the workers and returns, the host stays held.
RegisterFails(s) ==
  /\ plugin[s] = "acquired"
  /\ Idle(controlHost[s])
  /\ IdIsTaken(s) \/ RosterIsFull(s)
  /\ plugin' = [plugin EXCEPT ![s] = "uncontrolled"]
  /\ UNCHANGED <<sourceID, controlHost, controlWakeHost, controlRegistered,
                 hosts, sources, inCall, endpoint, loads>>

----------------------------------------------------------------------------
(* The destructor. *)

\* Mutant: every plugin that has a host unregisters.
HasAHost(s) == controlHost[s] # 0

HasToUnregister(s) == controlHost[s] # 0 /\ controlRegistered[s]

\* Unregister empties every place with that id.
Unregister(s) ==
  /\ Idle(controlHost[s])
  /\ sources' = [sources EXCEPT ![controlHost[s]] =
                   {t \in @ : sourceID[t] # sourceID[s]}]
  /\ controlRegistered' = [controlRegistered EXCEPT ![s] = FALSE]

\* controlHost_ goes with the plugin, not here.
KeepsHost(s) == UNCHANGED <<controlHost, hosts>>

\* The sensor is removed: its callbacks are withdrawn, its threads still run.
StopControlServer(s) ==
  /\ plugin[s] \in {"serving", "uncontrolled"}
  /\ IF HasToUnregister(s) THEN Unregister(s)
     ELSE UNCHANGED <<sources, controlRegistered>>
  /\ KeepsHost(s)
  /\ plugin' = [plugin EXCEPT ![s] = "removing"]
  /\ UNCHANGED <<sourceID, controlWakeHost, inCall, endpoint, loads>>

\* The JPEG worker, the ROS worker and the pacer are joined.
JoinWorkers(s) ==
  /\ plugin[s] = "removing"
  /\ plugin' = [plugin EXCEPT ![s] = "joined"]
  /\ UNCHANGED <<sourceID, controlHost, controlWakeHost, controlRegistered,
                 hosts, sources, inCall, endpoint, loads>>

\* Its storage is given back.
Gone(s) ==
  /\ plugin' = [plugin EXCEPT ![s] = "absent"]
  /\ controlHost' = [controlHost EXCEPT ![s] = 0]
  /\ controlWakeHost' = [controlWakeHost EXCEPT ![s] = 0]
  /\ sourceID' = [sourceID EXCEPT ![s] = None]
  /\ UNCHANGED <<controlRegistered, sources, inCall, loads>>

Release(s) ==
  /\ plugin[s] = "joined" /\ ~(controlHost[s] # 0 /\ IsLast(s))
  /\ Gone(s)
  /\ UNCHANGED <<hosts, endpoint>>

\* controlHost_ is destroyed with the other members, and the last holder runs
\* the destructor of the host: it stops the executor and joins it,
ReleaseLast(s) ==
  /\ plugin[s] = "joined" /\ controlHost[s] # 0 /\ IsLast(s)
  /\ hosts' = [hosts EXCEPT ![controlHost[s]] = "stopping"]
  /\ plugin' = [plugin EXCEPT ![s] = "releasing"]
  /\ UNCHANGED <<sourceID, controlHost, controlWakeHost, controlRegistered,
                 sources, inCall, endpoint, loads>>

\* which leaves its loop, and the server closes its listener.
HostStopped(s) ==
  /\ plugin[s] = "releasing" /\ Idle(controlHost[s])
  /\ hosts' = [hosts EXCEPT ![controlHost[s]] = "gone"]
  /\ endpoint' = [exists |-> FALSE, by |-> 0]
  /\ Gone(s)

----------------------------------------------------------------------------
(* The executor, and the end of the process. *)

\* Dispatch or FlushSources enters a callback of a source.
EnterCall(h, s) ==
  /\ Exists(h) /\ inCall[h] = None /\ s \in sources[h]
  /\ inCall' = [inCall EXCEPT ![h] = s]
  /\ UNCHANGED <<pluginVars, hosts, sources, endpoint, loads>>

LeaveCall(h) ==
  /\ inCall[h] # None
  /\ inCall' = [inCall EXCEPT ![h] = None]
  /\ UNCHANGED <<pluginVars, hosts, sources, endpoint, loads>>

\* The process dies and leaves the path behind.
Crash ==
  /\ endpoint.by # 0
  /\ plugin' = [s \in Sensors |-> "absent"]
  /\ controlHost' = [s \in Sensors |-> 0]
  /\ controlWakeHost' = [s \in Sensors |-> 0]
  /\ controlRegistered' = [s \in Sensors |-> FALSE]
  /\ hosts' = [h \in HostIds |-> IF Exists(h) THEN "gone" ELSE hosts[h]]
  /\ sources' = [h \in HostIds |-> {}]
  /\ inCall' = [h \in HostIds |-> None]
  /\ endpoint' = [endpoint EXCEPT !.by = 0]
  /\ sourceID' = [s \in Sensors |-> None]
  /\ UNCHANGED loads

SensorStep(s) ==
  \/ AcquireShared(s) \/ AcquireNew(s) \/ AcquireFails(s)
  \/ Register(s) \/ RegisterFails(s)
  \/ StopControlServer(s) \/ JoinWorkers(s)
  \/ Release(s) \/ ReleaseLast(s) \/ HostStopped(s)

ExecutorStep ==
  \E h \in HostIds : LeaveCall(h) \/ \E s \in Sensors : EnterCall(h, s)

----------------------------------------------------------------------------
(* Properties. *)

\* The ids of all sensors; None of one that is absent.
AllIds == {None} \cup UNION {SourceIds[s] : s \in Sensors}

TypeOK ==
  /\ plugin \in [Sensors -> Stages]
  /\ sourceID \in [Sensors -> AllIds]
  /\ controlHost \in [Sensors -> 0..MaxHosts]
  /\ controlWakeHost \in [Sensors -> 0..MaxHosts]
  /\ controlRegistered \in [Sensors -> BOOLEAN]
  /\ hosts \in [HostIds -> {"unused", "running", "stopping", "gone"}]
  /\ \A h \in HostIds : /\ sources[h] \subseteq Sensors
                         /\ Cardinality(sources[h]) <= Capacity
                         /\ inCall[h] \in Sensors \cup {None}
  /\ endpoint \in [exists : BOOLEAN, by : 0..MaxHosts]
  /\ loads \in 0..MaxLoads

\* A sensor that started its control server can be reached: the host it holds
\* owns the socket, and its id leads to it and to no other.  The removal of a
\* sensor whose duplicate id was refused, the last release of the host before
\* and a restart may not take that away (Acquire, Register, Unregister).
ServingIsRouted ==
  \A s \in Sensors : plugin[s] = "serving" =>
    /\ endpoint = [exists |-> TRUE, by |-> controlHost[s]]
    /\ {t \in sources[endpoint.by] : sourceID[t] = sourceID[s]} = {s}

\* "Sensor removal unregisters the callbacks before native plugin storage is
\* released" (camera_source_control.h): the executor is never inside a plugin
\* that has begun to take itself apart.  And the other way: as long as a worker
\* of a plugin runs, WakeControl's raw pointer points to a host whose server can
\* be woken.
CallsReachTheLiving ==
  /\ \A h \in HostIds : inCall[h] # None =>
       plugin[inCall[h]] = "serving" /\ controlHost[inCall[h]] = h
  /\ \A s \in Sensors :
       plugin[s] \in {"acquired", "serving", "uncontrolled", "removing"}
         /\ controlWakeHost[s] # 0
       => hosts[controlWakeHost[s]] = "running"
=============================================================================
