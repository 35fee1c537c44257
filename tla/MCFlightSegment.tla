--------------------------- MODULE MCFlightSegment ---------------------------
(***************************************************************************)
(* The components of the flight segment, checked side by side: a behaviour *)
(* picks one component as its campaign and runs it, the others stand in    *)
(* one of their initial states.  The components share no state, so the     *)
(* states are the sum of those of the components, not their product.       *)
(***************************************************************************)
EXTENDS GroundReceipt, CommandRoundTrip, ClosedLoop, VehicleBridge, MissionRuntime,
        MissionUplink, TelemetryLoop, MissionTimeline, RoverNavigation, ScienceRelay,
        SurfaceMission, RoutePlanner

VARIABLE campaign

\* The stages behind the ground station share nothing but its queue: each is
\* checked with the traffic of its own type (and with what is not readable).
ReceiptCampaigns == {"telemetry", "event", "command"}
Campaigns == ReceiptCampaigns \union {"round trip", "closed loop", "bridge", "runtime", "uplink",
              "downlink", "timeline", "navigation", "relay", "survey", "route"}
-----------------------------------------------------------------------------
(* The small instances *)

Packet(type, app, seq, kind, subject) ==
    [type |-> type, source |-> "radio", origin |-> "craft", app |-> app, seq |-> seq,
     kind |-> kind, subject |-> subject]

\* Two streams of each type about two metrics, two faults and two commands; an
\* ID under two sequence numbers and a sequence number under two IDs; packets
\* that do not parse use up numbers in between.
MCTraffic ==
    {Packet("telemetry", 1, seq, "metric", "a") : seq \in 0 .. 2}
    \union {Packet("telemetry", 1, 1, "invalid", "a"), Packet("telemetry", 1, 3, "metric", "b"),
            Packet("telemetry", 2, 0, "metric", "a"), Packet("telemetry", 2, 1, "metric", "b")}
    \union {Packet("event", 1, seq, kind, "a") : seq \in 0 .. 1, kind \in {"fault", "recovery"}}
    \union {Packet("event", 1, 2, "quiet", "a"), Packet("event", 2, 0, "recovery", "a"),
            Packet("event", 1, 2, "fault", "b")}
    \union {Packet("command", 1, seq, "command", id) : seq \in 0 .. 1, id \in {"a", "b"}}
    \union {Packet("command", 2, 0, "command", "a"), Packet("command", 1, 2, "opcode", "b"),
            Packet("command", 1, 3, "command", "c")}
    \union {Packet("science", 1, 0, "corrupt", "a")}

Order(target, opcode, parameters, sequence) ==
    [target |-> target, opcode |-> opcode, parameters |-> parameters, sequence |-> sequence]
MCOrders ==
    {Order("ROVER", "START_ROVER", "", 1), Order("ROVER", "DRIVE", "good", 2),
     Order("ROVER", "DRIVE", "good", 1), Order("ROVER", "STOP", "", 2),
     Order("ROVER", "ENTER_SAFE_MODE", "", 2), Order("ROVER", "EXIT_SAFE_MODE", "", 1),
     Order("nowhere", "STOP", "", 1)}

Ask(target, opcode, parameters) ==
    [target |-> target, opcode |-> opcode, parameters |-> parameters]
MCBridgeCommands ==
    {Ask("ROVER", "START_ROVER", ""), Ask("ROVER", "DRIVE", "good")}

MCHolds == [p \in TimedPhases |-> IF p = "EarthOrbit" THEN 2 ELSE 1]

MCStartCell == <<0, 0>>
MCGoalCell == <<2, 2>>
Within(radius, c) == {d \in Cells : Distance(c[1], d[1]) + Distance(c[2], d[2]) <= radius}
MCObstacles == {{}} \union {Within(radius, c) : radius \in {0, 1}, c \in Cells}
-----------------------------------------------------------------------------
\* A component that stands starts in one of its initial states.
FlightInit ==
    /\ campaign \in Campaigns
    /\ ReceiptInit /\ RoundTripInit /\ LoopInit /\ BridgeInit
    /\ IF campaign = "runtime" THEN TRUE ELSE mission = NewEngine(TRUE)
    /\ RuntimeInit /\ UplinkInit /\ DownlinkInit
    /\ IF campaign = "timeline" THEN TRUE ELSE stepLength = 4 /\ duration = 4
    /\ TimelineInit
    /\ IF campaign = "navigation" THEN TRUE ELSE leg = NewLeg("Driving", FALSE, FALSE, TRUE, 0, FALSE)
    /\ NavigationInit
    /\ RelayInit /\ SurfaceInit
    /\ IF campaign = "route" THEN TRUE
       ELSE penalty = [c \in Columns |-> 1] /\ closedTerrain = {} /\ covered = {}
    /\ PlannerInit

KeepGround == UNCHANGED <<receiptVars, roundTripVars>>
KeepVehicle == UNCHANGED <<loopVars, bridgeVars>>
KeepMission == UNCHANGED <<runtimeVars, uplinkVars, downlinkVars, timelineVars>>
KeepRover == UNCHANGED <<leg, relayVars, surfaceVars, plannerVars>>

FlightNext ==
    /\ UNCHANGED campaign
    /\ \/ /\ campaign \in ReceiptCampaigns /\ ReceiptNext
          /\ \A i \in DOMAIN station'.held : station'.held[i].type \in {campaign, "science"}
          /\ UNCHANGED roundTripVars /\ KeepVehicle /\ KeepMission /\ KeepRover
       \/ /\ campaign = "round trip" /\ RoundTripNext
          /\ UNCHANGED receiptVars /\ KeepVehicle /\ KeepMission /\ KeepRover
       \/ /\ campaign = "closed loop" /\ LoopNext
          /\ UNCHANGED bridgeVars /\ KeepGround /\ KeepMission /\ KeepRover
       \/ /\ campaign = "bridge" /\ BridgeNext
          /\ UNCHANGED loopVars /\ KeepGround /\ KeepMission /\ KeepRover
       \/ /\ campaign = "runtime" /\ RuntimeNext
          /\ UNCHANGED <<uplinkVars, downlinkVars, timelineVars>>
          /\ KeepGround /\ KeepVehicle /\ KeepRover
       \/ /\ campaign = "uplink" /\ UplinkNext
          /\ UNCHANGED <<runtimeVars, downlinkVars, timelineVars>>
          /\ KeepGround /\ KeepVehicle /\ KeepRover
       \/ /\ campaign = "downlink" /\ DownlinkNext
          /\ UNCHANGED <<runtimeVars, uplinkVars, timelineVars>>
          /\ KeepGround /\ KeepVehicle /\ KeepRover
       \/ /\ campaign = "timeline" /\ TimelineNext
          /\ UNCHANGED <<runtimeVars, uplinkVars, downlinkVars>>
          /\ KeepGround /\ KeepVehicle /\ KeepRover
       \/ /\ campaign = "navigation" /\ NavigationNext
          /\ UNCHANGED <<relayVars, surfaceVars, plannerVars>>
          /\ KeepGround /\ KeepVehicle /\ KeepMission
       \/ /\ campaign = "relay" /\ RelayNext
          /\ UNCHANGED <<leg, surfaceVars, plannerVars>>
          /\ KeepGround /\ KeepVehicle /\ KeepMission
       \/ /\ campaign = "survey" /\ SurfaceNext
          /\ UNCHANGED <<leg, relayVars, plannerVars>> /\ KeepGround /\ KeepVehicle /\ KeepMission
       \/ /\ campaign = "route" /\ PlannerNext
          /\ UNCHANGED <<leg, relayVars, surfaceVars>> /\ KeepGround /\ KeepVehicle /\ KeepMission

flightVars == <<campaign, receiptVars, roundTripVars, loopVars, bridgeVars, runtimeVars,
                uplinkVars, downlinkVars, timelineVars, leg, relayVars, surfaceVars,
                plannerVars>>

FlightSpec == FlightInit /\ [][FlightNext]_flightVars
-----------------------------------------------------------------------------
\* Every component's queues, archives, counters and modes stay what its code
\* declares them to be: no queue is longer than its capacity, no counter below
\* zero, no mode but those of its enumeration.
ComponentTypesOK ==
    /\ ReceiptTypeOK /\ RoundTripTypeOK /\ LoopTypeOK /\ BridgeTypeOK
    /\ RuntimeTypeOK /\ UplinkTypeOK /\ DownlinkTypeOK /\ TimelineTypeOK
    /\ NavigationTypeOK /\ RelayTypeOK /\ SurfaceTypeOK /\ PlannerTypeOK
=============================================================================
