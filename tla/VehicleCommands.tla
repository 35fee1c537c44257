-------------------------- MODULE VehicleCommands --------------------------
(***************************************************************************)
(* What a command does to a vehicle, as operators: the logical engine      *)
(* (ground/command_execution) keeps a mode per target and decides whether  *)
(* a command executes; the adapter (ground/vehicle_command_adapter)        *)
(* applies the executed ones to the one physical vehicle there is, the     *)
(* rover (rover/surface_rover).  Where the terrain or the battery decide,  *)
(* the operator's argument "draw" names the outcome.                       *)
(***************************************************************************)
EXTENDS Integers

Targets == {"VIKRAM", "ROVER", "LANDER"}

\* Modes a target can be in; SET_MODE stores whatever it is given.
Modes == {"STANDBY", "DRIVING", "SURFACE_READY", "SCIENCE", "SAFE", "FAULT"}
Opcodes == {"SET_MODE", "START_ROVER", "STOP_ROVER", "STOP", "DRIVE", "START_SCIENCE",
            "STOP_SCIENCE", "TRANSMIT_DATA", "RESET_SUBSYSTEM", "ENTER_SAFE_MODE",
            "EXIT_SAFE_MODE", "unknown"}

\* "parameters" is a mode for SET_MODE ("" when it is missing), "good" or "bad"
\* for DRIVE.
CommandType ==
    {c \in [target : Targets \union {"nowhere"}, opcode : Opcodes,
            parameters : Modes \union {"", "good", "bad"}] :
        c.opcode = "SET_MODE" => c.parameters \in Modes \union {""}}
-----------------------------------------------------------------------------
(* The logical engine.  The counters of a snapshot, which only the packets *)
(* carry, are left out.                                                    *)

LogicalState == [mode : Modes, safe : BOOLEAN, science : BOOLEAN, transmit : BOOLEAN]
StandBy == [mode |-> "STANDBY", safe |-> FALSE, science |-> FALSE, transmit |-> FALSE]

AllowedInSafeMode == {"ENTER_SAFE_MODE", "EXIT_SAFE_MODE", "RESET_SUBSYSTEM", "SET_MODE"}

\* mutant: safe mode is looked at after the operation
LogicalAnswerUnsafe(s, c) ==
    IF c.target \notin Targets THEN "TargetUnavailable"
    ELSE IF c.opcode = "SET_MODE" /\ c.parameters = "" THEN "InvalidCommand"
    ELSE IF c.opcode = "SET_MODE" /\ c.parameters = s.mode THEN "AlreadyInRequestedState"
    ELSE IF c.opcode \in {"START_ROVER", "DRIVE"} /\ c.target # "ROVER" THEN "PreconditionsFailed"
    ELSE IF c.opcode = "unknown" THEN "UnsupportedOpcode"
    ELSE IF s.safe /\ c.opcode \notin AllowedInSafeMode \union {"STOP", "DRIVE"}
         THEN "PreconditionsFailed"
    ELSE "Executed"

LogicalAnswer(s, c) ==
    IF c.target \notin Targets THEN "TargetUnavailable"
    ELSE IF s.safe /\ c.opcode \notin AllowedInSafeMode THEN "PreconditionsFailed"
    ELSE IF c.opcode = "SET_MODE" /\ c.parameters = "" THEN "InvalidCommand"
    ELSE IF c.opcode = "SET_MODE" /\ c.parameters = s.mode THEN "AlreadyInRequestedState"
    ELSE IF c.opcode \in {"START_ROVER", "DRIVE"} /\ c.target # "ROVER" THEN "PreconditionsFailed"
    ELSE IF c.opcode = "unknown" THEN "UnsupportedOpcode"
    ELSE "Executed"

\* The state after a command that executed.  SET_MODE does not look at the
\* flags, nor do they look at the mode.
LogicalEffect(s, c) ==
    CASE c.opcode = "SET_MODE" -> [s EXCEPT !.mode = c.parameters]
      [] c.opcode \in {"START_ROVER", "DRIVE"} -> [s EXCEPT !.mode = "DRIVING"]
      [] c.opcode \in {"STOP_ROVER", "STOP"} ->
             [s EXCEPT !.mode = "SURFACE_READY", !.transmit = FALSE]
      [] c.opcode = "START_SCIENCE" -> [s EXCEPT !.mode = "SCIENCE", !.science = TRUE]
      [] c.opcode = "STOP_SCIENCE" ->
             [s EXCEPT !.science = FALSE, !.mode = IF @ = "SCIENCE" THEN "SURFACE_READY" ELSE @]
      [] c.opcode = "TRANSMIT_DATA" -> [s EXCEPT !.transmit = TRUE]
      [] c.opcode = "RESET_SUBSYSTEM" ->
             [s EXCEPT !.transmit = FALSE, !.mode = IF @ = "FAULT" THEN "STANDBY" ELSE @]
      [] c.opcode = "EXIT_SAFE_MODE" ->
             [s EXCEPT !.safe = FALSE, !.mode = IF @ = "SAFE" THEN "STANDBY" ELSE @]
      [] c.opcode = "ENTER_SAFE_MODE" ->
             [mode |-> "SAFE", safe |-> TRUE, science |-> FALSE, transmit |-> FALSE]

LogicalAfter(s, c) == IF LogicalAnswer(s, c) = "Executed" THEN LogicalEffect(s, c) ELSE s
-----------------------------------------------------------------------------
(* The rover.  The position is the number of steps that moved it; the      *)
(* battery is a level between the thresholds the code compares it with.    *)

RoverModes == {"Stowed", "Deployment", "SurfaceReady", "Driving", "HazardHold",
               "MissionComplete", "Fault"}
Charges == {"full", "below 0.35", "below 0.30", "below 0.15"}

RoverType == [mode : RoverModes, place : Nat, moving : BOOLEAN, charge : Charges,
              deployed : BOOLEAN, mastReady : BOOLEAN, healthy : BOOLEAN]
StowedRover == [mode |-> "Stowed", place |-> 0, moving |-> FALSE, charge |-> "full",
                deployed |-> FALSE, mastReady |-> FALSE, healthy |-> TRUE]

DeployFromLander(r) ==
    IF r.mode = "Stowed" /\ r.healthy /\ r.charge = "full"
    THEN [r EXCEPT !.mode = "Deployment", !.deployed = TRUE, !.moving = FALSE]
    ELSE [r EXCEPT !.mode = "Fault"]

InitializeSurfaceSystems(r) ==
    IF r.mode = "Deployment" /\ r.deployed /\ r.healthy /\ r.charge \in {"full", "below 0.35"}
    THEN [r EXCEPT !.mode = "SurfaceReady", !.mastReady = TRUE]
    ELSE [r EXCEPT !.mode = "Fault"]

\* What a driving step may meet: a hazard ahead, or a step that leaves the
\* rover moving or at rest, with the battery at some level no higher.
Draws == {"hazard", "moves", "rests", "drains", "dies"}

CanStep(r) == r.mode \in {"SurfaceReady", "Driving"}

\* step_toward_waypoint throws unless CanStep(r).
StepTowardWaypoint(r, draw) ==
    CASE draw = "hazard" -> [r EXCEPT !.mode = "HazardHold", !.moving = FALSE]
      [] draw = "dies" -> [r EXCEPT !.mode = "Fault", !.moving = FALSE, !.place = @ + 1,
                                    !.charge = "below 0.15"]
      [] OTHER -> [r EXCEPT !.mode = "Driving", !.place = @ + 1, !.moving = draw # "rests",
                            !.charge = IF draw = "drains" THEN "below 0.30" ELSE @]
-----------------------------------------------------------------------------
(* The adapter keeps the rover and the snapshot it reports: the rover as   *)
(* of the last command that touched it, and the number of physical steps.  *)

AdapterType == [rover : RoverType, snapshot : RoverType, steps : Nat]
NewAdapter == [rover |-> StowedRover, snapshot |-> StowedRover, steps |-> 0]

StartRover(r) ==
    LET deployed == IF r.mode = "Stowed" THEN DeployFromLander(r) ELSE r
    IN  IF deployed.mode = "Deployment" THEN InitializeSurfaceSystems(deployed) ELSE deployed

StopRover(r) == [r EXCEPT !.moving = FALSE, !.mode = IF @ = "Driving" THEN "SurfaceReady" ELSE @]

IsStop(c) == c.opcode \in {"STOP_ROVER", "STOP"}
Drives(a, c) ==
    /\ c.target = "ROVER" /\ c.opcode = "DRIVE"
    /\ a.rover.deployed /\ a.rover.mastReady /\ c.parameters = "good"

\* A DRIVE the rover cannot take throws out of apply(): nothing catches it.
ApplyThrows(a, c) == Drives(a, c) /\ ~CanStep(a.rover)

RoverAfter(a, c, draw) ==
    IF c.target # "ROVER" THEN a.rover
    ELSE IF c.opcode = "START_ROVER" THEN StartRover(a.rover)
    ELSE IF IsStop(c) THEN StopRover(a.rover)
    ELSE IF Drives(a, c) THEN StepTowardWaypoint(a.rover, draw)
    ELSE a.rover

\* mutant: a stop does not report back
SynchronisesMoves(a, c) == c.target = "ROVER" /\ (c.opcode = "START_ROVER" \/ Drives(a, c))

\* The branches that end in sync_snapshot.
Synchronises(a, c) == c.target = "ROVER" /\ (c.opcode = "START_ROVER" \/ IsStop(c) \/ Drives(a, c))

AdapterAfter(a, c, draw) ==
    LET r == RoverAfter(a, c, draw)
    IN  [rover |-> r,
         snapshot |-> IF Synchronises(a, c) THEN r ELSE a.snapshot,
         steps |-> IF Drives(a, c) THEN a.steps + 1 ELSE a.steps]

\* START_ROVER reports Applied in any mode but a deployment that just failed;
\* a mode without a rule of its own counts as applied.
AdapterAnswer(a, c, draw) ==
    LET mode == RoverAfter(a, c, draw).mode
    IN  IF c.target # "ROVER" THEN "UnsupportedTarget"
        ELSE IF c.opcode = "START_ROVER" THEN
             IF mode = "Fault" /\ a.rover.mode \in {"Stowed", "Deployment"}
             THEN "PhysicalFault" ELSE "Applied"
        ELSE IF IsStop(c) THEN "Applied"
        ELSE IF c.opcode = "DRIVE" /\ ~(a.rover.deployed /\ a.rover.mastReady)
             THEN "PreconditionsFailed"
        ELSE IF c.opcode = "DRIVE" /\ c.parameters # "good" THEN "InvalidParameters"
        ELSE IF c.opcode = "DRIVE" THEN
             CASE mode = "Fault" -> "PhysicalFault"
               [] mode = "HazardHold" -> "PreconditionsFailed"
               [] OTHER -> "Applied"
        ELSE "UnsupportedOpcode"
=============================================================================
