-------------------------- MODULE MissionTimeline --------------------------
(***************************************************************************)
(* The mission engine of the early campaigns (mission/mission_execution):  *)
(* every phase up to the deployment of the rover lasts its configured      *)
(* time, the surface phase until the rover (rover/surface_rover) is at its *)
(* target.  Time is counted in quarters of a second, so that a step and a  *)
(* phase need not be multiples of each other.  Every phase has a duration  *)
(* of its own, which is read in that phase only and from a clock that      *)
(* starts at zero in it: one number for all tells no phases apart that two *)
(* would.                                                                  *)
(***************************************************************************)
EXTENDS VehicleCommands, Sequences

CONSTANTS
    StepLengths,       \* the step_seconds a mission may be configured with
    Durations,         \* the durations of the phases it may be configured with
    MaxSurfaceSteps    \* bound: steps on the surface

ASSUME TimelineAssumption ==
    StepLengths \subseteq Nat \ {0} /\ Durations \subseteq Nat \ {0} /\ MaxSurfaceSteps \in Nat

Timeline == <<"Launch", "EarthOrbit", "TransLunarInjection", "LunarCruise", "LunarOrbit",
              "Descent", "Landing", "RoverDeployment", "SurfaceOperations", "Complete">>
TimelinePhases == {Timeline[i] : i \in DOMAIN Timeline} \union {"Fault"}

VARIABLES
    stepLength, duration,     \* the configuration: one duration for all phases
    stage,                    \* phase_
    elapsed,                  \* phase_elapsed_seconds_
    rover,                    \* rover_state_
    landed                    \* snapshot_.landed, which reset() leaves alone

timelineVars == <<stepLength, duration, stage, elapsed, rover, landed>>

TimelineInit ==
    /\ stepLength \in StepLengths /\ duration \in Durations
    /\ stage = "Launch" /\ elapsed = 0
    /\ rover = StowedRover /\ landed = FALSE

\* What one step of the drive may meet on top of the others: at the target before
\* the step, or after it, and a hazard where the rover then stands.
DriveDraws == Draws \union {"is there", "arrives", "is there in a hazard", "arrives in a hazard",
                            "moves into a hazard"}
Arrived(r) == [r EXCEPT !.mode = "MissionComplete", !.moving = FALSE]

\* drive_to_target with one step.
DriveOnce(r, draw) ==
    CASE draw \in {"is there", "is there in a hazard"} -> Arrived(r)
      [] draw \in {"arrives", "arrives in a hazard"} -> Arrived(StepTowardWaypoint(r, "moves"))
      [] draw = "moves into a hazard" -> StepTowardWaypoint(r, "moves")
      [] OTHER -> StepTowardWaypoint(r, draw)

HazardMet(draw) == draw \in {"hazard", "dies", "is there in a hazard", "arrives in a hazard",
                             "moves into a hazard"}

\* mutant: one or the other in a step
DeployedInTurns(r, now) ==
    IF ~r.deployed /\ 4 * now >= duration THEN DeployFromLander(r)
    ELSE IF r.mode = "Deployment" /\ 4 * now >= 3 * duration
         THEN InitializeSurfaceSystems(r) ELSE r

\* update_surface while the rover is deployed: at a quarter of the phase it is
\* let down, at three quarters its systems come up.
Deployed(r, now) ==
    LET down == IF ~r.deployed /\ 4 * now >= duration THEN DeployFromLander(r) ELSE r
    IN  IF down.mode = "Deployment" /\ 4 * now >= 3 * duration
        THEN InitializeSurfaceSystems(down) ELSE down

Following(phase) == Timeline[1 + CHOOSE i \in DOMAIN Timeline : Timeline[i] = phase]

\* update_phase: enter the following phase when this one's time is over (the
\* surface phase has one second, and ends with the rover's mission).
Ends(phase, now, r) ==
    IF phase = "SurfaceOperations" THEN now >= 4 /\ r.mode = "MissionComplete"
    ELSE phase \notin {"Complete", "Fault"} /\ now >= duration

Enter(phase, now, r) ==
    /\ stage' = IF Ends(phase, now, r) THEN Following(phase) ELSE phase
    /\ elapsed' = IF Ends(phase, now, r) THEN 0 ELSE now
    /\ rover' = r

\* step(): a complete or a faulted mission stands (its clock is left out).
FlightStep ==
    /\ stage \in {Timeline[i] : i \in 1..7}
    /\ landed' = (landed \/ (stage = "Landing" /\ 1000 * (elapsed + stepLength) >= 999 * duration))
    /\ Enter(stage, elapsed + stepLength, rover)
    /\ UNCHANGED <<stepLength, duration>>

DeploymentStep ==
    /\ stage = "RoverDeployment"
    /\ LET r == Deployed(rover, elapsed + stepLength)
       IN  Enter(IF r.mode = "Fault" THEN "Fault" ELSE stage, elapsed + stepLength, r)
    /\ UNCHANGED <<stepLength, duration, landed>>

SurfaceStep(draw) ==
    /\ stage = "SurfaceOperations"
    /\ rover.place < MaxSurfaceSteps \/ draw \in {"is there", "is there in a hazard", "hazard"}
    /\ LET drives == CanStep(rover)
           r      == IF drives THEN DriveOnce(rover, draw) ELSE rover
       IN  Enter(IF drives /\ (r.mode = "Fault" \/ HazardMet(draw)) THEN "Fault" ELSE stage,
                 elapsed + stepLength, r)
    /\ UNCHANGED <<stepLength, duration, landed>>

ResetTimeline ==
    /\ stage' = "Launch" /\ elapsed' = 0 /\ rover' = StowedRover
    /\ UNCHANGED <<stepLength, duration, landed>>

TimelineNext ==
    \/ FlightStep \/ DeploymentStep \/ ResetTimeline
    \/ \E draw \in DriveDraws : SurfaceStep(draw)

TimelineSpec == TimelineInit /\ [][TimelineNext]_timelineVars
-----------------------------------------------------------------------------
TimelineTypeOK ==
    /\ stepLength \in StepLengths /\ duration \in Durations
    /\ stage \in TimelinePhases /\ elapsed \in Nat
    /\ rover \in RoverType /\ landed \in BOOLEAN

\* However long a step is against a phase, no step of the rover is skipped: a
\* mission on the surface has a rover that is down and up, the lander has
\* touched down before, and the mission is complete only with the rover at its
\* target (mission_execution.cpp: update_surface, update_phase).
RoverFollowsTheMission ==
    /\ stage = "SurfaceOperations" =>
           /\ rover.deployed /\ rover.mastReady
           /\ rover.mode \in {"SurfaceReady", "Driving", "MissionComplete"}
    /\ stage \in {"RoverDeployment", "SurfaceOperations", "Complete"} => landed
    /\ stage = "Complete" => rover.mode = "MissionComplete" /\ rover.place <= MaxSurfaceSteps
    /\ rover.mode # "Stowed" =>
           stage \in {"RoverDeployment", "SurfaceOperations", "Complete", "Fault"}
=============================================================================
