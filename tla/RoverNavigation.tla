-------------------------- MODULE RoverNavigation --------------------------
(***************************************************************************)
(* A leg of the rover (RoverLeg), step by step, from whatever state its    *)
(* caller left the rover in.                                               *)
(***************************************************************************)
EXTENDS RoverLeg

VARIABLE leg

NavigationInit ==
    \E mode \in LegModes, near, slow, found, active \in BOOLEAN, activation \in ActivationSteps :
        leg = NewLeg(mode, near, slow, found, activation, active)

ControlStep(sight) == ~leg.over /\ leg' = LegAfter(leg, sight)

NavigationNext == \E sight \in Sights : ControlStep(sight)

NavigationSpec == NavigationInit /\ [][NavigationNext]_leg
-----------------------------------------------------------------------------
NavigationTypeOK == leg \in LegType

\* The report of a leg that a ready rover drove is what happened to the rover,
\* however replans, obstacle, hazard and arrival fall together: it holds exactly
\* when it says so, MISSION_COMPLETE is never left without the goal reached, and
\* a goal reached without a hold leaves it complete, or faulted on the spot; a
\* route missing at the end was missing from the start or holds the rover; a
\* replan called online was made after the obstacle turned up, and told of it
\* unless the obstacle was not active (closed_loop_rover_navigation.cpp: the
\* breaks of the control loop and the evaluation behind it).
LegTells ==
    leg.over /\ leg.started \in {"SurfaceReady", "Driving"} =>
        /\ ~leg.threw
        /\ EndAgrees(leg)
        /\ ~leg.pathFound => leg.hold \/ (leg.replans = 0 /\ leg.controlSteps = 0)
        /\ leg.replans > 0 => leg.replanned
        /\ leg.onlineReplan => leg.replans > 0 /\ ObstacleKnown(leg)
        /\ leg.onlineReplan /\ leg.active => leg.obstacleSeen
        /\ leg.controlSteps <= MaxLegSteps
=============================================================================
