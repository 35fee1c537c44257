------------------------------ MODULE RoverLeg ------------------------------
(***************************************************************************)
(* One leg of the rover under closed-loop control                          *)
(* (rover/closed_loop_rover_navigation) as operators: plan a route, then   *)
(* look, replan or hold, and drive one step along the route, until the     *)
(* goal, a hold, a fault or the limit of steps.  What the rover meets in a *)
(* step is a "sight"; it says of every plan the step may ask for whether   *)
(* that plan finds a route (RoutePlanner says when it does).               *)
(***************************************************************************)
EXTENDS Integers

CONSTANTS
    MaxLegSteps,       \* max_control_steps
    ActivationSteps    \* the steps from which the loop may know an obstacle; 0 is never

ASSUME LegAssumption == MaxLegSteps \in Nat \ {0} /\ ActivationSteps \subseteq Nat

LegModes == {"SurfaceReady", "Driving", "HazardHold", "MissionComplete", "Fault"}

\* near: within the acceptance radius of the goal; slow: at 0.10 m/s or less.
\* active is the obstacle's own flag, which a caller may leave unset.  The rest of
\* the record is the loop's locals and the RoverClosedLoopResult; started is the
\* mode the leg began in.
LegType ==
    [started : LegModes, mode : LegModes, near : BOOLEAN, slow : BOOLEAN, step : 0 .. MaxLegSteps,
     activation : ActivationSteps, active : BOOLEAN, over : BOOLEAN, threw : BOOLEAN,
     pathFound : BOOLEAN, replans : Nat, replanned : BOOLEAN, onlineReplan : BOOLEAN,
     obstacleSeen : BOOLEAN, reached : BOOLEAN, hold : BOOLEAN, controlSteps : Nat]

\* The leg after its first plan, which knows of no obstacle; without a route
\* the leg is over before it looked at anything.
NewLeg(mode, near, slow, found, activation, active) ==
    [started |-> mode, mode |-> mode, near |-> near, slow |-> slow, step |-> 0,
     activation |-> activation, active |-> active, over |-> ~found, threw |-> FALSE,
     pathFound |-> found, replans |-> 0, replanned |-> FALSE, onlineReplan |-> FALSE,
     obstacleSeen |-> FALSE, reached |-> FALSE, hold |-> FALSE, controlSteps |-> 0]
-----------------------------------------------------------------------------
(* The rules of one control step.  Each takes the leg and gives it back;   *)
(* a leg that is over passes the later rules unchanged.                    *)

\* crosses, astray, onWaypoint: the route leads through the obstacle as it turns
\* up, the rover has left the route, the next waypoint lies in the obstacle; and
\* whether the plan that follows finds a way.  shift: a disturbance sets the rover
\* down near the goal or away from it.
Plans == {"no need", "found", "none"}
Shifts == {"none", "near", "away"}
Sights ==
    [inside : BOOLEAN, crosses : Plans, shift : Shifts, astray : Plans, hazard : BOOLEAN,
     onWaypoint : Plans, near : BOOLEAN, slow : BOOLEAN, dies : BOOLEAN]

\* The loop holds a pointer to the obstacle from its activation step on; what
\* it points at counts as an obstacle only when its flag is set.
ObstacleKnown(l) == l.activation # 0 /\ l.step >= l.activation
ObstacleActive(l) == ObstacleKnown(l) /\ l.active
ActivatedNow(l) == l.activation # 0 /\ l.step = l.activation

Rule(l, applies, result) == IF ~l.over /\ applies THEN result ELSE l

HeldHere(l) == [l EXCEPT !.mode = "HazardHold", !.slow = TRUE, !.hold = TRUE, !.over = TRUE,
                         !.controlSteps = l.step]
AtGoal(l) == [l EXCEPT !.mode = "MissionComplete", !.slow = TRUE, !.reached = TRUE, !.over = TRUE]

\* A plan that finds nothing holds the rover where it is.
Replan(l, plan, online) ==
    LET found   == plan = "found"
        planned == [l EXCEPT !.pathFound = found, !.replans = @ + 1, !.replanned = TRUE,
                             !.onlineReplan = IF online THEN found ELSE @]
    IN  Rule(l, plan # "no need", IF found THEN planned ELSE HeldHere(planned))

\* On top of the rover, or across the route in the step it turns up.
SeesObstacle(l, sight) ==
    LET seen == [l EXCEPT !.obstacleSeen = @ \/ ObstacleActive(l)]
        held == Rule(seen, ObstacleActive(l) /\ sight.inside, HeldHere(seen))
    IN  Rule(held, ActivatedNow(l) /\ l.active, Replan(held, sight.crosses, TRUE))

\* A disturbance never comes in step 0; it moves the rover, not its route.
IsDisturbed(l, sight) ==
    Rule(l, sight.shift # "none" /\ l.step # 0,
         [l EXCEPT !.near = sight.shift = "near", !.replanned = TRUE])

\* mutant: arrival is looked at whatever the obstacle did
ArrivedAnyway(l) ==
    IF l.near /\ l.slow THEN [AtGoal(l) EXCEPT !.controlSteps = l.step] ELSE l

ArrivedBefore(l) == Rule(l, l.near /\ l.slow, [AtGoal(l) EXCEPT !.controlSteps = l.step])

\* An online replan is one that knows the obstacle, active or not.
Deviates(l, sight) == Replan(l, sight.astray, ObstacleKnown(l))

MeetsHazard(l, sight) == Rule(l, sight.hazard, HeldHere(l))

WaypointBlocked(l, sight) == Rule(l, ObstacleActive(l), Replan(l, sight.onWaypoint, TRUE))

\* step_toward_waypoint throws unless the rover is ready or driving; a battery
\* that runs out stops it as a fault.
StepsAlong(l, sight) ==
    CASE l.over -> l
      [] ~l.over /\ l.mode \notin {"SurfaceReady", "Driving"} ->
             [l EXCEPT !.threw = TRUE, !.over = TRUE]
      [] OTHER -> [l EXCEPT !.near = sight.near, !.slow = sight.slow \/ sight.dies,
                            !.mode = IF sight.dies THEN "Fault" ELSE "Driving",
                            !.over = sight.dies, !.controlSteps = l.step + 1]

ArrivedAfter(l) == Rule(l, l.near /\ l.slow, AtGoal(l))

\* Where the rover stands at the end decides once more whether it is there.
Closed(l) == IF l.over /\ ~l.threw THEN [l EXCEPT !.reached = @ \/ (l.near /\ l.slow)] ELSE l

LegAfter(l, sight) ==
    LET looked  == Deviates(ArrivedBefore(IsDisturbed(SeesObstacle(l, sight), sight)), sight)
        guarded == WaypointBlocked(MeetsHazard(looked, sight), sight)
        driven  == ArrivedAfter(StepsAlong(guarded, sight))
    IN  Closed(IF driven.over THEN driven
               ELSE [driven EXCEPT !.step = @ + 1, !.over = l.step + 1 = MaxLegSteps])

\* What the end of a leg that began ready promises its caller, as far as mode,
\* reached and hold go.
EndAgrees(end) ==
    /\ end.hold <=> end.mode = "HazardHold"
    /\ end.mode = "MissionComplete" => end.reached
    /\ end.reached /\ ~end.hold => end.mode \in {"MissionComplete", "Fault"}
=============================================================================
