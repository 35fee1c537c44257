---------------------------- MODULE RoverProofs ----------------------------
(***************************************************************************)
(* Proofs about the surface: a leg of the rover (RoverNavigation), the     *)
(* way of a science product to the ground (ScienceRelay), a survey of      *)
(* sites (SurfaceMission) and the search for a route (RoutePlanner), for   *)
(* any legs, products, missions, sites and maps.                           *)
(***************************************************************************)
EXTENDS RoverNavigation, ScienceRelay, SurfaceMission, RoutePlanner,
        FiniteSetTheorems, WellFoundedInduction, TLAPS
-----------------------------------------------------------------------------
(* A leg of the rover *)

Ready == {"SurfaceReady", "Driving"}

\* An online replan knew the obstacle, and told of it if it was active.
OnlineSound(l) ==
    l.onlineReplan => l.replans > 0 /\ ObstacleKnown(l) /\ (l.active => l.obstacleSeen)

\* What is true of a ready rover's leg wherever in a control step it is.
Sound(l) ==
    /\ ~l.threw /\ (ObstacleActive(l) => l.obstacleSeen)
    /\ l.replans > 0 => l.replanned
    /\ OnlineSound(l)

\* A leg of a ready rover between two rules of a control step: it goes on, or
\* it ended as a hold, at the goal, or as a fault.
Fit(l) ==
    /\ Sound(l)
    /\ ~l.pathFound => l.hold
    /\ l.controlSteps <= MaxLegSteps
    /\ \/ ~l.over /\ ~l.hold /\ ~l.reached /\ l.mode \in Ready
       \/ l.over /\ l.hold /\ l.mode = "HazardHold"
       \/ l.over /\ ~l.hold /\ l.reached /\ l.mode = "MissionComplete"
       \/ l.over /\ ~l.hold /\ l.mode = "Fault"

\* A rule of the step that begins at b has brought the leg to l.
Underway(b, l) ==
    /\ l \in LegType /\ l.started = b.started /\ l.step = b.step
    /\ l.activation = b.activation /\ l.active = b.active
    /\ b.started \in Ready => Fit(l)

\* The inductive invariant of a leg between two control steps.
LegFits(l) ==
    /\ l \in LegType /\ (~l.over => l.step < MaxLegSteps)
    /\ l.started \in Ready =>
          /\ ~l.threw
          /\ ~l.over => l.pathFound /\ ~l.hold /\ ~l.reached /\ l.mode \in Ready
          /\ l.over => EndAgrees(l)
          /\ ~l.pathFound => l.hold \/ (l.replans = 0 /\ l.controlSteps = 0)
          /\ l.replans > 0 => l.replanned
          /\ OnlineSound(l)
          /\ l.controlSteps <= MaxLegSteps

LEMMA HoldFits ==
    ASSUME NEW b \in LegType, NEW l \in LegType, l.started = b.started, l.step = b.step,
           l.activation = b.activation, l.active = b.active,
           b.started \in Ready => Sound(l)
    PROVE  Underway(b, HeldHere(l))
<1> DEFINE h == HeldHere(l)
<1>0. l.step \in Nat
  BY LegAssumption DEF LegType
<1>1. /\ h.started = l.started /\ h.step = l.step /\ h.activation = l.activation /\ h.active = l.active
      /\ h.threw = l.threw /\ h.obstacleSeen = l.obstacleSeen /\ h.replans = l.replans
      /\ h.replanned = l.replanned /\ h.onlineReplan = l.onlineReplan
      /\ h.hold /\ h.over /\ h.mode = "HazardHold" /\ h.controlSteps = l.step
      /\ h \in LegType
  BY <1>0 DEF HeldHere, LegType, LegModes
<1>2. l.step <= MaxLegSteps
  BY LegAssumption DEF LegType
<1> HIDE DEF h
<1>3. Underway(b, h)
  BY <1>1, <1>2 DEF Underway, Fit, Sound, OnlineSound, ObstacleActive, ObstacleKnown
<1> QED
  BY <1>3 DEF h

LEMMA GoalFits ==
    ASSUME NEW b \in LegType, NEW l, Underway(b, l), ~l.over, NEW n \in 0 .. MaxLegSteps
    PROVE  /\ Underway(b, AtGoal(l))
           /\ Underway(b, [AtGoal(l) EXCEPT !.controlSteps = n])
<1> DEFINE g == AtGoal(l)
           c == [g EXCEPT !.controlSteps = n]
<1>1. l \in LegType /\ MaxLegSteps \in Nat /\ n \in Nat /\ n <= MaxLegSteps
  BY LegAssumption DEF Underway
<1>2. /\ g.started = l.started /\ g.step = l.step /\ g.activation = l.activation /\ g.active = l.active
      /\ g.threw = l.threw /\ g.obstacleSeen = l.obstacleSeen /\ g.replans = l.replans
      /\ g.replanned = l.replanned /\ g.onlineReplan = l.onlineReplan
      /\ g.hold = l.hold /\ g.over /\ g.reached /\ g.mode = "MissionComplete"
      /\ g.pathFound = l.pathFound /\ g.controlSteps = l.controlSteps
      /\ g \in LegType
  BY <1>1 DEF AtGoal, LegType, LegModes
<1> HIDE DEF g
<1>3. /\ c.started = g.started /\ c.step = g.step /\ c.activation = g.activation /\ c.active = g.active
      /\ c.threw = g.threw /\ c.obstacleSeen = g.obstacleSeen /\ c.replans = g.replans
      /\ c.replanned = g.replanned /\ c.onlineReplan = g.onlineReplan
      /\ c.hold = g.hold /\ c.over = g.over /\ c.reached = g.reached /\ c.mode = g.mode
      /\ c.pathFound = g.pathFound /\ c.controlSteps = n
      /\ c \in LegType
  BY <1>1, <1>2 DEF LegType
<1> HIDE DEF c
<1>4. Underway(b, g)
  BY <1>2 DEF Underway, Fit, Sound, OnlineSound, ObstacleActive, ObstacleKnown, Ready
<1>5. Underway(b, c)
  BY <1>1, <1>2, <1>3 DEF Underway, Fit, Sound, OnlineSound, ObstacleActive, ObstacleKnown, Ready
<1> QED
  BY <1>4, <1>5 DEF g, c

LEMMA ReplanFits ==
    ASSUME NEW b \in LegType, NEW l, Underway(b, l), NEW plan \in Plans, NEW online \in BOOLEAN,
           online => ObstacleKnown(b)
    PROVE  Underway(b, Replan(l, plan, online))
<1> DEFINE found == plan = "found"
           replans == l.replans + 1
           onlineReplan == IF online THEN found ELSE l.onlineReplan
           planned == [l EXCEPT !.pathFound = found, !.replans = replans, !.replanned = TRUE,
                                !.onlineReplan = onlineReplan]
<1>1. l \in LegType /\ (ObstacleKnown(l) <=> ObstacleKnown(b)) /\ l.active = b.active
  BY DEF Underway, ObstacleActive, ObstacleKnown
<1>0. replans \in Nat /\ replans > 0 /\ onlineReplan \in BOOLEAN /\ found \in BOOLEAN
  <2>1. replans \in Nat /\ replans > 0 /\ l.onlineReplan \in BOOLEAN
    BY <1>1 DEF LegType
  <2>2. found \in BOOLEAN
    OBVIOUS
  <2>3. onlineReplan \in BOOLEAN
    BY <2>1, <2>2, Zenon
  <2> QED
    BY <2>1, <2>2, <2>3
<1>2. /\ planned.started = l.started /\ planned.step = l.step
      /\ planned.activation = l.activation /\ planned.active = l.active /\ planned.threw = l.threw
      /\ planned.obstacleSeen = l.obstacleSeen /\ planned.replanned
      /\ planned.onlineReplan = onlineReplan /\ planned.replans = replans
      /\ planned.hold = l.hold /\ planned.over = l.over /\ planned.reached = l.reached
      /\ planned.mode = l.mode /\ planned.pathFound = found
      /\ planned.controlSteps = l.controlSteps /\ planned \in LegType
  <2> HIDE DEF found, replans, onlineReplan
  <2> QED
    BY <1>0, <1>1 DEF LegType
<1>3. Replan(l, plan, online) =
        IF ~l.over /\ plan # "no need" THEN (IF found THEN planned ELSE HeldHere(planned)) ELSE l
  BY DEF Replan, Rule
<1> HIDE DEF planned
<1>4a. b.started \in Ready => OnlineSound(planned)
  <2>1. CASE online
    BY <1>0, <1>1, <1>2, <2>1 DEF Underway, Fit, Sound, OnlineSound, ObstacleActive, ObstacleKnown
  <2>2. CASE ~online
    <3>1. planned.onlineReplan = l.onlineReplan
      BY <1>2, <2>2
    <3> HIDE DEF onlineReplan, replans
    <3> QED
      BY <1>0, <1>1, <1>2, <3>1 DEF Underway, Fit, Sound, OnlineSound, ObstacleKnown
  <2> QED
    BY <2>1, <2>2
<1>4. CASE l.over \/ plan = "no need"
  BY <1>3, <1>4
<1>5. CASE ~l.over /\ plan # "no need" /\ found
  <2>1. Underway(b, planned)
    BY <1>0, <1>1, <1>2, <1>4a, <1>5 DEF Underway, Fit, Sound, ObstacleActive, ObstacleKnown
  <2> QED
    BY <1>3, <1>5, <2>1
<1>6. CASE ~l.over /\ plan # "no need" /\ ~found
  <2>1. /\ planned \in LegType /\ planned.started = b.started /\ planned.step = b.step
        /\ planned.activation = b.activation /\ planned.active = b.active
    BY <1>2 DEF Underway
  <2>2. b.started \in Ready => Sound(planned)
    BY <1>0, <1>1, <1>2, <1>4a, <1>6 DEF Underway, Fit, Sound, ObstacleActive, ObstacleKnown
  <2>3. Underway(b, HeldHere(planned))
    BY <2>1, <2>2, HoldFits
  <2> QED
    BY <1>3, <1>6, <2>3
<1> QED
  BY <1>4, <1>5, <1>6

LEMMA SeesFits ==
    ASSUME NEW b, LegFits(b), ~b.over, NEW sight \in Sights
    PROVE  Underway(b, SeesObstacle(b, sight))
<1> DEFINE seen == [b EXCEPT !.obstacleSeen = @ \/ ObstacleActive(b)]
           held == Rule(seen, ObstacleActive(b) /\ sight.inside, HeldHere(seen))
<1>1. ObstacleActive(b) \in BOOLEAN /\ b.obstacleSeen \in BOOLEAN /\ b \in LegType
  BY DEF ObstacleActive, ObstacleKnown, LegType, LegFits
<1>2. /\ seen.started = b.started /\ seen.step = b.step
      /\ seen.activation = b.activation /\ seen.active = b.active /\ seen.threw = b.threw
      /\ seen.replans = b.replans /\ seen.replanned = b.replanned
      /\ seen.onlineReplan = b.onlineReplan
      /\ seen.hold = b.hold /\ seen.over = b.over /\ seen.reached = b.reached
      /\ seen.mode = b.mode /\ seen.pathFound = b.pathFound
      /\ seen.controlSteps = b.controlSteps /\ seen \in LegType
      /\ seen.obstacleSeen = (b.obstacleSeen \/ ObstacleActive(b))
  BY <1>1 DEF LegType, LegFits
<1> HIDE DEF seen
<1>3. Underway(b, seen)
  BY <1>2 DEF Underway, Fit, Sound, OnlineSound, ObstacleActive, ObstacleKnown, LegFits, Ready
<1>4. Underway(b, held)
  <2>0. b.started \in Ready => Sound(seen)
    BY <1>3 DEF Underway, Fit
  <2>1. Underway(b, HeldHere(seen))
    BY <1>1, <1>2, <2>0, HoldFits
  <2> QED
    BY <1>3, <2>1 DEF Rule
<1>5. sight.crosses \in Plans
  BY DEF Sights
<1> HIDE DEF held
<1>6. CASE ActivatedNow(b) /\ b.active /\ ~held.over
  <2>1. ObstacleKnown(b)
    BY <1>1, <1>6 DEF ActivatedNow, ObstacleKnown, LegType
  <2>2. Underway(b, Replan(held, sight.crosses, TRUE))
    BY <1>1, <1>4, <1>5, <2>1, ReplanFits
  <2> QED
    BY <1>6, <2>2 DEF SeesObstacle, Rule, held, seen
<1>7. CASE ~(ActivatedNow(b) /\ b.active /\ ~held.over)
  BY <1>4, <1>7 DEF SeesObstacle, Rule, held, seen
<1> QED
  BY <1>6, <1>7

\* The rules between the first look and the drive.
LEMMA LooksFit ==
    ASSUME NEW b \in LegType, NEW l, Underway(b, l), NEW sight \in Sights
    PROVE  /\ Underway(b, IsDisturbed(l, sight))
           /\ Underway(b, ArrivedBefore(l))
           /\ Underway(b, Deviates(l, sight))
           /\ Underway(b, MeetsHazard(l, sight))
           /\ Underway(b, WaypointBlocked(l, sight))
           /\ Underway(b, ArrivedAfter(l))
<1>1. l \in LegType /\ l.step \in 0 .. MaxLegSteps
  BY DEF Underway, LegType
<1>2. Underway(b, IsDisturbed(l, sight))
  <2> DEFINE near == sight.shift = "near"
             d == [l EXCEPT !.near = near, !.replanned = TRUE]
  <2>0. near \in BOOLEAN
    OBVIOUS
  <2>1. /\ d.started = l.started /\ d.step = l.step
        /\ d.activation = l.activation /\ d.active = l.active /\ d.threw = l.threw
        /\ d.obstacleSeen = l.obstacleSeen /\ d.replanned
        /\ d.onlineReplan = l.onlineReplan /\ d.replans = l.replans
        /\ d.hold = l.hold /\ d.over = l.over /\ d.reached = l.reached
        /\ d.mode = l.mode /\ d.pathFound = l.pathFound
        /\ d.controlSteps = l.controlSteps /\ d \in LegType
    BY <1>1 DEF LegType
  <2>2. IsDisturbed(l, sight) = d \/ IsDisturbed(l, sight) = l
    BY DEF IsDisturbed, Rule
  <2> HIDE DEF d
  <2>3. Underway(b, d)
    BY <2>1 DEF Underway, Fit, Sound, OnlineSound, ObstacleActive, ObstacleKnown
  <2> QED
    BY <2>2, <2>3
<1>3. Underway(b, ArrivedBefore(l)) /\ Underway(b, ArrivedAfter(l))
  BY <1>1, GoalFits DEF ArrivedBefore, ArrivedAfter, Rule
<1>4. /\ ObstacleActive(l) \in BOOLEAN /\ (ObstacleActive(l) => ObstacleKnown(b))
      /\ ObstacleKnown(l) \in BOOLEAN /\ (ObstacleKnown(l) => ObstacleKnown(b))
      /\ sight.astray \in Plans /\ sight.onWaypoint \in Plans
  BY DEF Underway, ObstacleActive, ObstacleKnown, Sights
<1>5. Underway(b, Deviates(l, sight))
  BY <1>4, ReplanFits DEF Deviates
<1>6. Underway(b, MeetsHazard(l, sight))
  <2>1. ~l.over => Underway(b, HeldHere(l))
    BY <1>1, HoldFits DEF Underway, Fit
  <2> QED
    BY <2>1 DEF MeetsHazard, Rule
<1>7. Underway(b, WaypointBlocked(l, sight))
  <2>1. ObstacleActive(l) => Underway(b, Replan(l, sight.onWaypoint, TRUE))
    BY <1>4, ReplanFits
  <2> QED
    BY <2>1 DEF WaypointBlocked, Rule
<1> QED
  BY <1>2, <1>3, <1>5, <1>6, <1>7

LEMMA StepsFit ==
    ASSUME NEW b \in LegType, b.step < MaxLegSteps, NEW l, Underway(b, l), NEW sight \in Sights
    PROVE  Underway(b, StepsAlong(l, sight))
<1>1. /\ l \in LegType /\ l.step \in Nat /\ l.step + 1 \in 0 .. MaxLegSteps
      /\ sight.near \in BOOLEAN /\ sight.slow \in BOOLEAN /\ sight.dies \in BOOLEAN
  BY LegAssumption DEF Underway, LegType, Sights
<1>2. CASE l.over
  BY <1>2 DEF StepsAlong
<1>3. CASE ~l.over /\ l.mode \notin Ready
  <2> DEFINE t == [l EXCEPT !.threw = TRUE, !.over = TRUE]
  <2>1. StepsAlong(l, sight) = t
    BY <1>3 DEF StepsAlong, Ready
  <2>2. t \in LegType /\ t.started = l.started /\ t.step = l.step /\ t.activation = l.activation /\ t.active = l.active
    BY <1>1 DEF LegType
  <2>3. b.started \notin Ready
    BY <1>3 DEF Underway, Fit
  <2> QED
    BY <2>1, <2>2, <2>3 DEF Underway
<1>4. CASE ~l.over /\ l.mode \in Ready
  <2> DEFINE slow == sight.slow \/ sight.dies
             mode == IF sight.dies THEN "Fault" ELSE "Driving"
             n == l.step + 1
             d == [l EXCEPT !.near = sight.near, !.slow = slow, !.mode = mode,
                            !.over = sight.dies, !.controlSteps = n]
  <2>1. StepsAlong(l, sight) = d
    BY <1>4 DEF StepsAlong, Ready
  <2>2. slow \in BOOLEAN /\ mode \in LegModes /\ n \in Nat /\ n <= MaxLegSteps
    BY <1>1, LegAssumption DEF LegModes
  <2>3. mode = (IF sight.dies THEN "Fault" ELSE "Driving")
    OBVIOUS
  <2> HIDE DEF slow, mode, n
  <2>4. /\ d.started = l.started /\ d.step = l.step
        /\ d.activation = l.activation /\ d.active = l.active /\ d.threw = l.threw
        /\ d.obstacleSeen = l.obstacleSeen /\ d.replanned = l.replanned
        /\ d.onlineReplan = l.onlineReplan /\ d.replans = l.replans
        /\ d.hold = l.hold /\ d.over = sight.dies /\ d.reached = l.reached
        /\ d.mode = mode /\ d.pathFound = l.pathFound
        /\ d.controlSteps = n /\ d \in LegType
    BY <1>1, <2>2 DEF LegType
  <2> HIDE DEF d
  <2>5. Underway(b, d)
    BY <1>1, <1>4, <2>2, <2>3, <2>4 DEF Underway, Fit, Sound, OnlineSound, ObstacleActive, ObstacleKnown, Ready
  <2> QED
    BY <2>1, <2>5
<1> QED
  BY <1>2, <1>3, <1>4
\* The end of a control step: the next one, or the end of the leg.
LEMMA StepEnds ==
    ASSUME NEW b \in LegType, b.step < MaxLegSteps, NEW l, Underway(b, l),
           ~l.over => ~(l.near /\ l.slow)
    PROVE  LegFits(Closed(IF l.over THEN l
                          ELSE [l EXCEPT !.step = @ + 1, !.over = b.step + 1 = MaxLegSteps]))
<1>1. /\ l \in LegType /\ l.step = b.step /\ b.step \in Nat /\ b.step + 1 \in 0 .. MaxLegSteps
      /\ l.near \in BOOLEAN /\ l.slow \in BOOLEAN /\ l.reached \in BOOLEAN
  BY LegAssumption DEF Underway, LegType
<1>2. CASE l.over
  <2> DEFINE reached == l.reached \/ (l.near /\ l.slow)
             r == [l EXCEPT !.reached = reached]
  <2>1. CASE l.threw
    <3>1. Closed(l) = l /\ l.started \notin Ready
      BY <2>1 DEF Closed, Underway, Fit, Sound
    <3> QED
      BY <1>1, <1>2, <3>1 DEF LegFits
  <2>2. CASE ~l.threw
    <3>1. Closed(l) = r
      BY <1>2, <2>2 DEF Closed
    <3>2. reached \in BOOLEAN
      BY <1>1
    <3>3. l.reached => reached
      OBVIOUS
    <3> HIDE DEF reached
    <3>4. /\ r.started = l.started /\ r.activation = l.activation
          /\ r.active = l.active /\ r.step = l.step /\ r.threw = l.threw
          /\ r.obstacleSeen = l.obstacleSeen /\ r.replanned = l.replanned
          /\ r.onlineReplan = l.onlineReplan /\ r.replans = l.replans
          /\ r.hold = l.hold /\ r.over = l.over /\ r.reached = reached
          /\ r.mode = l.mode /\ r.pathFound = l.pathFound
          /\ r.controlSteps = l.controlSteps /\ r \in LegType
      BY <1>1, <3>2 DEF LegType
    <3> HIDE DEF r
    <3>5. LegFits(r)
      BY <1>2, <3>3, <3>4 DEF LegFits, Underway, Fit, Sound, OnlineSound, ObstacleKnown, EndAgrees
    <3> QED
      BY <1>2, <3>1, <3>5
  <2> QED
    BY <2>1, <2>2
<1>3. CASE ~l.over
  <2> DEFINE over == b.step + 1 = MaxLegSteps
             step == l.step + 1
             n == [l EXCEPT !.step = step, !.over = over]
             r == [n EXCEPT !.reached = @ \/ (n.near /\ n.slow)]
  <2>1. /\ step \in 0 .. MaxLegSteps /\ over \in BOOLEAN /\ (~over => step < MaxLegSteps)
        /\ step > l.step /\ l.activation \in Nat
    <3>1. l.activation \in Nat
      BY <1>1, LegAssumption DEF LegType
    <3>2. step > l.step
      BY <1>1
    <3> QED
      BY <1>1, <3>1, <3>2, LegAssumption
  <2> HIDE DEF over, step
  <2>2. /\ n.started = l.started /\ n.activation = l.activation
        /\ n.active = l.active /\ n.step = step /\ n.threw = l.threw
        /\ n.near = l.near /\ n.slow = l.slow
        /\ n.obstacleSeen = l.obstacleSeen /\ n.replanned = l.replanned
        /\ n.onlineReplan = l.onlineReplan /\ n.replans = l.replans
        /\ n.hold = l.hold /\ n.over = over /\ n.reached = l.reached
        /\ n.mode = l.mode /\ n.pathFound = l.pathFound
        /\ n.controlSteps = l.controlSteps /\ n \in LegType
    BY <1>1, <2>1 DEF LegType
  <2> HIDE DEF n
  <2>3. Closed(n) = r \/ Closed(n) = n
    BY DEF Closed
  <2>4. (n.reached \/ (n.near /\ n.slow)) = n.reached
    BY <1>1, <1>3, <2>2
  <2>5. r = n
    BY <2>2, <2>4 DEF LegType
  <2>6. LegFits(n)
    <3>1. l.started \in Ready => OnlineSound(n)
      BY <1>1, <2>1, <2>2 DEF Underway, Fit, Sound, OnlineSound, ObstacleKnown
    <3> QED
      BY <1>3, <2>1, <2>2, <3>1 DEF LegFits, Underway, Fit, Sound, EndAgrees, Ready
  <2>7. LegFits(Closed(n))
    BY <2>3, <2>5, <2>6
  <2> QED
    BY <1>3, <2>7 DEF n, over, step
<1> QED
  BY <1>2, <1>3

LEMMA StepFits ==
    ASSUME NEW b, LegFits(b), ~b.over, NEW sight \in Sights
    PROVE  LegFits(LegAfter(b, sight))
<1> DEFINE seen     == SeesObstacle(b, sight)
           disturbed == IsDisturbed(seen, sight)
           arrived  == ArrivedBefore(disturbed)
           looked   == Deviates(arrived, sight)
           met      == MeetsHazard(looked, sight)
           guarded  == WaypointBlocked(met, sight)
           along    == StepsAlong(guarded, sight)
           driven   == ArrivedAfter(along)
<1>1. b \in LegType /\ b.step < MaxLegSteps
  BY DEF LegFits
<1>2. Underway(b, seen)
  BY SeesFits
<1>3. LegAfter(b, sight) =
        Closed(IF driven.over THEN driven
               ELSE [driven EXCEPT !.step = @ + 1, !.over = b.step + 1 = MaxLegSteps])
  BY Zenon DEF LegAfter
<1> HIDE DEF seen
<1>4. Underway(b, disturbed)
  BY <1>1, <1>2, LooksFit
<1> HIDE DEF disturbed
<1>5. Underway(b, arrived)
  BY <1>1, <1>4, LooksFit
<1> HIDE DEF arrived
<1>6. Underway(b, looked)
  BY <1>1, <1>5, LooksFit
<1> HIDE DEF looked
<1>7. Underway(b, met)
  BY <1>1, <1>6, LooksFit
<1> HIDE DEF met
<1>8. Underway(b, guarded)
  BY <1>1, <1>7, LooksFit
<1> HIDE DEF guarded
<1>9. Underway(b, along)
  BY <1>1, <1>8, StepsFit
<1>10. along \in LegType
  BY <1>9 DEF Underway
<1> HIDE DEF along
<1>11. Underway(b, driven)
  BY <1>1, <1>9, LooksFit
<1>12. ~driven.over => ~(driven.near /\ driven.slow)
  <2>1. \/ along.over /\ driven = along
        \/ driven = along /\ ~(along.near /\ along.slow)
        \/ driven = AtGoal(along)
    BY DEF ArrivedAfter, Rule
  <2>2. AtGoal(along).over
    BY <1>10 DEF AtGoal, LegType
  <2> HIDE DEF driven
  <2> QED
    BY <2>1, <2>2
<1> HIDE DEF driven
<1> QED
  BY <1>1, <1>3, <1>11, <1>12, StepEnds

LEMMA LegInvariant == NavigationSpec => []LegFits(leg)
<1>1. NavigationInit => LegFits(leg)
  <2> SUFFICES ASSUME NEW mode \in LegModes, NEW near \in BOOLEAN, NEW slow \in BOOLEAN,
                      NEW found \in BOOLEAN, NEW active \in BOOLEAN,
                      NEW activation \in ActivationSteps
               PROVE  LegFits(NewLeg(mode, near, slow, found, activation, active))
    BY DEF NavigationInit
  <2> DEFINE l == NewLeg(mode, near, slow, found, activation, active)
  <2>1. /\ l \in LegType /\ l.started = mode /\ l.mode = mode /\ l.step = 0
        /\ (l.over => ~l.pathFound) /\ (~l.over => l.pathFound) /\ ~l.threw /\ l.replans = 0
        /\ ~l.onlineReplan /\ ~l.reached /\ ~l.hold /\ l.controlSteps = 0
    <3>1. (~found) \in BOOLEAN
      OBVIOUS
    <3>2. l \in LegType /\ l.over = ~found /\ l.pathFound = found
      BY <3>1, LegAssumption DEF NewLeg, LegType
    <3>3. /\ l.started = mode /\ l.mode = mode /\ l.step = 0 /\ ~l.threw /\ l.replans = 0
          /\ ~l.onlineReplan /\ ~l.reached /\ ~l.hold /\ l.controlSteps = 0
      BY DEF NewLeg
    <3>4. (l.over => ~l.pathFound) /\ (~l.over => l.pathFound)
      <4> HIDE DEF l
      <4> QED
        BY <3>2, Zenon
    <3> QED
      BY <3>2, <3>3, <3>4
  <2> HIDE DEF l
  <2>2. LegFits(l)
    BY <2>1, LegAssumption DEF LegFits, OnlineSound, EndAgrees, Ready
  <2> QED
    BY <2>2 DEF l
<1>2. LegFits(leg) /\ [NavigationNext]_leg => LegFits(leg)'
  BY StepFits DEF NavigationNext, ControlStep
<1> QED
  BY <1>1, <1>2, PTL DEF NavigationSpec

\* The leg keeps its type, whatever the caller left the rover in.
THEOREM LegTyped == NavigationSpec => []NavigationTypeOK
<1>1. LegFits(leg) => NavigationTypeOK
  BY DEF LegFits, NavigationTypeOK
<1> QED
  BY LegInvariant, <1>1, PTL

\* What the leg reports at its end is what became of the rover, for every limit of
\* steps and every sequence of sights.
THEOREM LegEndsAsItTells == NavigationSpec => []LegTells
<1>1. LegFits(leg) => LegTells
  BY DEF LegFits, LegTells, OnlineSound, Ready
<1> QED
  BY LegInvariant, <1>1, PTL

\* What the surface mission assumes of a drive (LegEnds of SurfaceMission) is
\* what the closed loop does: the end of every leg that began ready or driving is
\* one of those from which its drives choose.
THEOREM LegEndsAsSurveyTakesIt ==
    NavigationSpec =>
        [](leg.over /\ leg.started \in {"SurfaceReady", "Driving"} =>
              [mode |-> leg.mode, reached |-> leg.reached, hold |-> leg.hold] \in LegEnds)
<1>1. NavigationTypeOK /\ LegTells =>
         (leg.over /\ leg.started \in {"SurfaceReady", "Driving"} =>
             [mode |-> leg.mode, reached |-> leg.reached, hold |-> leg.hold] \in LegEnds)
  BY DEF NavigationTypeOK, LegTells, LegType, LegEnds, EndAgrees
<1>2. QED
  BY <1>1, LegTyped, LegEndsAsItTells, PTL

-----------------------------------------------------------------------------
(* The files *)

Archives == [Places -> [ProductIds -> Product \union {Absent}]]
Report == [toVikram : BOOLEAN, toGround : BOOLEAN, duplicate : BOOLEAN]

LEMMA WritesOneFile ==
    ASSUME NEW a \in Archives, NEW place \in Places, NEW id \in ProductIds,
           NEW file \in Product \union {Absent}
    PROVE  /\ With(a, place, id, file) \in Archives
           /\ With(a, place, id, file)[place][id] = file
           /\ \A p \in Places, i \in ProductIds :
                 <<p, i>> # <<place, id>> => With(a, place, id, file)[p][i] = a[p][i]
BY DEF With, Archives

\* Whatever becomes of a save, the file is the one to be saved, none, or the
\* one that was there; no other file is touched.
LEMMA SaveWritesOneFile ==
    ASSUME NEW a \in Archives, NEW place \in Places, NEW id \in ProductIds,
           NEW file \in Product \union {Absent}, NEW s \in Saved(a, place, id, file)
    PROVE  /\ s.files \in Archives
           /\ \A p \in Places, i \in ProductIds :
                 <<p, i>> # <<place, id>> => s.files[p][i] = a[p][i]
           /\ s.files[place][id] \in {file, Absent, a[place][id]}
           /\ s.said = "saved" => s.files[place][id] = file
           /\ s.said \in {"saved", "failed", "ended"}
<1>1. Absent \in Product \union {Absent}
  OBVIOUS
<1>2. /\ s.files \in {a, With(a, place, id, Absent), With(a, place, id, file)}
      /\ s.said = "saved" => s.files = With(a, place, id, file)
      /\ s.said \in {"saved", "failed", "ended"}
  BY DEF Saved
<1> QED
  BY <1>1, <1>2, WritesOneFile

\* What the ground has comes from Vikram, what was analysed from the ground.
FilesAgree(a, id) ==
    /\ Has(a, "ground", id) => a["vikram"][id] = a["ground"][id]
    /\ Has(a, "analysis", id) => a["analysis"][id] = a["ground"][id] /\ a["ground"][id].usable

\* The report of a transmit says no more than the archives have.
ReportRight(a, id, report) ==
    /\ report.toVikram \/ report.duplicate => Has(a, "vikram", id)
    /\ report.toGround => Has(a, "ground", id)

Untouched(a, b, id) ==
    \A p \in Places, i \in ProductIds : i # id => b[p][i] = a[p][i]

LEMMA ReportsTyped ==
    /\ NothingSent \in Report
    /\ \A r \in Report : Refused(r) \in Report /\ Refused(r).duplicate
                         /\ Refused(r).toVikram = r.toVikram /\ Refused(r).toGround = r.toGround
BY DEF NothingSent, Report, Refused

LEMMA ResultFields ==
    ASSUME NEW f, NEW said, NEW report
    PROVE  /\ Result(f, said, report).files = f /\ Result(f, said, report).said = said
           /\ Result(f, said, report).report = report
BY DEF Result

\* The second hop, from a state in which Vikram has the product.
LEMMA HopToGround ==
    ASSUME NEW a \in Archives, NEW id \in ProductIds, Has(a, "vikram", id),
           NEW r \in ToGround(a, id)
    PROVE  /\ r.files \in Archives /\ Untouched(a, r.files, id)
           /\ r.files["vikram"][id] = a["vikram"][id] /\ r.files["rover"][id] = a["rover"][id]
           /\ FilesAgree(a, id) => FilesAgree(r.files, id)
           /\ r.report \in Report /\ ReportRight(r.files, id, r.report)
           /\ r.report.toGround => r.files["ground"][id] = a["vikram"][id]
           /\ r.said \in {"returned", "ended"}
<1> DEFINE up == [NothingSent EXCEPT !.toVikram = TRUE]
<1>1. up \in Report /\ ~up.toGround
  BY DEF NothingSent, Report
<1>2. CASE Has(a, "ground", id)
  <2>1. r = Result(a, "returned", Refused(up))
    BY <1>2 DEF ToGround
  <2>2. r.files = a /\ r.said = "returned" /\ r.report = Refused(up)
    BY <2>1, ResultFields
  <2>3. r.report \in Report /\ ~r.report.toGround
    BY <1>1, <2>2, ReportsTyped
  <2> QED
    BY <2>2, <2>3 DEF Untouched, ReportRight
<1>3. CASE ~Has(a, "ground", id)
  <2>1. PICK s \in Saved(a, "ground", id, a["vikram"][id]) :
          r = Result(s.files, IF s.said = "ended" THEN "ended" ELSE "returned",
                     [up EXCEPT !.toGround = (s.said = "saved")])
    BY <1>3 DEF ToGround
  <2>2. /\ r.files = s.files /\ r.said \in {"returned", "ended"}
        /\ r.report = [up EXCEPT !.toGround = (s.said = "saved")]
    BY <2>1, ResultFields
  <2>3. "ground" \in Places /\ a["vikram"][id] \in Product \union {Absent}
    BY DEF Places, Archives
  <2>4. /\ s.files \in Archives
        /\ \A p \in Places, i \in ProductIds :
              <<p, i>> # <<"ground", id>> => s.files[p][i] = a[p][i]
        /\ s.files["ground"][id] \in {a["vikram"][id], Absent, a["ground"][id]}
        /\ s.said = "saved" => s.files["ground"][id] = a["vikram"][id]
    BY <2>3, SaveWritesOneFile
  <2>5. /\ s.files["vikram"][id] = a["vikram"][id] /\ s.files["rover"][id] = a["rover"][id]
        /\ s.files["analysis"][id] = a["analysis"][id] /\ Untouched(a, s.files, id)
    BY <2>4 DEF Places, Untouched
  <2>6. FilesAgree(a, id) => a["analysis"][id] = Absent /\ a["ground"][id] = Absent
    BY <1>3 DEF FilesAgree, Has
  <2>7. FilesAgree(a, id) => FilesAgree(s.files, id)
    BY <2>4, <2>5, <2>6 DEF FilesAgree, Has
  <2>8. r.report \in Report /\ (r.report.toGround => s.said = "saved")
    BY <1>1, <2>2 DEF Report
  <2>9. ReportRight(s.files, id, r.report)
    BY <2>4, <2>5, <2>8 DEF ReportRight, Has
  <2> QED
    BY <2>2, <2>4, <2>5, <2>7, <2>8, <2>9
<1> QED
  BY <1>2, <1>3

\* transmit(), whichever save of the two fails or ends the process.
LEMMA TransmitRight ==
    ASSUME NEW a \in Archives, NEW id \in ProductIds, NEW r \in Transmitted(a, id)
    PROVE  /\ r.files \in Archives /\ Untouched(a, r.files, id)
           /\ FilesAgree(a, id) => FilesAgree(r.files, id)
           /\ r.report \in Report /\ ReportRight(r.files, id, r.report)
           /\ r.said \in {"returned", "ended"}
           /\ r.report.toVikram /\ r.report.toGround =>
                 \A p \in {"rover", "vikram", "ground"} : r.files[p][id] = a["rover"][id]
<1>1. CASE ~Has(a, "rover", id)
  <2>1. r = Result(a, "returned", NothingSent)
    BY <1>1 DEF Transmitted
  <2>2. r.files = a /\ r.report = NothingSent /\ r.said = "returned"
    BY <2>1, ResultFields
  <2> QED
    BY <2>2, ReportsTyped DEF Untouched, ReportRight, NothingSent
<1>2. CASE Has(a, "rover", id) /\ Has(a, "vikram", id)
  <2>1. r = Result(a, "returned", Refused(NothingSent))
    BY <1>2 DEF Transmitted
  <2>2. r.files = a /\ r.report = Refused(NothingSent) /\ r.said = "returned"
    BY <2>1, ResultFields
  <2> QED
    BY <1>2, <2>2, ReportsTyped DEF Untouched, ReportRight, NothingSent
<1>3. CASE Has(a, "rover", id) /\ ~Has(a, "vikram", id)
  <2>1. PICK s \in Saved(a, "vikram", id, a["rover"][id]) :
          r \in (IF s.said = "saved" THEN ToGround(s.files, id)
                 ELSE {Result(s.files, IF s.said = "ended" THEN "ended" ELSE "returned",
                              NothingSent)})
    BY <1>3 DEF Transmitted
  <2>2. "vikram" \in Places /\ a["rover"][id] \in Product \union {Absent}
    BY DEF Places, Archives
  <2>3. /\ s.files \in Archives
        /\ \A p \in Places, i \in ProductIds :
              <<p, i>> # <<"vikram", id>> => s.files[p][i] = a[p][i]
        /\ s.said = "saved" => s.files["vikram"][id] = a["rover"][id]
        /\ s.said \in {"saved", "failed", "ended"}
    BY <2>2, SaveWritesOneFile
  <2>4. /\ s.files["ground"][id] = a["ground"][id] /\ s.files["analysis"][id] = a["analysis"][id]
        /\ s.files["rover"][id] = a["rover"][id]
        /\ Untouched(a, s.files, id)
    BY <2>3 DEF Places, Untouched
  <2>5. FilesAgree(a, id) => a["ground"][id] = Absent /\ a["analysis"][id] = Absent
    BY <1>3 DEF FilesAgree, Has
  <2>6. FilesAgree(a, id) => FilesAgree(s.files, id)
    BY <2>4, <2>5 DEF FilesAgree, Has
  <2>7. CASE s.said = "saved"
    <3>1. Has(s.files, "vikram", id) /\ r \in ToGround(s.files, id)
      BY <1>3, <2>1, <2>3, <2>7 DEF Has
    <3>2. /\ r.files \in Archives /\ Untouched(s.files, r.files, id)
          /\ FilesAgree(s.files, id) => FilesAgree(r.files, id)
          /\ r.report \in Report /\ ReportRight(r.files, id, r.report)
          /\ r.said \in {"returned", "ended"}
          /\ r.files["vikram"][id] = s.files["vikram"][id]
          /\ r.files["rover"][id] = s.files["rover"][id]
          /\ r.report.toGround => r.files["ground"][id] = s.files["vikram"][id]
      BY <2>3, <3>1, HopToGround
    <3> QED
      BY <2>3, <2>4, <2>6, <2>7, <3>2 DEF Untouched
  <2>8. CASE s.said # "saved"
    <3>1. r.files = s.files /\ r.report = NothingSent /\ r.said \in {"returned", "ended"}
      BY <2>1, <2>3, <2>8, ResultFields
    <3> QED
      BY <2>3, <2>4, <2>6, <3>1, ReportsTyped DEF ReportRight, NothingSent
  <2> QED
    BY <2>7, <2>8
<1> QED
  BY <1>1, <1>2, <1>3
-----------------------------------------------------------------------------
(* The relay *)

RelayInv ==
    /\ archives \in Archives /\ edition \in 0 .. MaxAcquired /\ relayed \in [ProductIds -> Report]
    /\ \A id \in ProductIds : FilesAgree(archives, id) /\ ReportRight(archives, id, relayed[id])

LEMMA RelayFresh == RelayInit => RelayInv
<1> SUFFICES ASSUME RelayInit PROVE RelayInv
  OBVIOUS
<1>1. archives \in Archives /\ edition \in 0 .. MaxAcquired
  BY RelayAssumption, FilesAssumption DEF RelayInit, NoFiles, Archives
<1>2. relayed \in [ProductIds -> Report]
  BY ReportsTyped DEF RelayInit
<1>3. ASSUME NEW id \in ProductIds
      PROVE  FilesAgree(archives, id) /\ ReportRight(archives, id, relayed[id])
  BY DEF RelayInit, NoFiles, FilesAgree, ReportRight, Has, Places, NothingSent
<1> QED
  BY <1>1, <1>2, <1>3 DEF RelayInv

LEMMA AcquireKeeps ==
    ASSUME RelayInv, NEW id \in ProductIds, NEW usable \in BOOLEAN, Acquire(id, usable)
    PROVE  RelayInv'
<1>1. /\ edition \in Nat /\ edition + 1 \in 1 .. MaxAcquired /\ edition' = edition + 1
      /\ edition + 1 \in 1 .. MaxEditions /\ relayed' = relayed
  BY RelayAssumption, FilesAssumption DEF Acquire, RelayInv
<1>2. PICK s \in Saved(archives, "rover", id, Built(edition, usable)) : archives' = s.files
  BY DEF Acquire
<1>3. "rover" \in Places /\ Built(edition, usable) \in Product \union {Absent}
  BY <1>1 DEF Places, Built, Product
<1>4. /\ archives' \in Archives
      /\ \A p \in Places, i \in ProductIds :
            <<p, i>> # <<"rover", id>> => archives'[p][i] = archives[p][i]
  BY <1>2, <1>3, SaveWritesOneFile DEF RelayInv
<1>5. \A i \in ProductIds : /\ archives'["vikram"][i] = archives["vikram"][i]
                            /\ archives'["ground"][i] = archives["ground"][i]
                            /\ archives'["analysis"][i] = archives["analysis"][i]
  BY <1>4 DEF Places
<1>6. \A i \in ProductIds : FilesAgree(archives', i) /\ ReportRight(archives', i, relayed'[i])
  BY <1>1, <1>5 DEF RelayInv, FilesAgree, ReportRight, Has
<1> QED
  BY <1>1, <1>4, <1>6 DEF RelayInv

LEMMA TransmitKeeps ==
    ASSUME RelayInv, NEW id \in ProductIds, Transmit(id)
    PROVE  RelayInv'
<1>1. PICK r \in Transmitted(archives, id) :
        /\ archives' = r.files
        /\ relayed' = [relayed EXCEPT ![id] =
                          IF r.said = "returned" THEN r.report ELSE NothingSent]
  BY DEF Transmit
<1>2. archives \in Archives /\ FilesAgree(archives, id)
  BY DEF RelayInv
<1>3. /\ archives' \in Archives /\ Untouched(archives, archives', id)
      /\ FilesAgree(archives', id)
      /\ r.report \in Report /\ ReportRight(archives', id, r.report)
  BY <1>1, <1>2, TransmitRight
<1> DEFINE report == IF r.said = "returned" THEN r.report ELSE NothingSent
<1>4. report \in Report /\ ReportRight(archives', id, report)
  BY <1>3, ReportsTyped DEF ReportRight, NothingSent
<1> HIDE DEF report
<1>5. /\ relayed' \in [ProductIds -> Report] /\ relayed'[id] = report
      /\ \A i \in ProductIds : i # id => relayed'[i] = relayed[i]
  BY <1>1, <1>4 DEF RelayInv, report
<1>6. ASSUME NEW i \in ProductIds
      PROVE  FilesAgree(archives', i) /\ ReportRight(archives', i, relayed'[i])
  <2>1. CASE i = id
    BY <1>3, <1>4, <1>5, <2>1
  <2>2. CASE i # id
    <3>1. \A p \in Places : archives'[p][i] = archives[p][i]
      BY <1>3, <2>2 DEF Untouched
    <3> QED
      BY <1>5, <2>2, <3>1 DEF RelayInv, FilesAgree, ReportRight, Has, Places
  <2> QED
    BY <2>1, <2>2
<1>7. edition' = edition
  BY DEF Transmit
<1> QED
  BY <1>3, <1>5, <1>6, <1>7 DEF RelayInv

LEMMA AnalyseKeeps ==
    ASSUME RelayInv, NEW id \in ProductIds, Analyse(id)
    PROVE  RelayInv'
<1>1. PICK s \in Analysed(archives, id) : archives' = s.files /\ UNCHANGED <<edition, relayed>>
  BY DEF Analyse
<1>2. CASE ~archives["ground"][id].usable
  <2>1. archives' = archives
    BY <1>1, <1>2 DEF Analysed
  <2> QED
    BY <1>1, <2>1 DEF RelayInv
<1>3. CASE archives["ground"][id].usable
  <2>1. s \in Saved(archives, "analysis", id, archives["ground"][id])
    BY <1>1, <1>3 DEF Analysed
  <2>2. "analysis" \in Places /\ archives["ground"][id] \in Product \union {Absent}
    BY DEF Places, RelayInv, Archives
  <2>3. /\ archives' \in Archives
        /\ \A p \in Places, i \in ProductIds :
              <<p, i>> # <<"analysis", id>> => archives'[p][i] = archives[p][i]
        /\ archives'["analysis"][id] \in {archives["ground"][id], Absent,
                                          archives["analysis"][id]}
    BY <1>1, <2>1, <2>2, SaveWritesOneFile DEF RelayInv
  <2>4. ASSUME NEW i \in ProductIds
        PROVE  FilesAgree(archives', i) /\ ReportRight(archives', i, relayed'[i])
    <3>1. /\ archives'["vikram"][i] = archives["vikram"][i]
          /\ archives'["ground"][i] = archives["ground"][i]
          /\ i # id => archives'["analysis"][i] = archives["analysis"][i]
      BY <2>3 DEF Places
    <3> QED
      BY <1>1, <1>3, <2>3, <3>1 DEF RelayInv, FilesAgree, ReportRight, Has
  <2> QED
    BY <1>1, <2>3, <2>4 DEF RelayInv
<1> QED
  BY <1>2, <1>3

LEMMA RelayInvariant == RelaySpec => []RelayInv
<1>1. RelayInv /\ [RelayNext]_relayVars => RelayInv'
  <2>1. RelayInv /\ UNCHANGED relayVars => RelayInv'
    BY DEF RelayInv, relayVars
  <2> QED
    BY <2>1, AcquireKeeps, TransmitKeeps, AnalyseKeeps DEF RelayNext
<1> QED
  BY RelayFresh, <1>1, PTL DEF RelaySpec

\* The archives hold products or nothing.
THEOREM RelayTyped == RelaySpec => []RelayTypeOK
<1>1. RelayInv => RelayTypeOK
  BY DEF RelayInv, RelayTypeOK, Archives, Report
<1> QED
  BY RelayInvariant, <1>1, PTL

\* Whatever is acquired, transmitted and analysed when, and wherever a save stops
\* half-way: the ground has what Vikram has, the analysis what the ground has.
THEOREM GroundHasWhatVikramHas == RelaySpec => []ScienceReachesGround
<1>1. RelayInv => ScienceReachesGround
  BY DEF RelayInv, ScienceReachesGround, FilesAgree, ReportRight
<1> QED
  BY RelayInvariant, <1>1, PTL
-----------------------------------------------------------------------------
(* The autonomous surface mission *)

\* A counted target has its product everywhere and was seen to.
Counted(c) ==
    /\ \A place \in Places : holdings[place][c[1]] = [edition |-> c[2], usable |-> TRUE]
    /\ knowledge[c[1][1]] > 0 /\ c[1][1] \notin survey.remaining

SurfaceInv ==
    /\ holdings \in Archives /\ knowledge \in [Sites -> Nat] /\ built \in 0 .. MaxEditions
    /\ survey \in SurveyType
    /\ IsFiniteSet(survey.completed) /\ survey.targets = Cardinality(survey.completed)
    /\ \A c \in survey.completed : Counted(c)
    /\ survey.completed # {} => survey.energy >= ReserveEnergy
    /\ survey.missionCompleted <=> survey.mode = "MissionComplete" /\ survey.remaining = {}
    /\ survey.phase = "surveying" => survey.mode = "SurfaceReady" /\ ~survey.missionCompleted

\* What the archives and the analysis make of a product, whatever an earlier
\* mission left under its ID.
LEMMA DeliveryRight ==
    ASSUME NEW id \in ProductIds, NEW product \in Product, holdings \in Archives,
           NEW d \in Delivered(id, product)
    PROVE  /\ d.files \in Archives /\ Untouched(holdings, d.files, id)
           /\ d.said \in {"saved", "failed", "ended"}
           /\ d.said = "saved" => /\ \A p \in Places : d.files[p][id] = product
                                  /\ product.usable
<1>1. PICK s \in Saved(holdings, "rover", id, product) :
        d \in (IF s.said # "saved" THEN {Result(s.files, s.said, NothingSent)}
               ELSE UNION {IF r.said = "ended" THEN {r}
                           ELSE IF ~Arrives(r.report) THEN {Result(r.files, "failed", r.report)}
                           ELSE AnalysisOf(r.files, id, r.report) :
                              r \in Transmitted(s.files, id)})
  BY DEF Delivered
<1>2. "rover" \in Places /\ product \in Product \union {Absent}
  BY DEF Places
<1>3. /\ s.files \in Archives /\ Untouched(holdings, s.files, id)
      /\ s.said = "saved" => s.files["rover"][id] = product
      /\ s.said \in {"saved", "failed", "ended"}
  BY <1>2, SaveWritesOneFile DEF Untouched
<1>4. CASE s.said # "saved"
  <2>1. d.files = s.files /\ d.said = s.said
    BY <1>1, <1>4, ResultFields
  <2> QED
    BY <1>3, <1>4, <2>1
<1>5. CASE s.said = "saved"
  <2>1. PICK r \in Transmitted(s.files, id) :
          d \in (IF r.said = "ended" THEN {r}
                 ELSE IF ~Arrives(r.report) THEN {Result(r.files, "failed", r.report)}
                 ELSE AnalysisOf(r.files, id, r.report))
    BY <1>1, <1>5
  <2>2. /\ r.files \in Archives /\ Untouched(s.files, r.files, id)
        /\ r.said \in {"returned", "ended"}
        /\ Arrives(r.report) =>
              \A p \in {"rover", "vikram", "ground"} : r.files[p][id] = product
    BY <1>3, <1>5, TransmitRight DEF Arrives
  <2>3. Untouched(holdings, r.files, id)
    BY <1>3, <2>2 DEF Untouched
  <2>4. CASE r.said = "ended"
    <3>1. d = r
      BY <2>1, <2>4
    <3> QED
      BY <2>2, <2>3, <2>4, <3>1
  <2>5. CASE r.said # "ended" /\ ~Arrives(r.report)
    <3>1. d.files = r.files /\ d.said = "failed"
      BY <2>1, <2>5, ResultFields
    <3> QED
      BY <2>2, <2>3, <3>1
  <2>6. CASE r.said # "ended" /\ Arrives(r.report)
    <3>1. PICK t \in Analysed(r.files, id) :
                d = [files |-> t.files, said |-> t.said, report |-> r.report]
      BY <2>1, <2>6 DEF AnalysisOf
    <3>2. d.files = t.files /\ d.said = t.said
      BY <3>1
    <3>3. r.files["ground"][id] = product
      BY <2>2, <2>6
    <3>4. CASE ~product.usable
      <4>1. d.files = r.files /\ d.said = "failed"
        BY <3>1, <3>2, <3>3, <3>4 DEF Analysed
      <4> QED
        BY <2>2, <2>3, <4>1
    <3>5. CASE product.usable
      <4>1. t \in Saved(r.files, "analysis", id, product)
        BY <3>1, <3>3, <3>5 DEF Analysed
      <4>2. "analysis" \in Places
        BY DEF Places
      <4>3. /\ t.files \in Archives
            /\ \A p \in Places, i \in ProductIds :
                  <<p, i>> # <<"analysis", id>> => t.files[p][i] = r.files[p][i]
            /\ t.said = "saved" => t.files["analysis"][id] = product
            /\ t.said \in {"saved", "failed", "ended"}
        BY <1>2, <2>2, <4>1, <4>2, SaveWritesOneFile
      <4>4. Untouched(holdings, t.files, id)
        BY <2>3, <4>3 DEF Untouched
      <4>5. \A p \in {"rover", "vikram", "ground"} : t.files[p][id] = product
        BY <2>2, <2>6, <4>3 DEF Places
      <4> QED
        BY <3>2, <3>5, <4>3, <4>4, <4>5 DEF Places
    <3> QED
      BY <3>4, <3>5
  <2> QED
    BY <2>4, <2>5, <2>6
<1> QED
  BY <1>4, <1>5

\* A rover let down, or taken for a fault, counts nothing.
LEMMA NewSurveyFits ==
    ASSUME NEW mode \in RoverModeAtRest, NEW energy \in Nat
    PROVE  /\ NewSurvey(mode, energy) \in SurveyType
           /\ NewSurvey(mode, energy).completed = {} /\ NewSurvey(mode, energy).targets = 0
           /\ NewSurvey(mode, energy).mode = mode /\ NewSurvey(mode, energy).phase = "idle"
           /\ NewSurvey(mode, energy).energy = energy
           /\ ~NewSurvey(mode, energy).missionCompleted
BY DEF NewSurvey, SurveyType, SurveyPhases

\* The end of the loop, which leaves count and battery alone.
LEMMA ClosingFits ==
    ASSUME NEW s \in SurveyType
    PROVE  /\ Closing(s) \in SurveyType /\ Closing(s).phase = "over"
           /\ Closing(s).completed = s.completed /\ Closing(s).targets = s.targets
           /\ Closing(s).energy = s.energy /\ Closing(s).remaining = s.remaining
           /\ Closing(s).missionCompleted <=> s.remaining = {} /\ s.targets > 0
           /\ Closing(s).mode = IF s.remaining = {} /\ s.targets > 0 THEN "MissionComplete"
                                ELSE s.mode
BY DEF Closing, SurveyType, SurveyPhases, RoverModeAtRest, LegModes

\* A step that begins the count anew.
LEMMA FreshCounts ==
    ASSUME NEW mode \in RoverModeAtRest, mode # "MissionComplete", NEW energy \in Nat,
           survey' = NewSurvey(mode, energy),
           holdings' \in Archives, knowledge' \in [Sites -> Nat], built' \in 0 .. MaxEditions
    PROVE  SurfaceInv'
<1>1. /\ survey' \in SurveyType /\ survey'.completed = {} /\ survey'.targets = 0
      /\ survey'.mode = mode /\ survey'.phase = "idle" /\ ~survey'.missionCompleted
  BY NewSurveyFits
<1>2. IsFiniteSet(survey'.completed) /\ survey'.targets = Cardinality(survey'.completed)
  BY <1>1, FS_EmptySet
<1> QED
  BY <1>1, <1>2 DEF SurfaceInv

\* A step that closes the loop with the count it has.
LEMMA StopKeeps ==
    ASSUME SurfaceInv, survey.phase = "surveying", NEW s \in SurveyType,
           s.completed = survey.completed, s.targets = survey.targets,
           s.energy = survey.energy, s.remaining = survey.remaining,
           s.mode # "MissionComplete",
           survey' = Closing(s), UNCHANGED <<holdings, built, knowledge>>
    PROVE  SurfaceInv'
<1>1. /\ survey' \in SurveyType /\ survey'.phase = "over"
      /\ survey'.completed = survey.completed /\ survey'.targets = survey.targets
      /\ survey'.energy = survey.energy /\ survey'.remaining = survey.remaining
      /\ survey'.missionCompleted <=> s.remaining = {} /\ s.targets > 0
      /\ survey'.mode = IF s.remaining = {} /\ s.targets > 0 THEN "MissionComplete" ELSE s.mode
  BY ClosingFits
<1>2. \A c \in survey'.completed : Counted(c)'
  BY <1>1 DEF SurfaceInv, Counted
<1>3. survey'.missionCompleted <=> survey'.mode = "MissionComplete" /\ survey'.remaining = {}
  BY <1>1
<1> QED
  BY <1>1, <1>2, <1>3 DEF SurfaceInv
LEMMA SurfaceFresh == SurfaceInit => SurfaceInv
<1> SUFFICES ASSUME SurfaceInit PROVE SurfaceInv
  OBVIOUS
<1>1. holdings \in Archives /\ built \in 0 .. MaxEditions /\ knowledge \in [Sites -> Nat]
  BY FilesAssumption DEF SurfaceInit, NoFiles, Archives
<1>2. "Stowed" \in RoverModeAtRest /\ FullBattery \in Nat
  BY SurfaceAssumption DEF RoverModeAtRest
<1>3. /\ survey \in SurveyType /\ survey.completed = {} /\ survey.targets = 0
      /\ survey.mode = "Stowed" /\ survey.phase = "idle" /\ ~survey.missionCompleted
  BY <1>2, NewSurveyFits DEF SurfaceInit
<1>4. IsFiniteSet(survey.completed) /\ survey.targets = Cardinality(survey.completed)
  BY <1>3, FS_EmptySet
<1> QED
  BY <1>1, <1>3, <1>4 DEF SurfaceInv

LEMMA ExecuteKeeps ==
    ASSUME SurfaceInv, NEW targets \in SUBSET Sites, NEW most \in TargetLimits,
           Execute(targets, most)
    PROVE  SurfaceInv'
<1>1. survey \in SurveyType /\ survey.energy \in Nat
  BY DEF SurfaceInv, SurveyType
<1>2. CASE survey.mode = "Stowed"
  <2> DEFINE fresh == NewSurvey("SurfaceReady", survey.energy)
             limit == IF most = 0 \/ most > Cardinality(targets)
                      THEN Cardinality(targets) ELSE most
  <2>1. Cardinality(targets) \in Nat /\ most \in Nat
    BY SurfaceAssumption, FS_Subset, FS_CardinalityType
  <2>2. limit \in Nat
    BY <2>1
  <2>3. "SurfaceReady" \in RoverModeAtRest
    BY DEF RoverModeAtRest, LegModes
  <2>4. /\ fresh \in SurveyType /\ fresh.completed = {} /\ fresh.targets = 0
        /\ fresh.mode = "SurfaceReady" /\ ~fresh.missionCompleted
    BY <1>1, <2>3, NewSurveyFits
  <2>5. survey' = [fresh EXCEPT !.phase = "surveying", !.deployed = TRUE, !.remaining = targets,
                                !.limit = limit]
    BY <1>2 DEF Execute
  <2> HIDE DEF fresh, limit
  <2>6. /\ survey' \in SurveyType /\ survey'.completed = {} /\ survey'.targets = 0
        /\ survey'.mode = "SurfaceReady" /\ ~survey'.missionCompleted
    BY <2>2, <2>4, <2>5 DEF SurveyType, SurveyPhases
  <2>7. IsFiniteSet(survey'.completed) /\ survey'.targets = Cardinality(survey'.completed)
    BY <2>6, FS_EmptySet
  <2>8. PICK kept \in SUBSET Files : holdings' = OnlyFiles(kept)
    BY <1>2 DEF Execute
  <2>9. holdings' \in Archives
    BY <2>8 DEF OnlyFiles, SurfaceInv, Archives
  <2>10. built' = built /\ knowledge' = knowledge
    BY DEF Execute
  <2> QED
    BY <2>6, <2>7, <2>9, <2>10 DEF SurfaceInv
<1>3. CASE survey.mode # "Stowed"
  <2> DEFINE fresh == NewSurvey("Fault", survey.energy)
  <2>1. "Fault" \in RoverModeAtRest
    BY DEF RoverModeAtRest, LegModes
  <2>2. /\ fresh \in SurveyType /\ fresh.completed = {} /\ fresh.targets = 0
        /\ fresh.mode = "Fault" /\ ~fresh.missionCompleted
    BY <1>1, <2>1, NewSurveyFits
  <2>3. survey' = [fresh EXCEPT !.phase = "over"] /\ UNCHANGED <<holdings, built, knowledge>>
    BY <1>3 DEF Execute
  <2> HIDE DEF fresh
  <2>4. /\ survey' \in SurveyType /\ survey'.completed = {} /\ survey'.targets = 0
        /\ survey'.mode = "Fault" /\ ~survey'.missionCompleted /\ survey'.phase = "over"
    BY <2>2, <2>3 DEF SurveyType, SurveyPhases
  <2>5. IsFiniteSet(survey'.completed) /\ survey'.targets = Cardinality(survey'.completed)
    BY <2>4, FS_EmptySet
  <2> QED
    BY <2>3, <2>4, <2>5 DEF SurfaceInv
<1> QED
  BY <1>2, <1>3

\* What is left of an iteration that reached no target: the loop ends.
LEMMA LoopEnds ==
    ASSUME SurfaceInv
    PROVE  /\ FinishSurvey => SurfaceInv'
           /\ NothingFeasible => SurfaceInv'
           /\ \A cost \in RouteEnergies : TooExpensive(cost) => SurfaceInv'
<1>1. survey \in SurveyType
  BY DEF SurfaceInv
<1>2. ASSUME FinishSurvey PROVE SurfaceInv'
  <2>1. survey.phase = "surveying" /\ survey.mode # "MissionComplete"
    BY <1>2 DEF FinishSurvey, SurfaceInv
  <2> QED
    BY <1>1, <1>2, <2>1, StopKeeps DEF FinishSurvey
<1>3. ASSUME NEW reason \in {"energy", "navigation"}, GoesOn, StopFor(reason),
             UNCHANGED <<holdings, built, knowledge>>
      PROVE  SurfaceInv'
  <2> DEFINE s == [survey EXCEPT !.stoppedBy = reason]
  <2>1. survey.phase = "surveying" /\ survey.mode # "MissionComplete"
    BY <1>3 DEF GoesOn, SurfaceInv
  <2>2. /\ s \in SurveyType /\ s.completed = survey.completed /\ s.targets = survey.targets
        /\ s.energy = survey.energy /\ s.remaining = survey.remaining /\ s.mode = survey.mode
    BY <1>1 DEF SurveyType
  <2>3. survey' = Closing(s)
    BY <1>3 DEF StopFor
  <2> HIDE DEF s
  <2> QED
    BY <1>3, <2>1, <2>2, <2>3, StopKeeps
<1>4. ASSUME NothingFeasible PROVE SurfaceInv'
  BY <1>3, <1>4 DEF NothingFeasible
<1>5. ASSUME NEW cost \in RouteEnergies, TooExpensive(cost) PROVE SurfaceInv'
  BY <1>3, <1>5 DEF TooExpensive
<1> QED
  BY <1>2, <1>4, <1>5

LEMMA GetsStuckKeeps ==
    ASSUME SurfaceInv, NEW cost \in RouteEnergies, NEW end \in LegEnds, GetsStuck(cost, end)
    PROVE  SurfaceInv'
<1> DEFINE s == [survey EXCEPT !.mode = end.mode, !.stoppedBy = "navigation"]
<1>1. /\ survey.phase = "surveying" /\ survey' = Closing(s)
      /\ UNCHANGED <<holdings, built, knowledge>>
  BY DEF GetsStuck, GoesOn
<1>2. end.mode \in LegModes /\ end.mode # "MissionComplete"
  BY DEF GetsStuck, LegEnds, EndAgrees
<1>3. /\ s \in SurveyType /\ s.completed = survey.completed /\ s.targets = survey.targets
      /\ s.energy = survey.energy /\ s.remaining = survey.remaining /\ s.mode = end.mode
  BY <1>2 DEF SurfaceInv, SurveyType, RoverModeAtRest
<1> HIDE DEF s
<1> QED
  BY <1>1, <1>2, <1>3, StopKeeps

LEMMA ObserveKeeps ==
    ASSUME SurfaceInv, NEW site \in Sites, NEW cost \in RouteEnergies, Observe(site, cost)
    PROVE  SurfaceInv'
<1> DEFINE id == <<site, survey.cycle + 1>>
           product == Built(built, TRUE)
           ready == [survey EXCEPT !.mode = "SurfaceReady"]
<1>1. /\ survey.phase = "surveying" /\ site \in survey.remaining
      /\ cost + ScienceEnergy <= Spare /\ id \in ProductIds
      /\ built < MaxEditions /\ built' = built + 1
  BY DEF Observe, GoesOn, ProductIds
<1>2. built \in Nat /\ MaxEditions \in Nat /\ built' \in 1 .. MaxEditions
  BY <1>1, FilesAssumption DEF SurfaceInv
<1>3. product \in Product /\ product = [edition |-> built', usable |-> TRUE]
  BY <1>1, <1>2 DEF Built, Product
<1>4. survey \in SurveyType /\ survey.energy \in Nat /\ survey.cycle \in Nat
      /\ survey.targets \in Nat /\ survey.completed \subseteq ProductIds \X (1 .. MaxEditions)
  BY DEF SurfaceInv, SurveyType
<1>5. /\ ready \in SurveyType /\ ready.completed = survey.completed
      /\ ready.targets = survey.targets /\ ready.energy = survey.energy
      /\ ready.remaining = survey.remaining /\ ready.mode = "SurfaceReady"
      /\ ready.cycle = survey.cycle /\ ready.phase = survey.phase
      /\ ready.missionCompleted = survey.missionCompleted
  BY <1>4 DEF SurveyType, RoverModeAtRest, LegModes
<1>6. PICK d \in Delivered(id, product) :
        /\ holdings' = d.files
        /\ d.said = "ended" => NothingKnown
        /\ d.said = "failed" => survey' = Closing(ready) /\ UNCHANGED knowledge
        /\ d.said = "saved" =>
              /\ knowledge' = [knowledge EXCEPT ![site] = @ + 1]
              /\ survey' = [ready EXCEPT
                     !.energy = @ - (cost + ScienceEnergy),
                     !.remaining = @ \ {site}, !.cycle = @ + 1, !.targets = @ + 1,
                     !.completed = @ \union {<<id, built'>>}]
  BY Zenon DEF Observe
<1> HIDE DEF id, product, ready
<1>7. /\ holdings' \in Archives /\ Untouched(holdings, holdings', id)
      /\ d.said \in {"saved", "failed", "ended"}
      /\ d.said = "saved" => \A p \in Places : holdings'[p][id] = product
  <2>1. holdings \in Archives
    BY DEF SurfaceInv
  <2> QED
    BY <1>1, <1>3, <1>6, <2>1, DeliveryRight
\* What the count has keeps its product: it is another target's.
<1>8. \A c \in survey.completed :
        /\ \A place \in Places : holdings'[place][c[1]] = [edition |-> c[2], usable |-> TRUE]
        /\ knowledge[c[1][1]] > 0 /\ c[1][1] \notin survey.remaining
        /\ c[1] \in ProductIds /\ c[1] # id /\ c[1][1] # site
  <2> SUFFICES ASSUME NEW c \in survey.completed
               PROVE  /\ \A place \in Places :
                            holdings'[place][c[1]] = [edition |-> c[2], usable |-> TRUE]
                      /\ knowledge[c[1][1]] > 0 /\ c[1][1] \notin survey.remaining
                      /\ c[1] \in ProductIds /\ c[1] # id /\ c[1][1] # site
    OBVIOUS
  <2>1. Counted(c)
    BY DEF SurfaceInv
  <2>2. c[1] \in ProductIds /\ c[1][1] # site
    BY <1>1, <1>4, <2>1 DEF Counted
  <2>3. c[1] # id
    BY <2>2 DEF id
  <2> QED
    BY <1>7, <2>1, <2>2, <2>3 DEF Counted, Untouched
<1>9. CASE d.said = "ended"
  <2>1. "Stowed" \in RoverModeAtRest /\ FullBattery \in Nat
    BY SurfaceAssumption DEF RoverModeAtRest
  <2>2. survey' = NewSurvey("Stowed", FullBattery) /\ knowledge' \in [Sites -> Nat]
    BY <1>6, <1>9 DEF NothingKnown
  <2>3. built' \in 0 .. MaxEditions
    BY <1>2
  <2> QED
    BY <1>7, <2>1, <2>2, <2>3, FreshCounts
<1>10. CASE d.said = "failed"
  <2>1. survey' = Closing(ready) /\ knowledge' = knowledge
    BY <1>6, <1>10
  <2>2. /\ survey' \in SurveyType /\ survey'.phase = "over"
        /\ survey'.completed = survey.completed /\ survey'.targets = survey.targets
        /\ survey'.energy = survey.energy /\ survey'.remaining = survey.remaining
        /\ survey'.missionCompleted <=> ready.remaining = {} /\ ready.targets > 0
        /\ survey'.mode = IF ready.remaining = {} /\ ready.targets > 0 THEN "MissionComplete"
                          ELSE "SurfaceReady"
    BY <1>5, <2>1, ClosingFits
  <2>3. \A c \in survey'.completed : Counted(c)'
    BY <1>8, <2>1, <2>2 DEF Counted
  <2>4. survey'.missionCompleted <=> survey'.mode = "MissionComplete" /\ survey'.remaining = {}
    BY <1>1, <1>5, <2>2
  <2>5. built' \in 0 .. MaxEditions
    BY <1>2
  <2> QED
    BY <1>7, <2>1, <2>2, <2>3, <2>4, <2>5 DEF SurfaceInv
<1>11. CASE d.said = "saved"
  <2>1. ScienceEnergy \in Nat \ {0} /\ ReserveEnergy \in Nat /\ cost \in Nat
    BY SurfaceAssumption
  <2> DEFINE left == survey.energy - (cost + ScienceEnergy)
             counted == survey.completed \union {<<id, built'>>}
  <2>2. left \in Nat /\ left >= ReserveEnergy
    BY <1>1, <1>4, <2>1 DEF Spare
  <2>3. counted \subseteq ProductIds \X (1 .. MaxEditions)
    BY <1>1, <1>2, <1>4
  <2>4. survey' = [ready EXCEPT !.energy = left, !.remaining = survey.remaining \ {site},
                                !.cycle = survey.cycle + 1, !.targets = survey.targets + 1,
                                !.completed = counted]
    BY <1>5, <1>6, <1>11
  <2>5. IsFiniteSet(counted) /\ Cardinality(counted) = Cardinality(survey.completed) + 1
    <3>1. <<id, built'>> \notin survey.completed
      BY <1>8
    <3> QED
      BY <3>1, FS_AddElement DEF SurfaceInv
  <2>6. \A c \in survey.completed : c # <<id, built'>> => Counted(c)
    BY DEF SurfaceInv
  <2> HIDE DEF left
  <2>7. /\ survey' \in SurveyType /\ survey'.energy = left
        /\ survey'.remaining = survey.remaining \ {site} /\ survey'.targets = survey.targets + 1
        /\ survey'.completed = counted /\ survey'.mode = "SurfaceReady"
        /\ survey'.phase = survey.phase /\ survey'.missionCompleted = survey.missionCompleted
    <3>1. survey.remaining \ {site} \in SUBSET Sites
      BY <1>4 DEF SurveyType
    <3> DEFINE remaining == survey.remaining \ {site}
               cycle == survey.cycle + 1
               targets == survey.targets + 1
    <3>2. cycle \in Nat /\ targets \in Nat /\ counted \in SUBSET (ProductIds \X (1 .. MaxEditions))
      BY <1>4, <2>3
    <3>3. survey' = [ready EXCEPT !.energy = left, !.remaining = remaining, !.cycle = cycle,
                                  !.targets = targets, !.completed = counted]
      BY <2>4
    <3> HIDE DEF counted, remaining, cycle, targets
    <3>4. survey' \in SurveyType
      BY <1>5, <2>2, <3>1, <3>2, <3>3 DEF SurveyType, remaining
    <3>5. /\ survey'.energy = left /\ survey'.remaining = remaining
          /\ survey'.targets = targets /\ survey'.completed = counted
          /\ survey'.mode = ready.mode /\ survey'.phase = ready.phase
          /\ survey'.missionCompleted = ready.missionCompleted
      BY <1>5, <3>3 DEF SurveyType
    <3> QED
      BY <1>5, <3>4, <3>5 DEF remaining, targets
  <2>8. knowledge' \in [Sites -> Nat] /\ knowledge'[site] > 0
        /\ \A t \in Sites : t # site => knowledge'[t] = knowledge[t]
    BY <1>6, <1>11 DEF SurfaceInv
  <2>9. \A c \in survey'.completed : Counted(c)'
    <3> SUFFICES ASSUME NEW c \in counted PROVE Counted(c)'
      BY <2>7
    <3>1. CASE c = <<id, built'>>
      <4>1. c[1] = id /\ c[2] = built' /\ id[1] = site
        BY <3>1 DEF id
      <4> QED
        BY <1>3, <1>7, <1>11, <2>7, <2>8, <4>1 DEF Counted
    <3>2. CASE c \in survey.completed
      <4>1. c[1][1] \in Sites
        BY <1>8, <3>2 DEF ProductIds
      <4> QED
        BY <1>8, <2>7, <2>8, <3>2, <4>1 DEF Counted
    <3> QED
      BY <3>1, <3>2
  <2>10. survey'.missionCompleted <=> survey'.mode = "MissionComplete" /\ survey'.remaining = {}
    BY <1>1, <2>7 DEF SurfaceInv
  <2>11. built' \in 0 .. MaxEditions /\ ~survey'.missionCompleted
    BY <1>1, <1>2, <2>7 DEF SurfaceInv
  <2>12. survey'.targets = Cardinality(survey'.completed)
    BY <2>5, <2>7 DEF SurfaceInv
  <2> QED
    BY <1>7, <1>11, <2>2, <2>5, <2>7, <2>8, <2>9, <2>10, <2>11, <2>12 DEF SurfaceInv
<1> QED
  BY <1>7, <1>9, <1>10, <1>11

LEMMA AnewKeeps ==
    ASSUME SurfaceInv
    PROVE  LandAnotherRover \/ ProcessEnds => SurfaceInv'
<1>1. "Stowed" \in RoverModeAtRest /\ FullBattery \in Nat
  BY SurfaceAssumption DEF RoverModeAtRest
<1>2. ASSUME LandAnotherRover \/ ProcessEnds
      PROVE  /\ survey' = NewSurvey("Stowed", FullBattery) /\ knowledge' \in [Sites -> Nat]
             /\ holdings' \in Archives /\ built' \in 0 .. MaxEditions
  BY <1>2 DEF LandAnotherRover, ProcessEnds, NothingKnown, SurfaceInv
<1> QED
  BY <1>1, <1>2, FreshCounts

LEMMA SurfaceInvariant == SurfaceSpec => []SurfaceInv
<1>1. SurfaceInv /\ [SurfaceNext]_surfaceVars => SurfaceInv'
  <2>1. SurfaceInv /\ UNCHANGED surfaceVars => SurfaceInv'
    BY DEF SurfaceInv, surfaceVars, Counted
  <2> QED
    BY <2>1, ExecuteKeeps, LoopEnds, GetsStuckKeeps, ObserveKeeps, AnewKeeps DEF SurfaceNext
<1> QED
  BY SurfaceFresh, <1>1, PTL DEF SurfaceSpec

\* The mission's locals, the archives and the knowledge base keep their types.
THEOREM SurfaceTyped == SurfaceSpec => []SurfaceTypeOK
<1>1. SurfaceInv => SurfaceTypeOK
  BY DEF SurfaceInv, SurfaceTypeOK, Archives
<1> QED
  BY SurfaceInvariant, <1>1, PTL

\* A target counts when its product of this mission is in every archive, however
\* many targets, editions and leftovers there are and wherever a save stops.
THEOREM SurveyCountsWhatArrived == SurfaceSpec => []SurveyTells
<1>1. SurfaceInv => SurveyTells
  BY DEF SurfaceInv, SurveyTells, Counted
<1> QED
  BY SurfaceInvariant, <1>1, PTL
-----------------------------------------------------------------------------
(* The route planner *)

Estimate(c) == gCost[c] + Heuristic(c)
Fringe == DOMAIN gCost \ closedCells

\* What the search knows of the cells it met.
CellsMet ==
    /\ gCost \in [DOMAIN gCost -> Nat]
    /\ \A c \in DOMAIN gCost : Traversable(c)
    /\ StartCell \in DOMAIN gCost /\ gCost[StartCell] = 0
    /\ closedCells \subseteq DOMAIN gCost

\* Every cell of the fringe waits in the queue with its current cost; the
\* entries it was pushed with before are dearer.
QueueHolds ==
    /\ \A entry \in open :
          /\ entry = [f |-> entry.f, cell |-> entry.cell]
          /\ entry.cell \in DOMAIN gCost /\ entry.f \in Nat /\ Estimate(entry.cell) <= entry.f
    /\ \A c \in Fringe : [f |-> Estimate(c), cell |-> c] \in open

\* Cells are closed in the order of their estimates, and a closed cell has shown
\* its neighbours the way over itself.
ClosedInOrder == \A d \in closedCells, c \in Fringe : Estimate(d) <= Estimate(c)
NeighboursShown ==
    \A c \in closedCells \ {GoalCell} : \A n \in Neighbours(c) :
        Traversable(n) => n \in DOMAIN gCost /\ gCost[n] <= gCost[c] + StepCost(c, n)

ParentsLead ==
    \A c \in DOMAIN parent :
        /\ c \in DOMAIN gCost /\ parent[c] \in closedCells
        /\ Traversable(c) /\ c \in Neighbours(parent[c])
        /\ gCost[c] = gCost[parent[c]] + StepCost(parent[c], c)

EndIsKnown ==
    /\ search = "running" => GoalCell \notin closedCells
    /\ search = "found" => GoalCell \in closedCells
    /\ search = "failed" => GoalCell \notin closedCells /\ open = {}

SearchHolds == /\ CellsMet /\ QueueHolds /\ ClosedInOrder /\ NeighboursShown
               /\ ParentsLead /\ EndIsKnown

PlannerInv ==
    /\ PlannerTypeOK
    /\ Traversable(StartCell) /\ Traversable(GoalCell) => SearchHolds
    /\ ~(Traversable(StartCell) /\ Traversable(GoalCell)) => search = "failed" /\ open = {}

LEMMA FirstNat ==
    ASSUME NEW T, T \subseteq Nat, T # {}
    PROVE  \E x \in T : \A y \in T : x <= y
<1>1. IsWellFoundedOn(OpToRel(<, Nat), Nat)
  BY NatLessThanWellFounded
<1>2. PICK x \in T : \A y \in T : ~(<<y, x>> \in OpToRel(<, Nat))
  BY <1>1, WFMin
<1>3. \A y \in T : ~(y < x)
  BY <1>2 DEF OpToRel
<1> QED
  BY <1>3

LEMMA SquareGrows == ASSUME NEW x \in Nat, NEW y \in Nat, x <= y PROVE x * x <= y * y
<1>1. PICK z \in Nat : y = x + z
  <2>1. y - x \in Nat /\ y = x + (y - x)
    OBVIOUS
  <2> QED
    BY <2>1
<1>2. y * y = x * x + (2 * (x * z) + z * z)
  BY <1>1
<1>3. x * z \in Nat /\ z * z \in Nat /\ x * x \in Nat
  OBVIOUS

<1> QED
  BY <1>2, <1>3

LEMMA SumOfSquares ==
    ASSUME NEW x \in Nat, NEW y \in Nat
    PROVE  (x + y) * (x + y) <= 2 * (x * x + y * y)
<1>1. \A a, b \in Nat : a <= b => (a + b) * (a + b) <= 2 * (a * a + b * b)
  <2> SUFFICES ASSUME NEW a \in Nat, NEW b \in Nat, a <= b
               PROVE  (a + b) * (a + b) <= 2 * (a * a + b * b)
    OBVIOUS
  <2>1. PICK z \in Nat : b = a + z
    <3>1. b - a \in Nat /\ b = a + (b - a)
      OBVIOUS
    <3> QED
      BY <3>1
  <2>2. 2 * (a * a + b * b) = (a + b) * (a + b) + z * z
    BY <2>1
  <2>3. z * z \in Nat /\ (a + b) * (a + b) \in Nat
    OBVIOUS
  <2> QED
    BY <2>2, <2>3
<1>2. CASE x <= y
  BY <1>1, <1>2
<1>3. CASE y <= x
  <2>1. (y + x) * (y + x) <= 2 * (y * y + x * x)
    BY <1>1, <1>3
  <2>2. (y + x) * (y + x) = (x + y) * (x + y) /\ 2 * (y * y + x * x) = 2 * (x * x + y * y)
    OBVIOUS
  <2> QED
    BY <2>1, <2>2
<1> QED
  BY <1>2, <1>3

\* The estimate is a number: the whole part of a root.
LEMMA StraightLineIs ==
    ASSUME NEW dx \in Nat, NEW dy \in Nat
    PROVE  LET r == StraightLine(dx, dy)
               square == 98 * (dx * dx + dy * dy)
           IN  r \in Nat /\ r * r <= square /\ square < (r + 1) * (r + 1)
<1> DEFINE square == 98 * (dx * dx + dy * dy)
<1>1. square \in Nat
  OBVIOUS
<1>2. square <= (10 * (dx + dy)) * (10 * (dx + dy))
  <2>1. dx * dx \in Nat /\ dy * dy \in Nat /\ dx * dy \in Nat
    OBVIOUS
  <2>2. (10 * (dx + dy)) * (10 * (dx + dy))
          = 100 * (dx * dx) + 100 * (dy * dy) + 200 * (dx * dy)
    OBVIOUS
  <2>3. square = 98 * (dx * dx) + 98 * (dy * dy)
    OBVIOUS
  <2> HIDE DEF square
  <2> QED
    BY <2>1, <2>2, <2>3
<1> DEFINE top == 10 * (dx + dy)
           T == {r \in 0 .. top : square < (r + 1) * (r + 1)}
<1>3. top \in Nat /\ square <= top * top
  BY <1>2
<1> HIDE DEF square, top
<1>4. T # {}
  <2>1. top * top < (top + 1) * (top + 1)
    <3>1. (top + 1) * (top + 1) = top * top + 2 * top + 1
      BY <1>3
    <3>2. top * top \in Nat
      BY <1>3
    <3> QED
      BY <1>3, <3>1, <3>2
  <2>2. top * top \in Nat /\ (top + 1) * (top + 1) \in Nat
    BY <1>3
  <2>3. square < (top + 1) * (top + 1)
    BY <1>1, <1>3, <2>1, <2>2
  <2>4. top \in 0 .. top
    BY <1>3
  <2> QED
    BY <2>3, <2>4
<1>5. PICK r \in T : \A y \in T : r <= y
  <2>1. T \subseteq Nat
    BY <1>3
  <2> HIDE DEF T
  <2> QED
    BY <1>4, <2>1, FirstNat
<1>6. r \in 0 .. top /\ r \in Nat /\ square < (r + 1) * (r + 1)
  BY <1>3, <1>5
<1>7. r * r <= square
  <2>1. CASE r = 0
    BY <1>1, <2>1
  <2>2. CASE r # 0
    <3>1. r - 1 \in 0 .. top /\ ~(r <= r - 1)
      BY <1>3, <1>6, <2>2
    <3>2. r - 1 \notin T
      BY <1>5, <3>1
    <3>3. ~(square < ((r - 1) + 1) * ((r - 1) + 1))
      BY <3>1, <3>2
    <3>4. (r - 1) + 1 = r
      BY <1>6
    <3>5. ~(square < r * r) /\ r * r \in Nat
      BY <1>6, <3>3, <3>4
    <3> QED
      BY <1>1, <3>5
  <2> QED
    BY <2>1, <2>2
<1>8. StraightLine(dx, dy)
        = CHOOSE x \in 0 .. top : x * x <= square /\ (x + 1) * (x + 1) > square
  BY DEF StraightLine, top, square
<1>9. (r + 1) * (r + 1) > square
  <2>1. (r + 1) * (r + 1) \in Nat
    BY <1>6
  <2> QED
    BY <1>1, <1>6, <2>1
<1>10. \E x \in 0 .. top : x * x <= square /\ (x + 1) * (x + 1) > square
  BY <1>6, <1>7, <1>9
<1> DEFINE line == StraightLine(dx, dy)
<1>11. line \in 0 .. top /\ line * line <= square /\ (line + 1) * (line + 1) > square
  BY <1>8, <1>10
<1> HIDE DEF line
<1>12. line \in Nat
  BY <1>3, <1>11
<1>13. (line + 1) * (line + 1) \in Nat
  BY <1>12
<1>14. square < (line + 1) * (line + 1)
  BY <1>1, <1>11, <1>13
<1> QED
  BY <1>11, <1>12, <1>14 DEF line, square

\* Half the argument: a root grows no faster than the sides it is taken of.
\* A step along one side ...
LEMMA StraightRoot ==
    ASSUME NEW a \in Nat, NEW b \in Nat, NEW c \in Nat, NEW r \in Nat, NEW s \in Nat,
           c <= a + 1,
           r * r <= 98 * (c * c + b * b), 98 * (a * a + b * b) < (s + 1) * (s + 1)
    PROVE  r <= s + 10
<1> SUFFICES ASSUME s + 11 <= r PROVE FALSE
  OBVIOUS
<1> DEFINE A == a * a
           B == b * b
           C == c * c
           R == r * r
           E == s + 1
<1>1. A \in Nat /\ B \in Nat /\ C \in Nat /\ R \in Nat /\ E \in Nat /\ E * E \in Nat
  OBVIOUS
<1>2. C <= A + 2 * a + 1
  <2>1. c * c <= (a + 1) * (a + 1)
    BY SquareGrows
  <2>2. (a + 1) * (a + 1) = A + 2 * a + 1
    OBVIOUS
  <2> QED
    BY <2>1, <2>2
<1>3. E * E + 20 * E + 100 <= R
  <2>1. (s + 11) * (s + 11) <= r * r
    BY SquareGrows
  <2>2. (s + 11) * (s + 11) = E * E + 20 * E + 100
    OBVIOUS
  <2> QED
    BY <2>1, <2>2
<1>4. R <= 98 * C + 98 * B /\ 98 * A + 98 * B < E * E
  OBVIOUS
<1> HIDE DEF B, C, R, E
<1>5. E * E + 20 * E + 100 < E * E + 196 * a + 98
  <2> HIDE DEF A
  <2> DEFINE EE == E * E
  <2>1. EE \in Nat /\ 98 * A + 98 * B < EE /\ EE + 20 * E + 100 <= R
    BY <1>1, <1>3, <1>4
  <2> HIDE DEF EE
  <2>2. R <= 98 * (A + 2 * a + 1) + 98 * B
    BY <1>1, <1>2, <1>4
  <2>3. EE + 20 * E + 100 < EE + 196 * a + 98
    BY <1>1, <2>1, <2>2
  <2> QED
    BY <2>3 DEF EE
<1>6. 10 * E < 98 * a
  <2> DEFINE EE == E * E
  <2>1. EE \in Nat /\ EE + 20 * E + 100 < EE + 196 * a + 98
    BY <1>1, <1>5
  <2> HIDE DEF EE
  <2> QED
    BY <1>1, <2>1
<1>7. 100 * (E * E) <= 9604 * A
  <2>1. (10 * E) * (10 * E) <= (98 * a) * (98 * a)
    BY <1>1, <1>6, SquareGrows
  <2>2. (10 * E) * (10 * E) = 100 * (E * E) /\ (98 * a) * (98 * a) = 9604 * (a * a)
    BY <1>1
  <2> QED
    BY <2>1, <2>2
<1> QED
  <2> DEFINE EE == E * E
  <2>1. EE \in Nat /\ 98 * A + 98 * B < EE /\ 100 * EE <= 9604 * A
    BY <1>1, <1>4, <1>7
  <2> HIDE DEF EE, A
  <2> QED
    BY <1>1, <2>1

\* ... and one along both.
LEMMA DiagonalRoot ==
    ASSUME NEW a \in Nat, NEW b \in Nat, NEW c \in Nat, NEW d \in Nat, NEW r \in Nat, NEW s \in Nat,
           c <= a + 1, d <= b + 1,
           r * r <= 98 * (c * c + d * d), 98 * (a * a + b * b) < (s + 1) * (s + 1)
    PROVE  r <= s + 14
<1> SUFFICES ASSUME s + 15 <= r PROVE FALSE
  OBVIOUS
<1> DEFINE A == a * a
           B == b * b
           C == c * c
           D == d * d
           R == r * r
           E == s + 1
           EE == E * E
<1>1. /\ A \in Nat /\ B \in Nat /\ C \in Nat /\ D \in Nat /\ R \in Nat /\ E \in Nat
      /\ EE \in Nat
  OBVIOUS
<1>2. C <= A + 2 * a + 1 /\ D <= B + 2 * b + 1
  <2>1. c * c <= (a + 1) * (a + 1) /\ d * d <= (b + 1) * (b + 1)
    BY SquareGrows
  <2>2. (a + 1) * (a + 1) = A + 2 * a + 1 /\ (b + 1) * (b + 1) = B + 2 * b + 1
    OBVIOUS
  <2> QED
    BY <2>1, <2>2
<1>3. EE + 28 * E + 196 <= R
  <2>1. (s + 15) * (s + 15) <= r * r
    BY SquareGrows
  <2>2. (s + 15) * (s + 15) = EE + 28 * E + 196
    OBVIOUS
  <2> QED
    BY <2>1, <2>2
<1>4. R <= 98 * C + 98 * D /\ 98 * A + 98 * B < EE
  OBVIOUS
<1>5. (7 * (a + b)) * (7 * (a + b)) <= 98 * A + 98 * B
  <2>1. (a + b) * (a + b) <= 2 * (A + B)
    BY SumOfSquares
  <2>2. (7 * (a + b)) * (7 * (a + b)) = 49 * ((a + b) * (a + b))
    OBVIOUS
  <2> DEFINE S == (a + b) * (a + b)
  <2>3. S \in Nat /\ S <= 2 * (A + B)
    BY <2>1
  <2> HIDE DEF S, A, B
  <2>4. 49 * S <= 98 * A + 98 * B
    BY <1>1, <2>3
  <2> QED
    BY <2>2, <2>4 DEF S
<1>6. E < 7 * (a + b)
  <2> HIDE DEF A, B, C, D, R, E, EE
  <2> QED
    BY <1>1, <1>2, <1>3, <1>4
<1>7. EE <= (7 * (a + b)) * (7 * (a + b))
  <2> HIDE DEF E
  <2>1. 7 * (a + b) \in Nat /\ E <= 7 * (a + b)
    BY <1>1, <1>6
  <2> QED
    BY <1>1, <2>1, SquareGrows
<1> QED
  <2> DEFINE Q == (7 * (a + b)) * (7 * (a + b))
  <2>1. Q \in Nat /\ Q <= 98 * A + 98 * B /\ EE <= Q
    BY <1>5, <1>7
  <2> HIDE DEF Q, A, B, EE
  <2> QED
    BY <1>1, <1>4, <2>1

LEMMA DistanceIs ==
    ASSUME NEW i \in Int, NEW j \in Int, NEW g \in Int, Distance(i, j) <= 1
    PROVE  /\ Distance(i, g) \in Nat /\ Distance(j, g) \in Nat
           /\ Distance(j, g) <= Distance(i, g) + 1
           /\ i = j => Distance(j, g) = Distance(i, g)
BY DEF Distance

\* No step costs less than it brings the estimate down: the estimate at a cell is
\* at most the step from it to a neighbour and the estimate there.
LEMMA EstimateIsConsistent ==
    ASSUME NEW c \in Cells, NEW n \in Neighbours(c), penalty \in [Columns -> Penalties]
    PROVE  /\ Heuristic(c) \in Nat /\ Heuristic(n) \in Nat /\ StepCost(c, n) \in Nat
           /\ 0 < StepCost(c, n)
           /\ Heuristic(c) <= StepCost(c, n) + Heuristic(n)
<1>1. /\ c[1] \in Int /\ c[2] \in Int /\ n[1] \in Int /\ n[2] \in Int /\ n[1] \in Columns
      /\ GoalCell[1] \in Int /\ GoalCell[2] \in Int
      /\ Distance(n[1], c[1]) <= 1 /\ Distance(n[2], c[2]) <= 1
  BY PlannerAssumption DEF Cells, Neighbours
<1>2. penalty[n[1]] \in Nat /\ 1 <= penalty[n[1]]
  <2>1. penalty[n[1]] \in Penalties
    BY <1>1
  <2>2. penalty[n[1]] \in Nat \ {0}
    BY <2>1, PlannerAssumption
  <2> DEFINE p == penalty[n[1]]
  <2>3. p \in Nat \ {0}
    BY <2>2
  <2> HIDE DEF p
  <2>4. p \in Nat /\ 1 <= p
    BY <2>3
  <2> QED
    BY <2>4 DEF p
<1> DEFINE a == Distance(n[1], GoalCell[1])
           b == Distance(n[2], GoalCell[2])
           x == Distance(c[1], GoalCell[1])
           y == Distance(c[2], GoalCell[2])
           r == StraightLine(x, y)
           s == StraightLine(a, b)
<1>3. /\ a \in Nat /\ b \in Nat /\ x \in Nat /\ y \in Nat
      /\ x <= a + 1 /\ y <= b + 1
      /\ n[1] = c[1] => x = a
      /\ n[2] = c[2] => y = b
  BY <1>1, DistanceIs
<1>4. Heuristic(c) = r /\ Heuristic(n) = s
  BY DEF Heuristic
<1> HIDE DEF a, b, x, y
<1>5. /\ r \in Nat /\ r * r <= 98 * (x * x + y * y)
      /\ s \in Nat /\ 98 * (a * a + b * b) < (s + 1) * (s + 1)
  BY <1>3, StraightLineIs
<1> HIDE DEF r, s
<1> DEFINE base == IF c[1] = n[1] \/ c[2] = n[2] THEN 10 ELSE 14
<1>6. StepCost(c, n) = base * penalty[n[1]]
  BY DEF StepCost
<1>7. base \in Nat /\ 10 <= base
  OBVIOUS
<1>8. StepCost(c, n) \in Nat /\ base <= StepCost(c, n)
  <2> DEFINE p == penalty[n[1]]
  <2>1. PICK k \in Nat : p = 1 + k
    <3>1. p - 1 \in Nat /\ p = 1 + (p - 1)
      BY <1>2
    <3> QED
      BY <3>1
  <2> HIDE DEF p, base
  <2>2. base * p = base + base * k /\ base * k \in Nat
    BY <1>7, <2>1
  <2> QED
    BY <1>6, <1>7, <2>2 DEF p
<1>9. r <= s + base
  <2>1. CASE c[1] = n[1]
    <3>1. r * r <= 98 * (y * y + a * a) /\ 98 * (b * b + a * a) < (s + 1) * (s + 1)
      <4>1. x = a
        BY <1>3, <2>1
      <4>2. a * a + y * y = y * y + a * a /\ a * a + b * b = b * b + a * a
        BY <1>3
      <4> QED
        BY <1>5, <4>1, <4>2
    <3>2. r <= s + 10
      BY <1>3, <1>5, <3>1, StraightRoot
    <3> QED
      BY <2>1, <3>2
  <2>2. CASE c[2] = n[2]
    <3>1. r * r <= 98 * (x * x + b * b)
      BY <1>3, <1>5, <2>2
    <3>2. r <= s + 10
      BY <1>3, <1>5, <3>1, StraightRoot
    <3> QED
      BY <2>2, <3>2
  <2>3. CASE c[1] # n[1] /\ c[2] # n[2]
    <3>1. r <= s + 14
      BY <1>3, <1>5, DiagonalRoot
    <3> QED
      BY <2>3, <3>1
  <2> QED
    BY <2>1, <2>2, <2>3
<1> HIDE DEF base
<1> QED
  BY <1>4, <1>5, <1>7, <1>8, <1>9

LEMMA GoalEstimate == Heuristic(GoalCell) = 0
<1>1. GoalCell[1] \in Int /\ GoalCell[2] \in Int
  BY PlannerAssumption
<1>2. Distance(GoalCell[1], GoalCell[1]) = 0 /\ Distance(GoalCell[2], GoalCell[2]) = 0
  BY <1>1 DEF Distance
<1> DEFINE r == StraightLine(0, 0)
<1>3. r \in Nat /\ r * r <= 98 * (0 * 0 + 0 * 0)
  BY StraightLineIs
<1>4. Heuristic(GoalCell) = r
  BY <1>2 DEF Heuristic
<1> HIDE DEF r
<1>5. r = 0
  BY <1>3
<1> QED
  BY <1>4, <1>5

LEMMA PlannerFresh == PlannerInit => PlannerInv
<1> SUFFICES ASSUME PlannerInit PROVE PlannerInv
  OBVIOUS
<1>1. CASE Traversable(StartCell) /\ Traversable(GoalCell)
  <2>1. /\ closedCells = {} /\ DOMAIN parent = {} /\ search = "running"
        /\ gCost = [c \in {StartCell} |-> 0]
        /\ open = {[f |-> Heuristic(StartCell), cell |-> StartCell]}
        /\ penalty \in [Columns -> Penalties] /\ closedTerrain \subseteq Columns
        /\ covered \in Obstacles
    BY <1>1 DEF PlannerInit
  <2>2. DOMAIN gCost = {StartCell} /\ gCost[StartCell] = 0
    BY <2>1
  <2>3. Heuristic(StartCell) \in Nat
    <3>1. StartCell[1] \in Int /\ StartCell[2] \in Int /\ GoalCell[1] \in Int /\ GoalCell[2] \in Int
      BY PlannerAssumption
    <3>2. /\ Distance(StartCell[1], GoalCell[1]) \in Nat
          /\ Distance(StartCell[2], GoalCell[2]) \in Nat
      BY <3>1 DEF Distance
    <3> QED
      BY <3>2, StraightLineIs DEF Heuristic
  <2>4. PlannerTypeOK
    BY <2>1, <2>2 DEF PlannerTypeOK
  <2>5. Estimate(StartCell) = Heuristic(StartCell)
    BY <2>2, <2>3 DEF Estimate
  <2>6. CellsMet
    BY <1>1, <2>1, <2>2 DEF CellsMet
  <2>7. QueueHolds
    BY <2>1, <2>2, <2>3, <2>5 DEF QueueHolds, Fringe
  <2>8. ClosedInOrder /\ NeighboursShown /\ ParentsLead /\ EndIsKnown
    BY <2>1 DEF ClosedInOrder, NeighboursShown, ParentsLead, EndIsKnown
  <2> QED
    BY <1>1, <2>4, <2>6, <2>7, <2>8 DEF PlannerInv, SearchHolds
<1>2. CASE ~(Traversable(StartCell) /\ Traversable(GoalCell))
  <2>1. /\ closedCells = {} /\ search = "failed" /\ open = {}
        /\ penalty \in [Columns -> Penalties] /\ closedTerrain \subseteq Columns
        /\ covered \in Obstacles
    BY <1>2 DEF PlannerInit
  <2>2. PlannerTypeOK
    BY <2>1 DEF PlannerTypeOK
  <2> QED
    BY <1>2, <2>1, <2>2 DEF PlannerInv
<1> QED
  BY <1>1, <1>2

\* The grid stays as it is.
LEMMA SameGrid ==
    ASSUME UNCHANGED <<penalty, closedTerrain, covered>>
    PROVE  /\ \A c : Traversable(c)' <=> Traversable(c)
           /\ \A c, n : StepCost(c, n)' = StepCost(c, n)
BY DEF Traversable, StepCost

LEMMA SearchIsOn ==
    ASSUME PlannerInv, search = "running"
    PROVE  SearchHolds /\ Traversable(StartCell) /\ Traversable(GoalCell)
BY DEF PlannerInv

LEMMA EstimatesTyped ==
    ASSUME CellsMet, NEW c \in DOMAIN gCost
    PROVE  /\ c \in Cells /\ gCost[c] \in Nat /\ Heuristic(c) \in Nat /\ Estimate(c) \in Nat
           /\ Estimate(c) = gCost[c] + Heuristic(c)
<1>1. c \in Cells /\ gCost[c] \in Nat
  BY DEF CellsMet, Traversable
<1>2. Heuristic(c) \in Nat
  <2>1. c[1] \in Int /\ c[2] \in Int /\ GoalCell[1] \in Int /\ GoalCell[2] \in Int
    BY <1>1, PlannerAssumption DEF Cells
  <2>2. Distance(c[1], GoalCell[1]) \in Nat /\ Distance(c[2], GoalCell[2]) \in Nat
    BY <2>1 DEF Distance
  <2> QED
    BY <2>2, StraightLineIs DEF Heuristic
<1> QED
  BY <1>1, <1>2 DEF Estimate

LEMMA SkipKeeps ==
    ASSUME PlannerInv, NEW entry \in open, SkipClosed(entry)
    PROVE  PlannerInv'
<1>1. /\ search = "running" /\ entry.cell \in closedCells /\ open' = open \ {entry}
      /\ search' = IF open' = {} THEN "failed" ELSE search
      /\ UNCHANGED <<penalty, closedTerrain, covered, gCost, parent, closedCells>>
  BY DEF SkipClosed
<1>2. SearchHolds /\ Traversable(StartCell) /\ Traversable(GoalCell)
  BY <1>1, SearchIsOn
<1>3. Traversable(StartCell)' /\ Traversable(GoalCell)'
  BY <1>1, <1>2 DEF Traversable
<1>4. PlannerTypeOK'
  BY <1>1 DEF PlannerInv, PlannerTypeOK
<1>5. CellsMet' /\ ClosedInOrder' /\ NeighboursShown' /\ ParentsLead'
  <2>1. CellsMet'
    BY <1>1, <1>2 DEF SearchHolds, CellsMet, Traversable
  <2>2. ClosedInOrder'
    BY <1>1, <1>2 DEF SearchHolds, ClosedInOrder, Fringe, Estimate
  <2>3. NeighboursShown'
    BY <1>1, <1>2 DEF SearchHolds, NeighboursShown, Traversable, StepCost
  <2>4. ParentsLead'
    BY <1>1, <1>2 DEF SearchHolds, ParentsLead, Traversable, StepCost
  <2> QED
    BY <2>1, <2>2, <2>3, <2>4
<1>6. QueueHolds'
  <2>1. QueueHolds
    BY <1>2 DEF SearchHolds
  <2>2. ASSUME NEW c \in Fringe PROVE [f |-> Estimate(c), cell |-> c] \in open \ {entry}
    <3> DEFINE mine == [f |-> Estimate(c), cell |-> c]
    <3>1. mine.cell = c /\ c \notin closedCells
      BY DEF Fringe
    <3>2. mine # entry
      BY <1>1, <3>1
    <3> QED
      BY <2>1, <3>2 DEF QueueHolds
  <2>3. Fringe' = Fringe /\ \A c : Estimate(c)' = Estimate(c)
    BY <1>1 DEF Fringe, Estimate
  <2>4. \A e \in open' :
          /\ e = [f |-> e.f, cell |-> e.cell]
          /\ e.cell \in DOMAIN gCost' /\ e.f \in Nat /\ Estimate(e.cell) <= e.f
    BY <1>1, <2>1 DEF QueueHolds
  <2> QED
    BY <1>1, <2>2, <2>3, <2>4 DEF QueueHolds
<1>7. EndIsKnown'
  BY <1>1, <1>2 DEF SearchHolds, EndIsKnown
<1> QED
  BY <1>3, <1>4, <1>5, <1>6, <1>7 DEF PlannerInv, SearchHolds

LEMMA ExpandKeeps ==
    ASSUME PlannerInv, NEW entry \in open, Expand(entry)
    PROVE  PlannerInv'
<1> DEFINE c == entry.cell
           better == IF c = GoalCell THEN {} ELSE Improved(c)
           Over(n) == gCost[c] + StepCost(c, n)
           pushed == {[f |-> gCost[c] + StepCost(c, n) + Heuristic(n), cell |-> n] : n \in better}
<1>1. /\ search = "running" /\ entry \in Cheapest /\ c \notin closedCells
      /\ closedCells' = closedCells \union {c}
      /\ gCost' = [n \in DOMAIN gCost \union better |-> IF n \in better THEN Over(n) ELSE gCost[n]]
      /\ parent' = [n \in DOMAIN parent \union better |-> IF n \in better THEN c ELSE parent[n]]
      /\ open' = (open \ {entry}) \union pushed
      /\ UNCHANGED <<penalty, closedTerrain, covered>>
  BY DEF Expand
<1>2. /\ c = GoalCell => search' = "found"
      /\ c # GoalCell /\ open' = {} => search' = "failed"
      /\ c # GoalCell /\ open' # {} => search' = "running"
  BY DEF Expand
<1>3. /\ \A n \in better : /\ n \in Neighbours(c) /\ Traversable(n)
                           /\ n \notin closedCells /\ n # c
                           /\ n \in DOMAIN gCost => Over(n) < gCost[n]
      /\ c # GoalCell => \A n \in Neighbours(c) \ better :
            Traversable(n) => n \in closedCells \/ (n \in DOMAIN gCost /\ ~(Over(n) < gCost[n]))
  <2>1. \A n \in Improved(c) : /\ n \in Neighbours(c) /\ Traversable(n)
                               /\ n \notin closedCells /\ n # c
                               /\ n \in DOMAIN gCost => Over(n) < gCost[n]
    BY DEF Improved
  <2>2. \A n \in Neighbours(c) \ Improved(c) :
          Traversable(n) => n \in closedCells \/ (n \in DOMAIN gCost /\ ~(Over(n) < gCost[n]))
    BY DEF Improved, Neighbours
  <2> HIDE DEF c, Over
  <2> QED
    BY <2>1, <2>2
<1>4. SearchHolds /\ Traversable(StartCell) /\ Traversable(GoalCell)
  BY <1>1, SearchIsOn
<1>5. CellsMet /\ QueueHolds /\ ClosedInOrder /\ NeighboursShown /\ ParentsLead /\ EndIsKnown
  BY <1>4 DEF SearchHolds
<1>6. penalty \in [Columns -> Penalties]
  BY DEF PlannerInv, PlannerTypeOK
<1>7. /\ c \in DOMAIN gCost /\ c \in Fringe /\ c \in Cells /\ entry.f \in Nat
      /\ Estimate(c) <= entry.f
  BY <1>1, <1>5 DEF QueueHolds, Fringe, CellsMet, Traversable
<1> HIDE DEF better
<1>8. \A n \in Neighbours(c) : /\ Over(n) \in Nat /\ Heuristic(n) \in Nat
                               /\ Estimate(c) <= Over(n) + Heuristic(n)
  <2> SUFFICES ASSUME NEW n \in Neighbours(c)
               PROVE  /\ Over(n) \in Nat /\ Heuristic(n) \in Nat
                      /\ Estimate(c) <= Over(n) + Heuristic(n)
    OBVIOUS
  <2>1. /\ Heuristic(c) \in Nat /\ Heuristic(n) \in Nat /\ StepCost(c, n) \in Nat
        /\ Heuristic(c) <= StepCost(c, n) + Heuristic(n)
    BY <1>6, <1>7, EstimateIsConsistent
  <2>2. gCost[c] \in Nat /\ Estimate(c) = gCost[c] + Heuristic(c)
    BY <1>5, <1>7, EstimatesTyped
  <2> HIDE DEF c
  <2> QED
    BY <2>1, <2>2
<1> DEFINE pushedF(n) == Over(n) + Heuristic(n)
<1>9. pushed = {[f |-> pushedF(n), cell |-> n] : n \in better}
  OBVIOUS
<1>10. /\ DOMAIN gCost' = DOMAIN gCost \union better
       /\ \A n \in better : gCost'[n] = Over(n)
       /\ \A n \in DOMAIN gCost \ better : gCost'[n] = gCost[n]
       /\ DOMAIN parent' = DOMAIN parent \union better
       /\ \A n \in better : parent'[n] = c
       /\ \A n \in DOMAIN parent \ better : parent'[n] = parent[n]
  <2> HIDE DEF c, Over
  <2> QED
    BY <1>1
<1> HIDE DEF pushed, Over, pushedF
<1>11. \A n \in DOMAIN gCost : gCost[n] \in Nat /\ gCost'[n] \in Nat /\ gCost'[n] <= gCost[n]
  <2> SUFFICES ASSUME NEW n \in DOMAIN gCost
               PROVE  gCost[n] \in Nat /\ gCost'[n] \in Nat /\ gCost'[n] <= gCost[n]
    OBVIOUS
  <2>1. gCost[n] \in Nat
    BY <1>5, EstimatesTyped
  <2>2. CASE n \in better
    <3>1. gCost'[n] = Over(n) /\ Over(n) \in Nat /\ Over(n) < gCost[n]
      BY <1>3, <1>8, <1>10, <2>2
    <3> QED
      BY <2>1, <3>1
  <2>3. CASE n \notin better
    BY <1>10, <2>1, <2>3
  <2> QED
    BY <2>2, <2>3
<1>12. \A n \in closedCells \union {c} : n \in DOMAIN gCost /\ gCost'[n] = gCost[n]
  BY <1>3, <1>5, <1>7, <1>10 DEF CellsMet
<1>13. \A n \in DOMAIN gCost' : Estimate(n)' = gCost'[n] + Heuristic(n)
  BY DEF Estimate
<1>14. /\ \A n \in better : Estimate(n)' = pushedF(n) /\ pushedF(n) \in Nat
                             /\ Estimate(c) <= pushedF(n)
       /\ \A n \in DOMAIN gCost \ better : Estimate(n)' = Estimate(n)
       /\ \A n \in DOMAIN gCost : Estimate(n) \in Nat /\ Estimate(n)' <= Estimate(n)
  <2>1. \A n \in better : Estimate(n)' = pushedF(n) /\ pushedF(n) \in Nat
                          /\ Estimate(c) <= pushedF(n)
    <3> SUFFICES ASSUME NEW n \in better
                 PROVE  Estimate(n)' = pushedF(n) /\ pushedF(n) \in Nat
                        /\ Estimate(c) <= pushedF(n)
      OBVIOUS
    <3>1. n \in Neighbours(c) /\ n \in DOMAIN gCost' /\ gCost'[n] = Over(n)
      BY <1>3, <1>10
    <3>2. Over(n) \in Nat /\ Heuristic(n) \in Nat /\ Estimate(c) <= Over(n) + Heuristic(n)
      BY <1>8, <3>1
    <3>3. pushedF(n) = Over(n) + Heuristic(n)
      BY DEF pushedF
    <3>4. Estimate(n)' = Over(n) + Heuristic(n)
      BY <1>13, <3>1
    <3> QED
      BY <3>2, <3>3, <3>4
  <2>2. \A n \in DOMAIN gCost \ better : Estimate(n)' = Estimate(n)
    BY <1>10, <1>13 DEF Estimate
  <2>3. \A n \in DOMAIN gCost : Estimate(n) \in Nat /\ Estimate(n)' <= Estimate(n)
    <3> SUFFICES ASSUME NEW n \in DOMAIN gCost
                 PROVE  Estimate(n) \in Nat /\ Estimate(n)' <= Estimate(n)
      OBVIOUS
    <3>1. /\ gCost[n] \in Nat /\ Heuristic(n) \in Nat /\ Estimate(n) = gCost[n] + Heuristic(n)
          /\ Estimate(n) \in Nat
      BY <1>5, EstimatesTyped
    <3>2. Estimate(n)' = gCost'[n] + Heuristic(n)
      BY <1>10, <1>13
    <3>3. gCost'[n] \in Nat /\ gCost'[n] <= gCost[n]
      BY <1>11
    <3> QED
      BY <3>1, <3>2, <3>3
  <2> QED
    BY <2>1, <2>2, <2>3
<1>15. \A d \in Fringe : Estimate(c) <= Estimate(d)
  <2> SUFFICES ASSUME NEW d \in Fringe PROVE Estimate(c) <= Estimate(d)
    OBVIOUS
  <2>1. [f |-> Estimate(d), cell |-> d] \in open
    BY <1>5 DEF QueueHolds
  <2>2. entry.f <= Estimate(d)
    BY <1>1, <2>1 DEF Cheapest
  <2>3. Estimate(d) \in Nat /\ Estimate(c) \in Nat
    BY <1>7, <1>14 DEF Fringe
  <2> QED
    BY <1>7, <2>2, <2>3
<1>16. Fringe' = (Fringe \ {c}) \union better
  BY <1>1, <1>3, <1>10 DEF Fringe
<1> HIDE DEF c
<1>17. CellsMet'
  <2>1. gCost' \in [DOMAIN gCost' -> Nat]
    <3>1. \A n \in DOMAIN gCost' : gCost'[n] \in Nat
      BY <1>3, <1>8, <1>10, <1>11
    <3>2. gCost' = [n \in DOMAIN gCost' |-> gCost'[n]]
      BY <1>1
    <3> QED
      BY <3>1, <3>2
  <2>2. \A n \in DOMAIN gCost' : Traversable(n)'
    <3>1. \A n \in DOMAIN gCost' : Traversable(n)
      BY <1>3, <1>5, <1>10 DEF CellsMet
    <3> QED
      BY <1>1, <3>1 DEF Traversable
  <2>3. StartCell \in DOMAIN gCost' /\ gCost'[StartCell] = 0
    <3>1. StartCell \in DOMAIN gCost /\ gCost[StartCell] = 0
      BY <1>5 DEF CellsMet
    <3>2. gCost'[StartCell] \in Nat /\ gCost'[StartCell] <= 0
      BY <1>11, <3>1
    <3> QED
      BY <1>10, <3>1, <3>2
  <2>4. closedCells' \subseteq DOMAIN gCost'
    BY <1>1, <1>5, <1>7, <1>10 DEF CellsMet
  <2> QED
    BY <2>1, <2>2, <2>3, <2>4 DEF CellsMet
<1>18. QueueHolds'
  <2>1. ASSUME NEW e \in open'
        PROVE  /\ e = [f |-> e.f, cell |-> e.cell]
               /\ e.cell \in DOMAIN gCost' /\ e.f \in Nat /\ Estimate(e.cell)' <= e.f
    <3>1. CASE e \in open
      <4>1. /\ e = [f |-> e.f, cell |-> e.cell]
            /\ e.cell \in DOMAIN gCost /\ e.f \in Nat /\ Estimate(e.cell) <= e.f
        BY <1>5, <3>1 DEF QueueHolds
      <4>2. Estimate(e.cell) \in Nat /\ Estimate(e.cell)' <= Estimate(e.cell)
        BY <1>14, <4>1
      <4>3. e.cell \in DOMAIN gCost'
        BY <1>10, <4>1
      <4>4. Estimate(e.cell)' = gCost'[e.cell] + Heuristic(e.cell)
        BY <1>13, <4>3
      <4>5. gCost'[e.cell] \in Nat /\ Heuristic(e.cell) \in Nat
        BY <1>5, <1>11, <4>1, EstimatesTyped
      <4>6. Estimate(e.cell)' \in Nat
        BY <4>4, <4>5
      <4> QED
        BY <4>1, <4>2, <4>3, <4>6
    <3>2. CASE e \in pushed
      <4>1. PICK n \in better : e = [f |-> pushedF(n), cell |-> n]
        BY <1>9, <3>2
      <4>2. e.cell = n /\ e.f = pushedF(n)
        BY <4>1
      <4>3. Estimate(n)' = pushedF(n) /\ pushedF(n) \in Nat /\ n \in DOMAIN gCost'
        BY <1>10, <1>14
      <4>4. Estimate(e.cell)' = Estimate(n)'
        BY <4>2
      <4> QED
        BY <4>1, <4>2, <4>3, <4>4
    <3> QED
      BY <1>1, <3>1, <3>2
  <2>2. ASSUME NEW d \in Fringe' PROVE [f |-> Estimate(d)', cell |-> d] \in open'
    <3>1. CASE d \in better
      <4>1. Estimate(d)' = pushedF(d)
        BY <1>14, <3>1
      <4>2. [f |-> pushedF(d), cell |-> d] \in pushed
        BY <1>9, <3>1
      <4> QED
        BY <1>1, <4>1, <4>2
    <3>2. CASE d \notin better
      <4>1. d \in Fringe /\ d # c
        BY <1>16, <3>2
      <4>2. [f |-> Estimate(d), cell |-> d] \in open
        BY <1>5, <4>1 DEF QueueHolds
      <4>3. [f |-> Estimate(d), cell |-> d] # entry
        <5>1. [f |-> Estimate(d), cell |-> d].cell = d
          OBVIOUS
        <5> QED
          BY <4>1, <5>1 DEF c
      <4>4. Estimate(d)' = Estimate(d)
        BY <1>14, <3>2, <4>1 DEF Fringe
      <4> QED
        BY <1>1, <4>2, <4>3, <4>4
    <3> QED
      BY <3>1, <3>2
  <2> QED
    BY <2>1, <2>2 DEF QueueHolds
<1>19. ClosedInOrder'
  <2>1. ASSUME NEW d \in closedCells \union {c}, NEW e \in (Fringe \ {c}) \union better
        PROVE  Estimate(d)' <= Estimate(e)'
    <3>1. /\ d \in DOMAIN gCost \ better /\ Estimate(d)' = Estimate(d) /\ Estimate(d) \in Nat
          /\ Estimate(c) \in Nat
      BY <1>3, <1>7, <1>12, <1>14
    <3>2. Estimate(d) <= Estimate(c)
      BY <1>5, <1>7, <3>1 DEF ClosedInOrder
    <3>3. CASE e \in better
      BY <1>14, <3>1, <3>2, <3>3
    <3>4. CASE e \notin better
      <4>1. e \in Fringe /\ e \in DOMAIN gCost /\ Estimate(e)' = Estimate(e)
        BY <1>14, <2>1, <3>4 DEF Fringe
      <4>2. Estimate(d) <= Estimate(e)
        BY <1>5, <1>15, <4>1 DEF ClosedInOrder
      <4> QED
        BY <3>1, <4>1, <4>2
    <3> QED
      BY <3>3, <3>4
  <2> QED
    BY <1>1, <1>16, <2>1 DEF ClosedInOrder
<1>20. NeighboursShown'
  <2>1. ASSUME NEW x \in (closedCells \union {c}) \ {GoalCell}, NEW n \in Neighbours(x),
               Traversable(n)
        PROVE  n \in DOMAIN gCost' /\ gCost'[n] <= gCost'[x] + StepCost(x, n)
    <3>1. gCost'[x] = gCost[x] /\ x \in DOMAIN gCost
      BY <1>12
    <3>2. x \in Cells /\ gCost[x] \in Nat /\ StepCost(x, n) \in Nat
      BY <1>5, <1>6, <3>1, EstimatesTyped, EstimateIsConsistent
    <3>3. CASE x \in closedCells
      <4>1. n \in DOMAIN gCost /\ gCost[n] <= gCost[x] + StepCost(x, n)
        BY <1>5, <2>1, <3>3 DEF NeighboursShown
      <4>2. gCost[n] \in Nat /\ gCost'[n] \in Nat /\ gCost'[n] <= gCost[n] /\ n \in DOMAIN gCost'
        BY <1>10, <1>11, <4>1
      <4> QED
        BY <3>1, <3>2, <4>1, <4>2
    <3>4. CASE x \notin closedCells
      <4>1. x = c /\ c # GoalCell
        BY <3>4
      <4>2. Over(n) = gCost[x] + StepCost(x, n) /\ Over(n) \in Nat
        BY <3>2, <4>1 DEF Over
      <4>3. CASE n \in better
        <5>1. gCost'[n] = Over(n) /\ n \in DOMAIN gCost'
          BY <1>10, <4>3
        <5> QED
          BY <3>1, <4>2, <5>1
      <4>4. CASE n \notin better /\ n \in closedCells
        <5>1. n \in DOMAIN gCost /\ gCost'[n] = gCost[n] /\ n \in DOMAIN gCost'
          BY <1>10, <1>12, <4>4
        <5>2. Estimate(n) <= Estimate(c)
          BY <1>5, <1>7, <4>4 DEF ClosedInOrder
        <5>3. Heuristic(n) \in Nat /\ Estimate(c) <= Over(n) + Heuristic(n)
          BY <1>8, <4>1
        <5>4. /\ gCost[n] \in Nat /\ Estimate(n) = gCost[n] + Heuristic(n)
              /\ Estimate(n) \in Nat /\ Estimate(c) \in Nat
          BY <1>5, <1>7, <5>1, EstimatesTyped
        <5>5. gCost[n] <= Over(n)
          BY <4>2, <5>2, <5>3, <5>4
        <5> QED
          BY <3>1, <4>2, <5>1, <5>5
      <4>5. CASE n \notin better /\ n \notin closedCells
        <5>1. n \in DOMAIN gCost /\ ~(Over(n) < gCost[n])
          BY <1>3, <2>1, <4>1, <4>5
        <5>2. gCost'[n] = gCost[n] /\ n \in DOMAIN gCost' /\ gCost[n] \in Nat
          BY <1>10, <1>11, <4>5, <5>1
        <5> QED
          BY <3>1, <4>2, <5>1, <5>2
      <4> QED
        BY <4>3, <4>4, <4>5
    <3> QED
      BY <3>3, <3>4
  <2>2. \A n : (Traversable(n)' <=> Traversable(n)) /\ \A x : StepCost(x, n)' = StepCost(x, n)
    BY <1>1, SameGrid
  <2> QED
    BY <1>1, <2>1, <2>2 DEF NeighboursShown
<1>21. ParentsLead'
  <2>1. ASSUME NEW x \in DOMAIN parent'
        PROVE  /\ x \in DOMAIN gCost' /\ parent'[x] \in closedCells \union {c}
               /\ Traversable(x) /\ x \in Neighbours(parent'[x])
               /\ gCost'[x] = gCost'[parent'[x]] + StepCost(parent'[x], x)
    <3>1. CASE x \in better
      <4>1. parent'[x] = c /\ x \in DOMAIN gCost' /\ gCost'[x] = Over(x)
        BY <1>10, <3>1
      <4>2. gCost'[c] = gCost[c]
        BY <1>12
      <4> QED
        BY <1>3, <3>1, <4>1, <4>2 DEF Over
    <3>2. CASE x \notin better
      <4>1. x \in DOMAIN parent /\ parent'[x] = parent[x]
        BY <1>10, <3>2
      <4>2. /\ x \in DOMAIN gCost /\ parent[x] \in closedCells
            /\ Traversable(x) /\ x \in Neighbours(parent[x])
            /\ gCost[x] = gCost[parent[x]] + StepCost(parent[x], x)
        BY <1>5, <4>1 DEF ParentsLead
      <4>3. gCost'[x] = gCost[x] /\ gCost'[parent[x]] = gCost[parent[x]] /\ x \in DOMAIN gCost'
        BY <1>10, <1>12, <3>2, <4>2
      <4> QED
        BY <4>1, <4>2, <4>3
    <3> QED
      BY <3>1, <3>2
  <2>2. \A n : (Traversable(n)' <=> Traversable(n)) /\ \A x : StepCost(x, n)' = StepCost(x, n)
    BY <1>1, SameGrid
  <2> QED
    BY <1>1, <2>1, <2>2 DEF ParentsLead, StepCost, Traversable
<1>22. EndIsKnown'
  <2>1. GoalCell \notin closedCells
    BY <1>1, <1>5 DEF EndIsKnown
  <2>2. CASE c = GoalCell
    BY <1>1, <1>2, <2>2 DEF EndIsKnown
  <2>3. CASE c # GoalCell
    BY <1>1, <1>2, <2>1, <2>3 DEF EndIsKnown
  <2> QED
    BY <2>2, <2>3
<1>23. PlannerTypeOK'
  <2>1. \A e \in open' : e.cell \in DOMAIN gCost'
    BY <1>18 DEF QueueHolds
  <2>2. closedCells' \subseteq Cells
    BY <1>1, <1>7 DEF PlannerInv, PlannerTypeOK
  <2>3. search' \in {"running", "found", "failed"}
    BY <1>2
  <2> QED
    BY <1>1, <2>1, <2>2, <2>3 DEF PlannerInv, PlannerTypeOK
<1>24. Traversable(StartCell)' /\ Traversable(GoalCell)'
  BY <1>1, <1>4 DEF Traversable
<1> QED
  BY <1>17, <1>18, <1>19, <1>20, <1>21, <1>22, <1>23, <1>24 DEF PlannerInv, SearchHolds

LEMMA PlannerInvariant == PlannerSpec => []PlannerInv
<1>1. PlannerInv /\ [PlannerNext]_plannerVars => PlannerInv'
  <2>1. ASSUME PlannerInv, UNCHANGED plannerVars PROVE PlannerInv'
    BY <2>1 DEF PlannerInv, PlannerTypeOK, SearchHolds, CellsMet, QueueHolds, ClosedInOrder,
                NeighboursShown, ParentsLead, EndIsKnown, Fringe, Estimate, Traversable, StepCost,
                plannerVars
  <2> QED
    BY <2>1, SkipKeeps, ExpandKeeps DEF PlannerNext
<1> QED
  BY <1>1, PlannerFresh, PTL DEF PlannerSpec

-----------------------------------------------------------------------------
(* The reference: the ways and their costs *)

LeadsFromStart(way, n) ==
    /\ way \in Seq(Cells) /\ Len(way) = n /\ way[1] = StartCell
    /\ \A i \in 1 .. n - 1 : way[i + 1] \in Neighbours(way[i])

LEMMA WaysGrow ==
    ASSUME NEW ways, NEW n \in Nat \ {0}, \A way \in ways : LeadsFromStart(way, n)
    PROVE  \A way \in Longer(ways, n) : LeadsFromStart(way, n + 1)
<1> SUFFICES ASSUME NEW longer \in Longer(ways, n) PROVE LeadsFromStart(longer, n + 1)
  OBVIOUS
<1>1. PICK way \in ways : \E c \in Neighbours(way[n]) : longer = Append(way, c)
  BY DEF Longer
<1>2. PICK c \in Neighbours(way[n]) : longer = Append(way, c)
  BY <1>1
<1>3. /\ way \in Seq(Cells) /\ Len(way) = n /\ way[1] = StartCell
      /\ \A i \in 1 .. n - 1 : way[i + 1] \in Neighbours(way[i])
  BY DEF LeadsFromStart
<1>4. c \in Cells
  BY DEF Neighbours
<1>5. /\ longer \in Seq(Cells) /\ Len(longer) = n + 1 /\ longer[n + 1] = c
      /\ \A i \in 1 .. n : longer[i] = way[i]
  BY <1>2, <1>3, <1>4
<1>6. ASSUME NEW i \in 1 .. (n + 1) - 1 PROVE longer[i + 1] \in Neighbours(longer[i])
  <2>1. i \in 1 .. n
    OBVIOUS
  <2>2. CASE i = n
    BY <1>5, <2>1, <2>2
  <2>3. CASE i # n
    <3>1. i \in 1 .. n - 1 /\ i + 1 \in 1 .. n
      BY <2>1, <2>3
    <3> QED
      BY <1>3, <1>5, <2>1, <3>1
  <2> QED
    BY <2>2, <2>3
<1>7. longer[1] = StartCell
  BY <1>3, <1>5
<1> QED
  BY <1>5, <1>6, <1>7 DEF LeadsFromStart

LEMMA WaysByLength ==
    \E f : /\ Ways = {way \in UNION {f[n] : n \in 1 .. Cardinality(Cells)} :
                          way[Len(way)] = GoalCell}
          /\ \A n \in 1 .. Cardinality(Cells) :
                f[n] = IF n = 1 THEN {<<StartCell>>} ELSE Longer(f[n - 1], n - 1)
<1> DEFINE N == Cardinality(Cells)
           Upto(f, n) == [m \in 1 .. n |-> IF m = 1 THEN {<<StartCell>>}
                                            ELSE Longer(f[m - 1], m - 1)]
<1>0. N \in Nat
  BY PlannerAssumption, FS_CardinalityType, FS_Product DEF Cells
<1> HIDE DEF N
<1>1. \A n \in 0 .. N : \E f : f = Upto(f, n)
  <2> DEFINE T == {n \in 0 .. N : ~\E f : f = Upto(f, n)}
  <2>1. SUFFICES ASSUME T # {} PROVE FALSE
    OBVIOUS
  <2>2. PICK n \in T : \A k \in T : n <= k
    <3>1. T \subseteq Nat
      BY <1>0
    <3> HIDE DEF T
    <3> QED
      BY <2>1, <3>1, FirstNat
  <2>3. n \in Nat /\ n <= N
    BY <1>0, <2>2
  <2>4. CASE n = 0
    <3> DEFINE f == [m \in {} |-> {<<StartCell>>}]
    <3>1. 1 .. n = {}
      BY <2>4
    <3>2. f = Upto(f, n)
      BY <3>1
    <3> QED
      BY <2>2, <3>2
  <2>5. CASE n # 0
    <3>1. n - 1 \in 0 .. N /\ ~(n <= n - 1)
      BY <1>0, <2>3, <2>5
    <3>2. PICK g : g = Upto(g, n - 1)
      BY <2>2, <3>1
    <3> DEFINE last == IF n = 1 THEN {<<StartCell>>} ELSE Longer(g[n - 1], n - 1)
               f == [m \in 1 .. n |-> IF m = n THEN last ELSE g[m]]
    <3>3. \A m \in 1 .. (n - 1) : f[m] = g[m]
      BY <2>3
    <3>4. \A m \in 1 .. (n - 1) : g[m] = IF m = 1 THEN {<<StartCell>>} ELSE Longer(g[m - 1], m - 1)
      BY <3>2
    <3>5. f[n] = last
      BY <2>3, <2>5
    <3>6. ASSUME NEW m \in 1 .. n
          PROVE  f[m] = IF m = 1 THEN {<<StartCell>>} ELSE Longer(f[m - 1], m - 1)
      <4> HIDE DEF f, last
      <4>1. CASE m = n
        <5>1. n # 1 => n - 1 \in 1 .. (n - 1)
          BY <2>3, <2>5
        <5>2. n # 1 => f[n - 1] = g[n - 1]
          BY <3>3, <5>1
        <5> QED
          BY <3>5, <4>1, <5>2 DEF last
      <4>2. CASE m # n
        <5>1. m \in 1 .. (n - 1) /\ (m # 1 => m - 1 \in 1 .. (n - 1))
          BY <2>3, <4>2
        <5> QED
          BY <3>3, <3>4, <5>1
      <4> QED
        BY <4>1, <4>2
    <3>7. f = Upto(f, n)
      <4>1. f = [m \in 1 .. n |-> f[m]]
        OBVIOUS
      <4> HIDE DEF f
      <4> QED
        BY <3>6, <4>1
    <3> QED
      BY <2>2, <3>7
  <2> QED
    BY <2>4, <2>5
<1> DEFINE f == CHOOSE g : g = Upto(g, N)
<1>2. f = Upto(f, N)
  <2>1. \E g : g = Upto(g, N)
    BY <1>0, <1>1
  <2> HIDE DEF Upto
  <2> QED
    BY <2>1
<1>3. Ways = {way \in UNION {f[n] : n \in 1 .. N} : way[Len(way)] = GoalCell}
  BY DEF Ways, N
<1> HIDE DEF f
<1>4. \A n \in 1 .. N : f[n] = IF n = 1 THEN {<<StartCell>>} ELSE Longer(f[n - 1], n - 1)
  BY <1>2
<1> QED
  BY <1>3, <1>4 DEF N

LEMMA WaysAre ==
    ASSUME NEW way \in Ways
    PROVE  \E n \in Nat \ {0} : LeadsFromStart(way, n) /\ way[n] = GoalCell
<1> DEFINE N == Cardinality(Cells)
<1>0. N \in Nat
  BY PlannerAssumption, FS_CardinalityType, FS_Product DEF Cells
<1>1. PICK f : /\ Ways = {w \in UNION {f[n] : n \in 1 .. N} : w[Len(w)] = GoalCell}
               /\ \A n \in 1 .. N :
                     f[n] = IF n = 1 THEN {<<StartCell>>} ELSE Longer(f[n - 1], n - 1)
  BY WaysByLength
<1> HIDE DEF N
<1> DEFINE T == {n \in 1 .. N : ~\A w \in f[n] : LeadsFromStart(w, n)}
<1>2. ASSUME T # {} PROVE FALSE
  <2>1. PICK n \in T : \A k \in T : n <= k
    <3>1. T \subseteq Nat
      BY <1>0
    <3> HIDE DEF T
    <3> QED
      BY <1>2, <3>1, FirstNat
  <2>2. n \in 1 .. N /\ n \in Nat /\ ~\A w \in f[n] : LeadsFromStart(w, n)
    BY <1>0, <2>1
  <2>3. CASE n = 1
    <3>1. f[1] = {<<StartCell>>}
      BY <1>1, <2>2, <2>3
    <3>2. StartCell \in Cells
      BY PlannerAssumption DEF Cells
    <3>3. LeadsFromStart(<<StartCell>>, 1)
      BY <3>2 DEF LeadsFromStart
    <3> QED
      BY <2>2, <2>3, <3>1, <3>3
  <2>4. CASE n # 1
    <3>1. n - 1 \in 1 .. N /\ ~(n <= n - 1) /\ n - 1 \in Nat \ {0} /\ (n - 1) + 1 = n
      BY <1>0, <2>2, <2>4
    <3>2. \A w \in f[n - 1] : LeadsFromStart(w, n - 1)
      BY <2>1, <3>1
    <3>3. f[n] = Longer(f[n - 1], n - 1)
      BY <1>1, <2>2, <2>4
    <3>4. \A w \in Longer(f[n - 1], n - 1) : LeadsFromStart(w, (n - 1) + 1)
      BY <3>1, <3>2, WaysGrow
    <3> QED
      BY <2>2, <3>1, <3>3, <3>4
  <2> QED
    BY <2>3, <2>4
<1>3. PICK n \in 1 .. N : way \in f[n]
  BY <1>1
<1>4. LeadsFromStart(way, n) /\ n \in Nat \ {0}
  BY <1>0, <1>2, <1>3
<1>5. way[Len(way)] = GoalCell
  BY <1>1
<1> QED
  BY <1>4, <1>5 DEF LeadsFromStart

\* The cost of a way is the last of the costs to each of its cells.
LEMMA CostsAlong ==
    ASSUME NEW way, NEW n \in Nat \ {0}, LeadsFromStart(way, n)
    PROVE  \E cost : /\ cost[1] = 0 /\ cost[n] = WayCost(way)
                     /\ \A i \in 2 .. n : cost[i] = cost[i - 1] + StepCost(way[i - 1], way[i])
<1> DEFINE Upto(f, k) == [i \in 1 .. k |-> IF i = 1 THEN 0
                                            ELSE f[i - 1] + StepCost(way[i - 1], way[i])]
<1>0. DOMAIN way = 1 .. n /\ Len(way) = n
  BY DEF LeadsFromStart
<1>1. \A k \in 0 .. n : \E f : f = Upto(f, k)
  <2> DEFINE T == {k \in 0 .. n : ~\E f : f = Upto(f, k)}
  <2>1. SUFFICES ASSUME T # {} PROVE FALSE
    OBVIOUS
  <2>2. PICK k \in T : \A j \in T : k <= j
    <3>1. T \subseteq Nat
      OBVIOUS
    <3> HIDE DEF T
    <3> QED
      BY <2>1, <3>1, FirstNat
  <2>3. k \in Nat /\ k <= n
    BY <2>2
  <2>4. CASE k = 0
    <3> DEFINE f == [m \in {} |-> 0]
    <3>1. 1 .. k = {}
      BY <2>4
    <3>2. f = Upto(f, k)
      BY <3>1
    <3> QED
      BY <2>2, <3>2
  <2>5. CASE k # 0
    <3>1. k - 1 \in 0 .. n /\ ~(k <= k - 1)
      BY <2>3, <2>5
    <3>2. PICK g : g = Upto(g, k - 1)
      BY <2>2, <3>1
    <3> DEFINE last == IF k = 1 THEN 0 ELSE g[k - 1] + StepCost(way[k - 1], way[k])
               f == [m \in 1 .. k |-> IF m = k THEN last ELSE g[m]]
    <3>3. \A m \in 1 .. (k - 1) : f[m] = g[m]
      BY <2>3
    <3>4. \A m \in 1 .. (k - 1) :
            g[m] = IF m = 1 THEN 0 ELSE g[m - 1] + StepCost(way[m - 1], way[m])
      BY <3>2
    <3>5. f[k] = last
      BY <2>3, <2>5
    <3>6. ASSUME NEW m \in 1 .. k
          PROVE  f[m] = IF m = 1 THEN 0 ELSE f[m - 1] + StepCost(way[m - 1], way[m])
      <4> HIDE DEF f, last
      <4>1. CASE m = k
        <5>1. k # 1 => k - 1 \in 1 .. (k - 1)
          BY <2>3, <2>5
        <5>2. k # 1 => f[k - 1] = g[k - 1]
          BY <3>3, <5>1
        <5> QED
          BY <3>5, <4>1, <5>2 DEF last
      <4>2. CASE m # k
        <5>1. m \in 1 .. (k - 1) /\ (m # 1 => m - 1 \in 1 .. (k - 1))
          BY <2>3, <4>2
        <5> QED
          BY <3>3, <3>4, <5>1
      <4> QED
        BY <4>1, <4>2
    <3>7. f = Upto(f, k)
      <4>1. f = [m \in 1 .. k |-> f[m]]
        OBVIOUS
      <4> HIDE DEF f
      <4> QED
        BY <3>6, <4>1
    <3> QED
      BY <2>2, <3>7
  <2> QED
    BY <2>4, <2>5
<1> DEFINE f == CHOOSE g : g = Upto(g, n)
<1>2. f = Upto(f, n)
  <2>1. \E g : g = Upto(g, n)
    BY <1>1
  <2> HIDE DEF Upto
  <2> QED
    BY <2>1
<1>3. WayCost(way) = f[n]
  BY <1>0 DEF WayCost
<1> HIDE DEF f
<1>4. f[1] = 0 /\ \A i \in 2 .. n : f[i] = f[i - 1] + StepCost(way[i - 1], way[i])
  BY <1>2
<1> QED
  BY <1>3, <1>4

\* From no cell of a way the estimate is more than what the way still costs.
LEMMA EstimateIsNoMore ==
    ASSUME NEW way, NEW n \in Nat \ {0}, LeadsFromStart(way, n), way[n] = GoalCell,
           NEW cost, cost[1] = 0,
           \A i \in 2 .. n : cost[i] = cost[i - 1] + StepCost(way[i - 1], way[i]),
           penalty \in [Columns -> Penalties]
    PROVE  \A i \in 1 .. n : /\ cost[i] \in Nat /\ Heuristic(way[i]) \in Nat
                             /\ cost[i] + Heuristic(way[i]) <= cost[n]
<1>1. ASSUME NEW i \in 2 .. n
      PROVE  /\ Heuristic(way[i - 1]) \in Nat /\ Heuristic(way[i]) \in Nat
             /\ StepCost(way[i - 1], way[i]) \in Nat
             /\ Heuristic(way[i - 1]) <= StepCost(way[i - 1], way[i]) + Heuristic(way[i])
  <2>1. i - 1 \in 1 .. n - 1 /\ (i - 1) + 1 = i /\ i - 1 \in 1 .. n
    OBVIOUS
  <2>2. way[i] \in Neighbours(way[i - 1]) /\ way[i - 1] \in Cells
    BY <2>1 DEF LeadsFromStart
  <2> QED
    BY <2>2, EstimateIsConsistent
<1>2. \A i \in 1 .. n : cost[i] \in Nat
  <2> DEFINE T == {i \in 1 .. n : cost[i] \notin Nat}
  <2>1. SUFFICES ASSUME T # {} PROVE FALSE
    OBVIOUS
  <2>2. PICK i \in T : \A j \in T : i <= j
    <3>1. T \subseteq Nat
      OBVIOUS
    <3> HIDE DEF T
    <3> QED
      BY <2>1, <3>1, FirstNat
  <2>3. i \in 2 .. n
    <3>1. i \in 1 .. n /\ i # 1
      BY <2>2
    <3> QED
      BY <3>1
  <2>4. i - 1 \in 1 .. n /\ ~(i <= i - 1)
    BY <2>3
  <2>5. cost[i - 1] \in Nat
    BY <2>2, <2>4
  <2>6. cost[i] = cost[i - 1] + StepCost(way[i - 1], way[i])
    BY <2>3
  <2>7. cost[i] \in Nat
    BY <1>1, <2>3, <2>5, <2>6
  <2> QED
    BY <2>2, <2>7
<1>3. ASSUME NEW i \in 1 .. n PROVE Heuristic(way[i]) \in Nat
  <2>1. CASE i = n
    BY <2>1, GoalEstimate
  <2>2. CASE i # n
    <3>1. i + 1 \in 2 .. n /\ (i + 1) - 1 = i
      BY <2>2
    <3> QED
      BY <1>1, <3>1
  <2> QED
    BY <2>1, <2>2
<1> DEFINE Late == {k \in 0 .. n - 1 : ~(cost[n - k] + Heuristic(way[n - k]) <= cost[n])}
<1>4. ASSUME Late # {} PROVE FALSE
  <2>1. PICK k \in Late : \A j \in Late : k <= j
    <3>1. Late \subseteq Nat
      OBVIOUS
    <3> HIDE DEF Late
    <3> QED
      BY <1>4, <3>1, FirstNat
  <2>2. k \in 0 .. n - 1 /\ ~(cost[n - k] + Heuristic(way[n - k]) <= cost[n])
    BY <2>1
  <2>3. CASE k = 0
    <3>1. n - k = n /\ n \in 1 .. n
      BY <2>3
    <3>2. cost[n] \in Nat /\ Heuristic(way[n]) = 0
      BY <1>2, <3>1, GoalEstimate
    <3> QED
      BY <2>2, <3>1, <3>2
  <2>4. CASE k # 0
    <3>1. k - 1 \in 0 .. n - 1 /\ ~(k <= k - 1)
      BY <2>2, <2>4
    <3> DEFINE i == n - (k - 1)
    <3>2. i \in 2 .. n /\ i - 1 = n - k /\ i \in 1 .. n /\ i - 1 \in 1 .. n /\ n \in 1 .. n
      BY <2>2, <2>4
    <3>3. cost[i] + Heuristic(way[i]) <= cost[n]
      BY <2>1, <3>1
    <3> HIDE DEF i
    <3>4. /\ Heuristic(way[i - 1]) \in Nat /\ Heuristic(way[i]) \in Nat
          /\ StepCost(way[i - 1], way[i]) \in Nat
          /\ Heuristic(way[i - 1]) <= StepCost(way[i - 1], way[i]) + Heuristic(way[i])
      BY <1>1, <3>2
    <3>5. cost[i] = cost[i - 1] + StepCost(way[i - 1], way[i])
      BY <3>2
    <3>6. cost[i] \in Nat /\ cost[i - 1] \in Nat /\ cost[n] \in Nat
      BY <1>2, <3>2
    <3>7. cost[i - 1] + Heuristic(way[i - 1]) <= cost[n]
      BY <3>3, <3>4, <3>5, <3>6
    <3> QED
      BY <2>2, <3>2, <3>7
  <2> QED
    BY <2>3, <2>4
<1>5. ASSUME NEW i \in 1 .. n PROVE cost[i] + Heuristic(way[i]) <= cost[n]
  <2>1. n - i \in 0 .. n - 1 /\ n - (n - i) = i
    OBVIOUS
  <2>2. n - i \notin Late
    BY <1>4
  <2> QED
    BY <2>1, <2>2
<1> QED
  BY <1>2, <1>3, <1>5
-----------------------------------------------------------------------------
LEMMA FoundIsCheapest ==
    ASSUME SearchHolds, search = "found", penalty \in [Columns -> Penalties], NEW way \in OpenWays
    PROVE  gCost[GoalCell] <= WayCost(way)
<1>1. way \in Ways /\ \A i \in DOMAIN way : Traversable(way[i])
  BY DEF OpenWays
<1>2. PICK n \in Nat \ {0} : LeadsFromStart(way, n) /\ way[n] = GoalCell
  BY <1>1, WaysAre
<1>3. PICK cost : /\ cost[1] = 0 /\ cost[n] = WayCost(way)
                  /\ \A i \in 2 .. n : cost[i] = cost[i - 1] + StepCost(way[i - 1], way[i])
  BY <1>2, CostsAlong
<1>4. \A i \in 1 .. n : /\ cost[i] \in Nat /\ Heuristic(way[i]) \in Nat
                        /\ cost[i] + Heuristic(way[i]) <= cost[n]
  BY <1>2, <1>3, EstimateIsNoMore
<1>5. /\ CellsMet /\ ClosedInOrder /\ NeighboursShown /\ GoalCell \in closedCells
  BY DEF SearchHolds, EndIsKnown
<1>6. GoalCell \in DOMAIN gCost
  BY <1>5 DEF CellsMet
<1>7. gCost[GoalCell] \in Nat /\ Estimate(GoalCell) = gCost[GoalCell]
  BY <1>5, <1>6, EstimatesTyped, GoalEstimate
<1>8. ASSUME NEW i \in 1 .. n, way[i] \in DOMAIN gCost, gCost[way[i]] <= cost[i],
             way[i] \notin closedCells
      PROVE  gCost[GoalCell] <= cost[n]
  <2>1. Estimate(GoalCell) <= Estimate(way[i])
    BY <1>5, <1>8 DEF ClosedInOrder, Fringe
  <2>2. Estimate(way[i]) = gCost[way[i]] + Heuristic(way[i]) /\ gCost[way[i]] \in Nat
    BY <1>5, <1>8, EstimatesTyped
  <2>3. /\ cost[i] \in Nat /\ Heuristic(way[i]) \in Nat
        /\ cost[i] + Heuristic(way[i]) <= cost[n] /\ cost[n] \in Nat
    <3>1. n \in 1 .. n
      OBVIOUS
    <3> QED
      BY <1>4, <3>1
  <2> QED
    BY <1>7, <1>8, <2>1, <2>2, <2>3
<1> DEFINE Reached(i) == way[i] \in closedCells /\ gCost[way[i]] <= cost[i]
<1>9. SUFFICES ASSUME ~(gCost[GoalCell] <= cost[n]) PROVE FALSE
  BY <1>3
<1> DEFINE T == {i \in 1 .. n : ~Reached(i)}
<1>10. n \in T
  <2>1. n \in 1 .. n
    OBVIOUS
  <2> QED
    BY <1>2, <1>9, <2>1
<1>11. PICK i \in T : \A j \in T : i <= j
  <2>1. T \subseteq Nat /\ T # {}
    BY <1>10
  <2> HIDE DEF T
  <2> QED
    BY <2>1, FirstNat
<1>12. i \in 1 .. n /\ ~Reached(i)
  BY <1>11
<1>13. way[i] \in DOMAIN gCost /\ gCost[way[i]] <= cost[i]
  <2>1. CASE i = 1
    BY <1>2, <1>3, <1>5, <2>1 DEF LeadsFromStart, CellsMet
  <2>2. CASE i # 1
    <3>1. /\ i - 1 \in 1 .. n /\ ~(i <= i - 1) /\ i \in 2 .. n /\ i - 1 \in 1 .. n - 1
          /\ (i - 1) + 1 = i
      BY <1>12, <2>2
    <3>2. Reached(i - 1)
      BY <1>11, <3>1
    <3>3. way[i - 1] # GoalCell
      <4>1. SUFFICES ASSUME way[i - 1] = GoalCell PROVE FALSE
        OBVIOUS
      <4>2. gCost[GoalCell] <= cost[i - 1]
        BY <3>2, <4>1
      <4>3. n \in 1 .. n
        OBVIOUS
      <4>4. /\ cost[i - 1] \in Nat /\ cost[n] \in Nat /\ Heuristic(way[i - 1]) \in Nat
            /\ cost[i - 1] + Heuristic(way[i - 1]) <= cost[n]
        BY <1>4, <3>1, <4>3
      <4> QED
        BY <1>7, <1>9, <4>2, <4>4
    <3>4. way[i] \in Neighbours(way[i - 1])
      BY <1>2, <3>1 DEF LeadsFromStart
    <3>5. Traversable(way[i])
      <4>1. DOMAIN way = 1 .. n
        BY <1>2 DEF LeadsFromStart
      <4> QED
        BY <1>1, <1>12, <4>1
    <3>6. /\ way[i] \in DOMAIN gCost
          /\ gCost[way[i]] <= gCost[way[i - 1]] + StepCost(way[i - 1], way[i])
      BY <1>5, <3>2, <3>3, <3>4, <3>5 DEF NeighboursShown
    <3>7. cost[i] = cost[i - 1] + StepCost(way[i - 1], way[i])
      BY <1>3, <3>1
    <3>8. gCost[way[i]] \in Nat /\ gCost[way[i - 1]] \in Nat /\ cost[i - 1] \in Nat
      <4>1. way[i - 1] \in DOMAIN gCost
        BY <1>5, <3>2 DEF CellsMet
      <4> QED
        BY <1>4, <1>5, <3>1, <3>6, <4>1, EstimatesTyped
    <3>9. StepCost(way[i - 1], way[i]) \in Nat
      <4>1. way[i - 1] \in Cells
        BY <1>2, <3>1 DEF LeadsFromStart
      <4> QED
        BY <3>4, <4>1, EstimateIsConsistent
    <3>10. gCost[way[i - 1]] <= cost[i - 1]
      BY <3>2
    <3> QED
      BY <3>6, <3>7, <3>8, <3>9, <3>10
  <2> QED
    BY <2>1, <2>2
<1>14. way[i] \notin closedCells
  BY <1>12, <1>13
<1> QED
  BY <1>8, <1>9, <1>12, <1>13, <1>14

LEMMA FailedHasNoWay ==
    ASSUME PlannerInv, search = "failed", NEW way \in OpenWays
    PROVE  FALSE
<1>1. way \in Ways /\ \A i \in DOMAIN way : Traversable(way[i])
  BY DEF OpenWays
<1>2. PICK n \in Nat \ {0} : LeadsFromStart(way, n) /\ way[n] = GoalCell
  BY <1>1, WaysAre
<1>3. DOMAIN way = 1 .. n /\ way[1] = StartCell /\ 1 \in 1 .. n /\ n \in 1 .. n
  BY <1>2 DEF LeadsFromStart
<1>4. Traversable(StartCell) /\ Traversable(GoalCell)
  BY <1>1, <1>2, <1>3
<1>5. /\ CellsMet /\ QueueHolds /\ NeighboursShown
      /\ GoalCell \notin closedCells /\ open = {}
  BY <1>4 DEF PlannerInv, SearchHolds, EndIsKnown
<1>6. DOMAIN gCost \subseteq closedCells
  BY <1>5 DEF QueueHolds, Fringe
<1> DEFINE T == {i \in 1 .. n : way[i] \notin closedCells}
<1>7. n \in T
  BY <1>2, <1>3, <1>5
<1>8. PICK i \in T : \A j \in T : i <= j
  <2>1. T \subseteq Nat /\ T # {}
    BY <1>7
  <2> HIDE DEF T
  <2> QED
    BY <2>1, FirstNat
<1>9. i \in 1 .. n /\ way[i] \notin closedCells
  BY <1>8
<1>10. CASE i = 1
  BY <1>3, <1>5, <1>6, <1>9, <1>10 DEF CellsMet
<1>11. CASE i # 1
  <2>1. /\ i - 1 \in 1 .. n /\ ~(i <= i - 1) /\ i - 1 \in 1 .. n - 1 /\ (i - 1) + 1 = i
    BY <1>9, <1>11
  <2>2. way[i - 1] \in closedCells \ {GoalCell}
    BY <1>5, <1>8, <2>1
  <2>3. way[i] \in Neighbours(way[i - 1])
    BY <1>2, <2>1 DEF LeadsFromStart
  <2>4. way[i] \in DOMAIN gCost
    BY <1>1, <1>3, <1>5, <1>9, <2>2, <2>3 DEF NeighboursShown
  <2> QED
    BY <1>6, <1>9, <2>4
<1> QED
  BY <1>10, <1>11

\* Type correctness of the search: every cell that waits was met.
THEOREM PlannerTyped == PlannerSpec => []PlannerTypeOK
<1>1. PlannerInv => PlannerTypeOK
  BY DEF PlannerInv
<1> QED
  BY <1>1, PlannerInvariant, PTL

\* On any grid, with any penalties, terrain and obstacle: the route found is a way
\* over cells the rover may enter and no way is cheaper; a search that fails had
\* no way to find.
THEOREM RouteFoundIsCheapest == PlannerSpec => []RouteIsCheapest
<1>1. PlannerInv => RouteIsCheapest
  <2> SUFFICES ASSUME PlannerInv PROVE RouteIsCheapest
    OBVIOUS
  <2>1. penalty \in [Columns -> Penalties]
    BY DEF PlannerInv, PlannerTypeOK
  <2>2. ASSUME search = "found"
        PROVE  /\ \A way \in OpenWays : gCost[GoalCell] <= WayCost(way)
               /\ \A c \in DOMAIN parent :
                     /\ Traversable(c) /\ c \in Neighbours(parent[c])
                     /\ gCost[c] = gCost[parent[c]] + StepCost(parent[c], c)
    <3>1. SearchHolds
      BY <2>2 DEF PlannerInv
    <3>2. \A way \in OpenWays : gCost[GoalCell] <= WayCost(way)
      BY <2>1, <2>2, <3>1, FoundIsCheapest
    <3>3. ParentsLead
      BY <3>1 DEF SearchHolds
    <3> QED
      BY <3>2, <3>3 DEF ParentsLead
  <2>3. ASSUME search = "failed" PROVE OpenWays = {}
    BY <2>3, FailedHasNoWay
  <2> QED
    BY <2>2, <2>3 DEF RouteIsCheapest
<1> QED
  BY <1>1, PlannerInvariant, PTL
=============================================================================
