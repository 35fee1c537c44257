--------------------------- MODULE PhysicalEngine ---------------------------
(***************************************************************************)
(* The physical mission engine (mission/physical_mission_execution) as     *)
(* operators on its state.  Time is counted in steps; where the orbit or   *)
(* the tank decide, an argument "draw" names what they did.  With timers,  *)
(* every phase ends after its configured time; event-driven, the injection *)
(* lasts as long as its planned burn and the cruise until the Moon is      *)
(* reached.                                                                *)
(***************************************************************************)
EXTENDS Integers, FiniteSets

CONSTANTS
    Holds,             \* configured length of each phase of the timers, in steps
    InjectionSteps     \* length of the planned injection burn, in steps

MissionPhases == {"Launch", "EarthOrbit", "TransLunarInjection", "LunarCruise", "LunarOrbit",
                  "Descent", "Landing", "RoverDeployment", "SurfaceOperations", "Complete",
                  "Fault"}
TimedPhases == {"EarthOrbit", "TransLunarInjection", "LunarCruise", "LunarOrbit", "Descent",
                "Landing"}

ASSUME EngineAssumption == Holds \in [TimedPhases -> Nat] /\ InjectionSteps \in Nat

\* The stages of the lunar orbit, in the order in which they are to be called.
OrbitStages == {"insertion", "operations", "preparation"}
StageBefore == [insertion |-> {}, operations |-> {"insertion"},
                preparation |-> {"insertion", "operations"}]

NotPlanned == -1      \* tli_burn_initialized_ is false

\* Power, temperature and the statuses made of them are reported and read by
\* nothing: they are left out.
\* executed: the stages done; failed: those whose result is not the wanted one;
\* report: what snapshot() shows of phase and sequence.
EngineType ==
    [driven : BOOLEAN, phase : MissionPhases, elapsed : Nat, sequence : Nat,
     burn : Nat \union {NotPlanned}, fuel : BOOLEAN, firing : BOOLEAN,
     executed : SUBSET OrbitStages, failed : SUBSET OrbitStages,
     report : [phase : MissionPhases, sequence : Nat]]

NewEngine(driven) ==
    [driven |-> driven, phase |-> "EarthOrbit", elapsed |-> 0, sequence |-> 0,
     burn |-> NotPlanned, fuel |-> TRUE, firing |-> FALSE,
     executed |-> {}, failed |-> {}, report |-> [phase |-> "EarthOrbit", sequence |-> 0]]

Refreshed(m) == [m EXCEPT !.report = [phase |-> m.phase, sequence |-> m.sequence]]
-----------------------------------------------------------------------------
(* One step.  A draw says whether propellant is left, whether the Moon's   *)
(* sphere of influence is reached and whether the numerics throw (a vector *)
(* that cannot be normalized).                                             *)

EngineDraws == [fuel : BOOLEAN, arrived : BOOLEAN, throws : BOOLEAN]

Injecting(m) == m.driven /\ m.phase = "TransLunarInjection"
Planned(m) == IF Injecting(m) /\ m.burn = NotPlanned
              THEN [m EXCEPT !.burn = InjectionSteps] ELSE m

\* The event-driven step that finds the burn used up only changes the phase.
BurnIsOver(m) == Injecting(m) /\ Planned(m).burn = 0

Propagates(m) == m.phase \in TimedPhases /\ ~BurnIsOver(m)
Commanded(m) == m.phase \in {"TransLunarInjection", "Descent", "Landing"}
Fires(m) == Commanded(m) /\ m.fuel

Possible(m, draw) ==
    /\ draw.fuel => m.fuel
    /\ ~Fires(m) \/ draw.throws => draw.fuel = m.fuel
    /\ draw.arrived => m.driven /\ m.phase = "LunarCruise" /\ ~draw.throws
    /\ draw.throws => Propagates(m)

NextPhase == [EarthOrbit |-> "TransLunarInjection", TransLunarInjection |-> "LunarCruise",
              LunarCruise |-> "LunarOrbit", LunarOrbit |-> "Descent", Descent |-> "Landing",
              Landing |-> "Complete"]

\* Is the phase over at the end of this step?  No timer ends the lunar orbit
\* of an event-driven mission.
PhaseIsOver(m, draw) ==
    IF m.driven
    THEN \/ m.phase = "EarthOrbit" /\ m.elapsed + 1 >= Holds["EarthOrbit"]
         \/ BurnIsOver(m)
         \/ m.phase = "LunarCruise" /\ draw.arrived
    ELSE m.phase \in TimedPhases /\ m.elapsed + 1 >= Holds[m.phase]

\* telemetry_sequence_ and the timers move before the physics can throw.
Counted(m) ==
    [m EXCEPT !.sequence = @ + 1,
              !.elapsed = IF Injecting(m) \/ (m.driven /\ ~Propagates(m)) THEN @ ELSE @ + 1]

EngineStepped(m, draw) ==
    LET counted == Counted(Planned(m))
        burned  == IF Injecting(m) /\ Propagates(m)
                   THEN [counted EXCEPT !.burn = @ - 1, !.elapsed = @ + 1] ELSE counted
        moved   == [burned EXCEPT !.fuel = draw.fuel,
                                  !.firing = IF Propagates(m) THEN Fires(m) ELSE @]
    IN  Refreshed(IF PhaseIsOver(m, draw)
                  THEN [moved EXCEPT !.phase = NextPhase[m.phase], !.elapsed = 0,
                                     !.burn = IF m.phase = "EarthOrbit" THEN NotPlanned ELSE @]
                  ELSE moved)

\* mission_.step(): with an exception the snapshot is not refreshed.
EngineAfter(m, draw) ==
    IF draw.throws THEN Counted(Planned(m)) ELSE EngineStepped(m, draw)
-----------------------------------------------------------------------------
(* The stages of the lunar orbit.  A stage called out of order throws, one *)
(* that is done returns its stored result.  Otherwise it burns, coasts and *)
(* burns again in one call, and may throw before the first burn (geometry, *)
(* a correction out of bounds, an orbit that does not suit) or between     *)
(* burns (a window or an apsis not found): the burns are not undone.       *)

\* mutant: the caller's order is trusted
StageAllowedInOrbit(m, stage) == m.phase = "LunarOrbit"

StageAllowed(m, stage) == m.phase = "LunarOrbit" /\ StageBefore[stage] \subseteq m.executed

StageOutcomes == {"throws before", "throws between", "reached", "missed"}

\* The preparation that misses its orbit stores the result, then throws.
StageThrows(stage, outcome) ==
    outcome \in {"throws before", "throws between"} \/ (stage = "preparation" /\ outcome = "missed")

StageBurns(m, stage) == StageAllowed(m, stage) /\ stage \notin m.executed

\* An empty tank is never a descent-ready orbit.
StagePossible(m, stage, outcome, fuel) ==
    /\ fuel => m.fuel
    /\ outcome = "reached" /\ stage = "preparation" => fuel
    /\ ~StageBurns(m, stage) \/ outcome = "throws before" => fuel = m.fuel

StageAfter(m, stage, outcome, fuel) ==
    IF ~StageBurns(m, stage) \/ outcome = "throws before" THEN m
    ELSE IF outcome = "throws between" THEN [m EXCEPT !.fuel = fuel, !.firing = FALSE]
    ELSE Refreshed([m EXCEPT !.fuel = fuel, !.executed = @ \union {stage},
                             !.firing = stage = "insertion" /\ fuel,
                             !.failed = IF outcome = "missed" THEN @ \union {stage} ELSE @])
=============================================================================
