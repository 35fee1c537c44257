--------------------------- MODULE MissionRuntime ---------------------------
(***************************************************************************)
(* The runtime controller of the physical mission                          *)
(* (mission/physical_mission_runtime_controller) behind the line protocol  *)
(* of its process.  Start, pause, resume, abort, reset and step arrive in  *)
(* any order; mission() also hands the engine itself to the caller, who    *)
(* runs the stages of the lunar orbit on it directly.                      *)
(***************************************************************************)
EXTENDS PhysicalEngine

CONSTANTS
    MaxControl,        \* bound: control_sequence_
    MaxTelemetry,      \* bound: steps of the mission
    MaxBurns           \* bound: how often a stage burns

ASSUME RuntimeAssumption == MaxControl \in Nat /\ MaxTelemetry \in Nat /\ MaxBurns \in Nat

RuntimeStates == {"Ready", "Running", "Paused", "Completed", "Aborted", "Fault"}

VARIABLES
    mission,           \* the engine
    runtime,           \* the state of the controller
    controlSequence,
    shown,             \* snapshot_.physical, as far as report goes
    burns              \* history: how often each stage burned since the last reset

runtimeVars == <<mission, runtime, controlSequence, shown, burns>>

\* The process runs event-driven, the tests of the controller with timers.
RuntimeInit ==
    /\ \E driven \in BOOLEAN : mission = NewEngine(driven)
    /\ runtime = "Ready" /\ controlSequence = 0
    /\ shown = mission.report
    /\ burns = [s \in OrbitStages |-> 0]

\* A transition of the controller; refresh() copies the engine's snapshot.
Moves(from, to) ==
    /\ runtime \in from
    /\ controlSequence < MaxControl
    /\ runtime' = to
    /\ controlSequence' = controlSequence + 1
    /\ shown' = mission.report
    /\ UNCHANGED <<mission, burns>>

\* mutant: whatever the controller was doing
AbortAnything == Moves(RuntimeStates, "Aborted")

Start  == Moves({"Ready"}, "Running")
Pause  == Moves({"Running"}, "Paused")
Resume == Moves({"Paused"}, "Running")
Abort  == Moves({"Running", "Paused"}, "Aborted")

ResetRuntime ==
    /\ mission' = NewEngine(mission.driven)
    /\ runtime' = "Ready" /\ controlSequence' = 0
    /\ shown' = NewEngine(mission.driven).report
    /\ burns' = [s \in OrbitStages |-> 0]

\* What a step of the engine makes of the controller.
StateAfterStep(after, throws) ==
    CASE throws -> "Fault"
      [] ~throws /\ after.phase = "Complete" -> "Completed"
      [] OTHER -> "Running"

\* step() in a final state does nothing; before a start or in a pause it only
\* refreshes.
StepRuntime(draw) ==
    \/ /\ runtime \in {"Ready", "Paused"}
       /\ shown' = mission.report
       /\ UNCHANGED <<mission, runtime, controlSequence, burns>>
    \/ /\ runtime = "Running"
       /\ mission.sequence < MaxTelemetry /\ controlSequence < MaxControl
       /\ Possible(mission, draw)
       /\ mission' = EngineAfter(mission, draw)
       /\ runtime' = StateAfterStep(mission', draw.throws)
       /\ controlSequence' = IF runtime' = "Running" THEN controlSequence ELSE controlSequence + 1
       /\ shown' = mission'.report
       /\ UNCHANGED burns

\* A stage called through mission(): the controller is not told.
RunStage(stage, outcome, fuel) ==
    /\ StagePossible(mission, stage, outcome, fuel)
    /\ StageBurns(mission, stage) => burns[stage] < MaxBurns
    /\ mission' = StageAfter(mission, stage, outcome, fuel)
    /\ burns' = IF StageBurns(mission, stage) /\ outcome # "throws before"
                THEN [burns EXCEPT ![stage] = @ + 1] ELSE burns
    /\ UNCHANGED <<runtime, controlSequence, shown>>

RuntimeNext ==
    \/ Start \/ Pause \/ Resume \/ Abort \/ ResetRuntime
    \/ \E draw \in EngineDraws : StepRuntime(draw)
    \/ \E stage \in OrbitStages, outcome \in StageOutcomes, fuel \in BOOLEAN :
           RunStage(stage, outcome, fuel)

RuntimeSpec == RuntimeInit /\ [][RuntimeNext]_runtimeVars
-----------------------------------------------------------------------------
RuntimeTypeOK ==
    /\ mission \in EngineType
    /\ runtime \in RuntimeStates
    /\ controlSequence \in 0..MaxControl
    /\ shown \in [phase : MissionPhases, sequence : Nat]
    /\ burns \in [OrbitStages -> Nat]

\* The client of the runtime tells two states of the controller apart by
\* control_sequence alone, and only a running controller moves the clock of
\* the mission: every change of state counts exactly one, nothing else counts,
\* and a mission that is not running stands still until the next reset
\* (runtime_controller.cpp: start, pause, resume, abort, step).
ControlTells ==
    [][ \/ ResetRuntime
        \/ /\ controlSequence' = controlSequence + (IF runtime' = runtime THEN 0 ELSE 1)
           /\ runtime \in {"Completed", "Aborted", "Fault"} => runtime' = runtime
           /\ mission'.sequence # mission.sequence => runtime = "Running"
      ]_runtimeVars

\* The stages of the lunar orbit stay in order whatever is called, retried
\* after an exception or stepped in between: a stage burns only after the ones
\* it builds on are done, once done it never burns again, and an event-driven
\* mission with a stage done never leaves the lunar orbit
\* (execute_lunar_orbit_insertion, _operations, _descent_preparation; "No timer
\* may promote this state to descent/landing").
StagesInOrder ==
    [][ \/ ResetRuntime
        \/ /\ \A s \in OrbitStages : burns'[s] # burns[s] =>
                  /\ s \notin mission.executed
                  /\ \A t \in StageBefore[s] : t \in mission.executed /\ burns[t] > 0
           /\ mission.driven /\ (\E s \in OrbitStages : burns[s] > 0)
                  => mission'.phase = "LunarOrbit"
      ]_runtimeVars
=============================================================================
